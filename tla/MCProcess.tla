------------------------------ MODULE MCProcess ------------------------------
(* Instances of Process for TLC.                                            *)
EXTENDS Process, SequencesExt

\* A section as config.hpp shows it, its options written without spaces, or one of
\* them with spaces around the sign of equality.
Tight == [general |-> <<Section(General), Blank>>,
          hub     |-> <<Section(HubName), Option("name")>>,
          channel |-> <<Section(Chan), Option("name"), Option("direction"), Option("type")>>]
Spaced == [general |-> <<Section(General), Blank, Blank, Blank>>,
           hub     |-> <<Section(HubName), Blank, Blank, Blank>>,
           channel |-> <<Section(Chan), Option("name"), Option("direction"), Blank, Blank, Blank>>]
Forms == {Tight[k] : k \in DOMAIN Tight} \cup {Spaced[k] : k \in DOMAIN Spaced}

HubOf(n) == <<Tight.hub>> \o [i \in 1..n |-> Tight.channel]

\* Up to two hubs with up to three channels, and any three sections or fewer in any order.
UpToTwo == {HubOf(n) : n \in 1..3} \cup {HubOf(n) \o HubOf(m) : n, m \in 1..3}
Sections == UpToTwo \cup {<<Tight.general>> \o s : s \in UpToTwo}
              \cup UNION {[1..n -> Forms] : n \in 0..3}

\* Whole, and broken off after any word.
MCWords == UNION {Prefixes(FlattenSeq(s)) : s \in Sections}
MCFiles == [words : MCWords, newline : BOOLEAN, opens : {TRUE}]
             \cup [words : {<<>>}, newline : {TRUE}, opens : {FALSE}]

\* The shortest file config.hpp describes: a hub and a channel.
HubOnly == [words : {FlattenSeq(HubOf(1))}, newline : {TRUE}, opens : {TRUE}]
=============================================================================
