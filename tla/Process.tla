------------------------------- MODULE Process -------------------------------
(***************************************************************************)
(* The main program (main.cpp): reading the configuration file word by     *)
(* word, activating the hubs, the tick loop, SIGINT, and shutdown.         *)
(*                                                                         *)
(* A file is any sequence of words.  Section names are spelled out, because *)
(* cistrcmp() is about letters; of the other words, those that parseConfig() *)
(* can read are known by the option they set, if a hub or every channel    *)
(* needs it, and the others are all alike.  A hub is known by its number of *)
(* channels, a channel by the place of its section in the file.            *)
(***************************************************************************)
EXTENDS Integers, Sequences, FiniteSets

CONSTANT Files      \* the files read: see FileType

General == <<"g", "e", "n", "e", "r", "a", "l">>
HubName == <<"h", "u", "b">>
Chan    == <<"c", "h", "a", "n", "n", "e", "l">>
Section(name) == [section |-> name]     \* the word "[name]"
Option(key)   == [option |-> key]       \* the word "key=value"

\* Any other word: the empty string, an option that nobody here asks for, and each of
\* the words that an option with spaces in it is: parseConfig() makes nothing of them.
Blank == Option("none")

\* A channel cannot do without these, of which a hub needs the name alone.  A type is
\* one that a class is registered for.
Needed == {Option(key) : key \in {"name", "type", "direction"}}

WordType == {Section(name) : name \in {General, HubName, Chan}} \cup Needed \cup {Blank}

\* A file: its words, does it end in a newline, can it be opened and read.
FileType == [words : Seq(WordType), newline : BOOLEAN, opens : BOOLEAN]

ASSUME ProcessAssumption ==
  /\ Files \subseteq FileType
  /\ \A f \in Files : f.opens \/ f.words = <<>>

VARIABLES
  file,         \* the file being read
  rest,         \* its words not yet read
  eof,          \* config_stream.eof()
  line,         \* line
  match,        \* optionMatches[1], empty after a failed match
  buffer,       \* the words collected in buffer
  channels,     \* channels created for currentHub
  hubs,         \* hublist
  header,       \* history: the place of the last section header read, 0 before
  made,         \* history: the sections that channels were created from, oldest first
  pc,           \* where main() is
  running,      \* running
  handler,      \* the signal handler is installed
  index,        \* position of a loop over hublist
  active,       \* hubs activated and not yet deactivated
  signals,      \* history: SIGINTs sent
  caught,       \* history: one came to the handler when main() had set running
  late          \* history: rounds of ticks begun after that, 0, 1, 2 or more

parseVars  == <<rest, eof, line, match, buffer, channels, hubs, header, made>>
signalVars == <<handler, signals, caught>>
vars == <<file, parseVars, pc, running, signalVars, index, active, late>>

Init ==
  /\ file \in Files
  /\ rest = file.words /\ eof = FALSE
  /\ line = Blank /\ match = <<>> /\ buffer = {} /\ channels = 0 /\ hubs = <<>>
  /\ header = 0 /\ made = <<>>
  /\ pc = "outer"
  /\ running = FALSE /\ handler = FALSE /\ index = 1 /\ active = {}
  /\ signals = 0 /\ caught = FALSE /\ late = 0

-----------------------------------------------------------------------------
(* cistrcmp() hands an equality to lexicographical_compare().              *)

cistrcmp(a, b) ==
  \/ \E i \in 1..Len(a) : i <= Len(b) /\ a[i] = b[i]
  \/ Len(a) < Len(b)

-----------------------------------------------------------------------------
(* Reading the file.                                                       *)

IsSection(w) == "section" \in DOMAIN w
MatchOf(w)   == IF IsSection(w) THEN w.section ELSE <<>>

\* How many words are read.
Done == Len(file.words) - Len(rest)

\* config_stream >> line: at the end of the file line keeps its value, which in the
\* outer loop is that of a new string.  A stream that was not opened never reaches its end.
Word   == IF rest # <<>> THEN Head(rest) ELSE IF pc = "outer" THEN Blank ELSE line
AtEnd  == file.opens /\ (eof \/ rest = <<>> \/ (Len(rest) = 1 /\ ~file.newline))
Read ==
  /\ rest' = IF rest = <<>> THEN rest ELSE Tail(rest)
  /\ line' = Word
  /\ match' = MatchOf(Word)
  /\ eof' = AtEnd
  /\ header' = IF rest # <<>> /\ IsSection(Word) THEN Done + 1 ELSE header

Parses == UNCHANGED <<file, running, signalVars, index, active, late>>

\* (mutant of Fresh: buffer is not started anew)
Stale == buffer

Fresh == {}

\* The outer loop: read a word; if it is a section header look whose.
ReadOuter ==
  /\ pc = "outer" /\ ~eof
  /\ Read
  /\ buffer' = Fresh
  /\ pc' = IF ~IsSection(Word) THEN "outer"
             ELSE IF cistrcmp(Word.section, General) THEN "general" ELSE "hub"
  /\ Parses /\ UNCHANGED <<channels, hubs, made>>

\* do ... while: collect words up to and including the next section header.
CollectGeneral ==
  /\ pc = "general"
  /\ Read
  /\ buffer' = buffer \cup {Word}
  /\ pc' = IF IsSection(Word) THEN "hub" ELSE "general"
  /\ Parses /\ UNCHANGED <<channels, hubs, made>>

TestHub ==
  /\ pc = "hub"
  /\ buffer' = Fresh
  /\ pc' = IF cistrcmp(match, HubName) THEN "options" ELSE "outer"
  /\ Parses /\ UNCHANGED <<rest, eof, line, match, header, channels, hubs, made>>

\* A hub without a name throws; otherwise the channels follow.
CollectHub ==
  /\ pc = "options"
  /\ Read
  /\ IF IsSection(Word)
       THEN /\ buffer' = Fresh /\ channels' = 0
            /\ pc' = IF Option("name") \in buffer THEN "channel" ELSE "refused"
       ELSE buffer' = buffer \cup {Word} /\ UNCHANGED <<pc, channels>>
  /\ Parses /\ UNCHANGED <<hubs, made>>

\* (mutant of Closing: the end of the file closes no channel)
ClosingSection == IsSection(Word)

\* What ends a channel's options: a section header, or the end of the file.
Closing == IsSection(Word) \/ AtEnd

\* A word of a channel's options.
CollectChannel ==
  /\ pc = "channel" /\ ~Closing
  /\ Read
  /\ buffer' = buffer \cup {Word}
  /\ Parses /\ UNCHANGED <<pc, channels, hubs, made>>

\* The options end: create the channel.  A hub's header, or no header, ends the hub; a
\* header that is not a channel's throws.
CreateChannel ==
  /\ pc = "channel" /\ Closing /\ Needed \subseteq buffer
  /\ Read
  /\ buffer' = Fresh
  /\ made' = Append(made, header)
  /\ IF cistrcmp(MatchOf(Word), HubName)
       THEN hubs' = Append(hubs, channels + 1) /\ channels' = 0 /\ pc' = "outer"
       ELSE /\ channels' = channels + 1 /\ UNCHANGED hubs
            /\ pc' = IF cistrcmp(MatchOf(Word), Chan) THEN pc ELSE "refused"
  /\ Parses

\* An option that the factory or the constructor asks for is missing: they throw.
NoChannel ==
  /\ pc = "channel" /\ Closing /\ ~(Needed \subseteq buffer)
  /\ Read
  /\ pc' = "refused"
  /\ Parses /\ UNCHANGED <<buffer, channels, hubs, made>>

EndOfFile ==
  /\ pc = "outer" /\ eof
  /\ pc' = "install"
  /\ Parses /\ UNCHANGED parseVars

-----------------------------------------------------------------------------
(* Running the hubs.                                                       *)

\* sigaction() may fail, which is logged only.
Install ==
  /\ pc = "install"
  /\ handler' \in BOOLEAN
  /\ pc' = "ready"
  /\ UNCHANGED <<file, parseVars, running, signals, caught, index, active, late>>

SetRunning ==
  /\ pc = "ready"
  /\ running' = TRUE
  /\ index' = 1
  /\ pc' = "activate"
  /\ UNCHANGED <<file, parseVars, signalVars, active, late>>

\* activate() of the next hub returns, or throws and nothing catches it.
ActivateHub ==
  /\ pc = "activate" /\ index <= Len(hubs)
  /\ \/ active' = active \cup {index} /\ index' = index + 1 /\ UNCHANGED pc
     \/ pc' = "terminated" /\ UNCHANGED <<active, index>>
  /\ UNCHANGED <<file, parseVars, running, signalVars, late>>

\* (mutant of Activated: running is set only now)
ActivatedRuns ==
  /\ pc = "activate" /\ index > Len(hubs)
  /\ pc' = "loop" /\ running' = TRUE
  /\ UNCHANGED <<file, parseVars, signalVars, index, active, late>>

Activated ==
  /\ pc = "activate" /\ index > Len(hubs)
  /\ pc' = "loop"
  /\ UNCHANGED <<file, parseVars, running, signalVars, index, active, late>>

\* while (running)
TestRunning ==
  /\ pc = "loop"
  /\ index' = 1
  /\ pc' = IF running THEN "sleep" ELSE "stop"
  /\ UNCHANGED <<file, parseVars, running, signalVars, active, late>>

\* The sleep ends (a signal does not shorten it) and a round of ticks begins.
WakeToTick ==
  /\ pc = "sleep"
  /\ late' = IF caught /\ late < 2 THEN late + 1 ELSE late
  /\ pc' = "tick"
  /\ UNCHANGED <<file, parseVars, running, signalVars, index, active>>

TickHub ==
  /\ pc = "tick" /\ index <= Len(hubs)
  /\ index' = index + 1
  /\ UNCHANGED <<file, parseVars, pc, running, signalVars, active, late>>

TickDone ==
  /\ pc = "tick" /\ index > Len(hubs)
  /\ pc' = "loop"
  /\ UNCHANGED <<file, parseVars, running, signalVars, index, active, late>>

DeactivateHub ==
  /\ pc = "stop" /\ index <= Len(hubs)
  /\ active' = active \ {index}
  /\ index' = index + 1
  /\ UNCHANGED <<file, parseVars, pc, running, signalVars, late>>

Return ==
  /\ pc = "stop" /\ index > Len(hubs)
  /\ pc' = "exited"
  /\ UNCHANGED <<file, parseVars, running, signalVars, index, active, late>>

Over == pc \in {"exited", "refused", "terminated", "hung"}

\* A SIGINT: without the handler it ends the process.  The handler clears running and
\* logs that, for which it allocates, tries a lock and may start a thread: it returns, or
\* an exception leaves it, or it waits for what the code it interrupted holds.
Sigint ==
  /\ ~Over /\ signals < 2
  /\ signals' = signals + 1
  /\ IF handler
       THEN /\ running' = FALSE
            /\ caught' = (caught \/ pc # "ready")
            /\ pc' \in {pc, "terminated", "hung"}
       ELSE pc' = "terminated" /\ UNCHANGED <<running, caught>>
  /\ UNCHANGED <<file, parseVars, handler, index, active, late>>

Parse ==
  \/ ReadOuter \/ CollectGeneral \/ TestHub \/ CollectHub
  \/ CollectChannel \/ CreateChannel \/ NoChannel \/ EndOfFile

Run ==
  \/ Install \/ SetRunning \/ ActivateHub \/ Activated
  \/ TestRunning \/ WakeToTick \/ TickHub \/ TickDone \/ DeactivateHub \/ Return

Next == Parse \/ Run \/ Sigint

Spec == Init /\ [][Next]_vars

\* main() keeps reading.  That the calls it makes into the hubs return is not assumed.
FairSpec == Spec /\ WF_vars(Parse)

-----------------------------------------------------------------------------
(* Properties.                                                             *)

Read2Run == {"install", "ready", "activate", "loop", "sleep", "tick", "stop", "exited"}

TypeOK ==
  /\ file \in Files
  /\ eof \in BOOLEAN /\ channels \in Nat /\ index \in Nat \ {0}
  /\ \A i \in 1..Len(hubs) : hubs[i] \in Nat \ {0}
  /\ header \in Nat /\ \A i \in 1..Len(made) : made[i] \in Nat
  /\ pc \in Read2Run \cup {"outer", "general", "hub", "options", "channel",
                           "refused", "terminated", "hung"}
  /\ running \in BOOLEAN /\ handler \in BOOLEAN /\ active \subseteq 1..Len(hubs)
  /\ signals \in 0..2 /\ caught \in BOOLEAN /\ late \in 0..2

\* The places of the section headers, and what the section of a header holds.
Headers == {i \in DOMAIN file.words : IsSection(file.words[i])}
Named(name) == {i \in Headers : file.words[i] = Section(name)}
Holds(h, w) == \E i \in DOMAIN file.words :
                 h < i /\ file.words[i] = w /\ \A j \in Headers : ~(h < j /\ j <= i)

Complete == file.opens /\ file.newline

\* A complete file with a [general] section and one hub, a name for it and what they need
\* for its channels, each option a word.
Plain ==
  /\ Complete
  /\ \E g \in Named(General), h \in Named(HubName) :
       /\ Headers = {g, h} \cup Named(Chan) /\ g < h
       /\ \A c \in Named(Chan) : h < c
       /\ Holds(h, Option("name"))
  /\ Named(Chan) # {} /\ \A c \in Named(Chan), w \in Needed : Holds(c, w)

\* main() accepts a plain file and makes the hub with the channels that it describes,
\* though cistrcmp() takes [hub] and [channel] for [general] as well.  And whatever the
\* file, each channel is made of what one section holds, and no section is used twice.
FilesAreRead ==
  /\ Plain => /\ pc # "refused"
              /\ pc \in Read2Run => /\ hubs = <<Len(made)>>
                                    /\ {made[i] : i \in DOMAIN made} = Named(Chan)
  /\ \A i, j \in DOMAIN made : i < j => made[i] < made[j]
  /\ \A i \in DOMAIN made : made[i] \in Headers /\ \A w \in Needed : Holds(made[i], w)

\* And it comes to the end of a plain file, unless a SIGINT ends it before.
PlainFileEnds == (Plain /\ pc = "outer") ~> (pc = "install" \/ signals # 0)

\* Hubs are ticked only when all of them are active, and when main() returns none
\* is, however early the signal came; and a signal is not forgotten that comes while
\* hubs are activated or later: at most one more round of ticks begins.
ShutdownIsOrderly ==
  /\ pc \in {"loop", "sleep", "tick"} => active = 1..Len(hubs)
  /\ pc = "exited" => active = {}
  /\ late <= 1

(* What the code does not keep.                                            *)

\* The hubs that a file describes, each by the number of channels that follow it.
HubsMeant ==
  LET ordinal(i) == Cardinality({j \in Named(HubName) : j <= i})
  IN [k \in 1..Cardinality(Named(HubName)) |->
        Cardinality({i \in Named(Chan) : ordinal(i) = k})]

\* The sections hold what they need; [general] comes first or not at all, hubs follow,
\* and each has channels.
WellFormed ==
  LET next(i) == {j \in Headers : i < j /\ \A k \in Headers : ~(i < k /\ k < j)}
  IN /\ \A i \in Named(HubName) : /\ Holds(i, Option("name"))
                                  /\ next(i) # {} /\ next(i) \subseteq Named(Chan)
     /\ \A i \in Named(Chan), w \in Needed : Holds(i, w)
     /\ \A i \in Named(General) : \A j \in Headers : i <= j
     /\ \A i \in Named(General) : next(i) \subseteq Named(HubName)
     /\ \A i \in Named(Chan) : \E j \in Named(HubName) : j < i

\* A file makes the hubs it describes, whether or not it has a [general] section and
\* however many hubs it has.
FileIsRead == pc \in Read2Run /\ Complete /\ WellFormed => hubs = HubsMeant
=============================================================================
