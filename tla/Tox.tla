-------------------------------- MODULE Tox --------------------------------
(***************************************************************************)
(* A Tox channel (toxchannel.cpp) through the lives of its process: the    *)
(* handle loaded from the datafile, activation, the thread that iterates   *)
(* the library and thereby runs the callbacks, the text that the hub has   *)
(* sent, and the destructor that writes the datafile.                      *)
(*                                                                         *)
(* Of the library's data, an identity, the friends and the bot's own name  *)
(* are kept: what the code saves.  What is said is known by its length.    *)
(* The library and the network are external: they are as the calls of this *)
(* code need them.                                                         *)
(***************************************************************************)
EXTENDS Naturals, Sequences

CONSTANTS Friends,    \* who may ask to be a friend
          Nicks,      \* what may be configured as nickname
          MaxLength,  \* TOX_MAX_MESSAGE_LENGTH, the size of the text buffer
          Width,      \* 2^16: the older library takes lengths as uint16_t
          Lengths,    \* of "[user]: text", for the messages of the hub
          MaxSaid,    \* bound: messages that the hub hands over in one life
          MaxStarts   \* bound: lives of the process

ASSUME ToxAssumption ==
  /\ MaxLength \in Nat \ {0} /\ Width \in Nat /\ MaxLength < Width
  /\ Lengths \subseteq Nat /\ MaxSaid \in Nat /\ MaxStarts \in Nat

Names == Nicks \cup {""}                              \* of the bot and of those who speak

None == [id |-> 0, friends |-> {}, name |-> ""]          \* no datafile, or no handle
Damaged == [id |-> 0, friends |-> {"cut"}, name |-> ""]  \* a datafile that does not parse
Data == [id : 1..MaxStarts, friends : SUBSET Friends, name : Names]

NoText == [whose |-> "mine", len |-> 0]

Texts == {"invite", "inv", "invite me", "hello"}

VARIABLES
  file,        \* the datafile
  tox,         \* _tox
  nick,        \* the nickname in the configuration
  main,        \* where the process is in the life of the channel
  poll,        \* the polling thread
  pipeRunning, \* _pipeRunning
  online,      \* the library reports a connection
  members,     \* the friends invited to conference 0, which exists if pollable
  sigint,      \* SIGINT has come
  delivery,    \* the hub's call of incoming()
  buffer,      \* incoming()'s static buffer: whose text, and the whole text's length
  said,        \* what the conference was sent, oldest first
  echoes,      \* of it, what has not come back to the sender yet
  pushed,      \* history: who spoke what was given to newMessage(), and whether
               \* the library knew the name
  handed,      \* history: the lengths handed over in this life
  accepted,    \* history: the friends the callback accepted in this life
  misread,     \* history: this life could not read the datafile there was
  starts,      \* history: lives so far
  cause,       \* history: why this or the last life ended early
  older, rival \* whether the library is the older one; whether the process has
               \* a second hub with a Tox channel: both fixed

handle == <<tox, nick, file, starts, misread>>
net    == <<online, members>>
text   == <<delivery, buffer, said, echoes, handed>>
fixed  == <<older, rival>>
vars == <<handle, main, poll, pipeRunning, net, sigint, text, pushed, accepted, cause, fixed>>

Init ==
  /\ file = None /\ tox = None /\ nick \in Nicks /\ starts = 0 /\ misread = FALSE
  /\ main = "down" /\ poll = "none" /\ pipeRunning = FALSE
  /\ online = FALSE /\ members = {} /\ sigint = FALSE
  /\ delivery = "idle" /\ buffer = NoText
  /\ said = <<>> /\ echoes = 0 /\ handed = <<>>
  /\ pushed = {} /\ accepted = {} /\ cause = "none"
  /\ older \in BOOLEAN /\ rival \in BOOLEAN

-----------------------------------------------------------------------------
(* The process starts and ends.                                            *)

\* The configuration may have been edited between two lives.
Begin(data) ==
  /\ main = "down" /\ starts < MaxStarts
  /\ starts' = starts + 1 /\ tox' = data /\ nick' \in Nicks
  /\ main' = "built" /\ cause' = "none"
  /\ UNCHANGED <<file, poll, pipeRunning, net, sigint, text, pushed, accepted, fixed>>

\* (mutant of Load: the list of friends is not restored)
LoadIdentity == file \in Data /\ Begin([file EXCEPT !.friends = {}]) /\ UNCHANGED misread

\* toxInit() reads the datafile.
Load == file \in Data /\ Begin(file) /\ UNCHANGED misread

\* There is none, it cannot be read, or the library cannot parse it: a new
\* identity without friends and name, or no handle at all.  The error code is only logged.
Fresh ==
  /\ \E data \in {None, [id |-> starts + 1, friends |-> {}, name |-> ""]} : Begin(data)
  /\ misread' = (file # None)

\* The process is gone, and with it all but the datafile.
Exits ==
  /\ main' = "down" /\ tox' = None /\ misread' = FALSE
  /\ poll' = "none" /\ pipeRunning' = FALSE /\ online' = FALSE /\ members' = {} /\ sigint' = FALSE
  /\ delivery' = "idle" /\ buffer' = NoText /\ said' = <<>> /\ echoes' = 0 /\ handed' = <<>>
  /\ pushed' = {} /\ accepted' = {}
  /\ UNCHANGED <<file, nick, starts, fixed>>

Lost(why) == Exits /\ cause' = why

\* Killed, or terminated by another part of the program.
Killed == main # "down" /\ Lost("killed")

Sigint ==
  /\ main \in {"connecting", "running"} /\ ~sigint
  /\ sigint' = TRUE
  /\ UNCHANGED <<handle, main, poll, pipeRunning, net, text, pushed, accepted, cause, fixed>>

Goes(stage) ==
  /\ main' = stage
  /\ UNCHANGED <<handle, sigint, text, pushed, accepted, cause, fixed>>

-----------------------------------------------------------------------------
(* activate() and toxStart()                                               *)

\* Callbacks, the own name, status, bootstrap.
ActivateAs(name) ==
  /\ main = "built" /\ tox # None
  /\ pipeRunning' = TRUE /\ main' = "connecting"
  /\ tox' = [tox EXCEPT !.name = name]
  /\ UNCHANGED <<file, nick, starts, misread, poll, net, sigint, text, pushed, accepted, cause,
                 fixed>>

\* (mutant of Activate: only an identity without a name is given one)
ActivateNew == ActivateAs(IF tox.name = "" THEN nick ELSE tox.name)

Activate == ActivateAs(nick)

\* One of them fails: activate_error, which Hub::activate() turns into an exception
\* that main() does not catch.  Or there is no handle to call the library with.
ActivateFails == main = "built" /\ Lost("activation")

GoesOnline ==
  /\ main = "connecting" /\ ~online
  /\ online' = TRUE
  /\ Goes("connecting") /\ UNCHANGED <<poll, pipeRunning, members>>

\* The loop on wasConnected ends: conference 0 is made and the thread started.
Connected ==
  /\ main = "connecting" /\ online
  /\ poll' = "on"
  /\ Goes("running") /\ UNCHANGED <<pipeRunning, net>>

-----------------------------------------------------------------------------
(* The callbacks, run by the thread that calls tox_iterate(): the activating *)
(* one, then pollThread().                                                 *)

Iterates == main = "connecting" \/ poll = "on"
Conference == main # "connecting"

CallbackKeeps == UNCHANGED <<nick, file, starts, misread, main, poll, pipeRunning, online, sigint,
                             delivery, buffer, said, handed, cause, fixed>>

\* friendRequestCallback(): anyone is accepted.
FriendRequest(f) ==
  /\ Iterates /\ online /\ f \notin tox.friends
  /\ tox' = [tox EXCEPT !.friends = @ \cup {f}]
  /\ accepted' = accepted \cup {f}
  /\ CallbackKeeps /\ UNCHANGED <<members, echoes, pushed>>

\* strncmp("invite", text, the text's length): a prefix of it will do.
IsInvite(t) == t \in {"invite", "inv"}

\* messageCallback(): an invitation to conference 0 needs the conference.
FriendMessage(f, t) ==
  /\ Iterates /\ online /\ f \in tox.friends
  /\ members' = IF IsInvite(t) /\ Conference THEN members \cup {f} ELSE members
  /\ CallbackKeeps /\ UNCHANGED <<tox, accepted, echoes, pushed>>

\* What groupMessageCallback() finds as a speaker's name: the length and the name are
\* asked for without a look at the errors.  Where the library does not know the
\* speaker, nothing is written to the memory that is then read.
Found(theirs, known) == IF known THEN {theirs} ELSE Names

\* The configuration's nickname tells the bot's own messages from others.  So the
\* messages of a namesake are dropped with them.
GroupMessage(speaker, theirs) ==
  /\ \E known \in BOOLEAN, name \in Names :
       /\ name \in Found(theirs, known)
       /\ pushed' = IF name = nick THEN pushed
                    ELSE pushed \cup {[who |-> speaker, known |-> known]}
  /\ CallbackKeeps /\ UNCHANGED <<tox, members, accepted>>

\* newMessage() is called in a hub that is being destroyed: its queue is gone when
\* the channel's thread is not yet joined.
HubFreed == main \in {"freed", "joining"}

MemberSpeaks(f, name) ==
  /\ poll = "on" /\ f \in members /\ ~HubFreed
  /\ GroupMessage("friend", name) /\ UNCHANGED echoes

\* The conference knows the bot by the name in the handle.
EchoArrives ==
  /\ poll = "on" /\ echoes > 0
  /\ echoes' = echoes - 1
  /\ GroupMessage("bot", tox.name)

\* Undefined behaviour: it goes well, unnoticed, or takes the process down.
MemberSpeaksToFreed(f) ==
  /\ poll = "on" /\ f \in members /\ HubFreed
  /\ \/ Lost("freed")
     \/ UNCHANGED vars

PollEnds ==
  /\ poll = "on" /\ ~pipeRunning
  /\ poll' = "ended"
  /\ Goes(main) /\ UNCHANGED <<pipeRunning, net>>

-----------------------------------------------------------------------------
(* incoming(), called by the hub's loop, one call at a time.               *)

TextKeeps == UNCHANGED <<handle, main, poll, pipeRunning, net, sigint, pushed, accepted, cause, fixed>>

\* (mutant of Format: the delivery before is not waited for)
FormatAtOnce(n) ==
  /\ main \in {"running", "stopping"} /\ Len(handed) < MaxSaid
  /\ delivery' = "formatted" /\ buffer' = [whose |-> "mine", len |-> n]
  /\ handed' = Append(handed, n)
  /\ TextKeeps /\ UNCHANGED <<said, echoes>>

\* snprintf() into the static buffer; its result, the length of the whole text, is kept.
Format(n) ==
  /\ main \in {"running", "stopping"} /\ delivery = "idle" /\ Len(handed) < MaxSaid
  /\ delivery' = "formatted" /\ buffer' = [whose |-> "mine", len |-> n]
  /\ handed' = Append(handed, n)
  /\ TextKeeps /\ UNCHANGED <<said, echoes>>

\* Another hub's loop formats into the same buffer.
RivalFormats ==
  /\ rival /\ delivery = "formatted" /\ buffer.whose = "mine"
  /\ buffer' = [buffer EXCEPT !.whose = "rival"]
  /\ TextKeeps /\ UNCHANGED <<delivery, said, echoes, handed>>

\* The length that the library is told, and what of the text that many bytes hold:
\* the last byte of the buffer is never text.
Told == IF older THEN buffer.len % Width ELSE buffer.len

Shown == IF Told < MaxLength THEN Told ELSE MaxLength - 1

\* The library refuses what is too long or empty; the result is not looked at.
Send ==
  /\ delivery = "formatted"
  /\ delivery' = "idle"
  /\ IF Told \in 1..MaxLength
       THEN /\ said' = Append(said, [whose |-> buffer.whose, len |-> buffer.len, shown |-> Shown])
            /\ echoes' = echoes + 1
       ELSE UNCHANGED <<said, echoes>>
  /\ TextKeeps /\ UNCHANGED <<buffer, handed>>

\* tox_iterate() and the send use the handle at once, which the library does not allow.
SendRaces ==
  /\ delivery = "formatted" /\ poll = "on"
  /\ Lost("race")

-----------------------------------------------------------------------------
(* The end: main() deactivates the hub and destroys it with its channels.  *)

\* deactivate(), begun.
Deactivate ==
  /\ main = "running" /\ sigint
  /\ Goes("stopping") /\ UNCHANGED <<poll, pipeRunning, net>>

\* The hub's loop is joined and the hub's queue destroyed.
FreeHub ==
  /\ main = "stopping" /\ delivery = "idle"
  /\ Goes("freed") /\ UNCHANGED <<poll, pipeRunning, net>>

\* (mutant of StopPoll: the flag stays set)
StopPollKeeps ==
  /\ main = "freed"
  /\ Goes("joining") /\ UNCHANGED <<poll, pipeRunning, net>>

\* ~ToxChannel()
StopPoll ==
  /\ main = "freed"
  /\ pipeRunning' = FALSE
  /\ Goes("joining") /\ UNCHANGED <<poll, net>>

\* (mutant of Join: the thread is left running)
JoinNobody ==
  /\ main = "joining"
  /\ Goes("joined") /\ UNCHANGED <<poll, pipeRunning, net>>

Join ==
  /\ main = "joining" /\ poll = "ended"
  /\ Goes("joined") /\ UNCHANGED <<poll, pipeRunning, net>>

\* open() without truncation: a new datafile is empty at first.
OpenData ==
  /\ main = "joined"
  /\ main' = "writing"
  /\ file' = IF file = None THEN Damaged ELSE file
  /\ UNCHANGED <<tox, nick, starts, misread, poll, pipeRunning, net, sigint, text, pushed, accepted,
                 cause, fixed>>

\* No file is configured or it cannot be opened, as when the name's storage, freed by
\* then, has been used again: logged.
CannotSave ==
  /\ main = "joined"
  /\ Goes("unsaved") /\ UNCHANGED <<poll, pipeRunning, net>>

\* One write(); a short one counts as success.
WriteData ==
  /\ main = "writing"
  /\ \/ main' = "saved" /\ file' = tox
     \/ main' = "unsaved" /\ file' = Damaged
     \/ main' = "unsaved" /\ UNCHANGED file
  /\ UNCHANGED <<tox, nick, starts, misread, poll, pipeRunning, net, sigint, text, pushed, accepted,
                 cause, fixed>>

\* tox_kill(), and the process exits.
Kill ==
  /\ main \in {"saved", "unsaved"}
  /\ Exits /\ UNCHANGED cause

Callback ==
  \/ \E f \in Friends : FriendRequest(f) \/ MemberSpeaksToFreed(f)
  \/ \E f \in Friends, t \in Texts : FriendMessage(f, t)
  \/ \E f \in Friends, name \in Names : MemberSpeaks(f, name)
  \/ EchoArrives

Ending == Deactivate \/ FreeHub \/ StopPoll \/ Join \/ OpenData \/ CannotSave \/ WriteData \/ Kill

Next ==
  \/ Load \/ Fresh \/ Killed \/ Sigint
  \/ Activate \/ ActivateFails \/ GoesOnline \/ Connected
  \/ Callback \/ PollEnds
  \/ \E n \in Lengths : Format(n)
  \/ RivalFormats \/ Send \/ SendRaces
  \/ Ending

Spec == Init /\ [][Next]_vars
FairSpec == Spec /\ WF_vars(Connected) /\ WF_vars(PollEnds) /\ WF_vars(Send) /\ WF_vars(Ending)

-----------------------------------------------------------------------------
(* Properties.                                                             *)

Heard == [who : {"friend", "bot"}, known : BOOLEAN]

TypeOK ==
  /\ file \in Data \cup {None, Damaged} /\ tox \in Data \cup {None} /\ nick \in Nicks
  /\ main \in {"down", "built", "connecting", "running", "stopping", "freed", "joining",
               "joined", "writing", "saved", "unsaved"}
  /\ poll \in {"none", "on", "ended"} /\ pipeRunning \in BOOLEAN
  /\ online \in BOOLEAN /\ members \subseteq Friends /\ sigint \in BOOLEAN
  /\ delivery \in {"idle", "formatted"}
  /\ buffer \in [whose : {"mine", "rival"}, len : Lengths \cup {0}]
  /\ said \in Seq([whose : {"mine", "rival"}, len : Lengths, shown : 0..(MaxLength - 1)])
  /\ echoes \in 0..Len(said) /\ handed \in Seq(Lengths)
  /\ pushed \subseteq Heard /\ accepted \subseteq Friends
  /\ misread \in BOOLEAN /\ starts \in 0..MaxStarts
  /\ cause \in {"none", "killed", "activation", "race", "freed"}
  /\ older \in BOOLEAN /\ rival \in BOOLEAN

\* What a life saves is everybody it accepted, however late: nobody becomes a friend
\* between the saving of the friends and the end.
FriendsSaved ==
  main = "saved" => accepted \subseteq file.friends /\ tox.friends = file.friends

\* From one datafile to the next the identity stays and no friend is forgotten,
\* unless the process that wrote it could not read the one before.
NothingForgotten ==
  [][{file, file'} \subseteq Data =>
       misread \/ (file'.id = file.id /\ file.friends \subseteq file'.friends)]_vars

\* What the bot said comes back under the nickname of the configuration, whatever name
\* the datafile of an earlier life had for it: no such text goes to the hub as news, but
\* where the library does not know its own name.
NoEcho == [who |-> "bot", known |-> TRUE] \notin pushed

\* With one Tox hub in the process, what is said is what was handed over, each text once
\* and in order: whole if it is shorter than the buffer, and such a text is said before
\* the next is handed over.
Short(n) == n \in 1..(MaxLength - 1)
SaidWhole ==
  ~rival =>
    /\ \A i \in DOMAIN said : said[i].whose = "mine" /\ (Short(said[i].len) => said[i].shown = said[i].len)
    /\ \E at \in [DOMAIN said -> DOMAIN handed] :
         /\ \A i, j \in DOMAIN said : i < j => at[i] < at[j]
         /\ \A i \in DOMAIN said : handed[at[i]] = said[i].len
         /\ \A k \in DOMAIN handed :
              \/ ~Short(handed[k])
              \/ \E i \in DOMAIN said : at[i] = k
              \/ k = Len(handed) /\ delivery = "formatted"

\* SIGINT ends the life with the friends saved, unless they cannot be, or it ends
\* before for another cause, or the network never answers the activation, which has
\* no time-out and does not look at SIGINT.
StopSaves ==
  sigint ~> \/ main \in {"saved", "unsaved"} \/ cause # "none"
            \/ [](main = "connecting" /\ ~online)
=============================================================================
