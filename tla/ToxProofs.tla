------------------------------ MODULE ToxProofs ------------------------------
(***************************************************************************)
(* Theorems about Tox for every set of friends, every size of the text     *)
(* buffer, every text and every number of lives of the process.            *)
(***************************************************************************)
EXTENDS Tox, TLAPS

USE DEF handle, net, text, fixed

Stages == {"down", "built", "connecting", "running", "stopping", "freed", "joining",
           "joined", "writing", "saved", "unsaved"}
Gone == {"joined", "writing", "saved", "unsaved"}     \* the thread is joined

-----------------------------------------------------------------------------
(* Types, in three parts.                                                  *)

\* An active channel has a handle, and only that has a thread.
DataType ==
  /\ file \in Data \cup {None, Damaged} /\ tox \in Data \cup {None} /\ nick \in Nicks
  /\ main \notin {"down", "built"} => tox \in Data
  /\ accepted \subseteq Friends
  /\ starts \in 0..MaxStarts /\ misread \in BOOLEAN

StageType ==
  /\ main \in Stages /\ poll \in {"none", "on", "ended"} /\ pipeRunning \in BOOLEAN
  /\ poll = "on" => main \notin {"down", "built"}
  /\ online \in BOOLEAN /\ members \subseteq Friends /\ sigint \in BOOLEAN
  /\ pushed \subseteq Heard
  /\ cause \in {"none", "killed", "activation", "race", "freed"}
  /\ older \in BOOLEAN /\ rival \in BOOLEAN

Said == [whose : {"mine", "rival"}, len : Lengths, shown : 0..(MaxLength - 1)]

TextType ==
  /\ delivery \in {"idle", "formatted"}
  /\ buffer \in [whose : {"mine", "rival"}, len : Lengths \cup {0}]
  /\ said \in Seq(Said) /\ echoes \in 0..Len(said) /\ handed \in Seq(Lengths)

TypeInv == DataType /\ StageType /\ TextType

LEMMA TypeInit == Init => TypeInv
<1> SUFFICES ASSUME Init PROVE TypeInv
  OBVIOUS
<1>0. 0 \in 0..MaxStarts
  BY ToxAssumption
<1>1. DataType
  BY <1>0 DEF Init, DataType
<1>2. StageType
  BY DEF Init, StageType, Stages
<1>3. TextType
  BY DEF Init, TextType, NoText
<1>4. QED
  BY <1>1, <1>2, <1>3 DEF TypeInv

\* The end of a process leaves nothing but the datafile.
LEMMA ExitType == ASSUME TypeInv, Exits, cause' \in {"none", "killed", "activation", "race", "freed"}
                  PROVE  TypeInv'
<1>1. DataType'
  BY DEF Exits, TypeInv, DataType
<1>2. StageType'
  BY DEF Exits, TypeInv, StageType, Stages
<1>3. TextType'
  BY DEF Exits, TextType, NoText
<1>4. QED
  BY <1>1, <1>2, <1>3 DEF TypeInv

LEMMA BeginType ==
  ASSUME TypeInv, NEW data \in Data \cup {None}, Begin(data), misread' \in BOOLEAN
  PROVE  TypeInv'
<1>1. DataType'
  BY ToxAssumption DEF Begin, TypeInv, DataType
<1>2. StageType'
  BY DEF Begin, TypeInv, StageType, Stages
<1>3. TextType'
  BY DEF Begin, TypeInv, TextType
<1>4. QED
  BY <1>1, <1>2, <1>3 DEF TypeInv

LEMMA SendType == ASSUME TypeInv, Send PROVE TextType'
<1>0. TextType /\ delivery' = "idle" /\ UNCHANGED <<buffer, handed>>
  BY DEF Send, TypeInv
<1>1. CASE Told \in 1..MaxLength
  <2>1. buffer.len \in Lengths /\ Shown \in 0..(MaxLength - 1)
    BY <1>0, <1>1, ToxAssumption DEF TextType, Told, Shown
  <2> DEFINE new == [whose |-> buffer.whose, len |-> buffer.len, shown |-> Shown]
  <2>2. new \in Said
    BY <1>0, <2>1 DEF TextType, Said
  <2>3. said' = Append(said, new) /\ echoes' = echoes + 1
    BY <1>1 DEF Send
  <2> HIDE DEF new
  <2>4. QED
    BY <1>0, <2>2, <2>3 DEF TextType
<1>2. CASE Told \notin 1..MaxLength
  BY <1>0, <1>2 DEF Send, TextType
<1>3. QED
  BY <1>1, <1>2

LEMMA GroupType ==
  ASSUME TypeInv, NEW who \in {"friend", "bot"}, NEW theirs, GroupMessage(who, theirs)
  PROVE  pushed' \subseteq Heard
BY DEF GroupMessage, TypeInv, StageType, Heard

LEMMA CallbackType == ASSUME TypeInv, Callback PROVE TypeInv'
<1> USE DEF TypeInv
<1>1. ASSUME NEW f \in Friends, FriendRequest(f) PROVE TypeInv'
  <2>1. tox \in Data
    BY <1>1 DEF FriendRequest, Iterates, StageType, DataType
  <2>2. tox' \in Data
    BY <1>1, <2>1 DEF FriendRequest, Data
  <2>3. DataType'
    BY <1>1, <2>2 DEF FriendRequest, CallbackKeeps, DataType
  <2>4. QED
    BY <1>1, <2>3 DEF FriendRequest, CallbackKeeps, StageType, TextType
<1>2. ASSUME NEW f \in Friends, NEW t \in Texts, FriendMessage(f, t) PROVE TypeInv'
  BY <1>2 DEF FriendMessage, CallbackKeeps, DataType, StageType, TextType
<1>3. ASSUME NEW f \in Friends, NEW name \in Names, MemberSpeaks(f, name) PROVE TypeInv'
  <2>1. pushed' \subseteq Heard
    BY <1>3, GroupType DEF MemberSpeaks
  <2>2. QED
    BY <1>3, <2>1 DEF MemberSpeaks, GroupMessage, CallbackKeeps, DataType, StageType, TextType
<1>4. CASE EchoArrives
  <2>1. echoes' \in 0..Len(said)
    BY <1>4 DEF EchoArrives, TextType
  <2>2. pushed' \subseteq Heard
    BY <1>4, GroupType DEF EchoArrives
  <2>3. QED
    BY <1>4, <2>1, <2>2 DEF EchoArrives, GroupMessage, CallbackKeeps, DataType, StageType, TextType
<1>5. ASSUME NEW f \in Friends, MemberSpeaksToFreed(f) PROVE TypeInv'
  <2>1. CASE Lost("freed")
    BY <2>1, ExitType DEF Lost
  <2>2. CASE UNCHANGED vars
    BY <2>2 DEF vars, DataType, StageType, TextType
  <2>3. QED
    BY <1>5, <2>1, <2>2 DEF MemberSpeaksToFreed
<1>6. QED
  BY <1>1, <1>2, <1>3, <1>4, <1>5 DEF Callback

\* Activation changes the handle's name alone.
LEMMA ActivateHandle ==
  ASSUME TypeInv, Activate
  PROVE  /\ tox \in Data /\ tox' \in Data
         /\ tox'.id = tox.id /\ tox'.friends = tox.friends /\ tox'.name = nick
<1>1. tox \in Data /\ nick \in Names /\ tox' = [tox EXCEPT !.name = nick]
  BY DEF Activate, ActivateAs, TypeInv, DataType, Names
<1>2. QED
  BY <1>1 DEF Data

LEMMA TypeStep == TypeInv /\ [Next]_vars => TypeInv'
<1> SUFFICES ASSUME TypeInv, [Next]_vars PROVE TypeInv'
  OBVIOUS
<1> USE DEF TypeInv
<1>0. CASE UNCHANGED vars
  BY <1>0 DEF vars, DataType, StageType, TextType
<1>1. CASE Load
  BY <1>1, BeginType DEF Load, DataType
<1>2. CASE Fresh
  <2>1. starts + 1 \in 1..MaxStarts
    <3>1. starts < MaxStarts
      BY <1>2 DEF Fresh, Begin
    <3>2. starts \in Nat /\ MaxStarts \in Nat
      BY ToxAssumption DEF DataType
    <3>3. QED
      BY <3>1, <3>2
  <2>2. "" \in Names
    BY DEF Names
  <2> DEFINE new == [id |-> starts + 1, friends |-> {}, name |-> ""]
  <2>3. new \in Data
    BY <2>1, <2>2 DEF Data
  <2>4. (Begin(None) \/ Begin(new)) /\ misread' \in BOOLEAN
    BY <1>2 DEF Fresh
  <2> HIDE DEF new
  <2>5. QED
    BY <2>3, <2>4, BeginType
<1>3. CASE Killed \/ ActivateFails \/ SendRaces \/ Kill
  BY <1>3, ExitType DEF Killed, ActivateFails, SendRaces, Lost, Kill, StageType
<1>4. CASE Sigint \/ GoesOnline \/ Connected \/ PollEnds
  <2>1. UNCHANGED <<handle, text, pushed, accepted, cause, fixed>>
    BY <1>4 DEF Sigint, GoesOnline, Connected, PollEnds, Goes
  <2>2. /\ main' \in Stages /\ sigint' \in BOOLEAN
        /\ main' \notin {"down", "built"} => main \notin {"down", "built"}
        /\ poll' \in {"none", "on", "ended"} /\ (poll' = "on" => main' \notin {"down", "built"})
        /\ pipeRunning' \in BOOLEAN /\ online' \in BOOLEAN /\ members' = members
    BY <1>4 DEF Sigint, GoesOnline, Connected, PollEnds, Goes, StageType, Stages
  <2>3. QED
    BY <2>1, <2>2 DEF DataType, StageType, TextType
<1>13. CASE Activate
  BY <1>13, ActivateHandle DEF Activate, ActivateAs, DataType, StageType, TextType, Stages
<1>5. CASE Callback
  BY <1>5, CallbackType
<1>6. ASSUME NEW n \in Lengths, Format(n) PROVE TypeInv'
  <2>1. TextType'
    BY <1>6 DEF Format, TextType
  <2>2. QED
    BY <1>6, <2>1 DEF Format, TextKeeps, DataType, StageType
<1>7. CASE RivalFormats
  BY SMTT(30), <1>7 DEF RivalFormats, TextKeeps, DataType, StageType, TextType
<1>8. CASE Send
  BY <1>8, SendType DEF Send, TextKeeps, DataType, StageType
<1>9. CASE Deactivate \/ FreeHub \/ StopPoll \/ Join \/ CannotSave
  <2>1. UNCHANGED <<handle, sigint, text, pushed, accepted, cause, fixed>>
    BY <1>9 DEF Deactivate, FreeHub, StopPoll, Join, CannotSave, Goes
  <2>2. /\ main' \in Stages /\ main \notin {"down", "built"} /\ main' \notin {"down", "built"}
        /\ UNCHANGED <<poll, online, members>> /\ pipeRunning' \in BOOLEAN
    BY <1>9 DEF Deactivate, FreeHub, StopPoll, Join, CannotSave, Goes, StageType, Stages
  <2>3. QED
    BY <2>1, <2>2 DEF DataType, StageType, TextType
<1>10. CASE OpenData
  BY <1>10 DEF OpenData, DataType, StageType, TextType, Stages
<1>11. CASE WriteData
  BY <1>11 DEF WriteData, DataType, StageType, TextType, Stages
<1>12. QED
  BY <1>0, <1>1, <1>2, <1>3, <1>4, <1>5, <1>6, <1>7, <1>8, <1>9, <1>10, <1>11, <1>13
     DEF Next, Ending

\* Each variable keeps its type, in every life of the process.
THEOREM TypeCorrect == Spec => []TypeOK
<1>1. TypeInv => TypeOK
  BY DEF TypeInv, DataType, StageType, TextType, TypeOK, Stages, Said
<1>2. QED
  BY TypeInit, TypeStep, <1>1, PTL DEF Spec
-----------------------------------------------------------------------------
(* The friends.                                                            *)

\* What this life accepted is in its handle; the thread that could accept more is gone
\* when the handle is saved; and a handle that was loaded holds what the datafile does.
FriendInv ==
  /\ main = "down" => accepted = {} /\ ~misread
  /\ main # "down" => accepted \subseteq tox.friends
  /\ main \in Gone => poll # "on"
  /\ main = "saved" => file = tox
  /\ main # "down" /\ ~misread /\ file \in Data =>
       tox.id = file.id /\ file.friends \subseteq tox.friends

LEMMA NotData == None \notin Data /\ Damaged \notin Data
BY ToxAssumption DEF None, Damaged, Data

LEMMA FriendInit == Init => FriendInv
BY DEF Init, FriendInv, Gone

LEMMA FriendExit == ASSUME Exits PROVE FriendInv'
BY DEF Exits, FriendInv, Gone

\* A step that neither changes the handle, the datafile and who is accepted, nor
\* starts a thread, nor ends in a stage with a promise of its own.
Harmless ==
  /\ UNCHANGED <<handle, accepted>> /\ main # "down" /\ main' # "down"
  /\ poll' = "on" => poll = "on" \/ main' = "running"
  /\ main' \in Gone => main \in Gone \/ poll # "on"
  /\ main' = "saved" => main = "saved"

LEMMA FriendHarmless == ASSUME FriendInv, Harmless PROVE FriendInv'
BY DEF FriendInv, Harmless, Gone

LEMMA FriendStep == TypeInv /\ FriendInv /\ [Next]_vars => FriendInv'
<1> SUFFICES ASSUME TypeInv, FriendInv, [Next]_vars PROVE FriendInv'
  OBVIOUS
<1>0. CASE UNCHANGED vars
  BY <1>0 DEF vars, FriendInv
<1>1. CASE Load
  BY <1>1 DEF Load, Begin, FriendInv, Gone
<1>2. CASE Fresh
  <2>1. /\ main = "down" /\ main' = "built" /\ UNCHANGED <<file, accepted>>
        /\ misread' = (file # None)
    BY <1>2 DEF Fresh, Begin
  <2>2. ~misread' => file' \notin Data
    BY <2>1, NotData
  <2>3. QED
    BY <2>1, <2>2 DEF FriendInv, Gone
<1>3. CASE Killed \/ ActivateFails \/ SendRaces \/ Kill
  BY <1>3, FriendExit DEF Killed, ActivateFails, SendRaces, Lost, Kill
<1>15. CASE Activate
  BY <1>15, ActivateHandle DEF Activate, ActivateAs, FriendInv, Gone
<1>4. CASE Sigint \/ GoesOnline \/ Connected \/ PollEnds
  <2>1. Harmless
    BY <1>4 DEF Sigint, GoesOnline, Connected, PollEnds, Goes, Harmless, Gone, TypeInv,
       StageType
  <2>2. QED
    BY <2>1, FriendHarmless
<1>5. ASSUME NEW f \in Friends, FriendRequest(f) PROVE FriendInv'
  <2>1. /\ main # "down" /\ main \notin Gone /\ tox \in Data
        /\ UNCHANGED <<main, poll, file, misread>> /\ accepted' = accepted \cup {f}
        /\ tox' = [tox EXCEPT !.friends = @ \cup {f}]
    BY <1>5 DEF FriendRequest, CallbackKeeps, Iterates, FriendInv, TypeInv, DataType, StageType, Gone
  <2>2. tox'.id = tox.id /\ tox'.friends = tox.friends \cup {f}
    BY <2>1 DEF Data
  <2>3. QED
    BY <2>1, <2>2 DEF FriendInv, Gone
<1>6. ASSUME NEW f \in Friends, MemberSpeaksToFreed(f) PROVE FriendInv'
  BY <1>6, FriendExit DEF MemberSpeaksToFreed, Lost, vars, FriendInv
<1>7. ASSUME NEW f \in Friends, NEW t \in Texts, FriendMessage(f, t) PROVE FriendInv'
  BY <1>7 DEF FriendMessage, CallbackKeeps, FriendInv
<1>8. ASSUME NEW f \in Friends, NEW name \in Names, MemberSpeaks(f, name) PROVE FriendInv'
  BY <1>8 DEF MemberSpeaks, GroupMessage, CallbackKeeps, FriendInv
<1>9. CASE EchoArrives
  BY <1>9 DEF EchoArrives, GroupMessage, CallbackKeeps, FriendInv
<1>10. CASE (\E n \in Lengths : Format(n)) \/ RivalFormats \/ Send
  BY <1>10 DEF Format, RivalFormats, Send, TextKeeps, FriendInv
<1>11. CASE Deactivate \/ FreeHub \/ StopPoll \/ Join \/ CannotSave
  <2>1. Harmless
    BY <1>11 DEF Deactivate, FreeHub, StopPoll, Join, CannotSave, Goes, Harmless, Gone
  <2>2. QED
    BY <2>1, FriendHarmless
<1>12. CASE OpenData
  BY <1>12, NotData DEF OpenData, FriendInv, Gone
<1>13. CASE WriteData
  BY <1>13, NotData DEF WriteData, FriendInv, Gone
<1>14. QED
  BY <1>0, <1>1, <1>2, <1>3, <1>4, <1>5, <1>6, <1>7, <1>8, <1>9, <1>10, <1>11, <1>12, <1>13,
   <1>15 DEF Next, Ending, Callback

\* The datafile a life leaves behind has every friend it ever accepted.
THEOREM SavedWhole == Spec => []FriendsSaved
<1>1. FriendInv => FriendsSaved
  BY DEF FriendInv, FriendsSaved
<1>2. QED
  BY TypeInit, TypeStep, FriendInit, FriendStep, <1>1, PTL DEF Spec

LEMMA DataStep ==
  ASSUME TypeInv, FriendInv, [Next]_vars, file \in Data, file' \in Data, ~misread
  PROVE  file'.id = file.id /\ file.friends \subseteq file'.friends
<1>1. CASE WriteData
  <2>1. file' = tox \/ file' = Damaged \/ file' = file
    BY <1>1 DEF WriteData
  <2>2. main # "down"
    BY <1>1 DEF WriteData
  <2>3. QED
    BY <2>1, <2>2, NotData DEF FriendInv
<1>2. CASE OpenData
  BY <1>2, NotData DEF OpenData
<1>3. CASE ~WriteData /\ ~OpenData
  <2>1. file' = file
    BY <1>3 DEF Next, Ending, Callback, vars, Load, Fresh, Begin, Killed, ActivateFails, SendRaces,
       Lost, Exits, Kill, Sigint, Activate, ActivateAs, GoesOnline, Connected, PollEnds, Goes, FriendRequest,
       FriendMessage, MemberSpeaks, EchoArrives, MemberSpeaksToFreed, GroupMessage, CallbackKeeps,
       Format, RivalFormats, Send, TextKeeps, Deactivate, FreeHub, StopPoll, Join, CannotSave
  <2>2. QED
    BY <2>1
<1>4. QED
  BY <1>1, <1>2, <1>3

\* From one datafile to the next no friend is forgotten and the identity stays, unless
\* the one before could not be read.
THEOREM FriendsRemembered == Spec => NothingForgotten
<1>1. TypeInv /\ FriendInv /\ [Next]_vars =>
        [{file, file'} \subseteq Data =>
           misread \/ (file'.id = file.id /\ file.friends \subseteq file'.friends)]_vars
  BY DataStep
<1>2. QED
  BY TypeInit, TypeStep, FriendInit, FriendStep, <1>1, PTL DEF Spec, NothingForgotten
-----------------------------------------------------------------------------
(* What is said and what comes back.                                       *)

\* The conference is joined only after the activation, so the bot is known there by the
\* nickname of this life, whatever name the datafile had.
NameInv ==
  /\ NoEcho
  /\ main \notin {"down", "built"} => tox.name = nick

LEMMA NameStep == TypeInv /\ NameInv /\ [Next]_vars => NameInv'
<1> SUFFICES ASSUME TypeInv, NameInv, [Next]_vars PROVE NameInv'
  OBVIOUS
<1>1. CASE Activate
  BY <1>1, ActivateHandle DEF Activate, ActivateAs, NameInv, NoEcho
<1>2. ASSUME NEW f \in Friends, FriendRequest(f) PROVE NameInv'
  <2>1. main \notin {"down", "built"} /\ tox \in Data
    BY <1>2 DEF FriendRequest, Iterates, TypeInv, DataType, StageType
  <2>2. tox'.name = tox.name
    BY <1>2, <2>1 DEF FriendRequest, Data
  <2>3. QED
    BY <1>2, <2>1, <2>2 DEF FriendRequest, CallbackKeeps, NameInv, NoEcho
<1>3. ASSUME NEW f \in Friends, NEW name \in Names, MemberSpeaks(f, name) PROVE NameInv'
  BY <1>3 DEF MemberSpeaks, GroupMessage, CallbackKeeps, NameInv, NoEcho
<1>4. CASE EchoArrives
  <2>1. tox.name = nick
    BY <1>4 DEF EchoArrives, NameInv, TypeInv, StageType
  <2>2. NoEcho'
    BY <1>4, <2>1 DEF EchoArrives, GroupMessage, Found, NameInv, NoEcho
  <2>3. QED
    BY <1>4, <2>2 DEF EchoArrives, GroupMessage, CallbackKeeps, NameInv
<1>5. CASE Exits \/ Load \/ Fresh
  BY <1>5 DEF Exits, Load, Fresh, Begin, NameInv, NoEcho
<1>6. CASE /\ UNCHANGED <<tox, nick, pushed>>
           /\ (main' \notin {"down", "built"} => main \notin {"down", "built"})
  BY <1>6 DEF NameInv, NoEcho
<1>7. CASE Sigint \/ GoesOnline \/ Connected \/ PollEnds
  BY <1>6, <1>7 DEF Sigint, GoesOnline, Connected, PollEnds, Goes, NameInv
<1>8. CASE Ending /\ ~Exits
  BY <1>6, <1>8 DEF Ending, Deactivate, FreeHub, StopPoll, Join, OpenData, CannotSave, WriteData, Kill,
     Goes, NameInv
<1>9. CASE (\E n \in Lengths : Format(n)) \/ RivalFormats \/ Send
  BY <1>6, <1>9 DEF Format, RivalFormats, Send, TextKeeps, NameInv
<1>10. ASSUME NEW f \in Friends, NEW t \in Texts, FriendMessage(f, t) PROVE NameInv'
  BY <1>6, <1>10 DEF FriendMessage, CallbackKeeps, NameInv
<1>11. CASE UNCHANGED vars
  BY <1>6, <1>11 DEF vars, NameInv
<1>12. QED
  BY <1>1, <1>2, <1>3, <1>4, <1>5, <1>7, <1>8, <1>9, <1>10, <1>11 DEF Next, Callback, Ending, Killed,
     ActivateFails, SendRaces, Lost, Kill, MemberSpeaksToFreed

\* What comes back of what was said is dropped wherever the library knows the bot's
\* name, in every life and for every change of the configured nickname.
THEOREM EchoDropped == Spec => []NoEcho
<1>1. Init => NameInv
  BY DEF Init, NameInv, NoEcho
<1>2. NameInv => NoEcho
  BY DEF NameInv
<1>3. QED
  BY TypeInit, TypeStep, <1>1, NameStep, <1>2, PTL DEF Spec

\* The texts said stand at the places at of what was handed over: in order, all that are
\* short, and not yet the one in the buffer.
Places(at) ==
  /\ at \in [DOMAIN said -> DOMAIN handed]
  /\ \A i, j \in DOMAIN said : i < j => at[i] < at[j]
  /\ \A i \in DOMAIN said : handed[at[i]] = said[i].len
  /\ \A k \in DOMAIN handed :
       \/ ~Short(handed[k])
       \/ \E i \in DOMAIN said : at[i] = k
       \/ k = Len(handed) /\ delivery = "formatted"
  /\ delivery = "formatted" => \A i \in DOMAIN said : at[i] # Len(handed)

SaidInv ==
  ~rival =>
    /\ \A i \in DOMAIN said : said[i].whose = "mine" /\ (Short(said[i].len) => said[i].shown = said[i].len)
    /\ delivery = "formatted" => /\ Len(handed) \in DOMAIN handed
                                /\ buffer.whose = "mine" /\ buffer.len = handed[Len(handed)]
    /\ \E at : Places(at)

LEMMA SaidNothing == said = <<>> /\ handed = <<>> /\ delivery = "idle" => SaidInv
<1> SUFFICES ASSUME said = <<>>, handed = <<>>, delivery = "idle" PROVE SaidInv
  OBVIOUS
<1>1. Places(<<>>)
  BY DEF Places
<1>2. QED
  BY <1>1 DEF SaidInv

LEMMA SaidUntouched ==
  ASSUME SaidInv, UNCHANGED <<delivery, buffer, said, handed, rival>> PROVE SaidInv'
<1>1. ASSUME NEW at, Places(at) PROVE Places(at)'
  BY <1>1 DEF Places
<1>2. QED
  BY <1>1 DEF SaidInv

\* A short text is told and shown at its length, by either library.
LEMMA ShortIsShown ==
  ASSUME TypeInv, Short(buffer.len)
  PROVE  Told = buffer.len /\ Told \in 1..MaxLength /\ Shown = buffer.len
<1>1. buffer.len \in Nat /\ buffer.len < Width /\ buffer.len < MaxLength /\ buffer.len > 0
  BY ToxAssumption DEF Short
<1>2. buffer.len % Width = buffer.len
  BY <1>1, ToxAssumption
<1>3. QED
  BY <1>1, <1>2, ToxAssumption DEF Told, Shown

LEMMA SaidFormat == ASSUME TypeInv, SaidInv, NEW n \in Lengths, Format(n) PROVE SaidInv'
<1> SUFFICES ASSUME ~rival PROVE SaidInv'
  BY DEF SaidInv, Format, TextKeeps
<1> DEFINE N == Len(handed)
<1>1. /\ delivery = "idle" /\ delivery' = "formatted" /\ handed' = Append(handed, n)
      /\ said' = said /\ rival' = rival /\ handed \in Seq(Lengths) /\ said \in Seq(Said)
      /\ buffer'.whose = "mine" /\ buffer'.len = n
  BY DEF Format, TextKeeps, TypeInv, TextType
<1>2. /\ N \in Nat /\ DOMAIN handed = 1..N /\ DOMAIN handed' = 1..(N + 1) /\ Len(handed') = N + 1
      /\ \A k \in 1..N : handed'[k] = handed[k]
      /\ handed'[N + 1] = n
  BY <1>1
<1>3. PICK at : Places(at)
  BY DEF SaidInv
<1>4. Places(at)'
  BY <1>1, <1>2, <1>3 DEF Places
<1>5. QED
  BY <1>1, <1>2, <1>4 DEF SaidInv

LEMMA SaidSend == ASSUME TypeInv, SaidInv, Send PROVE SaidInv'
<1> SUFFICES ASSUME ~rival PROVE SaidInv'
  BY DEF SaidInv, Send, TextKeeps
<1> DEFINE N == Len(handed)
<1> DEFINE L == Len(said)
<1>1. /\ delivery = "formatted" /\ delivery' = "idle" /\ handed' = handed /\ rival' = rival
      /\ handed \in Seq(Lengths) /\ said \in Seq(Said)
  BY DEF Send, TextKeeps, TypeInv, TextType
<1>2. /\ N \in Nat /\ L \in Nat /\ DOMAIN handed = 1..N /\ DOMAIN said = 1..L
      /\ N \in 1..N /\ buffer.whose = "mine" /\ buffer.len = handed[N]
  BY <1>1 DEF SaidInv
<1>3. PICK at : Places(at)
  BY DEF SaidInv
<1>4. \A i \in 1..L : at[i] \in 1..N /\ at[i] < N
  BY <1>1, <1>2, <1>3 DEF Places
<1>5. CASE Told \in 1..MaxLength
  <2> DEFINE new == [whose |-> buffer.whose, len |-> buffer.len, shown |-> Shown]
  <2>0. PICK on : on = [i \in 1..(L + 1) |-> IF i = L + 1 THEN N ELSE at[i]]
    OBVIOUS
  <2>1. said' = Append(said, new)
    BY <1>5 DEF Send
  <2>2. new.whose = "mine" /\ new.len = handed[N] /\ (Short(new.len) => new.shown = new.len)
    BY <1>2, ShortIsShown
  <2> HIDE DEF new
  <2>3. /\ DOMAIN said' = 1..(L + 1) /\ said'[L + 1] = new
        /\ \A i \in 1..L : said'[i] = said[i]
    BY <1>1, <1>2, <2>1
  <2>4. on \in [DOMAIN said' -> DOMAIN handed']
    BY <1>1, <1>2, <1>4, <2>0, <2>3
  <2>5. \A i, j \in DOMAIN said' : i < j => on[i] < on[j]
    BY <1>2, <1>3, <1>4, <2>0, <2>3 DEF Places
  <2>6. \A i \in DOMAIN said' : handed'[on[i]] = said'[i].len
    BY <1>1, <1>2, <1>3, <1>4, <2>0, <2>2, <2>3 DEF Places
  <2>7. ASSUME NEW k \in DOMAIN handed', Short(handed'[k]) PROVE \E i \in DOMAIN said' : on[i] = k
    <3>1. CASE k = N
      <4>1. on[L + 1] = k /\ L + 1 \in DOMAIN said'
        BY <1>2, <2>0, <2>3, <3>1
      <4>2. QED
        BY <4>1
    <3>2. CASE k # N
      <4>1. PICK i \in 1..L : at[i] = k
        BY <1>1, <1>2, <1>3, <2>7, <3>2 DEF Places
      <4>2. on[i] = k /\ i \in DOMAIN said'
        BY <1>2, <2>0, <2>3, <4>1
      <4>3. QED
        BY <4>2
    <3>3. QED
      BY <3>1, <3>2
  <2>8. Places(on)'
    BY <1>1, <2>4, <2>5, <2>6, <2>7 DEF Places
  <2>9. \A i \in DOMAIN said' : said'[i].whose = "mine" /\ (Short(said'[i].len) => said'[i].shown = said'[i].len)
    BY <1>2, <2>2, <2>3 DEF SaidInv
  <2>10. QED
    BY <1>1, <2>8, <2>9 DEF SaidInv
<1>6. CASE Told \notin 1..MaxLength
  <2>1. UNCHANGED said /\ ~Short(handed[N])
    BY <1>2, <1>6, ShortIsShown DEF Send
  <2>2. Places(at)'
    BY <1>1, <1>2, <1>3, <2>1 DEF Places
  <2>3. QED
    BY <1>1, <2>1, <2>2 DEF SaidInv
<1>7. QED
  BY <1>5, <1>6

LEMMA SaidStep == TypeInv /\ SaidInv /\ [Next]_vars => SaidInv'
<1> SUFFICES ASSUME TypeInv, SaidInv, [Next]_vars PROVE SaidInv'
  OBVIOUS
<1>1. ASSUME NEW n \in Lengths, Format(n) PROVE SaidInv'
  BY <1>1, SaidFormat
<1>2. CASE Send
  BY <1>2, SaidSend
<1>3. CASE RivalFormats
  BY <1>3 DEF RivalFormats, TextKeeps, SaidInv
<1>4. CASE Exits
  <2>1. said' = <<>> /\ handed' = <<>> /\ delivery' = "idle"
    BY <1>4 DEF Exits
  <2>2. (said = <<>> /\ handed = <<>> /\ delivery = "idle" => SaidInv)'
    BY SaidNothing, PTL
  <2>3. QED
    BY <2>1, <2>2
<1>5. CASE UNCHANGED <<delivery, buffer, said, handed, rival>>
  BY <1>5, SaidUntouched
<1>6. QED
  BY <1>1, <1>2, <1>3, <1>4, <1>5 DEF Next, Ending, Callback, vars, Load, Fresh, Begin, Killed,
     ActivateFails, SendRaces, Lost, Kill, Sigint, Activate, ActivateAs, GoesOnline, Connected, PollEnds, Goes,
     FriendRequest, FriendMessage, MemberSpeaks, EchoArrives, GroupMessage, MemberSpeaksToFreed,
     CallbackKeeps, Deactivate, FreeHub, StopPoll, Join, CannotSave, OpenData, WriteData

\* Where no second hub writes to the buffer, what is said is what was handed over: in
\* order, once, whole if it is short, and no short text is left out.
THEOREM SaidIsHanded == Spec => []SaidWhole
<1>1. Init => SaidInv
  BY SaidNothing DEF Init
<1>2. ASSUME SaidInv PROVE SaidWhole
  <2> SUFFICES ASSUME ~rival PROVE SaidWhole
    BY DEF SaidWhole
  <2>1. PICK at : Places(at)
    BY <1>2 DEF SaidInv
  <2>2. QED
    BY <1>2, <2>1 DEF SaidInv, SaidWhole, Places
<1>3. QED
  BY TypeInit, TypeStep, <1>1, SaidStep, <1>2, PTL DEF Spec
=============================================================================
