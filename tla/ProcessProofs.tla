---------------------------- MODULE ProcessProofs ---------------------------
(***************************************************************************)
(* Theorems about Process for every set of configuration files.            *)
(***************************************************************************)
EXTENDS Process, TLAPS

USE DEF parseVars, signalVars

Reading == {"outer", "general", "hub", "options", "channel"}

Reads == ReadOuter \/ CollectGeneral \/ CollectHub \/ CollectChannel \/ CreateChannel \/ NoChannel

-----------------------------------------------------------------------------
(* The words.                                                              *)

\* What is not read yet are the last words of the file, and a file that is not open
\* stays in the outer loop.
RestInv ==
  /\ file \in Files
  /\ rest \in Seq(WordType) /\ Len(rest) <= Len(file.words)
  /\ \A i \in 1..Len(rest) : rest[i] = file.words[Done + i]
  /\ ~file.opens => rest = <<>> /\ ~eof /\ pc \in {"outer", "terminated", "hung"}

LEMMA FileHas ==
  ASSUME NEW f \in Files
  PROVE  /\ f.words \in Seq(WordType) /\ Len(f.words) \in Nat
         /\ DOMAIN f.words = 1..Len(f.words)
         /\ f.newline \in BOOLEAN /\ f.opens \in BOOLEAN
BY ProcessAssumption DEF FileType

\* A step reads a word, or it leaves what reading changes.
LEMMA FileStep ==
  ASSUME [Next]_vars
  PROVE  /\ file' = file
         /\ (Reads /\ Read) \/ UNCHANGED <<rest, eof, line, match, header>>
<1>1. CASE Reads
  BY <1>1 DEF Reads, ReadOuter, CollectGeneral, CollectHub, CollectChannel, CreateChannel, NoChannel,
     Parses
<1>2. CASE ~Reads
  BY <1>2 DEF Next, Parse, Run, Reads, vars, Parses, TestHub, EndOfFile, Install, SetRunning,
     ActivateHub, Activated, TestRunning, WakeToTick, TickHub, TickDone, DeactivateHub, Return, Sigint
<1>3. QED
  BY <1>1, <1>2

\* What config_stream >> line does: nothing at the end of the file, and else it takes the
\* next word.
LEMMA ReadMoves ==
  ASSUME RestInv, Read, file' = file
  PROVE  /\ rest' \in Seq(WordType) /\ Len(rest') <= Len(file.words)
         /\ \A i \in 1..Len(rest') : rest'[i] = file.words[Done' + i]
         /\ Done \in 0..Len(file.words)
         /\ rest = <<>> <=> Done = Len(file.words)
         /\ rest = <<>> => rest' = <<>> /\ Done' = Done /\ header' = header
         /\ rest # <<>> => /\ Done' = Done + 1 /\ Done + 1 \in 1..Len(file.words)
                           /\ Word = file.words[Done + 1] /\ Word \in WordType
                           /\ header' = IF IsSection(Word) THEN Done + 1 ELSE header
<1> DEFINE n == Len(file.words)
<1>1. n \in Nat /\ Len(rest) \in Nat /\ Len(rest) <= n /\ rest \in Seq(WordType)
  BY FileHas DEF RestInv
<1>2. CASE rest = <<>>
  <2>1. rest' = rest /\ header' = header
    BY <1>2 DEF Read
  <2>2. QED
    BY <1>1, <1>2, <2>1 DEF RestInv, Done
<1>3. CASE rest # <<>>
  <2>1. rest' = Tail(rest) /\ Word = Head(rest) /\ header' = IF IsSection(Word) THEN Done + 1 ELSE header
    BY <1>3 DEF Read, Word
  <2>2. /\ rest' \in Seq(WordType) /\ Len(rest') = Len(rest) - 1 /\ Len(rest) > 0
        /\ Word = rest[1] /\ \A i \in 1..Len(rest') : rest'[i] = rest[i + 1]
    BY <1>1, <1>3, <2>1
  <2>3. Done = n - Len(rest) /\ Done' = n - Len(rest')
    BY DEF Done
  <2> HIDE DEF n
  <2>4. Done' = Done + 1 /\ Done + 1 \in 1..n /\ Done \in 0..n /\ Done # n /\ Len(rest') <= n
    BY <1>1, <2>2, <2>3
  <2>5. Word = file.words[Done + 1] /\ Word \in WordType
    BY <1>1, <2>2 DEF RestInv
  <2>6. \A i \in 1..Len(rest') : rest'[i] = file.words[Done' + i]
    <3>1. \A i \in 1..Len(rest') : i + 1 \in 1..Len(rest) /\ Done + (i + 1) = Done' + i
      BY <1>1, <2>2, <2>4
    <3>2. QED
      BY <2>2, <3>1 DEF RestInv
  <2>7. QED
    BY <1>3, <2>1, <2>2, <2>4, <2>5, <2>6 DEF n
<1>4. QED
  BY <1>2, <1>3

LEMMA Matches ==
  /\ \A x : IsSection(Section(x)) /\ ~IsSection(Option(x))
  /\ \A x : Section(x).section = x /\ MatchOf(Section(x)) = x /\ MatchOf(Option(x)) = <<>>
  /\ ~IsSection(Blank) /\ \A w \in Needed : ~IsSection(w)
BY DEF IsSection, MatchOf, Section, Option, Blank, Needed

LEMMA RestInit == Init => RestInv
<1> SUFFICES ASSUME Init PROVE RestInv
  OBVIOUS
<1>1. file \in Files /\ pc = "outer" /\ ~eof
  BY DEF Init
<1>2. file.words \in Seq(WordType) /\ Len(file.words) \in Nat /\ file.opens \in BOOLEAN
  BY <1>1, FileHas
<1>3. rest = file.words /\ (~file.opens => rest = <<>>)
  BY <1>1, ProcessAssumption DEF Init
<1>4. QED
  BY <1>1, <1>2, <1>3 DEF RestInv, Done

LEMMA RestStep == ASSUME RestInv, [Next]_vars PROVE RestInv'
<1>1. file' = file /\ ((Reads /\ Read) \/ UNCHANGED <<rest, eof, line, match, header>>)
  BY FileStep
<1>2. ASSUME ~file.opens PROVE rest' = <<>> /\ ~eof' /\ pc' \in {"outer", "terminated", "hung"}
  <2>1. rest = <<>> /\ ~eof /\ pc \in {"outer", "terminated", "hung"}
    BY <1>2 DEF RestInv
  <2>2. CASE Reads
    <3>1. ReadOuter /\ pc = "outer"
      BY <2>1, <2>2 DEF Reads, ReadOuter, CollectGeneral, CollectHub, CollectChannel, CreateChannel,
         NoChannel
    <3>2. ~IsSection(Word)
      BY <2>1, <3>1, Matches DEF Word
    <3>3. QED
      BY <1>2, <2>1, <3>1, <3>2 DEF ReadOuter, Read, AtEnd
  <2>3. CASE ~Reads
    <3>1. UNCHANGED <<rest, eof>>
      BY <1>1, <2>3
    <3>2. pc' \in {"outer", "terminated", "hung"}
      BY <2>1, <2>3 DEF Next, Parse, Run, Reads, vars, TestHub, EndOfFile, Install, SetRunning,
         ActivateHub, Activated, TestRunning, WakeToTick, TickHub, TickDone, DeactivateHub, Return,
         Sigint, Over
    <3>3. QED
      BY <2>1, <3>1, <3>2
  <2>4. QED
    BY <2>2, <2>3
<1>3. CASE Read
  BY <1>1, <1>2, <1>3, ReadMoves DEF RestInv
<1>4. CASE UNCHANGED rest
  BY <1>1, <1>2, <1>4 DEF RestInv, Done
<1>5. QED
  BY <1>1, <1>3, <1>4

-----------------------------------------------------------------------------
(* Types.                                                                  *)

TypeInv ==
  /\ hubs \in Seq(Nat \ {0}) /\ made \in Seq(Nat) /\ header \in Nat
  /\ eof \in BOOLEAN /\ channels \in Nat /\ index \in Nat \ {0}
  /\ pc \in Read2Run \cup Reading \cup {"refused", "terminated", "hung"}
  /\ running \in BOOLEAN /\ handler \in BOOLEAN /\ active \subseteq 1..Len(hubs)
  /\ signals \in 0..2 /\ caught \in BOOLEAN /\ late \in 0..2

LEMMA TypeInit == Init => TypeInv
<1> SUFFICES ASSUME Init PROVE TypeInv
  OBVIOUS
<1>1. hubs \in Seq(Nat \ {0}) /\ made \in Seq(Nat) /\ header \in Nat
  BY DEF Init
<1>2. signals \in 0..2 /\ late \in 0..2 /\ active \subseteq 1..Len(hubs) /\ channels \in Nat
  BY DEF Init
<1>3. eof \in BOOLEAN /\ running \in BOOLEAN /\ handler \in BOOLEAN /\ caught \in BOOLEAN
  BY DEF Init
<1>4. pc \in Reading /\ index \in Nat \ {0}
  BY DEF Init, Reading
<1>5. QED
  BY <1>1, <1>2, <1>3, <1>4 DEF TypeInv

\* While the file is read there is a hub more at most.
LEMMA ParseType ==
  ASSUME RestInv, TypeInv, Reads \/ TestHub
  PROVE  TypeInv'
<1> USE DEF TypeInv, Read2Run, Reading
<1>1. Parses /\ file' = file
  BY DEF Reads, ReadOuter, CollectGeneral, CollectHub, CollectChannel, CreateChannel, NoChannel,
     TestHub, Parses
<1>2. CASE TestHub
  BY <1>2 DEF TestHub, Parses
<1>3. CASE Reads
  <2>1. Read
    BY <1>3 DEF Reads, ReadOuter, CollectGeneral, CollectHub, CollectChannel, CreateChannel, NoChannel
  <2>2. eof' \in BOOLEAN /\ header' \in Nat
    <3>1. Done + 1 \in Nat \/ rest = <<>>
      BY <1>1, <2>1, FileHas, ReadMoves DEF RestInv
    <3>2. eof' = AtEnd /\ header' \in {header, Done + 1} /\ (rest = <<>> => header' = header)
      BY <2>1 DEF Read
    <3>3. AtEnd \in BOOLEAN
      BY FileHas DEF AtEnd, RestInv
    <3>4. QED
      BY <3>1, <3>2, <3>3
  <2>3. CASE CreateChannel
    <3>1. made' = Append(made, header)
      BY <2>3 DEF CreateChannel
    <3>2. \/ hubs' = Append(hubs, channels + 1) /\ channels' = 0 /\ pc' = "outer"
          \/ hubs' = hubs /\ channels' = channels + 1 /\ pc' \in {"channel", "refused"}
      BY <2>3 DEF CreateChannel
    <3>3. hubs' \in Seq(Nat \ {0}) /\ active \subseteq 1..Len(hubs')
      <4>1. channels + 1 \in Nat \ {0} /\ hubs \in Seq(Nat \ {0}) /\ active \subseteq 1..Len(hubs)
        OBVIOUS
      <4>2. CASE hubs' = Append(hubs, channels + 1)
        <5> DEFINE c == channels + 1
        <5> HIDE DEF c
        <5>1. hubs' \in Seq(Nat \ {0}) /\ Len(hubs') = Len(hubs) + 1 /\ Len(hubs) \in Nat
          BY <4>1, <4>2 DEF c
        <5>2. 1..Len(hubs) \subseteq 1..Len(hubs')
          BY <5>1
        <5>3. QED
          BY <4>1, <5>1, <5>2
      <4>3. QED
        BY <3>2, <4>1, <4>2
    <3>4. made' \in Seq(Nat) /\ channels' \in Nat /\ pc' \in Reading \cup {"refused"}
      BY <3>1, <3>2
    <3>5. QED
      BY <1>1, <2>2, <3>3, <3>4 DEF Parses
  <2>4. CASE ~CreateChannel
    <3>1. UNCHANGED <<hubs, made>> /\ channels' \in {channels, 0}
          /\ pc' \in Reading \cup {"refused"}
      BY <1>3, <2>4 DEF Reads, ReadOuter, CollectGeneral, CollectHub, CollectChannel, NoChannel
    <3>2. QED
      BY <1>1, <2>2, <3>1 DEF Parses
  <2>5. QED
    BY <2>3, <2>4
<1>4. QED
  BY <1>2, <1>3

LEMMA RunType ==
  ASSUME TypeInv, [Next]_vars, ~Reads, ~TestHub
  PROVE  TypeInv' /\ UNCHANGED parseVars /\ file' = file
<1> USE DEF TypeInv, Read2Run, Reading
<1>1. CASE UNCHANGED vars
  BY <1>1 DEF vars
<1>2. Len(hubs) \in Nat
  OBVIOUS
<1>3. CASE EndOfFile \/ Activated \/ TickDone \/ Return
  BY <1>3 DEF EndOfFile, Activated, TickDone, Return, Parses
<1>4. CASE Install
  BY <1>4 DEF Install
<1>5. CASE SetRunning
  BY <1>5 DEF SetRunning
<1>6. CASE ActivateHub
  <2>1. index <= Len(hubs) /\ UNCHANGED parseVars /\ index \in 1..Len(hubs)
    BY <1>2, <1>6 DEF ActivateHub
  <2>2. active' = active \/ active' = active \cup {index}
    BY <1>6 DEF ActivateHub
  <2>3. index' = index \/ index' = index + 1
    BY <1>6 DEF ActivateHub
  <2>4. index' \in Nat \ {0}
    BY <2>3
  <2>5. active' \subseteq 1..Len(hubs)
    BY <2>1, <2>2
  <2>6. pc' \in {"activate", "terminated"}
    BY <1>6 DEF ActivateHub
  <2>7. QED
    BY <1>6, <2>1, <2>4, <2>6, <2>5 DEF ActivateHub
<1>7. CASE TestRunning
  BY <1>7 DEF TestRunning
<1>8. CASE WakeToTick
  <2>1. late' \in 0..2
    BY <1>8 DEF WakeToTick
  <2>2. QED
    BY <1>8, <2>1 DEF WakeToTick
<1>9. CASE TickHub \/ DeactivateHub
  <2>1. index' \in Nat \ {0} /\ active' \subseteq active /\ hubs' = hubs
    BY <1>9 DEF TickHub, DeactivateHub
  <2>2. QED
    BY <1>9, <2>1 DEF TickHub, DeactivateHub
<1>10. CASE Sigint
  <2>1. running' = FALSE \/ running' = running
    BY <1>10 DEF Sigint
  <2>2. pc' = pc \/ pc' \in {"terminated", "hung"}
    BY <1>10 DEF Sigint
  <2>3. running' \in BOOLEAN
    BY <2>1
  <2>4. signals' \in 0..2
    BY <1>10 DEF Sigint
  <2>5. caught' \in BOOLEAN
    BY <1>10 DEF Sigint
  <2>6. QED
    BY <1>10, <2>2, <2>3, <2>4, <2>5 DEF Sigint
<1>11. QED
  BY <1>1, <1>3, <1>4, <1>5, <1>6, <1>7, <1>8, <1>9, <1>10 DEF Next, Parse, Run, Reads

LEMMA TypeStep == RestInv /\ TypeInv /\ [Next]_vars => TypeInv'
BY ParseType, RunType

\* Each variable keeps its type, whatever file is read.
THEOREM TypeCorrect == Spec => []TypeOK
<1>1. Spec => [](RestInv /\ TypeInv)
  BY RestInit, RestStep, TypeInit, TypeStep, PTL DEF Spec
<1>2. RestInv /\ TypeInv => TypeOK
  BY DEF RestInv, TypeInv, TypeOK, Reading
<1>3. QED
  BY <1>1, <1>2, PTL

-----------------------------------------------------------------------------
(* The hubs and the shutdown.                                              *)

\* Which hubs are active, by where main() is in its loops over hublist; a round of
\* ticks after the signal is the last one, for no other starts while running is clear.
RunInv ==
  /\ pc \in Reading \cup {"install"} => ~handler
  /\ pc \in Reading \cup {"install", "ready"} => active = {} /\ late = 0 /\ ~caught
  /\ pc = "activate" => active = 1..(index - 1) /\ index <= Len(hubs) + 1 /\ late = 0
  /\ pc \in {"loop", "sleep", "tick"} => active = 1..Len(hubs)
  /\ pc = "stop" => active = index..Len(hubs)
  /\ pc = "exited" => active = {}
  /\ running => ~caught
  /\ ~caught \/ pc = "sleep" => late = 0
  /\ late <= 1

LEMMA RunInit == Init => RunInv
BY DEF Init, RunInv, Reading

LEMMA RunStep ==
  ASSUME TypeInv, RunInv, [Next]_vars
  PROVE  RunInv'
<1> USE DEF TypeInv, RunInv, Read2Run, Reading
<1>0. Len(hubs) \in Nat
  OBVIOUS
<1>1. CASE Reads \/ TestHub
  <2>1. /\ pc \in Reading /\ pc' \in Reading \cup {"refused"}
        /\ UNCHANGED <<running, handler, caught, active, late>>
    BY <1>1 DEF Reads, ReadOuter, CollectGeneral, TestHub, CollectHub, CollectChannel, CreateChannel,
       NoChannel, Parses
  <2>2. QED
    BY <2>1
<1>2. CASE UNCHANGED vars
  BY <1>2 DEF vars
<1>3. CASE EndOfFile \/ Install
  <2>1. /\ pc \in Reading \cup {"install"} /\ pc' \in {"install", "ready"}
        /\ UNCHANGED <<running, caught, active, late, hubs>>
        /\ pc' = "install" => handler' = handler
    BY <1>3 DEF EndOfFile, Install, Parses
  <2>2. QED
    BY <2>1
<1>4. CASE SetRunning
  BY <1>0, <1>4 DEF SetRunning
<1>5. CASE ActivateHub
  <2>1. pc = "activate" /\ index <= Len(hubs) /\ UNCHANGED <<hubs, running, caught, handler, late>>
    BY <1>5 DEF ActivateHub
  <2>2. CASE pc' = "terminated"
    BY <2>1, <2>2
  <2>3. CASE pc' = pc /\ index' = index + 1 /\ active' = active \cup {index}
    <3>1. active' = 1..(index' - 1) /\ index' <= Len(hubs) + 1
      BY <1>0, <2>1, <2>3
    <3>2. QED
      BY <2>1, <2>3, <3>1
  <2>4. QED
    BY <1>5, <2>2, <2>3 DEF ActivateHub
<1>6. CASE Activated
  BY <1>0, <1>6 DEF Activated
<1>7. CASE TestRunning
  BY <1>0, <1>7 DEF TestRunning
<1>8. CASE WakeToTick \/ TickHub \/ TickDone
  BY <1>8 DEF WakeToTick, TickHub, TickDone
<1>9. CASE DeactivateHub
  BY <1>0, <1>9 DEF DeactivateHub
<1>10. CASE Return
  BY <1>0, <1>10 DEF Return
<1>11. CASE Sigint
  <2>1. CASE handler
    <3>1. running' = FALSE /\ (pc' = pc \/ pc' \in {"terminated", "hung"})
          /\ UNCHANGED <<hubs, handler, index, active, late>> /\ pc # "exited"
      BY <1>11, <2>1 DEF Sigint, Over
    <3>2. caught' = (caught \/ pc # "ready")
      BY <1>11, <2>1 DEF Sigint
    <3>3. QED
      BY <2>1, <3>1, <3>2
  <2>2. CASE ~handler
    BY <1>11, <2>2 DEF Sigint
  <2>3. QED
    BY <2>1, <2>2
<1>12. QED
  BY <1>1, <1>2, <1>3, <1>4, <1>5, <1>6, <1>7, <1>8, <1>9, <1>10, <1>11 DEF Next, Parse, Run, Reads

\* However early SIGINT arrives, hubs are ticked only when all of them are active, and
\* when main() returns none is; at most one round begins after a SIGINT that comes while
\* hubs are activated or later.
THEOREM ShutdownCorrect == Spec => []ShutdownIsOrderly
<1>1. Init => RestInv /\ TypeInv /\ RunInv
  BY RestInit, TypeInit, RunInit
<1>2. RestInv /\ TypeInv /\ RunInv /\ [Next]_vars => (RestInv /\ TypeInv /\ RunInv)'
  BY RestStep, TypeStep, RunStep
<1>3. RunInv => ShutdownIsOrderly
  BY DEF RunInv, ShutdownIsOrderly
<1>4. QED
  BY <1>1, <1>2, <1>3, PTL DEF Spec

-----------------------------------------------------------------------------
(* Each channel is made of one section, and no section makes two.          *)

\* The last header read, behind which no other is read yet.
HeaderInv ==
  /\ header \in Nat /\ header <= Done /\ (header # 0 => header \in Headers)
  /\ \A j \in Headers : header < j => Done < j

Made ==
  /\ \A i, j \in DOMAIN made : i < j => made[i] < made[j]
  /\ \A i \in DOMAIN made : made[i] \in Headers /\ \A w \in Needed : Holds(made[i], w)

\* While main() reads, the sections that made channels lie before the last header; what
\* it has collected for a channel comes from behind that.
SourceInv ==
  /\ HeaderInv /\ Made
  /\ pc \in {"general", "hub", "options", "channel"} => header # 0
  /\ pc \in Reading /\ ~(pc = "outer" /\ eof) => \A i \in DOMAIN made : made[i] < header
  /\ pc = "channel" => /\ \A w \in buffer \cap Needed : Holds(header, w)
                       /\ buffer # {} => ~IsSection(line)

LEMMA FileKept ==
  ASSUME file' = file
  PROVE  /\ Headers' = Headers /\ (Plain' <=> Plain)
         /\ \A x : Named(x)' = Named(x)
         /\ \A h, w : Holds(h, w)' <=> Holds(h, w)
BY DEF Headers, Plain, Complete, Named, Holds

LEMMA HeaderStep ==
  ASSUME RestInv, HeaderInv, Read, file' = file
  PROVE  /\ HeaderInv' /\ header <= header'
         /\ rest # <<>> /\ IsSection(Word) =>
              header' = Done + 1 /\ header < header' /\ header' \in Headers /\ Done' = header'
         /\ rest # <<>> /\ ~IsSection(Word) => header' = header /\ Holds(header, Word)
<1>1. Done \in 0..Len(file.words) /\ Len(file.words) \in Nat /\ DOMAIN file.words = 1..Len(file.words)
  BY ReadMoves, FileHas DEF RestInv
<1>2. Headers' = Headers /\ Headers \subseteq 1..Len(file.words)
  BY <1>1, FileKept DEF Headers
<1>3. CASE rest = <<>>
  BY <1>1, <1>2, <1>3, ReadMoves DEF HeaderInv
<1>4. CASE rest # <<>> /\ IsSection(Word)
  <2>1. Done' = Done + 1 /\ header' = Done + 1 /\ Done + 1 \in Headers
    BY <1>1, <1>4, ReadMoves DEF Headers
  <2>2. QED
    BY <1>1, <1>2, <1>4, <2>1 DEF HeaderInv
<1>5. CASE rest # <<>> /\ ~IsSection(Word)
  <2>1. /\ Done' = Done + 1 /\ header' = header /\ Done + 1 \in 1..Len(file.words)
        /\ Word = file.words[Done + 1] /\ Done + 1 \notin Headers
    BY <1>5, ReadMoves DEF Headers
  <2>2. \A j \in Headers : header < j => Done + 1 < j
    <3>1. \A j \in Headers : header < j => Done < j /\ j # Done + 1 /\ j \in Nat
      BY <1>2, <2>1 DEF HeaderInv
    <3>2. QED
      BY <1>1, <3>1
  <2>3. HeaderInv'
    BY <1>1, <1>2, <2>1, <2>2 DEF HeaderInv
  <2>4. Holds(header, Word)
    <3>1. header < Done + 1 /\ \A j \in Headers : ~(header < j /\ j <= Done + 1)
      BY <1>1, <1>2, <2>2 DEF HeaderInv
    <3>2. QED
      BY <1>1, <2>1, <3>1 DEF Holds
  <2>5. QED
    BY <1>5, <2>1, <2>3, <2>4 DEF HeaderInv
<1>6. QED
  BY <1>3, <1>4, <1>5

LEMMA SourceInit == Init => SourceInv
<1> SUFFICES ASSUME Init PROVE SourceInv
  OBVIOUS
<1>1. RestInv /\ header = 0 /\ made = <<>> /\ pc = "outer"
  BY RestInit DEF Init
<1>2. Len(file.words) \in Nat /\ DOMAIN file.words = 1..Len(file.words)
  BY <1>1, FileHas DEF RestInv
<1>3. Done = 0
  BY <1>2 DEF Init, Done
<1>4. \A j \in Headers : Done < j
  BY <1>2, <1>3 DEF Headers
<1>5. QED
  BY <1>1, <1>3, <1>4 DEF SourceInv, HeaderInv, Made

LEMMA MadeMore ==
  ASSUME TypeInv, file' = file, Made, made' = Append(made, header), header \in Headers,
         \A i \in DOMAIN made : made[i] < header,
         \A w \in Needed : Holds(header, w)
  PROVE  Made' /\ \A i \in DOMAIN made' : made'[i] <= header
<1> DEFINE n == Len(made)
<1>1. /\ made \in Seq(Nat) /\ n \in Nat /\ DOMAIN made = 1..n /\ header \in Nat
      /\ DOMAIN made' = 1..(n + 1) /\ made'[n + 1] = header
      /\ \A i \in 1..n : made'[i] = made[i] /\ made[i] \in Nat
  BY DEF TypeInv
<1>2. \A i \in 1..(n + 1) : i \in 1..n \/ i = n + 1
  BY <1>1
<1>3. \A i, j \in 1..(n + 1) : i < j => i \in 1..n
  BY <1>1
<1> HIDE DEF n
<1>4. \A i, j \in DOMAIN made' : i < j => made'[i] < made'[j]
  BY <1>1, <1>2, <1>3 DEF Made
<1>5. \A i \in DOMAIN made' : made'[i] \in Headers /\ \A w \in Needed : Holds(made'[i], w)
  BY <1>1, <1>2 DEF Made
<1>6. \A i \in DOMAIN made' : made'[i] <= header
  BY <1>1, <1>2
<1>7. Headers' = Headers /\ \A i, w : Holds(made'[i], w) => Holds(made[i], w)'
  BY DEF Headers, Holds
<1>8. QED
  BY <1>4, <1>5, <1>6, <1>7 DEF Made

LEMMA MadeKept == ASSUME file' = file, made' = made, Made PROVE Made'
<1>1. Headers' = Headers /\ \A h, w : Holds(h, w)' <=> Holds(h, w)
  BY FileKept
<1>2. QED
  BY <1>1 DEF Made

\* Where a channel's options end, all that is needed and was collected comes from the
\* section that they end.
LEMMA SourceCreate ==
  ASSUME RestInv, TypeInv, SourceInv, CreateChannel
  PROVE  SourceInv'
<1>1. /\ Read /\ file' = file /\ pc = "channel" /\ Needed \subseteq buffer /\ Closing
      /\ made' = Append(made, header) /\ buffer' = {} /\ pc' \in {"outer", "channel", "refused"}
  BY DEF CreateChannel, Parses, Fresh
<1>2. header \in Headers /\ header # 0 /\ \A i \in DOMAIN made : made[i] < header
  BY <1>1 DEF SourceInv, HeaderInv, Reading
<1>3. \A w \in Needed : Holds(header, w)
  BY <1>1 DEF SourceInv
<1>4. Made' /\ \A i \in DOMAIN made' : made'[i] <= header
  BY <1>1, <1>2, <1>3, MadeMore DEF SourceInv
<1>5. HeaderInv' /\ header <= header' /\ header \in Nat /\ header' \in Nat
  BY <1>1, HeaderStep DEF SourceInv, HeaderInv
<1>6. CASE rest # <<>> /\ IsSection(Word)
  <2>1. header < header'
    BY <1>1, <1>6, HeaderStep DEF SourceInv
  <2>2. \A i \in DOMAIN made' : made'[i] \in Nat /\ made'[i] < header'
    <3>1. made' \in Seq(Nat)
      BY <1>1, <1>5 DEF TypeInv
    <3>2. QED
      BY <1>4, <1>5, <2>1, <3>1
  <2>3. QED
    BY <1>1, <1>2, <1>4, <1>5, <2>1, <2>2 DEF SourceInv
<1>7. CASE ~(rest # <<>> /\ IsSection(Word))
  <2>1. ~IsSection(Word)
    <3>1. CASE rest = <<>>
      <4>1. Word = line /\ buffer # {}
        BY <1>1, <3>1 DEF Word, Needed
      <4>2. QED
        BY <1>1, <4>1 DEF SourceInv
    <3>2. QED
      BY <1>7, <3>1
  <2>2. eof' /\ MatchOf(Word) = <<>>
    BY <1>1, <2>1 DEF Closing, Read, MatchOf
  <2>3. pc' = "outer"
    BY <2>2 DEF CreateChannel, cistrcmp, HubName
  <2>4. QED
    BY <1>4, <1>5, <2>2, <2>3 DEF SourceInv
<1>8. QED
  BY <1>6, <1>7

LEMMA SourceStep ==
  ASSUME RestInv, TypeInv, SourceInv, [Next]_vars
  PROVE  SourceInv'
<1>1. file' = file
  BY FileStep
<1>2. CASE CreateChannel
  BY <1>2, SourceCreate
<1>3. CASE Reads /\ ~CreateChannel
  <2>1. Read /\ made' = made /\ pc \in Reading /\ ~(pc = "outer" /\ eof)
    BY <1>3 DEF Reads, ReadOuter, CollectGeneral, CollectHub, CollectChannel, CreateChannel, NoChannel,
       Reading
  <2>2. Made' /\ HeaderInv' /\ header <= header' /\ header \in Nat /\ header' \in Nat
    BY <1>1, <2>1, MadeKept, HeaderStep DEF SourceInv, HeaderInv
  <2>3. \A i \in DOMAIN made' : made'[i] < header'
    <3>1. \A i \in DOMAIN made : made[i] \in Nat /\ made[i] < header
      BY <2>1 DEF SourceInv, TypeInv
    <3>2. QED
      BY <2>1, <2>2, <3>1
  <2>4. pc' \in {"general", "hub", "options", "channel"} => header' # 0
    <3>1. CASE ReadOuter /\ pc' # "outer"
      <4>1. IsSection(Word) /\ rest # <<>>
        BY <3>1, Matches DEF ReadOuter, Word
      <4>2. header < header'
        BY <1>1, <2>1, <4>1, HeaderStep DEF SourceInv
      <4>3. QED
        BY <2>2, <4>2
    <3>2. CASE ~ReadOuter
      <4>1. pc \in {"general", "hub", "options", "channel"}
        BY <1>3, <3>2 DEF Reads, CollectGeneral, CollectHub, CollectChannel, NoChannel
      <4>2. QED
        BY <2>2, <4>1 DEF SourceInv
    <3>3. QED
      BY <3>1, <3>2
  <2>5. pc' = "channel" => /\ \A w \in buffer' \cap Needed : Holds(header', w)
                           /\ buffer' # {} => ~IsSection(line')
    <3>1. CASE CollectChannel
      <4>1. ~IsSection(Word) /\ rest # <<>> /\ buffer' = buffer \cup {Word} /\ line' = Word
            /\ pc = "channel"
        BY <3>1 DEF CollectChannel, Closing, AtEnd, RestInv, Read
      <4>2. header' = header /\ Holds(header, Word)
        BY <1>1, <2>1, <4>1, HeaderStep DEF SourceInv
      <4>3. \A w \in buffer \cap Needed : Holds(header, w)
        BY <4>1 DEF SourceInv
      <4>4. \A w \in buffer' \cap Needed : Holds(header, w)
        BY <4>1, <4>2, <4>3
      <4>5. QED
        BY <1>1, <4>1, <4>2, <4>4, FileKept
    <3>2. CASE ~CollectChannel
      <4>1. pc' = "channel" => buffer' = {}
        BY <1>3, <3>2 DEF Reads, ReadOuter, CollectGeneral, CollectHub, NoChannel, Fresh
      <4>2. QED
        BY <4>1
    <3>3. QED
      BY <3>1, <3>2
  <2>6. \A w : Holds(header', w) => Holds(header, w)'
    BY <1>1 DEF Holds, Headers
  <2>7. QED
    BY <2>2, <2>3, <2>4, <2>5, <2>6 DEF SourceInv
<1>4. CASE ~Reads
  <2>1. UNCHANGED <<rest, eof, line, match, header, made>> /\ file' = file
    BY <1>1, <1>4, FileStep DEF Next, Parse, Run, Reads, vars, Parses, TestHub, EndOfFile, Install,
       SetRunning, ActivateHub, Activated, TestRunning, WakeToTick, TickHub, TickDone, DeactivateHub,
       Return, Sigint
  <2>2. Made' /\ HeaderInv'
    BY <2>1, MadeKept, FileKept DEF SourceInv, HeaderInv, Done
  <2>3. CASE pc' \notin Reading
    BY <2>2, <2>3 DEF SourceInv, Reading
  <2>4. CASE pc' \in Reading
    <3>1. \/ pc' = pc /\ buffer' = buffer
          \/ pc = "hub" /\ pc' \in {"outer", "options"}
      BY <1>4, <2>4 DEF Next, Parse, Run, Reads, vars, Parses, TestHub, EndOfFile, Install,
         SetRunning, ActivateHub, Activated, TestRunning, WakeToTick, TickHub, TickDone,
         DeactivateHub, Return, Sigint, Reading
    <3>2. \A w : Holds(header, w)' <=> Holds(header, w)
      BY <1>1, <2>1 DEF Holds, Headers
    <3>3. pc \in Reading
      BY <2>4, <3>1 DEF Reading
    <3>4. CASE pc = "hub"
      BY <2>1, <2>2, <2>4, <3>1, <3>4 DEF SourceInv, Reading
    <3>5. CASE pc # "hub"
      BY <2>1, <2>2, <3>1, <3>2, <3>3, <3>5 DEF SourceInv
    <3>6. QED
      BY <3>4, <3>5
  <2>5. QED
    BY <2>3, <2>4
<1>5. QED
  BY <1>2, <1>3, <1>4

-----------------------------------------------------------------------------
(* A plain file is read as it is written.                                  *)

\* All that lies behind the last header and is read.
Collected == \A i \in DOMAIN file.words : header < i /\ i <= Done => file.words[i] \in buffer

AsMeant == hubs = <<Len(made)>> /\ {made[i] : i \in DOMAIN made} = Named(Chan)

\* How far main() is in a plain file at each place of its loops.
PlainInv ==
  Plain =>
    /\ pc # "refused"
    /\ pc \in Reading /\ ~(pc = "outer" /\ eof) => ~eof /\ hubs = <<>>
    /\ pc = "outer" /\ ~eof => header = 0 /\ made = <<>>
    /\ pc = "general" => header \in Named(General) /\ made = <<>>
    /\ pc = "hub" => header \in Named(HubName) /\ header = Done /\ match = HubName /\ made = <<>>
    /\ pc = "options" => header \in Named(HubName) /\ Collected /\ made = <<>>
    /\ pc = "channel" => /\ header \in Named(Chan) /\ Collected /\ channels = Len(made)
                         /\ {made[i] : i \in DOMAIN made} = {c \in Named(Chan) : c < header}
    /\ pc \in Read2Run \/ (pc = "outer" /\ eof) => AsMeant

\* What cistrcmp() says of the names that a plain file has compared.
LEMMA NamesCompared ==
  /\ cistrcmp(General, General) /\ cistrcmp(HubName, HubName) /\ cistrcmp(Chan, Chan)
  /\ ~cistrcmp(Chan, HubName) /\ cistrcmp(<<>>, HubName)
BY DEF cistrcmp, General, HubName, Chan

LEMMA NamesDiffer == General # HubName /\ General # Chan /\ HubName # Chan
BY DEF General, HubName, Chan

\* The sections of a plain file in their order.
LEMMA Layout ==
  ASSUME RestInv, Plain
  PROVE  \E g, h \in 1..Len(file.words) :
           /\ Named(General) = {g} /\ Named(HubName) = {h} /\ 0 < g /\ g < h
           /\ Headers = {g, h} \cup Named(Chan)
           /\ \A c \in Named(Chan) : h < c
           /\ Holds(h, Option("name"))
<1>1. PICK g \in Named(General), h \in Named(HubName) :
           /\ Headers = {g, h} \cup Named(Chan) /\ g < h
           /\ \A c \in Named(Chan) : h < c
           /\ Holds(h, Option("name"))
  BY DEF Plain
<1>2. g \in 1..Len(file.words) /\ h \in 1..Len(file.words) /\ Len(file.words) \in Nat
  BY FileHas DEF RestInv, Named, Headers
<1>3. \A x, y : Section(x) = Section(y) => x = y
  BY Matches
<1>4. \A i : /\ i \in Named(General) => i \notin Named(HubName) /\ i \notin Named(Chan)
             /\ i \in Named(HubName) => i \notin Named(Chan)
  BY <1>3, NamesDiffer DEF Named
<1>5. Named(General) = {g}
  BY <1>1, <1>4 DEF Named
<1>6. Named(HubName) = {h}
  BY <1>1, <1>4 DEF Named
<1>7. QED
  BY <1>1, <1>2, <1>5, <1>6

\* What a section holds is collected when the next one begins or the file ends.
LEMMA CollectedAll ==
  ASSUME RestInv, HeaderInv, Collected, NEW w, Holds(header, w), Read, file' = file,
         rest = <<>> \/ IsSection(Word)
  PROVE  w \in buffer
<1>1. /\ Done \in 0..Len(file.words) /\ Len(file.words) \in Nat
      /\ DOMAIN file.words = 1..Len(file.words)
  BY ReadMoves, FileHas DEF RestInv
<1>2. PICK i \in DOMAIN file.words :
        header < i /\ file.words[i] = w /\ \A j \in Headers : ~(header < j /\ j <= i)
  BY DEF Holds
<1>3. CASE rest = <<>>
  <2>1. Done = Len(file.words)
    BY <1>3, ReadMoves
  <2>2. QED
    BY <1>1, <1>2, <2>1 DEF Collected
<1>4. CASE rest # <<>>
  <2>1. Done + 1 \in Headers
    BY <1>1, <1>4, ReadMoves DEF Headers
  <2>2. header < Done + 1
    BY <1>1 DEF HeaderInv
  <2>3. i <= Done
    BY <1>1, <1>2, <2>1, <2>2
  <2>4. QED
    BY <1>2, <2>3 DEF Collected
<1>5. QED
  BY <1>3, <1>4

LEMMA CollectedMore ==
  ASSUME RestInv, HeaderInv, Collected, Read, file' = file, rest # <<>>, ~IsSection(Word),
         buffer' = buffer \cup {Word}
  PROVE  Collected' /\ header' = header
<1>1. /\ Done' = Done + 1 /\ header' = header /\ Word = file.words[Done + 1]
      /\ Done \in Nat /\ DOMAIN file.words = 1..Len(file.words) /\ Len(file.words) \in Nat
  BY ReadMoves, FileHas DEF RestInv
<1>2. \A i \in DOMAIN file.words : i <= Done + 1 => i <= Done \/ i = Done + 1
  BY <1>1
<1>3. QED
  BY <1>1, <1>2 DEF Collected

\* Behind a header that was just read nothing is to be collected.
LEMMA CollectedNone ==
  ASSUME RestInv, header' = Done', file' = file, Done' \in Nat
  PROVE  Collected'
<1>1. \A i \in DOMAIN file.words : i \in Nat
  BY FileHas DEF RestInv
<1>2. QED
  BY <1>1 DEF Collected

LEMMA PlainInit == Init => PlainInv
BY DEF Init, PlainInv, Reading, Read2Run

\* A word of a plain file that is a header is the one that comes next.
LEMMA NextHeader ==
  ASSUME RestInv, HeaderInv, Plain, Read, file' = file, rest # <<>>, IsSection(Word)
  PROVE  /\ header' = Done' /\ Done' \in Nat /\ header < header' /\ header' \in Nat /\ HeaderInv'
         /\ header = 0 => header' \in Named(General)
         /\ header \in Named(General) => header' \in Named(HubName)
         /\ header \in Named(HubName) \cup Named(Chan) => header' \in Named(Chan)
         /\ \A c \in Named(Chan) : c < header' => c <= header
         /\ \A x : header' \in Named(x) => Word = Section(x)
<1>1. /\ header' = Done + 1 /\ Done' = header' /\ header' \in Headers /\ header < header'
      /\ HeaderInv'
  BY HeaderStep
<1>2. /\ Done \in Nat /\ Word = file.words[Done + 1] /\ header \in Nat
      /\ header' \in Nat /\ Headers \subseteq Nat
  BY <1>1, ReadMoves, FileHas DEF RestInv, HeaderInv, Headers
<1>3. \A j \in Headers : header < j => header' <= j
  <2>1. \A j \in Headers : header < j => Done < j
    BY DEF HeaderInv
  <2>2. QED
    BY <1>1, <1>2, <2>1
<1>4. PICK g, h \in 1..Len(file.words) :
           /\ Named(General) = {g} /\ Named(HubName) = {h} /\ 0 < g /\ g < h
           /\ Headers = {g, h} \cup Named(Chan)
           /\ \A c \in Named(Chan) : h < c
  BY Layout
<1>5. header = 0 => header' \in Named(General)
  BY <1>1, <1>2, <1>3, <1>4
<1>6. header \in Named(General) => header' \in Named(HubName)
  BY <1>1, <1>2, <1>3, <1>4
<1>7. header \in Named(HubName) \cup Named(Chan) => header' \in Named(Chan)
  BY <1>1, <1>2, <1>3, <1>4
<1>8. \A c \in Named(Chan) : c < header' => c <= header
  BY <1>2, <1>3, <1>4
<1>9. \A x : header' \in Named(x) => Word = Section(x)
  BY <1>1, <1>2 DEF Named
<1>10. QED
  BY <1>1, <1>2, <1>5, <1>6, <1>7, <1>8, <1>9

\* Before the channels, more of the file is always to come.
LEMMA MoreToCome ==
  ASSUME RestInv, HeaderInv, Plain, Read, file' = file,
         header = 0 \/ header \in Named(General) \cup Named(HubName)
  PROVE  rest # <<>> /\ (~eof => ~eof')
<1>1. PICK g, h \in 1..Len(file.words) :
           /\ Named(General) = {g} /\ Named(HubName) = {h} /\ 0 < g /\ g < h
           /\ Headers = {g, h} \cup Named(Chan)
           /\ \A c \in Named(Chan) : h < c
  BY Layout
<1>2. Len(file.words) \in Nat /\ Headers \subseteq 1..Len(file.words)
  BY FileHas DEF RestInv, Headers
<1>3. PICK c \in Named(Chan) : c \in Headers
  BY <1>1 DEF Plain
<1>4. c \in 1..Len(file.words) /\ header < c
  BY <1>1, <1>2, <1>3
<1>5. Done < c
  BY <1>3, <1>4 DEF HeaderInv
<1>6. rest # <<>>
  BY <1>2, <1>4, <1>5, ReadMoves
<1>7. file.newline
  BY DEF Plain, Complete
<1>8. QED
  BY <1>6, <1>7 DEF Read, AtEnd

\* Up to the first channel.
LEMMA PlainOuter ==
  ASSUME RestInv, TypeInv, SourceInv, PlainInv, Plain, ReadOuter
  PROVE  PlainInv'
<1>1. /\ Read /\ file' = file /\ pc = "outer" /\ ~eof /\ buffer' = {}
      /\ UNCHANGED <<channels, hubs, made>> /\ HeaderInv
  BY DEF ReadOuter, Parses, Fresh, SourceInv
<1>2. header = 0 /\ made = <<>> /\ hubs = <<>>
  BY <1>1 DEF PlainInv, Reading
<1>3. rest # <<>> /\ ~eof'
  BY <1>1, <1>2, MoreToCome
<1>4. \A x : Named(x)' = Named(x)
  BY <1>1, FileKept
<1>5. CASE IsSection(Word)
  <2>1. header' \in Named(General) /\ Word = Section(General)
    BY <1>1, <1>2, <1>3, <1>5, NextHeader
  <2>2. pc' = "general"
    BY <1>5, <2>1, Matches, NamesCompared DEF ReadOuter
  <2>3. QED
    BY <1>1, <1>2, <1>3, <1>4, <2>1, <2>2 DEF PlainInv, Read2Run, Reading
<1>6. CASE ~IsSection(Word)
  <2>1. pc' = "outer" /\ header' = 0
    BY <1>1, <1>2, <1>3, <1>6 DEF ReadOuter, Read
  <2>2. QED
    BY <1>1, <1>2, <1>3, <2>1 DEF PlainInv, Read2Run, Reading
<1>7. QED
  BY <1>5, <1>6

LEMMA PlainGeneral ==
  ASSUME RestInv, TypeInv, SourceInv, PlainInv, Plain, CollectGeneral
  PROVE  PlainInv'
<1>1. /\ Read /\ file' = file /\ pc = "general"
      /\ UNCHANGED <<channels, hubs, made>> /\ HeaderInv
  BY DEF CollectGeneral, Parses, SourceInv
<1>2. header \in Named(General) /\ made = <<>> /\ hubs = <<>> /\ ~eof
  BY <1>1 DEF PlainInv, Reading
<1>3. rest # <<>> /\ ~eof'
  BY <1>1, <1>2, MoreToCome
<1>4. \A x : Named(x)' = Named(x)
  BY <1>1, FileKept
<1>5. CASE IsSection(Word)
  <2>1. header' \in Named(HubName) /\ Word = Section(HubName) /\ header' = Done'
    BY <1>1, <1>2, <1>3, <1>5, NextHeader
  <2>2. pc' = "hub" /\ match' = HubName
    BY <1>1, <1>5, <2>1, Matches DEF CollectGeneral, Read
  <2>3. QED
    BY <1>1, <1>2, <1>3, <1>4, <2>1, <2>2 DEF PlainInv, Read2Run, Reading
<1>6. CASE ~IsSection(Word)
  <2>1. pc' = "general" /\ header' = header
    BY <1>1, <1>3, <1>6 DEF CollectGeneral, Read
  <2>2. QED
    BY <1>1, <1>2, <1>3, <1>4, <2>1 DEF PlainInv, Read2Run, Reading
<1>7. QED
  BY <1>5, <1>6

LEMMA PlainTest ==
  ASSUME RestInv, TypeInv, SourceInv, PlainInv, Plain, TestHub
  PROVE  PlainInv'
<1>1. /\ file' = file /\ pc = "hub" /\ buffer' = {}
      /\ UNCHANGED <<rest, eof, match, header, channels, hubs, made>>
  BY DEF TestHub, Parses, Fresh
<1>2. header \in Named(HubName) /\ header = Done /\ match = HubName /\ made = <<>> /\ hubs = <<>>
      /\ ~eof
  BY <1>1 DEF PlainInv, Reading
<1>3. pc' = "options"
  BY <1>2, NamesCompared DEF TestHub
<1>4. Done' = Done /\ Done \in Nat
  BY <1>1, <1>2 DEF Done, SourceInv, HeaderInv
<1>5. Collected'
  BY <1>1, <1>2, <1>4, CollectedNone
<1>6. \A x : Named(x)' = Named(x)
  BY <1>1, FileKept
<1>7. QED
  BY <1>1, <1>2, <1>3, <1>5, <1>6 DEF PlainInv, Read2Run, Reading

LEMMA PlainHub ==
  ASSUME RestInv, TypeInv, SourceInv, PlainInv, Plain, CollectHub
  PROVE  PlainInv'
<1>1. /\ Read /\ file' = file /\ pc = "options" /\ UNCHANGED <<hubs, made>> /\ HeaderInv
  BY DEF CollectHub, Parses, SourceInv
<1>2. header \in Named(HubName) /\ made = <<>> /\ hubs = <<>> /\ ~eof /\ Collected
  BY <1>1 DEF PlainInv, Reading
<1>3. rest # <<>> /\ ~eof'
  BY <1>1, <1>2, MoreToCome
<1>4. \A x : Named(x)' = Named(x)
  BY <1>1, FileKept
<1>5. CASE IsSection(Word)
  <2>1. /\ header' \in Named(Chan) /\ header' = Done' /\ Done' \in Nat
        /\ \A c \in Named(Chan) : c < header' => c <= header
    BY <1>1, <1>2, <1>3, <1>5, NextHeader
  <2>2. PICK h \in 1..Len(file.words) :
           /\ Named(HubName) = {h} /\ \A c \in Named(Chan) : h < c
           /\ Holds(h, Option("name"))
    BY Layout
  <2>3. Option("name") \in buffer
    BY <1>1, <1>2, <1>3, <1>5, <2>2, CollectedAll
  <2>4. pc' = "channel" /\ channels' = 0
    BY <1>5, <2>3 DEF CollectHub
  <2>5. Collected'
    <3>1. buffer' = {}
      BY <1>5 DEF CollectHub, Fresh
    <3>2. QED
      BY <1>1, <2>1, <3>1, CollectedNone
  <2>6. {c \in Named(Chan) : c < header'} = {}
    <3>1. \A c \in Named(Chan) : c \in Nat /\ header \in Nat /\ ~(c <= header)
      BY <1>2, <2>2, FileHas DEF RestInv, Named, Headers
    <3>2. QED
      BY <2>1, <3>1
  <2>7. channels' = Len(made') /\ {made'[i] : i \in DOMAIN made'} = {}
    BY <1>1, <1>2, <2>4
  <2>8. QED
    BY <1>1, <1>2, <1>3, <1>4, <2>1, <2>4, <2>5, <2>6, <2>7 DEF PlainInv, Read2Run, Reading
<1>6. CASE ~IsSection(Word)
  <2>1. pc' = "options" /\ buffer' = buffer \cup {Word}
    BY <1>1, <1>6 DEF CollectHub
  <2>2. Collected' /\ header' = header
    BY <1>1, <1>2, <1>3, <1>6, <2>1, CollectedMore
  <2>3. QED
    BY <1>1, <1>2, <1>3, <1>4, <2>1, <2>2 DEF PlainInv, Read2Run, Reading
<1>7. QED
  BY <1>5, <1>6

\* The channels.
LEMMA MadeSet ==
  ASSUME TypeInv, made' = Append(made, header)
  PROVE  /\ {made'[i] : i \in DOMAIN made'} = {made[i] : i \in DOMAIN made} \cup {header}
         /\ Len(made') = Len(made) + 1
<1> DEFINE n == Len(made)
<1>1. /\ n \in Nat /\ DOMAIN made = 1..n /\ DOMAIN made' = 1..(n + 1) /\ made'[n + 1] = header
      /\ \A i \in 1..n : made'[i] = made[i]
  BY DEF TypeInv
<1>2. Len(made') = n + 1
  BY DEF TypeInv
<1> HIDE DEF n
<1>3. 1..(n + 1) = 1..n \cup {n + 1}
  BY <1>1
<1>4. QED
  BY <1>1, <1>2, <1>3 DEF n

LEMMA PlainChannel ==
  ASSUME RestInv, TypeInv, SourceInv, PlainInv, Plain, CollectChannel
  PROVE  PlainInv'
<1>1. /\ Read /\ file' = file /\ pc = "channel" /\ pc' = "channel" /\ buffer' = buffer \cup {Word}
      /\ UNCHANGED <<channels, hubs, made>> /\ HeaderInv /\ ~IsSection(Word) /\ ~AtEnd
  BY DEF CollectChannel, Parses, Closing, SourceInv
<1>2. /\ header \in Named(Chan) /\ hubs = <<>> /\ ~eof /\ Collected /\ channels = Len(made)
      /\ {made[i] : i \in DOMAIN made} = {c \in Named(Chan) : c < header}
  BY <1>1 DEF PlainInv, Reading
<1>3. rest # <<>> /\ ~eof'
  BY <1>1 DEF AtEnd, Read, Plain, Complete
<1>4. \A x : Named(x)' = Named(x)
  BY <1>1, FileKept
<1>5. Collected' /\ header' = header
  BY <1>1, <1>2, <1>3, CollectedMore
<1>6. QED
  BY <1>1, <1>2, <1>3, <1>4, <1>5 DEF PlainInv, Read2Run, Reading

LEMMA PlainCreate ==
  ASSUME RestInv, TypeInv, SourceInv, PlainInv, Plain, CreateChannel
  PROVE  PlainInv'
<1>1. /\ Read /\ file' = file /\ pc = "channel" /\ Closing /\ Needed \subseteq buffer /\ buffer' = {}
      /\ made' = Append(made, header) /\ HeaderInv
  BY DEF CreateChannel, Parses, Fresh, SourceInv
<1>2. /\ header \in Named(Chan) /\ hubs = <<>> /\ ~eof /\ channels = Len(made)
      /\ {made[i] : i \in DOMAIN made} = {c \in Named(Chan) : c < header}
  BY <1>1 DEF PlainInv, Reading
<1>3. /\ Len(made') = channels + 1
      /\ {made'[i] : i \in DOMAIN made'} = {c \in Named(Chan) : c < header} \cup {header}
  BY <1>1, <1>2, MadeSet
<1>4. \A x : Named(x)' = Named(x)
  BY <1>1, FileKept
<1>5. Named(Chan) \subseteq Headers /\ Headers \subseteq Nat
  BY FileHas DEF RestInv, Named, Headers
<1>6. file.opens /\ file.newline
  BY DEF Plain, Complete
<1>7. CASE rest # <<>>
  <2>1. ~AtEnd /\ IsSection(Word) /\ ~eof'
    BY <1>1, <1>2, <1>6, <1>7 DEF AtEnd, Closing, Read
  <2>2. /\ header' \in Named(Chan) /\ header' = Done' /\ Done' \in Nat /\ header < header'
        /\ \A c \in Named(Chan) : c < header' => c <= header
        /\ Word = Section(Chan)
    BY <1>1, <1>2, <1>7, <2>1, NextHeader
  <2>3. MatchOf(Word) = Chan
    BY <2>2, Matches
  <2>4. pc' = "channel" /\ channels' = channels + 1 /\ hubs' = hubs
    BY <1>1, <2>3, NamesCompared DEF CreateChannel
  <2>5. Collected'
    BY <1>1, <2>2, CollectedNone
  <2>6. {c \in Named(Chan) : c < header} \cup {header} = {c \in Named(Chan) : c < header'}
    <3>1. \A c \in Named(Chan) : c < header' <=> (c < header \/ c = header)
      BY <1>2, <1>5, <2>2
    <3>2. QED
      BY <1>2, <3>1
  <2>7. QED
    BY <1>2, <1>3, <1>4, <2>1, <2>2, <2>4, <2>5, <2>6 DEF PlainInv, Read2Run, Reading
<1>8. CASE rest = <<>>
  <2>1. Word = line /\ ~IsSection(line)
    <3>1. buffer # {} /\ Word = line
      BY <1>1, <1>8 DEF Word, Needed
    <3>2. QED
      BY <1>1, <3>1 DEF SourceInv
  <2>2. MatchOf(Word) = <<>>
    BY <2>1 DEF MatchOf
  <2>3. pc' = "outer" /\ hubs' = Append(hubs, channels + 1)
    BY <2>2, NamesCompared DEF CreateChannel
  <2>4. eof'
    <3>1. AtEnd
      BY <1>6, <1>8 DEF AtEnd
    <3>2. QED
      BY <1>1, <3>1 DEF Read
  <2>5. {c \in Named(Chan) : c < header} \cup {header} = Named(Chan)
    <3>1. \A c \in Named(Chan) : c <= Len(file.words) /\ Len(file.words) \in Nat /\ c \in Nat
      BY FileHas DEF RestInv, Named, Headers
    <3>2. Done = Len(file.words)
      BY <1>1, <1>8, ReadMoves
    <3>3. \A c \in Named(Chan) : ~(header < c)
      BY <1>1, <1>5, <3>1, <3>2 DEF HeaderInv
    <3>4. \A c \in Named(Chan) : c < header \/ c = header
      <4>1. header \in Nat /\ Named(Chan) \subseteq Nat
        BY <1>2, <1>5
      <4>2. QED
        BY <3>3, <4>1
    <3>5. QED
      BY <1>2, <3>4
  <2>6. hubs' = <<Len(made')>>
    BY <1>2, <1>3, <2>3
  <2>7. AsMeant'
    BY <1>3, <1>4, <2>5, <2>6 DEF AsMeant
  <2>8. QED
    BY <2>3, <2>4, <2>7 DEF PlainInv, Read2Run, Reading
<1>9. QED
  BY <1>7, <1>8

\* The section of a channel holds all that is needed.
LEMMA PlainLacksNone ==
  ASSUME RestInv, TypeInv, SourceInv, PlainInv, Plain
  PROVE  ~NoChannel
<1> SUFFICES ASSUME NoChannel PROVE FALSE
  OBVIOUS
<1>1. Read /\ file' = file /\ pc = "channel" /\ Closing /\ ~(Needed \subseteq buffer) /\ HeaderInv
  BY DEF NoChannel, Parses, SourceInv
<1>2. header \in Named(Chan) /\ ~eof /\ Collected
  BY <1>1 DEF PlainInv, Reading
<1>3. rest = <<>> \/ IsSection(Word)
  BY <1>1, <1>2 DEF Closing, AtEnd, Plain, Complete
<1>4. \A w \in Needed : Holds(header, w)
  BY <1>2 DEF Plain
<1>5. QED
  BY <1>1, <1>2, <1>3, <1>4, CollectedAll

\* When it is read, its hub stays as it is.
LEMMA PlainRun ==
  ASSUME RestInv, TypeInv, PlainInv, Plain, [Next]_vars, ~Reads, ~TestHub
  PROVE  PlainInv'
<1>1. UNCHANGED parseVars /\ file' = file
  BY RunType
<1>2. /\ UNCHANGED <<rest, eof, match, header, channels, hubs, made, buffer>>
      /\ \A x : Named(x)' = Named(x)
  BY <1>1, FileKept
<1>3. \/ pc' = pc
      \/ pc' \in {"terminated", "hung"}
      \/ pc' \in Read2Run /\ (pc \in Read2Run \/ (pc = "outer" /\ eof))
  BY DEF Next, Parse, Run, Reads, vars, EndOfFile, Install, SetRunning, ActivateHub, Activated,
     TestRunning, WakeToTick, TickHub, TickDone, DeactivateHub, Return, Sigint, Read2Run
<1>4. CASE pc' = pc
  <2>1. Collected' = Collected /\ Done' = Done /\ AsMeant' = AsMeant
    BY <1>1, <1>2 DEF Collected, Done, AsMeant
  <2>2. QED
    BY <1>2, <1>4, <2>1 DEF PlainInv
<1>5. CASE pc' \in {"terminated", "hung"}
  BY <1>5 DEF PlainInv, Reading, Read2Run
<1>6. CASE pc' \in Read2Run /\ (pc \in Read2Run \/ (pc = "outer" /\ eof))
  <2>1. AsMeant'
    BY <1>2, <1>6 DEF PlainInv, AsMeant
  <2>2. QED
    BY <1>6, <2>1 DEF PlainInv, Reading, Read2Run
<1>7. QED
  BY <1>3, <1>4, <1>5, <1>6

LEMMA PlainStep ==
  ASSUME RestInv, TypeInv, SourceInv, PlainInv, [Next]_vars
  PROVE  PlainInv'
<1>1. Plain' <=> Plain
  BY FileStep, FileKept
<1>2. CASE ~Plain
  BY <1>1, <1>2 DEF PlainInv
<1>3. CASE Plain
  <2>1. CASE Reads \/ TestHub
    BY <1>3, <2>1, PlainOuter, PlainGeneral, PlainTest, PlainHub, PlainChannel, PlainCreate,
       PlainLacksNone DEF Reads
  <2>2. CASE ~Reads /\ ~TestHub
    BY <1>3, <2>2, PlainRun
  <2>3. QED
    BY <2>1, <2>2
<1>4. QED
  BY <1>2, <1>3

\* main() makes of every plain file the hub and the channels that it describes, and
\* refuses none; of any file, it makes a channel from the options of one section, and
\* from no section two.
THEOREM FilesReadCorrect == Spec => []FilesAreRead
<1>1. Init => RestInv /\ TypeInv /\ SourceInv /\ PlainInv
  BY RestInit, TypeInit, SourceInit, PlainInit
<1>2. RestInv /\ TypeInv /\ SourceInv /\ PlainInv /\ [Next]_vars =>
        (RestInv /\ TypeInv /\ SourceInv /\ PlainInv)'
  BY RestStep, TypeStep, SourceStep, PlainStep
<1>3. SourceInv /\ PlainInv => FilesAreRead
  BY DEF SourceInv, Made, PlainInv, AsMeant, FilesAreRead
<1>4. QED
  BY <1>1, <1>2, <1>3, PTL DEF Spec
=============================================================================
