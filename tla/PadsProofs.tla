----------------------------- MODULE PadsProofs -----------------------------
(* The controllers' serial interface, and the saves on the pak behind it.  *)
EXTENDS Controllers, PakNotes, TLAPS, FiniteSetTheorems

-----------------------------------------------------------------------------
(* Controllers: the serial interface holds one command at most, and outside *)
(* of mode 8 whoever waits for an answer waits for one that comes.          *)

\* Where the two threads hold the lock, and where they have the interface for
\* themselves.
MainHolds  == {"answer", "quiet", "work", "wait", "leave"}
MainFree   == {"quiet", "work", "leave"}
ServicePlaces == {"away", "answer", "motors", "motor"}

Operations ==
    [at : {"run", "leave"}]
      \cup [at : {"lock"}, op : {"reset", "pak"}, port : Ports]
      \cup [at : {"answer", "quiet"}, op : {"reset", "pak"}, port : Ports,
            asked : {Reading, Querying, Quiet}]
      \cup [at : {"work", "wait"}, op : {"reset", "pak"}, port : Ports, left : Nat]

Types ==
    /\ access \in {0, 1}
    /\ queueState \in {Reading, Querying, Quiet}
    /\ wire \in Seq(Commands) /\ siQueue \in {0, 1}
    /\ service \in [at : ServicePlaces, motors : SUBSET Ports]
    /\ rumblePak \subseteq Ports
    /\ main \in Operations

\* One thread at most has the lock.
OneHolder ==
    /\ service.at # "away" => access = 0 /\ main.at \notin MainHolds
    /\ main.at \in MainHolds => access = 0

\* A thread that begins a command has taken the answer to the one before, and
\* the lock is given back with a command under way only if gPakQueueState says
\* so.
BegunInTurn ==
    /\ Len(wire) + siQueue \in {0, 1}
    /\ service.at = "motors" => Len(wire) + siQueue = 0
    /\ main.at \in MainFree => Len(wire) + siQueue = 0
    /\ access = 1 /\ queueState = Quiet => Len(wire) + siQueue = 0

IInv == Types /\ OneHolder /\ BegunInTurn

\* What is known of the interface is the same whoever plugs in what.
Interface == <<access, wire, siQueue, queueState, service, main, rumblePak>>

LEMMA Quietly ==
  ASSUME IInv, UNCHANGED Interface
  PROVE  IInv'
BY DEF IInv, Types, OneHolder, BegunInTurn, Interface

\* The interface answers what was begun first, and nothing else.
LEMMA Answering ==
  ASSUME wire \in Seq(Commands), wire # <<>>, Len(wire) + siQueue \in {0, 1}, siQueue \in {0, 1}
  PROVE  /\ wire = <<Head(wire)>> /\ siQueue = 0 /\ Len(wire) = 1
         /\ Tail(wire) \in Seq(Commands) /\ Len(Tail(wire)) = 0
<1>1. Len(wire) \in Nat /\ Len(wire) # 0
  OBVIOUS
<1>2. Len(wire) = 1 /\ siQueue = 0
  <2>1. \A n \in Nat, q \in {0, 1} : n # 0 /\ n + q \in {0, 1} => n = 1 /\ q = 0
    OBVIOUS
  <2> QED
    BY <1>1, <2>1
<1>3. wire = <<Head(wire)>>
  <2>1. DOMAIN wire = 1 .. 1 /\ Head(wire) = wire[1]
    BY <1>2
  <2>2. wire = [i \in 1 .. 1 |-> wire[1]]
    BY <2>1, <1>2
  <2> QED
    BY <2>1, <2>2
<1>4. Tail(wire) \in Seq(Commands) /\ Len(Tail(wire)) = 0
  BY <1>2
<1> QED
  BY <1>2, <1>3, <1>4

LEMMA Beginning ==
  ASSUME NEW command \in Commands, wire \in Seq(Commands), Len(wire) + siQueue = 0,
         siQueue \in {0, 1}, Begin(command)
  PROVE  /\ wire' = <<command>> /\ wire' \in Seq(Commands)
         /\ siQueue' = 0 /\ Len(wire') = 1
<1>1. wire = <<>> /\ siQueue = 0
  OBVIOUS
<1> QED
  BY <1>1 DEF Begin

LEMMA Taking ==
  ASSUME wire \in Seq(Commands), Len(wire) + siQueue \in {0, 1}, TakeAnswer
  PROVE  wire' = <<>> /\ siQueue' = 0 /\ wire' \in Seq(Commands) /\ Len(wire') = 0
<1>1. wire = <<>>
  BY DEF TakeAnswer
<1> QED
  BY <1>1 DEF TakeAnswer

LEMMA Starting == ASSUME Init PROVE IInv
BY ControllersAssumption
DEF Init, IInv, Types, OneHolder, BegunInTurn, Away, Free, ServicePlaces, Operations,
    Quiet, Querying, Reading, MainHolds, MainFree, Commands

-----------------------------------------------------------------------------
(* Each action keeps the invariant.                                        *)

LEMMA Answers ==
  ASSUME IInv, SI_Answers
  PROVE  IInv'
<1>1. /\ wire' \in Seq(Commands) /\ siQueue' = 1 /\ Len(wire') = 0
      /\ Len(wire) = 1 /\ siQueue = 0
  BY Answering DEF SI_Answers, IInv, Types, BegunInTurn
<1>2. UNCHANGED <<access, queueState, service, main, rumblePak>>
  BY DEF SI_Answers, portVars
<1> QED
  BY <1>1, <1>2 DEF IInv, Types, OneHolder, BegunInTurn

LEMMA Enters ==
  ASSUME IInv, Service_Enter
  PROVE  IInv'
<1>1. UNCHANGED <<wire, siQueue, main, rumblePak>>
  BY DEF Service_Enter, wireVars, portVars
<1>2. CASE access = 0 /\ Rescan(queueState) /\ UNCHANGED <<access, service>>
  <2>1. queueState' \in {queueState, Querying}
    BY <1>2 DEF Rescan
  <2> QED
    BY <1>1, <1>2, <2>1 DEF IInv, Types, OneHolder, BegunInTurn
<1>3. CASE /\ Lock /\ UNCHANGED queueState
           /\ service' = IF MustWait THEN [service EXCEPT !.at = "answer"]
                         ELSE [at |-> "motors", motors |-> rumblePak]
  <2>1. /\ access = 1 /\ access' = 0
        /\ MustWait => service' = [service EXCEPT !.at = "answer"]
        /\ ~MustWait => service' = [at |-> "motors", motors |-> rumblePak]
    BY <1>3 DEF Lock
  <2>2. main.at \notin MainHolds
    BY <2>1 DEF IInv, OneHolder
  <2>3. CASE MustWait
    BY <1>1, <1>3, <2>1, <2>2, <2>3 DEF IInv, Types, OneHolder, BegunInTurn, ServicePlaces
  <2>4. CASE ~MustWait
    <3>1. queueState = Quiet
      BY <2>4 DEF IInv, Types, MustWait
    <3> QED
      BY <1>1, <1>3, <2>1, <2>2, <2>4, <3>1 DEF IInv, Types, OneHolder, BegunInTurn, ServicePlaces
  <2> QED
    BY <2>3, <2>4
<1> QED
  BY <1>2, <1>3 DEF Service_Enter

\* ReadAll takes the one answer there is.
LEMMA Reads ==
  ASSUME IInv, NEW asked, ReadAll(asked)
  PROVE  /\ wire' = <<>> /\ siQueue' = 0 /\ wire' \in Seq(Commands) /\ Len(wire') = 0
         /\ rumblePak' \subseteq Ports
<1>1. wire' = <<>> /\ siQueue' = 0 /\ wire' \in Seq(Commands) /\ Len(wire') = 0
  BY Taking DEF IInv, Types, BegunInTurn, ReadAll
<1>2. rumblePak' \subseteq Ports
  BY DEF IInv, Types, ReadAll, portVars
<1> QED
  BY <1>1, <1>2

LEMMA Serves ==
  ASSUME IInv, Service_ReadAll \/ Service_Motor \/ Service_MotorDone \/ Service_Ask
  PROVE  IInv'
<1>1. CASE Service_ReadAll
  <2>1. /\ service.at = "answer" /\ service' = [at |-> "motors", motors |-> rumblePak']
        /\ UNCHANGED <<access, queueState, main>>
    BY <1>1 DEF Service_ReadAll
  <2>2. /\ wire' \in Seq(Commands) /\ siQueue' = 0 /\ Len(wire') = 0 /\ rumblePak' \subseteq Ports
    BY <1>1, Reads DEF Service_ReadAll
  <2> QED
    BY <2>1, <2>2 DEF IInv, Types, OneHolder, BegunInTurn, ServicePlaces
<1>2. CASE Service_Motor
  <2>1. PICK p \in service.motors : service' = [at |-> "motor", motors |-> service.motors \ {p}]
    BY <1>2 DEF Service_Motor
  <2>2. service.at = "motors" /\ UNCHANGED <<access, queueState, main, rumblePak>>
    BY <1>2 DEF Service_Motor, portVars
  <2>3. Len(wire) + siQueue = 0 /\ wire \in Seq(Commands) /\ siQueue \in {0, 1}
    BY <2>2 DEF IInv, Types, BegunInTurn
  <2>4. wire' \in Seq(Commands) /\ siQueue' = 0 /\ Len(wire') = 1
    BY <1>2, <2>3, Beginning DEF Service_Motor, Commands
  <2>5. access = 0 /\ main.at \notin MainHolds /\ service.motors \subseteq Ports
    BY <2>2 DEF IInv, Types, OneHolder
  <2> QED
    BY <2>1, <2>2, <2>4, <2>5
    DEF IInv, Types, OneHolder, BegunInTurn, ServicePlaces, MainHolds, MainFree
<1>3. CASE Service_MotorDone
  <2>1. /\ service.at = "motor" /\ service' = [service EXCEPT !.at = "motors"]
        /\ UNCHANGED <<access, queueState, main, rumblePak>>
    BY <1>3 DEF Service_MotorDone, portVars
  <2>2. wire' \in Seq(Commands) /\ siQueue' = 0 /\ Len(wire') = 0
    BY <1>3, Taking DEF Service_MotorDone, IInv, Types, BegunInTurn
  <2> QED
    BY <2>1, <2>2 DEF IInv, Types, OneHolder, BegunInTurn, ServicePlaces
<1>4. CASE Service_Ask
  <2>1. /\ service.at = "motors" /\ service' = Away /\ access' = 1
        /\ UNCHANGED <<main, rumblePak>> /\ Rescan(NextQuestion)
    BY <1>4 DEF Service_Ask, Unlock, portVars
  <2>2. queueState' \in {Reading, Querying}
    BY <2>1 DEF Rescan, NextQuestion
  <2>3. Len(wire) + siQueue = 0 /\ wire \in Seq(Commands) /\ siQueue \in {0, 1}
    BY <2>1 DEF IInv, Types, BegunInTurn
  <2>4. wire' \in Seq(Commands) /\ siQueue' = 0 /\ Len(wire') = 1
    BY <1>4, <2>3, Beginning DEF Service_Ask, Command, Commands
  <2>5. main.at \notin MainHolds
    BY <2>1 DEF IInv, OneHolder
  <2> QED
    BY <2>1, <2>2, <2>4, <2>5
    DEF IInv, Types, OneHolder, BegunInTurn, ServicePlaces, MainHolds, MainFree, Away,
        Reading, Querying, Quiet
<1> QED
  BY <1>1, <1>2, <1>3, <1>4

\* The main thread's part.  What service.at is does not matter to it: while
\* the main thread holds the lock the service is away.
LEMMA Works ==
  ASSUME IInv, MainGoesOn
  PROVE  IInv'
<1> USE DEF MainHolds, MainFree
<1>1. CASE Main_Lock
  <2>1. /\ main.at = "lock" /\ access = 1 /\ access' = 0
        /\ main' = [at |-> IF MustWait THEN "answer" ELSE "quiet",
                    op |-> main.op, port |-> main.port, asked |-> queueState]
        /\ UNCHANGED <<wire, siQueue, queueState, service, rumblePak>>
    BY <1>1 DEF Main_Lock, MainAt, Lock, wireVars, portVars
  <2>2. main' \in Operations /\ main'.at = IF MustWait THEN "answer" ELSE "quiet"
    <3>1. main.op \in {"reset", "pak"} /\ main.port \in Ports
      BY <2>1 DEF IInv, Types, Operations
    <3>2. queueState \in {Reading, Querying, Quiet}
      BY DEF IInv, Types
    <3> QED
      BY <2>1, <3>1, <3>2 DEF Operations
  <2>3. service.at = "away"
    BY <2>1 DEF IInv, OneHolder
  <2>4. ~MustWait => queueState = Quiet
    BY DEF IInv, Types, MustWait
  <2> QED
    BY <2>1, <2>2, <2>3, <2>4 DEF IInv, Types, OneHolder, BegunInTurn
<1>2. CASE Main_ReadAll
  <2>1. /\ main.at = "answer" /\ main' = [main EXCEPT !.at = "quiet"]
        /\ UNCHANGED <<access, queueState, service>>
    BY <1>2 DEF Main_ReadAll, MainAt
  <2>2. main' \in Operations /\ main'.at = "quiet"
    BY <2>1 DEF IInv, Types, Operations
  <2>3. /\ wire' \in Seq(Commands) /\ siQueue' = 0 /\ Len(wire') = 0 /\ rumblePak' \subseteq Ports
    BY <1>2, Reads DEF Main_ReadAll
  <2> QED
    BY <2>1, <2>2, <2>3 DEF IInv, Types, OneHolder, BegunInTurn
<1>3. CASE Main_Quiet
  <2>1. /\ main.at = "quiet" /\ queueState' = Quiet
        /\ UNCHANGED <<access, wire, siQueue, service, rumblePak>>
    BY <1>3 DEF Main_Quiet, MainAt, wireVars, portVars
  <2>2. PICK n \in 0 .. MaxCommands :
          main' = [at |-> "work", op |-> main.op, port |-> main.port, left |-> n]
    BY <1>3 DEF Main_Quiet
  <2>3. main.op \in {"reset", "pak"} /\ main.port \in Ports
    BY <2>1 DEF IInv, Types, Operations
  <2>4. main' \in Operations /\ main'.at = "work"
    BY <2>2, <2>3, ControllersAssumption DEF Operations
  <2> QED
    BY <2>1, <2>4 DEF IInv, Types, OneHolder, BegunInTurn
<1>4. CASE Main_Command
  <2>1. /\ main.at = "work" /\ main.left > 0 /\ main' = [main EXCEPT !.at = "wait", !.left = @ - 1]
        /\ UNCHANGED <<access, queueState, service, rumblePak>>
    BY <1>4 DEF Main_Command, MainAt, portVars
  <2>2. main' \in Operations /\ main'.at = "wait"
    <3>1. main \in [at : {"work", "wait"}, op : {"reset", "pak"}, port : Ports, left : Nat]
      BY <2>1 DEF IInv, Types, Operations
    <3>2. main.left - 1 \in Nat
      BY <2>1, <3>1
    <3> QED
      BY <2>1, <3>1, <3>2 DEF Operations
  <2>3. Len(wire) + siQueue = 0 /\ wire \in Seq(Commands) /\ siQueue \in {0, 1}
    BY <2>1 DEF IInv, Types, BegunInTurn
  <2>4. wire' \in Seq(Commands) /\ siQueue' = 0 /\ Len(wire') = 1
    BY <1>4, <2>3, Beginning DEF Main_Command, Commands
  <2> QED
    BY <2>1, <2>2, <2>4 DEF IInv, Types, OneHolder, BegunInTurn
<1>5. CASE Main_CommandDone
  <2>1. /\ main.at = "wait" /\ main' = [main EXCEPT !.at = "work"]
        /\ UNCHANGED <<access, queueState, service, rumblePak>>
    BY <1>5 DEF Main_CommandDone, MainAt, portVars
  <2>2. main' \in Operations /\ main'.at = "work"
    BY <2>1 DEF IInv, Types, Operations
  <2>3. wire' \in Seq(Commands) /\ siQueue' = 0 /\ Len(wire') = 0
    BY <1>5, Taking DEF Main_CommandDone, IInv, Types, BegunInTurn
  <2> QED
    BY <2>1, <2>2, <2>3 DEF IInv, Types, OneHolder, BegunInTurn
<1>6. CASE Main_Reset
  <2>1. /\ main.at = "work" /\ main' = [at |-> "leave"] /\ queueState' = Quiet
        /\ UNCHANGED <<access, wire, siQueue, service>>
    BY <1>6 DEF Main_Reset, MainAt, wireVars
  <2>2. main' \in Operations /\ main'.at = "leave"
    BY <2>1 DEF Operations
  <2>3. rumblePak' \subseteq Ports
    <3>1. main.port \in Ports
      BY <2>1 DEF IInv, Types, Operations
    <3> QED
      BY <1>6, <3>1 DEF Main_Reset, IInv, Types
  <2> QED
    BY <2>1, <2>2, <2>3 DEF IInv, Types, OneHolder, BegunInTurn
<1>7. CASE Main_Unlock
  <2>1. /\ main.at \in {"leave", "work"} /\ main' = Free /\ access' = 1
        /\ UNCHANGED <<wire, siQueue, queueState, service, rumblePak>>
    BY <1>7 DEF Main_Unlock, Leaving, Unlock, wireVars, portVars
  <2>2. main' \in Operations /\ main'.at = "run"
    BY <2>1 DEF Operations, Free
  <2>3. service.at = "away" /\ Len(wire) + siQueue = 0
    BY <2>1 DEF IInv, OneHolder, BegunInTurn
  <2> QED
    BY <2>1, <2>2, <2>3 DEF IInv, Types, OneHolder, BegunInTurn
<1> QED
  BY <1>1, <1>2, <1>3, <1>4, <1>5, <1>6, <1>7 DEF MainGoesOn

LEMMA Keeping ==
  ASSUME IInv, [Next]_vars
  PROVE  IInv'
<1>1. CASE ServiceStep
  BY <1>1, Enters, Serves DEF ServiceStep
<1>2. CASE SI_Answers
  BY <1>2, Answers
<1>3. CASE MainGoesOn
  BY <1>3, Works
<1>4. CASE Main_Call
  <2>1. PICK p \in Ports, op \in {"reset", "pak"} : main' = [at |-> "lock", op |-> op, port |-> p]
    BY <1>4 DEF Main_Call
  <2>2. /\ main.at = "run"
        /\ UNCHANGED <<access, wire, siQueue, queueState, service, rumblePak>>
    BY <1>4 DEF Main_Call, MainAt, wireVars, portVars
  <2>3. main' \in Operations /\ main'.at = "lock"
    BY <2>1 DEF Operations
  <2> QED
    BY <2>2, <2>3 DEF IInv, Types, OneHolder, BegunInTurn, MainHolds, MainFree
<1>5. CASE \/ Controller_UpdatePakInsertion \/ SwitchMode
           \/ \E p \in Ports : Controller_WatchPak(p) \/ Controller_UnwatchPak(p)
                               \/ Controller_TakePakChanged(p)
  BY <1>5, Quietly
  DEF Controller_UpdatePakInsertion, SwitchMode, Controller_WatchPak, Controller_UnwatchPak,
      Controller_TakePakChanged, Frame, Interface, wireVars, portVars
<1>6. CASE \E p \in Ports : Player(p)
  BY <1>6, Quietly DEF Player, Interface, wireVars, portVars
<1>7. CASE UNCHANGED vars
  BY <1>7, Quietly DEF vars, Interface, wireVars, portVars
<1> QED
  BY <1>1, <1>2, <1>3, <1>4, <1>5, <1>6, <1>7 DEF Next, Menus

\* The interface never has two commands, for any ports and modes, although the
\* scheduler and the main thread begin commands whose answers the other takes.
THEOREM CommandsTakeTurns == Spec => []OneCommand
<1>1. Init => IInv
  BY Starting
<1>2. IInv /\ [Next]_vars => IInv'
  BY Keeping
<1>3. IInv => OneCommand
  BY DEF IInv, Types, BegunInTurn, OneCommand
<1> QED
  BY <1>1, <1>2, <1>3, PTL DEF Spec

-----------------------------------------------------------------------------
(* Outside of mode 8 the answer that is waited for is the one that comes.  *)

\* The answer is waited for, or will be by whoever takes the lock next.
Awaited == (access = 1 \/ service.at = "answer" \/ main.at = "answer") /\ MustWait

Coming ==
    \/ wire = <<Command(queueState)>>
    \/ wire = <<>> /\ siQueue = 1 /\ pif = Command(queueState)

AnswerInv ==
    /\ Awaited => Coming
    /\ service.at = "answer" \/ main.at = "answer" => MustWait
    /\ main.at \in {"work", "wait", "leave"} => queueState = Quiet

LEMMA QuietlyAnswered ==
  ASSUME AnswerInv, UNCHANGED Interface, pif' = pif
  PROVE  AnswerInv'
BY DEF AnswerInv, Awaited, Coming, Command, MustWait, Interface

\* While nobody has the lock or waits, nothing is said of the answer.
LEMMA Unawaited ==
  ASSUME access' = 0, service'.at # "answer", main'.at # "answer",
         main'.at \in {"work", "wait", "leave"} => queueState' = Quiet
  PROVE  AnswerInv'
BY DEF AnswerInv, Awaited

LEMMA AnswerAnswers ==
  ASSUME IInv, AnswerInv, SI_Answers
  PROVE  AnswerInv'
<1>1. UNCHANGED <<access, queueState, service, main>>
  BY DEF SI_Answers
<1>2. /\ wire = <<Head(wire)>> /\ pif' = Head(wire) /\ siQueue' = 1 /\ Len(wire') = 0
      /\ wire' \in Seq(Commands)
  BY Answering DEF SI_Answers, IInv, Types, BegunInTurn
<1>3. wire # <<>> /\ wire' = <<>>
  BY <1>2 DEF SI_Answers
<1>4. Awaited => Coming'
  <2> SUFFICES ASSUME Awaited PROVE Coming'
    OBVIOUS
  <2>1. wire = <<Command(queueState)>>
    BY <1>3 DEF AnswerInv, Coming
  <2>2. pif' = Command(queueState)
    BY <1>1, <1>2, <2>1
  <2> QED
    BY <1>1, <1>2, <1>3, <2>2 DEF Coming, Command
<1> QED
  BY <1>1, <1>4 DEF AnswerInv, Awaited, MustWait

LEMMA ServiceAnswers ==
  ASSUME IInv, AnswerInv, ServiceStep, mode # "menu"
  PROVE  AnswerInv'
<1> USE DEF MainHolds
<1>1. CASE Service_Enter
  <2>1. UNCHANGED <<wire, siQueue, pif, main>>
    BY <1>1 DEF Service_Enter, wireVars
  <2>2. CASE access = 0 /\ Rescan(queueState) /\ UNCHANGED <<access, service>>
    <3>1. queueState' = queueState
      BY <2>2 DEF Rescan
    <3> QED
      BY <2>1, <2>2, <3>1 DEF AnswerInv, Awaited, Coming, Command, MustWait
  <2>3. CASE Lock /\ MustWait /\ service' = [service EXCEPT !.at = "answer"] /\ UNCHANGED queueState
    <3>1. Awaited /\ main.at \notin MainHolds
      BY <2>3 DEF Lock, Awaited, IInv, OneHolder
    <3>2. Coming' /\ MustWait'
      BY <2>1, <2>3, <3>1 DEF AnswerInv, Coming, Command, MustWait
    <3> QED
      BY <2>1, <3>1, <3>2 DEF AnswerInv
  <2>4. CASE Lock /\ ~MustWait /\ service' = [at |-> "motors", motors |-> rumblePak]
    <3>1. access' = 0 /\ service'.at # "answer" /\ main'.at \notin MainHolds
      BY <2>1, <2>4 DEF Lock, IInv, OneHolder
    <3> QED
      BY <3>1, Unawaited
  <2> QED
    BY <1>1, <2>2, <2>3, <2>4 DEF Service_Enter
<1>2. CASE Service_ReadAll \/ Service_Motor \/ Service_MotorDone
  <2>1. service.at # "away" /\ service'.at \in {"motors", "motor"} /\ UNCHANGED <<access, main>>
    BY <1>2 DEF Service_ReadAll, Service_Motor, Service_MotorDone, IInv, Types
  <2>2. access = 0 /\ main.at \notin MainHolds
    BY <2>1 DEF IInv, OneHolder
  <2> QED
    BY <2>1, <2>2, Unawaited
<1>3. CASE Service_Ask
  <2> DEFINE question == Command(NextQuestion)
  <2>1. /\ service.at = "motors" /\ service' = Away /\ Begin(question)
        /\ queueState' = NextQuestion /\ UNCHANGED main
    BY <1>3 DEF Service_Ask, Rescan
  <2>2. main.at \notin MainHolds /\ Len(wire) + siQueue = 0 /\ wire \in Seq(Commands)
        /\ siQueue \in {0, 1}
    BY <2>1 DEF IInv, Types, OneHolder, BegunInTurn
  <2>3. question \in Commands
    BY DEF Commands, Command
  <2>4. wire' = <<question>>
    <3> HIDE DEF question
    <3> QED
      BY <2>1, <2>2, <2>3, Beginning
  <2>5. Coming'
    BY <2>1, <2>4 DEF Coming, Command
  <2> QED
    BY <2>1, <2>2, <2>5 DEF AnswerInv, Away
<1> QED
  BY <1>1, <1>2, <1>3 DEF ServiceStep

LEMMA MainAnswers ==
  ASSUME IInv, AnswerInv, MainGoesOn
  PROVE  AnswerInv'
<1> USE DEF MainHolds
<1>1. CASE Main_Lock
  <2>1. /\ main.at = "lock" /\ access = 1 /\ access' = 0
        /\ main' = [at |-> IF MustWait THEN "answer" ELSE "quiet",
                    op |-> main.op, port |-> main.port, asked |-> queueState]
        /\ UNCHANGED <<wire, siQueue, pif, queueState, service>>
    BY <1>1 DEF Main_Lock, MainAt, Lock, wireVars
  <2>2. main'.at = (IF MustWait THEN "answer" ELSE "quiet") /\ service.at = "away"
    BY <2>1 DEF IInv, Types, Operations, OneHolder
  <2>3. CASE MustWait
    <3>1. Coming' /\ MustWait'
      BY <2>1, <2>3 DEF AnswerInv, Awaited, Coming, Command, MustWait
    <3> QED
      BY <2>2, <2>3, <3>1 DEF AnswerInv
  <2>4. CASE ~MustWait
    BY <2>1, <2>2, <2>4, Unawaited
  <2> QED
    BY <2>3, <2>4
<1>2. CASE Main_ReadAll \/ Main_Quiet \/ Main_Command \/ Main_CommandDone \/ Main_Reset
  <2>1. main.at \in MainHolds /\ UNCHANGED <<access, service>>
    BY <1>2 DEF Main_ReadAll, Main_Quiet, Main_Command, Main_CommandDone, Main_Reset, MainAt
  <2>2. access = 0 /\ service.at = "away"
    BY <2>1 DEF IInv, OneHolder
  <2>3. main'.at # "answer"
    <3>1. CASE Main_ReadAll
      BY <3>1 DEF Main_ReadAll, MainAt, IInv, Types, Operations
    <3>2. CASE Main_Quiet
      BY <3>2 DEF Main_Quiet
    <3>3. CASE Main_Command
      BY <3>3 DEF Main_Command, MainAt, IInv, Types, Operations
    <3>4. CASE Main_CommandDone
      BY <3>4 DEF Main_CommandDone, MainAt, IInv, Types, Operations
    <3>5. CASE Main_Reset
      BY <3>5 DEF Main_Reset
    <3> QED
      BY <1>2, <3>1, <3>2, <3>3, <3>4, <3>5
  <2>4. main'.at \in {"work", "wait", "leave"} => queueState' = Quiet
    <3>1. CASE Main_ReadAll
      BY <3>1 DEF Main_ReadAll, MainAt, IInv, Types, Operations
    <3>2. CASE Main_Quiet \/ Main_Reset
      BY <3>2 DEF Main_Quiet, Main_Reset
    <3>3. CASE Main_Command \/ Main_CommandDone
      BY <3>3 DEF Main_Command, Main_CommandDone, MainAt, AnswerInv
    <3> QED
      BY <1>2, <3>1, <3>2, <3>3
  <2> QED
    BY <2>1, <2>2, <2>3, <2>4, Unawaited
<1>3. CASE Main_Unlock
  <2>1. main.at \in {"leave", "work"} /\ main' = Free /\ UNCHANGED <<queueState, service>>
    BY <1>3 DEF Main_Unlock, Leaving
  <2>2. queueState' = Quiet /\ service.at = "away"
    BY <2>1 DEF AnswerInv, IInv, OneHolder
  <2> QED
    BY <2>1, <2>2 DEF AnswerInv, Awaited, MustWait, Free, Quiet, Reading, Querying
<1> QED
  BY <1>1, <1>2, <1>3 DEF MainGoesOn

LEMMA AnswerKept ==
  ASSUME IInv, AnswerInv, mode # "menu", [Next]_vars
  PROVE  AnswerInv'
<1>1. CASE ServiceStep
  BY <1>1, ServiceAnswers
<1>2. CASE SI_Answers
  BY <1>2, AnswerAnswers
<1>3. CASE MainGoesOn
  BY <1>3, MainAnswers
<1>4. CASE Main_Call
  <2>1. PICK p \in Ports, op \in {"reset", "pak"} : main' = [at |-> "lock", op |-> op, port |-> p]
    BY <1>4 DEF Main_Call
  <2>2. main'.at = "lock" /\ main.at = "run"
    BY <1>4, <2>1 DEF Main_Call, MainAt
  <2>3. UNCHANGED <<access, wire, siQueue, pif, queueState, service>>
    BY <1>4 DEF Main_Call, wireVars
  <2> QED
    BY <2>2, <2>3 DEF AnswerInv, Awaited, Coming, Command, MustWait
<1>5. CASE \/ Controller_UpdatePakInsertion \/ SwitchMode
           \/ \E p \in Ports : Controller_WatchPak(p) \/ Controller_UnwatchPak(p)
                               \/ Controller_TakePakChanged(p)
  BY <1>5, QuietlyAnswered
  DEF Controller_UpdatePakInsertion, SwitchMode, Controller_WatchPak, Controller_UnwatchPak,
      Controller_TakePakChanged, Frame, Interface, wireVars, portVars
<1>6. CASE \E p \in Ports : Player(p)
  BY <1>6, QuietlyAnswered DEF Player, Interface, wireVars, portVars
<1>7. CASE UNCHANGED vars
  BY <1>7, QuietlyAnswered DEF vars, Interface, wireVars, portVars
<1> QED
  BY <1>1, <1>2, <1>3, <1>4, <1>5, <1>6, <1>7 DEF Next, Menus

LEMMA AnswerStarts == ASSUME Init PROVE AnswerInv
BY DEF Init, AnswerInv, Awaited, MustWait, Away, Free, Quiet, Reading, Querying

\* The main thread waits for what gPakQueueState said when it began to wait.
SameFlag == main.at = "answer" => main.asked = queueState

LEMMA FlagKept ==
  ASSUME IInv, SameFlag, mode # "menu", [Next]_vars
  PROVE  SameFlag'
<1>1. CASE UNCHANGED <<main, queueState>>
  BY <1>1 DEF SameFlag
<1>2. CASE Service_Enter
  <2>1. UNCHANGED main /\ queueState' = queueState
    BY <1>2 DEF Service_Enter, Rescan
  <2> QED
    BY <1>1, <2>1
<1>3. CASE Service_Ask
  <2>1. UNCHANGED main /\ main.at # "answer"
    BY <1>3 DEF Service_Ask, IInv, OneHolder, MainHolds
  <2> QED
    BY <2>1 DEF SameFlag
<1>4. CASE Main_Lock
  BY <1>4 DEF Main_Lock, SameFlag
<1>5. CASE \/ Main_Call \/ Main_ReadAll \/ Main_Quiet \/ Main_Command \/ Main_CommandDone
           \/ Main_Reset \/ Main_Unlock
  <2>1. CASE Main_Call
    BY <2>1 DEF Main_Call, SameFlag
  <2>2. CASE Main_ReadAll \/ Main_Command \/ Main_CommandDone
    BY <2>2 DEF Main_ReadAll, Main_Command, Main_CommandDone, MainAt, IInv, Types, Operations,
                SameFlag
  <2>3. CASE Main_Quiet \/ Main_Reset \/ Main_Unlock
    BY <2>3 DEF Main_Quiet, Main_Reset, Main_Unlock, Free, SameFlag
  <2> QED
    BY <1>5, <2>1, <2>2, <2>3
<1>6. CASE Service_ReadAll \/ Service_Motor \/ Service_MotorDone \/ SI_Answers
  BY <1>1, <1>6 DEF Service_ReadAll, Service_Motor, Service_MotorDone, SI_Answers
<1>7. CASE \/ Controller_UpdatePakInsertion \/ SwitchMode
           \/ \E p \in Ports : \/ Controller_WatchPak(p) \/ Controller_UnwatchPak(p)
                               \/ Controller_TakePakChanged(p) \/ Player(p)
  BY <1>1, <1>7
  DEF Controller_UpdatePakInsertion, SwitchMode, Controller_WatchPak, Controller_UnwatchPak,
      Controller_TakePakChanged, Frame, Player
<1>8. CASE UNCHANGED vars
  BY <1>1, <1>8 DEF vars
<1> QED
  BY <1>2, <1>3, <1>4, <1>5, <1>6, <1>7, <1>8 DEF Next, ServiceStep, MainGoesOn, Menus

\* As long as mode 8 is not entered, whoever waits in Controller_ReadAll waits
\* for an answer that comes and is the one gPakQueueState names.
THEOREM AnswersAreAsked == Spec => AnswerIsAsked
<1>1. Init => IInv /\ AnswerInv /\ SameFlag
  BY Starting, AnswerStarts DEF Init, SameFlag, Free
<1>2. IInv /\ AnswerInv /\ SameFlag /\ [Next]_vars /\ mode # "menu"
        => IInv' /\ AnswerInv' /\ SameFlag'
  BY Keeping, AnswerKept, FlagKept
<1>3. IInv /\ AnswerInv /\ SameFlag => AnswerComes
  <2> SUFFICES ASSUME AnswerInv, SameFlag, service.at = "answer" \/ main.at = "answer"
               PROVE  Comes(queueState)
    BY DEF AnswerComes, SameFlag
  <2> QED
    BY DEF AnswerInv, Awaited, Coming, Comes
<1> QED
  BY <1>1, <1>2, <1>3, PTL DEF Spec, AnswerIsAsked, OutsideMenu

-----------------------------------------------------------------------------
(* PakNotes: the saves cost the player no note.  What makes this so is that *)
(* the pak's calls are refused for every pak but the mounted one: between   *)
(* the first call of a save and the deletion the mounted pak is the one the *)
(* note was begun on, though another may be in the slot, and the file is    *)
(* one that was free.  Only the deletion goes by a name that may be wrong.  *)

Places == {"idle", "write", "allocate", "data", "undo", "mount", "verify", "erase",
           "erased", "kept", "told"}

NamesOrNone == Names \cup {Nothing}

Saves == [at : Places, tries : Nat, name : NamesOrNone, pak : Paks \cup {Nothing},
          file : Files \cup {Nothing}, result : Int]

\* A free note has no name, and no two notes of a pak have the same.
Notes ==
    /\ note \in [Paks -> [Files -> Contents]]
    /\ name \in [Paks -> [Files -> NamesOrNone]]
    /\ \A p \in Paks, f \in Files : note[p][f] = "none" => name[p][f] = Nothing
    /\ \A p \in Paks : \A f, g \in Files :
         name[p][f] = name[p][g] /\ name[p][f] # Nothing => f = g

PakTypes ==
    /\ slot \in Paks \cup {Rumble, Nothing}
    /\ Notes
    /\ pakError \in Int
    /\ save \in Saves
    /\ save.at # "idle" => save.name \in Names

\* The note is being written, and the player cannot put in another pak.
Writing == save.at \in {"data", "undo"} \/ (save.at = "mount" /\ save.result = 0)

\* The note is written, and any pak may be in the slot.
Written == save.at \in {"verify", "erase"}

OwnNote ==
    /\ save.pak \in Paks /\ save.file \in Files
    /\ mounted = save.pak
    /\ note[save.pak][save.file] # "other"
    /\ name[save.pak][save.file] = save.name

PakInv ==
    /\ PakTypes
    /\ Writing \/ Written => OwnNote
    /\ Writing => slot \in {save.pak, Nothing}
    /\ save.at = "undo" => save.result # 0

OthersStay == \A p \in Paks, f \in Files : note[p][f] = "other" => note'[p][f] = "other"

-----------------------------------------------------------------------------
LEMMA NothingElse == Nothing \notin Names /\ Nothing \notin Paks
BY PakAssumption

\* What a write to one file of one pak changes.
LEMMA Putting ==
  ASSUME NEW pak \in Paks, NEW f \in Files, NEW c \in Contents, NEW n \in NamesOrNone,
         Notes, Put(pak, f, c, n),
         c = "none" => n = Nothing,
         n # Nothing => Named(pak, n) \subseteq {f}
  PROVE  /\ Notes'
         /\ note'[pak][f] = c /\ name'[pak][f] = n
         /\ \A g \in Files \ {f} : name'[pak][g] = name[pak][g]
         /\ note[pak][f] # "other" => OthersStay
<1>1. /\ note' = [note EXCEPT ![pak][f] = c] /\ note[pak] \in [Files -> Contents]
      /\ name' = [name EXCEPT ![pak][f] = n] /\ name[pak] \in [Files -> NamesOrNone]
  BY DEF Put, Notes
<1>2. /\ note'[pak] = [note[pak] EXCEPT ![f] = c]
      /\ name'[pak] = [name[pak] EXCEPT ![f] = n]
  BY <1>1 DEF Notes
<1>3. /\ note'[pak][f] = c /\ \A g \in Files \ {f} : note'[pak][g] = note[pak][g]
      /\ name'[pak][f] = n /\ \A g \in Files \ {f} : name'[pak][g] = name[pak][g]
  BY <1>1, <1>2
<1>4. \A p \in Paks \ {pak} : note'[p] = note[p] /\ name'[p] = name[p]
  BY <1>1 DEF Notes
<1>5. note' \in [Paks -> [Files -> Contents]] /\ name' \in [Paks -> [Files -> NamesOrNone]]
  BY <1>1, <1>2 DEF Notes
<1>6. ASSUME NEW p \in Paks, NEW g \in Files, note'[p][g] = "none" PROVE name'[p][g] = Nothing
  BY <1>3, <1>4, <1>6 DEF Notes
<1>7. ASSUME NEW p \in Paks, NEW g \in Files, NEW h \in Files,
             name'[p][g] = name'[p][h], name'[p][g] # Nothing
      PROVE  g = h
  <2>1. CASE p # pak
    BY <1>4, <1>7, <2>1 DEF Notes
  <2>2. CASE p = pak /\ (g = f \/ h = f)
    BY <1>3, <1>7, <2>2 DEF Named
  <2>3. CASE p = pak /\ g # f /\ h # f
    BY <1>3, <1>7, <2>3 DEF Notes
  <2> QED
    BY <2>1, <2>2, <2>3
<1>8. Notes'
  BY <1>5, <1>6, <1>7 DEF Notes
<1>9. ASSUME note[pak][f] # "other", NEW p \in Paks, NEW g \in Files, note[p][g] = "other"
      PROVE  note'[p][g] = "other"
  BY <1>3, <1>4, <1>9
<1> QED
  BY <1>3, <1>8, <1>9 DEF OthersStay

\* What a deletion by name deletes is the one note of that name.
LEMMA Deleting ==
  ASSUME NEW pak \in Paks, NEW n, Notes, n # Nothing, Delete(pak, n)
  PROVE  /\ Notes'
         /\ \E f \in Files : name[pak][f] = n /\ Put(pak, f, "none", Nothing)
         /\ \A f \in Files : name[pak][f] = n =>
              /\ note'[pak][f] = "none" /\ Named(pak, n)' = {}
              /\ note[pak][f] # "other" => OthersStay
<1>1. PICK f \in Files : name[pak][f] = n /\ Put(pak, f, "none", Nothing)
  BY DEF Delete, Named
<1>2. /\ Notes' /\ note'[pak][f] = "none" /\ name'[pak][f] = Nothing
      /\ \A g \in Files \ {f} : name'[pak][g] = name[pak][g]
      /\ note[pak][f] # "other" => OthersStay
  BY <1>1, Putting DEF Contents, NamesOrNone
<1>3. \A g \in Files : name[pak][g] = n => g = f
  BY <1>1 DEF Notes
<1>4. Named(pak, n)' = {}
  BY <1>2, <1>3 DEF Named
<1> QED
  BY <1>1, <1>2, <1>3, <1>4

LEMMA AllStay == ASSUME Untouched PROVE OthersStay /\ (Notes => Notes')
BY DEF OthersStay, Untouched, Notes

\* A step of the save that leaves its note alone.
LEMMA GoingOn ==
  ASSUME NEW at \in Places, save \in Saves, GoTo(at)
  PROVE  save' \in Saves /\ save'.at = at /\ save'.pak = save.pak /\ save'.name = save.name
         /\ save'.file = save.file /\ save'.result = save.result
BY DEF GoTo, Saves

LEMMA Telling ==
  ASSUME NEW result \in Int, save \in Saves, Tell(result)
  PROVE  save' \in Saves /\ save'.at = "told" /\ save'.name = save.name
BY DEF Tell, Saves, Places

\* The other ways in which the record of a save changes.
LEMMA OneTry ==
  ASSUME NEW n \in Names, save \in Saves,
         save' = [save EXCEPT !.at = "write", !.tries = 1, !.name = n]
  PROVE  save' \in Saves /\ save'.at = "write" /\ save'.name = n
<1>1. save' = [at |-> "write", tries |-> 1, name |-> n, pak |-> save.pak, file |-> save.file,
               result |-> save.result]
  BY DEF Saves
<1> QED
  BY <1>1 DEF Saves, Places, NamesOrNone

LEMMA Failing ==
  ASSUME NEW at \in {"mount", "undo"}, save \in Saves,
         save' = [save EXCEPT !.at = at, !.result = -1]
  PROVE  /\ save' \in Saves /\ save'.at = at /\ save'.result # 0
         /\ save'.pak = save.pak /\ save'.file = save.file /\ save'.name = save.name
<1>1. save' = [at |-> at, tries |-> save.tries, name |-> save.name, pak |-> save.pak,
               file |-> save.file, result |-> -1]
  BY DEF Saves
<1>2. -1 \in Int /\ -1 # 0 /\ at \in Places
  BY DEF Places
<1> QED
  BY <1>1, <1>2 DEF Saves

\* A step after which nothing of this save is on its way.
LEMMA NothingWritten ==
  ASSUME PakTypes', save'.at \notin {"data", "undo", "verify", "erase"},
         save'.at = "mount" => save'.result # 0
  PROVE  PakInv'
BY DEF PakInv, Writing, Written

\* Pak_Mount mounts the pak in the slot, or leaves what was mounted.
LEMMA Mounting ==
  ASSUME PakTypes, Pak_Mount
  PROVE  /\ slot' \in Paks \cup {Rumble, Nothing} /\ pakError' \in Int
         /\ slot' \in {slot, Nothing} /\ mounted' \in {mounted, slot}
         /\ mounted' # mounted => slot \in Paks
BY DEF PakTypes, Pak_Mount, Mounts, MountsPulled, MountsNot, Refresh

-----------------------------------------------------------------------------
LEMMA StartKept == ASSUME PakInit PROVE PakInv
<1>1. save = Idle /\ Idle \in Saves /\ Idle.at = "idle"
  BY DEF PakInit, Idle, Saves, Places, NamesOrNone
<1>2. Notes
  BY DEF PakInit, Notes, Contents, NamesOrNone
<1> QED
  BY <1>1, <1>2 DEF PakInit, PakInv, PakTypes, Writing, Written

\* The player pulls out a pak or puts one in.
LEMMA SlotKept ==
  ASSUME PakInv, Pull \/ Insert
  PROVE  PakInv' /\ OthersStay
<1>1. UNCHANGED <<note, name, mounted, pakError, save>>
  BY DEF Pull, Insert
<1>2. slot' \in Paks \cup {Rumble, Nothing}
  BY DEF Pull, Insert
<1>3. Writing => slot' \in {save.pak, Nothing}
  BY DEF Pull, Insert, Between, Writing, PakInv
<1> QED
  <2>1. PakTypes' /\ OthersStay
    BY <1>1, <1>2, AllStay DEF PakInv, PakTypes, Untouched
  <2>2. (OwnNote => OwnNote') /\ Writing' = Writing /\ Written' = Written
    BY <1>1 DEF OwnNote, Writing, Written
  <2> QED
    BY <1>1, <1>3, <2>1, <2>2 DEF PakInv

\* The menus, before a save.
LEMMA MenusKept ==
  ASSUME PakInv, Pak_ProbeSlot \/ Pak_Repair \/ PakMenu_WriteSaveGame
  PROVE  PakInv' /\ OthersStay
<1>1. PakTypes /\ save.at = "idle" /\ Untouched
  BY DEF PakInv, Pak_ProbeSlot, Pak_Repair, PakMenu_WriteSaveGame, At, Untouched
<1>2. CASE Pak_ProbeSlot \/ Pak_Repair
  <2>1. UNCHANGED save
    BY <1>2 DEF Pak_ProbeSlot, Pak_Repair
  <2>2. slot' \in Paks \cup {Rumble, Nothing} /\ pakError' \in Int
    BY <1>1, <1>2, Mounting DEF Pak_ProbeSlot, Pak_Repair, PakTypes
  <2>3. PakTypes'
    BY <1>1, <2>1, <2>2, AllStay DEF PakTypes
  <2> QED
    BY <1>1, <2>1, <2>3, NothingWritten, AllStay
<1>3. CASE PakMenu_WriteSaveGame
  <2>1. PICK n \in Names : save' = [save EXCEPT !.at = "write", !.tries = 1, !.name = n]
    BY <1>3 DEF PakMenu_WriteSaveGame
  <2>2. save' \in Saves /\ save'.at = "write" /\ save'.name \in Names /\ UNCHANGED <<slot, pakError>>
    BY <1>1, <1>3, <2>1, OneTry DEF PakTypes, PakMenu_WriteSaveGame
  <2>3. PakTypes'
    BY <1>1, <2>1, <2>2, AllStay DEF PakTypes
  <2> QED
    BY <1>1, <2>2, <2>3, NothingWritten, AllStay
<1> QED
  BY <1>2, <1>3

-----------------------------------------------------------------------------
\* The free file a save takes is not another's note.
LEMMA AllocateKept ==
  ASSUME PakInv, Allocate
  PROVE  PakInv' /\ OthersStay
<1>1. slot \in Paks /\ slot = mounted /\ PakTypes
      /\ UNCHANGED <<slot, mounted, pakError>>
  BY DEF Allocate, Reached, FileCall, PakInv
<1>2. PICK f \in Unused(slot) :
        /\ Put(slot, f, "bad", save.name)
        /\ save' = [save EXCEPT !.at = "data", !.pak = slot, !.file = f]
  BY DEF Allocate
<1>3. f \in Files /\ note[slot][f] # "other" /\ Named(slot, save.name) = {}
  BY DEF Unused, Allocate
<1>4. save.name \in Names
  BY <1>1 DEF Allocate, At, PakTypes
<1>5. /\ Notes' /\ note'[slot][f] = "bad" /\ name'[slot][f] = save.name
      /\ OthersStay
  BY <1>1, <1>2, <1>3, <1>4, Putting DEF PakTypes, Contents, NamesOrNone
<1>6. save' \in Saves /\ save'.at = "data" /\ save'.pak = slot /\ save'.file = f
      /\ save'.name = save.name
  BY <1>1, <1>2, <1>3 DEF PakTypes, Saves, Places
<1>7. PakTypes'
  BY <1>1, <1>4, <1>5, <1>6 DEF PakTypes
<1>8. OwnNote' /\ slot' \in {save'.pak, Nothing}
  BY <1>1, <1>3, <1>5, <1>6 DEF OwnNote
<1> QED
  BY <1>5, <1>6, <1>7, <1>8 DEF PakInv

\* Writing the data and undoing the note touch nothing but the save's file.
LEMMA OwnFileKept ==
  ASSUME PakInv, WriteData \/ WriteDataFails \/ Undo
  PROVE  PakInv' /\ OthersStay
<1>1. PakTypes /\ OwnNote /\ slot \in {save.pak, Nothing}
      /\ UNCHANGED <<slot, mounted, pakError>>
  <2>1. save.at \in {"data", "undo"} /\ UNCHANGED <<slot, mounted, pakError>>
    <3>1. CASE WriteData
      BY <3>1 DEF WriteData, At, FileCall
    <3>2. CASE WriteDataFails
      BY <3>2 DEF WriteDataFails, At, FileCall
    <3>3. CASE Undo
      BY <3>3 DEF Undo, At, FileCall
    <3> QED
      BY <3>1, <3>2, <3>3
  <2>2. Writing
    BY <2>1 DEF Writing
  <2> QED
    BY <2>1, <2>2 DEF PakInv
<1>2. CASE WriteDataFails
  <2>1. save' = [save EXCEPT !.at = "undo", !.result = -1] /\ Untouched /\ save.at = "data"
    BY <1>2 DEF WriteDataFails, At
  <2>2. save' \in Saves /\ UNCHANGED <<save.pak, save.file, save.name>> /\ save'.at = "undo"
    BY <1>1, <2>1, Failing DEF PakTypes
  <2> QED
    BY <1>1, <2>1, <2>2, AllStay DEF PakInv, PakTypes, OwnNote, Untouched
<1>3. CASE WriteData \/ Undo
  <2>1. GoTo("mount")
    BY <1>3 DEF WriteData, Undo
  <2>2. save' \in Saves /\ UNCHANGED <<save.pak, save.file, save.name, save.result>>
        /\ save'.at = "mount"
    BY <1>1, <2>1, GoingOn DEF PakTypes, Places
  <2>3. save.at # "idle" /\ save.name \in Names
    BY <1>1, <1>3 DEF WriteData, Undo, At, PakTypes
  <2>4. CASE WriteData
    <3>1. Untouched \/ Put(save.pak, save.file, "good", save.name)
      BY <1>1, <2>4 DEF WriteData, Reached, OwnNote
    <3>2. Named(save.pak, save.name) \subseteq {save.file}
      BY <1>1, <2>3, NothingElse DEF Named, PakTypes, Notes, OwnNote
    <3>3. /\ OthersStay /\ Notes'
          /\ note'[save.pak][save.file] # "other" /\ name'[save.pak][save.file] = save.name
      <4>1. CASE Untouched
        BY <1>1, <4>1, AllStay DEF PakTypes, OwnNote, Untouched
      <4>2. CASE Put(save.pak, save.file, "good", save.name)
        BY <1>1, <2>3, <3>2, <4>2, Putting DEF PakTypes, OwnNote, Contents, NamesOrNone
      <4> QED
        BY <3>1, <4>1, <4>2
    <3>4. PakTypes' /\ OwnNote'
      BY <1>1, <2>2, <2>3, <3>3 DEF PakTypes, OwnNote
    <3> QED
      BY <1>1, <2>2, <3>3, <3>4 DEF PakInv
  <2>5. CASE Undo
    <3>1. OthersStay /\ Notes'
      <4>1. CASE Untouched
        BY <1>1, <4>1, AllStay DEF PakTypes
      <4>2. CASE Reached /\ Delete(slot, save.name)
        BY <1>1, <2>3, <4>2, NothingElse, Deleting DEF PakTypes, OwnNote, Reached
      <4> QED
        BY <2>5, <4>1, <4>2 DEF Undo
    <3>2. save.result # 0
      BY <2>5 DEF Undo, At, PakInv
    <3>3. PakTypes'
      BY <1>1, <2>2, <2>3, <3>1 DEF PakTypes
    <3> QED
      BY <2>2, <3>1, <3>2, <3>3, NothingWritten
  <2> QED
    BY <1>3, <2>4, <2>5
<1> QED
  BY <1>2, <1>3

\* Pak_WriteNote where it writes nothing.
LEMMA WriteKept ==
  ASSUME PakInv, Pak_WriteNote \/ AllocateFails
  PROVE  PakInv' /\ OthersStay
<1>1. PakTypes /\ UNCHANGED <<slot, mounted, pakError>> /\ Untouched /\ save.name \in Names
  BY DEF PakInv, PakTypes, Pak_WriteNote, AllocateFails, FileCall, At
<1>2. save \in Saves /\ -2 \in Int /\ pakError \in Int
  BY <1>1 DEF PakTypes
<1>3. CASE Pak_WriteNote
  <2>1. Tell(-2) \/ Tell(pakError) \/ GoTo("allocate")
    BY <1>3 DEF Pak_WriteNote
  <2>2. save' \in Saves /\ save'.at \in {"told", "allocate"} /\ save'.name = save.name
    BY <1>2, <2>1, Telling, GoingOn DEF Places
  <2>3. PakTypes'
    BY <1>1, <2>2, AllStay DEF PakTypes
  <2> QED
    BY <1>1, <2>2, <2>3, NothingWritten, AllStay
<1>4. CASE AllocateFails
  <2>1. save' = [save EXCEPT !.at = "mount", !.result = -1]
    BY <1>4 DEF AllocateFails
  <2>2. save' \in Saves /\ save'.at = "mount" /\ save'.result # 0 /\ save'.name = save.name
    BY <1>2, <2>1, Failing
  <2>3. PakTypes'
    BY <1>1, <2>2, AllStay DEF PakTypes
  <2> QED
    BY <1>1, <2>2, <2>3, NothingWritten, AllStay
<1> QED
  BY <1>3, <1>4

\* The end of Pak_WriteNote reads the pak again, which is still the same.
LEMMA WriteEndsKept ==
  ASSUME PakInv, WriteEnds
  PROVE  PakInv' /\ OthersStay
<1>1. PakTypes /\ save.at = "mount" /\ Pak_Mount /\ Untouched /\ save.name \in Names
  BY DEF PakInv, PakTypes, WriteEnds, At
<1>2. /\ slot' \in Paks \cup {Rumble, Nothing} /\ pakError' \in Int
      /\ mounted' \in {mounted, slot}
      /\ mounted' # mounted => slot \in Paks
  BY <1>1, Mounting
<1>3. CASE save.result = 0
  <2>1. OwnNote /\ slot \in {save.pak, Nothing}
    BY <1>1, <1>3 DEF PakInv, Writing
  <2>2. mounted' = save.pak
    <3>1. CASE slot = save.pak
      BY <1>2, <2>1, <3>1 DEF OwnNote
    <3>2. CASE slot = Nothing
      BY <1>2, <2>1, <3>2, PakAssumption DEF OwnNote
    <3> QED
      BY <2>1, <3>1, <3>2
  <2>3. /\ save' \in Saves /\ save'.at = "verify"
        /\ UNCHANGED <<save.pak, save.file, save.name>>
    BY <1>1, <1>3, GoingOn DEF WriteEnds, PakTypes, Places
  <2>4. PakTypes' /\ OwnNote' /\ ~Writing'
    BY <1>1, <1>2, <2>1, <2>2, <2>3, AllStay DEF PakTypes, OwnNote, Writing, Untouched
  <2> QED
    BY <1>1, <2>3, <2>4, AllStay DEF PakInv
<1>4. CASE save.result # 0
  <2>1. save' \in Saves /\ save'.at = "told" /\ save'.name = save.name
    BY <1>1, <1>4, GoingOn DEF WriteEnds, PakTypes, Places
  <2>2. PakTypes'
    BY <1>1, <1>2, <2>1, AllStay DEF PakTypes
  <2> QED
    BY <1>1, <2>1, <2>2, NothingWritten, AllStay
<1> QED
  BY <1>3, <1>4

\* Reading the note back changes nothing on the paks.
LEMMA ReadKept ==
  ASSUME PakInv, ReadNote
  PROVE  PakInv' /\ OthersStay
<1>1. /\ PakTypes /\ OwnNote /\ UNCHANGED <<slot, mounted, pakError>>
      /\ Untouched /\ save.name \in Names
  BY DEF PakInv, PakTypes, ReadNote, At, Written, FileCall
<1>2. Tell(0) \/ GoTo("erase")
  BY DEF ReadNote
<1>3. CASE Tell(0)
  <2>1. save' \in Saves /\ save'.at = "told" /\ save'.name = save.name
    BY <1>1, <1>3, Telling DEF PakTypes
  <2>2. PakTypes'
    BY <1>1, <2>1, AllStay DEF PakTypes
  <2> QED
    BY <1>1, <2>1, <2>2, NothingWritten, AllStay
<1>4. CASE GoTo("erase")
  <2>1. /\ save' \in Saves /\ save'.at = "erase"
        /\ UNCHANGED <<save.pak, save.file, save.name>>
    BY <1>1, <1>4, GoingOn DEF PakTypes, Places
  <2>2. PakTypes' /\ OwnNote' /\ ~Writing'
    BY <1>1, <2>1, AllStay DEF PakTypes, OwnNote, Writing, Untouched
  <2> QED
    BY <1>1, <2>1, <2>2, AllStay DEF PakInv
<1> QED
  BY <1>2, <1>3, <1>4

\* The end of a try.  Only the deletion can be of another note.
LEMMA DeleteKept ==
  ASSUME PakInv,
         Pak_DeleteNote \/ Pak_DeleteNoteFails \/ Pak_DeleteNoteRefuses \/ DeleteEnds
  PROVE  PakInv' /\ (Pak_DeleteNote \/ OthersStay)
<1>1. /\ PakTypes /\ save \in Saves /\ save.result \in Int /\ save.tries \in Nat
      /\ save.name \in Names
  BY DEF PakInv, PakTypes, Saves, Pak_DeleteNote, Pak_DeleteNoteFails, Pak_DeleteNoteRefuses,
         DeleteEnds, At
<1>2. CASE Pak_DeleteNote
  <2>1. /\ Reached /\ listed[save.file] # Nothing /\ Delete(slot, listed[save.file])
        /\ UNCHANGED <<slot, mounted, pakError>>
    BY <1>2 DEF Pak_DeleteNote, FileCall
  <2>2. Notes'
    BY <1>1, <2>1, Deleting DEF PakTypes, Reached
  <2>3. save' \in Saves /\ save'.at = "erased" /\ save'.name = save.name
    BY <1>1, <1>2, GoingOn DEF Pak_DeleteNote, Places
  <2>4. PakTypes'
    BY <1>1, <2>1, <2>2, <2>3 DEF PakTypes
  <2> QED
    BY <1>2, <2>3, <2>4, NothingWritten
<1>3. CASE Pak_DeleteNoteFails \/ Pak_DeleteNoteRefuses
  <2>1. UNCHANGED <<slot, mounted, pakError>> /\ Untouched
    BY <1>3 DEF Pak_DeleteNoteFails, Pak_DeleteNoteRefuses, FileCall
  <2>2. save' \in Saves /\ save'.at \in {"kept", "told"} /\ save'.name = save.name
    BY <1>1, <1>3, GoingOn, Telling DEF Pak_DeleteNoteFails, Pak_DeleteNoteRefuses, Places
  <2>3. PakTypes'
    BY <1>1, <2>1, <2>2, AllStay DEF PakTypes
  <2> QED
    BY <2>1, <2>2, <2>3, NothingWritten, AllStay
<1>4. CASE DeleteEnds
  <2>1. Pak_Mount /\ Untouched
    BY <1>4 DEF DeleteEnds
  <2>2. slot' \in Paks \cup {Rumble, Nothing} /\ pakError' \in Int
    BY <1>1, <2>1, Mounting
  <2>3. \/ save' = [save EXCEPT !.at = "write", !.tries = save.tries + 1]
        \/ Tell(save.result)
    BY <1>4 DEF DeleteEnds
  <2>4. save' \in Saves /\ save'.at \in {"write", "told"} /\ save'.name = save.name
    <3>1. CASE Tell(save.result)
      BY <1>1, <3>1, Telling
    <3>2. CASE save' = [save EXCEPT !.at = "write", !.tries = save.tries + 1]
      <4>1. save.tries + 1 \in Nat
        BY <1>1
      <4> QED
        BY <1>1, <3>2, <4>1 DEF Saves, Places
    <3> QED
      BY <2>3, <3>1, <3>2
  <2>5. PakTypes'
    BY <1>1, <2>1, <2>2, <2>4, AllStay DEF PakTypes
  <2> QED
    BY <2>1, <2>4, <2>5, NothingWritten, AllStay
<1> QED
  BY <1>2, <1>3, <1>4

LEMMA MessageKept ==
  ASSUME PakInv, Message
  PROVE  PakInv' /\ OthersStay
<1>1. PakTypes /\ UNCHANGED <<slot, mounted, pakError, name>> /\ save' = Idle
      /\ note' = [p \in Paks |-> [f \in Files |->
                    IF note[p][f] = "none" THEN "none" ELSE "other"]]
  BY DEF PakInv, Message, FileCall
<1>2. Notes' /\ OthersStay
  BY <1>1 DEF PakTypes, Notes, Contents, OthersStay
<1>3. save' \in Saves /\ save'.at = "idle"
  BY <1>1 DEF Idle, Saves, Places, NamesOrNone
<1>4. PakTypes'
  BY <1>1, <1>2, <1>3 DEF PakTypes
<1> QED
  BY <1>2, <1>3, <1>4, NothingWritten

LEMMA NotesKept ==
  ASSUME PakInv, [PakNext]_pakVars
  PROVE  PakInv' /\ (Pak_DeleteNote \/ OthersStay)
<1>1. CASE PakNext
  BY <1>1, SlotKept, MenusKept, AllocateKept, OwnFileKept, WriteKept, WriteEndsKept,
     ReadKept, DeleteKept, MessageKept
  DEF PakNext
<1>2. CASE UNCHANGED pakVars
  BY <1>2, AllStay DEF pakVars, Untouched, PakInv, PakTypes, Writing, Written, OwnNote
<1> QED
  BY <1>1, <1>2

-----------------------------------------------------------------------------
(* What is spent on a wrong name.  A name that Pak_Mount could not read      *)
(* twice is kept; before a free file is taken its name is Nothing, so that   *)
(* the directory is wrong of it, and after the note is written it is wrong   *)
(* again: two faults each, and the fifth for a note that does not read back. *)

FaultsOk == faults \in Nat /\ faults <= MaxFaults

\* While a save is under way the pak's state is known.
Known == save.at \notin {"idle", "told"} => pakState = 3

\* The directory is wrong only of notes it could not read.
Agrees ==
    pakError = 0 /\ mounted \in Paks =>
      \A f \in Files : listed[f] = name[mounted][f] \/ Spent >= 2

\* The directory has another name for the save's file.
Misnamed == listed[save.file] # Nothing /\ listed[save.file] # save.name

Settled == save.at \notin {"data", "undo", "mount", "erased"}

\* The note is on the plugged-in pak as it was written.
Fine == slot = save.pak /\ note[save.pak][save.file] = "good"

Counted ==
    /\ save.at = "allocate" => pakError = 0
    /\ Settled => Agrees
    /\ Writing /\ listed[save.file] # Nothing => Spent >= 2
    /\ save.at = "mount" /\ save.result = 0 /\ listed[save.file] # Nothing =>
         note[save.pak][save.file] = "good" \/ Spent >= 3
    /\ save.at = "verify" /\ pakError = 0 /\ Misnamed => Spent >= 4 /\ (Fine \/ Spent >= 5)
    /\ save.at = "erase" /\ pakError = 0 /\ Misnamed => Spent >= 5

\* A fault is spent or it is not.
LEMMA Spending ==
  ASSUME FaultsOk, NEW n \in Nat, Fail(n)
  PROVE  FaultsOk' /\ Spent' = Spent + n
BY PakAssumption DEF FaultsOk, Fail, Spent

LEMMA NotSpending == ASSUME NoFault PROVE Spent' = Spent /\ (FaultsOk => FaultsOk')
BY DEF NoFault, Spent, FaultsOk

LEMMA FailsSpends ==
  ASSUME Fails PROVE (NoFault \/ Fail(1)) /\ (Reached => Fail(1))
BY DEF Fails

LEMMA SpentIs == (FaultsOk => Spent \in Nat) /\ (FaultsOk' => Spent' \in Nat)
<1>1. MaxFaults \in Nat
  BY PakAssumption
<1> QED
  BY <1>1 DEF FaultsOk, Spent

\* What Pak_Mount spends on what it does not read.
LEMMA MountSpends ==
  ASSUME FaultsOk, Pak_Mount
  PROVE  /\ FaultsOk' /\ Spent' >= Spent
         /\ pakError' = 0 =>
              /\ slot \in Paks /\ slot' = slot /\ mounted' = slot
              /\ \A f \in Files : \/ listed'[f] = name[slot][f]
                                  \/ listed'[f] = listed[f] /\ Spent' >= Spent + 2
         /\ slot \in Paks /\ Spent' = Spent => pakError' = 0
<1>1. Spent \in Nat
  BY SpentIs
<1>2. CASE Mounts
  <2>1. PICK kept \in SUBSET Files :
          /\ Refresh(kept)
          /\ \/ pakError' = 0 /\ Fail(NoteTries * Cardinality(kept))
             \/ pakError' = -4 /\ Fail(NoteTries * Cardinality(kept) + 1)
    BY <1>2 DEF Mounts
  <2> DEFINE n == Cardinality(kept)
  <2>2. n \in Nat /\ (kept # {} => n >= 1)
    <3>1. IsFiniteSet(kept)
      BY PakAssumption, FS_Subset
    <3> QED
      BY <3>1, FS_CardinalityType, FS_EmptySet
  <2> HIDE DEF n
  <2>3. \/ pakError' = 0 /\ Fail(2 * n)
        \/ pakError' = -4 /\ Fail(2 * n + 1)
    BY <2>1 DEF n, NoteTries
  <2>4. 2 * n \in Nat /\ 2 * n + 1 \in Nat
    BY <2>2
  <2>5. FaultsOk' /\ Spent' >= Spent + 2 * n /\ (pakError' # 0 => Spent' > Spent)
    BY <1>1, <2>2, <2>3, <2>4, Spending
  <2>6. slot \in Paks /\ slot' = slot /\ mounted' = slot
    BY <1>2, <2>1 DEF Mounts, Refresh
  <2>7. ASSUME NEW f \in Files
        PROVE  listed'[f] = name[slot][f] \/ (listed'[f] = listed[f] /\ Spent' >= Spent + 2)
    <3>1. CASE f \in kept
      <4>1. n >= 1 /\ Spent' \in Nat /\ Spent' >= Spent + 2 * n
        BY <2>2, <2>5, <3>1, SpentIs
      <4>2. Spent' >= Spent + 2
        BY <1>1, <2>2, <4>1
      <4>3. listed'[f] = listed[f]
        BY <2>1, <3>1 DEF Refresh
      <4> QED
        BY <4>2, <4>3
    <3>2. CASE f \notin kept
      BY <2>1, <3>2 DEF Refresh
    <3> QED
      BY <3>1, <3>2
  <2>8. Spent' >= Spent
    <3>1. Spent' \in Nat
      BY <2>5, SpentIs
    <3> QED
      BY <1>1, <2>2, <2>5, <3>1
  <2>9. pakError' # 0 => Spent' # Spent
    BY <1>1, <2>5
  <2> QED
    BY <2>5, <2>6, <2>7, <2>8, <2>9
<1>3. CASE MountsPulled \/ MountsNot
  <2>1. pakError' # 0
    BY <1>3 DEF MountsPulled, MountsNot
  <2>2. \/ NoFault /\ slot \notin Paks
        \/ \E n \in Nat : n >= 1 /\ Fail(n)
    BY <1>3, PakAssumption DEF MountsPulled, MountsNot
  <2>3. FaultsOk' /\ Spent' >= Spent /\ (slot \in Paks => Spent' > Spent)
    BY <1>1, <2>2, Spending, NotSpending
  <2> QED
    BY <1>1, <2>1, <2>3
<1> QED
  BY <1>2, <1>3 DEF Pak_Mount

LEMMA KnownKept == ASSUME Known, PakNext PROVE Known'
<1>1. CASE UNCHANGED pakState /\ (save'.at \in {"idle", "told"} \/ save.at \notin {"idle", "told"})
  BY <1>1 DEF Known
<1>2. CASE Pull \/ Insert
  BY <1>2 DEF Pull, Insert, Known
<1>3. CASE Pak_ProbeSlot \/ Pak_Repair
  <2>1. save'.at = "idle"
    BY <1>3 DEF Pak_ProbeSlot, Pak_Repair, At
  <2> QED
    BY <2>1 DEF Known
<1>4. CASE PakMenu_WriteSaveGame
  BY <1>4 DEF PakMenu_WriteSaveGame, Known
<1>5. CASE Message
  BY <1>5 DEF Message, Idle, Known
<1>6. CASE \/ Pak_WriteNote \/ Allocate \/ AllocateFails \/ WriteData \/ WriteDataFails
           \/ Undo \/ ReadNote \/ Pak_DeleteNote \/ Pak_DeleteNoteFails
           \/ Pak_DeleteNoteRefuses
  <2>1. UNCHANGED pakState /\ save.at \notin {"idle", "told"}
    BY <1>6
    DEF Pak_WriteNote, Allocate, AllocateFails, WriteData, WriteDataFails, Undo, ReadNote,
        Pak_DeleteNote, Pak_DeleteNoteFails, Pak_DeleteNoteRefuses, At, FileCall
  <2> QED
    BY <1>1, <2>1
<1>7. CASE WriteEnds \/ DeleteEnds
  <2>1. UNCHANGED pakState /\ save.at \notin {"idle", "told"}
    BY <1>7 DEF WriteEnds, DeleteEnds, At
  <2> QED
    BY <1>1, <2>1
<1> QED
  BY <1>2, <1>3, <1>4, <1>5, <1>6, <1>7 DEF PakNext

\* Faults are never given back.
LEMMA FaultsKept == ASSUME FaultsOk, PakNext PROVE FaultsOk' /\ Spent' >= Spent
<1>1. CASE NoFault
  BY <1>1, SpentIs, NotSpending
<1>2. CASE Fail(1)
  <2>1. FaultsOk' /\ Spent' = Spent + 1
    BY <1>2, Spending
  <2> QED
    BY <2>1, SpentIs
<1>3. CASE Pak_Mount
  BY <1>3, MountSpends
<1>4. CASE Pull \/ Insert \/ PakMenu_WriteSaveGame \/ Message
  BY <1>1, <1>2, <1>4 DEF Pull, Insert, PakMenu_WriteSaveGame, Message, NoFault
<1>5. CASE Pak_ProbeSlot \/ Pak_Repair \/ WriteEnds \/ DeleteEnds
  BY <1>1, <1>3, <1>5 DEF Pak_ProbeSlot, Pak_Repair, WriteEnds, DeleteEnds, NoFault
<1>6. CASE \/ Pak_WriteNote \/ Allocate \/ AllocateFails \/ WriteData \/ WriteDataFails
           \/ Undo \/ ReadNote \/ Pak_DeleteNote \/ Pak_DeleteNoteFails
           \/ Pak_DeleteNoteRefuses
  BY <1>1, <1>2, <1>6, FailsSpends
  DEF Pak_WriteNote, Allocate, AllocateFails, WriteData, WriteDataFails, Undo, ReadNote,
      Pak_DeleteNote, Pak_DeleteNoteFails, Pak_DeleteNoteRefuses
<1> QED
  BY <1>4, <1>5, <1>6 DEF PakNext

-----------------------------------------------------------------------------
LEMMA StartCounted == ASSUME PakInit PROVE FaultsOk /\ Known /\ Counted
<1>1. FaultsOk /\ save = Idle /\ Idle.at = "idle"
  BY PakAssumption DEF PakInit, FaultsOk, Idle
<1>2. mounted \notin Paks
  BY PakAssumption DEF PakInit
<1> QED
  BY <1>1, <1>2 DEF Known, Counted, Agrees, Writing

\* A step that leaves the directory and the names alone.
LEMMA SameDirectory ==
  ASSUME FaultsOk, FaultsOk', Agrees, UNCHANGED <<name, listed, mounted, pakError>>,
         Spent' >= Spent
  PROVE  Agrees'
<1>1. ASSUME Spent >= 2 PROVE Spent' >= 2
  BY <1>1, SpentIs
<1> QED
  BY <1>1 DEF Agrees

\* A step that reads the directory again.
LEMMA Remounted ==
  ASSUME FaultsOk, Pak_Mount, UNCHANGED name
  PROVE  Agrees'
<1>1. Spent \in Nat /\ Spent' \in Nat
  BY SpentIs, MountSpends
<1>2. Spent' >= Spent + 2 => Spent' >= 2
  BY <1>1
<1> QED
  BY <1>2, MountSpends DEF Agrees

\* A step after which the save is at none of the places that count.
LEMMA Resting ==
  ASSUME save'.at \in {"idle", "write", "told", "kept"}, Agrees'
  PROVE  Counted'
BY DEF Counted, Writing

LEMMA SlotCounted ==
  ASSUME PakInv, FaultsOk, Counted, Pull \/ Insert
  PROVE  Counted'
<1>1. UNCHANGED <<note, name, mounted, listed, pakState, pakError, save>>
  BY DEF Pull, Insert
<1>2. FaultsOk' /\ Spent' >= Spent /\ Spent \in Nat /\ Spent' \in Nat
  BY FaultsKept, SpentIs DEF PakNext
<1>3. Settled' = Settled /\ Writing' = Writing /\ Misnamed' = Misnamed
  BY <1>1 DEF Settled, Writing, Misnamed
<1>4. Agrees => Agrees'
  BY <1>1, <1>2, SameDirectory
<1>5. ASSUME save.at = "verify", pakError = 0, Misnamed
      PROVE  Spent' >= 4 /\ (Fine' \/ Spent' >= 5)
  <2>1. Spent >= 4 /\ (Fine \/ Spent >= 5) /\ save.pak \in Paks
    BY <1>5 DEF Counted, PakInv, OwnNote, Written
  <2>2. CASE Pull
    <3>1. Fail(1)
      BY <1>5, <2>2 DEF Pull, At
    <3>2. Spent' = Spent + 1
      BY <3>1, Spending
    <3> QED
      BY <1>2, <2>1, <3>2
  <2>3. CASE Insert
    <3>1. ~Fine
      BY <2>1, <2>3, NothingElse DEF Insert, Fine
    <3> QED
      BY <1>2, <2>1, <3>1
  <2> QED
    BY <2>2, <2>3
<1>6. \A n \in Nat : Spent >= n => Spent' >= n
  BY <1>2
<1> QED
  BY <1>1, <1>3, <1>4, <1>5, <1>6 DEF Counted

LEMMA MenusCounted ==
  ASSUME PakInv, FaultsOk, Counted, Pak_ProbeSlot \/ Pak_Repair \/ PakMenu_WriteSaveGame
  PROVE  Counted'
<1>1. save.at = "idle" /\ UNCHANGED name /\ Agrees
  BY DEF Pak_ProbeSlot, Pak_Repair, PakMenu_WriteSaveGame, At, Untouched, Counted, Settled
<1>2. FaultsOk' /\ Spent' >= Spent
  BY FaultsKept DEF PakNext
<1>3. Agrees'
  BY <1>1, <1>2, Remounted, SameDirectory DEF Pak_ProbeSlot, Pak_Repair, PakMenu_WriteSaveGame
<1>4. save'.at \in {"idle", "write"}
  BY <1>1, OneTry DEF Pak_ProbeSlot, Pak_Repair, PakMenu_WriteSaveGame, PakInv, PakTypes
<1> QED
  BY <1>3, <1>4, Resting

LEMMA WriteCounted ==
  ASSUME PakInv, FaultsOk, Counted, Pak_WriteNote \/ AllocateFails
  PROVE  Counted'
<1>1. save \in Saves /\ -2 \in Int /\ pakError \in Int
  BY DEF PakInv, PakTypes
<1>2. FaultsOk' /\ Spent' >= Spent /\ UNCHANGED <<name, listed, mounted, pakError>>
  BY FaultsKept DEF PakNext, Pak_WriteNote, AllocateFails, FileCall, Untouched
<1>3. CASE Pak_WriteNote
  <2>1. Agrees'
    BY <1>2, <1>3, SameDirectory DEF Pak_WriteNote, At, Counted, Settled
  <2>2. CASE Tell(-2) \/ Tell(pakError)
    BY <1>1, <2>1, <2>2, Telling, Resting
  <2>3. CASE GoTo("allocate") /\ pakError = 0
    <3>1. save'.at = "allocate"
      BY <1>1, <2>3, GoingOn DEF Places
    <3> QED
      BY <1>2, <2>1, <2>3, <3>1 DEF Counted, Writing
  <2> QED
    BY <1>3, <2>2, <2>3 DEF Pak_WriteNote
<1>4. CASE AllocateFails
  <2>1. save'.at = "mount" /\ save'.result # 0
    BY <1>1, <1>4, Failing DEF AllocateFails
  <2> QED
    BY <2>1 DEF Counted, Writing, Settled
<1> QED
  BY <1>3, <1>4

LEMMA AllocateCounted ==
  ASSUME PakInv, FaultsOk, Counted, Allocate
  PROVE  Counted'
<1>1. /\ save.at = "allocate" /\ Spent' = Spent /\ slot \in Paks /\ mounted = slot
      /\ UNCHANGED listed
  BY NotSpending DEF Allocate, At, Reached, FileCall
<1>2. pakError = 0 /\ Agrees
  BY <1>1 DEF Counted, Settled
<1>3. PICK f \in Unused(slot) : save' = [save EXCEPT !.at = "data", !.pak = slot, !.file = f]
  BY DEF Allocate
<1>4. save'.at = "data" /\ save'.file = f
  BY <1>3 DEF PakInv, PakTypes, Saves
<1>5. f \in Files /\ name[slot][f] = Nothing
  BY <1>1 DEF Unused, PakInv, PakTypes, Notes
<1>6. listed[f] # Nothing => Spent >= 2
  BY <1>1, <1>2, <1>5 DEF Agrees
<1> QED
  BY <1>1, <1>4, <1>6 DEF Counted, Writing, Settled

LEMMA OwnFileCounted ==
  ASSUME PakInv, FaultsOk, Counted, WriteData \/ WriteDataFails \/ Undo
  PROVE  Counted'
<1>1. save \in Saves /\ UNCHANGED listed
  BY DEF PakInv, PakTypes, WriteData, WriteDataFails, Undo, FileCall
<1>2. FaultsOk' /\ Spent' >= Spent /\ Spent \in Nat /\ Spent' \in Nat
  BY FaultsKept, SpentIs DEF PakNext
<1>3. CASE WriteDataFails
  <2>1. save.at = "data" /\ save'.at = "undo" /\ save'.file = save.file
    BY <1>1, <1>3, Failing DEF WriteDataFails, At
  <2>2. listed[save.file] # Nothing => Spent' >= 2
    BY <1>2, <2>1 DEF Counted, Writing
  <2> QED
    BY <1>1, <2>1, <2>2 DEF Counted, Settled
<1>4. CASE Undo
  <2>1. save'.at = "mount" /\ save'.result # 0
    BY <1>1, <1>4, GoingOn DEF Undo, At, PakInv, Places
  <2> QED
    BY <2>1 DEF Counted, Writing, Settled
<1>5. CASE WriteData
  <2>1. save.at = "data" /\ save'.at = "mount" /\ UNCHANGED <<save.pak, save.file, save.name>>
    BY <1>1, <1>5, GoingOn DEF WriteData, At, Places
  <2>2. listed[save.file] # Nothing => Spent >= 2 /\ Spent' >= 2
    BY <1>2, <2>1 DEF Counted, Writing
  <2>3. note'[save.pak][save.file] = "good" \/ Spent' = Spent + 1
    <3>1. CASE Fail(1)
      BY <3>1, Spending
    <3>2. CASE Put(slot, save.file, "good", save.name)
      <4>1. OwnNote /\ slot = save.pak /\ Notes
        BY <1>5, <2>1 DEF PakInv, PakTypes, Writing, WriteData, Reached, OwnNote
      <4> QED
        BY <3>2, <4>1 DEF Put, Notes, OwnNote
    <3> QED
      BY <1>5, <3>1, <3>2 DEF WriteData
  <2>4. listed[save.file] # Nothing => note'[save.pak][save.file] = "good" \/ Spent' >= 3
    BY <1>2, <2>2, <2>3
  <2> QED
    BY <1>1, <2>1, <2>2, <2>4 DEF Counted, Settled
<1> QED
  BY <1>3, <1>4, <1>5

LEMMA WriteEndsCounted ==
  ASSUME PakInv, FaultsOk, Counted, WriteEnds
  PROVE  Counted'
<1>1. save.at = "mount" /\ save \in Saves /\ Pak_Mount /\ UNCHANGED <<note, name>>
  BY DEF WriteEnds, At, PakInv, PakTypes, Untouched
<1>2. Agrees'
  BY <1>1, Remounted
<1>3. FaultsOk' /\ Spent \in Nat /\ Spent' \in Nat
  BY <1>1, MountSpends, SpentIs
<1>4. save'.at = (IF save.result = 0 THEN "verify" ELSE "told")
      /\ UNCHANGED <<save.pak, save.file, save.name>>
  BY <1>1, GoingOn DEF WriteEnds, Places
<1>5. CASE save.result # 0
  BY <1>2, <1>4, <1>5, Resting
<1>6. CASE save.result = 0
  <2>1. OwnNote /\ slot \in {save.pak, Nothing}
    BY <1>1, <1>6 DEF PakInv, Writing
  <2>2. ASSUME pakError' = 0, Misnamed' PROVE Spent' >= 4 /\ (Fine' \/ Spent' >= 5)
    <3>1. slot = save.pak /\ slot' = slot
      BY <1>1, <2>1, <2>2, MountSpends, NothingElse
    <3>2. listed'[save.file] # Nothing /\ listed'[save.file] # name[slot][save.file]
      BY <1>4, <2>1, <2>2, <3>1 DEF Misnamed, OwnNote
    <3>3. listed[save.file] # Nothing /\ Spent' >= Spent + 2
      BY <1>1, <2>1, <2>2, <3>2, MountSpends DEF OwnNote
    <3>4. Spent >= 2 /\ (note[save.pak][save.file] = "good" \/ Spent >= 3)
      BY <1>1, <1>6, <3>3 DEF Counted, Writing
    <3>5. note[save.pak][save.file] = "good" => Fine'
      BY <1>1, <1>4, <3>1 DEF Fine
    <3> QED
      BY <1>3, <3>3, <3>4, <3>5
  <2> QED
    BY <1>2, <1>4, <1>6, <2>2 DEF Counted, Writing
<1> QED
  BY <1>5, <1>6

LEMMA ReadCounted ==
  ASSUME PakInv, FaultsOk, Known, Counted, ReadNote
  PROVE  Counted'
<1>1. /\ save.at = "verify" /\ save \in Saves /\ pakState = 3
      /\ UNCHANGED <<slot, note, name, listed, mounted, pakError>>
  BY DEF ReadNote, At, PakInv, PakTypes, Known, FileCall, Untouched
<1>2. FaultsOk' /\ Spent' >= Spent /\ Spent \in Nat /\ Spent' \in Nat
  BY FaultsKept, SpentIs DEF PakNext
<1>3. Agrees'
  BY <1>1, <1>2, SameDirectory DEF Counted, Settled
<1>4. CASE Tell(0)
  BY <1>1, <1>3, <1>4, Telling, Resting
<1>5. CASE GoTo("erase") /\ (ReadsBack => Fail(1))
  <2>1. save'.at = "erase" /\ UNCHANGED <<save.pak, save.file, save.name>>
    BY <1>1, <1>5, GoingOn DEF Places
  <2>2. ASSUME pakError = 0, Misnamed PROVE Spent' >= 5
    <3>1. Spent >= 4 /\ (Fine \/ Spent >= 5) /\ OwnNote
      BY <1>1, <2>2 DEF Counted, PakInv, Written
    <3>2. CASE Fine
      <4>1. ReadsBack
        BY <1>1, <2>2, <3>1, <3>2 DEF ReadsBack, Reached, Fine, OwnNote
      <4>2. Spent' = Spent + 1
        BY <1>5, <4>1, Spending
      <4> QED
        BY <1>2, <3>1, <4>2
    <3>3. CASE Spent >= 5
      BY <1>2, <3>3
    <3> QED
      BY <3>1, <3>2, <3>3
  <2>3. Misnamed' = Misnamed
    BY <1>1, <2>1 DEF Misnamed
  <2> QED
    BY <1>1, <1>3, <2>1, <2>2, <2>3 DEF Counted, Writing
<1> QED
  BY <1>4, <1>5 DEF ReadNote

LEMMA DeleteCounted ==
  ASSUME PakInv, FaultsOk, Counted,
         \/ Pak_DeleteNote \/ Pak_DeleteNoteFails \/ Pak_DeleteNoteRefuses \/ DeleteEnds
         \/ Message
  PROVE  Counted'
<1>1. save \in Saves /\ save.result \in Int
  BY DEF PakInv, PakTypes, Saves
<1>2. FaultsOk' /\ Spent' >= Spent
  BY FaultsKept DEF PakNext
<1>3. CASE Pak_DeleteNote
  <2>1. save'.at = "erased"
    BY <1>1, <1>3, GoingOn DEF Pak_DeleteNote, Places
  <2> QED
    BY <2>1 DEF Counted, Settled, Writing
<1>4. CASE DeleteEnds
  <2>1. Agrees'
    BY <1>4, Remounted DEF DeleteEnds, Untouched
  <2>2. \/ save' = [save EXCEPT !.at = "write", !.tries = save.tries + 1]
        \/ Tell(save.result)
    BY <1>4 DEF DeleteEnds
  <2>3. save'.at \in {"write", "told"}
    BY <1>1, <2>2, Telling DEF Saves
  <2> QED
    BY <2>1, <2>3, Resting
<1>5. CASE Pak_DeleteNoteFails \/ Pak_DeleteNoteRefuses \/ Message
  <2>1. /\ UNCHANGED <<name, listed, mounted, pakError>>
        /\ save.at \in {"erase", "told"}
    BY <1>5 DEF Pak_DeleteNoteFails, Pak_DeleteNoteRefuses, Message, FileCall, Untouched, At
  <2>2. Agrees'
    BY <1>2, <2>1, SameDirectory DEF Counted, Settled
  <2>3. save'.at \in {"idle", "kept", "told"}
    BY <1>1, <1>5, GoingOn, Telling
    DEF Pak_DeleteNoteFails, Pak_DeleteNoteRefuses, Message, Idle, Places
  <2> QED
    BY <2>2, <2>3, Resting
<1> QED
  BY <1>3, <1>4, <1>5

\* All that is known of the saves.
SavesInv == PakInv /\ FaultsOk /\ Known /\ Counted

LEMMA SavesKept == ASSUME SavesInv, [PakNext]_pakVars PROVE SavesInv'
<1>1. CASE PakNext
  <2>1. PakInv' /\ FaultsOk' /\ Known'
    BY <1>1, NotesKept, FaultsKept, KnownKept DEF SavesInv
  <2>2. Counted'
    BY <1>1, SlotCounted, MenusCounted, WriteCounted, AllocateCounted, OwnFileCounted,
       WriteEndsCounted, ReadCounted, DeleteCounted
    DEF PakNext, SavesInv
  <2> QED
    BY <2>1, <2>2 DEF SavesInv
<1>2. CASE UNCHANGED pakVars
  <2>1. PakInv'
    BY <1>2, NotesKept DEF SavesInv
  <2>2. FaultsOk' /\ Known' /\ Counted'
    BY <1>2
    DEF pakVars, SavesInv, FaultsOk, Known, Counted, Agrees, Misnamed, Settled, Fine, Spent,
        Writing
  <2> QED
    BY <2>1, <2>2 DEF SavesInv
<1> QED
  BY <1>1, <1>2

\* With fewer than five faults, what is deleted is the save's own note.
LEMMA OwnDeleted ==
  ASSUME SavesInv, Pak_DeleteNote, Spent' < 5
  PROVE  OthersStay
<1>1. /\ save.at = "erase" /\ pakError = 0 /\ Reached /\ NoFault
      /\ listed[save.file] # Nothing /\ Delete(slot, listed[save.file])
  BY DEF Pak_DeleteNote, At, CanErase
<1>2. OwnNote /\ slot = save.pak /\ Notes
  BY <1>1 DEF SavesInv, PakInv, PakTypes, Written, OwnNote, Reached
<1>3. Spent' = Spent /\ Spent \in Nat
  BY <1>1, NotSpending, SpentIs DEF SavesInv
<1>4. ~Misnamed
  BY <1>1, <1>3 DEF SavesInv, Counted
<1>5. name[slot][save.file] = listed[save.file] /\ save.file \in Files
  BY <1>1, <1>2, <1>4 DEF Misnamed, OwnNote
<1> QED
  BY <1>1, <1>2, <1>5, Deleting DEF OwnNote

\* With fewer than five faults a save, its retries and the deletions never cost
\* the player a note that was on a pak before, for any number of paks and notes.
THEOREM SavesKeepOthers == PakSpec => OthersKept
<1>1. PakInit => SavesInv
  BY StartKept, StartCounted DEF SavesInv
<1>2. SavesInv /\ [PakNext]_pakVars => SavesInv'
  BY SavesKept
<1>3. SavesInv /\ [PakNext]_pakVars
        => [MaxFaults - faults' < 5 =>
              \A p \in Paks, f \in Files : note[p][f] = "other" => note'[p][f] = "other"]_pakVars
  <2> SUFFICES ASSUME SavesInv, [PakNext]_pakVars, MaxFaults - faults' < 5 PROVE OthersStay
    BY DEF OthersStay
  <2>1. Spent' < 5
    BY DEF Spent
  <2> QED
    BY <2>1, NotesKept, OwnDeleted DEF SavesInv
<1> QED
  BY <1>1, <1>2, <1>3, PTL DEF PakSpec, OthersKept

-----------------------------------------------------------------------------
(* One fault.  Where a save has got to says what the fault can have been:  *)
(* a note that does not read back has had it, so its deletion and the next *)
(* try go through; and once the pak has been pulled out nothing else goes  *)
(* wrong.                                                                  *)

Here(content) == note[save.pak][save.file] = content

\* The pak the save has begun on is in the slot, and mounted.
Whole == slot \in Paks /\ save.pak = slot /\ mounted = slot

FirstTry == save.tries = 1

\* The second try is the last one: the fault has been.
LastTry == save.tries = 2 /\ Spent = 1 /\ Whole /\ pakError = 0 /\ save.file \in Files

\* A damaged note the directory knows of.
Damaged == Here("bad") /\ FirstTry /\ Whole /\ Spent = 1

ToDelete == Damaged /\ pakError = 0 /\ listed[save.file] = save.name

\* The name is free, and was the save's own.
NameFree == save.pak \in Paks /\ Named(save.pak, save.name) = {}

LeftNothing == slot \in Paks /\ save.pak = slot => note[slot][save.file] = "none"

Stage ==
    /\ save.at \in {"write", "allocate", "data", "verify", "erase", "erased", "kept"} => save.result = 0
    /\ save.at \in {"write", "allocate"} =>
         (FirstTry /\ save.pak = Nothing) \/ (LastTry /\ Here("none") /\ NameFree)
    /\ save.at = "data" =>
         Here("bad") /\ ((FirstTry /\ (Whole \/ (slot = Nothing /\ Spent = 1))) \/ LastTry)
    /\ save.at = "undo" => Spent = 1 /\ save.result # 0 /\ (slot = Nothing \/ Whole)
    /\ save.at = "mount" =>
         IF save.result = 0
         THEN (Here("good") /\ ((FirstTry /\ (Whole \/ Spent = 1)) \/ LastTry)) \/ Damaged
         ELSE LeftNothing
    /\ save.at = "verify" =>
         \/ Here("good") /\ ((FirstTry /\ ((Whole /\ pakError = 0) \/ Spent = 1)) \/ LastTry)
         \/ ToDelete
    /\ save.at = "erase" => (Here("good") /\ FirstTry /\ Spent = 1) \/ ToDelete
    /\ save.at = "erased" => Here("none") /\ NameFree /\ FirstTry /\ Whole /\ Spent = 1 /\ save.file \in Files
    /\ save.at = "kept" => Here("good")
    /\ save.at = "told" => IF save.result = 0 THEN Here("good") ELSE LeftNothing

OneFault ==
    /\ save.at = "idle" => save = Idle
    /\ Spent <= 1 => Stage

\* What is not plugged in is not reached.
LEMMA NotThere == Nothing \notin Paks /\ Rumble \notin Paks /\ Rumble # Nothing
BY PakAssumption

-----------------------------------------------------------------------------
LEMMA StartOneFault == ASSUME PakInit PROVE OneFault
BY DEF PakInit, OneFault, Idle, Stage

LEMMA SlotOneFault ==
  ASSUME SavesInv, OneFault, Pull \/ Insert PROVE OneFault'
<1>1. UNCHANGED <<note, name, mounted, listed, pakState, pakError, save>>
  BY DEF Pull, Insert
<1>2. CASE Insert
  <2>1. UNCHANGED faults /\ slot = Nothing /\ Between
    BY <1>2 DEF Insert
  <2>2. UNCHANGED Spent
    BY <2>1 DEF Spent
  <2>3. ~Whole /\ ~LastTry /\ ~Damaged /\ ~ToDelete
    BY <2>1, NotThere DEF Whole, LastTry, Damaged, ToDelete
  <2>4. ASSUME Stage PROVE Stage'
    BY <1>1, <2>1, <2>2, <2>3, <2>4
    DEF Stage, Between, FirstTry, Here
  <2> QED
    BY <1>1, <2>1, <2>2, <2>4 DEF OneFault
<1>3. CASE Pull
  <2>1. slot' = Nothing /\ save.at # "told"
    BY <1>3 DEF Pull, At
  <2>2. CASE save.at = "idle"
    BY <1>1, <1>3, <2>2 DEF Pull, At, OneFault, Stage, NoFault, Spent
  <2>3. CASE save.at # "idle"
    <3>1. Fail(1)
      BY <1>3, <2>3 DEF Pull, At
    <3>2. Spent \in Nat /\ Spent' = Spent + 1
      BY <3>1, Spending, SpentIs DEF SavesInv
    <3>3. ASSUME Spent' <= 1 PROVE Stage'
      <4>1. Spent = 0 /\ Spent' = 1 /\ Stage
        BY <3>2, <3>3 DEF OneFault
      <4>2. ~LastTry /\ ~Damaged /\ ~ToDelete
        BY <4>1 DEF LastTry, Damaged, ToDelete
      <4>3. LeftNothing'
        BY <2>1, NotThere DEF LeftNothing
      <4> QED
        BY <1>1, <2>1, <4>1, <4>2, <4>3 DEF Stage, FirstTry, Here
    <3> QED
      BY <1>1, <3>2, <3>3 DEF OneFault
  <2> QED
    BY <2>2, <2>3
<1> QED
  BY <1>2, <1>3

LEMMA MenusOneFault ==
  ASSUME SavesInv, OneFault, Pak_ProbeSlot \/ Pak_Repair \/ PakMenu_WriteSaveGame
  PROVE  OneFault'
<1>1. save.at = "idle" /\ save = Idle
  BY DEF Pak_ProbeSlot, Pak_Repair, PakMenu_WriteSaveGame, At, OneFault
<1>2. CASE Pak_ProbeSlot \/ Pak_Repair
  <2>1. UNCHANGED save
    BY <1>2 DEF Pak_ProbeSlot, Pak_Repair
  <2> QED
    BY <1>1, <2>1 DEF OneFault, Stage
<1>3. CASE PakMenu_WriteSaveGame
  <2>1. PICK n \in Names : save' = [save EXCEPT !.at = "write", !.tries = 1, !.name = n]
    BY <1>3 DEF PakMenu_WriteSaveGame
  <2>2. save' = [at |-> "write", tries |-> 1, name |-> n, pak |-> Nothing, file |-> Nothing,
                 result |-> 0]
    BY <1>1, <2>1 DEF Idle
  <2> QED
    BY <2>2 DEF OneFault, Stage, FirstTry
<1> QED
  BY <1>2, <1>3

\* A step of a save to another place: what is left to show of the stages.
LEMMA NextStage ==
  ASSUME save'.at # "idle", Spent' <= 1 => Stage'
  PROVE  OneFault'
BY DEF OneFault

\* What is known before a step that leaves at most one fault spent.
LEMMA BeforeStep ==
  ASSUME SavesInv, OneFault, NoFault \/ Fail(1), Spent' <= 1
  PROVE  /\ Spent \in {0, 1} /\ Spent' \in {0, 1} /\ Stage
         /\ (NoFault /\ Spent' = Spent) \/ (Fail(1) /\ Spent = 0 /\ Spent' = 1)
<1>1. Spent \in Nat /\ FaultsOk
  BY SpentIs DEF SavesInv
<1>2. CASE NoFault
  BY <1>1, <1>2, NotSpending DEF OneFault
<1>3. CASE Fail(1)
  <2>1. Spent' = Spent + 1
    BY <1>1, <1>3, Spending
  <2> QED
    BY <1>1, <1>3, <2>1 DEF OneFault
<1> QED
  BY <1>2, <1>3

\* The same before Pak_Mount, which reads all of the pak when the fault has been.
LEMMA BeforeMount ==
  ASSUME SavesInv, OneFault, Pak_Mount, Spent' <= 1
  PROVE  /\ Spent \in {0, 1} /\ Spent' \in {0, 1} /\ Spent' >= Spent /\ Stage
         /\ slot \in Paks /\ Spent' = Spent =>
              /\ slot' = slot /\ mounted' = slot /\ pakError' = 0
              /\ \A f \in Files : listed'[f] = name[slot][f]
<1>1. Spent \in Nat /\ Spent' \in Nat /\ FaultsOk
  BY MountSpends, SpentIs DEF SavesInv
<1>2. Spent' >= Spent /\ ~(Spent' >= Spent + 2)
  BY <1>1, MountSpends
<1> QED
  BY <1>1, <1>2, MountSpends DEF OneFault

LEMMA WriteOneFault ==
  ASSUME SavesInv, OneFault, Pak_WriteNote PROVE OneFault'
<1>1. /\ save.at = "write" /\ NoFault /\ pakState = 3
      /\ UNCHANGED <<slot, mounted, listed, pakState, pakError, note, name>>
  BY DEF Pak_WriteNote, At, FileCall, SavesInv, Known, Untouched
<1>2. save \in Saves /\ pakError \in Int
  BY DEF SavesInv, PakInv, PakTypes
<1>3. CASE pakError = 0
  <2>1. GoTo("allocate")
    BY <1>1, <1>3 DEF Pak_WriteNote
  <2>2. save'.at = "allocate"
        /\ UNCHANGED <<save.pak, save.file, save.name, save.result, save.tries>>
    BY <1>2, <2>1 DEF GoTo, Saves
  <2>3. ASSUME Spent' <= 1 PROVE Stage'
    <3>1. Stage /\ Spent' = Spent
      BY <1>1, <2>3, BeforeStep, NotSpending
    <3>2. NameFree' = NameFree
      BY <1>1, <2>2 DEF NameFree, Named
    <3> QED
      BY <1>1, <2>2, <3>1, <3>2 DEF Stage, FirstTry, LastTry, Whole, Here
  <2> QED
    BY <2>2, <2>3, NextStage
<1>4. CASE pakError # 0
  <2>1. Tell(pakError)
    BY <1>1, <1>4 DEF Pak_WriteNote
  <2>2. save'.at = "told" /\ save'.result # 0 /\ save'.pak = save.pak
    BY <1>2, <1>4, <2>1 DEF Tell, Saves
  <2>3. ASSUME Spent' <= 1 PROVE Stage'
    <3>1. Stage
      BY <1>1, <2>3, BeforeStep
    <3>2. save.pak = Nothing
      BY <1>1, <1>4, <3>1 DEF Stage, LastTry
    <3>3. LeftNothing'
      BY <1>1, <2>2, <3>2, NotThere DEF LeftNothing
    <3> QED
      BY <2>2, <3>3 DEF Stage
  <2> QED
    BY <2>2, <2>3, NextStage
<1> QED
  BY <1>3, <1>4

LEMMA AllocateOneFault ==
  ASSUME SavesInv, OneFault, Allocate PROVE OneFault'
<1>1. /\ save.at = "allocate" /\ NoFault /\ Reached /\ Named(slot, save.name) = {}
      /\ UNCHANGED <<slot, mounted, listed, pakState, pakError>>
  BY DEF Allocate, At, FileCall
<1>2. save \in Saves /\ Notes /\ save.name \in Names
  BY <1>1 DEF SavesInv, PakInv, PakTypes
<1>3. PICK f \in Unused(slot) :
        /\ Put(slot, f, "bad", save.name)
        /\ save' = [save EXCEPT !.at = "data", !.pak = slot, !.file = f]
  BY DEF Allocate
<1>4. f \in Files /\ slot \in Paks /\ mounted = slot
  BY <1>1 DEF Unused, Reached
<1>5. note'[slot][f] = "bad"
  BY <1>1, <1>2, <1>3, <1>4, Putting DEF Contents, NamesOrNone
<1>6. /\ save'.at = "data" /\ save'.pak = slot /\ save'.file = f
      /\ UNCHANGED <<save.tries, save.result>>
  BY <1>2, <1>3 DEF Saves
<1>7. Whole' /\ Here("bad")'
  BY <1>1, <1>4, <1>5, <1>6 DEF Whole, Here
<1>8. ASSUME Spent' <= 1 PROVE Stage'
  <2>1. Stage /\ Spent' = Spent
    BY <1>1, <1>8, BeforeStep, NotSpending
  <2> QED
    BY <1>1, <1>4, <1>6, <1>7, <2>1 DEF Stage, FirstTry, LastTry
<1> QED
  BY <1>6, <1>8, NextStage

LEMMA AllocateFailsOneFault ==
  ASSUME SavesInv, OneFault, AllocateFails PROVE OneFault'
<1>1. /\ save.at = "allocate"
      /\ UNCHANGED <<slot, mounted, listed, pakState, pakError, note>>
      /\ \/ Fails
         \/ Reached /\ (Unused(slot) = {} \/ Named(slot, save.name) # {}) /\ NoFault
      /\ save' = [save EXCEPT !.at = "mount", !.result = -1]
  BY DEF AllocateFails, At, FileCall, Untouched
<1>2. save'.at = "mount" /\ save'.result # 0 /\ save'.pak = save.pak
  BY <1>1, Failing DEF SavesInv, PakInv, PakTypes
<1>3. NoFault \/ Fail(1)
  BY <1>1, FailsSpends
<1>4. ASSUME Spent' <= 1 PROVE Stage'
  <2>1. Stage /\ (Spent = 1 => NoFault)
        /\ ((NoFault /\ Spent' = Spent) \/ (Fail(1) /\ Spent = 0 /\ Spent' = 1))
    BY <1>3, <1>4, BeforeStep
  <2>2. ~(LastTry /\ Here("none") /\ NameFree)
    <3>1. SUFFICES ASSUME LastTry, Here("none"), NameFree PROVE FALSE
      OBVIOUS
    <3>2. Reached /\ save.file \in Unused(slot) /\ Spent = 1 /\ Named(slot, save.name) = {}
      BY <3>1 DEF LastTry, Here, Whole, Reached, Unused, NameFree
    <3>3. Fail(1)
      BY <1>1, <3>2, FailsSpends
    <3>4. Spent' = Spent + 1
      BY <3>3, Spending DEF SavesInv
    <3> QED
      BY <2>1, <3>2, <3>4
  <2>3. save.pak = Nothing
    BY <1>1, <2>1, <2>2 DEF Stage
  <2>4. LeftNothing'
    BY <1>1, <1>2, <2>3, NotThere DEF LeftNothing
  <2> QED
    BY <1>2, <2>4 DEF Stage
<1> QED
  BY <1>2, <1>4, NextStage

LEMMA WriteDataOneFault ==
  ASSUME SavesInv, OneFault, WriteData PROVE OneFault'
<1>1. /\ save.at = "data" /\ Reached
      /\ UNCHANGED <<slot, mounted, listed, pakState, pakError>>
      /\ \/ Put(slot, save.file, "good", save.name) /\ NoFault
         \/ Untouched /\ Fail(1)
      /\ GoTo("mount")
  BY DEF WriteData, At, FileCall
<1>2. save \in Saves /\ Notes /\ OwnNote /\ slot = save.pak
  BY <1>1 DEF SavesInv, PakInv, PakTypes, Writing, Reached, OwnNote
<1>3. save'.at = "mount"
      /\ UNCHANGED <<save.pak, save.file, save.name, save.result, save.tries>>
  BY <1>1, <1>2 DEF GoTo, Saves
<1>4. Whole
  BY <1>1, <1>2 DEF Whole, Reached
<1>5. ASSUME Spent' <= 1 PROVE Stage'
  <2>1. Stage /\ ((NoFault /\ Spent' = Spent) \/ (Fail(1) /\ Spent = 0 /\ Spent' = 1))
    BY <1>1, <1>5, BeforeStep
  <2>2. /\ save.result = 0 /\ Here("bad")
        /\ FirstTry \/ LastTry
    BY <1>1, <2>1 DEF Stage
  <2>3. CASE Put(slot, save.file, "good", save.name) /\ NoFault
    <3>1. Spent' = Spent
      BY <2>3, NotSpending
    <3>2. Here("good")'
      BY <1>2, <1>3, <2>3 DEF Here, OwnNote, Put, Notes
    <3> QED
      BY <1>1, <1>3, <1>4, <2>2, <3>1, <3>2 DEF Stage, FirstTry, LastTry, Whole
  <2>4. CASE Untouched /\ Fail(1)
    <3>1. Spent' = Spent + 1
      BY <2>4, Spending DEF SavesInv
    <3>2. Spent = 0 /\ Spent' = 1
      BY <2>1, <3>1
    <3>3. Here("bad")' /\ FirstTry
      BY <1>3, <2>2, <2>4, <3>2 DEF Here, LastTry, Untouched
    <3> QED
      BY <1>1, <1>3, <1>4, <2>2, <3>2, <3>3 DEF Stage, FirstTry, Damaged, Whole
  <2> QED
    BY <1>1, <2>3, <2>4
<1> QED
  BY <1>3, <1>5, NextStage

LEMMA WriteDataFailsOneFault ==
  ASSUME SavesInv, OneFault, WriteDataFails PROVE OneFault'
<1>1. /\ save.at = "data" /\ Fails
      /\ UNCHANGED <<slot, mounted, listed, pakState, pakError, note>>
      /\ save' = [save EXCEPT !.at = "undo", !.result = -1]
  BY DEF WriteDataFails, At, FileCall, Untouched
<1>2. save'.at = "undo" /\ save'.result # 0 /\ save'.pak = save.pak
  BY <1>1, Failing DEF SavesInv, PakInv, PakTypes
<1>3. (NoFault \/ Fail(1)) /\ (Reached => Fail(1))
  BY <1>1, FailsSpends
<1>4. ASSUME Spent' <= 1 PROVE Stage'
  <2>1. Stage /\ ((NoFault /\ Spent' = Spent) \/ (Fail(1) /\ Spent = 0 /\ Spent' = 1))
    BY <1>3, <1>4, BeforeStep
  <2>2. Whole \/ (slot = Nothing /\ Spent = 1)
    BY <1>1, <2>1 DEF Stage, LastTry
  <2>3. ASSUME Whole PROVE Spent' = 1
    <3>1. Fail(1)
      BY <1>3, <2>3 DEF Whole, Reached
    <3>2. Spent' = Spent + 1
      BY <3>1, Spending DEF SavesInv
    <3> QED
      BY <2>1, <3>2
  <2>4. Spent' = 1 /\ (slot = Nothing \/ Whole)
    BY <2>1, <2>2, <2>3
  <2> QED
    BY <1>1, <1>2, <2>4 DEF Stage, Whole
<1> QED
  BY <1>2, <1>4, NextStage

LEMMA UndoOneFault ==
  ASSUME SavesInv, OneFault, Undo PROVE OneFault'
<1>1. /\ save.at = "undo"
      /\ UNCHANGED <<slot, mounted, listed, pakState, pakError>>
      /\ \/ Reached /\ Delete(slot, save.name) /\ NoFault
         \/ Fails /\ Untouched
      /\ GoTo("mount")
  BY DEF Undo, At, FileCall
<1>2. save \in Saves /\ Notes /\ OwnNote /\ save.name \in Names
  BY <1>1 DEF SavesInv, PakInv, PakTypes, Writing
<1>3. save'.at = "mount"
      /\ UNCHANGED <<save.pak, save.file, save.result, save.tries>>
  BY <1>1, <1>2 DEF GoTo, Saves
<1>4. NoFault \/ Fail(1)
  BY <1>1, FailsSpends
<1>5. ASSUME Spent' <= 1 PROVE Stage'
  <2>1. Stage /\ ((NoFault /\ Spent' = Spent) \/ (Fail(1) /\ Spent = 0 /\ Spent' = 1))
    BY <1>4, <1>5, BeforeStep
  <2>2. save.result # 0 /\ Spent = 1 /\ (slot = Nothing \/ Whole)
    BY <1>1, <2>1 DEF Stage
  <2>3. LeftNothing'
    <3>1. CASE slot = Nothing
      BY <1>1, <3>1, NotThere DEF LeftNothing
    <3>2. CASE Whole
      <4>1. Reached /\ slot = save.pak
        BY <3>2 DEF Whole, Reached
      <4>2. Delete(slot, save.name)
        <5>1. SUFFICES ASSUME Fail(1) PROVE FALSE
          BY <1>1, <4>1, FailsSpends
        <5>2. Spent' = Spent + 1
          BY <5>1, Spending DEF SavesInv
        <5> QED
          BY <2>1, <2>2, <5>2
      <4>3. note'[save.pak][save.file] = "none"
        BY <1>2, <4>1, <4>2, Deleting, NothingElse DEF OwnNote
      <4> QED
        BY <1>1, <1>3, <4>1, <4>3 DEF LeftNothing
    <3> QED
      BY <2>2, <3>1, <3>2
  <2> QED
    BY <1>3, <2>2, <2>3 DEF Stage
<1> QED
  BY <1>3, <1>5, NextStage

LEMMA WriteEndsOneFault ==
  ASSUME SavesInv, OneFault, WriteEnds PROVE OneFault'
<1>1. /\ save.at = "mount" /\ Pak_Mount
      /\ UNCHANGED <<note, name, pakState>>
      /\ GoTo(IF save.result = 0 THEN "verify" ELSE "told")
  BY DEF WriteEnds, At, Untouched
<1>2. save \in Saves
  BY DEF SavesInv, PakInv, PakTypes
<1>3. save'.at = (IF save.result = 0 THEN "verify" ELSE "told")
      /\ UNCHANGED <<save.pak, save.file, save.name, save.result, save.tries>>
  BY <1>1, <1>2 DEF GoTo, Saves
<1>4. ASSUME Spent' <= 1 PROVE Stage'
  <2>1. Stage /\ Spent \in {0, 1} /\ Spent' \in {0, 1} /\ Spent' >= Spent
    BY <1>1, <1>4, BeforeMount
  <2>2. CASE save.result = 0
    <3>1. OwnNote
      BY <1>1, <2>2 DEF SavesInv, PakInv, Writing
    <3>2. ASSUME Whole, Spent' = Spent
          PROVE  /\ Whole' /\ pakError' = 0
                 /\ \A f \in Files : listed'[f] = name[slot][f]
      BY <1>1, <1>3, <1>4, <3>2, BeforeMount DEF Whole
    <3>3. CASE Damaged
      <4>1. Spent' = Spent /\ Spent = 1
        BY <2>1, <3>3 DEF Damaged
      <4>2. Whole' /\ pakError' = 0 /\ listed'[save.file] = save.name
        BY <3>1, <3>2, <3>3, <4>1 DEF Damaged, OwnNote, Whole
      <4>3. ToDelete'
        BY <1>1, <1>3, <3>3, <4>1, <4>2 DEF ToDelete, Damaged, Here, FirstTry
      <4> QED
        BY <1>3, <2>2, <4>3 DEF Stage
    <3>4. CASE Here("good") /\ LastTry
      <4>1. Spent' = Spent /\ Spent = 1
        BY <2>1, <3>4 DEF LastTry
      <4>2. Whole' /\ pakError' = 0
        BY <3>2, <3>4, <4>1 DEF LastTry
      <4>3. Here("good")' /\ LastTry'
        BY <1>1, <1>3, <3>4, <4>1, <4>2 DEF LastTry, Here
      <4> QED
        BY <1>3, <2>2, <4>3 DEF Stage
    <3>5. CASE Here("good") /\ FirstTry /\ (Whole \/ Spent = 1)
      <4>1. Here("good")' /\ FirstTry'
        BY <1>1, <1>3, <3>5 DEF FirstTry, Here
      <4>2. CASE Spent' = 1
        BY <1>3, <2>2, <4>1, <4>2 DEF Stage
      <4>3. CASE Spent' = Spent /\ Spent = 0
        <5>1. Whole' /\ pakError' = 0
          BY <3>2, <3>5, <4>3
        <5> QED
          BY <1>3, <2>2, <4>1, <5>1 DEF Stage
      <4> QED
        BY <2>1, <4>2, <4>3
    <3> QED
      BY <1>1, <2>1, <2>2, <3>3, <3>4, <3>5 DEF Stage
  <2>3. CASE save.result # 0
    <3>1. LeftNothing
      BY <1>1, <2>1, <2>3 DEF Stage
    <3>2. slot' \in {slot, Nothing}
      BY <1>1, Mounting DEF SavesInv, PakInv
    <3>3. LeftNothing'
      BY <1>1, <1>3, <3>1, <3>2, NotThere DEF LeftNothing
    <3> QED
      BY <1>3, <2>3, <3>3 DEF Stage
  <2> QED
    BY <2>2, <2>3
<1> QED
  BY <1>3, <1>4, NextStage

LEMMA ReadOneFault ==
  ASSUME SavesInv, OneFault, ReadNote PROVE OneFault'
<1>1. /\ save.at = "verify" /\ pakState = 3
      /\ UNCHANGED <<slot, mounted, listed, pakState, pakError, note, name>>
      /\ \/ ReadsBack /\ Tell(0) /\ NoFault
         \/ ReadsBack /\ GoTo("erase") /\ Fail(1)
         \/ ~ReadsBack /\ GoTo("erase") /\ NoFault
  BY DEF ReadNote, At, FileCall, SavesInv, Known, Untouched
<1>2. save \in Saves /\ OwnNote
  BY <1>1 DEF SavesInv, PakInv, PakTypes, Written
<1>3. NoFault \/ Fail(1)
  BY <1>1
<1>4. CASE ReadsBack /\ Tell(0) /\ NoFault
  <2>1. save'.at = "told" /\ UNCHANGED <<save.pak, save.file>> /\ save'.result = 0
    BY <1>2, <1>4 DEF Tell, Saves
  <2>2. Here("good")'
    BY <1>1, <1>2, <1>4, <2>1 DEF ReadsBack, Reached, OwnNote, Here
  <2>3. Stage'
    BY <2>1, <2>2 DEF Stage
  <2> QED
    BY <2>1, <2>3, NextStage
<1>5. CASE GoTo("erase") /\ (ReadsBack => Fail(1))
  <2>1. save'.at = "erase"
        /\ UNCHANGED <<save.pak, save.file, save.name, save.result, save.tries>>
    BY <1>2, <1>5 DEF GoTo, Saves
  <2>2. ASSUME Spent' <= 1 PROVE Stage'
    <3>1. Stage /\ ((NoFault /\ Spent' = Spent) \/ (Fail(1) /\ Spent = 0 /\ Spent' = 1))
          /\ Spent \in {0, 1}
      BY <1>3, <2>2, BeforeStep
    <3>2. ASSUME Here("good"), Whole, pakError = 0 PROVE Spent = 0 /\ Spent' = 1
      <4>1. ReadsBack
        BY <1>1, <3>2 DEF ReadsBack, Reached, Whole, Here
      <4>2. Spent' = Spent + 1
        BY <1>5, <4>1, Spending DEF SavesInv
      <4> QED
        BY <3>1, <4>2
    <3>3. \/ Here("good") /\ FirstTry /\ Spent' = 1
          \/ ToDelete /\ Spent' = 1
      <4>1. ~(Here("good") /\ LastTry)
        BY <3>2 DEF LastTry
      <4>2. \/ Here("good") /\ FirstTry /\ ((Whole /\ pakError = 0) \/ Spent = 1)
            \/ ToDelete
        BY <1>1, <3>1, <4>1 DEF Stage
      <4>3. Spent = 1 => Spent' = 1
        BY <3>1
      <4> QED
        BY <3>2, <4>2, <4>3 DEF ToDelete, Damaged
    <3>4. (Here("good")' /\ FirstTry' /\ Spent' = 1) \/ ToDelete'
      BY <1>1, <2>1, <3>3 DEF Here, FirstTry, ToDelete, Damaged, Whole
    <3>5. save'.result = 0
      BY <1>1, <2>1, <3>1 DEF Stage
    <3> QED
      BY <2>1, <3>4, <3>5 DEF Stage
  <2> QED
    BY <2>1, <2>2, NextStage
<1> QED
  BY <1>1, <1>4, <1>5

\* After one fault the directory's name for the save's file is its own.
LEMMA DeleteOneFault ==
  ASSUME SavesInv, OneFault, Pak_DeleteNote PROVE OneFault'
<1>1. /\ save.at = "erase" /\ pakError = 0 /\ Reached /\ NoFault
      /\ UNCHANGED <<slot, mounted, listed, pakState, pakError>>
      /\ listed[save.file] # Nothing /\ Delete(slot, listed[save.file])
      /\ GoTo("erased")
  BY DEF Pak_DeleteNote, At, CanErase, FileCall
<1>2. save \in Saves /\ Notes /\ OwnNote /\ Whole /\ save.name \in Names
  BY <1>1 DEF SavesInv, PakInv, PakTypes, Written, Reached, OwnNote, Whole
<1>3. save'.at = "erased"
      /\ UNCHANGED <<save.pak, save.file, save.name, save.result, save.tries>>
  BY <1>1, <1>2 DEF GoTo, Saves
<1>4. ASSUME Spent' <= 1 PROVE Stage'
  <2>1. Stage /\ Spent' = Spent /\ Spent \in {0, 1}
    BY <1>1, <1>4, BeforeStep, NotSpending
  <2>2. Spent = 1 /\ FirstTry /\ save.result = 0
    BY <1>1, <2>1 DEF Stage, ToDelete, Damaged
  <2>3. listed[save.file] = save.name
    <3>1. ~Misnamed
      BY <1>1, <2>1 DEF SavesInv, Counted
    <3> QED
      BY <1>1, <3>1 DEF Misnamed
  <2>4. note'[save.pak][save.file] = "none" /\ Named(save.pak, save.name)' = {}
    <3>1. slot = save.pak /\ save.pak \in Paks /\ name[slot][save.file] = save.name
          /\ Delete(save.pak, save.name) /\ save.file \in Files
      BY <1>1, <1>2, <2>3 DEF OwnNote, Whole
    <3>2. /\ note'[save.pak][save.file] = "none"
          /\ {f \in Files : name'[save.pak][f] = save.name} = {}
      BY <1>2, <3>1, Deleting, NothingElse DEF Named
    <3> QED
      BY <1>3, <3>2 DEF Named
  <2>5. Here("none")' /\ Whole' /\ NameFree' /\ save'.file \in Files
    BY <1>1, <1>2, <1>3, <2>4 DEF Here, Whole, NameFree, OwnNote
  <2> QED
    BY <1>3, <2>1, <2>2, <2>5 DEF Stage, FirstTry
<1> QED
  BY <1>3, <1>4, NextStage

LEMMA DeleteFailsOneFault ==
  ASSUME SavesInv, OneFault, Pak_DeleteNoteFails \/ Pak_DeleteNoteRefuses
  PROVE  OneFault'
<1>1. /\ save.at = "erase" /\ pakState = 3
      /\ UNCHANGED <<slot, mounted, listed, pakState, pakError, note>>
      /\ GoTo("kept") \/ Tell(save.result)
      /\ NoFault \/ Fail(1)
      /\ \/ Fails
         \/ listed[save.file] = Nothing
         \/ Reached /\ Named(slot, listed[save.file]) = {}
         \/ ~CanErase
  BY FailsSpends
  DEF Pak_DeleteNoteFails, Pak_DeleteNoteRefuses, At, FileCall, SavesInv, Known, Untouched
<1>2. save \in Saves /\ save.name \in Names /\ OwnNote
  BY <1>1 DEF SavesInv, PakInv, PakTypes, Written
<1>3. save'.at \in {"kept", "told"}
      /\ UNCHANGED <<save.pak, save.file, save.result>>
  BY <1>1, <1>2 DEF GoTo, Tell, Saves
<1>4. ASSUME Spent' <= 1 PROVE Stage'
  <2>1. Stage /\ ((NoFault /\ Spent' = Spent) \/ (Fail(1) /\ Spent = 0 /\ Spent' = 1))
    BY <1>1, <1>4, BeforeStep
  <2>2. ~ToDelete
    <3>1. SUFFICES ASSUME ToDelete PROVE FALSE
      OBVIOUS
    <3>2. CanErase /\ Reached /\ listed[save.file] = save.name /\ Spent = 1
      BY <1>1, <3>1 DEF ToDelete, Damaged, Whole, Reached, CanErase
    <3>3. save.file \in Named(slot, save.name) /\ save.name # Nothing
      BY <1>2, <3>2, NothingElse DEF Named, OwnNote, Reached
    <3>4. Fail(1)
      BY <1>1, <3>2, <3>3, FailsSpends
    <3>5. Spent' = Spent + 1
      BY <3>4, Spending DEF SavesInv
    <3> QED
      BY <2>1, <3>2, <3>5
  <2>3. Here("good") /\ save.result = 0
    BY <1>1, <2>1, <2>2 DEF Stage
  <2>4. Here("good")' /\ save'.result = 0
    BY <1>1, <1>3, <2>3 DEF Here
  <2> QED
    BY <1>3, <2>4 DEF Stage
<1> QED
  BY <1>3, <1>4, NextStage

LEMMA DeleteEndsOneFault ==
  ASSUME SavesInv, OneFault, DeleteEnds PROVE OneFault'
<1>1. /\ save.at \in {"erased", "kept"} /\ Pak_Mount
      /\ UNCHANGED <<note, name, pakState>>
  BY DEF DeleteEnds, Untouched
<1>2. save \in Saves
  BY DEF SavesInv, PakInv, PakTypes
<1>3. CASE TriesAgain
  <2>1. save.at = "erased" /\ save' = [save EXCEPT !.at = "write", !.tries = save.tries + 1]
    BY <1>3 DEF DeleteEnds, TriesAgain
  <2>2. /\ save'.at = "write" /\ save'.tries = save.tries + 1
        /\ UNCHANGED <<save.pak, save.file, save.name, save.result>>
    BY <1>2, <2>1 DEF Saves
  <2>3. ASSUME Spent' <= 1 PROVE Stage'
    <3>1. /\ Spent = 1 /\ Here("none") /\ NameFree /\ FirstTry /\ Whole
          /\ save.result = 0 /\ save.file \in Files
      BY <1>1, <2>1, <2>3, BeforeMount DEF Stage
    <3>2. Spent' = 1 /\ slot' = slot /\ mounted' = slot /\ pakError' = 0
      BY <1>1, <2>3, <3>1, BeforeMount DEF Whole
    <3>3. LastTry' /\ Here("none")'
      BY <1>1, <2>2, <3>1, <3>2 DEF LastTry, FirstTry, Whole, Here
    <3>4. NameFree'
      BY <1>1, <2>2, <3>1 DEF NameFree, Named
    <3> QED
      BY <2>2, <3>1, <3>3, <3>4 DEF Stage
  <2> QED
    BY <2>2, <2>3, NextStage
<1>4. CASE ~TriesAgain
  <2>1. Tell(save.result)
    BY <1>4 DEF DeleteEnds
  <2>2. save'.at = "told" /\ UNCHANGED <<save.pak, save.file, save.result>>
    BY <1>2, <2>1 DEF Tell, Saves
  <2>3. ASSUME Spent' <= 1 PROVE Stage'
    <3>1. Stage
      BY <1>1, <2>3, BeforeMount
    <3>2. save.at = "kept"
      BY <1>1, <1>4, <3>1 DEF Stage, FirstTry, TriesAgain, Tries
    <3>3. Here("good")' /\ save'.result = 0
      BY <1>1, <2>2, <3>1, <3>2 DEF Stage, Here
    <3> QED
      BY <2>2, <3>3 DEF Stage
  <2> QED
    BY <2>2, <2>3, NextStage
<1> QED
  BY <1>3, <1>4

LEMMA MessageOneFault ==
  ASSUME SavesInv, OneFault, Message PROVE OneFault'
<1>1. save' = Idle
  BY DEF Message
<1> QED
  BY <1>1 DEF OneFault, Stage, Idle

LEMMA OneFaultKept ==
  ASSUME SavesInv, OneFault, [PakNext]_pakVars PROVE OneFault'
<1>1. CASE PakNext
  BY <1>1, SlotOneFault, MenusOneFault, WriteOneFault, AllocateOneFault, AllocateFailsOneFault,
     WriteDataOneFault, WriteDataFailsOneFault, UndoOneFault, WriteEndsOneFault, ReadOneFault,
     DeleteOneFault, DeleteFailsOneFault, DeleteEndsOneFault, MessageOneFault
  DEF PakNext
<1>2. CASE UNCHANGED pakVars
  BY <1>2 DEF pakVars, OneFault, Stage, Spent, Here, Whole, FirstTry, LastTry, Damaged,
     ToDelete, LeftNothing, NameFree, Named
<1> QED
  BY <1>1, <1>2

\* With one fault at most the save message is true: the note is good on its pak
\* when the game is said to be saved, and a save that fails leaves nothing of it
\* on the pak that is plugged in.
THEOREM SavesSurviveOneFault == PakSpec => []OneFaultSurvived
<1>1. PakInit => SavesInv /\ OneFault
  BY StartKept, StartCounted, StartOneFault DEF SavesInv
<1>2. SavesInv /\ OneFault /\ [PakNext]_pakVars => (SavesInv /\ OneFault)'
  BY SavesKept, OneFaultKept
<1>3. OneFault => OneFaultSurvived
  BY DEF OneFault, Stage, OneFaultSurvived, Kept, Here, LeftNothing, At
<1> QED
  BY <1>1, <1>2, <1>3, PTL DEF PakSpec
=============================================================================
