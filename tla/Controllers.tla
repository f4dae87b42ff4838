---------------------------- MODULE Controllers ----------------------------
(* The controller ports.  One serial interface (SI) carries the frame's    *)
(* read of the pads, the query that tells what is plugged in, the motors   *)
(* and the controller pak.  The scheduler thread serves it at the end of   *)
(* every retrace (Controller_Service), and the main thread uses it to      *)
(* reset a motor or to work on a pak.  gPakAccessQueue is the lock between *)
(* them: a queue of one message, and the interface is free while the       *)
(* message is there.  A command is begun in one turn and its answer taken  *)
(* in the next, by whoever has the lock then; gPakQueueState tells which   *)
(* answer that is.                                                         *)
(* The scheduler's thread has the highest priority, so that the main       *)
(* thread runs only while it waits.  Left out: gPakQueueState 3, which     *)
(* nothing assigns, the values of sticks and buttons, and whether a motor  *)
(* is started or stopped.                                                  *)
EXTENDS Integers, Sequences

CONSTANTS
    Ports,          \* the controller ports
    Modes,          \* the engine modes: "menu" is mode 8, "game" any other
    RescanPeriod,   \* services between two rescans in mode 8 (60 in the code)
    MaxCommands     \* bound: commands of one operation of the main thread

ASSUME ControllersAssumption ==
    /\ Modes # {} /\ Modes \subseteq {"game", "menu"}
    /\ RescanPeriod \in Nat \ {0} /\ MaxCommands \in Nat

Plugs    == {"empty", "bare", "card"}      \* no controller, one without a pak, one with
Commands == {"read", "query", "command"}   \* "command" is one for a motor or a pak

\* The values of gPakQueueState.
Reading  == 0   \* a read of the pads has been begun
Querying == 1   \* a query has been begun
Quiet    == 2   \* nothing has been begun

VARIABLES
    access,     \* the messages in gPakAccessQueue
    wire,       \* the commands the interface has yet to answer
    siQueue,    \* the messages in gSiMessageQueue
    pif,        \* the command whose answer lies in the interface's memory
    queueState, \* gPakQueueState
    service,    \* the scheduler's thread: where it is in the service, the motors to come
    main,       \* the main thread: where it is in an operation
    mode,       \* gEngineApp.m_Settings.mode
    rescan,     \* sControllerRescanTimer
    socket,     \* what the player has plugged into each port
    status,     \* gContStatus: what the last query found there
    connected,  \* the ports whose profile is connected
    rumblePak,  \* the ports whose profile has a rumble pak
    watched,    \* gPakWatched
    inserted, removed, changed   \* gPakInserted, gPakRemoved, gPakChanged

wireVars   == <<wire, siQueue, pif>>
engineVars == <<mode, watched, inserted, removed, changed>>
portVars   == <<status, connected, rumblePak>>
vars == <<access, wireVars, queueState, service, main, rescan, socket, portVars, engineVars>>

Away == [at |-> "away", motors |-> {}]
Free == [at |-> "run"]

\* Cont_InitAll has queried the ports and filled in the profiles.
Init ==
    /\ socket \in [Ports -> Plugs] /\ status = socket
    /\ connected = {p \in Ports : status[p] # "empty"} /\ rumblePak = {}
    /\ access = 1 /\ queueState = Quiet
    /\ wire = <<>> /\ siQueue = 0 /\ pif = "query"
    /\ service = Away /\ main = Free
    /\ mode \in Modes /\ rescan = 0
    /\ watched = {} /\ inserted = {} /\ removed = {} /\ changed = {}

-----------------------------------------------------------------------------
(* The serial interface.                                                   *)

\* The command whose answer a value of gPakQueueState announces.
Command(asked) == IF asked = Querying THEN "query" ELSE "read"

Begin(command) == wire' = Append(wire, command) /\ UNCHANGED <<siQueue, pif>>

\* The answer to a command waits in a queue of one message.
SI_Answers ==
    /\ wire # <<>>
    /\ pif' = Head(wire) /\ wire' = Tail(wire) /\ siQueue' = 1
    /\ UNCHANGED <<access, queueState, service, main, rescan, socket, portVars, engineVars>>

TakeAnswer == siQueue = 1 /\ siQueue' = 0 /\ UNCHANGED <<wire, pif>>

\* The player plugs in or pulls out a controller or a pak.
Player(p) ==
    /\ \E plug \in Plugs \ {socket[p]} : socket' = [socket EXCEPT ![p] = plug]
    /\ UNCHANGED <<access, wireVars, queueState, service, main, rescan, portVars, engineVars>>

-----------------------------------------------------------------------------
(* Controller_Lock and Controller_Unlock.                                  *)

\* Mutant: the lock is not waited for.
Lock_Untested == access' = 0

Lock == access = 1 /\ access' = 0

\* Mutant: the message is not put back.
Unlock_Forgotten == UNCHANGED access

Unlock == access' = 1

-----------------------------------------------------------------------------
(* Controller_ReadAll, by whoever has the lock: it waits for the answer to *)
(* what was begun last and takes it for what gPakQueueState said before.   *)

\* Mutant: the answer to a query is not waited for.
MustWait_OnlyReads == queueState = Reading

MustWait == queueState \in {Reading, Querying}

\* A query tells all; of another answer taken for one, the byte with the pak
\* bit is a stick.
Found ==
    IF pif = "query" THEN {socket}
    ELSE {found \in [Ports -> Plugs] : \A p \in Ports : (found[p] = "empty") = (socket[p] = "empty")}

\* Controller_UpdateConnection: a controller new to its port begins afresh.
ReadAll(asked) ==
    /\ TakeAnswer
    /\ \/ asked = Reading /\ UNCHANGED portVars
       \/ /\ asked = Querying
          /\ status' \in Found
          /\ connected' = {p \in Ports : status'[p] # "empty"}
          /\ rumblePak' = rumblePak \ (connected' \ connected)

-----------------------------------------------------------------------------
(* Controller_Service, in the scheduler's thread.                          *)

\* In mode 8 the end of the service asks for a rescan, without the lock.
Rescan(asked) ==
    IF mode # "menu" THEN queueState' = asked /\ UNCHANGED rescan
    ELSE IF rescan > 1 THEN rescan' = rescan - 1 /\ queueState' = asked
    ELSE rescan' = RescanPeriod /\ queueState' = Querying

\* The lock is tried once; without it the frame goes without a read.
Service_Enter ==
    /\ service.at = "away"
    /\ \/ /\ access = 0 /\ Rescan(queueState)
          /\ UNCHANGED <<access, service>>
       \/ /\ Lock
          /\ service' = IF MustWait THEN [service EXCEPT !.at = "answer"]
                        ELSE [at |-> "motors", motors |-> rumblePak]
          /\ UNCHANGED <<queueState, rescan>>
    /\ UNCHANGED <<wireVars, main, socket, portVars, engineVars>>

Service_ReadAll ==
    /\ service.at = "answer" /\ ReadAll(queueState)
    /\ service' = [at |-> "motors", motors |-> rumblePak']
    /\ UNCHANGED <<access, queueState, main, rescan, socket, engineVars>>

\* Controller_UpdateRumble starts or stops the motor of every rumble pak.
Service_Motor ==
    /\ service.at = "motors"
    /\ \E p \in service.motors :
         service' = [at |-> "motor", motors |-> service.motors \ {p}]
    /\ Begin("command")
    /\ UNCHANGED <<access, queueState, main, rescan, socket, portVars, engineVars>>

Service_MotorDone ==
    /\ service.at = "motor" /\ TakeAnswer
    /\ service' = [service EXCEPT !.at = "motors"]
    /\ UNCHANGED <<access, queueState, main, rescan, socket, portVars, engineVars>>

\* Mutant: a query is made only when the interface was used for something else.
NextQuestion_AfterQuiet == IF queueState = Quiet /\ watched # {} THEN Querying ELSE Reading

\* While a pak is watched, reads and queries take turns.
NextQuestion == IF queueState = Reading /\ watched # {} THEN Querying ELSE Reading

Service_Ask ==
    /\ service = [at |-> "motors", motors |-> {}]
    /\ Begin(Command(NextQuestion))
    /\ Rescan(NextQuestion)
    /\ Unlock /\ service' = Away
    /\ UNCHANGED <<main, socket, portVars, engineVars>>

-----------------------------------------------------------------------------
(* The main thread's operations: the reset of a motor and the work on a    *)
(* pak, each between Controller_Lock and Controller_Unlock.                *)

MainRuns == service.at \in {"away", "answer", "motor"}

MainAt(at) == MainRuns /\ main.at = at

\* A reset is for a connected controller; the guards of a pak's operations
\* (the pak's state) are another module's, PakNotes.
Main_Call ==
    /\ MainAt("run")
    /\ \E p \in Ports, op \in {"reset", "pak"} :
         /\ op = "reset" => p \in connected
         /\ main' = [at |-> "lock", op |-> op, port |-> p]
    /\ UNCHANGED <<access, wireVars, queueState, service, rescan, socket, portVars, engineVars>>

Main_Lock ==
    /\ MainAt("lock") /\ Lock
    /\ main' = [at |-> IF MustWait THEN "answer" ELSE "quiet",
                op |-> main.op, port |-> main.port, asked |-> queueState]
    /\ UNCHANGED <<wireVars, queueState, service, rescan, socket, portVars, engineVars>>

Main_ReadAll ==
    /\ MainAt("answer") /\ ReadAll(main.asked)
    /\ main' = [main EXCEPT !.at = "quiet"]
    /\ UNCHANGED <<access, queueState, service, rescan, socket, engineVars>>

Main_Quiet ==
    /\ MainAt("quiet")
    /\ queueState' = Quiet
    /\ \E n \in 0..MaxCommands :
         /\ main.op = "reset" => n > 0
         /\ main' = [at |-> "work", op |-> main.op, port |-> main.port, left |-> n]
    /\ UNCHANGED <<access, wireVars, service, rescan, socket, portVars, engineVars>>

Main_Command ==
    /\ MainAt("work") /\ main.left > 0
    /\ Begin("command")
    /\ main' = [main EXCEPT !.at = "wait", !.left = @ - 1]
    /\ UNCHANGED <<access, queueState, service, rescan, socket, portVars, engineVars>>

Main_CommandDone ==
    /\ MainAt("wait") /\ TakeAnswer
    /\ main' = [main EXCEPT !.at = "work"]
    /\ UNCHANGED <<access, queueState, service, rescan, socket, portVars, engineVars>>

\* The end of a reset: whether a rumble pak answered, and the state once more.
Main_Reset ==
    /\ MainAt("work") /\ main.op = "reset" /\ main.left = 0
    /\ \/ UNCHANGED rumblePak
       \/ socket[main.port] = "card" /\ rumblePak' = rumblePak \cup {main.port}
    /\ queueState' = Quiet
    /\ main' = [at |-> "leave"]
    /\ UNCHANGED <<access, wireVars, service, rescan, socket, status, connected, engineVars>>

Leaving ==
    \/ main.at = "leave"
    \/ main.at = "work" /\ main.op = "pak" /\ main.left = 0

Main_Unlock ==
    /\ MainRuns /\ Leaving
    /\ Unlock /\ main' = Free
    /\ UNCHANGED <<wireVars, queueState, service, rescan, socket, portVars, engineVars>>

-----------------------------------------------------------------------------
(* The main thread outside of an operation.                                *)

Frame == MainAt("run") /\ UNCHANGED <<access, wireVars, queueState, service, main, rescan, socket, portVars>>

HasCard == {p \in Ports : status[p] = "card"}

\* Each frame looks for paks that were taken out and put back.
Controller_UpdatePakInsertion ==
    /\ Frame
    /\ inserted' = (inserted \cup HasCard) \cap watched
    /\ changed'  = (changed \cup (removed \cap HasCard)) \cap watched
    /\ removed'  = ((removed \cup inserted) \ HasCard) \cap watched
    /\ UNCHANGED <<mode, watched>>

Controller_WatchPak(p) ==
    /\ Frame /\ watched' = watched \cup {p}
    /\ UNCHANGED <<mode, inserted, removed, changed>>

Controller_UnwatchPak(p) ==
    /\ Frame /\ watched' = watched \ {p}
    /\ UNCHANGED <<mode, inserted, removed, changed>>

\* Does nothing for a port that is not watched.
Controller_TakePakChanged(p) ==
    /\ Frame /\ p \in watched
    /\ changed' = changed \ {p}
    /\ UNCHANGED <<mode, watched, inserted, removed>>

\* EngineMode17_Switch_Retrace enters another mode.
SwitchMode ==
    /\ Frame /\ mode' \in Modes \ {mode}
    /\ UNCHANGED <<watched, inserted, removed, changed>>

-----------------------------------------------------------------------------
ServiceStep == Service_Enter \/ Service_ReadAll \/ Service_Motor \/ Service_MotorDone \/ Service_Ask

MainGoesOn ==
    \/ Main_Lock \/ Main_ReadAll \/ Main_Quiet \/ Main_Command \/ Main_CommandDone
    \/ Main_Reset \/ Main_Unlock

Menus ==
    \/ Main_Call \/ Controller_UpdatePakInsertion \/ SwitchMode
    \/ \E p \in Ports : Controller_WatchPak(p) \/ Controller_UnwatchPak(p)
                        \/ Controller_TakePakChanged(p)

Next == ServiceStep \/ SI_Answers \/ MainGoesOn \/ Menus \/ \E p \in Ports : Player(p)

Spec == Init /\ [][Next]_vars

\* A retrace comes again and again and the interface answers.  The service
\* takes a small part of a retrace: the main thread runs in the rest of it, is
\* then the first in line for the lock, ends the operations it has begun and
\* draws frames between them.
Fairness ==
    /\ WF_vars(ServiceStep) /\ WF_vars(SI_Answers)
    /\ SF_vars(MainGoesOn) /\ SF_vars(Controller_UpdatePakInsertion)

FairSpec == Spec /\ Fairness

-----------------------------------------------------------------------------
(* Properties.                                                             *)

\* The two threads never have two commands in the interface, nor one begun
\* while an answer has yet to be taken: the second would overwrite the
\* interface's memory.
OneCommand == Len(wire) + siQueue <= 1

\* Whoever waits in Controller_ReadAll waits for an answer that comes, and for
\* the one gPakQueueState names, though another thread began the command, as
\* long as mode 8 has not been entered.
OutsideMenu == [](mode # "menu")

Comes(asked) ==
    \/ wire = <<Command(asked)>>
    \/ siQueue = 1 /\ pif = Command(asked)

AnswerComes ==
    /\ service.at = "answer" => Comes(queueState)
    /\ main.at = "answer" => Comes(main.asked) /\ main.asked = queueState

AnswerIsAsked == OutsideMenu => []AnswerComes

\* "Controller pak / rumble service, run once per frame while enabled."
\* (us/code/func_00284B94.c): the scheduler comes to the end of it.
ServiceRuns == []<>(service.at = "away")

\* What the main thread begins, it ends: the lock comes to it, and the answers,
\* as long as mode 8 has not been entered.
OperationsEnd == OutsideMenu => (main.at # "run" ~> main.at = "run")

\* While the main thread does without the interface, a pak put back into a
\* watched port is noticed, unless it is pulled out again.
ChangeNoticed ==
    <>[](main.at = "run") /\ OutsideMenu =>
      \A p \in Ports :
        p \in removed /\ socket[p] = "card"
          ~> p \in changed \/ socket[p] # "card" \/ p \notin watched
=============================================================================
