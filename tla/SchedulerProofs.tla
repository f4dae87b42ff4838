--------------------------- MODULE SchedulerProofs ---------------------------
(***************************************************************************)
(* The scheduler's properties, for any frames, any display lists and any   *)
(* rate of sound.                                                          *)
(*                                                                         *)
(* TasksInv says where the tasks are.  It orders the tasks of the three    *)
(* frame slots by rank, which follows from the engine's slot and place     *)
(* alone: what is with the RSP or the RDP is a run of ranks that ends with *)
(* the task handed over last, the RDP has the lowest, and what is left of  *)
(* a task shows in its state.  With it go the events that are due and the  *)
(* count of the tokens, from which follows that a slot is free when the    *)
(* engine comes to it.                                                     *)
(*                                                                         *)
(* VideoInv says which frame the RDP finishes next: that of the slot after *)
(* the frames on the screen and those that wait for it.  SeenInv says when *)
(* the VI may not have taken a framebuffer yet.  From the first two it     *)
(* follows that every step is one of FramePipeline or a stutter.           *)
(*                                                                         *)
(* The operators on the record sc are taken first, for any s and any set Q *)
(* of tasks on their way, then the steps.                                  *)
(***************************************************************************)
EXTENDS Scheduler, FiniteSetTheorems, SequenceTheorems, TLAPS

-----------------------------------------------------------------------------
(* The order of the tasks.  The frame the engine builds next is the oldest *)
(* of the three slots' but for the one in NextSlot and the one in the slot *)
(* between; the engine's slot itself may hold a frame older than both that *)
(* the RDP still draws, until the engine begins to draw there.             *)

Age(e, slot) ==
    IF slot = e.slot THEN (IF e.pc = "recv" THEN -1 ELSE 2)
    ELSE IF slot = NextSlot(e.slot) THEN 0 ELSE 1

Rank(e, t) == 2 * Age(e, FB(t)) + t[2]

\* Tasks below this rank have been handed over.
PutRank(e) ==
    IF e.pc \in {"recv", "draw"} THEN 4
    ELSE IF e.pc # "kick1" /\ e.lines[e.slot] THEN 5 ELSE 6

Handed(e, t) == Rank(e, t) < PutRank(e) /\ (t[2] = 1 => e.lines[FB(t)])

\* The tasks the RSP has not finished: listed, in Q (on their way), or running.
Queued(s, Q) ==
    {t \in GfxTasks : t \in Q \/ t = s.curRSP \/ \E i \in 1..Len(s.gfxList) : t = s.gfxList[i]}

Outstanding(s, Q) == Queued(s, Q) \cup {t \in GfxTasks : t = s.curRDP}

LastOf(e, t) == t[2] = 1 \/ ~e.lines[FB(t)]

With(s, Q, e) == {FB(t) : t \in {x \in Queued(s, Q) : LastOf(e, x)}}

Built(e) == IF \/ e.pc = "draw"
               \/ e.lines[e.slot] /\ e.pc \in {"kick0", "put1"}
            THEN {e.slot} ELSE {}

\* Tasks come to the RSP in the order of submission, none is passed over, and
\* the RDP's is the oldest.
Ordered(s, Q, e) ==
    /\ \A t \in Outstanding(s, Q) : Handed(e, t)
    /\ \A t \in Outstanding(s, Q), u \in GfxTasks :
         Handed(e, u) /\ Rank(e, t) < Rank(e, u) => u \in Queued(s, Q)
    /\ \A i, j \in 1..Len(s.gfxList) :
         i < j => Rank(e, s.gfxList[i]) < Rank(e, s.gfxList[j])
    /\ \A i \in 1..Len(s.gfxList) :
         /\ s.curRSP \in GfxTasks => Rank(e, s.curRSP) < Rank(e, s.gfxList[i])
         /\ \A t \in Q \cap GfxTasks : Rank(e, s.gfxList[i]) < Rank(e, t)
    /\ \A t \in Q \cap GfxTasks :
         /\ s.curRSP \in GfxTasks => Rank(e, s.curRSP) < Rank(e, t)
         /\ t # s.curRDP
         /\ \A u \in Q \cap GfxTasks : t = u
    /\ s.curRDP \in GfxTasks =>
         \A t \in Queued(s, Q) : t = s.curRDP \/ Rank(e, s.curRDP) < Rank(e, t)

Fresh == {"rsp", "rdp"}
Halted == {"rsp", "yield", "yielded"}

\* What is left of a task.
States(s) ==
    /\ s.state[Audio] \subseteq {"rsp"}
    /\ s.curRDP \in GfxTasks => "rdp" \in s.state[s.curRDP]
    /\ s.curRSP \in GfxTasks =>
         /\ "rsp" \in s.state[s.curRSP] /\ "yielded" \notin s.state[s.curRSP]
         /\ s.curRDP = (IF "rdp" \in s.state[s.curRSP] THEN s.curRSP ELSE NoTask)
    /\ \A i \in 1..Len(s.gfxList) :
         \/ s.state[s.gfxList[i]] = Fresh /\ s.gfxList[i] # s.curRDP
         \/ /\ i = 1 /\ s.curRSP \notin GfxTasks
            /\ Halted \subseteq s.state[s.gfxList[i]]
            /\ s.curRDP = (IF "rdp" \in s.state[s.gfxList[i]] THEN s.gfxList[i] ELSE NoTask)

\* The audio task is in one place at most.
Sound(s, Q, au) ==
    /\ s.audioList = (IF s.doAudio THEN <<Audio>> ELSE <<>>)
    /\ Audio \in Q => ~s.doAudio /\ s.curRSP # Audio /\ ~s.audioReply
    /\ s.doAudio => s.curRSP # Audio /\ ~s.audioReply
    /\ s.curRSP = Audio => ~s.audioReply
    /\ au = "idle" => Audio \notin Q /\ ~s.doAudio /\ s.curRSP # Audio /\ ~s.audioReply

\* What runs on the processors.
Running(s) == s.rsp \in {NoTask, s.curRSP} /\ s.rdp \in {NoTask, s.curRDP}

SchedInv(s, Q, e, au) ==
    /\ Ordered(s, Q, e) /\ States(s) /\ Sound(s, Q, au) /\ Running(s)

-----------------------------------------------------------------------------
(* The queues, the counters and the display lists.                         *)

EngineOk(e) == /\ e.pc \in {"put1", "kick1"} => e.lines[e.slot]
               /\ e.switching => e.pc = "recv"
               /\ e.pc \in {"kick0", "put1", "kick1"} =>
                    \A t \in GfxTasks : FB(t) = e.slot => e.taskList[t] = e.list[e.slot]

Batches == {<<>>, <<Audio>>} \cup {<<t>> : t \in GfxTasks} \cup {<<t, Audio>> : t \in GfxTasks}

\* A kick follows each task that was put; two tasks at most wait.
Waits(q, iq, e, au) ==
    /\ q \in Batches
    /\ Audio \in Range(q) => au = "kick" \/ Count(iq, "cmd") = 1
    /\ Range(q) \cap GfxTasks # {} => e.pc \in {"kick0", "kick1"} \/ Count(iq, "cmd") = 1

SpDue(s) == s.curRSP # NoTask /\ s.rsp = NoTask
DpDue(s) == s.curRDP # NoTask /\ s.rdp = NoTask

EventNames == {"retrace", "sp", "dp", "cmd"}

EventsDue(s, iq) ==
    /\ Count(iq, "sp") = IF SpDue(s) THEN 1 ELSE 0
    /\ Count(iq, "dp") = IF DpDue(s) THEN 1 ELSE 0
    /\ Count(iq, "cmd") <= 1
    /\ Count(iq, "retrace") <= MaxLate
    /\ Len(iq) = Count(iq, "sp") + Count(iq, "dp") + Count(iq, "cmd") + Count(iq, "retrace")

Done(s) == Cardinality({i \in DOMAIN s.gfxMsgQ : s.gfxMsgQ[i].type = 2})

Tokens(s, Q, e) == e.tokens + Cardinality(With(s, Q, e) \cup Built(e)) + Done(s) = 2

Older(e) == NextSlot(NextSlot(e.slot))

Lists(s, Q, e) ==
    /\ \A t \in Queued(s, Q) : e.taskList[t] = e.list[FB(t)]
    /\ Older(e) \in With(s, Q, e) => e.list[e.slot] = (e.list[Older(e)] + 1) % DisplayLists

Marks == {"rsp", "rdp", "yield", "yielded"}
Messages == {RetraceMsg} \cup {DoneMsg(slot) : slot \in Slots}

ScType ==
    [gfxList : Seq(GfxTasks), audioList : Seq({Audio}), doAudio : BOOLEAN,
     curRSP : Tasks \cup {NoTask}, curRDP : GfxTasks \cup {NoTask},
     state : [Tasks -> SUBSET Marks],
     rsp : Tasks \cup {NoTask}, sig1 : BOOLEAN,
     rdp : GfxTasks \cup {NoTask}, synced : BOOLEAN,
     gfxMsgQ : Seq(Messages), audioReply : BOOLEAN]

EngineType ==
    [pc : Places, slot : Slots, tokens : Nat, switching : BOOLEAN,
     predict : [Slots -> Nat], lines : [Slots -> BOOLEAN],
     list : [Slots -> 0..DisplayLists - 1],
     taskList : [GfxTasks -> 0..DisplayLists - 1]]

VideoType ==
    [tick : Nat, pending : Nat, waiting : Nat, ring : [Slots -> Slots \cup {None}],
     in : Slots, out : Slots, currentFB : Slots \cup {None}, pendingFB : Slots \cup {None},
     viCurr : Slots \cup {None}, viNext : Slots \cup {None}]

TasksTypes ==
    /\ sc \in ScType /\ engine \in EngineType
    /\ interruptQ \in Seq(EventNames)
    /\ audio \in {"idle", "kick", "wait"}

TasksInv ==
    /\ TasksTypes
    /\ SchedInv(sc, Range(cmdQ), engine, audio)
    /\ EngineOk(engine) /\ Waits(cmdQ, interruptQ, engine, audio)
    /\ EventsDue(sc, interruptQ)
    /\ Tokens(sc, Range(cmdQ), engine)
    /\ Lists(sc, Range(cmdQ), engine)

-----------------------------------------------------------------------------
Screen(v) == IF v.pendingFB # None THEN v.pendingFB ELSE v.currentFB

\* The frame that the RDP finishes next.
NextShown(v) ==
    IF v.waiting = 0 THEN NextSlot(Screen(v))
    ELSE IF v.waiting = 1 THEN NextSlot(NextSlot(Screen(v))) ELSE Screen(v)

Undrawn(s, Q) == (Q \cap GfxTasks) \cup {t \in Outstanding(s, Q) : "rdp" \in s.state[t]}

PutSlot(e) == IF PutRank(e) = 6 THEN NextSlot(e.slot) ELSE e.slot

InTurn(s, Q, e, v) ==
    /\ \A t \in Undrawn(s, Q) :
         (\A u \in Undrawn(s, Q) : Rank(e, t) <= Rank(e, u)) => FB(t) = NextShown(v)
    /\ Undrawn(s, Q) = {} => PutSlot(e) = NextShown(v)

\* The frames that wait for the screen, and what the VI is told.
Pace(v) ==
    /\ v.waiting \in 0..2 /\ v.pending = (IF v.pendingFB = None THEN 0 ELSE 1)
    /\ v.viNext = Screen(v)
    /\ v.waiting = 0 => v.in = v.out
    /\ v.waiting = 1 => /\ v.in = NextSlot(v.out)
                        /\ v.ring[v.out] = NextSlot(Screen(v))
    /\ v.waiting = 2 => /\ v.out = NextSlot(v.in)
                        /\ v.ring[v.out] = NextSlot(Screen(v))
                        /\ v.ring[NextSlot(v.out)] = NextSlot(NextSlot(Screen(v)))
    /\ Screen(v) = None => v.waiting = 0

\* The first frame is shown as soon as it is finished.
Start(s, Q, e, v) ==
    Screen(v) = None =>
      /\ \A i \in Slots : e.predict[i] <= 2
      /\ \/ v.tick >= 1
         \/ e.pc = "recv" /\ Outstanding(s, Q) = {} /\ s.gfxMsgQ = <<>>

Apart(s, v) ==
    /\ s.curRDP \in GfxTasks => FB(s.curRDP) # Screen(v)
    /\ s.rdp \in GfxTasks => FB(s.rdp) # v.viCurr

ShowInv(s, Q, e, v) == InTurn(s, Q, e, v) /\ Pace(v) /\ Start(s, Q, e, v) /\ Apart(s, v)

VideoInv == video \in VideoType /\ ShowInv(sc, Range(cmdQ), engine, video)

-----------------------------------------------------------------------------
(* Tasks, frame slots and ranks.                                           *)

LEMMA Names ==
  /\ Audio \notin GfxTasks /\ NoTask \notin GfxTasks /\ Audio # NoTask
  /\ Tasks = GfxTasks \cup {Audio} /\ NoTask \notin Tasks
<1>1. ASSUME NEW t \in GfxTasks PROVE t[1] \in 0..2
  BY DEF GfxTasks, GfxTask, Slots
<1>2. Audio[1] = 3 /\ NoTask[1] = 4
  BY DEF Audio, NoTask
<1> QED
  BY <1>1, <1>2 DEF Tasks

LEMMA GfxParts ==
  ASSUME NEW t \in GfxTasks
  PROVE  FB(t) \in Slots /\ t[2] \in {0, 1} /\ t = GfxTask(FB(t), t[2])
<1>1. PICK slot \in Slots, i \in 0..1 : t = <<slot, i>>
  BY DEF GfxTasks, GfxTask
<1>2. t[1] = slot /\ t[2] = i
  BY <1>1
<1> QED
  BY <1>1, <1>2 DEF FB, GfxTask

LEMMA GfxMade ==
  ASSUME NEW slot \in Slots, NEW i \in {0, 1}
  PROVE  GfxTask(slot, i) \in GfxTasks /\ FB(GfxTask(slot, i)) = slot /\ GfxTask(slot, i)[2] = i
  BY DEF GfxTasks, GfxTask, FB

LEMMA SlotFacts ==
  /\ Slots = {0, 1, 2} /\ None = -1 /\ None \notin Slots
  /\ NextSlot(0) = 1 /\ NextSlot(1) = 2 /\ NextSlot(2) = 0 /\ NextSlot(None) = 0
  /\ \A slot \in Slots : /\ NextSlot(slot) \in Slots /\ NextSlot(slot) # slot
                         /\ NextSlot(NextSlot(slot)) \in Slots
                         /\ NextSlot(NextSlot(slot)) # slot
                         /\ NextSlot(NextSlot(slot)) # NextSlot(slot)
                         /\ NextSlot(NextSlot(NextSlot(slot))) = slot
                         /\ Slots = {slot, NextSlot(slot), NextSlot(NextSlot(slot))}
  BY DEF Slots, None, NextSlot

LEMMA Ages ==
  ASSUME NEW e, e.slot \in Slots
  PROVE  /\ Age(e, e.slot) = (IF e.pc = "recv" THEN -1 ELSE 2)
         /\ Age(e, NextSlot(e.slot)) = 0 /\ Age(e, Older(e)) = 1
         /\ Slots = {e.slot, NextSlot(e.slot), Older(e)}
         /\ \A a \in Slots : Age(e, a) \in -1..2
         /\ \A a, b \in Slots : Age(e, a) = Age(e, b) => a = b
  BY SlotFacts DEF Age, Older

LEMMA Ranks ==
  ASSUME NEW e, e.slot \in Slots
  PROVE  /\ \A t \in GfxTasks : Rank(e, t) \in Int /\ Rank(e, t) = 2 * Age(e, FB(t)) + t[2]
         /\ \A t, u \in GfxTasks : Rank(e, t) = Rank(e, u) => t = u
<1>1. ASSUME NEW t \in GfxTasks
      PROVE  /\ Rank(e, t) \in Int /\ Rank(e, t) = 2 * Age(e, FB(t)) + t[2]
             /\ Age(e, FB(t)) \in Int /\ t[2] \in {0, 1}
  BY GfxParts, Ages DEF Rank
<1>2. ASSUME NEW t \in GfxTasks, NEW u \in GfxTasks, Rank(e, t) = Rank(e, u)
      PROVE  t = u
  <2>1. Age(e, FB(t)) = Age(e, FB(u)) /\ t[2] = u[2]
    BY <1>1, <1>2
  <2>2. FB(t) = FB(u)
    BY <2>1, GfxParts, Ages
  <2> QED
    BY <2>1, <2>2, GfxParts
<1> QED
  BY <1>1, <1>2

LEMMA ScFields ==
  ASSUME NEW s \in ScType
  PROVE  /\ s.gfxList \in Seq(GfxTasks) /\ s.audioList \in Seq({Audio}) /\ s.doAudio \in BOOLEAN
         /\ s.curRSP \in Tasks \cup {NoTask} /\ s.curRDP \in GfxTasks \cup {NoTask}
         /\ s.state \in [Tasks -> SUBSET Marks]
         /\ s.rsp \in Tasks \cup {NoTask} /\ s.sig1 \in BOOLEAN
         /\ s.rdp \in GfxTasks \cup {NoTask} /\ s.synced \in BOOLEAN
         /\ s.gfxMsgQ \in Seq(Messages) /\ s.audioReply \in BOOLEAN
         /\ Len(s.gfxList) \in Nat /\ \A i \in 1..Len(s.gfxList) : s.gfxList[i] \in GfxTasks
  BY DEF ScType

LEMMA EngineFields ==
  ASSUME NEW e \in EngineType
  PROVE  /\ e.pc \in Places /\ e.slot \in Slots /\ e.tokens \in Nat /\ e.switching \in BOOLEAN
         /\ e.predict \in [Slots -> Nat] /\ e.lines \in [Slots -> BOOLEAN]
         /\ e.list \in [Slots -> 0..DisplayLists - 1]
         /\ e.taskList \in [GfxTasks -> 0..DisplayLists - 1]
  BY DEF EngineType

-----------------------------------------------------------------------------
(* The scheduler's operators keep the invariant.                           *)

\* The work of s with Q on its way is that of r with R.
SameTasks(s, Q, r, R) ==
    /\ Queued(r, R) = Queued(s, Q) /\ Outstanding(r, R) = Outstanding(s, Q)
    /\ Undrawn(r, R) = Undrawn(s, Q)
    /\ r.gfxMsgQ = s.gfxMsgQ

SameWork(s, Q, r, R) ==
    SameTasks(s, Q, r, R) /\ SpDue(r) = SpDue(s) /\ DpDue(r) = DpDue(s)

(* A task that was on its way is listed.                                   *)
LEMMA AppendListFields ==
  ASSUME NEW s \in ScType, NEW t \in Tasks
  PROVE  LET r == AppendList(s, t)
         IN  /\ r \in ScType
             /\ r.curRSP = s.curRSP /\ r.curRDP = s.curRDP /\ r.rsp = s.rsp /\ r.rdp = s.rdp
             /\ r.gfxMsgQ = s.gfxMsgQ /\ r.audioReply = s.audioReply
             /\ t = Audio => /\ r.doAudio = TRUE /\ r.audioList = Append(s.audioList, Audio)
                             /\ r.gfxList = s.gfxList
                             /\ r.state = [s.state EXCEPT ![Audio] = {"rsp"}]
             /\ t \in GfxTasks => /\ r.doAudio = s.doAudio /\ r.audioList = s.audioList
                                  /\ r.gfxList = Append(s.gfxList, t)
                                  /\ r.state = [s.state EXCEPT ![t] = Fresh]
<1> DEFINE r == AppendList(s, t)
<1> USE ScFields
<1>1. CASE t = Audio
  <2>1. r = [s EXCEPT !.audioList = Append(@, t), !.doAudio = TRUE, !.state[t] = {"rsp"}]
    BY <1>1 DEF AppendList
  <2>2. /\ r.audioList = Append(s.audioList, Audio) /\ r.doAudio = TRUE
        /\ r.state = [s.state EXCEPT ![Audio] = {"rsp"}]
        /\ r.gfxList = s.gfxList
        /\ r.curRSP = s.curRSP /\ r.curRDP = s.curRDP /\ r.rsp = s.rsp /\ r.rdp = s.rdp
        /\ r.gfxMsgQ = s.gfxMsgQ /\ r.audioReply = s.audioReply
    BY <1>1, <2>1 DEF ScType
  <2>3. Append(s.audioList, Audio) \in Seq({Audio})
    OBVIOUS
  <2>4. [s.state EXCEPT ![Audio] = {"rsp"}] \in [Tasks -> SUBSET Marks]
    BY DEF Marks
  <2>5. r \in ScType
    BY <1>1, <2>1, <2>3, <2>4 DEF ScType
  <2> QED
    BY <1>1, <2>2, <2>5, Names
<1>2. CASE t \in GfxTasks
  <2>1. r = [s EXCEPT !.gfxList = Append(@, t), !.state[t] = {"rsp", "rdp"}]
    BY <1>2, Names DEF AppendList
  <2>2. /\ r.audioList = s.audioList /\ r.doAudio = s.doAudio
        /\ r.state = [s.state EXCEPT ![t] = Fresh]
        /\ r.gfxList = Append(s.gfxList, t)
        /\ r.curRSP = s.curRSP /\ r.curRDP = s.curRDP /\ r.rsp = s.rsp /\ r.rdp = s.rdp
        /\ r.gfxMsgQ = s.gfxMsgQ /\ r.audioReply = s.audioReply
    BY <2>1 DEF ScType, Fresh
  <2>3. Append(s.gfxList, t) \in Seq(GfxTasks)
    BY <1>2
  <2>4. [s.state EXCEPT ![t] = {"rsp", "rdp"}] \in [Tasks -> SUBSET Marks]
    BY DEF Marks
  <2>5. r \in ScType
    BY <2>1, <2>3, <2>4 DEF ScType
  <2> QED
    BY <1>2, <2>2, <2>5, Names
<1> QED
  BY <1>1, <1>2, Names

LEMMA AppendListKeeps ==
  ASSUME NEW s \in ScType, NEW Q \in SUBSET Tasks, NEW e \in EngineType, NEW au,
         SchedInv(s, Q, e, au), NEW t \in Q
  PROVE  LET r == AppendList(s, t)
         IN  r \in ScType /\ SchedInv(r, Q \ {t}, e, au) /\ SameWork(s, Q, r, Q \ {t})
             /\ r.rdp = s.rdp /\ r.curRDP = s.curRDP /\ r.curRSP = s.curRSP
<1> DEFINE r == AppendList(s, t)
           R == Q \ {t}
           L == s.gfxList
           n == Len(L)
<1>1. t \in Tasks
  OBVIOUS
<1>2. /\ r \in ScType
      /\ r.curRSP = s.curRSP /\ r.curRDP = s.curRDP /\ r.rsp = s.rsp /\ r.rdp = s.rdp
      /\ r.gfxMsgQ = s.gfxMsgQ /\ r.audioReply = s.audioReply
      /\ t = Audio => /\ r.doAudio = TRUE /\ r.audioList = Append(s.audioList, Audio)
                      /\ r.gfxList = L
                      /\ r.state = [s.state EXCEPT ![Audio] = {"rsp"}]
      /\ t \in GfxTasks => /\ r.doAudio = s.doAudio /\ r.audioList = s.audioList
                           /\ r.gfxList = Append(L, t)
                           /\ r.state = [s.state EXCEPT ![t] = Fresh]
  BY <1>1, AppendListFields
<1>3. n \in Nat /\ L \in Seq(GfxTasks) /\ (\A i \in 1..n : L[i] \in GfxTasks)
      /\ s.state \in [Tasks -> SUBSET Marks] /\ s.curRDP \in GfxTasks \cup {NoTask}
      /\ s.curRSP \in Tasks \cup {NoTask}
  BY ScFields
<1>4. e.slot \in Slots
  BY EngineFields
<1>5. /\ \A x \in GfxTasks : Rank(e, x) \in Int
      /\ \A x, y \in GfxTasks : Rank(e, x) = Rank(e, y) => x = y
  BY <1>4, Ranks
<1>6. Ordered(s, Q, e) /\ States(s) /\ Sound(s, Q, au) /\ Running(s)
  BY DEF SchedInv
<1> SUFFICES SchedInv(r, R, e, au) /\ SameWork(s, Q, r, R)
  BY <1>2
<1> HIDE DEF r
<1>7. SpDue(r) = SpDue(s) /\ DpDue(r) = DpDue(s) /\ Running(r)
  BY <1>2, <1>6 DEF SpDue, DpDue, Running
<1>8. CASE t = Audio
  <2>1. t \notin GfxTasks /\ \A x \in GfxTasks : x \in Q <=> x \in R
    BY <1>8, Names
  <2>2. Queued(r, R) = Queued(s, Q) /\ Outstanding(r, R) = Outstanding(s, Q)
    BY <1>2, <1>8, <2>1 DEF Queued, Outstanding
  <2>3. \A x \in GfxTasks : r.state[x] = s.state[x]
    BY <1>2, <1>3, <1>8, Names
  <2>4. Undrawn(r, R) = Undrawn(s, Q)
    <3>1. \A x \in Outstanding(s, Q) : x \in GfxTasks
      BY DEF Queued, Outstanding
    <3> QED
      BY <2>1, <2>2, <2>3, <3>1 DEF Undrawn
  <2>5. Ordered(r, R, e)
    BY <1>2, <1>6, <1>8, <2>1, <2>2 DEF Ordered
  <2>6. States(r)
    <3>1. r.state[Audio] = {"rsp"}
      BY <1>2, <1>3, <1>8, Names
    <3> QED
      BY <1>2, <1>3, <1>6, <1>8, <2>3, <3>1 DEF States
  <2>7. Sound(r, R, au)
    <3>1. ~s.doAudio /\ s.audioList = <<>> /\ s.curRSP # Audio /\ ~s.audioReply /\ au # "idle"
      BY <1>6, <1>8 DEF Sound
    <3>2. Append(<<>>, Audio) = <<Audio>>
      OBVIOUS
    <3> QED
      BY <1>2, <1>8, <3>1, <3>2 DEF Sound
  <2> QED
    BY <1>2, <1>7, <2>2, <2>4, <2>5, <2>6, <2>7 DEF SchedInv, SameWork, SameTasks
<1>9. CASE t \in GfxTasks
  <2> DEFINE M == r.gfxList
  <2>1. t # Audio /\ M = Append(L, t) /\ r.state = [s.state EXCEPT ![t] = Fresh]
    BY <1>2, <1>9, Names
  <2>2. Len(M) = n + 1 /\ M[n + 1] = t /\ \A i \in 1..n : M[i] = L[i]
    BY <1>3, <2>1, <1>9
  <2>3. \A i \in 1..Len(M) : i \in 1..n \/ i = n + 1
    BY <1>3, <2>2
  <2>4. /\ \A i \in 1..n : Rank(e, L[i]) < Rank(e, t)
        /\ s.curRSP \in GfxTasks => Rank(e, s.curRSP) < Rank(e, t)
        /\ t # s.curRDP /\ \A u \in Q \cap GfxTasks : u = t
    BY <1>6, <1>9 DEF Ordered
  <2>5. t # s.curRSP /\ (\A i \in 1..n : L[i] # t) /\ R \cap GfxTasks = {}
    BY <1>3, <1>5, <1>9, <2>4
  <2>6. \A x \in GfxTasks :
          (\E i \in 1..Len(M) : x = M[i]) <=> (x = t \/ \E i \in 1..n : x = L[i])
    BY <1>3, <2>2
  <2>7. Queued(r, R) = Queued(s, Q) /\ Outstanding(r, R) = Outstanding(s, Q)
    BY <1>2, <1>9, <2>5, <2>6 DEF Queued, Outstanding
  <2>8. \A x \in Tasks : r.state[x] = IF x = t THEN Fresh ELSE s.state[x]
    BY <1>3, <2>1
  <2>9. Undrawn(r, R) = Undrawn(s, Q)
    <3>1. \A x \in Outstanding(s, Q) : x \in GfxTasks /\ x \in Tasks
      BY Names DEF Queued, Outstanding
    <3>2. t \in Outstanding(s, Q) /\ "rdp" \in r.state[t]
      BY <1>1, <1>9, <2>8 DEF Outstanding, Queued, Fresh
    <3>3. R \cap GfxTasks = {} /\ Q \cap GfxTasks = {t}
      BY <1>9, <2>4, <2>5
    <3> HIDE DEF R
    <3> QED
      BY <2>7, <2>8, <3>1, <3>2, <3>3 DEF Undrawn
  <2>10. Ordered(r, R, e)
    <3>1. \A i, j \in 1..Len(M) : i < j => Rank(e, M[i]) < Rank(e, M[j])
      <4> SUFFICES ASSUME NEW i \in 1..Len(M), NEW j \in 1..Len(M), i < j
                   PROVE  Rank(e, M[i]) < Rank(e, M[j])
        OBVIOUS
      <4>1. i \in 1..n /\ (j \in 1..n \/ j = n + 1)
        BY <1>3, <2>2
      <4>2. CASE j = n + 1
        BY <2>2, <2>4, <4>1, <4>2
      <4>3. CASE j \in 1..n
        BY <1>6, <2>2, <4>1, <4>3 DEF Ordered
      <4> QED
        BY <4>1, <4>2, <4>3
    <3>2. \A i \in 1..Len(M) : /\ r.curRSP \in GfxTasks => Rank(e, r.curRSP) < Rank(e, M[i])
                               /\ \A x \in R \cap GfxTasks : Rank(e, M[i]) < Rank(e, x)
      BY <1>2, <1>6, <2>2, <2>3, <2>4, <2>5 DEF Ordered
    <3>3. \A x \in R \cap GfxTasks :
            /\ r.curRSP \in GfxTasks => Rank(e, r.curRSP) < Rank(e, x)
            /\ x # r.curRDP
            /\ \A u \in R \cap GfxTasks : x = u
      BY <2>5
    <3> QED
      BY <1>2, <1>6, <2>7, <3>1, <3>2, <3>3 DEF Ordered
  <2>11. States(r)
    <3>1. /\ r.state[Audio] = s.state[Audio]
          /\ s.curRDP \in GfxTasks => r.state[s.curRDP] = s.state[s.curRDP]
          /\ s.curRSP \in GfxTasks => r.state[s.curRSP] = s.state[s.curRSP]
          /\ \A i \in 1..n : r.state[L[i]] = s.state[L[i]]
      BY <1>3, <2>1, <2>4, <2>5, <2>8, Names
    <3>2. \A i \in 1..n : \/ r.state[M[i]] = Fresh /\ M[i] # r.curRDP
                          \/ /\ i = 1 /\ r.curRSP \notin GfxTasks
                             /\ Halted \subseteq r.state[M[i]]
                             /\ r.curRDP = (IF "rdp" \in r.state[M[i]] THEN M[i] ELSE NoTask)
      BY <1>2, <1>6, <2>2, <3>1 DEF States
    <3>3. r.state[M[n + 1]] = Fresh /\ M[n + 1] # r.curRDP
      BY <1>1, <1>2, <2>2, <2>4, <2>8
    <3> QED
      BY <1>2, <1>6, <2>3, <3>1, <3>2, <3>3 DEF States
  <2>12. Sound(r, R, au)
    BY <1>2, <1>6, <1>9, <2>1 DEF Sound
  <2> QED
    BY <1>2, <1>7, <2>7, <2>9, <2>10, <2>11, <2>12 DEF SchedInv, SameWork, SameTasks
<1> QED
  BY <1>1, <1>8, <1>9, Names

(* All tasks that wait in cmdQ, in order.                                  *)
LEMMA AppendNone ==
  ASSUME NEW s
  PROVE  AppendAll(s, <<>>) = s
<1> DEFINE f == [n \in 0..0 |-> s]
           after == CHOOSE g : g = [n \in 0..0 |-> IF n = 0 THEN s ELSE AppendList(g[n - 1], <<>>[n])]
<1>1. f = [n \in 0..0 |-> IF n = 0 THEN s ELSE AppendList(f[n - 1], <<>>[n])]
  OBVIOUS
<1>2. after = [n \in 0..0 |-> IF n = 0 THEN s ELSE AppendList(after[n - 1], <<>>[n])]
  BY <1>1
<1> HIDE DEF after
<1>3. after[0] = s
  BY <1>2
<1> QED
  BY <1>3 DEF AppendAll, after

LEMMA AppendOne ==
  ASSUME NEW s, NEW t
  PROVE  AppendAll(s, <<t>>) = AppendList(s, t)
<1> DEFINE q == <<t>>
           f == [n \in 0..1 |-> IF n = 0 THEN s ELSE AppendList(s, t)]
           after == CHOOSE g : g = [n \in 0..1 |-> IF n = 0 THEN s ELSE AppendList(g[n - 1], q[n])]
<1>1. f = [n \in 0..1 |-> IF n = 0 THEN s ELSE AppendList(f[n - 1], q[n])]
  OBVIOUS
<1>2. after = [n \in 0..1 |-> IF n = 0 THEN s ELSE AppendList(after[n - 1], q[n])]
  BY <1>1
<1> HIDE DEF after
<1>3. after[0] = s
  BY <1>2
<1>4. after[1] = AppendList(s, t)
  BY <1>2, <1>3
<1> QED
  BY <1>4 DEF AppendAll, after

LEMMA AppendTwo ==
  ASSUME NEW s, NEW t, NEW u
  PROVE  AppendAll(s, <<t, u>>) = AppendList(AppendList(s, t), u)
<1> DEFINE q == <<t, u>>
           f == [n \in 0..2 |-> IF n = 0 THEN s ELSE IF n = 1 THEN AppendList(s, t)
                                ELSE AppendList(AppendList(s, t), u)]
           after == CHOOSE g : g = [n \in 0..2 |-> IF n = 0 THEN s ELSE AppendList(g[n - 1], q[n])]
<1>1. f = [n \in 0..2 |-> IF n = 0 THEN s ELSE AppendList(f[n - 1], q[n])]
  OBVIOUS
<1>2. after = [n \in 0..2 |-> IF n = 0 THEN s ELSE AppendList(after[n - 1], q[n])]
  BY <1>1
<1> HIDE DEF after
<1>3. after[0] = s
  BY <1>2
<1>4. after[1] = AppendList(s, t)
  BY <1>2, <1>3
<1>5. after[2] = AppendList(AppendList(s, t), u)
  BY <1>2, <1>4
<1> QED
  BY <1>5 DEF AppendAll, after

LEMMA AppendAllKeeps ==
  ASSUME NEW s \in ScType, NEW q \in Batches, NEW e \in EngineType, NEW au,
         SchedInv(s, Range(q), e, au)
  PROVE  LET r == AppendAll(s, q)
         IN  r \in ScType /\ SchedInv(r, {}, e, au) /\ SameWork(s, Range(q), r, {})
             /\ r.rdp = s.rdp /\ r.curRDP = s.curRDP /\ r.curRSP = s.curRSP
<1>1. CASE q = <<>>
  <2>1. Range(q) = {}
    BY <1>1 DEF Range
  <2> QED
    BY <1>1, <2>1, AppendNone DEF SameWork, SameTasks
<1>2. ASSUME NEW t \in Tasks, q = <<t>>
      PROVE  LET r == AppendAll(s, q)
             IN  r \in ScType /\ SchedInv(r, {}, e, au) /\ SameWork(s, Range(q), r, {})
                 /\ r.rdp = s.rdp /\ r.curRDP = s.curRDP /\ r.curRSP = s.curRSP
  <2>1. Range(q) = {t} /\ Range(q) \ {t} = {}
    BY <1>2 DEF Range
  <2>2. AppendAll(s, q) = AppendList(s, t)
    BY <1>2, AppendOne
  <2>3. Range(q) \in SUBSET Tasks /\ t \in Range(q)
    BY <2>1
  <2> QED
    BY <2>1, <2>2, <2>3, AppendListKeeps
<1>3. ASSUME NEW t \in GfxTasks, q = <<t, Audio>>
      PROVE  LET r == AppendAll(s, q)
             IN  r \in ScType /\ SchedInv(r, {}, e, au) /\ SameWork(s, Range(q), r, {})
                 /\ r.rdp = s.rdp /\ r.curRDP = s.curRDP /\ r.curRSP = s.curRSP
  <2> DEFINE r1 == AppendList(s, t)
             r2 == AppendList(r1, Audio)
  <2>1. Range(q) = {t, Audio}
    BY <1>3 DEF Range
  <2>2. Range(q) \ {t} = {Audio} /\ {Audio} \ {Audio} = {} /\ Range(q) \in SUBSET Tasks
        /\ {Audio} \in SUBSET Tasks /\ t \in Range(q) /\ Audio \in {Audio}
    BY <2>1, Names
  <2>3. AppendAll(s, q) = r2
    <3>1. AppendAll(s, <<t, Audio>>) = AppendList(AppendList(s, t), Audio)
      BY AppendTwo
    <3> QED
      BY <1>3, <3>1
  <2>4. r1 \in ScType /\ SchedInv(r1, {Audio}, e, au) /\ SameWork(s, Range(q), r1, {Audio})
        /\ r1.rdp = s.rdp /\ r1.curRDP = s.curRDP /\ r1.curRSP = s.curRSP
    <3> DEFINE Q == Range(q)
    <3>1. Q \in SUBSET Tasks /\ t \in Q /\ SchedInv(s, Q, e, au) /\ Q \ {t} = {Audio}
      BY <2>2
    <3> HIDE DEF Q
    <3>2. r1 \in ScType /\ SchedInv(r1, Q \ {t}, e, au) /\ SameWork(s, Q, r1, Q \ {t})
          /\ r1.rdp = s.rdp /\ r1.curRDP = s.curRDP /\ r1.curRSP = s.curRSP
      BY <3>1, AppendListKeeps
    <3>3. r1 \in ScType /\ SchedInv(r1, {Audio}, e, au) /\ SameWork(s, Q, r1, {Audio})
          /\ r1.rdp = s.rdp /\ r1.curRDP = s.curRDP /\ r1.curRSP = s.curRSP
      BY <3>1, <3>2
    <3> QED
      BY <3>3 DEF Q
  <2> HIDE DEF r1
  <2>5. r2 \in ScType /\ SchedInv(r2, {}, e, au) /\ SameWork(r1, {Audio}, r2, {})
        /\ r2.rdp = r1.rdp /\ r2.curRDP = r1.curRDP /\ r2.curRSP = r1.curRSP
    <3> DEFINE Q == {Audio}
    <3>1. Q \in SUBSET Tasks /\ Audio \in Q /\ SchedInv(r1, Q, e, au) /\ Q \ {Audio} = {}
      BY <2>2, <2>4
    <3> HIDE DEF Q
    <3>2. r2 \in ScType /\ SchedInv(r2, Q \ {Audio}, e, au) /\ SameWork(r1, Q, r2, Q \ {Audio})
          /\ r2.rdp = r1.rdp /\ r2.curRDP = r1.curRDP /\ r2.curRSP = r1.curRSP
      BY <2>4, <3>1, AppendListKeeps
    <3>3. r2 \in ScType /\ SchedInv(r2, {}, e, au) /\ SameWork(r1, Q, r2, {})
          /\ r2.rdp = r1.rdp /\ r2.curRDP = r1.curRDP /\ r2.curRSP = r1.curRSP
      BY <3>1, <3>2
    <3> QED
      BY <3>3 DEF Q
  <2> HIDE DEF r2
  <2>6. SameWork(s, Range(q), r2, {})
    BY <2>4, <2>5 DEF SameWork, SameTasks
  <2> QED
    BY <2>3, <2>4, <2>5, <2>6
<1> QED
  BY <1>1, <1>2, <1>3, Names DEF Batches

(* __scYield marks the graphics task that runs.                            *)
LEMMA YieldKeeps ==
  ASSUME NEW s \in ScType, NEW Q \in SUBSET Tasks, NEW e, NEW au,
         SchedInv(s, Q, e, au), s.doAudio, s.curRSP # NoTask
  PROVE  LET r == Yield(s)
         IN  r \in ScType /\ SchedInv(r, Q, e, au) /\ SameWork(s, Q, r, Q)
             /\ r.rdp = s.rdp /\ r.curRDP = s.curRDP
<1> DEFINE r == Yield(s)
           c == s.curRSP
<1>1. Ordered(s, Q, e) /\ States(s) /\ Sound(s, Q, au) /\ Running(s)
  BY DEF SchedInv
<1>2. c # Audio /\ c \in GfxTasks /\ c \in Tasks
  BY <1>1, ScFields, Names DEF Sound
<1>3. r = [s EXCEPT !.state[c] = @ \cup {"yield"}]
  BY <1>2 DEF Yield
<1>4. s.state \in [Tasks -> SUBSET Marks]
  BY ScFields
<1>5. [s.state EXCEPT ![c] = @ \cup {"yield"}] \in [Tasks -> SUBSET Marks]
  BY <1>2, <1>4 DEF Marks
<1>6. /\ r \in ScType
      /\ r.state = [s.state EXCEPT ![c] = @ \cup {"yield"}]
      /\ r.gfxList = s.gfxList /\ r.audioList = s.audioList /\ r.doAudio = s.doAudio
      /\ r.curRSP = c /\ r.curRDP = s.curRDP /\ r.rsp = s.rsp /\ r.rdp = s.rdp
      /\ r.gfxMsgQ = s.gfxMsgQ /\ r.audioReply = s.audioReply
  BY <1>3, <1>5 DEF ScType
<1> SUFFICES SchedInv(r, Q, e, au) /\ SameWork(s, Q, r, Q)
  BY <1>6
<1> HIDE DEF r
<1>7. Queued(r, Q) = Queued(s, Q) /\ Outstanding(r, Q) = Outstanding(s, Q)
  BY <1>6 DEF Queued, Outstanding
<1>8. \A x \in Tasks : r.state[x] = IF x = c THEN s.state[c] \cup {"yield"} ELSE s.state[x]
  BY <1>4, <1>6
<1>9. \A x \in Tasks : "rdp" \in r.state[x] <=> "rdp" \in s.state[x]
  BY <1>8
<1>10. \A x \in Outstanding(s, Q) : x \in Tasks
  BY Names DEF Queued, Outstanding
<1>11. Undrawn(r, Q) = Undrawn(s, Q)
  BY <1>7, <1>9, <1>10 DEF Undrawn
<1>12. Ordered(r, Q, e)
  BY <1>1, <1>6, <1>7 DEF Ordered
<1>13. States(r)
  <2>1. /\ r.state[Audio] = s.state[Audio]
        /\ s.curRDP \in GfxTasks => "rdp" \in r.state[s.curRDP]
        /\ "rsp" \in r.state[c] /\ "yielded" \notin r.state[c]
        /\ s.curRDP = (IF "rdp" \in r.state[c] THEN c ELSE NoTask)
    BY <1>1, <1>2, <1>8, <1>9, Names DEF States
  <2>2. ASSUME NEW i \in 1..Len(s.gfxList)
        PROVE  r.state[s.gfxList[i]] = Fresh /\ s.gfxList[i] # s.curRDP
    <3>1. s.gfxList[i] \in Tasks
      BY ScFields, Names
    <3>2. s.state[s.gfxList[i]] = Fresh /\ s.gfxList[i] # s.curRDP
      BY <1>1, <1>2 DEF States
    <3>3. s.gfxList[i] # c
      <4>1. Rank(e, c) < Rank(e, s.gfxList[i])
        BY <1>1, <1>2 DEF Ordered
      <4>2. s.state[c] # Fresh \/ s.gfxList[i] # c
        BY <1>1, <1>2, <3>2 DEF States, Fresh
      <4> QED
        BY <4>2, <1>1, <1>2, <3>2 DEF States, Fresh
    <3> QED
      BY <1>8, <3>1, <3>2, <3>3
  <2>3. \A i \in 1..Len(r.gfxList) : r.state[r.gfxList[i]] = Fresh /\ r.gfxList[i] # r.curRDP
    BY <1>6, <2>2
  <2>4. r.state[Audio] \subseteq {"rsp"}
    BY <1>1, <2>1 DEF States
  <2> HIDE DEF c
  <2> QED
    BY <1>6, <2>1, <2>3, <2>4 DEF States
<1>14. Sound(r, Q, au) /\ Running(r) /\ SpDue(r) = SpDue(s) /\ DpDue(r) = DpDue(s)
  BY <1>1, <1>6 DEF Sound, Running, SpDue, DpDue
<1> QED
  BY <1>6, <1>7, <1>11, <1>12, <1>13, <1>14 DEF SchedInv, SameWork, SameTasks

(* What __scSchedule chose is on the processors: nothing, the audio task,  *)
(* or the first graphics task, whose framebuffer is free if it is new.     *)
StartsAudio(s, r) ==
    /\ s.doAudio /\ s.curRSP = NoTask
    /\ r.doAudio = FALSE /\ r.audioList = Tail(s.audioList) /\ r.gfxList = s.gfxList
    /\ r.curRSP = Audio /\ r.rsp = Audio /\ r.curRDP = s.curRDP /\ r.rdp = s.rdp
    /\ r.state = [s.state EXCEPT ![Audio] = @ \ {"yield", "yielded"}]

StartsGfx(s, r, v) ==
    LET t == Head(s.gfxList)
    IN  /\ s.gfxList # <<>> /\ s.curRSP = NoTask /\ TaskReady(t, v)
        /\ r.doAudio = s.doAudio /\ r.audioList = s.audioList
        /\ r.gfxList = Tail(s.gfxList)
        /\ r.curRSP = t /\ r.rsp = t
        /\ r.state = [s.state EXCEPT ![t] = @ \ {"yield", "yielded"}]
        /\ \/ /\ "yielded" \in s.state[t]
              /\ r.curRDP = (IF "rdp" \in s.state[t] THEN t ELSE s.curRDP)
              /\ r.rdp = s.rdp
           \/ /\ "yielded" \notin s.state[t] /\ s.curRDP = NoTask
              /\ r.curRDP = t /\ r.rdp = t

LEMMA ExecFields ==
  ASSUME NEW x \in ScType, NEW t \in Tasks, NEW d \in GfxTasks \cup {NoTask}
  PROVE  LET r == Exec([sc |-> x, sp |-> t, dp |-> d])
         IN  /\ r \in ScType
             /\ r.state = [x.state EXCEPT ![t] = @ \ {"yield", "yielded"}]
             /\ r.curRSP = t /\ r.rsp = t
             /\ r.curRDP = (IF d = t THEN t ELSE x.curRDP)
             /\ r.rdp = (IF d = t /\ "yielded" \notin x.state[t] THEN t ELSE x.rdp)
             /\ r.gfxList = x.gfxList /\ r.audioList = x.audioList /\ r.doAudio = x.doAudio
             /\ r.gfxMsgQ = x.gfxMsgQ /\ r.audioReply = x.audioReply
<1> DEFINE r == Exec([sc |-> x, sp |-> t, dp |-> d])
           st == [x.state EXCEPT ![t] = @ \ {"yield", "yielded"}]
<1>1. t # NoTask /\ t \in Tasks \cup {NoTask} /\ FALSE \in BOOLEAN
      /\ (d = t => t \in GfxTasks \cup {NoTask})
  BY Names
<1>2. st \in [Tasks -> SUBSET Marks]
  BY ScFields
<1>3. CASE d = t /\ "yielded" \notin x.state[t]
  <2>1. r = [x EXCEPT !.state = st, !.curRSP = t, !.curRDP = t,
                      !.rsp = t, !.sig1 = FALSE, !.rdp = t, !.synced = FALSE]
    BY <1>1, <1>3 DEF Exec, ScType
  <2> DEFINE z == [x EXCEPT !.state = st, !.curRSP = t, !.curRDP = t]
  <2>2. r = [z EXCEPT !.rsp = t, !.sig1 = FALSE, !.rdp = t, !.synced = FALSE]
    BY <2>1 DEF ScType
  <2> HIDE DEF r, st
  <2>3. /\ z \in ScType /\ z.state = st /\ z.curRSP = t /\ z.curRDP = t
        /\ z.gfxList = x.gfxList /\ z.audioList = x.audioList /\ z.doAudio = x.doAudio
        /\ z.gfxMsgQ = x.gfxMsgQ /\ z.audioReply = x.audioReply
    BY <1>1, <1>2, <1>3 DEF ScType
  <2> HIDE DEF z
  <2>4. /\ r \in ScType /\ r.state = st /\ r.curRSP = t /\ r.curRDP = t /\ r.rsp = t /\ r.rdp = t
        /\ r.gfxList = x.gfxList /\ r.audioList = x.audioList /\ r.doAudio = x.doAudio
        /\ r.gfxMsgQ = x.gfxMsgQ /\ r.audioReply = x.audioReply
    BY <1>1, <1>3, <2>2, <2>3 DEF ScType
  <2> QED
    BY <1>3, <2>4 DEF r, st
<1>4. CASE d = t /\ "yielded" \in x.state[t]
  <2>1. r = [x EXCEPT !.state = st, !.curRSP = t, !.curRDP = t, !.rsp = t, !.sig1 = FALSE]
    BY <1>1, <1>4 DEF Exec, ScType
  <2> QED
    BY <1>1, <1>2, <1>4, <2>1 DEF ScType
<1>5. CASE d # t
  <2>1. r = [x EXCEPT !.state = st, !.curRSP = t, !.rsp = t, !.sig1 = FALSE]
    BY <1>1, <1>5 DEF Exec, ScType
  <2> QED
    BY <1>1, <1>2, <1>5, <2>1 DEF ScType
<1> QED
  BY <1>3, <1>4, <1>5

LEMMA DispatchFields ==
  ASSUME NEW s \in ScType, NEW v,
         s.audioList = (IF s.doAudio THEN <<Audio>> ELSE <<>>)
  PROVE  LET r == Dispatch(s, v)
         IN  /\ r \in ScType /\ r.gfxMsgQ = s.gfxMsgQ /\ r.audioReply = s.audioReply
             /\ r = s \/ StartsAudio(s, r) \/ StartsGfx(s, r, v)
<1> DEFINE r == Dispatch(s, v)
           t == Head(s.gfxList)
           c == Schedule(s, v)
           unlinked == [s EXCEPT !.gfxList = Tail(@)]
<1>1. CASE c = NoChoice(s)
  BY <1>1 DEF Dispatch, Exec, NoChoice
<1>2. CASE s.doAudio /\ s.curRSP = NoTask
  <2> DEFINE x == [s EXCEPT !.doAudio = FALSE, !.audioList = Tail(@)]
  <2>1. s.audioList = <<Audio>> /\ Head(s.audioList) = Audio /\ Tail(s.audioList) \in Seq({Audio})
    BY <1>2
  <2>2. c = [sc |-> x, sp |-> Audio, dp |-> NoTask]
    BY <1>2, <2>1 DEF Schedule
  <2>3. x \in ScType /\ x.state = s.state /\ x.curRDP = s.curRDP /\ x.rdp = s.rdp /\ x.synced = s.synced
        /\ x.gfxList = s.gfxList /\ x.audioList = Tail(s.audioList) /\ x.doAudio = FALSE
        /\ x.gfxMsgQ = s.gfxMsgQ /\ x.audioReply = s.audioReply
    BY <2>1 DEF ScType
  <2> HIDE DEF x
  <2>4. r = Exec([sc |-> x, sp |-> Audio, dp |-> NoTask])
    BY <2>2 DEF Dispatch
  <2>5. Audio \in Tasks /\ NoTask \in GfxTasks \cup {NoTask} /\ NoTask # Audio
    BY Names
  <2> HIDE DEF r, c
  <2>6. /\ r \in ScType
        /\ r.state = [x.state EXCEPT ![Audio] = @ \ {"yield", "yielded"}]
        /\ r.curRSP = Audio /\ r.rsp = Audio /\ r.curRDP = x.curRDP /\ r.rdp = x.rdp
        /\ r.gfxList = x.gfxList /\ r.audioList = x.audioList /\ r.doAudio = x.doAudio
        /\ r.gfxMsgQ = x.gfxMsgQ /\ r.audioReply = x.audioReply
    BY <2>3, <2>4, <2>5, ExecFields
  <2>7. StartsAudio(s, r)
    BY <1>2, <2>3, <2>6 DEF StartsAudio
  <2> QED
    BY <2>3, <2>6, <2>7 DEF r
<1>3. ASSUME s.gfxList # <<>>, s.curRSP = NoTask, TaskReady(t, v), ~s.doAudio,
             \/ "yielded" \in s.state[t]
             \/ "yielded" \notin s.state[t] /\ s.curRDP = NoTask
      PROVE  r \in ScType /\ r.gfxMsgQ = s.gfxMsgQ /\ r.audioReply = s.audioReply
             /\ StartsGfx(s, r, v)
  <2> DEFINE yielded == "yielded" \in s.state[t]
             d == IF yielded /\ "rdp" \notin s.state[t] THEN NoTask ELSE t
             fresh == ~yielded
  <2>1. t \in GfxTasks /\ t # NoTask /\ Tail(s.gfxList) \in Seq(GfxTasks) /\ t \in Tasks
    BY <1>3, ScFields, Names
  <2>2. c = [sc |-> unlinked, sp |-> t, dp |-> d]
    BY <1>3 DEF Schedule
  <2>3. unlinked \in ScType /\ unlinked.state = s.state /\ unlinked.curRDP = s.curRDP
        /\ unlinked.rdp = s.rdp /\ unlinked.synced = s.synced
        /\ unlinked.gfxList = Tail(s.gfxList) /\ unlinked.audioList = s.audioList
        /\ unlinked.doAudio = s.doAudio
        /\ unlinked.gfxMsgQ = s.gfxMsgQ /\ unlinked.audioReply = s.audioReply
    BY <2>1 DEF ScType
  <2>4. (d = t /\ "yielded" \notin unlinked.state[t]) <=> fresh
    BY <2>1, <2>3
  <2> HIDE DEF unlinked
  <2>5. r = Exec([sc |-> unlinked, sp |-> t, dp |-> d])
    BY <2>2 DEF Dispatch
  <2>6. d \in GfxTasks \cup {NoTask}
    BY <2>1
  <2> HIDE DEF fresh, d, r, c, t
  <2>7. /\ r \in ScType
        /\ r.state = [unlinked.state EXCEPT ![t] = @ \ {"yield", "yielded"}]
        /\ r.curRSP = t /\ r.rsp = t
        /\ r.curRDP = (IF d = t THEN t ELSE unlinked.curRDP)
        /\ r.rdp = (IF fresh THEN t ELSE unlinked.rdp)
        /\ r.gfxList = unlinked.gfxList /\ r.audioList = unlinked.audioList /\ r.doAudio = unlinked.doAudio
        /\ r.gfxMsgQ = unlinked.gfxMsgQ /\ r.audioReply = unlinked.audioReply
    <3>1. t \in Tasks /\ unlinked \in ScType
      BY <2>1, <2>3
    <3>2. /\ r \in ScType
          /\ r.state = [unlinked.state EXCEPT ![t] = @ \ {"yield", "yielded"}]
          /\ r.curRSP = t /\ r.rsp = t
          /\ r.curRDP = (IF d = t THEN t ELSE unlinked.curRDP)
          /\ r.rdp = (IF d = t /\ "yielded" \notin unlinked.state[t] THEN t ELSE unlinked.rdp)
          /\ r.gfxList = unlinked.gfxList /\ r.audioList = unlinked.audioList
          /\ r.doAudio = unlinked.doAudio
          /\ r.gfxMsgQ = unlinked.gfxMsgQ /\ r.audioReply = unlinked.audioReply
      BY <2>5, <2>6, <3>1, ExecFields
    <3>3. CASE fresh
      BY <2>4, <3>2, <3>3
    <3>4. CASE ~fresh
      BY <2>4, <3>2, <3>4
    <3> QED
      BY <3>3, <3>4
  <2>8. StartsGfx(s, r, v)
    <3> USE DEF t
    <3>1. CASE yielded
      <4>1. d = (IF "rdp" \in s.state[t] THEN t ELSE NoTask) /\ ~fresh
        BY <3>1 DEF d, fresh
      <4> QED
        BY <1>3, <2>1, <2>3, <2>7, <3>1, <4>1 DEF StartsGfx
    <3>2. CASE ~yielded
      <4>1. d = t /\ fresh
        BY <3>2 DEF d, fresh
      <4> QED
        BY <1>3, <2>1, <2>3, <2>7, <3>2, <4>1 DEF StartsGfx
    <3> QED
      BY <3>1, <3>2
  <2> QED
    BY <2>3, <2>7, <2>8 DEF r
<1>4. CASE ~(s.doAudio /\ s.curRSP = NoTask) /\ c # NoChoice(s)
  <2>1. s.gfxList # <<>> /\ TaskReady(t, v)
    BY <1>4 DEF Schedule
  <2>2. s.curRSP = NoTask
    BY <1>4, <2>1 DEF Schedule
  <2>3. \/ "yielded" \in s.state[t]
        \/ "yielded" \notin s.state[t] /\ s.curRDP = NoTask
    BY <1>4, <2>1, <2>2 DEF Schedule
  <2> QED
    BY <1>3, <1>4, <2>1, <2>2, <2>3
<1> QED
  BY <1>1, <1>2, <1>4

LEMMA HeadAndTail ==
  ASSUME NEW S, NEW L \in Seq(S), L # <<>>
  PROVE  /\ Len(L) \in Nat /\ Len(L) >= 1 /\ Head(L) = L[1] /\ L[1] \in S
         /\ Tail(L) \in Seq(S) /\ Len(Tail(L)) = Len(L) - 1
         /\ \A i \in 1..Len(Tail(L)) : i + 1 \in 1..Len(L) /\ Tail(L)[i] = L[i + 1]
         /\ \A i \in 1..Len(L) : i = 1 \/ (i - 1 \in 1..Len(Tail(L)) /\ L[i] = Tail(L)[i - 1])
  OBVIOUS

LEMMA DispatchKeeps ==
  ASSUME NEW s \in ScType, NEW Q \in SUBSET Tasks, NEW e \in EngineType, NEW au, NEW v,
         SchedInv(s, Q, e, au)
  PROVE  LET r == Dispatch(s, v)
         IN  /\ r \in ScType /\ SchedInv(r, Q, e, au) /\ SameWork(s, Q, r, Q)
             /\ r.curRDP = s.curRDP \/ TaskReady(r.curRDP, v)
             /\ r.rdp = s.rdp \/ TaskReady(r.rdp, v)
<1> DEFINE r == Dispatch(s, v)
           L == s.gfxList
           n == Len(L)
           t == L[1]
           M == Tail(L)
<1>1. Ordered(s, Q, e) /\ States(s) /\ Sound(s, Q, au) /\ Running(s)
  BY DEF SchedInv
<1>2. /\ r \in ScType /\ r.gfxMsgQ = s.gfxMsgQ /\ r.audioReply = s.audioReply
      /\ r = s \/ StartsAudio(s, r) \/ StartsGfx(s, r, v)
  BY <1>1, DispatchFields DEF Sound
<1>3. L \in Seq(GfxTasks) /\ s.state \in [Tasks -> SUBSET Marks] /\ s.curRDP \in GfxTasks \cup {NoTask}
      /\ s.curRSP \in Tasks \cup {NoTask} /\ n \in Nat /\ \A i \in 1..n : L[i] \in GfxTasks
  BY ScFields
<1>4. /\ \A x \in GfxTasks : Rank(e, x) \in Int
      /\ \A x, y \in GfxTasks : Rank(e, x) = Rank(e, y) => x = y
  BY EngineFields, Ranks
<1> SUFFICES /\ SchedInv(r, Q, e, au) /\ SameWork(s, Q, r, Q)
             /\ r.curRDP = s.curRDP \/ TaskReady(r.curRDP, v)
             /\ r.rdp = s.rdp \/ TaskReady(r.rdp, v)
  BY <1>2
<1> HIDE DEF r
<1>5. CASE r = s
  BY <1>5 DEF SameWork, SameTasks
<1>6. CASE StartsAudio(s, r)
  <2>1. /\ s.doAudio /\ s.curRSP = NoTask
        /\ r.doAudio = FALSE /\ r.audioList = Tail(s.audioList) /\ r.gfxList = s.gfxList
        /\ r.curRSP = Audio /\ r.rsp = Audio /\ r.curRDP = s.curRDP /\ r.rdp = s.rdp
        /\ r.state = [s.state EXCEPT ![Audio] = @ \ {"yield", "yielded"}]
    BY <1>6 DEF StartsAudio
  <2>2. \A x \in GfxTasks : x # Audio /\ x # NoTask /\ r.state[x] = s.state[x]
    BY <1>3, <2>1, Names
  <2>3. Queued(r, Q) = Queued(s, Q) /\ Outstanding(r, Q) = Outstanding(s, Q)
    BY <2>1, <2>2 DEF Queued, Outstanding
  <2>4. Undrawn(r, Q) = Undrawn(s, Q)
    <3>1. \A x \in Outstanding(s, Q) : x \in GfxTasks
      BY DEF Queued, Outstanding
    <3> QED
      BY <2>2, <2>3, <3>1 DEF Undrawn
  <2>5. Ordered(r, Q, e)
    <3>1. s.curRSP \notin GfxTasks /\ r.curRSP \notin GfxTasks
      BY <2>1, Names
    <3> QED
      BY <1>1, <2>1, <2>3, <3>1 DEF Ordered
  <2>6. States(r)
    <3>1. r.state[Audio] \subseteq s.state[Audio]
      BY <1>3, <2>1, Names
    <3>2. s.curRSP \notin GfxTasks /\ r.curRSP \notin GfxTasks
      BY <2>1, Names
    <3> QED
      BY <1>1, <1>3, <2>1, <2>2, <3>1, <3>2 DEF States
  <2>7. Sound(r, Q, au)
    <3>1. Tail(<<Audio>>) = <<>>
      OBVIOUS
    <3> QED
      BY <1>1, <1>2, <2>1, <3>1 DEF Sound
  <2>8. Running(r) /\ SpDue(r) = SpDue(s) /\ DpDue(r) = DpDue(s)
    BY <1>1, <2>1, Names DEF Running, SpDue, DpDue
  <2> QED
    BY <1>2, <2>1, <2>3, <2>4, <2>5, <2>6, <2>7, <2>8 DEF SchedInv, SameWork, SameTasks
<1>7. CASE StartsGfx(s, r, v)
  <2>1. L # <<>>
    BY <1>7 DEF StartsGfx
  <2>2. /\ n >= 1 /\ Head(L) = t /\ t \in GfxTasks /\ M \in Seq(GfxTasks) /\ Len(M) = n - 1
        /\ \A i \in 1..Len(M) : i + 1 \in 1..n /\ M[i] = L[i + 1]
        /\ \A i \in 1..n : i = 1 \/ (i - 1 \in 1..Len(M) /\ L[i] = M[i - 1])
        /\ 1 \in 1..n
    BY <1>3, <2>1, HeadAndTail
  <2>3. /\ s.curRSP = NoTask /\ TaskReady(t, v)
        /\ r.doAudio = s.doAudio /\ r.audioList = s.audioList
        /\ r.gfxList = M /\ r.curRSP = t /\ r.rsp = t
        /\ r.state = [s.state EXCEPT ![t] = @ \ {"yield", "yielded"}]
        /\ \/ /\ "yielded" \in s.state[t]
              /\ r.curRDP = (IF "rdp" \in s.state[t] THEN t ELSE s.curRDP)
              /\ r.rdp = s.rdp
           \/ /\ "yielded" \notin s.state[t] /\ s.curRDP = NoTask
              /\ r.curRDP = t /\ r.rdp = t
    BY <1>7, <2>2 DEF StartsGfx
  <2> HIDE DEF M, t
  <2>4. s.curRSP \notin GfxTasks /\ t # Audio /\ t # NoTask /\ t \in Tasks /\ t = L[1]
    BY <2>2, <2>3, Names DEF t
  <2>5. \A x \in Tasks : r.state[x] = IF x = t THEN s.state[t] \ {"yield", "yielded"} ELSE s.state[x]
    BY <1>3, <2>3, <2>4
  <2>6. /\ "rdp" \in s.state[t] => r.curRDP = t
        /\ "rdp" \notin s.state[t] => r.curRDP = NoTask
        /\ "rsp" \in s.state[t]
        /\ "yielded" \in s.state[t] => r.curRDP = s.curRDP
    <3>1. \/ s.state[t] = Fresh /\ t # s.curRDP
          \/ /\ Halted \subseteq s.state[t]
             /\ s.curRDP = (IF "rdp" \in s.state[t] THEN t ELSE NoTask)
      BY <1>1, <2>2, <2>4 DEF States
    <3> QED
      BY <2>3, <3>1 DEF Fresh, Halted
  <2>7. \A i \in 1..Len(M) : /\ Rank(e, t) < Rank(e, M[i]) /\ M[i] \in GfxTasks /\ M[i] # t
                             /\ s.state[M[i]] = Fresh /\ M[i] # s.curRDP
    <3> TAKE i \in 1..Len(M)
    <3>1. i + 1 \in 1..n /\ M[i] = L[i + 1] /\ 1 < i + 1 /\ 1 \in 1..n
      BY <2>2
    <3>2. Rank(e, t) < Rank(e, M[i])
      BY <1>1, <2>4, <3>1 DEF Ordered
    <3>3. M[i] \in GfxTasks
      BY <1>3, <3>1
    <3>4. s.state[M[i]] = Fresh /\ M[i] # s.curRDP
      BY <1>1, <3>1 DEF States
    <3>5. M[i] # t
      BY <1>4, <2>2, <3>2
    <3> QED
      BY <3>2, <3>3, <3>4, <3>5
  <2>8. Queued(r, Q) = Queued(s, Q)
    <3>1. \A x : (\E i \in 1..n : x = L[i]) <=> (x = t \/ \E i \in 1..Len(M) : x = M[i])
      BY <2>2, <2>4
    <3>2. \A x \in GfxTasks : x # s.curRSP
      BY <2>4
    <3> QED
      BY <2>3, <3>1, <3>2 DEF Queued
  <2>9. t \in Queued(s, Q)
    BY <2>2, <2>4 DEF Queued
  <2>10. r.curRDP = s.curRDP \/ (s.curRDP = NoTask /\ r.curRDP = t)
    BY <2>3, <2>6
  <2>11. Outstanding(r, Q) = Outstanding(s, Q)
    BY <2>8, <2>9, <2>10, Names DEF Outstanding
  <2>12. Undrawn(r, Q) = Undrawn(s, Q)
    <3>1. \A x \in Outstanding(s, Q) : x \in Tasks
      BY Names DEF Queued, Outstanding
    <3>2. \A x \in Tasks : "rdp" \in r.state[x] <=> "rdp" \in s.state[x]
      BY <2>5
    <3> QED
      BY <2>11, <3>1, <3>2 DEF Undrawn
  <2>13. \A x \in Q \cap GfxTasks : Rank(e, t) < Rank(e, x) /\ x # t
    BY <1>1, <1>4, <2>2, <2>4 DEF Ordered
  <2>14. Ordered(r, Q, e)
    <3>1. \A i, j \in 1..Len(M) : i < j => Rank(e, M[i]) < Rank(e, M[j])
      <4> SUFFICES ASSUME NEW i \in 1..Len(M), NEW j \in 1..Len(M), i < j
                   PROVE  Rank(e, M[i]) < Rank(e, M[j])
        OBVIOUS
      <4>1. i + 1 \in 1..n /\ j + 1 \in 1..n /\ M[i] = L[i + 1] /\ M[j] = L[j + 1] /\ i + 1 < j + 1
        BY <2>2
      <4> QED
        BY <1>1, <4>1 DEF Ordered
    <3>2. \A i \in 1..Len(M) : /\ Rank(e, t) < Rank(e, M[i])
                               /\ \A x \in Q \cap GfxTasks : Rank(e, M[i]) < Rank(e, x)
      BY <1>1, <2>2, <2>7 DEF Ordered
    <3>3. \A x \in Q \cap GfxTasks :
            /\ Rank(e, t) < Rank(e, x) /\ x # r.curRDP
            /\ \A u \in Q \cap GfxTasks : x = u
      BY <1>1, <2>10, <2>13 DEF Ordered
    <3>4. r.curRDP \in GfxTasks =>
            \A x \in Queued(r, Q) : x = r.curRDP \/ Rank(e, r.curRDP) < Rank(e, x)
      <4>1. \A x \in Queued(r, Q) : x = t \/ Rank(e, t) < Rank(e, x)
        BY <2>3, <2>7, <2>13 DEF Queued
      <4>2. CASE r.curRDP = s.curRDP
        BY <1>1, <2>8, <4>2 DEF Ordered
      <4> QED
        BY <2>10, <4>1, <4>2
    <3> QED
      BY <1>1, <2>3, <2>8, <2>11, <3>1, <3>2, <3>3, <3>4 DEF Ordered
  <2>15. States(r)
    <3>1. r.state[Audio] = s.state[Audio]
      BY <2>4, <2>5, Names
    <3>2. /\ "rsp" \in r.state[t] /\ "yielded" \notin r.state[t]
          /\ r.curRDP = (IF "rdp" \in r.state[t] THEN t ELSE NoTask)
      BY <2>4, <2>5, <2>6
    <3>3. r.curRDP \in GfxTasks => "rdp" \in r.state[r.curRDP]
      BY <3>2, Names
    <3>4. \A i \in 1..Len(M) : r.state[M[i]] = Fresh /\ M[i] # r.curRDP
      BY <2>5, <2>7, <2>10, Names
    <3> QED
      BY <1>1, <2>3, <3>1, <3>2, <3>3, <3>4 DEF States
  <2>16. Sound(r, Q, au)
    BY <1>1, <1>2, <2>3, <2>4, Names DEF Sound
  <2>17. Running(r) /\ SpDue(r) = SpDue(s) /\ DpDue(r) = DpDue(s)
    <3>1. SpDue(s) = FALSE /\ SpDue(r) = FALSE
      BY <2>3, <2>4 DEF SpDue
    <3>2. CASE "yielded" \in s.state[t]
      <4>1. r.curRDP = s.curRDP /\ r.rdp = s.rdp
        BY <2>3, <2>6, <3>2
      <4> QED
        BY <1>1, <2>3, <3>1, <4>1 DEF Running, DpDue
    <3>3. CASE "yielded" \notin s.state[t]
      BY <2>3, <2>4, <3>1, <3>3 DEF Running, DpDue
    <3> QED
      BY <3>2, <3>3
  <2>18. (r.curRDP = s.curRDP \/ TaskReady(r.curRDP, v)) /\ (r.rdp = s.rdp \/ TaskReady(r.rdp, v))
    BY <2>3, <2>10
  <2> QED
    BY <1>2, <2>8, <2>11, <2>12, <2>14, <2>15, <2>16, <2>17, <2>18 DEF SchedInv, SameWork, SameTasks
<1> QED
  BY <1>2, <1>5, <1>6, <1>7

\* What is left to do of s with Q on its way is less, by a task at most, in r.
Works(s, Q, r, R, e) ==
    /\ Outstanding(r, R) \subseteq Outstanding(s, Q)
    /\ Undrawn(r, R) = Undrawn(s, Q)
    /\ \/ Queued(r, R) = Queued(s, Q) /\ r.gfxMsgQ = s.gfxMsgQ
       \/ \E t \in Queued(s, Q) :
            /\ Queued(r, R) = Queued(s, Q) \ {t}
            /\ r.gfxMsgQ = (IF LastOf(e, t) THEN Append(s.gfxMsgQ, DoneMsg(FB(t))) ELSE s.gfxMsgQ)

LEMMA SameThenWorks ==
  ASSUME NEW s, NEW Q, NEW r, NEW R, NEW u, NEW U, NEW e,
         SameTasks(s, Q, r, R), Works(r, R, u, U, e)
  PROVE  Works(s, Q, u, U, e)
<1>1. Queued(r, R) = Queued(s, Q) /\ Outstanding(r, R) = Outstanding(s, Q)
      /\ Undrawn(r, R) = Undrawn(s, Q) /\ r.gfxMsgQ = s.gfxMsgQ
  BY DEF SameTasks
<1> QED
  BY <1>1 DEF Works

LEMMA WorksThenSame ==
  ASSUME NEW s, NEW Q, NEW r, NEW R, NEW u, NEW U, NEW e,
         Works(s, Q, r, R, e), SameTasks(r, R, u, U)
  PROVE  Works(s, Q, u, U, e)
<1>1. Queued(u, U) = Queued(r, R) /\ Outstanding(u, U) = Outstanding(r, R)
      /\ Undrawn(u, U) = Undrawn(r, R) /\ u.gfxMsgQ = r.gfxMsgQ
  BY DEF SameTasks
<1> QED
  BY <1>1 DEF Works

(* The task on the RSP is the oldest that is not finished.                 *)
LEMMA OnRSP ==
  ASSUME NEW s \in ScType, NEW Q \in SUBSET Tasks, NEW e \in EngineType, NEW au,
         SchedInv(s, Q, e, au), s.curRSP \in GfxTasks
  PROVE  /\ s.curRSP \notin Q /\ s.curRSP \in Queued(s, Q)
         /\ "rsp" \in s.state[s.curRSP] /\ "yielded" \notin s.state[s.curRSP]
         /\ s.curRDP = (IF "rdp" \in s.state[s.curRSP] THEN s.curRSP ELSE NoTask)
         /\ \A x \in Outstanding(s, Q) : x = s.curRSP \/ Rank(e, s.curRSP) < Rank(e, x)
         /\ \A i \in 1..Len(s.gfxList) :
              /\ Rank(e, s.curRSP) < Rank(e, s.gfxList[i]) /\ s.gfxList[i] # s.curRSP
              /\ s.state[s.gfxList[i]] = Fresh /\ s.gfxList[i] # s.curRDP
<1>1. Ordered(s, Q, e) /\ States(s)
  BY DEF SchedInv
<1>2. /\ \A x \in GfxTasks : Rank(e, x) \in Int
      /\ \A x, y \in GfxTasks : Rank(e, x) = Rank(e, y) => x = y
  BY EngineFields, Ranks
<1>3. s.curRSP \notin Q
  BY <1>1, <1>2 DEF Ordered
<1>4. /\ "rsp" \in s.state[s.curRSP] /\ "yielded" \notin s.state[s.curRSP]
      /\ s.curRDP = (IF "rdp" \in s.state[s.curRSP] THEN s.curRSP ELSE NoTask)
  BY <1>1 DEF States
<1>5. \A i \in 1..Len(s.gfxList) :
        /\ Rank(e, s.curRSP) < Rank(e, s.gfxList[i]) /\ s.gfxList[i] # s.curRSP
        /\ s.state[s.gfxList[i]] = Fresh /\ s.gfxList[i] # s.curRDP
  BY <1>1, <1>2 DEF Ordered, States
<1>6. \A x \in Queued(s, Q) : x = s.curRSP \/ Rank(e, s.curRSP) < Rank(e, x)
  BY <1>1, <1>5 DEF Ordered, Queued
<1>7. \A x \in Outstanding(s, Q) : x = s.curRSP \/ x \in Queued(s, Q)
  BY <1>4, Names DEF Outstanding
<1> QED
  BY <1>3, <1>4, <1>5, <1>6, <1>7 DEF Queued

(* A finished task leaves the RSP; the client of a frame is told.          *)
LEMMA CompletedKeeps ==
  ASSUME NEW s \in ScType, NEW Q \in SUBSET Tasks, NEW au, engine \in EngineType,
         SchedInv(s, Q, engine, au), SpDue(s)
  PROVE  LET r == CompletedTask(s, s.curRSP)
         IN  /\ r \in ScType /\ SchedInv(r, Q, engine, au) /\ Works(s, Q, r, Q, engine)
             /\ r.curRSP = NoTask /\ r.rsp = NoTask /\ r.curRDP = s.curRDP /\ r.rdp = s.rdp
<1> DEFINE t == s.curRSP
           r == CompletedTask(s, t)
           e == engine
           last == t # Audio /\ LastOf(e, t)
           L == s.gfxList
<1>1. Ordered(s, Q, e) /\ States(s) /\ Sound(s, Q, au) /\ Running(s)
  BY DEF SchedInv
<1>2. t # NoTask /\ s.rsp = NoTask /\ t \in Tasks
  BY ScFields DEF SpDue
<1>3. s.state \in [Tasks -> SUBSET Marks] /\ s.gfxMsgQ \in Seq(Messages)
  BY ScFields
<1>4. last => Append(s.gfxMsgQ, DoneMsg(FB(t))) \in Seq(Messages)
  <2>1. last => FB(t) \in Slots
    BY <1>2, GfxParts, Names
  <2>2. last => DoneMsg(FB(t)) \in Messages
    BY <2>1 DEF Messages
  <2> QED
    BY <1>3, <2>2
<1>5. (t # Audio /\ IsLast(t)) <=> last
  BY DEF IsLast, LastOf
<1>6. r = [s EXCEPT !.curRSP = NoTask,
              !.state[t] = @ \ {"rsp", "yield"},
              !.audioReply = @ \/ t = Audio,
              !.gfxMsgQ = IF last THEN Append(@, DoneMsg(FB(t))) ELSE @]
  <2> HIDE DEF last, t
  <2>1. CASE last
    BY <1>5, <2>1 DEF CompletedTask
  <2>2. CASE ~last
    BY <1>5, <2>2 DEF CompletedTask
  <2> QED
    BY <2>1, <2>2
<1>7. /\ r \in ScType
      /\ r.curRSP = NoTask /\ r.state = [s.state EXCEPT ![t] = @ \ {"rsp", "yield"}]
      /\ r.audioReply = (s.audioReply \/ t = Audio)
      /\ r.gfxMsgQ = (IF last THEN Append(s.gfxMsgQ, DoneMsg(FB(t))) ELSE s.gfxMsgQ)
      /\ r.gfxList = L /\ r.audioList = s.audioList /\ r.doAudio = s.doAudio
      /\ r.rsp = s.rsp /\ r.curRDP = s.curRDP /\ r.rdp = s.rdp
  <2>1. [s.state EXCEPT ![t] = @ \ {"rsp", "yield"}] \in [Tasks -> SUBSET Marks]
    BY <1>2, <1>3
  <2>2. (IF last THEN Append(s.gfxMsgQ, DoneMsg(FB(t))) ELSE s.gfxMsgQ) \in Seq(Messages)
    BY <1>3, <1>4
  <2>3. (s.audioReply \/ t = Audio) \in BOOLEAN /\ NoTask \in Tasks \cup {NoTask}
    OBVIOUS
  <2> HIDE DEF last, t, r
  <2> QED
    BY <1>6, <2>1, <2>2, <2>3 DEF ScType
<1> SUFFICES SchedInv(r, Q, e, au) /\ Works(s, Q, r, Q, e)
  BY <1>2, <1>7
<1> HIDE DEF r, last
<1>8. \A x \in Tasks : r.state[x] = IF x = t THEN s.state[t] \ {"rsp", "yield"} ELSE s.state[x]
  BY <1>2, <1>3, <1>7
<1>9. Running(r)
  BY <1>1, <1>2, <1>7 DEF Running
<1>10. r.curRSP \notin GfxTasks /\ r.curRSP # Audio
  BY <1>7, Names
<1>11. \A x \in Outstanding(s, Q) : x \in Tasks
  BY Names DEF Queued, Outstanding
<1>12. \A x \in Tasks : "rdp" \in r.state[x] <=> "rdp" \in s.state[x]
  BY <1>8
<1>13. CASE t = Audio
  <2>1. s.curRSP \notin GfxTasks /\ r.gfxMsgQ = s.gfxMsgQ
    BY <1>7, <1>13, Names DEF last
  <2>2. Queued(r, Q) = Queued(s, Q) /\ Outstanding(r, Q) = Outstanding(s, Q)
    BY <1>7, <1>10, <2>1 DEF Queued, Outstanding
  <2>3. Undrawn(r, Q) = Undrawn(s, Q)
    BY <1>11, <1>12, <2>2 DEF Undrawn
  <2>4. Ordered(r, Q, e)
    BY <1>1, <1>7, <1>10, <2>1, <2>2 DEF Ordered
  <2>5. States(r)
    <3>1. r.state[Audio] \subseteq {"rsp"}
      BY <1>1, <1>2, <1>8, <1>13 DEF States
    <3>2. \A x \in GfxTasks : r.state[x] = s.state[x]
      BY <1>8, <1>13, Names
    <3>3. \A i \in 1..Len(L) : L[i] \in GfxTasks
      BY ScFields
    <3> QED
      BY <1>1, <1>7, <1>10, <2>1, <3>1, <3>2, <3>3 DEF States
  <2>6. Sound(r, Q, au)
    BY <1>1, <1>7, <1>10, <1>13 DEF Sound
  <2> QED
    BY <1>9, <2>1, <2>2, <2>3, <2>4, <2>5, <2>6 DEF SchedInv, Works
<1>14. CASE t \in GfxTasks
  <2>1. /\ t \notin Q /\ t \in Queued(s, Q) /\ t # Audio
        /\ s.curRDP = (IF "rdp" \in s.state[t] THEN t ELSE NoTask)
        /\ \A x \in Outstanding(s, Q) : x = t \/ Rank(e, t) < Rank(e, x)
        /\ \A i \in 1..Len(L) : L[i] # t /\ s.state[L[i]] = Fresh /\ L[i] # s.curRDP
    BY <1>14, OnRSP, Names
  <2>2. Queued(r, Q) = Queued(s, Q) \ {t}
    BY <1>7, <1>10, <2>1 DEF Queued
  <2>3. Outstanding(r, Q) = Queued(r, Q) \cup {x \in GfxTasks : x = s.curRDP}
        /\ Outstanding(r, Q) \subseteq Outstanding(s, Q)
    BY <1>7, <2>2 DEF Outstanding
  <2>4. Undrawn(r, Q) = Undrawn(s, Q)
    <3>1. t \in Undrawn(s, Q) => t \in Undrawn(r, Q)
      BY <1>2, <1>12, <1>14, <2>1, <2>3 DEF Undrawn
    <3>2. \A x \in Outstanding(s, Q) : x # t => x \in Outstanding(r, Q)
      BY <2>2, <2>3 DEF Outstanding
    <3> QED
      BY <1>11, <1>12, <2>3, <3>1, <3>2 DEF Undrawn
  <2>5. Ordered(r, Q, e)
    <3>1. \A x \in Outstanding(r, Q) : Handed(e, x)
      BY <1>1, <2>3 DEF Ordered
    <3>2. ASSUME NEW x \in Outstanding(r, Q), NEW u \in GfxTasks, Handed(e, u), Rank(e, x) < Rank(e, u)
          PROVE  u \in Queued(r, Q)
      <4>1. u \in Queued(s, Q)
        BY <1>1, <2>3, <3>2 DEF Ordered
      <4>2. x \in GfxTasks /\ Rank(e, x) \in Int /\ Rank(e, t) \in Int /\ Rank(e, u) \in Int
        BY <1>14, EngineFields, Ranks DEF Outstanding, Queued
      <4>3. u # t
        BY <2>1, <2>3, <3>2, <4>2
      <4> QED
        BY <2>2, <4>1, <4>3
    <3>3. r.curRDP \in GfxTasks =>
            \A x \in Queued(r, Q) : x = r.curRDP \/ Rank(e, r.curRDP) < Rank(e, x)
      BY <1>1, <1>7, <2>2 DEF Ordered
    <3> QED
      BY <1>1, <1>7, <1>10, <3>1, <3>2, <3>3 DEF Ordered
  <2>6. States(r)
    <3>1. r.state[Audio] = s.state[Audio]
      BY <1>8, <2>1, Names
    <3>2. r.curRDP \in GfxTasks => "rdp" \in r.state[r.curRDP]
      BY <1>1, <1>7, <1>12, Names DEF States
    <3>3. \A i \in 1..Len(L) : r.state[L[i]] = Fresh /\ L[i] # r.curRDP
      BY <1>7, <1>8, <2>1, ScFields, Names
    <3> QED
      BY <1>1, <1>7, <1>10, <3>1, <3>2, <3>3 DEF States
  <2>7. Sound(r, Q, au)
    BY <1>1, <1>7, <1>10, <2>1 DEF Sound
  <2>8. r.gfxMsgQ = (IF LastOf(e, t) THEN Append(s.gfxMsgQ, DoneMsg(FB(t))) ELSE s.gfxMsgQ)
    BY <1>7, <2>1 DEF last
  <2> QED
    BY <1>9, <2>1, <2>2, <2>3, <2>4, <2>5, <2>6, <2>7, <2>8 DEF SchedInv, Works
<1> QED
  BY <1>2, <1>13, <1>14, Names

(* A task that made way for the audio task is the first of the list again. *)
LEMMA YieldedKeeps ==
  ASSUME NEW s \in ScType, NEW Q \in SUBSET Tasks, NEW e \in EngineType, NEW au,
         SchedInv(s, Q, e, au), SpDue(s), "yield" \in s.state[s.curRSP]
  PROVE  LET r == YieldedTask(s, s.curRSP)
         IN  /\ r \in ScType /\ SchedInv(r, Q, e, au) /\ Works(s, Q, r, Q, e)
             /\ r.curRSP = NoTask /\ r.rsp = NoTask /\ r.curRDP = s.curRDP /\ r.rdp = s.rdp
<1> DEFINE t == s.curRSP
           r == YieldedTask(s, t)
           L == s.gfxList
           P == <<t>> \o L
<1>1. Ordered(s, Q, e) /\ States(s) /\ Sound(s, Q, au) /\ Running(s)
  BY DEF SchedInv
<1>2. t # NoTask /\ s.rsp = NoTask /\ t \in GfxTasks /\ t \in Tasks /\ t # Audio
  BY <1>1, ScFields, Names DEF SpDue, States
<1>3. s.state \in [Tasks -> SUBSET Marks] /\ L \in Seq(GfxTasks) /\ Len(L) \in Nat
      /\ \A i \in 1..Len(L) : L[i] \in GfxTasks
  BY ScFields
<1>4. /\ P \in Seq(GfxTasks) /\ Len(P) = Len(L) + 1 /\ P[1] = t
      /\ \A i \in 1..Len(L) : P[i + 1] = L[i]
      /\ \A i \in 1..Len(P) : i = 1 \/ (i - 1 \in 1..Len(L) /\ P[i] = L[i - 1])
  BY <1>2, <1>3
<1>5. [s.state EXCEPT ![t] = @ \cup {"yielded"}] \in [Tasks -> SUBSET Marks]
  BY <1>2, <1>3 DEF Marks
<1> HIDE DEF P
<1>6. r = [s EXCEPT !.curRSP = NoTask, !.state[t] = @ \cup {"yielded"}, !.gfxList = P]
  BY DEF YieldedTask, P
<1>7. /\ r \in ScType
      /\ r.curRSP = NoTask /\ r.state = [s.state EXCEPT ![t] = @ \cup {"yielded"}]
      /\ r.gfxList = P /\ r.audioList = s.audioList /\ r.doAudio = s.doAudio
      /\ r.rsp = s.rsp /\ r.curRDP = s.curRDP /\ r.rdp = s.rdp
      /\ r.audioReply = s.audioReply /\ r.gfxMsgQ = s.gfxMsgQ
  <2>1. NoTask \in Tasks \cup {NoTask}
    OBVIOUS
  <2> HIDE DEF r, t
  <2> QED
    BY <1>4, <1>5, <1>6, <2>1 DEF ScType
<1> SUFFICES SchedInv(r, Q, e, au) /\ Works(s, Q, r, Q, e)
  BY <1>2, <1>7
<1> HIDE DEF r
<1>8. \A x \in Tasks : r.state[x] = IF x = t THEN s.state[t] \cup {"yielded"} ELSE s.state[x]
  BY <1>2, <1>3, <1>7
<1>9. r.curRSP \notin GfxTasks /\ r.curRSP # Audio
  BY <1>7, Names
<1>10. \A x \in Outstanding(s, Q) : x \in Tasks
  BY Names DEF Queued, Outstanding
<1>11. \A x \in Tasks : "rdp" \in r.state[x] <=> "rdp" \in s.state[x]
  BY <1>8
<1>12. /\ t \notin Q /\ "rsp" \in s.state[t]
       /\ s.curRDP = (IF "rdp" \in s.state[t] THEN t ELSE NoTask)
       /\ \A i \in 1..Len(L) : /\ Rank(e, t) < Rank(e, L[i]) /\ L[i] # t
                               /\ s.state[L[i]] = Fresh /\ L[i] # s.curRDP
  BY <1>1, <1>2, OnRSP
<1>13. Queued(r, Q) = Queued(s, Q)
  <2>1. \A x : (\E i \in 1..Len(P) : x = P[i]) <=> (x = t \/ \E i \in 1..Len(L) : x = L[i])
    <3>1. 1 \in 1..Len(P) /\ \A i \in 1..Len(L) : i + 1 \in 1..Len(P)
      BY <1>3, <1>4
    <3> HIDE DEF t, L
    <3>2. ASSUME NEW i \in 1..Len(P) PROVE P[i] = t \/ \E j \in 1..Len(L) : P[i] = L[j]
      BY <1>4
    <3>3. ASSUME NEW i \in 1..Len(L) PROVE \E j \in 1..Len(P) : P[j] = L[i]
      BY <1>4, <3>1
    <3> QED
      BY <1>4, <3>1, <3>2, <3>3
  <2>2. \A x \in GfxTasks : x # r.curRSP
    BY <1>9
  <2>3. \A x \in GfxTasks : x \in Queued(r, Q) <=> (x \in Q \/ \E i \in 1..Len(P) : x = P[i])
    BY <1>7, <2>2 DEF Queued
  <2>4. \A x \in GfxTasks : x \in Queued(s, Q) <=> (x \in Q \/ x = t \/ \E i \in 1..Len(L) : x = L[i])
    BY DEF Queued
  <2>5. \A x \in GfxTasks : x \in Queued(r, Q) <=> x \in Queued(s, Q)
    BY <2>1, <2>3, <2>4
  <2>6. Queued(r, Q) \subseteq GfxTasks /\ Queued(s, Q) \subseteq GfxTasks
    BY DEF Queued
  <2> QED
    BY <2>5, <2>6
<1>14. Outstanding(r, Q) = Outstanding(s, Q)
  BY <1>7, <1>13 DEF Outstanding
<1>15. Undrawn(r, Q) = Undrawn(s, Q)
  BY <1>10, <1>11, <1>14 DEF Undrawn
<1>16. Ordered(r, Q, e)
  <2>1. ASSUME NEW i \in 1..Len(P), NEW j \in 1..Len(P), i < j
        PROVE  Rank(e, P[i]) < Rank(e, P[j])
    <3>1. j - 1 \in 1..Len(L) /\ P[j] = L[j - 1]
      BY <1>3, <1>4, <2>1
    <3>2. CASE i = 1
      BY <1>4, <1>12, <3>1, <3>2
    <3>3. CASE i # 1
      <4>1. i - 1 \in 1..Len(L) /\ P[i] = L[i - 1] /\ i - 1 < j - 1
        BY <1>3, <1>4, <2>1, <3>3
      <4> QED
        BY <1>1, <3>1, <4>1 DEF Ordered
    <3> QED
      BY <3>2, <3>3
  <2>2. \A i \in 1..Len(P), x \in Q \cap GfxTasks : Rank(e, P[i]) < Rank(e, x)
    BY <1>1, <1>2, <1>4 DEF Ordered
  <2> QED
    BY <1>1, <1>7, <1>9, <1>13, <1>14, <2>1, <2>2 DEF Ordered
<1>17. States(r)
  <2>1. r.state[Audio] = s.state[Audio]
    BY <1>2, <1>8, Names
  <2>2. r.curRDP \in GfxTasks => "rdp" \in r.state[r.curRDP]
    BY <1>1, <1>7, <1>11, Names DEF States
  <2>3. Halted \subseteq r.state[t] /\ r.curRDP = (IF "rdp" \in r.state[t] THEN t ELSE NoTask)
    BY <1>2, <1>7, <1>8, <1>12 DEF Halted
  <2>4. \A i \in 1..Len(L) : r.state[L[i]] = Fresh /\ L[i] # r.curRDP
    BY <1>3, <1>7, <1>8, <1>12, Names
  <2>5. ASSUME NEW i \in 1..Len(P), i # 1 PROVE r.state[P[i]] = Fresh /\ P[i] # r.curRDP
    BY SMTT(30), <1>4, <2>4, <2>5
  <2> QED
    BY <1>1, <1>4, <1>7, <1>9, <2>1, <2>2, <2>3, <2>5 DEF States
<1>18. Sound(r, Q, au) /\ Running(r)
  BY <1>1, <1>2, <1>7, <1>9 DEF Sound, Running
<1> QED
  BY <1>7, <1>13, <1>14, <1>15, <1>16, <1>17, <1>18 DEF SchedInv, Works

(* __scHandleRSP                                                           *)
LEMMA HandleRSPKeeps ==
  ASSUME NEW s \in ScType, NEW Q \in SUBSET Tasks, NEW au, NEW v, engine \in EngineType,
         SchedInv(s, Q, engine, au), SpDue(s)
  PROVE  LET r == HandleRSP(s, v)
         IN  /\ r \in ScType /\ SchedInv(r, Q, engine, au) /\ Works(s, Q, r, Q, engine)
             /\ ~SpDue(r) /\ DpDue(r) = DpDue(s)
             /\ r.curRDP = s.curRDP \/ TaskReady(r.curRDP, v)
             /\ r.rdp = s.rdp \/ TaskReady(r.rdp, v)
<1> DEFINE t == s.curRSP
           x == IF "yield" \in s.state[t] /\ s.sig1 THEN YieldedTask(s, t) ELSE CompletedTask(s, t)
           r == Dispatch(x, v)
<1>1. /\ x \in ScType /\ SchedInv(x, Q, engine, au) /\ Works(s, Q, x, Q, engine)
      /\ x.curRSP = NoTask /\ x.rsp = NoTask /\ x.curRDP = s.curRDP /\ x.rdp = s.rdp
  <2>1. CASE "yield" \in s.state[t] /\ s.sig1
    BY <2>1, YieldedKeeps
  <2>2. CASE ~("yield" \in s.state[t] /\ s.sig1)
    BY <2>2, CompletedKeeps
  <2> QED
    BY <2>1, <2>2
<1>2. ~SpDue(x) /\ DpDue(x) = DpDue(s)
  BY <1>1 DEF SpDue, DpDue
<1>3. HandleRSP(s, v) = r
  BY DEF HandleRSP
<1> HIDE DEF x
<1>4. /\ r \in ScType /\ SchedInv(r, Q, engine, au) /\ SameWork(x, Q, r, Q)
      /\ r.curRDP = x.curRDP \/ TaskReady(r.curRDP, v)
      /\ r.rdp = x.rdp \/ TaskReady(r.rdp, v)
  BY <1>1, DispatchKeeps
<1> HIDE DEF r
<1>5. Works(s, Q, r, Q, engine)
  BY <1>1, <1>4, WorksThenSame DEF SameWork
<1>6. ~SpDue(r) /\ DpDue(r) = DpDue(s)
  BY <1>2, <1>4 DEF SameWork, SameTasks
<1> QED
  BY <1>1, <1>3, <1>4, <1>5, <1>6

(* A yielded task that only the RSP has to finish is finished without      *)
(* running again.                                                          *)
LEMMA FinishYieldedKeeps ==
  ASSUME NEW s \in ScType, NEW Q \in SUBSET Tasks, NEW au, NEW v, engine \in EngineType,
         SchedInv(s, Q, engine, au)
  PROVE  LET r == FinishYielded(s, v)
         IN  /\ r \in ScType /\ SchedInv(r, Q, engine, au) /\ Works(s, Q, r, Q, engine)
             /\ SpDue(r) = SpDue(s) /\ DpDue(r) = DpDue(s)
             /\ r.curRDP = s.curRDP \/ TaskReady(r.curRDP, v)
             /\ r.rdp = s.rdp \/ TaskReady(r.rdp, v)
<1> DEFINE L == s.gfxList
           n == Len(L)
           t == L[1]
           M == Tail(L)
           e == engine
           x == [s EXCEPT !.state[t] = {"rsp"}, !.curRSP = t, !.gfxList = Tail(@)]
           cond == /\ s.curRSP = NoTask /\ s.curRDP = NoTask
                   /\ s.gfxList # <<>>
                   /\ s.state[Head(s.gfxList)] = {"rsp", "yield", "yielded"}
<1>1. CASE ~cond
  <2>1. FinishYielded(s, v) = s
    BY <1>1 DEF FinishYielded
  <2> QED
    BY <2>1 DEF Works
<1>2. CASE cond
  <2>1. /\ n \in Nat /\ n >= 1 /\ Head(L) = t /\ t \in GfxTasks /\ M \in Seq(GfxTasks) /\ Len(M) = n - 1
        /\ \A i \in 1..Len(M) : i + 1 \in 1..n /\ M[i] = L[i + 1]
        /\ \A i \in 1..n : i = 1 \/ (i - 1 \in 1..Len(M) /\ L[i] = M[i - 1])
        /\ 1 \in 1..n /\ \A i \in 1..n : L[i] \in GfxTasks
    BY <1>2, HeadAndTail, ScFields
  <2>2. FinishYielded(s, v) = HandleRSP(x, v)
    BY <1>2, <2>1 DEF FinishYielded
  <2>3. s.curRSP = NoTask /\ s.curRDP = NoTask /\ s.state[t] = {"rsp", "yield", "yielded"}
    BY <1>2, <2>1
  <2>4. Ordered(s, Q, e) /\ States(s) /\ Sound(s, Q, au) /\ Running(s)
    BY DEF SchedInv
  <2> HIDE DEF cond, M
  <2>5. t \in Tasks /\ t # Audio /\ t # NoTask /\ s.state \in [Tasks -> SUBSET Marks]
    BY <2>1, ScFields, Names
  <2>6. /\ x \in ScType
        /\ x.curRSP = t /\ x.state = [s.state EXCEPT ![t] = {"rsp"}]
        /\ x.gfxList = M /\ x.audioList = s.audioList /\ x.doAudio = s.doAudio
        /\ x.rsp = s.rsp /\ x.curRDP = s.curRDP /\ x.rdp = s.rdp
        /\ x.audioReply = s.audioReply /\ x.gfxMsgQ = s.gfxMsgQ
    <3>1. [s.state EXCEPT ![t] = {"rsp"}] \in [Tasks -> SUBSET Marks] /\ t \in Tasks \cup {NoTask}
      BY <2>5 DEF Marks
    <3> HIDE DEF t
    <3> QED
      BY <2>1, <3>1 DEF ScType, M
  <2> HIDE DEF x, t
  <2>7. \A y \in Tasks : x.state[y] = IF y = t THEN {"rsp"} ELSE s.state[y]
    BY <2>5, <2>6
  <2>8. \A i \in 1..Len(M) : /\ Rank(e, t) < Rank(e, M[i]) /\ M[i] \in GfxTasks /\ M[i] # t
                             /\ s.state[M[i]] = Fresh
    <3> TAKE i \in 1..Len(M)
    <3>1. i + 1 \in 1..n /\ M[i] = L[i + 1] /\ 1 < i + 1 /\ 1 \in 1..n /\ t = L[1]
      BY <2>1 DEF t
    <3>2. Rank(e, t) < Rank(e, M[i])
      BY <2>4, <3>1 DEF Ordered
    <3>3. M[i] \in GfxTasks /\ s.state[M[i]] = Fresh
      BY <2>1, <2>4, <3>1 DEF States
    <3>4. Rank(e, t) \in Int
      BY <2>1, EngineFields, Ranks
    <3> QED
      BY <3>2, <3>3, <3>4
  <2>9. Queued(x, Q) = Queued(s, Q)
    <3>1. \A y : (\E i \in 1..n : y = L[i]) <=> (y = t \/ \E i \in 1..Len(M) : y = M[i])
      BY SMTT(30), <2>1 DEF t
    <3>2. \A y \in GfxTasks : y # s.curRSP
      BY <2>3, Names
    <3>3. \A y \in GfxTasks :
            y \in Queued(x, Q) <=> (y \in Q \/ y = t \/ \E i \in 1..Len(M) : y = M[i])
      BY <2>6 DEF Queued
    <3>4. \A y \in GfxTasks : y \in Queued(s, Q) <=> (y \in Q \/ \E i \in 1..n : y = L[i])
      BY <3>2 DEF Queued
    <3>5. Queued(x, Q) \subseteq GfxTasks /\ Queued(s, Q) \subseteq GfxTasks
      BY DEF Queued
    <3> QED
      BY <3>1, <3>3, <3>4, <3>5
  <2>10. Outstanding(x, Q) = Outstanding(s, Q)
    BY <2>6, <2>9 DEF Outstanding
  <2>11. Undrawn(x, Q) = Undrawn(s, Q)
    <3>1. \A y \in Outstanding(s, Q) : y \in Tasks
      BY Names DEF Queued, Outstanding
    <3>2. \A y \in Tasks : "rdp" \in x.state[y] <=> "rdp" \in s.state[y]
      BY <2>3, <2>7
    <3> QED
      BY <2>10, <3>1, <3>2 DEF Undrawn
  <2>12. Ordered(x, Q, e)
    <3>1. ASSUME NEW i \in 1..Len(M), NEW j \in 1..Len(M), i < j
          PROVE  Rank(e, M[i]) < Rank(e, M[j])
      <4>1. i + 1 \in 1..n /\ j + 1 \in 1..n /\ M[i] = L[i + 1] /\ M[j] = L[j + 1] /\ i + 1 < j + 1
        BY <2>1, <3>1
      <4> QED
        BY <2>4, <4>1 DEF Ordered
    <3>2. \A i \in 1..Len(M) : /\ Rank(e, t) < Rank(e, M[i])
                               /\ \A y \in Q \cap GfxTasks : Rank(e, M[i]) < Rank(e, y)
      BY <2>1, <2>4, <2>8 DEF Ordered
    <3>3. \A y \in Q \cap GfxTasks :
            /\ Rank(e, t) < Rank(e, y) /\ y # x.curRDP
            /\ \A u \in Q \cap GfxTasks : y = u
      BY <2>1, <2>4, <2>6 DEF Ordered, t
    <3>4. x.curRDP \notin GfxTasks
      BY <2>3, <2>6, Names
    <3> QED
      BY <2>4, <2>6, <2>9, <2>10, <3>1, <3>2, <3>3, <3>4 DEF Ordered
  <2>13. States(x)
    <3>1. x.state[Audio] = s.state[Audio] /\ x.state[t] = {"rsp"}
      BY <2>5, <2>7, Names
    <3>2. \A i \in 1..Len(M) : x.state[M[i]] = Fresh /\ M[i] # x.curRDP
      BY <2>3, <2>6, <2>7, <2>8, Names
    <3>3. x.curRDP \notin GfxTasks /\ x.curRDP = NoTask
      BY <2>3, <2>6, Names
    <3> QED
      BY <2>4, <2>6, <3>1, <3>2, <3>3 DEF States
  <2>14. Sound(x, Q, au) /\ Running(x) /\ SpDue(x) /\ DpDue(x) = DpDue(s) /\ ~SpDue(s)
    BY <2>3, <2>4, <2>5, <2>6 DEF Sound, Running, SpDue, DpDue
  <2>15. SchedInv(x, Q, e, au) /\ SameTasks(s, Q, x, Q)
    BY <2>4, <2>6, <2>9, <2>10, <2>11, <2>12, <2>13, <2>14 DEF SchedInv, SameTasks
  <2> DEFINE r == HandleRSP(x, v)
  <2>16. /\ r \in ScType /\ SchedInv(r, Q, e, au) /\ Works(x, Q, r, Q, e)
         /\ ~SpDue(r) /\ DpDue(r) = DpDue(x)
         /\ r.curRDP = x.curRDP \/ TaskReady(r.curRDP, v)
         /\ r.rdp = x.rdp \/ TaskReady(r.rdp, v)
    BY <2>6, <2>14, <2>15, HandleRSPKeeps
  <2> HIDE DEF r
  <2>17. Works(s, Q, r, Q, e)
    BY <2>15, <2>16, SameThenWorks
  <2>18. SpDue(r) = SpDue(s) /\ DpDue(r) = DpDue(s)
    <3>1. SpDue(r) = FALSE /\ SpDue(s) = FALSE
      BY <2>14, <2>16 DEF SpDue
    <3> QED
      BY <2>14, <2>16, <3>1
  <2> QED
    BY <2>2, <2>6, <2>16, <2>17, <2>18 DEF r
<1> QED
  BY <1>1, <1>2

LEMMA YieldOrDispatchKeeps ==
  ASSUME NEW s \in ScType, NEW Q \in SUBSET Tasks, NEW e \in EngineType, NEW au, NEW v,
         SchedInv(s, Q, e, au)
  PROVE  LET r == YieldOrDispatch(s, v)
         IN  /\ r \in ScType /\ SchedInv(r, Q, e, au) /\ SameWork(s, Q, r, Q)
             /\ r.curRDP = s.curRDP \/ TaskReady(r.curRDP, v)
             /\ r.rdp = s.rdp \/ TaskReady(r.rdp, v)
<1>1. CASE s.doAudio /\ s.curRSP # NoTask
  BY <1>1, YieldKeeps DEF YieldOrDispatch
<1>2. CASE ~(s.doAudio /\ s.curRSP # NoTask)
  BY <1>2, DispatchKeeps DEF YieldOrDispatch
<1> QED
  BY <1>1, <1>2

(* The RDP's task is drawn.                                                *)
LEMMA RDPLeaves ==
  ASSUME NEW s \in ScType, NEW Q \in SUBSET Tasks, NEW e \in EngineType, NEW au,
         SchedInv(s, Q, e, au), DpDue(s)
  PROVE  LET r == [s EXCEPT !.state[s.curRDP] = @ \ {"rdp"}, !.curRDP = NoTask]
         IN  /\ r \in ScType /\ SchedInv(r, Q, e, au)
             /\ Queued(r, Q) = Queued(s, Q) /\ r.gfxMsgQ = s.gfxMsgQ
             /\ Outstanding(r, Q) = Queued(s, Q)
             /\ Undrawn(r, Q) = Undrawn(s, Q) \ {s.curRDP}
             /\ SpDue(r) = SpDue(s) /\ ~DpDue(r) /\ r.curRDP = NoTask /\ r.rdp = NoTask
<1> DEFINE t == s.curRDP
           r == [s EXCEPT !.state[t] = @ \ {"rdp"}, !.curRDP = NoTask]
           L == s.gfxList
<1>1. Ordered(s, Q, e) /\ States(s) /\ Sound(s, Q, au) /\ Running(s)
  BY DEF SchedInv
<1>2. t # NoTask /\ s.rdp = NoTask /\ t \in GfxTasks /\ t \in Tasks /\ t # Audio
  BY ScFields, Names DEF DpDue
<1>3. s.state \in [Tasks -> SUBSET Marks] /\ L \in Seq(GfxTasks) /\ Len(L) \in Nat
      /\ (\A i \in 1..Len(L) : L[i] \in GfxTasks) /\ s.curRSP \in Tasks \cup {NoTask}
  BY ScFields
<1>4. /\ r \in ScType
      /\ r.curRDP = NoTask /\ r.state = [s.state EXCEPT ![t] = @ \ {"rdp"}]
      /\ r.gfxList = L /\ r.audioList = s.audioList /\ r.doAudio = s.doAudio
      /\ r.rsp = s.rsp /\ r.curRSP = s.curRSP /\ r.rdp = s.rdp
      /\ r.audioReply = s.audioReply /\ r.gfxMsgQ = s.gfxMsgQ
  <2>1. [s.state EXCEPT ![t] = @ \ {"rdp"}] \in [Tasks -> SUBSET Marks]
        /\ NoTask \in GfxTasks \cup {NoTask}
    BY <1>2, <1>3
  <2> HIDE DEF t
  <2> QED
    BY <2>1 DEF ScType
<1> SUFFICES /\ SchedInv(r, Q, e, au)
             /\ Queued(r, Q) = Queued(s, Q)
             /\ Outstanding(r, Q) = Queued(s, Q)
             /\ Undrawn(r, Q) = Undrawn(s, Q) \ {t}
             /\ SpDue(r) = SpDue(s) /\ ~DpDue(r)
  BY <1>2, <1>4
<1> HIDE DEF r
<1>5. \A x \in Tasks : r.state[x] = IF x = t THEN s.state[t] \ {"rdp"} ELSE s.state[x]
  BY <1>2, <1>3, <1>4
<1>6. r.curRDP \notin GfxTasks
  BY <1>4, Names
<1>7. Queued(r, Q) = Queued(s, Q)
  BY <1>4 DEF Queued
<1>8. Outstanding(r, Q) = Queued(s, Q)
  BY <1>6, <1>7 DEF Outstanding
<1>9. t \notin Q
  BY <1>1, <1>2 DEF Ordered
<1>10. Undrawn(r, Q) = Undrawn(s, Q) \ {t}
  <2>1. \A x \in GfxTasks : x \in Tasks
    BY Names
  <2>2. \A x \in GfxTasks : "rdp" \in r.state[x] <=> (x # t /\ "rdp" \in s.state[x])
    BY <1>5, <2>1
  <2>3. \A x \in GfxTasks : x # t => (x \in Outstanding(s, Q) <=> x \in Queued(s, Q))
    BY DEF Outstanding
  <2>4. Outstanding(s, Q) \subseteq GfxTasks /\ Queued(s, Q) \subseteq GfxTasks
    BY DEF Outstanding, Queued
  <2> QED
    BY <1>8, <1>9, <2>2, <2>3, <2>4 DEF Undrawn
<1>11. Ordered(r, Q, e)
  <2>1. Outstanding(r, Q) \subseteq Outstanding(s, Q)
    BY <1>8 DEF Outstanding
  <2>2. \A x \in Q \cap GfxTasks : x # r.curRDP
    BY <1>6
  <2> QED
    BY <1>1, <1>4, <1>6, <1>7, <2>1, <2>2 DEF Ordered
<1>12. States(r)
  <2>1. r.state[Audio] = s.state[Audio]
    BY <1>2, <1>5, Names
  <2>2. s.curRSP \in GfxTasks => s.curRSP = t
    BY <1>1, <1>2 DEF States
  <2>3. r.curRSP \in GfxTasks =>
          "rsp" \in r.state[t] /\ "yielded" \notin r.state[t] /\ "rdp" \notin r.state[t] /\ r.curRSP = t
    BY <1>1, <1>2, <1>4, <1>5, <2>2 DEF States
  <2>4. ASSUME NEW i \in 1..Len(L)
        PROVE  \/ r.state[L[i]] = Fresh /\ L[i] # r.curRDP
               \/ /\ i = 1 /\ r.curRSP \notin GfxTasks
                  /\ Halted \subseteq r.state[L[i]]
                  /\ r.curRDP = (IF "rdp" \in r.state[L[i]] THEN L[i] ELSE NoTask)
    <3>1. L[i] \in GfxTasks /\ L[i] \in Tasks /\ L[i] # NoTask
      BY <1>3, <2>4, Names
    <3>2. \/ s.state[L[i]] = Fresh /\ L[i] # t
          \/ /\ i = 1 /\ s.curRSP \notin GfxTasks
             /\ Halted \subseteq s.state[L[i]]
             /\ t = (IF "rdp" \in s.state[L[i]] THEN L[i] ELSE NoTask)
      BY <1>1, <2>4 DEF States
    <3>3. CASE s.state[L[i]] = Fresh /\ L[i] # t
      BY <1>4, <1>5, <3>1, <3>3
    <3>4. CASE /\ i = 1 /\ s.curRSP \notin GfxTasks
               /\ Halted \subseteq s.state[L[i]]
               /\ t = (IF "rdp" \in s.state[L[i]] THEN L[i] ELSE NoTask)
      <4>1. t = L[i]
        BY <1>2, <3>4
      <4>2. r.state[L[i]] = s.state[L[i]] \ {"rdp"}
        BY <1>5, <3>1, <4>1
      <4> QED
        BY <1>4, <3>4, <4>2 DEF Halted
    <3> QED
      BY <3>2, <3>3, <3>4
  <2> QED
    BY <1>1, <1>4, <1>6, <2>1, <2>3, <2>4 DEF States
<1>13. Sound(r, Q, au) /\ Running(r) /\ SpDue(r) = SpDue(s) /\ ~DpDue(r)
  BY <1>1, <1>2, <1>4 DEF Sound, Running, SpDue, DpDue
<1> QED
  BY <1>7, <1>8, <1>10, <1>11, <1>12, <1>13 DEF SchedInv

(* What the invariant does not look at: the processors and the replies.    *)
LEMMA Unaffected ==
  ASSUME NEW s, NEW r, NEW Q, NEW e, NEW au,
         SchedInv(s, Q, e, au), Running(r),
         r.gfxList = s.gfxList, r.audioList = s.audioList, r.doAudio = s.doAudio,
         r.curRSP = s.curRSP, r.curRDP = s.curRDP, r.state = s.state, r.audioReply = s.audioReply
  PROVE  /\ SchedInv(r, Q, e, au)
         /\ Queued(r, Q) = Queued(s, Q) /\ Outstanding(r, Q) = Outstanding(s, Q)
         /\ Undrawn(r, Q) = Undrawn(s, Q)
<1>1. Queued(r, Q) = Queued(s, Q)
  BY DEF Queued
<1>2. Outstanding(r, Q) = Outstanding(s, Q)
  BY <1>1 DEF Outstanding
<1>3. Undrawn(r, Q) = Undrawn(s, Q)
  BY <1>2 DEF Undrawn
<1>4. Ordered(r, Q, e)
  BY <1>1, <1>2 DEF SchedInv, Ordered
<1>5. States(r)
  BY DEF SchedInv, States
<1>6. Sound(r, Q, au)
  BY DEF SchedInv, Sound
<1> QED
  BY <1>1, <1>2, <1>3, <1>4, <1>5, <1>6 DEF SchedInv

LEMMA TellEngineFields ==
  ASSUME NEW s \in ScType
  PROVE  LET r == TellEngine(s)
         IN  /\ r \in ScType
             /\ r.gfxList = s.gfxList /\ r.audioList = s.audioList /\ r.doAudio = s.doAudio
             /\ r.curRSP = s.curRSP /\ r.curRDP = s.curRDP /\ r.state = s.state
             /\ r.audioReply = s.audioReply /\ r.rsp = s.rsp /\ r.rdp = s.rdp
             /\ r.gfxMsgQ = s.gfxMsgQ \/ r.gfxMsgQ = Append(s.gfxMsgQ, RetraceMsg)
<1> DEFINE r == TellEngine(s)
<1>1. PICK q : r = [s EXCEPT !.gfxMsgQ = q] /\ (q = s.gfxMsgQ \/ q = Append(s.gfxMsgQ, RetraceMsg))
  BY DEF TellEngine
<1>2. q \in Seq(Messages)
  <2>1. RetraceMsg \in Messages /\ s.gfxMsgQ \in Seq(Messages)
    BY ScFields DEF Messages
  <2> QED
    BY <1>1, <2>1
<1> HIDE DEF r
<1>3. /\ r \in ScType
      /\ r.gfxList = s.gfxList /\ r.audioList = s.audioList /\ r.doAudio = s.doAudio
      /\ r.curRSP = s.curRSP /\ r.curRDP = s.curRDP /\ r.state = s.state
      /\ r.audioReply = s.audioReply /\ r.rsp = s.rsp /\ r.rdp = s.rdp
      /\ r.gfxMsgQ = q
  BY <1>1, <1>2 DEF ScType
<1> QED
  BY <1>1, <1>3 DEF r

-----------------------------------------------------------------------------
(* Counting events and messages.                                           *)

\* The places of sequence q that hold one of E.
Spots(q, E) == {i \in 1 .. Len(q) : q[i] \in E}

LEMMA SpotsFinite ==
  ASSUME NEW S, NEW q \in Seq(S), NEW E
  PROVE  IsFiniteSet(Spots(q, E)) /\ Cardinality(Spots(q, E)) \in Nat
<1>1. Len(q) \in Nat /\ Spots(q, E) \in SUBSET (1 .. Len(q))
  BY DEF Spots
<1>2. IsFiniteSet(1 .. Len(q))
  BY <1>1, FS_Interval
<1>3. IsFiniteSet(Spots(q, E))
  BY <1>1, <1>2, FS_Subset
<1> QED
  BY <1>3, FS_CardinalityType

LEMMA SpotsAppend ==
  ASSUME NEW S, NEW q \in Seq(S), NEW e \in S, NEW E
  PROVE  Cardinality(Spots(Append(q, e), E)) =
           Cardinality(Spots(q, E)) + (IF e \in E THEN 1 ELSE 0)
<1> DEFINE r == Append(q, e)
           n == Len(q)
<1>1. /\ r \in Seq(S) /\ n \in Nat /\ Len(r) = n + 1 /\ r[n + 1] = e
      /\ \A i \in 1 .. n : r[i] = q[i]
  OBVIOUS
<1>2. IsFiniteSet(Spots(q, E)) /\ Cardinality(Spots(q, E)) \in Nat
  BY SpotsFinite
<1> HIDE DEF r
<1>3. Spots(r, E) = IF e \in E THEN Spots(q, E) \cup {n + 1} ELSE Spots(q, E)
  BY <1>1 DEF Spots
<1>4. n + 1 \notin Spots(q, E)
  BY <1>1 DEF Spots
<1>5. Cardinality(Spots(q, E) \cup {n + 1}) = Cardinality(Spots(q, E)) + 1
  BY <1>2, <1>4, FS_AddElement
<1> QED
  BY <1>2, <1>3, <1>5 DEF r

\* Places shifted by one are as many.
LEMMA SpotsShift ==
  ASSUME NEW A \in SUBSET Int, IsFiniteSet(A)
  PROVE  IsFiniteSet({i + 1 : i \in A}) /\ Cardinality({i + 1 : i \in A}) = Cardinality(A)
<1> DEFINE B == {i + 1 : i \in A}
           f == [i \in A |-> i + 1]
<1>1. f \in Bijection(A, B)
  <2>1. f \in [A -> B] /\ \A b \in B : \E i \in A : f[i] = b
    OBVIOUS
  <2>2. \A i, j \in A : f[i] = f[j] => i = j
    OBVIOUS
  <2> QED
    BY <2>1, <2>2 DEF Bijection, Injection, Surjection, IsInjective
<1>2. ExistsBijection(A, B)
  BY <1>1 DEF ExistsBijection
<1> QED
  BY <1>2, FS_Bijection

LEMMA SpotsTail ==
  ASSUME NEW S, NEW q \in Seq(S), q # <<>>, NEW E
  PROVE  Cardinality(Spots(q, E)) =
           Cardinality(Spots(Tail(q), E)) + (IF Head(q) \in E THEN 1 ELSE 0)
<1> DEFINE r == Tail(q)
           e == Head(q)
           A == Spots(r, E)
           B == {i + 1 : i \in A}
<1>1. /\ r \in Seq(S) /\ Len(q) \in Nat /\ Len(q) >= 1 /\ Len(r) = Len(q) - 1 /\ q[1] = e
      /\ \A i \in 1 .. Len(q) - 1 : r[i] = q[i + 1]
  OBVIOUS
<1>2. IsFiniteSet(A) /\ Cardinality(A) \in Nat
  BY <1>1, SpotsFinite
<1> HIDE DEF r, e
<1>3. A \in SUBSET Int
  BY DEF Spots
<1>4. IsFiniteSet(B) /\ Cardinality(B) = Cardinality(A)
  BY <1>2, <1>3, SpotsShift
<1>5. Spots(q, E) = IF e \in E THEN B \cup {1} ELSE B
  <2>1. ASSUME NEW i \in Spots(q, E), i # 1 PROVE i \in B
    <3>1. i - 1 \in 1 .. Len(r) /\ r[i - 1] = q[(i - 1) + 1] /\ (i - 1) + 1 = i /\ q[i] \in E
      BY <1>1, <2>1 DEF Spots
    <3>2. i - 1 \in A
      BY <3>1 DEF Spots
    <3> QED
      BY <3>1, <3>2
  <2>2. ASSUME NEW i \in A PROVE i + 1 \in Spots(q, E) /\ i + 1 # 1
    BY <1>1 DEF Spots
  <2>3. 1 \in Spots(q, E) <=> e \in E
    BY <1>1 DEF Spots
  <2> QED
    BY <2>1, <2>2, <2>3
<1>6. 1 \notin B
  BY <1>3 DEF Spots
<1>7. Cardinality(B \cup {1}) = Cardinality(B) + 1
  BY <1>4, <1>6, FS_AddElement
<1> QED
  BY <1>2, <1>4, <1>5, <1>7 DEF r, e

LEMMA CountIsSpots ==
  ASSUME NEW S, NEW q \in Seq(S), NEW x
  PROVE  Count(q, x) = Cardinality(Spots(q, {x})) /\ Count(q, x) \in Nat
<1>1. DOMAIN q = 1..Len(q)
  OBVIOUS
<1>2. {i \in DOMAIN q : q[i] = x} = Spots(q, {x})
  BY <1>1 DEF Spots
<1> QED
  BY <1>2, SpotsFinite DEF Count

LEMMA CountMoves ==
  ASSUME NEW S, NEW q \in Seq(S), NEW y \in S, NEW x
  PROVE  /\ Count(q, x) \in Nat
         /\ Count(Append(q, y), x) = Count(q, x) + (IF y = x THEN 1 ELSE 0)
         /\ q # <<>> => Count(q, x) = Count(Tail(q), x) + (IF Head(q) = x THEN 1 ELSE 0)
<1>1. Append(q, y) \in Seq(S)
  OBVIOUS
<1>2. /\ Count(q, x) = Cardinality(Spots(q, {x})) /\ Count(q, x) \in Nat
      /\ Count(Append(q, y), x) = Cardinality(Spots(Append(q, y), {x}))
  BY <1>1, CountIsSpots
<1>3. Cardinality(Spots(Append(q, y), {x})) = Cardinality(Spots(q, {x})) + (IF y \in {x} THEN 1 ELSE 0)
  BY SpotsAppend
<1>4. ASSUME q # <<>>
      PROVE  Count(q, x) = Count(Tail(q), x) + (IF Head(q) = x THEN 1 ELSE 0)
  <2>1. Tail(q) \in Seq(S)
    BY <1>4
  <2>2. Count(Tail(q), x) = Cardinality(Spots(Tail(q), {x}))
    BY <2>1, CountIsSpots
  <2>3. Cardinality(Spots(q, {x})) = Cardinality(Spots(Tail(q), {x})) + (IF Head(q) \in {x} THEN 1 ELSE 0)
    BY <1>4, SpotsTail
  <2> QED
    BY <1>2, <2>2, <2>3
<1> QED
  BY <1>2, <1>3, <1>4

DoneMsgs == {DoneMsg(slot) : slot \in Slots}

LEMMA MessageTypes ==
  /\ \A m \in Messages : m.type = 2 <=> m \in DoneMsgs
  /\ RetraceMsg \in Messages /\ RetraceMsg \notin DoneMsgs /\ DoneMsgs \subseteq Messages
  /\ \A m \in Messages : m.type \in {1, 2}
<1>1. RetraceMsg.type = 1 /\ \A slot \in Slots : DoneMsg(slot).type = 2
  BY DEF RetraceMsg, DoneMsg
<1> QED
  BY <1>1 DEF Messages, DoneMsgs

LEMMA DoneMoves ==
  ASSUME NEW s \in ScType
  PROVE  /\ Done(s) \in Nat
         /\ \A r, m : m \in Messages /\ r.gfxMsgQ = Append(s.gfxMsgQ, m)
                         => Done(r) = Done(s) + (IF m.type = 2 THEN 1 ELSE 0)
         /\ \A r : s.gfxMsgQ # <<>> /\ r.gfxMsgQ = Tail(s.gfxMsgQ)
                         => Done(s) = Done(r) + (IF Head(s.gfxMsgQ).type = 2 THEN 1 ELSE 0)
         /\ \A r : r.gfxMsgQ = s.gfxMsgQ => Done(r) = Done(s)
<1> DEFINE g == s.gfxMsgQ
           D(q) == Cardinality({i \in DOMAIN q : q[i].type = 2})
<1>1. g \in Seq(Messages)
  BY ScFields
<1>2. ASSUME NEW q \in Seq(Messages)
      PROVE  D(q) = Cardinality(Spots(q, DoneMsgs)) /\ D(q) \in Nat
  <2>1. DOMAIN q = 1..Len(q) /\ \A i \in 1..Len(q) : q[i] \in Messages
    OBVIOUS
  <2>2. {i \in DOMAIN q : q[i].type = 2} = Spots(q, DoneMsgs)
    BY <2>1, MessageTypes DEF Spots
  <2> QED
    BY <2>2, SpotsFinite
<1>3. \A r : Done(r) = D(r.gfxMsgQ)
  BY DEF Done
<1>4. ASSUME NEW m \in Messages
      PROVE  D(Append(g, m)) = D(g) + (IF m.type = 2 THEN 1 ELSE 0)
  <2>1. Append(g, m) \in Seq(Messages)
    BY <1>1
  <2>2. Cardinality(Spots(Append(g, m), DoneMsgs)) = Cardinality(Spots(g, DoneMsgs))
                                                     + (IF m \in DoneMsgs THEN 1 ELSE 0)
    BY <1>1, SpotsAppend
  <2>3. D(Append(g, m)) = Cardinality(Spots(Append(g, m), DoneMsgs)) /\ D(g) = Cardinality(Spots(g, DoneMsgs))
    BY <1>1, <1>2, <2>1
  <2> HIDE DEF D
  <2> QED
    BY <2>2, <2>3, MessageTypes
<1>5. ASSUME g # <<>>
      PROVE  D(g) = D(Tail(g)) + (IF Head(g).type = 2 THEN 1 ELSE 0)
  <2>1. Tail(g) \in Seq(Messages) /\ Head(g) \in Messages
    BY <1>1, <1>5
  <2>2. Cardinality(Spots(g, DoneMsgs)) = Cardinality(Spots(Tail(g), DoneMsgs))
                                                     + (IF Head(g) \in DoneMsgs THEN 1 ELSE 0)
    BY <1>1, <1>5, SpotsTail
  <2>3. D(Tail(g)) = Cardinality(Spots(Tail(g), DoneMsgs)) /\ D(g) = Cardinality(Spots(g, DoneMsgs))
    BY <1>1, <1>2, <2>1
  <2> HIDE DEF D
  <2> QED
    BY <2>1, <2>2, <2>3, MessageTypes
<1>6. D(g) \in Nat
  BY <1>1, <1>2
<1> HIDE DEF D
<1> QED
  BY <1>3, <1>4, <1>5, <1>6

-----------------------------------------------------------------------------
(* The frames with the RSP, the tokens and the display lists.              *)

LEMMA FramesFinite ==
  ASSUME NEW F, F \subseteq Slots
  PROVE  IsFiniteSet(F) /\ Cardinality(F) \in Nat /\ Cardinality(F) <= 3
<1>1. IsFiniteSet(0..2) /\ Cardinality(0..2) = 3
  <2>1. 0 \in Int /\ 2 \in Int
    OBVIOUS
  <2>2. IsFiniteSet(0..2) /\ Cardinality(0..2) = IF 0 > 2 THEN 0 ELSE 2 - 0 + 1
    BY <2>1, FS_Interval
  <2> QED
    BY <2>2
<1>2. F \subseteq 0..2
  BY DEF Slots
<1>3. IsFiniteSet(F) /\ Cardinality(F) <= Cardinality(0..2)
  BY <1>1, <1>2, FS_Subset
<1> QED
  BY <1>1, <1>3, FS_CardinalityType

LEMMA HeldSlots ==
  ASSUME NEW s, NEW Q, NEW e, e.slot \in Slots
  PROVE  With(s, Q, e) \subseteq Slots /\ Built(e) \subseteq Slots
<1>1. With(s, Q, e) \subseteq Slots
  <2>1. \A t \in Queued(s, Q) : t \in GfxTasks
    BY DEF Queued
  <2> QED
    BY <2>1, GfxParts DEF With
<1> QED
  BY <1>1 DEF Built

LEMMA EachFrameOnce ==
  ASSUME NEW s, NEW Q, NEW e \in EngineType, Ordered(s, Q, e), NEW t \in Queued(s, Q), LastOf(e, t)
  PROVE  /\ FB(t) \notin Built(e)
         /\ \A u \in Queued(s, Q) : LastOf(e, u) /\ FB(u) = FB(t) => u = t
<1>1. \A u \in Queued(s, Q) : /\ u \in GfxTasks /\ Handed(e, u)
                              /\ FB(u) \in Slots /\ u[2] \in {0, 1} /\ u = GfxTask(FB(u), u[2])
  <2> TAKE u \in Queued(s, Q)
  <2>1. u \in GfxTasks /\ u \in Outstanding(s, Q)
    BY DEF Outstanding, Queued
  <2>2. Handed(e, u)
    BY <2>1 DEF Ordered
  <2> QED
    BY <2>1, <2>2, GfxParts
<1>2. ASSUME NEW u \in Queued(s, Q), LastOf(e, u), FB(u) = FB(t) PROVE u = t
  <2>1. e.lines[FB(t)] \in BOOLEAN
    BY <1>1, EngineFields
  <2>2. u[2] = t[2]
    BY <1>1, <1>2, <2>1 DEF LastOf, Handed
  <2> QED
    BY <1>1, <1>2, <2>2
<1>3. ASSUME FB(t) \in Built(e) PROVE FALSE
  <2>1. FB(t) = e.slot /\ e.slot \in Slots /\ e.pc # "recv"
    BY <1>3, EngineFields DEF Built
  <2>2. Rank(e, t) = 4 + t[2] /\ t[2] \in {0, 1}
    BY <1>1, <2>1, Ages DEF Rank
  <2>3. Rank(e, t) < PutRank(e)
    BY <1>1 DEF Handed
  <2>4. CASE e.pc = "draw"
    BY <2>2, <2>3, <2>4 DEF PutRank
  <2>5. CASE e.pc # "draw"
    <3>1. e.lines[e.slot] /\ e.pc \in {"kick0", "put1"}
      BY <1>3, <2>5 DEF Built
    <3>2. PutRank(e) = 5 /\ t[2] = 1
      BY <1>1, <2>1, <3>1 DEF PutRank, LastOf
    <3> QED
      BY <2>2, <2>3, <3>2
  <2> QED
    BY <2>4, <2>5
<1> QED
  BY <1>2, <1>3

LEMMA TokensKept ==
  ASSUME NEW s \in ScType, NEW Q, NEW r, NEW R, NEW e \in EngineType,
         Ordered(s, Q, e), Works(s, Q, r, R, e), Tokens(s, Q, e)
  PROVE  Tokens(r, R, e)
<1> DEFINE F == With(s, Q, e) \cup Built(e)
           G == With(r, R, e) \cup Built(e)
<1>1. e.slot \in Slots /\ e.tokens \in Nat
  BY EngineFields
<1>2. F \subseteq Slots /\ G \subseteq Slots
  BY <1>1, HeldSlots
<1>3. IsFiniteSet(F) /\ Cardinality(F) \in Nat
  BY <1>2, FramesFinite
<1>4. e.tokens + Cardinality(F) + Done(s) = 2 /\ Done(s) \in Nat
  BY DoneMoves DEF Tokens
<1>5. CASE Queued(r, R) = Queued(s, Q) /\ r.gfxMsgQ = s.gfxMsgQ
  <2>1. G = F
    BY <1>5 DEF With
  <2>2. Done(r) = Done(s)
    BY <1>5 DEF Done
  <2> QED
    BY <1>4, <2>1, <2>2 DEF Tokens
<1>6. ASSUME NEW t \in Queued(s, Q),
             Queued(r, R) = Queued(s, Q) \ {t},
             r.gfxMsgQ = (IF LastOf(e, t) THEN Append(s.gfxMsgQ, DoneMsg(FB(t))) ELSE s.gfxMsgQ)
      PROVE  Tokens(r, R, e)
  <2>1. t \in GfxTasks /\ FB(t) \in Slots
    BY GfxParts DEF Queued
  <2>2. CASE LastOf(e, t)
    <3>1. /\ FB(t) \notin Built(e)
          /\ \A u \in Queued(s, Q) : LastOf(e, u) /\ FB(u) = FB(t) => u = t
      BY <2>2, EachFrameOnce
    <3>2. With(r, R, e) = With(s, Q, e) \ {FB(t)} /\ FB(t) \in With(s, Q, e)
      BY <1>6, <2>2, <3>1 DEF With
    <3>3. G = F \ {FB(t)} /\ FB(t) \in F
      BY <3>1, <3>2
    <3>4. Cardinality(G) = Cardinality(F) - 1
      <4> HIDE DEF F, G
      <4>1. Cardinality(F \ {FB(t)}) = Cardinality(F) - 1
        BY <1>3, <3>3, FS_RemoveElement
      <4> QED
        BY <3>3, <4>1
    <3>5. DoneMsg(FB(t)) \in Messages /\ DoneMsg(FB(t)).type = 2
      BY <2>1 DEF Messages, DoneMsg
    <3>6. Done(r) = Done(s) + 1
      <4>1. r.gfxMsgQ = Append(s.gfxMsgQ, DoneMsg(FB(t)))
        BY <1>6, <2>2
      <4> QED
        BY <3>5, <4>1, DoneMoves
    <3> HIDE DEF F, G
    <3>7. e.tokens + Cardinality(G) + Done(r) = 2
      BY <1>1, <1>3, <1>4, <3>4, <3>6
    <3> QED
      BY <3>7 DEF Tokens, G
  <2>3. CASE ~LastOf(e, t)
    <3>1. With(r, R, e) = With(s, Q, e)
      BY <1>6, <2>3 DEF With
    <3>2. Done(r) = Done(s)
      BY <1>6, <2>3 DEF Done
    <3> QED
      BY <1>4, <3>1, <3>2 DEF Tokens
  <2> QED
    BY <2>2, <2>3
<1> QED
  BY <1>5, <1>6 DEF Works

LEMMA ListsKept ==
  ASSUME NEW s, NEW Q, NEW r, NEW R, NEW e, Queued(r, R) \subseteq Queued(s, Q), Lists(s, Q, e)
  PROVE  Lists(r, R, e)
<1>1. With(r, R, e) \subseteq With(s, Q, e)
  BY DEF With
<1> QED
  BY <1>1 DEF Lists

LEMMA WorksKeeps ==
  ASSUME NEW s \in ScType, NEW Q, NEW r, NEW R, NEW e \in EngineType,
         Ordered(s, Q, e), Works(s, Q, r, R, e), Tokens(s, Q, e), Lists(s, Q, e)
  PROVE  Tokens(r, R, e) /\ Lists(r, R, e)
<1>1. Queued(r, R) \subseteq Queued(s, Q)
  BY DEF Works
<1> QED
  BY <1>1, TokensKept, ListsKept

LEMMA SameIsWork ==
  ASSUME NEW s, NEW Q, NEW r, NEW R, NEW e, SameTasks(s, Q, r, R)
  PROVE  Works(s, Q, r, R, e)
  BY DEF SameTasks, Works

-----------------------------------------------------------------------------
(* The steps of the scheduler thread.                                      *)

LEMMA EmptyCounts ==
  ASSUME NEW x
  PROVE  Count(<<>>, x) = 0
<1>1. {i \in DOMAIN <<>> : <<>>[i] = x} = {}
  OBVIOUS
<1> QED
  BY <1>1, FS_EmptySet DEF Count

LEMMA Taken ==
  ASSUME TasksTypes, NEW ev \in EventNames, Take(ev)
  PROVE  /\ interruptQ' \in Seq(EventNames)
         /\ Len(interruptQ') = Len(interruptQ) - 1 /\ Len(interruptQ) \in Nat
         /\ \A x \in EventNames : /\ Count(interruptQ, x) \in Nat /\ Count(interruptQ', x) \in Nat
                                  /\ Count(interruptQ, x) = Count(interruptQ', x) + (IF x = ev THEN 1 ELSE 0)
<1>1. interruptQ \in Seq(EventNames) /\ interruptQ # <<>> /\ interruptQ' = Tail(interruptQ)
      /\ Head(interruptQ) = ev
  BY DEF TasksTypes, Take
<1>2. interruptQ' \in Seq(EventNames) /\ Len(interruptQ') = Len(interruptQ) - 1 /\ Len(interruptQ) \in Nat
  BY <1>1
<1>3. ASSUME NEW x \in EventNames
      PROVE  /\ Count(interruptQ, x) \in Nat /\ Count(interruptQ', x) \in Nat
             /\ Count(interruptQ, x) = Count(interruptQ', x) + (IF x = ev THEN 1 ELSE 0)
  <2>1. /\ Count(interruptQ, x) \in Nat
        /\ Count(interruptQ, x) = Count(Tail(interruptQ), x) + (IF Head(interruptQ) = x THEN 1 ELSE 0)
    BY <1>1, CountMoves
  <2>2. Count(Tail(interruptQ), x) \in Nat
    BY <1>1, <1>2, CountIsSpots
  <2>3. Count(interruptQ', x) = Count(Tail(interruptQ), x)
    BY <1>1
  <2> QED
    BY <1>1, <2>1, <2>2, <2>3
<1> QED
  BY <1>2, <1>3

LEMMA Posted ==
  ASSUME NEW q \in Seq(EventNames), NEW ev \in EventNames
  PROVE  /\ Append(q, ev) \in Seq(EventNames)
         /\ Len(Append(q, ev)) = Len(q) + 1 /\ Len(q) \in Nat
         /\ \A x \in EventNames : /\ Count(q, x) \in Nat /\ Count(Append(q, ev), x) \in Nat
                                  /\ Count(Append(q, ev), x) = Count(q, x) + (IF x = ev THEN 1 ELSE 0)
<1>1. Append(q, ev) \in Seq(EventNames) /\ Len(Append(q, ev)) = Len(q) + 1 /\ Len(q) \in Nat
  OBVIOUS
<1>2. ASSUME NEW x \in EventNames
      PROVE  /\ Count(q, x) \in Nat /\ Count(Append(q, ev), x) \in Nat
             /\ Count(Append(q, ev), x) = Count(q, x) + (IF x = ev THEN 1 ELSE 0)
  BY <1>1, CountMoves, CountIsSpots
<1> QED
  BY <1>1, <1>2

LEMMA BatchFacts ==
  /\ \A q \in Batches : Range(q) \in SUBSET Tasks
  /\ <<>> \in Batches /\ Range(<<>>) = {}
<1>1. ASSUME NEW q \in Batches PROVE Range(q) \in SUBSET Tasks
  <2>1. CASE q = <<>>
    BY <2>1 DEF Range
  <2>2. ASSUME NEW t \in Tasks, q = <<t>> PROVE Range(q) \in SUBSET Tasks
    BY <2>2 DEF Range
  <2>3. ASSUME NEW t \in GfxTasks, q = <<t, Audio>> PROVE Range(q) \in SUBSET Tasks
    <3>1. Range(q) = {t, Audio}
      BY <2>3 DEF Range
    <3> QED
      BY <3>1, Names
  <2> QED
    BY <2>1, <2>2, <2>3, Names DEF Batches
<1>2. Range(<<>>) = {}
  BY DEF Range
<1> QED
  BY <1>1, <1>2 DEF Batches

(* The client's retrace message changes nothing else.                      *)
LEMMA TellEngineKeeps ==
  ASSUME NEW s \in ScType, NEW Q, NEW au,
         SchedInv(s, Q, engine, au), Tokens(s, Q, engine), Lists(s, Q, engine)
  PROVE  LET r == TellEngine(s)
         IN  /\ r \in ScType /\ SchedInv(r, Q, engine, au)
             /\ Tokens(r, Q, engine) /\ Lists(r, Q, engine)
             /\ Outstanding(r, Q) = Outstanding(s, Q) /\ Undrawn(r, Q) = Undrawn(s, Q)
             /\ SpDue(r) = SpDue(s) /\ DpDue(r) = DpDue(s)
             /\ r.curRDP = s.curRDP /\ r.rdp = s.rdp
<1> DEFINE r == TellEngine(s)
<1>1. /\ r \in ScType
      /\ r.gfxList = s.gfxList /\ r.audioList = s.audioList /\ r.doAudio = s.doAudio
      /\ r.curRSP = s.curRSP /\ r.curRDP = s.curRDP /\ r.state = s.state
      /\ r.audioReply = s.audioReply /\ r.rsp = s.rsp /\ r.rdp = s.rdp
      /\ r.gfxMsgQ = s.gfxMsgQ \/ r.gfxMsgQ = Append(s.gfxMsgQ, RetraceMsg)
  BY TellEngineFields
<1> HIDE DEF r
<1>2. Running(r)
  BY <1>1 DEF SchedInv, Running
<1>3. /\ SchedInv(r, Q, engine, au) /\ Queued(r, Q) = Queued(s, Q)
      /\ Outstanding(r, Q) = Outstanding(s, Q) /\ Undrawn(r, Q) = Undrawn(s, Q)
  BY <1>1, <1>2, Unaffected
<1>4. Done(r) = Done(s)
  <2>1. RetraceMsg \in Messages /\ RetraceMsg.type # 2
    BY DEF Messages, RetraceMsg
  <2>2. Done(s) \in Nat
    BY DoneMoves
  <2>3. r.gfxMsgQ = Append(s.gfxMsgQ, RetraceMsg) => Done(r) = Done(s) + 0
    BY <2>1, DoneMoves
  <2>4. r.gfxMsgQ = s.gfxMsgQ => Done(r) = Done(s)
    BY DoneMoves
  <2> QED
    BY <1>1, <2>2, <2>3, <2>4
<1>5. With(r, Q, engine) = With(s, Q, engine)
  BY <1>3 DEF With
<1>6. Tokens(r, Q, engine) /\ Lists(r, Q, engine)
  BY <1>3, <1>4, <1>5 DEF Tokens, Lists
<1>7. SpDue(r) = SpDue(s) /\ DpDue(r) = DpDue(s)
  BY <1>1 DEF SpDue, DpDue
<1> QED
  BY <1>1, <1>3, <1>6, <1>7 DEF r

\* An event of a processor is in the queue exactly while it is due.
LEMMA EventIsDue ==
  ASSUME TasksTypes, EventsDue(sc, interruptQ), NEW ev \in EventNames, Take(ev)
  PROVE  /\ ev = "sp" => SpDue(sc)
         /\ ev = "dp" => DpDue(sc)
<1>1. /\ Count(interruptQ', ev) \in Nat /\ Count(interruptQ, ev) = Count(interruptQ', ev) + 1
  BY Taken
<1> QED
  BY <1>1 DEF EventsDue

LEMMA EventsAfter ==
  ASSUME TasksTypes, EventsDue(sc, interruptQ), NEW ev \in EventNames, Take(ev), NEW r,
         SpDue(r) <=> (SpDue(sc) /\ ev # "sp"), DpDue(r) <=> (DpDue(sc) /\ ev # "dp")
  PROVE  /\ EventsDue(r, interruptQ')
         /\ ev # "cmd" => Count(interruptQ', "cmd") = Count(interruptQ, "cmd")
<1>1. /\ Len(interruptQ') = Len(interruptQ) - 1 /\ Len(interruptQ) \in Nat
      /\ \A x \in EventNames : /\ Count(interruptQ, x) \in Nat /\ Count(interruptQ', x) \in Nat
                               /\ Count(interruptQ, x) = Count(interruptQ', x) + (IF x = ev THEN 1 ELSE 0)
  BY Taken
<1> DEFINE a(x) == Count(interruptQ, x)
           b(x) == Count(interruptQ', x)
<1>2. /\ a("sp") \in Nat /\ b("sp") \in Nat /\ a("sp") = b("sp") + (IF "sp" = ev THEN 1 ELSE 0)
      /\ a("dp") \in Nat /\ b("dp") \in Nat /\ a("dp") = b("dp") + (IF "dp" = ev THEN 1 ELSE 0)
      /\ a("cmd") \in Nat /\ b("cmd") \in Nat /\ a("cmd") = b("cmd") + (IF "cmd" = ev THEN 1 ELSE 0)
      /\ a("retrace") \in Nat /\ b("retrace") \in Nat
      /\ a("retrace") = b("retrace") + (IF "retrace" = ev THEN 1 ELSE 0)
  BY <1>1 DEF EventNames
<1>3. /\ a("sp") = (IF SpDue(sc) THEN 1 ELSE 0) /\ a("dp") = (IF DpDue(sc) THEN 1 ELSE 0)
      /\ a("cmd") <= 1 /\ a("retrace") <= MaxLate
      /\ Len(interruptQ) = a("sp") + a("dp") + a("cmd") + a("retrace")
  BY DEF EventsDue
<1>4. (ev = "sp" => SpDue(sc)) /\ (ev = "dp" => DpDue(sc))
  BY EventIsDue
<1>5. /\ ev \in {"sp", "dp", "cmd", "retrace"} /\ MaxLate \in Nat
      /\ Len(interruptQ') = Len(interruptQ) - 1 /\ Len(interruptQ) \in Nat
  BY <1>1, SchedulerAssumption DEF EventNames
<1> HIDE DEF a, b
<1>6. /\ b("sp") = (IF SpDue(r) THEN 1 ELSE 0) /\ b("dp") = (IF DpDue(r) THEN 1 ELSE 0)
      /\ b("cmd") <= 1 /\ b("retrace") <= MaxLate
      /\ Len(interruptQ') = b("sp") + b("dp") + b("cmd") + b("retrace")
      /\ (ev # "cmd" => b("cmd") = a("cmd"))
  <2> DEFINE taken(x) == IF x = ev THEN 1 ELSE 0
  <2>1. /\ a("sp") = b("sp") + taken("sp") /\ a("dp") = b("dp") + taken("dp")
        /\ a("cmd") = b("cmd") + taken("cmd") /\ a("retrace") = b("retrace") + taken("retrace")
    BY <1>2
  <2>2. /\ taken("sp") \in {0, 1} /\ taken("dp") \in {0, 1}
        /\ taken("cmd") \in {0, 1} /\ taken("retrace") \in {0, 1}
        /\ taken("sp") + taken("dp") + taken("cmd") + taken("retrace") = 1
        /\ (taken("sp") = 1 <=> ev = "sp") /\ (taken("dp") = 1 <=> ev = "dp")
        /\ (taken("cmd") = 1 <=> ev = "cmd")
    BY <1>5
  <2> HIDE DEF taken
  <2>3. /\ b("cmd") <= 1 /\ b("retrace") <= MaxLate /\ (ev # "cmd" => b("cmd") = a("cmd"))
    BY SMTT(30), <1>2, <1>3, <1>5, <2>1, <2>2
  <2>4. Len(interruptQ') = b("sp") + b("dp") + b("cmd") + b("retrace")
    <3> DEFINE m == Len(interruptQ)
               n == Len(interruptQ')
    <3>1. m = a("sp") + a("dp") + a("cmd") + a("retrace") /\ n = m - 1
      BY <1>3, <1>5
    <3> HIDE DEF m, n
    <3>2. m = b("sp") + b("dp") + b("cmd") + b("retrace") + 1
      BY <1>2, <2>1, <2>2, <3>1
    <3>3. n = b("sp") + b("dp") + b("cmd") + b("retrace")
      BY <1>2, <3>1, <3>2
    <3> QED
      BY <3>3 DEF n
  <2>5. b("sp") = (IF SpDue(r) THEN 1 ELSE 0)
    BY <1>2, <1>3, <1>4, <2>1, <2>2
  <2>6. b("dp") = (IF DpDue(r) THEN 1 ELSE 0)
    BY <1>2, <1>3, <1>4, <2>1, <2>2
  <2> QED
    BY <2>3, <2>4, <2>5, <2>6
<1> QED
  BY <1>6 DEF EventsDue, a, b

\* What a handler leaves: the tasks' order, and what follows for the frames.
Handled ==
    /\ Undrawn(sc', Range(cmdQ')) = Undrawn(sc, Range(cmdQ))
    /\ Outstanding(sc', Range(cmdQ')) \subseteq Outstanding(sc, Range(cmdQ))
    /\ sc'.curRDP = sc.curRDP \/ TaskReady(sc'.curRDP, video')
    /\ sc'.rdp = sc.rdp \/ TaskReady(sc'.rdp, video')

LEMMA HandlerKeeps ==
  ASSUME TasksInv, NEW ev \in EventNames, Take(ev), UNCHANGED <<engine, audio>>,
         cmdQ' \in {cmdQ, <<>>}, ev = "cmd" => cmdQ' = <<>>,
         sc' \in ScType, SchedInv(sc', Range(cmdQ'), engine, audio),
         Tokens(sc', Range(cmdQ'), engine), Lists(sc', Range(cmdQ'), engine),
         SpDue(sc') <=> (SpDue(sc) /\ ev # "sp"), DpDue(sc') <=> (DpDue(sc) /\ ev # "dp")
  PROVE  TasksInv'
<1>1. TasksTypes /\ EventsDue(sc, interruptQ) /\ EngineOk(engine) /\ Waits(cmdQ, interruptQ, engine, audio)
      /\ engine' = engine /\ audio' = audio
  BY DEF TasksInv
<1>2. TasksTypes'
  BY <1>1, Taken DEF TasksTypes
<1>3. EventsDue(sc', interruptQ') /\ (ev # "cmd" => Count(interruptQ', "cmd") = Count(interruptQ, "cmd"))
  BY <1>1, EventsAfter
<1>4. Waits(cmdQ', interruptQ', engine', audio')
  <2>1. CASE cmdQ' = <<>>
    <3>1. <<>> \in Batches /\ Range(cmdQ') = {}
      BY <2>1, BatchFacts
    <3> QED
      BY <2>1, <3>1 DEF Waits
  <2>2. CASE cmdQ' = cmdQ /\ ev # "cmd"
    BY <1>1, <1>3, <2>2 DEF Waits
  <2> QED
    BY <2>1, <2>2
<1> QED
  BY <1>1, <1>2, <1>3, <1>4 DEF TasksInv

LEMMA RSPStep ==
  ASSUME TasksInv, __scHandleRSP
  PROVE  TasksInv' /\ Handled /\ Works(sc, Range(cmdQ), sc', Range(cmdQ'), engine)
<1> DEFINE Q == Range(cmdQ)
<1>1. /\ TasksTypes /\ SchedInv(sc, Q, engine, audio) /\ EventsDue(sc, interruptQ)
      /\ Tokens(sc, Q, engine) /\ Lists(sc, Q, engine) /\ Waits(cmdQ, interruptQ, engine, audio)
  BY DEF TasksInv
<1>2. /\ Take("sp") /\ sc' = HandleRSP(sc, video) /\ cmdQ' = cmdQ /\ video' = video
      /\ engine' = engine /\ audio' = audio /\ "sp" \in EventNames
  BY DEF __scHandleRSP, EventNames
<1>3. sc \in ScType /\ engine \in EngineType /\ Q \in SUBSET Tasks
  BY <1>1, BatchFacts DEF TasksTypes, Waits
<1>4. SpDue(sc)
  BY <1>1, <1>2, EventIsDue
<1>5. /\ sc' \in ScType /\ SchedInv(sc', Q, engine, audio) /\ Works(sc, Q, sc', Q, engine)
      /\ ~SpDue(sc') /\ DpDue(sc') = DpDue(sc)
      /\ sc'.curRDP = sc.curRDP \/ TaskReady(sc'.curRDP, video)
      /\ sc'.rdp = sc.rdp \/ TaskReady(sc'.rdp, video)
  BY <1>1, <1>2, <1>3, <1>4, HandleRSPKeeps
<1> HIDE DEF Q
<1>6. Tokens(sc', Q, engine) /\ Lists(sc', Q, engine)
  <2>1. Ordered(sc, Q, engine)
    BY <1>1 DEF SchedInv
  <2> QED
    BY <1>1, <1>3, <1>5, <2>1, WorksKeeps
<1>7. Range(cmdQ') = Q /\ Range(cmdQ) = Q
  BY <1>2 DEF Q
<1>8. TasksInv'
  BY <1>2, <1>5, <1>6, <1>7, HandlerKeeps
<1>9. Handled
  BY <1>2, <1>5, <1>7 DEF Handled, Works
<1> QED
  BY <1>5, <1>7, <1>8, <1>9

LEMMA CmdStep ==
  ASSUME TasksInv, Sched_HandleCmdMsg
  PROVE  TasksInv' /\ Handled /\ Works(sc, Range(cmdQ), sc', Range(cmdQ'), engine)
<1> DEFINE Q == Range(cmdQ)
           x == AppendAll(sc, cmdQ)
<1>1. /\ TasksTypes /\ SchedInv(sc, Q, engine, audio) /\ EventsDue(sc, interruptQ)
      /\ Tokens(sc, Q, engine) /\ Lists(sc, Q, engine) /\ Waits(cmdQ, interruptQ, engine, audio)
  BY DEF TasksInv
<1>2. /\ Take("cmd") /\ sc' = YieldOrDispatch(x, video) /\ cmdQ' = <<>> /\ video' = video
      /\ engine' = engine /\ audio' = audio /\ "cmd" \in EventNames
  BY DEF Sched_HandleCmdMsg, EventNames
<1>3. sc \in ScType /\ engine \in EngineType /\ cmdQ \in Batches /\ Range(cmdQ') = {} /\ {} \in SUBSET Tasks
  BY <1>1, <1>2, BatchFacts DEF TasksTypes, Waits
<1>4. /\ x \in ScType /\ SchedInv(x, {}, engine, audio) /\ SameWork(sc, Q, x, {})
      /\ x.rdp = sc.rdp /\ x.curRDP = sc.curRDP
  BY <1>1, <1>3, AppendAllKeeps
<1> HIDE DEF x, Q
<1>5. /\ sc' \in ScType /\ SchedInv(sc', {}, engine, audio) /\ SameWork(x, {}, sc', {})
      /\ sc'.curRDP = x.curRDP \/ TaskReady(sc'.curRDP, video)
      /\ sc'.rdp = x.rdp \/ TaskReady(sc'.rdp, video)
  BY <1>2, <1>3, <1>4, YieldOrDispatchKeeps
<1>6. SameWork(sc, Q, sc', {}) /\ Works(sc, Q, sc', {}, engine)
  <2>1. SameWork(sc, Q, sc', {})
    BY <1>4, <1>5 DEF SameWork, SameTasks
  <2> QED
    BY <2>1, SameIsWork DEF SameWork
<1>7. Tokens(sc', {}, engine) /\ Lists(sc', {}, engine)
  <2>1. Ordered(sc, Q, engine)
    BY <1>1 DEF SchedInv
  <2> QED
    BY <1>1, <1>3, <1>6, <2>1, WorksKeeps
<1>8. TasksInv'
  <2>1. SpDue(sc') = SpDue(sc) /\ DpDue(sc') = DpDue(sc)
    BY <1>6 DEF SameWork
  <2> QED
    BY <1>2, <1>3, <1>5, <1>7, <2>1, HandlerKeeps
<1>9. Handled
  BY <1>2, <1>3, <1>4, <1>5, <1>6 DEF Handled, Works, Q
<1> QED
  BY <1>3, <1>6, <1>8, <1>9 DEF Q

LEMMA RetraceStep ==
  ASSUME TasksInv, __scHandleRetrace
  PROVE  TasksInv' /\ Handled
<1> DEFINE Q == Range(cmdQ)
           v == ShowNext(Shown(video))
           x == AppendAll(sc, cmdQ)
           y == FinishYielded(x, v)
           z == YieldOrDispatch(y, v)
<1>1. /\ TasksTypes /\ SchedInv(sc, Q, engine, audio) /\ EventsDue(sc, interruptQ)
      /\ Tokens(sc, Q, engine) /\ Lists(sc, Q, engine) /\ Waits(cmdQ, interruptQ, engine, audio)
  BY DEF TasksInv
<1>2. /\ Take("retrace") /\ sc' = TellEngine(z) /\ cmdQ' = <<>> /\ video' = v
      /\ engine' = engine /\ audio' = audio /\ "retrace" \in EventNames
  BY DEF __scHandleRetrace, EventNames
<1>3. sc \in ScType /\ engine \in EngineType /\ cmdQ \in Batches /\ Range(cmdQ') = {} /\ {} \in SUBSET Tasks
  BY <1>1, <1>2, BatchFacts DEF TasksTypes, Waits
<1>4. /\ x \in ScType /\ SchedInv(x, {}, engine, audio) /\ SameWork(sc, Q, x, {})
      /\ x.rdp = sc.rdp /\ x.curRDP = sc.curRDP
  BY <1>1, <1>3, AppendAllKeeps
<1> HIDE DEF v, x, Q
<1>5. /\ y \in ScType /\ SchedInv(y, {}, engine, audio) /\ Works(x, {}, y, {}, engine)
      /\ SpDue(y) = SpDue(x) /\ DpDue(y) = DpDue(x)
      /\ y.curRDP = x.curRDP \/ TaskReady(y.curRDP, v)
      /\ y.rdp = x.rdp \/ TaskReady(y.rdp, v)
  BY <1>3, <1>4, FinishYieldedKeeps
<1> HIDE DEF y
<1>6. /\ z \in ScType /\ SchedInv(z, {}, engine, audio) /\ SameWork(y, {}, z, {})
      /\ z.curRDP = y.curRDP \/ TaskReady(z.curRDP, v)
      /\ z.rdp = y.rdp \/ TaskReady(z.rdp, v)
  BY <1>3, <1>5, YieldOrDispatchKeeps
<1> HIDE DEF z
<1>7. Works(sc, Q, z, {}, engine)
  <2>1. Works(sc, Q, y, {}, engine)
    BY <1>4, <1>5, SameThenWorks DEF SameWork
  <2> QED
    BY <1>6, <2>1, WorksThenSame DEF SameWork
<1>8. Tokens(z, {}, engine) /\ Lists(z, {}, engine)
  <2>1. Ordered(sc, Q, engine)
    BY <1>1 DEF SchedInv
  <2> QED
    BY <1>1, <1>3, <1>7, <2>1, WorksKeeps
<1>9. /\ sc' \in ScType /\ SchedInv(sc', {}, engine, audio)
      /\ Tokens(sc', {}, engine) /\ Lists(sc', {}, engine)
      /\ Outstanding(sc', {}) = Outstanding(z, {}) /\ Undrawn(sc', {}) = Undrawn(z, {})
      /\ SpDue(sc') = SpDue(z) /\ DpDue(sc') = DpDue(z)
      /\ sc'.curRDP = z.curRDP /\ sc'.rdp = z.rdp
  BY <1>2, <1>6, <1>8, TellEngineKeeps
<1>10. TasksInv'
  <2>1. SpDue(sc') = SpDue(sc) /\ DpDue(sc') = DpDue(sc)
    BY <1>4, <1>5, <1>6, <1>9 DEF SameWork
  <2> QED
    BY <1>2, <1>3, <1>9, <2>1, HandlerKeeps
<1>11. Undrawn(sc', {}) = Undrawn(sc, Q) /\ Outstanding(sc', {}) \subseteq Outstanding(sc, Q)
  BY <1>7, <1>9 DEF Works
<1>12. /\ sc'.curRDP = sc.curRDP \/ TaskReady(sc'.curRDP, v)
       /\ sc'.rdp = sc.rdp \/ TaskReady(sc'.rdp, v)
  BY <1>4, <1>5, <1>6, <1>9
<1>13. Handled
  BY <1>2, <1>3, <1>11, <1>12 DEF Handled, Q
<1> QED
  BY <1>10, <1>13

LEMMA RDPStep ==
  ASSUME TasksInv, __scHandleRDP
  PROVE  /\ TasksInv' /\ sc.curRDP \in GfxTasks
         /\ Queued(sc', Range(cmdQ')) = Queued(sc, Range(cmdQ)) /\ sc'.gfxMsgQ = sc.gfxMsgQ
         /\ Outstanding(sc', Range(cmdQ')) = Queued(sc, Range(cmdQ))
         /\ Undrawn(sc', Range(cmdQ')) = Undrawn(sc, Range(cmdQ)) \ {sc.curRDP}
         /\ sc'.curRDP = NoTask \/ TaskReady(sc'.curRDP, video')
         /\ sc'.rdp = NoTask \/ TaskReady(sc'.rdp, video')
<1> DEFINE Q == Range(cmdQ)
           x == [sc EXCEPT !.state[sc.curRDP] = @ \ {"rdp"}, !.curRDP = NoTask]
<1>1. /\ TasksTypes /\ SchedInv(sc, Q, engine, audio) /\ EventsDue(sc, interruptQ)
      /\ Tokens(sc, Q, engine) /\ Lists(sc, Q, engine) /\ Waits(cmdQ, interruptQ, engine, audio)
  BY DEF TasksInv
<1>2. /\ Take("dp") /\ sc' = Dispatch(x, video') /\ cmdQ' = cmdQ
      /\ engine' = engine /\ audio' = audio /\ "dp" \in EventNames
  BY DEF __scHandleRDP, EventNames
<1>3. sc \in ScType /\ engine \in EngineType /\ Q \in SUBSET Tasks
  BY <1>1, BatchFacts DEF TasksTypes, Waits
<1>4. DpDue(sc)
  BY <1>1, <1>2, EventIsDue
<1>5. /\ x \in ScType /\ SchedInv(x, Q, engine, audio)
      /\ Queued(x, Q) = Queued(sc, Q) /\ x.gfxMsgQ = sc.gfxMsgQ
      /\ Outstanding(x, Q) = Queued(sc, Q)
      /\ Undrawn(x, Q) = Undrawn(sc, Q) \ {sc.curRDP}
      /\ SpDue(x) = SpDue(sc) /\ ~DpDue(x) /\ x.curRDP = NoTask /\ x.rdp = NoTask
  BY <1>1, <1>3, <1>4, RDPLeaves
<1> HIDE DEF x
<1>6. /\ sc' \in ScType /\ SchedInv(sc', Q, engine, audio) /\ SameWork(x, Q, sc', Q)
      /\ sc'.curRDP = x.curRDP \/ TaskReady(sc'.curRDP, video')
      /\ sc'.rdp = x.rdp \/ TaskReady(sc'.rdp, video')
  BY <1>2, <1>3, <1>5, DispatchKeeps
<1> HIDE DEF Q
<1>7. Range(cmdQ') = Q /\ Range(cmdQ) = Q
  BY <1>2 DEF Q
<1>8. /\ Queued(sc', Q) = Queued(sc, Q) /\ sc'.gfxMsgQ = sc.gfxMsgQ
      /\ Outstanding(sc', Q) = Queued(sc, Q)
      /\ Undrawn(sc', Q) = Undrawn(sc, Q) \ {sc.curRDP}
      /\ SpDue(sc') = SpDue(sc) /\ ~DpDue(sc')
  BY <1>5, <1>6 DEF SameWork, SameTasks
<1>9. Tokens(sc', Q, engine) /\ Lists(sc', Q, engine)
  <2>1. With(sc', Q, engine) = With(sc, Q, engine)
    BY <1>8 DEF With
  <2>2. Done(sc') = Done(sc)
    BY <1>3, <1>8, DoneMoves
  <2>3. Tokens(sc', Q, engine)
    BY <1>1, <2>1, <2>2 DEF Tokens
  <2> QED
    BY <1>1, <1>8, <2>1, <2>3 DEF Lists
<1>10. TasksInv'
  BY <1>2, <1>4, <1>6, <1>7, <1>8, <1>9, HandlerKeeps
<1>11. sc.curRDP \in GfxTasks
  BY <1>3, <1>4, ScFields DEF DpDue
<1> QED
  BY <1>5, <1>6, <1>7, <1>8, <1>10, <1>11

-----------------------------------------------------------------------------
(* The steps of the hardware and of the audio manager.                     *)

LEMMA PairOfAppend ==
  ASSUME NEW S, NEW t \in S, NEW u \in S
  PROVE  Append(<<t>>, u) = <<t, u>>
<1>1. <<t>> \in Seq(S) /\ Len(<<t>>) = 1 /\ <<t>>[1] = t
  OBVIOUS
<1>2. /\ Append(<<t>>, u) \in Seq(S) /\ Len(Append(<<t>>, u)) = 2
      /\ Append(<<t>>, u)[1] = t /\ Append(<<t>>, u)[2] = u
  BY <1>1
<1>3. ASSUME NEW q \in Seq(S), Len(q) = 2 PROVE q = <<q[1], q[2]>>
  BY <1>3
<1> QED
  BY <1>2, <1>3

\* The queue has room for an event that is not in it yet.
LEMMA EventsPosted ==
  ASSUME NEW s, NEW q \in Seq(EventNames), EventsDue(s, q), NEW ev \in EventNames, NEW r,
         SpDue(r) <=> (SpDue(s) \/ ev = "sp"), DpDue(r) <=> (DpDue(s) \/ ev = "dp"),
         ev = "sp" => ~SpDue(s), ev = "dp" => ~DpDue(s),
         ev = "cmd" => Count(q, "cmd") = 0, ev = "retrace" => Count(q, "retrace") < MaxLate
  PROVE  /\ Len(q) < QueueSize /\ Append(q, ev) \in Seq(EventNames)
         /\ EventsDue(r, Append(q, ev))
         /\ ev # "cmd" => Count(Append(q, ev), "cmd") = Count(q, "cmd")
         /\ ev = "cmd" => Count(Append(q, ev), "cmd") = 1
<1>1. /\ Len(Append(q, ev)) = Len(q) + 1 /\ Len(q) \in Nat /\ Append(q, ev) \in Seq(EventNames)
      /\ \A x \in EventNames : /\ Count(q, x) \in Nat /\ Count(Append(q, ev), x) \in Nat
                               /\ Count(Append(q, ev), x) = Count(q, x) + (IF x = ev THEN 1 ELSE 0)
  BY Posted
<1> DEFINE a(x) == Count(q, x)
           b(x) == Count(Append(q, ev), x)
           m == Len(q)
           n == Len(Append(q, ev))
           put(x) == IF x = ev THEN 1 ELSE 0
<1>2. /\ a("sp") \in Nat /\ b("sp") \in Nat /\ b("sp") = a("sp") + put("sp")
      /\ a("dp") \in Nat /\ b("dp") \in Nat /\ b("dp") = a("dp") + put("dp")
      /\ a("cmd") \in Nat /\ b("cmd") \in Nat /\ b("cmd") = a("cmd") + put("cmd")
      /\ a("retrace") \in Nat /\ b("retrace") \in Nat /\ b("retrace") = a("retrace") + put("retrace")
  BY <1>1 DEF EventNames
<1>3. /\ a("sp") = (IF SpDue(s) THEN 1 ELSE 0) /\ a("dp") = (IF DpDue(s) THEN 1 ELSE 0)
      /\ a("cmd") <= 1 /\ a("retrace") <= MaxLate
      /\ m = a("sp") + a("dp") + a("cmd") + a("retrace")
  BY DEF EventsDue
<1>4. /\ ev \in {"sp", "dp", "cmd", "retrace"} /\ MaxLate \in 1..5
      /\ n = m + 1 /\ m \in Nat
      /\ (ev = "cmd" => a("cmd") = 0) /\ (ev = "retrace" => a("retrace") < MaxLate)
  BY <1>1, SchedulerAssumption DEF EventNames
<1>5. /\ put("sp") \in {0, 1} /\ put("dp") \in {0, 1} /\ put("cmd") \in {0, 1} /\ put("retrace") \in {0, 1}
      /\ put("sp") + put("dp") + put("cmd") + put("retrace") = 1
      /\ (put("sp") = 1 <=> ev = "sp") /\ (put("dp") = 1 <=> ev = "dp")
      /\ (put("cmd") = 1 <=> ev = "cmd") /\ (put("retrace") = 1 <=> ev = "retrace")
  BY <1>4
<1> HIDE DEF a, b, m, n, put
<1>6. b("sp") = (IF SpDue(r) THEN 1 ELSE 0)
  BY SMTT(30), <1>2, <1>3, <1>5
<1>7. b("dp") = (IF DpDue(r) THEN 1 ELSE 0)
  BY SMTT(30), <1>2, <1>3, <1>5
<1>8. b("cmd") <= 1 /\ b("retrace") <= MaxLate
  <2>1. MaxLate \in Int
    BY <1>4
  <2>2. b("cmd") <= 1
    <3>1. CASE ev = "cmd"
      <4>1. a("cmd") = 0 /\ put("cmd") = 1 /\ b("cmd") = a("cmd") + put("cmd")
        BY <1>2, <1>4, <1>5, <3>1
      <4> QED
        BY <4>1
    <3>2. CASE ev # "cmd"
      <4>1. a("cmd") \in Nat /\ a("cmd") <= 1 /\ put("cmd") = 0 /\ b("cmd") = a("cmd") + put("cmd")
        BY <1>2, <1>3, <1>5, <3>2
      <4> QED
        BY <4>1
    <3> QED
      BY <3>1, <3>2
  <2>3. CASE ev = "retrace"
    BY <1>2, <1>4, <1>5, <2>1, <2>2, <2>3
  <2>4. CASE ev # "retrace"
    BY <1>2, <1>3, <1>5, <2>1, <2>2, <2>4
  <2> QED
    BY <2>3, <2>4
<1>9. n = b("sp") + b("dp") + b("cmd") + b("retrace")
  <2>1. n = a("sp") + a("dp") + a("cmd") + a("retrace") + 1
    BY <1>3, <1>4
  <2>2. n = a("sp") + a("dp") + a("cmd") + a("retrace") + (put("sp") + put("dp") + put("cmd") + put("retrace"))
    BY <1>5, <2>1
  <2>3. n = (a("sp") + put("sp")) + (a("dp") + put("dp")) + (a("cmd") + put("cmd")) + (a("retrace") + put("retrace"))
    <3>1. /\ a("sp") \in Int /\ a("dp") \in Int /\ a("cmd") \in Int /\ a("retrace") \in Int
          /\ put("sp") \in Int /\ put("dp") \in Int /\ put("cmd") \in Int /\ put("retrace") \in Int
      BY <1>2, <1>5
    <3> QED
      BY SMTT(30), <2>2, <3>1
  <2> QED
    BY <1>2, <2>3
<1>10. m < 8
  <2>1. b("sp") <= 1 /\ b("dp") <= 1 /\ b("cmd") <= 1 /\ b("retrace") <= 5
    BY <1>2, <1>4, <1>6, <1>7, <1>8
  <2> QED
    BY <1>2, <1>4, <1>9, <2>1
<1>11. (ev # "cmd" => b("cmd") = a("cmd")) /\ (ev = "cmd" => b("cmd") = 1)
  BY <1>2, <1>4, <1>5
<1> QED
  BY <1>1, <1>6, <1>7, <1>8, <1>9, <1>10, <1>11 DEF EventsDue, QueueSize, a, b, m, n

LEMMA PlainStep ==
  ASSUME TasksInv, UNCHANGED <<cmdQ, engine, audio>>,
         sc' \in ScType, Running(sc'),
         sc'.gfxList = sc.gfxList, sc'.audioList = sc.audioList, sc'.doAudio = sc.doAudio,
         sc'.curRSP = sc.curRSP, sc'.curRDP = sc.curRDP, sc'.state = sc.state,
         sc'.audioReply = sc.audioReply, sc'.gfxMsgQ = sc.gfxMsgQ,
         interruptQ' \in Seq(EventNames), EventsDue(sc', interruptQ'),
         Count(interruptQ', "cmd") = Count(interruptQ, "cmd")
  PROVE  /\ TasksInv'
         /\ Queued(sc', Range(cmdQ')) = Queued(sc, Range(cmdQ))
         /\ Outstanding(sc', Range(cmdQ')) = Outstanding(sc, Range(cmdQ))
         /\ Undrawn(sc', Range(cmdQ')) = Undrawn(sc, Range(cmdQ))
<1> DEFINE Q == Range(cmdQ)
<1>1. /\ TasksTypes /\ SchedInv(sc, Q, engine, audio) /\ EngineOk(engine)
      /\ Tokens(sc, Q, engine) /\ Lists(sc, Q, engine) /\ Waits(cmdQ, interruptQ, engine, audio)
  BY DEF TasksInv
<1>2. /\ SchedInv(sc', Q, engine, audio) /\ Queued(sc', Q) = Queued(sc, Q)
      /\ Outstanding(sc', Q) = Outstanding(sc, Q) /\ Undrawn(sc', Q) = Undrawn(sc, Q)
  BY <1>1, Unaffected
<1>3. Tokens(sc', Q, engine) /\ Lists(sc', Q, engine)
  <2>1. With(sc', Q, engine) = With(sc, Q, engine) /\ Done(sc') = Done(sc)
    BY <1>2 DEF With, Done
  <2> QED
    BY <1>1, <1>2, <2>1 DEF Tokens, Lists
<1>4. Waits(cmdQ', interruptQ', engine', audio')
  BY <1>1 DEF Waits
<1>5. TasksTypes'
  BY <1>1 DEF TasksTypes
<1> QED
  BY <1>1, <1>2, <1>3, <1>4, <1>5 DEF TasksInv

LEMMA HardwareKeeps ==
  ASSUME TasksInv, HardwareStep
  PROVE  /\ TasksInv' /\ cmdQ' = cmdQ /\ engine' = engine /\ sc'.gfxMsgQ = sc.gfxMsgQ
         /\ Queued(sc', Range(cmdQ')) = Queued(sc, Range(cmdQ))
         /\ Outstanding(sc', Range(cmdQ')) = Outstanding(sc, Range(cmdQ))
         /\ Undrawn(sc', Range(cmdQ')) = Undrawn(sc, Range(cmdQ))
         /\ sc'.curRDP = sc.curRDP /\ sc'.rdp \in {sc.rdp, NoTask}
<1>1. /\ sc \in ScType /\ interruptQ \in Seq(EventNames) /\ EventsDue(sc, interruptQ) /\ Running(sc)
  BY DEF TasksInv, TasksTypes, SchedInv
<1>2. NoTask \notin GfxTasks
  BY Names
<1>3. CASE VIRetrace
  <2>1. /\ sc' = sc /\ cmdQ' = cmdQ /\ engine' = engine /\ audio' = audio /\ Post("retrace")
        /\ Count(interruptQ, "retrace") < MaxLate /\ "retrace" \in EventNames
    BY <1>3 DEF VIRetrace, EventNames
  <2>2. /\ Len(interruptQ) < QueueSize /\ Append(interruptQ, "retrace") \in Seq(EventNames)
        /\ EventsDue(sc, Append(interruptQ, "retrace"))
        /\ Count(Append(interruptQ, "retrace"), "cmd") = Count(interruptQ, "cmd")
    BY <1>1, <2>1, EventsPosted
  <2>3. interruptQ' = Append(interruptQ, "retrace")
    BY <2>1, <2>2 DEF Post
  <2>4. Running(sc')
    BY <1>1, <2>1
  <2> QED
    BY <1>1, <2>1, <2>2, <2>3, <2>4, PlainStep
<1>4. CASE RSPWritesSync
  <2>1. /\ sc' = [sc EXCEPT !.synced = TRUE] /\ cmdQ' = cmdQ /\ engine' = engine /\ audio' = audio
        /\ interruptQ' = interruptQ
    BY <1>4 DEF RSPWritesSync
  <2>2. /\ sc' \in ScType /\ sc'.gfxList = sc.gfxList /\ sc'.audioList = sc.audioList
        /\ sc'.doAudio = sc.doAudio /\ sc'.curRSP = sc.curRSP /\ sc'.curRDP = sc.curRDP
        /\ sc'.state = sc.state /\ sc'.audioReply = sc.audioReply /\ sc'.gfxMsgQ = sc.gfxMsgQ
        /\ sc'.rsp = sc.rsp /\ sc'.rdp = sc.rdp
    BY <1>1, <2>1 DEF ScType
  <2>3. Running(sc') /\ EventsDue(sc', interruptQ')
    BY <1>1, <2>1, <2>2 DEF Running, EventsDue, SpDue, DpDue
  <2> QED
    BY <1>1, <2>1, <2>2, <2>3, PlainStep
<1>5. CASE RSPFinishes \/ RSPYields
  <2>1. /\ sc.rsp # NoTask /\ Post("sp") /\ "sp" \in EventNames
        /\ sc' = [sc EXCEPT !.rsp = NoTask] \/ sc' = [sc EXCEPT !.rsp = NoTask, !.sig1 = TRUE]
        /\ cmdQ' = cmdQ /\ engine' = engine /\ audio' = audio
    BY <1>2, <1>5 DEF RSPFinishes, RSPYields, EventNames
  <2>2. /\ sc' \in ScType /\ sc'.gfxList = sc.gfxList /\ sc'.audioList = sc.audioList
        /\ sc'.doAudio = sc.doAudio /\ sc'.curRSP = sc.curRSP /\ sc'.curRDP = sc.curRDP
        /\ sc'.state = sc.state /\ sc'.audioReply = sc.audioReply /\ sc'.gfxMsgQ = sc.gfxMsgQ
        /\ sc'.rsp = NoTask /\ sc'.rdp = sc.rdp
    BY <1>1, <2>1 DEF ScType
  <2>3. Running(sc') /\ SpDue(sc') /\ ~SpDue(sc) /\ (DpDue(sc') <=> DpDue(sc))
    BY <1>1, <2>1, <2>2 DEF Running, SpDue, DpDue
  <2>4. /\ Len(interruptQ) < QueueSize /\ Append(interruptQ, "sp") \in Seq(EventNames)
        /\ EventsDue(sc', Append(interruptQ, "sp"))
        /\ Count(Append(interruptQ, "sp"), "cmd") = Count(interruptQ, "cmd")
    BY <1>1, <2>1, <2>3, EventsPosted
  <2>5. interruptQ' = Append(interruptQ, "sp")
    BY <2>1, <2>4 DEF Post
  <2> QED
    BY <2>1, <2>2, <2>3, <2>4, <2>5, PlainStep
<1>6. CASE RDPFinishes
  <2>1. /\ sc.rdp # NoTask /\ Post("dp") /\ "dp" \in EventNames /\ sc' = [sc EXCEPT !.rdp = NoTask]
        /\ cmdQ' = cmdQ /\ engine' = engine /\ audio' = audio
    BY <1>6 DEF RDPFinishes, EventNames
  <2>2. /\ sc' \in ScType /\ sc'.gfxList = sc.gfxList /\ sc'.audioList = sc.audioList
        /\ sc'.doAudio = sc.doAudio /\ sc'.curRSP = sc.curRSP /\ sc'.curRDP = sc.curRDP
        /\ sc'.state = sc.state /\ sc'.audioReply = sc.audioReply /\ sc'.gfxMsgQ = sc.gfxMsgQ
        /\ sc'.rsp = sc.rsp /\ sc'.rdp = NoTask
    BY <1>1, <2>1 DEF ScType
  <2>3. Running(sc') /\ DpDue(sc') /\ ~DpDue(sc) /\ (SpDue(sc') <=> SpDue(sc))
    BY <1>1, <2>1, <2>2 DEF Running, SpDue, DpDue
  <2>4. /\ Len(interruptQ) < QueueSize /\ Append(interruptQ, "dp") \in Seq(EventNames)
        /\ EventsDue(sc', Append(interruptQ, "dp"))
        /\ Count(Append(interruptQ, "dp"), "cmd") = Count(interruptQ, "cmd")
    BY <1>1, <2>1, <2>3, EventsPosted
  <2>5. interruptQ' = Append(interruptQ, "dp")
    BY <2>1, <2>4 DEF Post
  <2> QED
    BY <2>1, <2>2, <2>3, <2>4, <2>5, PlainStep
<1> QED
  BY <1>3, <1>4, <1>5, <1>6 DEF HardwareStep

\* While the scheduler waits, the tasks that wait for it are about to be told.
LEMMA NotTold ==
  ASSUME TasksInv, Waiting
  PROVE  /\ Count(interruptQ, "cmd") = 0
         /\ Audio \in Range(cmdQ) => audio = "kick"
         /\ Range(cmdQ) \cap GfxTasks # {} => engine.pc \in {"kick0", "kick1"}
         /\ ~SpDue(sc) /\ ~DpDue(sc)
<1>1. Waits(cmdQ, interruptQ, engine, audio) /\ EventsDue(sc, interruptQ)
  BY DEF TasksInv
<1>2. Count(interruptQ, "cmd") = 0 /\ Count(interruptQ, "sp") = 0 /\ Count(interruptQ, "dp") = 0
  BY EmptyCounts DEF Waiting
<1> QED
  BY <1>1, <1>2 DEF Waits, EventsDue

LEMMA Kicked ==
  ASSUME TasksInv, Kick
  PROVE  /\ interruptQ' \in Seq(EventNames) /\ EventsDue(sc, interruptQ') /\ Count(interruptQ', "cmd") = 1
<1>1. Waiting /\ interruptQ' = Append(interruptQ, "cmd") /\ "cmd" \in EventNames
  BY DEF Kick, EventNames
<1>2. Count(interruptQ, "cmd") = 0
  BY <1>1, NotTold
<1>3. interruptQ \in Seq(EventNames) /\ EventsDue(sc, interruptQ)
  BY DEF TasksInv, TasksTypes
<1> QED
  BY <1>1, <1>2, <1>3, EventsPosted

LEMMA AudioKeeps ==
  ASSUME TasksInv, AudioStep
  PROVE  /\ TasksInv' /\ engine' = engine /\ video' = video /\ sc'.gfxMsgQ = sc.gfxMsgQ
         /\ Queued(sc', Range(cmdQ')) = Queued(sc, Range(cmdQ))
         /\ Outstanding(sc', Range(cmdQ')) = Outstanding(sc, Range(cmdQ))
         /\ Undrawn(sc', Range(cmdQ')) = Undrawn(sc, Range(cmdQ))
         /\ sc'.curRDP = sc.curRDP /\ sc'.rdp = sc.rdp
<1> DEFINE Q == Range(cmdQ)
<1>1. /\ TasksTypes /\ SchedInv(sc, Q, engine, audio) /\ EngineOk(engine) /\ EventsDue(sc, interruptQ)
      /\ Tokens(sc, Q, engine) /\ Lists(sc, Q, engine) /\ Waits(cmdQ, interruptQ, engine, audio)
  BY DEF TasksInv
<1>2. /\ Ordered(sc, Q, engine) /\ States(sc) /\ Sound(sc, Q, audio) /\ Running(sc) /\ sc \in ScType
  BY <1>1 DEF SchedInv, TasksTypes
<1>3. CASE AudioPut
  <2>1. /\ Waiting /\ audio = "idle" /\ cmdQ' = Append(cmdQ, Audio) /\ audio' = "kick"
        /\ sc' = sc /\ video' = video /\ interruptQ' = interruptQ /\ engine' = engine
    BY <1>3 DEF AudioPut, Put
  <2>2. Audio \notin Q
    BY <1>2, <2>1 DEF Sound
  <2>3. cmdQ' \in Batches /\ Range(cmdQ') = Q \cup {Audio}
    <3>1. CASE cmdQ = <<>>
      <4>1. cmdQ' = <<Audio>> /\ Range(<<Audio>>) = {Audio} /\ Q = {}
        BY <2>1, <3>1 DEF Range
      <4> QED
        BY <4>1 DEF Batches
    <3>2. ASSUME NEW t \in GfxTasks, cmdQ = <<t>>
          PROVE  cmdQ' \in Batches /\ Range(cmdQ') = Q \cup {Audio}
      <4>1. cmdQ' = <<t, Audio>>
        <5>1. Append(<<t>>, Audio) = <<t, Audio>>
          <6>1. t \in Tasks /\ Audio \in Tasks
            BY Names
          <6> QED
            BY <6>1, PairOfAppend
        <5> QED
          BY <2>1, <3>2, <5>1
      <4>2. Range(<<t, Audio>>) = {t, Audio} /\ Range(<<t>>) = {t}
        BY DEF Range
      <4>3. Range(cmdQ') = {t, Audio} /\ Q = {t}
        BY <3>2, <4>1, <4>2
      <4> QED
        BY <4>1, <4>3 DEF Batches
    <3>3. CASE cmdQ = <<Audio>>
      BY <2>2, <3>3 DEF Range
    <3>4. ASSUME NEW t \in GfxTasks, cmdQ = <<t, Audio>>
          PROVE  FALSE
      BY <2>2, <3>4 DEF Range
    <3> QED
      BY <1>1, <3>1, <3>2, <3>3, <3>4 DEF Waits, Batches
  <2> DEFINE R == Range(cmdQ')
  <2>4. /\ \A t \in GfxTasks : t \in R <=> t \in Q
        /\ R \cap GfxTasks = Q \cap GfxTasks
    BY <2>3, Names
  <2> HIDE DEF R, Q
  <2>5. Queued(sc, R) = Queued(sc, Q)
    BY <2>4 DEF Queued
  <2>6. Outstanding(sc, R) = Outstanding(sc, Q)
    BY <2>5 DEF Outstanding
  <2>7. Undrawn(sc, R) = Undrawn(sc, Q)
    BY <2>4, <2>6 DEF Undrawn
  <2>8. Ordered(sc, R, engine)
    BY <1>2, <2>4, <2>5, <2>6 DEF Ordered
  <2>9. Sound(sc, R, "kick")
    BY <1>2, <2>1 DEF Sound
  <2>10. Tokens(sc, R, engine) /\ Lists(sc, R, engine)
    <3>1. With(sc, R, engine) = With(sc, Q, engine)
      BY <2>5 DEF With
    <3> QED
      BY <1>1, <2>5, <3>1 DEF Tokens, Lists
  <2>11. Waits(cmdQ', interruptQ', engine', audio')
    <3>1. Range(cmdQ') \cap GfxTasks = Range(cmdQ) \cap GfxTasks
      BY <2>4 DEF R, Q
    <3> QED
      BY <1>1, <2>1, <2>3, <3>1 DEF Waits
  <2>12. SchedInv(sc', R, engine', audio') /\ TasksTypes'
    BY <1>1, <1>2, <2>1, <2>8, <2>9 DEF SchedInv, TasksTypes
  <2>13. TasksInv'
    BY <1>1, <2>1, <2>10, <2>11, <2>12 DEF TasksInv, R
  <2> QED
    BY <2>1, <2>5, <2>6, <2>7, <2>13 DEF R, Q
<1>4. CASE AudioKick
  <2>1. /\ audio = "kick" /\ Kick /\ audio' = "wait"
        /\ sc' = sc /\ video' = video /\ cmdQ' = cmdQ /\ engine' = engine
    BY <1>4 DEF AudioKick
  <2>2. interruptQ' \in Seq(EventNames) /\ EventsDue(sc, interruptQ') /\ Count(interruptQ', "cmd") = 1
    BY <2>1, Kicked
  <2>3. Sound(sc, Q, "wait")
    BY <1>2 DEF Sound
  <2>4. Waits(cmdQ', interruptQ', engine', audio')
    BY <1>1, <2>1, <2>2 DEF Waits
  <2>5. SchedInv(sc', Q, engine', audio') /\ TasksTypes'
    BY <1>1, <1>2, <2>1, <2>2, <2>3 DEF SchedInv, TasksTypes
  <2>6. TasksInv'
    BY <1>1, <2>1, <2>2, <2>4, <2>5 DEF TasksInv
  <2> QED
    BY <2>1, <2>6
<1>5. CASE AudioReply
  <2>1. /\ audio = "wait" /\ sc.audioReply /\ sc' = [sc EXCEPT !.audioReply = FALSE] /\ audio' = "idle"
        /\ video' = video /\ interruptQ' = interruptQ /\ cmdQ' = cmdQ /\ engine' = engine
    BY <1>5 DEF AudioReply
  <2>2. /\ sc' \in ScType /\ sc'.gfxList = sc.gfxList /\ sc'.audioList = sc.audioList
        /\ sc'.doAudio = sc.doAudio /\ sc'.curRSP = sc.curRSP /\ sc'.curRDP = sc.curRDP
        /\ sc'.state = sc.state /\ sc'.audioReply = FALSE /\ sc'.gfxMsgQ = sc.gfxMsgQ
        /\ sc'.rsp = sc.rsp /\ sc'.rdp = sc.rdp
    BY <1>2, <2>1 DEF ScType
  <2> HIDE DEF Q
  <2>3. Sound(sc', Q, "idle")
    BY <1>2, <2>1, <2>2 DEF Sound
  <2>4. Queued(sc', Q) = Queued(sc, Q)
    BY <2>2 DEF Queued
  <2>5. Outstanding(sc', Q) = Outstanding(sc, Q)
    BY <2>2, <2>4 DEF Outstanding
  <2>6. Undrawn(sc', Q) = Undrawn(sc, Q)
    BY <2>2, <2>5 DEF Undrawn
  <2>7. Ordered(sc', Q, engine)
    BY <1>2, <2>2, <2>4, <2>5 DEF Ordered
  <2>8. States(sc') /\ Running(sc')
    BY <1>2, <2>2 DEF States, Running
  <2>9. Tokens(sc', Q, engine) /\ Lists(sc', Q, engine)
    <3>1. With(sc', Q, engine) = With(sc, Q, engine) /\ Done(sc') = Done(sc)
      BY <2>2, <2>4 DEF With, Done
    <3> QED
      BY <1>1, <2>4, <3>1 DEF Tokens, Lists
  <2>10. EventsDue(sc', interruptQ')
    BY <1>1, <2>1, <2>2 DEF EventsDue, SpDue, DpDue
  <2>11. Waits(cmdQ', interruptQ', engine', audio')
    <3>1. Audio \notin Q
      BY <1>2, <2>1 DEF Sound
    <3> QED
      BY <1>1, <2>1, <3>1 DEF Waits, Q
  <2>12. SchedInv(sc', Q, engine', audio') /\ TasksTypes'
    BY <1>1, <2>1, <2>2, <2>3, <2>7, <2>8 DEF SchedInv, TasksTypes
  <2>13. TasksInv'
    BY <1>1, <2>1, <2>9, <2>10, <2>11, <2>12 DEF TasksInv, Q
  <2> QED
    BY <2>1, <2>2, <2>4, <2>5, <2>6, <2>13 DEF Q
<1> QED
  BY <1>3, <1>4, <1>5 DEF AudioStep

-----------------------------------------------------------------------------
(* The steps of the engine.                                                *)

LEMMA Pairs ==
  ASSUME NEW F, F \subseteq Slots, NEW a \in F, NEW b \in F, a # b
  PROVE  /\ Cardinality(F) \in Nat /\ Cardinality(F) >= 2
         /\ \A c \in F : c # a /\ c # b => Cardinality(F) = 3
<1>1. IsFiniteSet({}) /\ Cardinality({}) = 0
  BY FS_EmptySet
<1>2. IsFiniteSet({a}) /\ Cardinality({a}) = 1
  BY <1>1, FS_Singleton
<1>3. IsFiniteSet({a, b}) /\ Cardinality({a, b}) = 2
  <2>1. {a, b} = {a} \cup {b} /\ b \notin {a}
    OBVIOUS
  <2> QED
    BY <1>2, <2>1, FS_AddElement
<1>4. IsFiniteSet(F) /\ Cardinality(F) \in Nat /\ Cardinality(F) <= 3
  BY FramesFinite
<1>5. Cardinality(F) >= 2
  <2>1. {a, b} \in SUBSET F
    OBVIOUS
  <2>2. Cardinality({a, b}) <= Cardinality(F)
    BY <1>4, <2>1, FS_Subset
  <2> QED
    BY <1>3, <1>4, <2>2
<1>6. ASSUME NEW c \in F, c # a, c # b PROVE Cardinality(F) = 3
  <2>1. {a, b, c} = {a, b} \cup {c} /\ c \notin {a, b} /\ {a, b, c} \in SUBSET F
    BY <1>6
  <2>2. IsFiniteSet({a, b, c}) /\ Cardinality({a, b, c}) = 3
    BY <1>3, <2>1, FS_AddElement
  <2>3. Cardinality({a, b, c}) <= Cardinality(F)
    BY <1>4, <2>1, FS_Subset
  <2> QED
    BY <1>4, <2>2, <2>3
<1> QED
  BY <1>4, <1>5, <1>6

\* A frame behind an outstanding task is with the RSP.
LastTask(e, a) == GfxTask(a, IF e.lines[a] THEN 1 ELSE 0)

LEMMA LastTaskFacts ==
  ASSUME NEW e \in EngineType, NEW a \in Slots
  PROVE  /\ LastTask(e, a) \in GfxTasks /\ FB(LastTask(e, a)) = a /\ LastOf(e, LastTask(e, a))
         /\ Rank(e, LastTask(e, a)) = 2 * Age(e, a) + (IF e.lines[a] THEN 1 ELSE 0)
         /\ (Handed(e, LastTask(e, a)) <=> Rank(e, LastTask(e, a)) < PutRank(e))
<1>1. e.lines[a] \in BOOLEAN
  BY EngineFields
<1>2. CASE e.lines[a]
  <2>1. LastTask(e, a) = GfxTask(a, 1)
    BY <1>2 DEF LastTask
  <2>2. GfxTask(a, 1) \in GfxTasks /\ FB(GfxTask(a, 1)) = a /\ GfxTask(a, 1)[2] = 1
    BY GfxMade
  <2> QED
    BY <1>2, <2>1, <2>2 DEF LastOf, Rank, Handed
<1>3. CASE ~e.lines[a]
  <2>1. LastTask(e, a) = GfxTask(a, 0)
    BY <1>3 DEF LastTask
  <2>2. GfxTask(a, 0) \in GfxTasks /\ FB(GfxTask(a, 0)) = a /\ GfxTask(a, 0)[2] = 0
    BY GfxMade
  <2> QED
    BY <1>3, <2>1, <2>2 DEF LastOf, Rank, Handed
<1> QED
  BY <1>1, <1>2, <1>3

LEMMA Behind ==
  ASSUME NEW s, NEW Q, NEW e \in EngineType, Ordered(s, Q, e), NEW a \in Slots,
         NEW t \in Outstanding(s, Q),
         Age(e, FB(t)) < Age(e, a) \/ (t \in Queued(s, Q) /\ FB(t) = a),
         2 * Age(e, a) + (IF e.lines[a] THEN 1 ELSE 0) < PutRank(e)
  PROVE  a \in With(s, Q, e)
<1> DEFINE u == LastTask(e, a)
<1>1. /\ u \in GfxTasks /\ FB(u) = a /\ LastOf(e, u) /\ Handed(e, u)
      /\ Rank(e, u) = 2 * Age(e, a) + (IF e.lines[a] THEN 1 ELSE 0)
  BY LastTaskFacts
<1>2. t \in GfxTasks /\ FB(t) \in Slots /\ t[2] \in {0, 1} /\ t = GfxTask(FB(t), t[2])
  <2>1. t \in GfxTasks
    BY DEF Outstanding, Queued
  <2> QED
    BY <2>1, GfxParts
<1>3. /\ Rank(e, t) = 2 * Age(e, FB(t)) + t[2]
      /\ Age(e, FB(t)) \in Int /\ Age(e, a) \in Int
  <2>1. e.slot \in Slots
    BY EngineFields
  <2> QED
    BY <1>2, <2>1, Ages, Ranks
<1>4. u \in Queued(s, Q)
  <2>1. CASE Rank(e, t) < Rank(e, u)
    BY <1>1, <2>1 DEF Ordered
  <2>2. CASE ~(Rank(e, t) < Rank(e, u))
    <3>1. ~(Age(e, FB(t)) < Age(e, a))
      BY <1>1, <1>2, <1>3, <2>2
    <3>2. t \in Queued(s, Q) /\ FB(t) = a
      BY <3>1
    <3>3. Handed(e, t)
      BY DEF Ordered
    <3>4. e.lines[a] \in BOOLEAN
      BY EngineFields
    <3>5. t[2] = (IF e.lines[a] THEN 1 ELSE 0)
      BY <1>1, <1>2, <1>3, <2>2, <3>2, <3>3, <3>4 DEF Handed
    <3>6. t = u
      BY <1>2, <3>2, <3>5 DEF LastTask
    <3> QED
      BY <3>2, <3>6
  <2> QED
    BY <2>1, <2>2
<1> HIDE DEF u
<1>5. a = FB(u) /\ LastOf(e, u)
  BY <1>1
<1> QED
  BY <1>4, <1>5 DEF With

\* At the start of a frame no task is left in the engine's slot.
LEMMA SlotIsFree ==
  ASSUME NEW s \in ScType, NEW Q, NEW e \in EngineType, Ordered(s, Q, e), Tokens(s, Q, e),
         e.pc = "recv", e.tokens >= 1 \/ Done(s) >= 1
  PROVE  \A t \in Outstanding(s, Q) : FB(t) # e.slot
<1> SUFFICES ASSUME NEW t \in Outstanding(s, Q), FB(t) = e.slot PROVE FALSE
  OBVIOUS
<1> DEFINE a == NextSlot(e.slot)
           b == Older(e)
           F == With(s, Q, e) \cup Built(e)
<1>1. e.slot \in Slots /\ e.tokens \in Nat /\ Done(s) \in Nat /\ PutRank(e) = 4
  BY EngineFields, DoneMoves DEF PutRank
<1>2. /\ a \in Slots /\ b \in Slots /\ a # b
      /\ Age(e, e.slot) = -1 /\ Age(e, a) = 0 /\ Age(e, b) = 1
  BY <1>1, SlotFacts, Ages DEF Older
<1>3. F \subseteq Slots
  BY <1>1, HeldSlots
<1>4. a \in With(s, Q, e) /\ b \in With(s, Q, e)
  <2> HIDE DEF a, b
  <2>1. 2 * Age(e, a) + (IF e.lines[a] THEN 1 ELSE 0) < PutRank(e)
    BY <1>1, <1>2
  <2>2. 2 * Age(e, b) + (IF e.lines[b] THEN 1 ELSE 0) < PutRank(e)
    BY <1>1, <1>2
  <2>3. Age(e, FB(t)) < Age(e, a) /\ Age(e, FB(t)) < Age(e, b)
    BY <1>2
  <2> QED
    BY <1>2, <2>1, <2>2, <2>3, Behind
<1>5. Cardinality(F) \in Nat /\ Cardinality(F) >= 2
  <2> HIDE DEF a, b
  <2>1. a \in F /\ b \in F
    BY <1>4
  <2> HIDE DEF F
  <2> QED
    BY <1>2, <1>3, <2>1, Pairs
<1>6. e.tokens + Cardinality(F) + Done(s) = 2
  BY DEF Tokens
<1> HIDE DEF F
<1> QED
  BY <1>1, <1>5, <1>6

\* While the engine builds, or has built, a frame, none is left in the next slot.
LEMMA NextIsFree ==
  ASSUME NEW s \in ScType, NEW Q, NEW e \in EngineType, Ordered(s, Q, e), Tokens(s, Q, e),
         EngineOk(e), e.pc # "recv"
  PROVE  \A t \in Queued(s, Q) : FB(t) # NextSlot(e.slot)
<1> SUFFICES ASSUME NEW t \in Queued(s, Q), FB(t) = NextSlot(e.slot) PROVE FALSE
  OBVIOUS
<1> DEFINE a == NextSlot(e.slot)
           b == Older(e)
           c == e.slot
           F == With(s, Q, e) \cup Built(e)
<1>1. c \in Slots /\ e.tokens \in Nat /\ Done(s) \in Nat /\ PutRank(e) >= 4 /\ PutRank(e) \in Nat
  BY EngineFields, DoneMoves DEF PutRank
<1>2. /\ a \in Slots /\ b \in Slots /\ a # b /\ a # c /\ b # c
      /\ Age(e, c) = 2 /\ Age(e, a) = 0 /\ Age(e, b) = 1
  BY <1>1, SlotFacts, Ages DEF Older
<1>3. F \subseteq Slots /\ t \in Outstanding(s, Q)
  BY <1>1, HeldSlots DEF Outstanding
<1>4. a \in With(s, Q, e) /\ b \in With(s, Q, e)
  <2> HIDE DEF a, b
  <2>1. 2 * Age(e, a) + (IF e.lines[a] THEN 1 ELSE 0) < PutRank(e)
    BY <1>1, <1>2
  <2>2. 2 * Age(e, b) + (IF e.lines[b] THEN 1 ELSE 0) < PutRank(e)
    BY <1>1, <1>2
  <2>3. FB(t) = a
    BY DEF a
  <2>4. Age(e, FB(t)) < Age(e, b)
    BY <1>2, <2>3
  <2> QED
    BY <1>2, <1>3, <2>1, <2>2, <2>3, <2>4, Behind
<1>5. c \in F
  <2>1. CASE c \in Built(e)
    BY <2>1
  <2>2. CASE c \notin Built(e)
    <3>1. e.pc \in {"kick0", "put1", "kick1"}
      BY <2>2, EngineFields DEF Built, Places
    <3>2. e.pc = "kick1" \/ ~e.lines[c]
      BY <2>2, <3>1 DEF Built
    <3>3. PutRank(e) = 6
      BY <3>1, <3>2 DEF PutRank
    <3>4. 2 * Age(e, c) + (IF e.lines[c] THEN 1 ELSE 0) < PutRank(e)
      BY <1>2, <3>3
    <3>5. Age(e, FB(t)) < Age(e, c)
      BY <1>2
    <3> HIDE DEF c
    <3>6. c \in With(s, Q, e)
      BY <1>1, <1>3, <3>4, <3>5, Behind
    <3> QED
      BY <3>6
  <2> QED
    BY <2>1, <2>2
<1>6. Cardinality(F) = 3
  <2>1. a \in F /\ b \in F
    BY <1>4
  <2> HIDE DEF F, a, b, c
  <2> QED
    BY <1>2, <1>3, <1>5, <2>1, Pairs
<1>7. e.tokens + Cardinality(F) + Done(s) = 2
  BY DEF Tokens
<1> HIDE DEF F
<1> QED
  BY <1>1, <1>6, <1>7

(* Ranks that all change alike leave the order as it is.                   *)
LEMMA Reordered ==
  ASSUME NEW s \in ScType, NEW Q, NEW e, NEW f, NEW d \in Int, Ordered(s, Q, e),
         \A t \in GfxTasks : Rank(e, t) \in Int /\ Rank(f, t) \in Int,
         \A t \in Outstanding(s, Q) : Handed(f, t) /\ Rank(f, t) = Rank(e, t) + d,
         \A t \in Outstanding(s, Q), u \in GfxTasks :
           Handed(f, u) /\ Rank(f, t) < Rank(f, u) => Handed(e, u) /\ Rank(f, u) = Rank(e, u) + d
  PROVE  Ordered(s, Q, f)
<1>1. /\ \A i \in 1..Len(s.gfxList) : s.gfxList[i] \in Outstanding(s, Q) /\ s.gfxList[i] \in GfxTasks
      /\ \A t \in Q \cap GfxTasks : t \in Outstanding(s, Q)
      /\ s.curRSP \in GfxTasks => s.curRSP \in Outstanding(s, Q)
      /\ s.curRDP \in GfxTasks => s.curRDP \in Outstanding(s, Q)
      /\ \A t \in Queued(s, Q) : t \in Outstanding(s, Q)
      /\ \A t \in Outstanding(s, Q) : t \in GfxTasks
  BY ScFields DEF Outstanding, Queued
<1>2. \A t, u \in Outstanding(s, Q) : Rank(e, t) < Rank(e, u) => Rank(f, t) < Rank(f, u)
  <2> SUFFICES ASSUME NEW t \in Outstanding(s, Q), NEW u \in Outstanding(s, Q), Rank(e, t) < Rank(e, u)
               PROVE  Rank(f, t) < Rank(f, u)
    OBVIOUS
  <2>1. Rank(e, t) \in Int /\ Rank(e, u) \in Int /\ Rank(f, t) = Rank(e, t) + d /\ Rank(f, u) = Rank(e, u) + d
    BY <1>1
  <2> QED
    BY <2>1
<1>3. \A t \in Outstanding(s, Q), u \in GfxTasks :
        Handed(f, u) /\ Rank(f, t) < Rank(f, u) => u \in Queued(s, Q)
  <2> SUFFICES ASSUME NEW t \in Outstanding(s, Q), NEW u \in GfxTasks,
                      Handed(f, u), Rank(f, t) < Rank(f, u)
               PROVE  u \in Queued(s, Q)
    OBVIOUS
  <2>1. /\ Rank(e, t) \in Int /\ Rank(e, u) \in Int /\ Rank(f, t) = Rank(e, t) + d
        /\ Handed(e, u) /\ Rank(f, u) = Rank(e, u) + d
    BY <1>1
  <2>2. Rank(e, t) < Rank(e, u)
    BY <2>1
  <2> QED
    BY <2>1, <2>2 DEF Ordered
<1>4. \A t \in Outstanding(s, Q) : Handed(f, t)
  OBVIOUS
<1>5. \A i, j \in 1..Len(s.gfxList) : i < j => Rank(f, s.gfxList[i]) < Rank(f, s.gfxList[j])
  <2>1. \A i, j \in 1..Len(s.gfxList) : i < j => Rank(e, s.gfxList[i]) < Rank(e, s.gfxList[j])
    BY DEF Ordered
  <2> QED
    BY <1>1, <1>2, <2>1
<1>6. \A i \in 1..Len(s.gfxList) :
         /\ s.curRSP \in GfxTasks => Rank(f, s.curRSP) < Rank(f, s.gfxList[i])
         /\ \A t \in Q \cap GfxTasks : Rank(f, s.gfxList[i]) < Rank(f, t)
  <2>1. \A i \in 1..Len(s.gfxList) :
         /\ s.curRSP \in GfxTasks => Rank(e, s.curRSP) < Rank(e, s.gfxList[i])
         /\ \A t \in Q \cap GfxTasks : Rank(e, s.gfxList[i]) < Rank(e, t)
    BY DEF Ordered
  <2> QED
    BY <1>1, <1>2, <2>1
<1>7. \A t \in Q \cap GfxTasks :
         /\ s.curRSP \in GfxTasks => Rank(f, s.curRSP) < Rank(f, t)
         /\ t # s.curRDP
         /\ \A u \in Q \cap GfxTasks : t = u
  <2>1. \A t \in Q \cap GfxTasks :
         /\ s.curRSP \in GfxTasks => Rank(e, s.curRSP) < Rank(e, t)
         /\ t # s.curRDP
         /\ \A u \in Q \cap GfxTasks : t = u
    BY DEF Ordered
  <2> QED
    BY <1>1, <1>2, <2>1
<1>8. s.curRDP \in GfxTasks =>
         \A t \in Queued(s, Q) : t = s.curRDP \/ Rank(f, s.curRDP) < Rank(f, t)
  <2>1. s.curRDP \in GfxTasks =>
         \A t \in Queued(s, Q) : t = s.curRDP \/ Rank(e, s.curRDP) < Rank(e, t)
    BY DEF Ordered
  <2> QED
    BY <1>1, <1>2, <2>1
<1> QED
  BY <1>3, <1>4, <1>5, <1>6, <1>7, <1>8 DEF Ordered

(* The engine hands over the task that follows all others.                 *)
LEMMA HandedOver ==
  ASSUME NEW s \in ScType, NEW e, NEW f, NEW t \in GfxTasks, NEW Q, Q = {}, NEW R, R = {t},
         Ordered(s, Q, e),
         \A u \in GfxTasks : Rank(e, u) \in Int /\ Rank(f, u) = Rank(e, u),
         \A u \in GfxTasks : Handed(f, u) <=> (Handed(e, u) \/ u = t),
         \A u \in GfxTasks : Handed(e, u) => Rank(e, u) < Rank(e, t)
  PROVE  /\ Ordered(s, R, f)
         /\ Queued(s, R) = Queued(s, Q) \cup {t}
         /\ Outstanding(s, R) = Outstanding(s, Q) \cup {t}
<1> SUFFICES /\ Ordered(s, {t}, f)
             /\ Queued(s, {t}) = Queued(s, {}) \cup {t}
             /\ Outstanding(s, {t}) = Outstanding(s, {}) \cup {t}
  OBVIOUS
<1>0. Ordered(s, {}, e)
  OBVIOUS
<1>1. Queued(s, {t}) = Queued(s, {}) \cup {t}
  BY DEF Queued
<1>2. Outstanding(s, {t}) = Outstanding(s, {}) \cup {t}
  BY <1>1 DEF Outstanding
<1>3. /\ \A i \in 1..Len(s.gfxList) : s.gfxList[i] \in Outstanding(s, {}) /\ s.gfxList[i] \in GfxTasks
      /\ s.curRSP \in GfxTasks => s.curRSP \in Outstanding(s, {})
      /\ s.curRDP \in GfxTasks => s.curRDP \in Outstanding(s, {})
      /\ \A u \in Queued(s, {}) : u \in Outstanding(s, {})
      /\ \A u \in Outstanding(s, {}) : u \in GfxTasks
  BY ScFields DEF Outstanding, Queued
<1>4. \A u \in Outstanding(s, {}) : Handed(e, u) /\ Rank(e, u) < Rank(e, t)
  BY <1>0, <1>3 DEF Ordered
<1>5. \A u \in Outstanding(s, {t}) : Handed(f, u)
  BY <1>2, <1>3, <1>4
<1>6. \A x \in Outstanding(s, {t}), u \in GfxTasks :
        Handed(f, u) /\ Rank(f, x) < Rank(f, u) => u \in Queued(s, {t})
  <2> SUFFICES ASSUME NEW x \in Outstanding(s, {t}), NEW u \in GfxTasks,
                      Handed(f, u), Rank(f, x) < Rank(f, u), u # t
               PROVE  u \in Queued(s, {})
    BY <1>1
  <2>1. Handed(e, u) /\ Rank(e, u) < Rank(e, t) /\ Rank(e, x) < Rank(e, u)
    BY <1>2, <1>3
  <2>2. x # t
    BY <2>1
  <2>3. x \in Outstanding(s, {})
    BY <1>2, <2>2
  <2> QED
    BY <1>0, <2>1, <2>3 DEF Ordered
<1>7. \A i, j \in 1..Len(s.gfxList) : i < j => Rank(f, s.gfxList[i]) < Rank(f, s.gfxList[j])
  BY <1>0, <1>3 DEF Ordered
<1>8. \A i \in 1..Len(s.gfxList) :
         /\ s.curRSP \in GfxTasks => Rank(f, s.curRSP) < Rank(f, s.gfxList[i])
         /\ \A u \in {t} \cap GfxTasks : Rank(f, s.gfxList[i]) < Rank(f, u)
  <2>1. \A i \in 1..Len(s.gfxList) :
         s.curRSP \in GfxTasks => Rank(e, s.curRSP) < Rank(e, s.gfxList[i])
    BY <1>0 DEF Ordered
  <2> QED
    BY <1>3, <1>4, <2>1
<1>9. \A x \in {t} \cap GfxTasks :
         /\ s.curRSP \in GfxTasks => Rank(f, s.curRSP) < Rank(f, x)
         /\ x # s.curRDP
         /\ \A u \in {t} \cap GfxTasks : x = u
  <2>1. t # s.curRDP
    BY <1>3, <1>4
  <2> QED
    BY <1>3, <1>4, <2>1
<1>10. s.curRDP \in GfxTasks =>
         \A u \in Queued(s, {t}) : u = s.curRDP \/ Rank(f, s.curRDP) < Rank(f, u)
  <2>1. s.curRDP \in GfxTasks =>
         \A u \in Queued(s, {}) : u = s.curRDP \/ Rank(e, s.curRDP) < Rank(e, u)
    BY <1>0 DEF Ordered
  <2> QED
    BY <1>1, <1>3, <1>4, <2>1
<1> QED
  <2>1. Ordered(s, {t}, f)
    BY <1>5, <1>6, <1>7, <1>8, <1>9, <1>10 DEF Ordered
  <2> QED
    BY <1>1, <1>2, <2>1

\* What the engine's fields decide.
LEMMA RanksOf ==
  ASSUME NEW e \in EngineType
  PROVE  /\ e.slot \in Slots /\ e.pc \in Places
         /\ \A t \in GfxTasks :
              /\ Rank(e, t) \in Int /\ FB(t) \in Slots /\ t[2] \in {0, 1} /\ t = GfxTask(FB(t), t[2])
              /\ FB(t) = e.slot => Rank(e, t) = (IF e.pc = "recv" THEN t[2] - 2 ELSE 4 + t[2])
              /\ FB(t) # e.slot => Rank(e, t) \in 0..3
<1>1. e.slot \in Slots /\ e.pc \in Places
  BY EngineFields
<1>2. ASSUME NEW t \in GfxTasks
      PROVE  /\ Rank(e, t) \in Int /\ FB(t) \in Slots /\ t[2] \in {0, 1} /\ t = GfxTask(FB(t), t[2])
             /\ FB(t) = e.slot => Rank(e, t) = (IF e.pc = "recv" THEN t[2] - 2 ELSE 4 + t[2])
             /\ FB(t) # e.slot => Rank(e, t) \in 0..3
  <2>1. FB(t) \in Slots /\ t[2] \in {0, 1} /\ t = GfxTask(FB(t), t[2])
    BY GfxParts
  <2>2. Rank(e, t) \in Int /\ Rank(e, t) = 2 * Age(e, FB(t)) + t[2]
    BY <1>1, Ranks
  <2>3. /\ FB(t) = e.slot => Age(e, FB(t)) = (IF e.pc = "recv" THEN -1 ELSE 2)
        /\ FB(t) # e.slot => Age(e, FB(t)) \in 0..1
    BY DEF Age
  <2> QED
    BY <2>1, <2>2, <2>3
<1> QED
  BY <1>1, <1>2

\* Where the engine is, and which frames have lines, is all the order depends on.
LEMMA SameView ==
  ASSUME NEW s, NEW Q, NEW e, NEW f, f.slot = e.slot, f.pc = e.pc, f.lines = e.lines
  PROVE  /\ \A t : Rank(f, t) = Rank(e, t) /\ (Handed(f, t) <=> Handed(e, t)) /\ (LastOf(f, t) <=> LastOf(e, t))
         /\ PutRank(f) = PutRank(e) /\ PutSlot(f) = PutSlot(e) /\ Built(f) = Built(e) /\ Older(f) = Older(e)
         /\ With(s, Q, f) = With(s, Q, e)
         /\ Ordered(s, Q, e) => Ordered(s, Q, f)
<1>1. \A t : Rank(f, t) = Rank(e, t)
  BY DEF Rank, Age
<1>2. PutRank(f) = PutRank(e)
  BY DEF PutRank
<1>3. \A t : Handed(f, t) <=> Handed(e, t)
  BY <1>1, <1>2 DEF Handed
<1>4. \A t : LastOf(f, t) <=> LastOf(e, t)
  BY DEF LastOf
<1>5. With(s, Q, f) = With(s, Q, e)
  BY <1>4 DEF With
<1>6. PutSlot(f) = PutSlot(e) /\ Built(f) = Built(e) /\ Older(f) = Older(e)
  BY <1>2 DEF PutSlot, Built, Older
<1>7. Ordered(s, Q, e) => Ordered(s, Q, f)
  BY <1>1, <1>3 DEF Ordered
<1> QED
  BY <1>1, <1>2, <1>3, <1>4, <1>5, <1>6, <1>7

\* Frames that the RSP does not have are counted apart.
LEMMA BuiltApart ==
  ASSUME NEW F, F \subseteq Slots, NEW a \in Slots, a \notin F
  PROVE  Cardinality(F \cup {a}) = Cardinality(F) + 1 /\ Cardinality(F) \in Nat /\ F \cup {} = F
<1>1. IsFiniteSet(F) /\ Cardinality(F) \in Nat
  BY FramesFinite
<1> QED
  BY <1>1, FS_AddElement

\* A task in slot a would have it among those with the RSP, if it is their frame's last.
LEMMA NotWith ==
  ASSUME NEW s, NEW Q, NEW e, NEW a, \A t \in Queued(s, Q) : FB(t) # a
  PROVE  a \notin With(s, Q, e)
  BY DEF With

RanksShift(s, Q, e, f) ==
    \E d \in Int : \A t \in Outstanding(s, Q) : Rank(f, t) = Rank(e, t) + d

LEMMA RecvKeeps ==
  ASSUME TasksInv, EngineRecv
  PROVE  /\ TasksInv' /\ cmdQ' = cmdQ /\ video' = video
         /\ Outstanding(sc', Range(cmdQ')) = Outstanding(sc, Range(cmdQ))
         /\ Undrawn(sc', Range(cmdQ')) = Undrawn(sc, Range(cmdQ))
         /\ RanksShift(sc, Range(cmdQ), engine, engine') /\ PutSlot(engine') = PutSlot(engine)
         /\ engine'.predict = engine.predict
         /\ sc'.curRDP = sc.curRDP /\ sc'.rdp = sc.rdp
<1> DEFINE Q == Range(cmdQ)
           e == engine
           f == engine'
           g == sc.gfxMsgQ
           starts == f.pc = "draw"
<1>1. /\ TasksTypes /\ SchedInv(sc, Q, e, audio) /\ EngineOk(e) /\ EventsDue(sc, interruptQ)
      /\ Tokens(sc, Q, e) /\ Lists(sc, Q, e) /\ Waits(cmdQ, interruptQ, e, audio)
  BY DEF TasksInv
<1>2. /\ Waiting /\ e.pc = "recv" /\ g # <<>> /\ sc' = [sc EXCEPT !.gfxMsgQ = Tail(@)]
      /\ video' = video /\ interruptQ' = interruptQ /\ cmdQ' = cmdQ /\ audio' = audio
      /\ f = IF Head(g).type = 1 THEN CEngineApp__Retrace(e)
             ELSE IF e.switching THEN [e EXCEPT !.tokens = @ + 1] ELSE [e EXCEPT !.pc = "draw"]
  BY DEF EngineRecv
<1>3. sc \in ScType /\ e \in EngineType /\ e.tokens \in Nat /\ e.slot \in Slots /\ e.switching \in BOOLEAN
  BY <1>1, EngineFields DEF TasksTypes
<1>4. Head(g) \in Messages /\ Tail(g) \in Seq(Messages) /\ Head(g).type \in {1, 2}
  BY <1>2, <1>3, ScFields, MessageTypes
<1>5. /\ sc' \in ScType /\ sc'.gfxList = sc.gfxList /\ sc'.audioList = sc.audioList
      /\ sc'.doAudio = sc.doAudio /\ sc'.curRSP = sc.curRSP /\ sc'.curRDP = sc.curRDP
      /\ sc'.state = sc.state /\ sc'.audioReply = sc.audioReply /\ sc'.gfxMsgQ = Tail(g)
      /\ sc'.rsp = sc.rsp /\ sc'.rdp = sc.rdp
  BY <1>2, <1>3, <1>4 DEF ScType
<1>6. Done(sc) = Done(sc') + (IF Head(g).type = 2 THEN 1 ELSE 0) /\ Done(sc) \in Nat /\ Done(sc') \in Nat
  BY <1>2, <1>3, <1>5, DoneMoves
<1>7. /\ f \in EngineType /\ f.slot = e.slot /\ f.lines = e.lines /\ f.predict = e.predict
      /\ f.list = e.list /\ f.taskList = e.taskList
      /\ \/ /\ f.pc = "draw" /\ ~f.switching
            /\ e.tokens >= 1 \/ Done(sc) >= 1
            /\ f.tokens + Done(sc') + 1 = e.tokens + Done(sc)
         \/ /\ f.pc = e.pc /\ f.tokens + Done(sc') = e.tokens + Done(sc)
  <2>1. CASE Head(g).type = 1
    <3> DEFINE still == e.switching /\ ~TokensBack
    <3>1. f = IF ~still /\ e.tokens # 0
              THEN [e EXCEPT !.switching = FALSE, !.pc = "draw", !.tokens = @ - 1]
              ELSE [e EXCEPT !.switching = still]
      BY <1>2, <2>1 DEF CEngineApp__Retrace
    <3>2. still \in BOOLEAN
      OBVIOUS
    <3> HIDE DEF still
    <3>3. CASE ~still /\ e.tokens # 0
      <4>1. f = [e EXCEPT !.switching = FALSE, !.pc = "draw", !.tokens = @ - 1] /\ e.tokens - 1 \in Nat
        BY <1>3, <3>1, <3>3
      <4>2. f \in EngineType /\ f.slot = e.slot /\ f.lines = e.lines /\ f.predict = e.predict
            /\ f.list = e.list /\ f.taskList = e.taskList /\ f.pc = "draw" /\ f.switching = FALSE
            /\ f.tokens = e.tokens - 1
        BY <1>3, <4>1 DEF EngineType, Places
      <4> QED
        BY <1>3, <1>6, <2>1, <3>3, <4>2
    <3>4. CASE ~(~still /\ e.tokens # 0)
      <4>1. f = [e EXCEPT !.switching = still]
        BY <3>1, <3>4
      <4>2. f \in EngineType /\ f.slot = e.slot /\ f.lines = e.lines /\ f.predict = e.predict
            /\ f.list = e.list /\ f.taskList = e.taskList /\ f.pc = e.pc /\ f.tokens = e.tokens
        BY <1>3, <3>2, <4>1 DEF EngineType
      <4> QED
        BY <1>3, <1>6, <2>1, <4>2
    <3> QED
      BY <3>3, <3>4
  <2>2. CASE Head(g).type = 2 /\ e.switching
    <3>1. f = [e EXCEPT !.tokens = @ + 1]
      BY <1>2, <2>2
    <3>2. f \in EngineType /\ f.slot = e.slot /\ f.lines = e.lines /\ f.predict = e.predict
          /\ f.list = e.list /\ f.taskList = e.taskList /\ f.pc = e.pc /\ f.tokens = e.tokens + 1
      BY <1>3, <3>1 DEF EngineType
    <3> QED
      BY <1>3, <1>6, <2>2, <3>2
  <2>3. CASE Head(g).type = 2 /\ ~e.switching
    <3>1. f = [e EXCEPT !.pc = "draw"]
      BY <1>2, <2>3
    <3>2. f \in EngineType /\ f.slot = e.slot /\ f.lines = e.lines /\ f.predict = e.predict
          /\ f.list = e.list /\ f.taskList = e.taskList /\ f.pc = "draw" /\ f.tokens = e.tokens
          /\ f.switching = e.switching
      BY <1>3, <3>1 DEF EngineType, Places
    <3> QED
      BY <1>3, <1>6, <2>3, <3>2
  <2> QED
    BY <1>3, <1>4, <2>1, <2>2, <2>3
<1> HIDE DEF Q, e, f, g
<1>8. Running(sc')
  BY <1>1, <1>5 DEF SchedInv, Running
<1>9. /\ SchedInv(sc', Q, e, audio) /\ Queued(sc', Q) = Queued(sc, Q)
      /\ Outstanding(sc', Q) = Outstanding(sc, Q) /\ Undrawn(sc', Q) = Undrawn(sc, Q)
  BY <1>1, <1>5, <1>8, Unaffected
<1>10. EventsDue(sc', interruptQ')
  BY <1>1, <1>2, <1>5 DEF EventsDue, SpDue, DpDue
<1>11. Waits(cmdQ', interruptQ', f, audio')
  <2>1. Range(cmdQ) \cap GfxTasks = {}
    BY <1>2, NotTold DEF e
  <2> QED
    BY <1>1, <1>2, <2>1 DEF Waits
<1>12. CASE f.pc = e.pc
  <2>1. /\ \A t : Rank(f, t) = Rank(e, t)
        /\ PutSlot(f) = PutSlot(e) /\ Built(f) = Built(e) /\ Older(f) = Older(e)
        /\ With(sc', Q, f) = With(sc', Q, e)
        /\ Ordered(sc', Q, e) => Ordered(sc', Q, f)
    BY <1>7, <1>12, SameView
  <2>2. With(sc', Q, f) = With(sc, Q, e)
    BY <1>9, <2>1 DEF With
  <2>3. SchedInv(sc', Q, f, audio)
    BY <1>9, <2>1 DEF SchedInv
  <2>4. Tokens(sc', Q, f)
    <3>1. f.tokens + Done(sc') = e.tokens + Done(sc) /\ f.tokens \in Nat
      BY <1>2, <1>7, <1>12, EngineFields
    <3> DEFINE F == With(sc, Q, e) \cup Built(e)
    <3>2. F \subseteq Slots /\ Cardinality(F) \in Nat
      BY <1>3, HeldSlots, FramesFinite
    <3>3. e.tokens + Cardinality(F) + Done(sc) = 2
      BY <1>1 DEF Tokens
    <3> HIDE DEF F
    <3>4. f.tokens + Cardinality(F) + Done(sc') = 2
      BY <1>3, <1>6, <3>1, <3>2, <3>3
    <3> QED
      BY <2>1, <2>2, <3>4 DEF Tokens, F
  <2>5. Lists(sc', Q, f)
    BY <1>1, <1>7, <1>9, <2>1, <2>2 DEF Lists
  <2>6. EngineOk(f)
    BY <1>2, <1>12 DEF EngineOk, e
  <2>7. RanksShift(sc, Q, e, f)
    <3>1. \A t \in Outstanding(sc, Q) : Rank(f, t) = Rank(e, t) + 0
      <4>1. \A t \in Outstanding(sc, Q) : t \in GfxTasks
        BY DEF Outstanding, Queued
      <4> QED
        BY <1>3, <2>1, <4>1, RanksOf
    <3> QED
      BY <3>1 DEF RanksShift
  <2>8. TasksInv'
    BY <1>1, <1>2, <1>5, <1>7, <1>10, <1>11, <2>3, <2>4, <2>5, <2>6 DEF TasksInv, TasksTypes, Q, f
  <2> QED
    BY <1>2, <1>5, <1>7, <1>9, <2>1, <2>7, <2>8 DEF Q, e, f
<1>13. CASE f.pc = "draw" /\ f.pc # e.pc
  <2>1. /\ ~f.switching /\ (e.tokens >= 1 \/ Done(sc) >= 1)
        /\ f.tokens + Done(sc') + 1 = e.tokens + Done(sc)
    BY <1>7, <1>13
  <2>2. Ordered(sc, Q, e) /\ Ordered(sc', Q, e)
    BY <1>1, <1>9 DEF SchedInv
  <2>3. \A t \in Outstanding(sc, Q) : FB(t) # e.slot
    BY <1>1, <1>2, <1>3, <2>1, <2>2, SlotIsFree DEF e
  <2>4. /\ PutRank(e) = 4 /\ PutRank(f) = 4 /\ PutSlot(e) = e.slot /\ PutSlot(f) = e.slot
        /\ Built(e) = {} /\ Built(f) = {e.slot} /\ Older(f) = Older(e)
    BY <1>2, <1>7, <1>13 DEF PutRank, PutSlot, Built, Older, e
  <2>5. /\ \A t \in GfxTasks : Rank(e, t) \in Int /\ Rank(f, t) \in Int
        /\ \A t \in GfxTasks : FB(t) = e.slot => Rank(f, t) >= 4
        /\ \A t \in GfxTasks : FB(t) # e.slot => Rank(f, t) = Rank(e, t)
    <3>1. /\ \A t \in GfxTasks : Rank(e, t) \in Int /\ Rank(f, t) \in Int
          /\ \A t \in GfxTasks : FB(t) = e.slot => Rank(f, t) >= 4
      BY <1>3, <1>7, <1>13, RanksOf
    <3>2. \A t \in GfxTasks : FB(t) # e.slot => Rank(f, t) = Rank(e, t)
      BY <1>7 DEF Rank, Age
    <3> QED
      BY <3>1, <3>2
  <2>6. \A t \in Outstanding(sc, Q) : t \in GfxTasks /\ Handed(e, t)
    BY <2>2 DEF Ordered, Outstanding, Queued
  <2>7. \A t \in GfxTasks : Handed(f, t) <=> (Handed(e, t) /\ FB(t) # e.slot)
    BY <1>7, <2>4, <2>5 DEF Handed
  <2>8. Ordered(sc', Q, f)
    <3>1. \A t \in Outstanding(sc', Q) : Handed(f, t) /\ Rank(f, t) = Rank(e, t) + 0
      BY <1>9, <2>3, <2>5, <2>6, <2>7
    <3>2. \A t \in Outstanding(sc', Q), u \in GfxTasks :
            Handed(f, u) /\ Rank(f, t) < Rank(f, u) => Handed(e, u) /\ Rank(f, u) = Rank(e, u) + 0
      BY <2>5, <2>7
    <3> QED
      BY <1>5, <2>2, <2>5, <3>1, <3>2, Reordered
  <2>9. SchedInv(sc', Q, f, audio)
    BY <1>9, <2>8 DEF SchedInv
  <2>10. With(sc', Q, f) = With(sc, Q, e) /\ With(sc, Q, e) \subseteq Slots /\ e.slot \notin With(sc, Q, e)
    <3>1. With(sc', Q, f) = With(sc, Q, e)
      BY <1>7, <1>9 DEF With, LastOf
    <3>2. \A t \in Queued(sc, Q) : FB(t) # e.slot
      BY <2>3 DEF Outstanding
    <3> QED
      BY <1>3, <3>1, <3>2, HeldSlots, NotWith
  <2>11. Tokens(sc', Q, f)
    <3> DEFINE F == With(sc, Q, e)
    <3>1. Cardinality(F \cup {e.slot}) = Cardinality(F) + 1 /\ Cardinality(F) \in Nat /\ F \cup {} = F
      BY <1>3, <2>10, BuiltApart
    <3>2. e.tokens + Cardinality(F) + Done(sc) = 2
      BY <1>1, <2>4, <3>1 DEF Tokens
    <3>3. f.tokens \in Nat
      BY <1>7, EngineFields
    <3> HIDE DEF F
    <3>4. f.tokens + (Cardinality(F) + 1) + Done(sc') = 2
      BY <1>3, <1>6, <2>1, <3>1, <3>2, <3>3
    <3>5. f.tokens + Cardinality(F \cup {e.slot}) + Done(sc') = 2
      BY <3>1, <3>4
    <3> QED
      BY <2>4, <2>10, <3>5 DEF Tokens, F
  <2>12. Lists(sc', Q, f)
    BY <1>1, <1>7, <1>9, <2>4, <2>10 DEF Lists
  <2>13. EngineOk(f)
    BY <1>13, <2>1 DEF EngineOk
  <2>14. RanksShift(sc, Q, e, f)
    <3>1. \A t \in Outstanding(sc, Q) : Rank(f, t) = Rank(e, t) + 0
      BY <2>3, <2>5, <2>6
    <3> QED
      BY <3>1 DEF RanksShift
  <2>15. TasksInv'
    BY <1>1, <1>2, <1>5, <1>7, <1>10, <1>11, <2>9, <2>11, <2>12, <2>13 DEF TasksInv, TasksTypes, Q, f
  <2> QED
    BY <1>2, <1>5, <1>7, <1>9, <2>4, <2>14, <2>15 DEF Q, e, f
<1> QED
  BY <1>7, <1>12, <1>13

LEMMA NothingPut ==
  ASSUME TasksInv, Waiting, AudioWaiting, engine.pc \notin {"kick0", "kick1"}
  PROVE  cmdQ = <<>> /\ Range(cmdQ) = {}
<1>1. Audio \notin Range(cmdQ) /\ Range(cmdQ) \cap GfxTasks = {}
  BY NotTold DEF AudioWaiting
<1>2. cmdQ \in Batches
  BY DEF TasksInv, Waits
<1>3. cmdQ # <<Audio>>
  BY <1>1 DEF Range
<1>4. ASSUME NEW t \in GfxTasks, cmdQ = <<t>> \/ cmdQ = <<t, Audio>> PROVE FALSE
  <2>1. t \in Range(cmdQ)
    BY <1>4 DEF Range
  <2> QED
    BY <1>1, <2>1
<1> QED
  BY <1>2, <1>3, <1>4, BatchFacts DEF Batches

LEMMA PutOne ==
  ASSUME NEW t \in GfxTasks
  PROVE  Append(<<>>, t) = <<t>> /\ Range(<<t>>) = {t} /\ <<t>> \in Batches
<1>1. Append(<<>>, t) = <<t>>
  <2>1. <<>> \in Seq(GfxTasks) /\ Len(<<>>) = 0
    OBVIOUS
  <2>2. Append(<<>>, t) \in Seq(GfxTasks) /\ Len(Append(<<>>, t)) = 1 /\ Append(<<>>, t)[1] = t
    BY <2>1
  <2>3. ASSUME NEW q \in Seq(GfxTasks), Len(q) = 1 PROVE q = <<q[1]>>
    BY <2>3
  <2> QED
    BY <2>2, <2>3
<1>2. Range(<<t>>) = {t}
  BY DEF Range
<1> QED
  BY <1>1, <1>2 DEF Batches

\* What follows for the frames when the engine hands over a task.
PutsTask(t) ==
    /\ cmdQ = <<>> /\ cmdQ' = <<t>> /\ t \in GfxTasks /\ FB(t) = PutSlot(engine)
    /\ \A u \in GfxTasks : Rank(engine', u) = Rank(engine, u)
    /\ \A u \in Outstanding(sc, {}) : Rank(engine, u) < Rank(engine, t)
    /\ Outstanding(sc', {t}) = Outstanding(sc, {}) \cup {t}
    /\ Undrawn(sc', {t}) = Undrawn(sc, {}) \cup {t}

LEMMA UndrawnPut ==
  ASSUME NEW s, NEW t \in GfxTasks, Outstanding(s, {t}) = Outstanding(s, {}) \cup {t}
  PROVE  Undrawn(s, {t}) = Undrawn(s, {}) \cup {t}
  BY DEF Undrawn

LEMMA PutKeeps ==
  ASSUME TasksInv, EnginePut
  PROVE  /\ TasksInv' /\ video' = video /\ sc' = sc /\ engine'.predict = engine.predict
         /\ engine.pc # "recv" /\ \E t : PutsTask(t)
<1> DEFINE e == engine
           f == engine'
           t == GfxTask(e.slot, 1)
<1>1. /\ TasksTypes /\ SchedInv(sc, Range(cmdQ), e, audio) /\ EngineOk(e) /\ EventsDue(sc, interruptQ)
      /\ Tokens(sc, Range(cmdQ), e) /\ Lists(sc, Range(cmdQ), e) /\ Waits(cmdQ, interruptQ, e, audio)
  BY DEF TasksInv
<1>2. /\ Waiting /\ AudioWaiting /\ e.pc = "put1" /\ cmdQ' = Append(cmdQ, t) /\ f = [e EXCEPT !.pc = "kick1"]
      /\ sc' = sc /\ video' = video /\ interruptQ' = interruptQ /\ audio' = audio
  BY DEF EnginePut, Put
<1>3. cmdQ = <<>> /\ Range(cmdQ) = {}
  BY <1>2, NothingPut
<1>4. sc \in ScType /\ e \in EngineType /\ e.slot \in Slots
  BY <1>1, EngineFields DEF TasksTypes
<1>5. t \in GfxTasks /\ FB(t) = e.slot /\ t[2] = 1
  BY <1>4, GfxMade
<1>6. cmdQ' = <<t>> /\ Range(cmdQ') = {t} /\ cmdQ' \in Batches
  BY <1>2, <1>3, <1>5, PutOne
<1>7. /\ f \in EngineType /\ f.slot = e.slot /\ f.lines = e.lines /\ f.predict = e.predict /\ f.pc = "kick1"
      /\ f.list = e.list /\ f.taskList = e.taskList /\ f.tokens = e.tokens /\ f.switching = e.switching
  BY <1>2, <1>4 DEF EngineType, Places
<1>8. /\ e.lines[e.slot] /\ ~e.switching /\ \A u \in GfxTasks : FB(u) = e.slot => e.taskList[u] = e.list[e.slot]
  BY <1>1, <1>2 DEF EngineOk
<1> HIDE DEF e, f, t
<1>9. /\ PutRank(e) = 5 /\ PutRank(f) = 6 /\ PutSlot(e) = e.slot
      /\ Built(e) = {e.slot} /\ Built(f) = {} /\ Older(f) = Older(e)
  BY <1>2, <1>7, <1>8 DEF PutRank, PutSlot, Built, Older
<1>10. \A u \in GfxTasks :
         /\ Rank(e, u) \in Int /\ Rank(f, u) = Rank(e, u) /\ FB(u) \in Slots /\ u[2] \in {0, 1}
         /\ u = GfxTask(FB(u), u[2])
         /\ FB(u) = e.slot => Rank(e, u) = 4 + u[2]
         /\ FB(u) # e.slot => Rank(e, u) \in 0..3
  <2>1. \A u \in GfxTasks :
         /\ Rank(e, u) \in Int /\ FB(u) \in Slots /\ u[2] \in {0, 1} /\ u = GfxTask(FB(u), u[2])
         /\ FB(u) = e.slot => Rank(e, u) = 4 + u[2]
         /\ FB(u) # e.slot => Rank(e, u) \in 0..3
    BY <1>2, <1>4, RanksOf
  <2>2. \A u \in GfxTasks : Rank(f, u) = Rank(e, u)
    BY <1>2, <1>7 DEF Rank, Age
  <2> QED
    BY <2>1, <2>2
<1>11. \A u \in GfxTasks : Handed(f, u) <=> (Handed(e, u) \/ u = t)
  <2> TAKE u \in GfxTasks
  <2>1. Rank(e, t) = 5
    BY <1>5, <1>10
  <2>2. CASE u = t
    BY <1>5, <1>7, <1>8, <1>9, <1>10, <2>1, <2>2 DEF Handed
  <2>3. CASE u # t
    <3>1. Rank(e, u) # 5
      <4>1. FB(u) = e.slot => u[2] # 1
        BY <1>10, <2>3 DEF t
      <4> QED
        BY <1>10, <4>1
    <3>2. Rank(e, u) < 6 <=> Rank(e, u) < 5
      BY <1>10, <3>1
    <3> QED
      BY <1>7, <1>9, <1>10, <2>3, <3>2 DEF Handed
  <2> QED
    BY <2>2, <2>3
<1>12. \A u \in GfxTasks : Handed(e, u) => Rank(e, u) < Rank(e, t)
  BY <1>5, <1>9, <1>10 DEF Handed
<1>13. Ordered(sc, {}, e)
  BY <1>1, <1>3 DEF SchedInv
<1>14. /\ Ordered(sc, {t}, f)
       /\ Queued(sc, {t}) = Queued(sc, {}) \cup {t}
       /\ Outstanding(sc, {t}) = Outstanding(sc, {}) \cup {t}
  <2>1. \A u \in GfxTasks : Rank(e, u) \in Int /\ Rank(f, u) = Rank(e, u)
    BY <1>10
  <2> DEFINE Q == {}
             R == {t}
  <2>2. sc \in ScType /\ t \in GfxTasks /\ Q = {} /\ R = {t} /\ Ordered(sc, Q, e)
    BY <1>4, <1>5, <1>13
  <2> HIDE DEF Q, R
  <2>3. /\ Ordered(sc, R, f)
        /\ Queued(sc, R) = Queued(sc, Q) \cup {t}
        /\ Outstanding(sc, R) = Outstanding(sc, Q) \cup {t}
    BY <1>11, <1>12, <2>1, <2>2, HandedOver
  <2> QED
    BY <2>3 DEF Q, R
<1>15. Undrawn(sc, {t}) = Undrawn(sc, {}) \cup {t}
  BY <1>5, <1>14, UndrawnPut
<1>16. SchedInv(sc, {t}, f, audio)
  <2>1. Sound(sc, {t}, audio)
    BY <1>1, <1>3, <1>5, Names DEF SchedInv, Sound
  <2> QED
    BY <1>1, <1>14, <2>1 DEF SchedInv
<1>17. With(sc, {t}, f) = With(sc, {}, e) \cup {e.slot}
  <2>1. \A u \in GfxTasks : LastOf(f, u) <=> LastOf(e, u)
    BY <1>7 DEF LastOf
  <2>2. LastOf(f, t) /\ FB(t) = e.slot
    BY <1>5 DEF LastOf
  <2>3. \A u \in Queued(sc, {}) : u \in GfxTasks
    BY DEF Queued
  <2> QED
    BY <1>14, <2>1, <2>2, <2>3 DEF With
<1>18. Tokens(sc, {t}, f)
  <2>1. With(sc, {t}, f) \cup Built(f) = With(sc, {}, e) \cup Built(e)
    BY <1>9, <1>17
  <2> QED
    BY <1>1, <1>3, <1>7, <2>1 DEF Tokens
<1>19. Lists(sc, {t}, f)
  <2>1. Older(e) # e.slot
    BY <1>4, SlotFacts DEF Older
  <2>2. /\ \A u \in Queued(sc, {}) : e.taskList[u] = e.list[FB(u)]
        /\ Older(e) \in With(sc, {}, e) => e.list[e.slot] = (e.list[Older(e)] + 1) % DisplayLists
    BY <1>1, <1>3 DEF Lists
  <2>3. e.taskList[t] = e.list[FB(t)]
    BY <1>5, <1>8
  <2> QED
    BY <1>7, <1>9, <1>14, <1>17, <2>1, <2>2, <2>3 DEF Lists
<1>20. EngineOk(f)
  BY <1>7, <1>8 DEF EngineOk
<1>21. Waits(cmdQ', interruptQ', f, audio')
  <2>1. Audio \notin Range(cmdQ')
    BY <1>5, <1>6, Names
  <2> QED
    BY <1>6, <1>7, <2>1 DEF Waits
<1>22. TasksInv'
  BY <1>1, <1>2, <1>6, <1>7, <1>16, <1>18, <1>19, <1>20, <1>21 DEF TasksInv, TasksTypes, f
<1>23. \A u \in Outstanding(sc, {}) : Rank(e, u) < Rank(e, t)
  BY <1>12, <1>13 DEF Ordered, Outstanding, Queued
<1>24. PutsTask(t)
  BY <1>2, <1>3, <1>5, <1>6, <1>9, <1>10, <1>14, <1>15, <1>23 DEF PutsTask, e, f
<1> QED
  BY <1>2, <1>7, <1>22, <1>24 DEF e, f

\* What the engine decides when it draws a frame, and the list that its tasks use.
Drawn(e, p, l) == [e EXCEPT !.predict[e.slot] = p, !.lines[e.slot] = l]
Used(e) == [t \in GfxTasks |-> IF FB(t) = e.slot THEN e.list[e.slot] ELSE e.taskList[t]]

LEMMA DrawnFields ==
  ASSUME NEW e \in EngineType, NEW p \in Nat, NEW l \in BOOLEAN
  PROVE  /\ Drawn(e, p, l) \in EngineType /\ Drawn(e, p, l).slot = e.slot /\ Drawn(e, p, l).pc = e.pc
         /\ Drawn(e, p, l).tokens = e.tokens /\ Drawn(e, p, l).switching = e.switching
         /\ Drawn(e, p, l).list = e.list /\ Drawn(e, p, l).taskList = e.taskList
         /\ Drawn(e, p, l).lines = [e.lines EXCEPT ![e.slot] = l]
         /\ Drawn(e, p, l).predict = [e.predict EXCEPT ![e.slot] = p]
<1>2. e.slot \in Slots /\ e.predict \in [Slots -> Nat] /\ e.lines \in [Slots -> BOOLEAN]
  BY EngineFields
<1> DEFINE pr == [e.predict EXCEPT ![e.slot] = p]
           li == [e.lines EXCEPT ![e.slot] = l]
           d == Drawn(e, p, l)
<1>3. pr \in [Slots -> Nat] /\ li \in [Slots -> BOOLEAN]
  BY <1>2
<1>4. d = [e EXCEPT !.predict = pr, !.lines = li]
  BY DEF EngineType, Drawn
<1> HIDE DEF pr, li, d
<1>5. /\ d \in EngineType /\ d.slot = e.slot /\ d.pc = e.pc /\ d.tokens = e.tokens
      /\ d.switching = e.switching /\ d.list = e.list /\ d.taskList = e.taskList
      /\ d.lines = li /\ d.predict = pr
  BY <1>3, <1>4 DEF EngineType
<1> QED
  BY <1>5 DEF pr, li, d

LEMMA DrawMeans ==
  ASSUME EngineDraw
  PROVE  /\ Waiting /\ AudioWaiting /\ engine.pc = "draw"
         /\ video' = video /\ interruptQ' = interruptQ /\ audio' = audio
         /\ \E p \in MayPredict, l \in Lines :
              \/ /\ engine' = [Drawn(engine, p, l) EXCEPT !.pc = "kick0", !.taskList = Used(engine)]
                 /\ Put(GfxTask(engine.slot, 0)) /\ sc' = sc
              \/ /\ \E fade \in Fades :
                      engine' = [Drawn(engine, p, l) EXCEPT !.pc = "recv", !.switching = fade]
                 /\ sc' = [sc EXCEPT !.gfxMsgQ = Append(@, DoneMsg(engine.slot))] /\ cmdQ' = cmdQ
<1>1. Waiting /\ AudioWaiting /\ engine.pc = "draw"
  BY DEF EngineDraw
<1>2. video' = video /\ interruptQ' = interruptQ /\ audio' = audio
  BY DEF EngineDraw
<1>3. PICK p \in MayPredict, l \in Lines :
        LET drawn == [engine EXCEPT !.predict[engine.slot] = p, !.lines[engine.slot] = l]
            used == [t \in GfxTasks |-> IF FB(t) = engine.slot
                                        THEN engine.list[engine.slot] ELSE engine.taskList[t]]
        IN  \/ /\ engine' = [drawn EXCEPT !.pc = "kick0", !.taskList = used]
               /\ Put(GfxTask(engine.slot, 0)) /\ UNCHANGED sc
            \/ /\ \E fade \in Fades : engine' = [drawn EXCEPT !.pc = "recv", !.switching = fade]
               /\ sc' = [sc EXCEPT !.gfxMsgQ = Append(@, DoneMsg(engine.slot))]
               /\ UNCHANGED cmdQ
  BY Zenon DEF EngineDraw
<1> QED
  BY Zenon, <1>1, <1>2, <1>3 DEF Drawn, Used

LEMMA DrawCases ==
  ASSUME TasksInv, EngineDraw
  PROVE  /\ engine' \in EngineType /\ engine'.slot = engine.slot
         /\ engine'.tokens = engine.tokens /\ engine'.list = engine.list
         /\ \A a \in Slots : a # engine.slot => engine'.lines[a] = engine.lines[a]
         /\ \E p \in MayPredict : engine'.predict = [engine.predict EXCEPT ![engine.slot] = p]
         /\ \/ /\ engine'.pc = "kick0" /\ ~engine'.switching
               /\ cmdQ' = Append(cmdQ, GfxTask(engine.slot, 0)) /\ sc' = sc
               /\ engine'.taskList = Used(engine)
            \/ /\ engine'.pc = "recv" /\ engine'.taskList = engine.taskList
               /\ cmdQ' = cmdQ /\ sc' = [sc EXCEPT !.gfxMsgQ = Append(@, DoneMsg(engine.slot))]
<1> DEFINE e == engine
           f == engine'
<1>1. e \in EngineType /\ e.pc = "draw" /\ ~e.switching
  <2>1. e.pc = "draw"
    BY DrawMeans
  <2> QED
    BY <2>1 DEF TasksInv, TasksTypes, EngineOk
<1>2. /\ e.slot \in Slots /\ e.list \in [Slots -> 0..DisplayLists - 1]
      /\ e.taskList \in [GfxTasks -> 0..DisplayLists - 1] /\ e.lines \in [Slots -> BOOLEAN]
  BY <1>1, EngineFields
<1>3. Used(e) \in [GfxTasks -> 0..DisplayLists - 1] /\ "kick0" \in Places /\ "recv" \in Places
  BY <1>2 DEF Places, Used
<1>4. PICK p \in MayPredict, l \in Lines :
        \/ /\ f = [Drawn(e, p, l) EXCEPT !.pc = "kick0", !.taskList = Used(e)]
           /\ Put(GfxTask(e.slot, 0)) /\ sc' = sc
        \/ /\ \E fade \in Fades : f = [Drawn(e, p, l) EXCEPT !.pc = "recv", !.switching = fade]
           /\ sc' = [sc EXCEPT !.gfxMsgQ = Append(@, DoneMsg(e.slot))] /\ cmdQ' = cmdQ
  BY DrawMeans
<1> DEFINE d == Drawn(e, p, l)
<1>5. p \in Nat /\ l \in BOOLEAN
  BY SchedulerAssumption DEF MayPredict
<1>6. /\ d \in EngineType /\ d.slot = e.slot /\ d.tokens = e.tokens /\ d.switching = e.switching
      /\ d.list = e.list /\ d.taskList = e.taskList
      /\ d.lines = [e.lines EXCEPT ![e.slot] = l] /\ d.predict = [e.predict EXCEPT ![e.slot] = p]
  BY <1>1, <1>5, DrawnFields
<1> HIDE DEF d
<1>7. \A a \in Slots : a # e.slot => d.lines[a] = e.lines[a]
  BY <1>2, <1>6
<1>8. ASSUME f = [d EXCEPT !.pc = "kick0", !.taskList = Used(e)]
      PROVE  /\ f \in EngineType /\ f.slot = d.slot /\ f.tokens = d.tokens /\ f.switching = d.switching
             /\ f.list = d.list /\ f.taskList = Used(e) /\ f.pc = "kick0"
             /\ f.lines = d.lines /\ f.predict = d.predict
  BY <1>3, <1>6, <1>8 DEF EngineType
<1>9. ASSUME NEW fade \in Fades, f = [d EXCEPT !.pc = "recv", !.switching = fade]
      PROVE  /\ f \in EngineType /\ f.slot = d.slot /\ f.tokens = d.tokens
             /\ f.list = d.list /\ f.taskList = d.taskList /\ f.pc = "recv"
             /\ f.lines = d.lines /\ f.predict = d.predict
  <2>1. fade \in BOOLEAN
    BY SchedulerAssumption
  <2> QED
    BY <1>3, <1>6, <1>9, <2>1 DEF EngineType
<1>10. CASE /\ f = [d EXCEPT !.pc = "kick0", !.taskList = Used(e)]
            /\ Put(GfxTask(e.slot, 0)) /\ sc' = sc
  BY <1>1, <1>6, <1>7, <1>8, <1>10 DEF Put
<1>11. CASE /\ \E fade \in Fades : f = [d EXCEPT !.pc = "recv", !.switching = fade]
            /\ sc' = [sc EXCEPT !.gfxMsgQ = Append(@, DoneMsg(e.slot))] /\ cmdQ' = cmdQ
  <2>1. PICK fade \in Fades : f = [d EXCEPT !.pc = "recv", !.switching = fade]
    BY <1>11
  <2>2. /\ f \in EngineType /\ f.slot = d.slot /\ f.tokens = d.tokens
        /\ f.list = d.list /\ f.taskList = d.taskList /\ f.pc = "recv"
        /\ f.lines = d.lines /\ f.predict = d.predict
    BY <1>9, <2>1
  <2> QED
    BY <1>6, <1>7, <1>11, <2>2
<1> QED
  BY <1>4, <1>10, <1>11 DEF d

LEMMA DrawKeeps ==
  ASSUME TasksInv, EngineDraw
  PROVE  /\ TasksInv' /\ video' = video /\ engine.pc # "recv"
         /\ sc'.curRDP = sc.curRDP /\ sc'.rdp = sc.rdp
         /\ \E p \in MayPredict : engine'.predict = [engine.predict EXCEPT ![engine.slot] = p]
         /\ \/ \E t : PutsTask(t)
            \/ /\ Outstanding(sc', Range(cmdQ')) = Outstanding(sc, Range(cmdQ))
               /\ Undrawn(sc', Range(cmdQ')) = Undrawn(sc, Range(cmdQ))
               /\ RanksShift(sc, Range(cmdQ), engine, engine') /\ PutSlot(engine') = PutSlot(engine)
<1> DEFINE e == engine
           f == engine'
           t == GfxTask(e.slot, 0)
           Q == Range(cmdQ)
<1>1. /\ TasksTypes /\ SchedInv(sc, Q, e, audio) /\ EngineOk(e) /\ EventsDue(sc, interruptQ)
      /\ Tokens(sc, Q, e) /\ Lists(sc, Q, e) /\ Waits(cmdQ, interruptQ, e, audio)
  BY DEF TasksInv
<1>2. /\ f \in EngineType /\ f.slot = e.slot /\ f.tokens = e.tokens /\ f.list = e.list
      /\ \A a \in Slots : a # e.slot => f.lines[a] = e.lines[a]
      /\ \E p \in MayPredict : f.predict = [e.predict EXCEPT ![e.slot] = p]
      /\ \/ /\ f.pc = "kick0" /\ ~f.switching /\ cmdQ' = Append(cmdQ, t) /\ sc' = sc
            /\ f.taskList = Used(e)
         \/ /\ f.pc = "recv" /\ f.taskList = e.taskList
            /\ cmdQ' = cmdQ /\ sc' = [sc EXCEPT !.gfxMsgQ = Append(@, DoneMsg(e.slot))]
  BY DrawCases
<1>3. /\ Waiting /\ AudioWaiting /\ e.pc = "draw"
      /\ video' = video /\ interruptQ' = interruptQ /\ audio' = audio
  BY DrawMeans
<1>4. cmdQ = <<>> /\ Q = {}
  BY <1>3, NothingPut
<1>5. sc \in ScType /\ e \in EngineType /\ e.slot \in Slots
  BY <1>1, EngineFields DEF TasksTypes
<1>6. t \in GfxTasks /\ FB(t) = e.slot /\ t[2] = 0
  BY <1>5, GfxMade
<1> HIDE DEF e, f, t, Q
<1>7. PutRank(e) = 4 /\ PutSlot(e) = e.slot /\ Built(e) = {e.slot} /\ Older(f) = Older(e)
  BY <1>2, <1>3 DEF PutRank, PutSlot, Built, Older
<1>8. \A u \in GfxTasks :
        /\ Rank(e, u) \in Int /\ Rank(f, u) \in Int /\ FB(u) \in Slots /\ u[2] \in {0, 1}
        /\ u = GfxTask(FB(u), u[2])
        /\ FB(u) = e.slot => /\ Rank(e, u) = 4 + u[2]
                             /\ Rank(f, u) = (IF f.pc = "recv" THEN u[2] - 2 ELSE 4 + u[2])
        /\ FB(u) # e.slot => Rank(e, u) \in 0..3 /\ Rank(f, u) = Rank(e, u)
  <2>1. \A u \in GfxTasks :
         /\ Rank(e, u) \in Int /\ FB(u) \in Slots /\ u[2] \in {0, 1} /\ u = GfxTask(FB(u), u[2])
         /\ FB(u) = e.slot => Rank(e, u) = 4 + u[2]
         /\ FB(u) # e.slot => Rank(e, u) \in 0..3
    BY <1>3, <1>5, RanksOf
  <2>2. \A u \in GfxTasks :
         /\ Rank(f, u) \in Int
         /\ FB(u) = e.slot => Rank(f, u) = (IF f.pc = "recv" THEN u[2] - 2 ELSE 4 + u[2])
    BY <1>2, RanksOf
  <2>3. \A u \in GfxTasks : FB(u) # e.slot => Rank(f, u) = Rank(e, u)
    BY <1>2 DEF Rank, Age
  <2> QED
    BY <2>1, <2>2, <2>3
<1>9. Ordered(sc, Q, e)
  BY <1>1 DEF SchedInv
<1>10. \A u \in Outstanding(sc, Q) : u \in GfxTasks /\ Handed(e, u) /\ FB(u) # e.slot
  <2> TAKE u \in Outstanding(sc, Q)
  <2>1. u \in GfxTasks /\ Handed(e, u)
    BY <1>9 DEF Ordered, Outstanding, Queued
  <2>2. Rank(e, u) < 4
    BY <1>7, <2>1 DEF Handed
  <2> QED
    BY <1>8, <2>1, <2>2
<1>11. /\ \A u \in Queued(sc, Q) : u \in GfxTasks /\ FB(u) # e.slot
       /\ e.slot \notin With(sc, Q, e)
       /\ \A u \in Queued(sc, Q) : LastOf(f, u) <=> LastOf(e, u)
  <2>1. \A u \in Queued(sc, Q) : u \in GfxTasks /\ FB(u) # e.slot
    BY <1>10 DEF Outstanding
  <2>2. e.slot \notin With(sc, Q, e)
    BY <2>1, NotWith
  <2> QED
    BY <1>2, <1>8, <2>1, <2>2 DEF LastOf
<1>12. With(sc, Q, f) = With(sc, Q, e) /\ With(sc, Q, e) \subseteq Slots
  BY <1>5, <1>11, HeldSlots DEF With
<1>13. CASE f.pc = "kick0"
  <2> DEFINE R == {t}
             last == ~f.lines[e.slot]
  <2>1. /\ cmdQ' = <<t>> /\ Range(cmdQ') = R /\ cmdQ' \in Batches /\ sc' = sc
        /\ ~f.switching /\ f.taskList = Used(e)
    BY <1>2, <1>4, <1>6, <1>13, PutOne
  <2>2. /\ \A u \in GfxTasks : Rank(e, u) \in Int /\ Rank(f, u) = Rank(e, u)
        /\ Rank(e, t) = 4
    BY <1>6, <1>8, <1>13
  <2>3. /\ PutRank(f) = IF last THEN 6 ELSE 5
        /\ Built(f) = IF last THEN {} ELSE {e.slot}
    BY <1>2, <1>13 DEF PutRank, Built
  <2>4. \A u \in GfxTasks : Handed(e, u) => Rank(e, u) < Rank(e, t)
    BY <1>7, <2>2 DEF Handed
  <2>5. \A u \in GfxTasks : Handed(f, u) <=> (Handed(e, u) \/ u = t)
    <3> TAKE u \in GfxTasks
    <3>1. CASE FB(u) = e.slot
      <4>1. ~Handed(e, u)
        BY <1>7, <1>8, <3>1 DEF Handed
      <4>2. u = t <=> u[2] = 0
        BY <1>6, <1>8, <3>1 DEF t
      <4>3. CASE u[2] = 0
        BY <1>8, <2>2, <2>3, <3>1, <4>2, <4>3 DEF Handed
      <4>4. CASE u[2] = 1
        BY <1>8, <2>2, <2>3, <3>1, <4>1, <4>2, <4>4 DEF Handed
      <4> QED
        BY <1>8, <4>3, <4>4
    <3>2. CASE FB(u) # e.slot
      <4>1. Rank(e, u) < 4 /\ Rank(f, u) < 4 /\ f.lines[FB(u)] = e.lines[FB(u)] /\ u # t
        BY <1>2, <1>6, <1>8, <3>2
      <4>2. Rank(e, u) \in Int /\ Rank(f, u) \in Int /\ PutRank(f) \in {5, 6}
        BY <1>8, <2>3
      <4> QED
        BY <1>7, <4>1, <4>2 DEF Handed
    <3> QED
      BY <3>1, <3>2
  <2> HIDE DEF R
  <2>6. /\ Ordered(sc, R, f)
        /\ Queued(sc, R) = Queued(sc, Q) \cup {t}
        /\ Outstanding(sc, R) = Outstanding(sc, Q) \cup {t}
    <3>1. Q = {} /\ R = {t} /\ \A u \in GfxTasks : Rank(e, u) \in Int /\ Rank(f, u) = Rank(e, u)
      BY <1>4, <2>2 DEF R
    <3> QED
      BY <1>5, <1>6, <1>9, <2>4, <2>5, <3>1, HandedOver
  <2>7. Undrawn(sc, {t}) = Undrawn(sc, {}) \cup {t} /\ Outstanding(sc, {t}) = Outstanding(sc, {}) \cup {t}
    BY <1>4, <1>6, <2>6, UndrawnPut DEF R
  <2>8. SchedInv(sc, R, f, audio)
    <3>1. Sound(sc, R, audio)
      BY <1>1, <1>4, <1>6, Names DEF SchedInv, Sound, R
    <3> QED
      BY <1>1, <2>6, <3>1 DEF SchedInv
  <2>9. With(sc, R, f) = With(sc, Q, e) \cup (IF last THEN {e.slot} ELSE {})
    <3>1. LastOf(f, t) <=> last
      BY <1>6 DEF LastOf
    <3> QED
      BY <1>6, <1>11, <2>6, <3>1 DEF With
  <2>10. Tokens(sc, R, f)
    <3>1. With(sc, R, f) \cup Built(f) = With(sc, Q, e) \cup Built(e)
      BY <1>7, <2>3, <2>9
    <3> QED
      BY <1>1, <1>2, <3>1 DEF Tokens
  <2>11. Lists(sc, R, f)
    <3>1. Older(e) # e.slot
      BY <1>5, SlotFacts DEF Older
    <3>2. /\ \A u \in Queued(sc, Q) : e.taskList[u] = e.list[FB(u)]
          /\ Older(e) \in With(sc, Q, e) => e.list[e.slot] = (e.list[Older(e)] + 1) % DisplayLists
      BY <1>1 DEF Lists
    <3>3. f.taskList[t] = e.list[FB(t)]
      BY <1>6, <2>1 DEF Used
    <3>4. \A u \in Queued(sc, Q) : f.taskList[u] = e.taskList[u]
      BY <1>11, <2>1 DEF Used
    <3>5. \A u \in Queued(sc, R) : f.taskList[u] = f.list[FB(u)]
      BY <1>2, <2>6, <3>2, <3>3, <3>4
    <3> QED
      BY <1>2, <1>7, <2>9, <3>1, <3>2, <3>5 DEF Lists
  <2>12. EngineOk(f)
    <3>1. \A u \in GfxTasks : FB(u) = f.slot => f.taskList[u] = f.list[f.slot]
      BY <1>2, <2>1 DEF Used
    <3> QED
      BY <1>13, <2>1, <3>1 DEF EngineOk
  <2>13. Waits(cmdQ', interruptQ', f, audio')
    <3>1. Audio \notin Range(cmdQ')
      BY <1>6, <2>1, Names DEF R
    <3> QED
      BY <1>13, <2>1, <3>1 DEF Waits
  <2>14. TasksInv'
    BY <1>1, <1>2, <1>3, <2>1, <2>8, <2>10, <2>11, <2>12, <2>13 DEF TasksInv, TasksTypes, f
  <2>15. \A u \in Outstanding(sc, {}) : Rank(e, u) < Rank(e, t)
    BY <1>4, <1>10, <2>4
  <2>16. PutsTask(t)
    BY <1>4, <1>6, <1>7, <2>1, <2>2, <2>7, <2>15 DEF PutsTask, e, f
  <2>17. sc'.curRDP = sc.curRDP /\ sc'.rdp = sc.rdp
    BY <2>1
  <2> QED
    BY <1>2, <1>3, <2>14, <2>16, <2>17 DEF e, f
<1>14. CASE f.pc = "recv"
  <2>1. f.taskList = e.taskList /\ cmdQ' = cmdQ /\ sc' = [sc EXCEPT !.gfxMsgQ = Append(@, DoneMsg(e.slot))]
    BY <1>2, <1>14
  <2>2. DoneMsg(e.slot) \in Messages /\ DoneMsg(e.slot).type = 2
    BY <1>5 DEF Messages, DoneMsg
  <2>3. /\ sc' \in ScType /\ sc'.gfxList = sc.gfxList /\ sc'.audioList = sc.audioList
        /\ sc'.doAudio = sc.doAudio /\ sc'.curRSP = sc.curRSP /\ sc'.curRDP = sc.curRDP
        /\ sc'.state = sc.state /\ sc'.audioReply = sc.audioReply
        /\ sc'.gfxMsgQ = Append(sc.gfxMsgQ, DoneMsg(e.slot))
        /\ sc'.rsp = sc.rsp /\ sc'.rdp = sc.rdp
    <3> DEFINE g == Append(sc.gfxMsgQ, DoneMsg(e.slot))
    <3>1. g \in Seq(Messages)
      BY <1>5, <2>2, ScFields
    <3>2. sc' = [sc EXCEPT !.gfxMsgQ = g]
      BY <2>1
    <3> HIDE DEF g
    <3>3. /\ sc' \in ScType /\ sc'.gfxList = sc.gfxList /\ sc'.audioList = sc.audioList
          /\ sc'.doAudio = sc.doAudio /\ sc'.curRSP = sc.curRSP /\ sc'.curRDP = sc.curRDP
          /\ sc'.state = sc.state /\ sc'.audioReply = sc.audioReply
          /\ sc'.gfxMsgQ = g /\ sc'.rsp = sc.rsp /\ sc'.rdp = sc.rdp
      BY <1>5, <3>1, <3>2 DEF ScType
    <3> QED
      BY <3>3 DEF g
  <2>4. Done(sc') = Done(sc) + 1 /\ Done(sc) \in Nat
    BY <1>5, <2>2, <2>3, DoneMoves
  <2>5. Running(sc')
    BY <1>1, <2>3 DEF SchedInv, Running
  <2>6. /\ SchedInv(sc', Q, e, audio) /\ Queued(sc', Q) = Queued(sc, Q)
        /\ Outstanding(sc', Q) = Outstanding(sc, Q) /\ Undrawn(sc', Q) = Undrawn(sc, Q)
    BY <1>1, <2>3, <2>5, Unaffected
  <2>7. PutRank(f) = 4 /\ PutSlot(f) = e.slot /\ Built(f) = {}
    BY <1>2, <1>14 DEF PutRank, PutSlot, Built
  <2>8. \A t1 \in Outstanding(sc', Q) : Handed(f, t1) /\ Rank(f, t1) = Rank(e, t1) + 0
    <3> TAKE t1 \in Outstanding(sc', Q)
    <3>1. t1 \in GfxTasks /\ Handed(e, t1) /\ FB(t1) # e.slot
      BY <1>10, <2>6
    <3>2. Rank(f, t1) = Rank(e, t1) /\ Rank(e, t1) \in Int /\ f.lines[FB(t1)] = e.lines[FB(t1)]
      BY <1>2, <1>8, <3>1
    <3> QED
      BY <1>7, <2>7, <3>1, <3>2 DEF Handed
  <2>9. \A t1 \in Outstanding(sc', Q), u \in GfxTasks :
          Handed(f, u) /\ Rank(f, t1) < Rank(f, u) => Handed(e, u) /\ Rank(f, u) = Rank(e, u) + 0
    <3> SUFFICES ASSUME NEW t1 \in Outstanding(sc', Q), NEW u \in GfxTasks,
                        Handed(f, u), Rank(f, t1) < Rank(f, u)
                 PROVE  Handed(e, u) /\ Rank(f, u) = Rank(e, u) + 0
      OBVIOUS
    <3>1. t1 \in GfxTasks /\ FB(t1) # e.slot
      BY <1>10, <2>6
    <3>2. FB(u) # e.slot
      BY <1>8, <1>14, <3>1
    <3>3. Rank(f, u) = Rank(e, u) /\ Rank(e, u) \in Int /\ f.lines[FB(u)] = e.lines[FB(u)]
      BY <1>2, <1>8, <3>2
    <3> QED
      BY <1>7, <2>7, <3>3 DEF Handed
  <2>10. Ordered(sc', Q, f)
    <3>1. Ordered(sc', Q, e) /\ \A t1 \in GfxTasks : Rank(e, t1) \in Int /\ Rank(f, t1) \in Int
      BY <1>8, <2>6 DEF SchedInv
    <3> QED
      BY <2>3, <2>8, <2>9, <3>1, Reordered
  <2>11. SchedInv(sc', Q, f, audio)
    BY <2>6, <2>10 DEF SchedInv
  <2>12. With(sc', Q, f) = With(sc, Q, e)
    BY <1>12, <2>6 DEF With
  <2>13. Tokens(sc', Q, f)
    <3> DEFINE F == With(sc, Q, e)
    <3>1. Cardinality(F \cup {e.slot}) = Cardinality(F) + 1 /\ Cardinality(F) \in Nat /\ F \cup {} = F
      BY <1>5, <1>11, <1>12, BuiltApart
    <3>2. e.tokens + Cardinality(F \cup {e.slot}) + Done(sc) = 2
      BY <1>1, <1>7 DEF Tokens
    <3>3. f.tokens = e.tokens /\ e.tokens \in Nat
      BY <1>2, <1>5, EngineFields
    <3> HIDE DEF F
    <3>4. f.tokens + Cardinality(F) + Done(sc') = 2
      BY <2>4, <3>1, <3>2, <3>3
    <3> QED
      BY <2>7, <2>12, <3>1, <3>4 DEF Tokens, F
  <2>14. Lists(sc', Q, f)
    BY <1>1, <1>2, <1>7, <2>1, <2>6, <2>12 DEF Lists
  <2>15. EngineOk(f)
    BY <1>14 DEF EngineOk
  <2>16. Waits(cmdQ', interruptQ', f, audio')
    BY <1>1, <1>3, <1>4, <2>1 DEF Waits, Q
  <2>17. EventsDue(sc', interruptQ')
    BY <1>1, <1>3, <2>3 DEF EventsDue, SpDue, DpDue
  <2>18. TasksInv'
    BY <1>1, <1>2, <1>3, <2>1, <2>3, <2>11, <2>13, <2>14, <2>15, <2>16, <2>17 DEF TasksInv, TasksTypes, f, Q
  <2>19. RanksShift(sc, Q, e, f)
    BY <2>6, <2>8 DEF RanksShift
  <2> QED
    BY <1>2, <1>3, <1>7, <2>1, <2>3, <2>6, <2>7, <2>18, <2>19 DEF e, f, Q
<1> QED
  BY <1>2, <1>13, <1>14

LEMMA NextFrameFields ==
  ASSUME NEW e \in EngineType, NEW fade \in Fades
  PROVE  LET f == [NextFrame(e) EXCEPT !.switching = fade]
         IN  /\ f \in EngineType /\ f.pc = "recv" /\ f.slot = NextSlot(e.slot) /\ f.tokens = e.tokens
             /\ f.predict = e.predict /\ f.lines = e.lines /\ f.taskList = e.taskList
             /\ f.list = [e.list EXCEPT ![NextSlot(e.slot)] = (e.list[e.slot] + 1) % DisplayLists]
<1> DEFINE f == [NextFrame(e) EXCEPT !.switching = fade]
           n == NextSlot(e.slot)
           li == [e.list EXCEPT ![n] = (e.list[e.slot] + 1) % DisplayLists]
<1>1. e.slot \in Slots /\ n \in Slots /\ fade \in BOOLEAN /\ "recv" \in Places
  BY EngineFields, SlotFacts, SchedulerAssumption DEF Places
<1>2. e.list \in [Slots -> 0..DisplayLists - 1] /\ e.list[e.slot] \in Nat /\ DisplayLists \in Nat \ {0}
  BY <1>1, EngineFields, SchedulerAssumption
<1>3. li \in [Slots -> 0..DisplayLists - 1]
  <2>1. (e.list[e.slot] + 1) % DisplayLists \in 0..DisplayLists - 1
    BY <1>2
  <2> QED
    BY <1>1, <1>2, <2>1
<1>4. f = [[e EXCEPT !.pc = "recv", !.slot = n, !.list = li] EXCEPT !.switching = fade]
  BY DEF NextFrame, EngineType
<1> HIDE DEF n, li, f
<1>5. /\ f \in EngineType /\ f.pc = "recv" /\ f.slot = n /\ f.tokens = e.tokens
      /\ f.predict = e.predict /\ f.lines = e.lines /\ f.taskList = e.taskList /\ f.list = li
  BY <1>1, <1>3, <1>4 DEF EngineType
<1> QED
  BY <1>5 DEF n, li, f

LEMMA KickKeeps ==
  ASSUME TasksInv, EngineKick
  PROVE  /\ TasksInv' /\ video' = video /\ sc' = sc /\ cmdQ' = cmdQ /\ engine.pc # "recv"
         /\ engine'.predict = engine.predict
         /\ RanksShift(sc, Range(cmdQ), engine, engine') /\ PutSlot(engine') = PutSlot(engine)
<1> DEFINE e == engine
           f == engine'
           Q == Range(cmdQ)
<1>1. /\ TasksTypes /\ SchedInv(sc, Q, e, audio) /\ EngineOk(e) /\ EventsDue(sc, interruptQ)
      /\ Tokens(sc, Q, e) /\ Lists(sc, Q, e) /\ Waits(cmdQ, interruptQ, e, audio)
  BY DEF TasksInv
<1>2. /\ AudioWaiting /\ e.pc \in {"kick0", "kick1"} /\ Kick
      /\ sc' = sc /\ video' = video /\ cmdQ' = cmdQ /\ audio' = audio
      /\ IF e.pc = "kick0" /\ e.lines[e.slot] THEN f = [e EXCEPT !.pc = "put1"]
         ELSE \E fade \in Fades : f = [NextFrame(e) EXCEPT !.switching = fade]
  BY DEF EngineKick
<1>3. interruptQ' \in Seq(EventNames) /\ EventsDue(sc, interruptQ') /\ Count(interruptQ', "cmd") = 1
  BY <1>2, Kicked
<1>4. sc \in ScType /\ e \in EngineType /\ e.slot \in Slots
  BY <1>1, EngineFields DEF TasksTypes
<1>5. Waits(cmdQ', interruptQ', f, audio')
  BY <1>1, <1>2, <1>3 DEF Waits
<1>6. Ordered(sc, Q, e)
  BY <1>1 DEF SchedInv
<1>7. \A t \in Outstanding(sc, Q) : t \in GfxTasks /\ Handed(e, t)
  BY <1>6 DEF Ordered, Outstanding, Queued
<1> HIDE DEF e, f, Q
<1>8. CASE e.pc = "kick0" /\ e.lines[e.slot]
  <2>1. f = [e EXCEPT !.pc = "put1"] /\ "put1" \in Places
    BY <1>2, <1>8 DEF Places
  <2>2. /\ f \in EngineType /\ f.slot = e.slot /\ f.lines = e.lines /\ f.predict = e.predict /\ f.pc = "put1"
        /\ f.list = e.list /\ f.taskList = e.taskList /\ f.tokens = e.tokens /\ f.switching = e.switching
    BY <1>4, <2>1 DEF EngineType
  <2>3. /\ PutRank(f) = PutRank(e) /\ PutSlot(f) = PutSlot(e) /\ Built(f) = Built(e) /\ Older(f) = Older(e)
    BY <1>8, <2>2 DEF PutRank, PutSlot, Built, Older
  <2>4. \A t : Rank(f, t) = Rank(e, t)
    BY <1>8, <2>2 DEF Rank, Age
  <2>5. Ordered(sc, Q, f)
    <3>1. \A t : Handed(f, t) <=> Handed(e, t)
      BY <2>2, <2>3, <2>4 DEF Handed
    <3> QED
      BY <1>6, <2>4, <3>1 DEF Ordered
  <2>6. With(sc, Q, f) = With(sc, Q, e)
    BY <2>2 DEF With, LastOf
  <2>7. SchedInv(sc, Q, f, audio)
    BY <1>1, <2>5 DEF SchedInv
  <2>8. Tokens(sc, Q, f) /\ Lists(sc, Q, f)
    BY <1>1, <2>2, <2>3, <2>6 DEF Tokens, Lists
  <2>9. EngineOk(f)
    BY <1>1, <1>8, <2>2 DEF EngineOk
  <2>10. RanksShift(sc, Q, e, f)
    <3>1. \A t \in Outstanding(sc, Q) : Rank(f, t) = Rank(e, t) + 0
      BY <1>4, <1>7, <2>4, RanksOf
    <3> QED
      BY <3>1 DEF RanksShift
  <2>11. TasksInv'
    BY <1>1, <1>2, <1>3, <1>5, <2>2, <2>7, <2>8, <2>9 DEF TasksInv, TasksTypes, f, Q
  <2> QED
    BY <1>2, <1>8, <2>2, <2>3, <2>10, <2>11 DEF e, f, Q
<1>9. CASE ~(e.pc = "kick0" /\ e.lines[e.slot])
  <2> DEFINE n == NextSlot(e.slot)
  <2>1. PICK fade \in Fades : f = [NextFrame(e) EXCEPT !.switching = fade]
    BY <1>2, <1>9
  <2>2. /\ f \in EngineType /\ f.pc = "recv" /\ f.slot = n /\ f.tokens = e.tokens
        /\ f.predict = e.predict /\ f.lines = e.lines /\ f.taskList = e.taskList
        /\ f.list = [e.list EXCEPT ![n] = (e.list[e.slot] + 1) % DisplayLists]
    BY <1>4, <2>1, NextFrameFields
  <2>3. n \in Slots /\ n # e.slot /\ NextSlot(NextSlot(n)) = e.slot
    BY <1>4, SlotFacts
  <2>4. /\ PutRank(e) = 6 /\ PutRank(f) = 4 /\ PutSlot(e) = n /\ PutSlot(f) = n
        /\ Built(e) = {} /\ Built(f) = {} /\ Older(f) = e.slot
    BY <1>2, <1>9, <2>2, <2>3 DEF PutRank, PutSlot, Built, Older
  <2>5. \A t \in GfxTasks : Rank(e, t) \in Int /\ Rank(f, t) = Rank(e, t) + (-2)
    <3> TAKE t \in GfxTasks
    <3>1. /\ Rank(e, t) \in Int /\ Rank(e, t) = 2 * Age(e, FB(t)) + t[2]
          /\ Rank(f, t) = 2 * Age(f, FB(t)) + t[2] /\ t[2] \in {0, 1} /\ FB(t) \in Slots
      BY <1>4, <2>2, <2>3, Ranks, GfxParts
    <3>2. Age(f, FB(t)) = Age(e, FB(t)) - 1 /\ Age(e, FB(t)) \in Int
      <4>1. FB(t) \in {e.slot, n, Older(e)} /\ n # Older(e) /\ e.slot # Older(e) /\ NextSlot(n) = Older(e)
        BY <1>4, <3>1, SlotFacts DEF Older
      <4> HIDE DEF n
      <4>2. CASE FB(t) = e.slot
        <5>1. Age(e, FB(t)) = 2
          BY <1>2, <4>2 DEF Age
        <5>2. Age(f, FB(t)) = 1
          BY <2>2, <2>3, <4>1, <4>2 DEF Age
        <5> QED
          BY <5>1, <5>2
      <4>3. CASE FB(t) = n
        <5>1. Age(e, FB(t)) = 0
          BY <2>3, <4>3 DEF Age, n
        <5>2. Age(f, FB(t)) = -1
          BY <2>2, <4>3 DEF Age
        <5> QED
          BY <5>1, <5>2
      <4>4. CASE FB(t) = Older(e)
        <5>1. Age(e, FB(t)) = 1
          BY <4>1, <4>4 DEF Age, n
        <5>2. Age(f, FB(t)) = 0
          BY <2>2, <4>1, <4>4 DEF Age
        <5> QED
          BY <5>1, <5>2
      <4> QED
        BY <4>1, <4>2, <4>3, <4>4
    <3> QED
      BY <3>1, <3>2
  <2> HIDE DEF n
  <2>6. \A t \in GfxTasks : Handed(f, t) <=> Handed(e, t)
    BY <2>2, <2>4, <2>5 DEF Handed
  <2>7. Ordered(sc, Q, f)
    <3>1. \A t \in GfxTasks : Rank(e, t) \in Int /\ Rank(f, t) \in Int
      BY <2>5
    <3>2. -2 \in Int /\ \A t \in Outstanding(sc, Q) : Handed(f, t) /\ Rank(f, t) = Rank(e, t) + (-2)
      BY <1>7, <2>5, <2>6
    <3>3. \A t \in Outstanding(sc, Q), u \in GfxTasks :
            Handed(f, u) /\ Rank(f, t) < Rank(f, u) => Handed(e, u) /\ Rank(f, u) = Rank(e, u) + (-2)
      BY <2>5, <2>6
    <3> QED
      BY <1>4, <1>6, <3>1, <3>2, <3>3, Reordered
  <2>8. With(sc, Q, f) = With(sc, Q, e)
    BY <2>2 DEF With, LastOf
  <2>9. SchedInv(sc, Q, f, audio)
    BY <1>1, <2>7 DEF SchedInv
  <2>10. Tokens(sc, Q, f)
    BY <1>1, <2>2, <2>4, <2>8 DEF Tokens
  <2>11. Lists(sc, Q, f)
    <3>1. \A t \in Queued(sc, Q) : FB(t) # n
      BY <1>1, <1>2, <1>4, <1>6, NextIsFree DEF n
    <3>2. \A t \in Queued(sc, Q) : FB(t) \in Slots /\ e.taskList[t] = e.list[FB(t)]
      BY <1>1, GfxParts DEF Lists, Queued
    <3>3. e.list \in [Slots -> 0..DisplayLists - 1]
      BY <1>4, EngineFields
    <3>4. /\ f.list[n] = (e.list[e.slot] + 1) % DisplayLists
          /\ \A a \in Slots : a # n => f.list[a] = e.list[a]
      BY <2>2, <2>3, <3>3
    <3>5. \A t \in Queued(sc, Q) : f.taskList[t] = f.list[FB(t)]
      BY <2>2, <3>1, <3>2, <3>4
    <3>6. f.list[f.slot] = (f.list[Older(f)] + 1) % DisplayLists
      BY <1>4, <2>2, <2>3, <2>4, <3>4
    <3> QED
      BY <3>5, <3>6 DEF Lists
  <2>12. EngineOk(f)
    BY <2>2 DEF EngineOk
  <2>13. RanksShift(sc, Q, e, f)
    <3>1. -2 \in Int /\ \A t \in Outstanding(sc, Q) : Rank(f, t) = Rank(e, t) + (-2)
      BY <1>7, <2>5
    <3> QED
      BY <3>1 DEF RanksShift
  <2>14. TasksInv'
    BY <1>1, <1>2, <1>3, <1>5, <2>2, <2>9, <2>10, <2>11, <2>12 DEF TasksInv, TasksTypes, f, Q
  <2> QED
    BY <1>2, <2>2, <2>4, <2>13, <2>14 DEF e, f, Q
<1> QED
  BY <1>8, <1>9

-----------------------------------------------------------------------------
(* The invariant holds.                                                    *)

LEMMA InitHolds ==
  ASSUME Init
  PROVE  TasksInv /\ Outstanding(sc, Range(cmdQ)) = {} /\ Undrawn(sc, Range(cmdQ)) = {}
<1>1. /\ sc = [gfxList |-> <<>>, audioList |-> <<>>, doAudio |-> FALSE,
               curRSP |-> NoTask, curRDP |-> NoTask, state |-> [t \in Tasks |-> {}],
               rsp |-> NoTask, sig1 |-> FALSE, rdp |-> NoTask, synced |-> FALSE,
               gfxMsgQ |-> <<>>, audioReply |-> FALSE]
      /\ interruptQ = <<>> /\ cmdQ = <<>> /\ audio = "idle"
      /\ engine = [pc |-> "recv", slot |-> 0, tokens |-> 2, switching |-> FALSE,
                   predict |-> [s \in Slots |-> 0], lines |-> [s \in Slots |-> FALSE],
                   list |-> [s \in Slots |-> 0], taskList |-> [t \in GfxTasks |-> 0]]
  BY DEF Init
<1>2. sc \in ScType
  <2>1. [t \in Tasks |-> {}] \in [Tasks -> SUBSET Marks]
    OBVIOUS
  <2>2. <<>> \in Seq(GfxTasks) /\ <<>> \in Seq({Audio}) /\ <<>> \in Seq(Messages)
    OBVIOUS
  <2> QED
    BY <1>1, <2>1, <2>2 DEF ScType
<1>3. engine \in EngineType
  <2>1. 0 \in 0..DisplayLists - 1 /\ 0 \in Slots /\ "recv" \in Places
    BY SchedulerAssumption DEF Slots, Places
  <2>2. /\ [s \in Slots |-> 0] \in [Slots -> Nat] /\ [s \in Slots |-> FALSE] \in [Slots -> BOOLEAN]
        /\ [s \in Slots |-> 0] \in [Slots -> 0..DisplayLists - 1]
        /\ [t \in GfxTasks |-> 0] \in [GfxTasks -> 0..DisplayLists - 1]
    BY <2>1
  <2> QED
    BY <1>1, <2>1, <2>2 DEF EngineType
<1>4. TasksTypes
  <2>1. interruptQ \in Seq(EventNames)
    BY <1>1
  <2> QED
    BY <1>1, <1>2, <1>3, <2>1 DEF TasksTypes
<1>5. /\ sc.gfxList = <<>> /\ sc.audioList = <<>> /\ sc.doAudio = FALSE /\ sc.curRSP = NoTask
      /\ sc.curRDP = NoTask /\ sc.state = [t \in Tasks |-> {}] /\ sc.rsp = NoTask /\ sc.rdp = NoTask
      /\ sc.gfxMsgQ = <<>> /\ sc.audioReply = FALSE
      /\ engine.pc = "recv" /\ engine.tokens = 2 /\ engine.switching = FALSE /\ ~engine.lines[engine.slot]
  BY <1>1, <1>3, EngineFields
<1>6. Range(cmdQ) = {} /\ cmdQ \in Batches
  BY <1>1, BatchFacts
<1> DEFINE Q == Range(cmdQ)
<1>7. NoTask \notin GfxTasks /\ Audio \in Tasks /\ Audio # NoTask
  BY Names
<1>8. Queued(sc, {}) = {}
  BY <1>5, <1>7 DEF Queued
<1>9. Outstanding(sc, {}) = {}
  BY <1>5, <1>7, <1>8 DEF Outstanding
<1>10. Undrawn(sc, {}) = {}
  BY <1>9 DEF Undrawn
<1>11. SchedInv(sc, {}, engine, audio)
  <2>1. Ordered(sc, {}, engine)
    BY <1>5, <1>7, <1>9 DEF Ordered
  <2>2. States(sc)
    BY <1>5, <1>7 DEF States
  <2>3. Sound(sc, {}, audio) /\ Running(sc)
    BY <1>5, <1>7 DEF Sound, Running
  <2> QED
    BY <2>1, <2>2, <2>3 DEF SchedInv
<1>12. EngineOk(engine)
  BY <1>5 DEF EngineOk
<1>13. Waits(cmdQ, interruptQ, engine, audio)
  BY <1>6 DEF Waits
<1>14. EventsDue(sc, interruptQ)
  <2>1. /\ Count(interruptQ, "sp") = 0 /\ Count(interruptQ, "dp") = 0
        /\ Count(interruptQ, "cmd") = 0 /\ Count(interruptQ, "retrace") = 0 /\ Len(interruptQ) = 0
    BY <1>1, EmptyCounts
  <2>2. ~SpDue(sc) /\ ~DpDue(sc) /\ MaxLate \in Nat
    BY <1>5, SchedulerAssumption DEF SpDue, DpDue
  <2> QED
    BY <2>1, <2>2 DEF EventsDue
<1>15. Tokens(sc, {}, engine) /\ Lists(sc, {}, engine)
  <2>1. With(sc, {}, engine) = {} /\ Built(engine) = {}
    BY <1>5, <1>8 DEF With, Built
  <2>2. Done(sc) = 0
    <3>1. {i \in DOMAIN sc.gfxMsgQ : sc.gfxMsgQ[i].type = 2} = {}
      BY <1>5
    <3> QED
      BY <3>1, FS_EmptySet DEF Done
  <2>3. Cardinality({} \cup {}) = 0
    BY FS_EmptySet
  <2>4. Tokens(sc, {}, engine)
    <3>1. engine.tokens = 2
      BY <1>5
    <3>2. Cardinality(With(sc, {}, engine) \cup Built(engine)) = 0
      BY <2>1, <2>3
    <3> HIDE DEF Q
    <3> QED
      BY <3>1, <3>2, <2>2 DEF Tokens
  <2> QED
    BY <1>8, <2>1, <2>4 DEF Lists
<1> QED
  BY <1>4, <1>6, <1>9, <1>10, <1>11, <1>12, <1>13, <1>14, <1>15 DEF TasksInv

LEMMA TasksStep ==
  ASSUME TasksInv, [Next]_vars
  PROVE  TasksInv'
<1>1. CASE SchedulerStep
  BY <1>1, RetraceStep, RSPStep, RDPStep, CmdStep DEF SchedulerStep
<1>2. CASE HardwareStep
  BY <1>2, HardwareKeeps
<1>3. CASE EngineStep
  BY <1>3, RecvKeeps, DrawKeeps, PutKeeps, KickKeeps DEF EngineStep
<1>4. CASE AudioStep
  BY <1>4, AudioKeeps
<1>5. CASE UNCHANGED vars
  <2>1. /\ sc' = sc /\ interruptQ' = interruptQ /\ cmdQ' = cmdQ /\ engine' = engine /\ audio' = audio
    BY <1>5 DEF vars
  <2> QED
    BY <2>1 DEF TasksInv, TasksTypes
<1> QED
  BY <1>1, <1>2, <1>3, <1>4, <1>5 DEF Next

\* The order of the tasks, what is left of them, and what is under way for them,
\* in the scheduler's lists, its queues, the processors and the engine.
THEOREM TasksHold == Spec => []TasksInv
<1>1. Init => TasksInv
  BY InitHolds
<1>2. TasksInv /\ [Next]_vars => TasksInv'
  BY TasksStep
<1> QED
  BY <1>1, <1>2, PTL DEF Spec

\* The scheduler is told of a task's end exactly once, while the task is still
\* current, and doAudio is set exactly while one audio task is listed.
THEOREM EventsComeOnce == Spec => []EventsExpected
<1>1. TasksInv => EventsExpected
  <2> SUFFICES ASSUME TasksInv PROVE EventsExpected
    OBVIOUS
  <2>1. EventsDue(sc, interruptQ) /\ Running(sc) /\ Sound(sc, Range(cmdQ), audio)
    BY DEF TasksInv, SchedInv
  <2>2. Len(<<Audio>>) = 1
    OBVIOUS
  <2>3. IF sc.doAudio THEN Len(sc.audioList) = 1 ELSE sc.audioList = <<>>
    BY <2>1, <2>2 DEF Sound
  <2> QED
    BY <2>1, <2>3 DEF EventsExpected, EventsDue, Running, SpDue, DpDue
<1> QED
  BY <1>1, TasksHold, PTL

LEMMA ListedTasks ==
  ASSUME TasksInv
  PROVE  \A t \in GfxTasks : (t \in Range(sc.gfxList) \cup Range(cmdQ) \/ t = sc.curRSP)
                               <=> t \in Queued(sc, Range(cmdQ))
<1>1. sc.gfxList \in Seq(GfxTasks)
  BY ScFields DEF TasksInv, TasksTypes
<1>2. \A t : t \in Range(sc.gfxList) <=> \E i \in 1..Len(sc.gfxList) : t = sc.gfxList[i]
  BY <1>1 DEF Range
<1> QED
  BY <1>2 DEF Queued

\* Two frames are being built, with the RSP, or known to the engine as finished.
THEOREM TwoFramesInHand == Spec => []TokensConserved
<1>1. TasksInv => TokensConserved
  <2> SUFFICES ASSUME TasksInv PROVE TokensConserved
    OBVIOUS
  <2>1. Tokens(sc, Range(cmdQ), engine)
    BY DEF TasksInv
  <2>2. FramesWithRSP = With(sc, Range(cmdQ), engine)
    <3>1. \A t \in GfxTasks : IsLast(t) <=> LastOf(engine, t)
      BY DEF IsLast, LastOf
    <3>2. Queued(sc, Range(cmdQ)) \subseteq GfxTasks
      BY DEF Queued
    <3>3. {x \in GfxTasks : /\ IsLast(x)
                            /\ \/ x \in Range(sc.gfxList) \cup Range(cmdQ)
                               \/ x = sc.curRSP}
            = {x \in Queued(sc, Range(cmdQ)) : LastOf(engine, x)}
      BY <3>1, <3>2, ListedTasks
    <3> QED
      BY <3>3 DEF FramesWithRSP, With
  <2>3. Building = Built(engine)
    BY DEF Building, Built
  <2> QED
    BY <2>1, <2>2, <2>3 DEF TokensConserved, Tokens, Done
<1> QED
  BY <1>1, TasksHold, PTL

LEMMA NextListDiffers ==
  ASSUME DisplayLists >= 2, NEW l \in 0..DisplayLists - 1
  PROVE  (l + 1) % DisplayLists # l
<1>1. DisplayLists \in Nat
  BY SchedulerAssumption
<1>2. CASE l + 1 < DisplayLists
  <2>1. (l + 1) % DisplayLists = l + 1
    BY <1>1, <1>2
  <2> QED
    BY <2>1
<1>3. CASE l + 1 = DisplayLists
  <2>1. (l + 1) % DisplayLists = 0
    BY <1>1, <1>3
  <2> QED
    BY <1>3, <2>1
<1> QED
  BY <1>1, <1>2, <1>3

\* The engine never writes the display list that a task reads which the RSP has
\* not finished, and the slot of a listed task still names the list it uses.
THEOREM DisplayListsAreKept ==
  ASSUME DisplayLists >= 2
  PROVE  Spec => []DisplayListKept
<1>1. TasksInv => DisplayListKept
  <2> SUFFICES ASSUME TasksInv PROVE DisplayListKept
    OBVIOUS
  <2> DEFINE Q == Range(cmdQ)
             e == engine
  <2>1. /\ sc \in ScType /\ e \in EngineType /\ EngineOk(e)
        /\ Ordered(sc, Q, e) /\ Tokens(sc, Q, e) /\ Lists(sc, Q, e)
    BY DEF TasksInv, TasksTypes, SchedInv
  <2>2. e.slot \in Slots /\ e.list \in [Slots -> 0..DisplayLists - 1]
    BY <2>1, EngineFields
  <2>3. ASSUME e.pc = "draw", NEW t \in Queued(sc, Q) PROVE e.taskList[t] # e.list[e.slot]
    <3>1. t \in GfxTasks /\ FB(t) \in Slots /\ t \in Outstanding(sc, Q)
      BY GfxParts DEF Queued, Outstanding
    <3>2. Handed(e, t) /\ PutRank(e) = 4
      BY <2>1, <2>3, <3>1 DEF Ordered, PutRank
    <3>3. FB(t) # e.slot
      BY <2>1, <2>3, <3>1, <3>2, RanksOf DEF Handed
    <3>4. FB(t) # NextSlot(e.slot)
      BY <2>1, <2>3, NextIsFree
    <3>5. FB(t) = Older(e) /\ Older(e) \in Slots /\ Age(e, Older(e)) = 1
      BY <2>2, <3>1, <3>3, <3>4, Ages
    <3>6. Older(e) \in With(sc, Q, e)
      <4>1. 2 * Age(e, Older(e)) + (IF e.lines[Older(e)] THEN 1 ELSE 0) < PutRank(e)
        BY <3>2, <3>5
      <4> QED
        BY <2>1, <3>1, <3>5, <4>1, Behind
    <3>7. e.list[e.slot] = (e.list[Older(e)] + 1) % DisplayLists /\ e.taskList[t] = e.list[Older(e)]
      BY <2>1, <3>5, <3>6 DEF Lists
    <3>8. e.list[Older(e)] \in 0..DisplayLists - 1
      BY <2>2, <3>5
    <3> QED
      BY <3>7, <3>8, NextListDiffers
  <2>4. ASSUME NEW t \in Queued(sc, Q) PROVE e.list[FB(t)] = e.taskList[t]
    BY <2>1 DEF Lists
  <2>5. \A t \in Range(sc.gfxList) \cup Range(cmdQ) \cup {sc.curRSP} : t \in GfxTasks => t \in Queued(sc, Q)
    BY ListedTasks
  <2>6. engine.pc = "draw" => Unread(engine.list[engine.slot])
    BY <2>3, <2>5 DEF Unread
  <2>7. \A t \in Range(sc.gfxList) \cup {sc.curRSP} :
          t \in GfxTasks => engine.list[FB(t)] = engine.taskList[t]
    BY <2>4, <2>5
  <2> QED
    BY <2>6, <2>7 DEF DisplayListKept
<1> QED
  BY <1>1, TasksHold, PTL

\* When mode 17 restarts the game's state, no frame of the old state is with the
\* RSP or on its way to it; nothing is said of the RDP.
THEOREM SwitchesAreQuiet == Spec => SwitchIsQuiet
<1> DEFINE Quiet == /\ sc.gfxList = <<>> /\ sc.curRSP \notin GfxTasks
                    /\ \A t \in Range(cmdQ) : t = Audio
<1>1. ASSUME TasksInv, [Next]_vars, engine.switching, ~engine'.switching PROVE Quiet
  <2> DEFINE Q == Range(cmdQ)
             e == engine
  <2>1. /\ sc \in ScType /\ e \in EngineType /\ EngineOk(e) /\ cmdQ \in Batches
        /\ Ordered(sc, Q, e) /\ Tokens(sc, Q, e)
    BY <1>1 DEF TasksInv, TasksTypes, SchedInv, Waits
  <2>2. e.pc = "recv"
    BY <1>1, <2>1 DEF EngineOk
  <2>3. EngineRecv
    <3>1. engine' # engine
      BY <1>1
    <3>2. EngineStep
      <4>1. Next
        BY <1>1, <3>1 DEF vars
      <4>2. ~SchedulerStep
        BY <3>1 DEF SchedulerStep, __scHandleRetrace, __scHandleRSP, __scHandleRDP, Sched_HandleCmdMsg
      <4>3. ~HardwareStep
        BY <3>1 DEF HardwareStep, VIRetrace, RSPWritesSync, RSPFinishes, RSPYields, RDPFinishes
      <4>4. ~AudioStep
        BY <3>1 DEF AudioStep, AudioPut, AudioKick, AudioReply
      <4> QED
        BY <4>1, <4>2, <4>3, <4>4 DEF Next
    <3>3. ~EngineDraw
      BY <2>2, DrawMeans
    <3>4. ~EnginePut /\ ~EngineKick
      BY <2>2 DEF EnginePut, EngineKick
    <3> QED
      BY <3>2, <3>3, <3>4 DEF EngineStep
  <2>4. e.tokens = 2
    <3>1. CASE Head(sc.gfxMsgQ).type = 1
      <4>1. engine' = CEngineApp__Retrace(e)
        BY <2>3, <3>1 DEF EngineRecv
      <4>2. CASE TokensBack
        BY <4>2 DEF TokensBack
      <4>3. CASE ~TokensBack
        <5>1. engine' = [e EXCEPT !.switching = TRUE]
          BY <1>1, <4>1, <4>3 DEF CEngineApp__Retrace
        <5>2. engine'.switching
          BY <2>1, <5>1 DEF EngineType
        <5> QED
          BY <1>1, <5>2
      <4> QED
        BY <4>2, <4>3
    <3>2. CASE Head(sc.gfxMsgQ).type # 1
      <4>1. engine' = [e EXCEPT !.tokens = @ + 1]
        BY <1>1, <2>3, <3>2 DEF EngineRecv
      <4>2. engine'.switching = e.switching
        BY <2>1, <4>1 DEF EngineType
      <4> QED
        BY <1>1, <4>2
    <3> QED
      BY <3>1, <3>2
  <2>5. With(sc, Q, e) = {}
    <3> DEFINE F == With(sc, Q, e) \cup Built(e)
    <3>1. e.slot \in Slots /\ F \subseteq Slots
      BY <2>1, EngineFields, HeldSlots
    <3>2. IsFiniteSet(F) /\ Cardinality(F) \in Nat /\ Done(sc) \in Nat
      BY <2>1, <3>1, FramesFinite, DoneMoves
    <3>3. e.tokens + Cardinality(F) + Done(sc) = 2
      BY <2>1 DEF Tokens
    <3> HIDE DEF F
    <3>4. Cardinality(F) = 0
      BY <2>4, <3>2, <3>3
    <3>5. F = {}
      BY <3>2, <3>4, FS_EmptySet
    <3> QED
      BY <3>5 DEF F
  <2>6. Queued(sc, Q) = {}
    <3> SUFFICES ASSUME NEW t \in Queued(sc, Q) PROVE FALSE
      OBVIOUS
    <3>1. t \in GfxTasks /\ FB(t) \in Slots /\ t \in Outstanding(sc, Q) /\ e.slot \in Slots
      BY <2>1, GfxParts, EngineFields DEF Queued, Outstanding
    <3>2. Age(e, FB(t)) \in {-1, 0, 1} /\ PutRank(e) = 4
      BY <2>2, <3>1 DEF Age, PutRank
    <3>3. 2 * Age(e, FB(t)) + (IF e.lines[FB(t)] THEN 1 ELSE 0) < PutRank(e)
      BY <3>2
    <3>4. FB(t) \in With(sc, Q, e)
      BY <2>1, <3>1, <3>3, Behind
    <3> QED
      BY <2>5, <3>4
  <2>7. \A t \in GfxTasks : t \notin Range(sc.gfxList) /\ t \notin Q /\ t # sc.curRSP
    BY <1>1, <2>6, ListedTasks
  <2>8. sc.gfxList = <<>>
    <3>1. sc.gfxList \in Seq(GfxTasks)
      BY <2>1, ScFields
    <3>2. ASSUME sc.gfxList # <<>> PROVE FALSE
      <4>1. sc.gfxList[1] \in GfxTasks /\ 1 \in DOMAIN sc.gfxList
        BY <3>1, <3>2
      <4>2. sc.gfxList[1] \in Range(sc.gfxList)
        BY <4>1 DEF Range
      <4> QED
        BY <2>7, <4>1, <4>2
    <3> QED
      BY <3>2
  <2>9. \A t \in Q : t = Audio
    <3>1. Q \subseteq GfxTasks \cup {Audio}
      BY <2>1, BatchFacts, Names
    <3> QED
      BY <2>7, <3>1
  <2> QED
    BY <2>7, <2>8, <2>9
<1>2. TasksInv /\ [Next]_vars => [engine.switching /\ ~engine'.switching => Quiet]_vars
  BY <1>1
<1> QED
  BY <1>2, TasksHold, PTL DEF Spec, SwitchIsQuiet

-----------------------------------------------------------------------------
(* The frames on their way to the screen.                                  *)

LEMMA VideoFields ==
  ASSUME NEW v \in VideoType
  PROVE  /\ v.tick \in Nat /\ v.pending \in Nat /\ v.waiting \in Nat
         /\ v.ring \in [Slots -> Slots \cup {None}] /\ v.in \in Slots /\ v.out \in Slots
         /\ v.currentFB \in Slots \cup {None} /\ v.pendingFB \in Slots \cup {None}
         /\ v.viCurr \in Slots \cup {None} /\ v.viNext \in Slots \cup {None}
         /\ Screen(v) \in Slots \cup {None} /\ Screen(v) \in {v.currentFB, v.pendingFB}
  BY DEF VideoType, Screen

LEMMA Longest == MaxTick \in Nat /\ MaxTick >= 2
<1>1. \E n \in Predicts : \A p \in Predicts : p <= n
  BY SchedulerAssumption
<1>2. MaxTick \in Predicts /\ \A p \in Predicts : p <= MaxTick
  BY <1>1 DEF MaxTick
<1> QED
  BY <1>2, SchedulerAssumption

LEMMA NextIsShown ==
  ASSUME NEW v \in VideoType, Pace(v), NextShown(v) # Screen(v)
  PROVE  v.waiting \in {0, 1} /\ NextShown(v) \in Slots
<1>1. v.waiting \in {0, 1, 2} /\ (Screen(v) = None => v.waiting = 0)
  BY DEF Pace
<1>2. v.waiting # 2
  BY DEF NextShown
<1>3. CASE v.waiting = 0
  BY <1>3, VideoFields, SlotFacts DEF NextShown
<1>4. CASE v.waiting = 1
  BY <1>1, <1>4, VideoFields, SlotFacts DEF NextShown
<1> QED
  BY <1>1, <1>2, <1>3, <1>4

LEMMA ShownKeeps ==
  ASSUME NEW v \in VideoType, Pace(v), NEW u, u = Shown(v)
  PROVE  /\ u \in VideoType /\ Pace(u) /\ u.pendingFB = None /\ u.pending = 0
         /\ Screen(u) = Screen(v) /\ NextShown(u) = NextShown(v) /\ u.viCurr = v.viCurr
         /\ Screen(u) = None => u.tick >= 1
<1> DEFINE n == IF v.tick < MaxTick THEN v.tick + 1 ELSE v.tick
           t == [v EXCEPT !.tick = n]
<1>1. n \in Nat /\ n >= 1
  BY Longest, VideoFields
<1> HIDE DEF n
<1>2. /\ t \in VideoType /\ t.tick = n /\ t.pending = v.pending /\ t.waiting = v.waiting
      /\ t.ring = v.ring /\ t.in = v.in /\ t.out = v.out /\ t.currentFB = v.currentFB
      /\ t.pendingFB = v.pendingFB /\ t.viCurr = v.viCurr /\ t.viNext = v.viNext
  BY <1>1 DEF VideoType
<1> HIDE DEF t
<1>3. u = IF t.pending = 0 THEN t
          ELSE [t EXCEPT !.tick = 0, !.pending = 0, !.currentFB = t.pendingFB, !.pendingFB = None]
  BY DEF Shown, t, n
<1>4. CASE v.pendingFB = None
  <2>1. u = t
    BY <1>2, <1>3, <1>4 DEF Pace
  <2>2. Screen(u) = Screen(v)
    BY <1>2, <2>1 DEF Screen
  <2>3. Pace(u) /\ NextShown(u) = NextShown(v)
    BY <1>2, <2>1, <2>2 DEF Pace, NextShown
  <2> QED
    BY <1>1, <1>2, <1>4, <2>1, <2>2, <2>3 DEF Pace
<1>5. CASE v.pendingFB # None
  <2>1. u = [t EXCEPT !.tick = 0, !.pending = 0, !.currentFB = t.pendingFB, !.pendingFB = None]
    BY <1>2, <1>3, <1>5 DEF Pace
  <2> DEFINE f == t.pendingFB
  <2>5. f \in Slots \cup {None} /\ f = v.pendingFB
    BY <1>2, VideoFields
  <2>6. u = [t EXCEPT !.tick = 0, !.pending = 0, !.currentFB = f, !.pendingFB = None]
    BY <2>1
  <2> DEFINE z == [t EXCEPT !.tick = 0, !.pending = 0]
  <2> HIDE DEF f
  <2>7. /\ z \in VideoType /\ z.pending = 0 /\ z.waiting = v.waiting
        /\ z.ring = v.ring /\ z.in = v.in /\ z.out = v.out
        /\ z.viCurr = v.viCurr /\ z.viNext = v.viNext
    BY <1>2 DEF VideoType
  <2>8. u = [z EXCEPT !.currentFB = f, !.pendingFB = None]
    BY <1>2, <2>6 DEF VideoType
  <2> HIDE DEF z
  <2>2. /\ u \in VideoType /\ u.pending = 0 /\ u.waiting = v.waiting
        /\ u.ring = v.ring /\ u.in = v.in /\ u.out = v.out /\ u.currentFB = v.pendingFB
        /\ u.pendingFB = None /\ u.viCurr = v.viCurr /\ u.viNext = v.viNext
    BY <2>5, <2>7, <2>8 DEF VideoType
  <2>3. Screen(u) = Screen(v) /\ Screen(v) # None
    BY <1>5, <2>2 DEF Screen
  <2>4. Pace(u) /\ NextShown(u) = NextShown(v)
    BY <2>2, <2>3 DEF Pace, NextShown
  <2> QED
    BY <2>2, <2>3, <2>4
<1> QED
  BY <1>4, <1>5

\* A frame takes the screen: when it is finished, or when its turn comes.
LEMMA HandOverFields ==
  ASSUME NEW v \in VideoType, NEW a \in Slots, NEW u, u = HandOver(v, a)
  PROVE  /\ u \in VideoType /\ u.tick = v.tick /\ u.pending = v.pending + 1 /\ u.waiting = v.waiting
         /\ u.ring = v.ring /\ u.in = v.in /\ u.out = v.out /\ u.currentFB = v.currentFB
         /\ u.pendingFB = a /\ u.viNext = a /\ u.viCurr = v.viCurr
<1> DEFINE n == v.pending + 1
<1>1. n \in Nat
  BY VideoFields
<1>2. u = [v EXCEPT !.pendingFB = a, !.viNext = a, !.pending = n]
  BY DEF HandOver, VideoType
<1> HIDE DEF n
<1>3. /\ u \in VideoType /\ u.tick = v.tick /\ u.pending = n /\ u.waiting = v.waiting
      /\ u.ring = v.ring /\ u.in = v.in /\ u.out = v.out /\ u.currentFB = v.currentFB
      /\ u.pendingFB = a /\ u.viNext = a /\ u.viCurr = v.viCurr
  BY <1>1, <1>2 DEF VideoType
<1> QED
  BY <1>3 DEF n

LEMMA ShowNextKeeps ==
  ASSUME NEW v \in VideoType, Pace(v), v.pendingFB = None, NEW u, u = ShowNext(v)
  PROVE  /\ u \in VideoType /\ Pace(u)
         /\ Screen(u) = Screen(v) \/ (Screen(u) # NextShown(u) /\ Screen(u) # None)
         /\ NextShown(u) = NextShown(v) /\ u.viCurr = v.viCurr
         /\ Screen(u) = None => u.tick = v.tick
<1>1. CASE ~(v.waiting # 0 /\ v.tick + 1 >= engine.predict[v.ring[v.out]])
  <2>1. u = v
    BY <1>1 DEF ShowNext
  <2> QED
    BY <2>1
<1>2. CASE v.waiting # 0 /\ v.tick + 1 >= engine.predict[v.ring[v.out]]
  <2> DEFINE s == Screen(v)
             a == v.ring[v.out]
             h == HandOver(v, a)
             r == [v.ring EXCEPT ![v.out] = None]
  <2>1. /\ v.waiting \in {1, 2} /\ v.pending = 0 /\ s # None /\ s \in Slots /\ a = NextSlot(s) /\ a \in Slots
    BY <1>2, VideoFields, SlotFacts DEF Pace
  <2>2. v.in \in Slots /\ v.out \in Slots /\ v.ring \in [Slots -> Slots \cup {None}]
    BY VideoFields
  <2>3. /\ h \in VideoType /\ h.tick = v.tick /\ h.pending = 1 /\ h.waiting = v.waiting
        /\ h.ring = v.ring /\ h.in = v.in /\ h.out = v.out /\ h.currentFB = v.currentFB
        /\ h.pendingFB = a /\ h.viNext = a /\ h.viCurr = v.viCurr
    BY <2>1, HandOverFields
  <2>4. u = [h EXCEPT !.waiting = @ - 1, !.ring[v.out] = None, !.out = NextSlot(@)]
    BY <1>2 DEF ShowNext
  <2> HIDE DEF h
  <2>5. u = [h EXCEPT !.waiting = v.waiting - 1, !.ring = r, !.out = NextSlot(v.out)]
    BY <2>3, <2>4 DEF VideoType
  <2>6. /\ r \in [Slots -> Slots \cup {None}]
        /\ \A i \in Slots : i # v.out => r[i] = v.ring[i]
        /\ v.waiting - 1 \in Nat /\ NextSlot(v.out) \in Slots
    BY <2>1, <2>2, SlotFacts
  <2> HIDE DEF r, a, s
  <2>7. /\ u \in VideoType /\ u.tick = v.tick /\ u.pending = 1 /\ u.waiting = v.waiting - 1
        /\ u.ring = r /\ u.in = v.in /\ u.out = NextSlot(v.out) /\ u.currentFB = v.currentFB
        /\ u.pendingFB = a /\ u.viNext = a /\ u.viCurr = v.viCurr
    BY <2>3, <2>5, <2>6 DEF VideoType
  <2>8. Screen(u) = a /\ a # None
    BY <2>1, <2>7, SlotFacts DEF Screen
  <2>9. CASE v.waiting = 1
    <3>1. u.waiting = 0 /\ u.in = u.out
      BY <2>7, <2>9 DEF Pace
    <3>2. Pace(u)
      BY <2>7, <2>8, <3>1 DEF Pace
    <3>3. NextShown(u) = NextSlot(a)
      BY <2>8, <3>1 DEF NextShown
    <3>4. NextShown(v) = NextSlot(NextSlot(s))
      BY <2>9 DEF NextShown, s
    <3> QED
      BY <2>1, <2>7, <2>8, <3>2, <3>3, <3>4, SlotFacts
  <2>10. CASE v.waiting = 2
    <3>1. /\ u.waiting = 1 /\ v.out = NextSlot(v.in) /\ v.ring[NextSlot(v.out)] = NextSlot(NextSlot(s))
      BY <2>7, <2>10 DEF Pace, s
    <3>2. u.in = NextSlot(u.out) /\ u.out # v.out /\ u.out \in Slots
      BY <2>2, <2>7, <3>1, SlotFacts
    <3>3. u.ring[u.out] = NextSlot(a)
      BY <2>1, <2>6, <2>7, <3>1, <3>2
    <3>4. Pace(u)
      BY <2>7, <2>8, <3>1, <3>2, <3>3 DEF Pace
    <3>5. NextShown(u) = NextSlot(NextSlot(a))
      BY <2>8, <3>1 DEF NextShown
    <3>6. NextShown(v) = s
      BY <2>10 DEF NextShown, s
    <3> QED
      BY <2>1, <2>7, <2>8, <3>4, <3>5, <3>6, SlotFacts
  <2> QED
    BY <2>1, <2>9, <2>10
<1> QED
  BY <1>1, <1>2

\* The frame that the RDP finishes is shown, or takes its place behind those
\* that wait; the next one is that of the next slot.
LEMMA FinishKeeps ==
  ASSUME NEW v \in VideoType, Pace(v), NEW a, a = NextShown(v), a # Screen(v),
         Screen(v) = None => v.tick >= 1 /\ engine.predict[a] <= 2,
         engine.predict[a] \in Nat, NEW u, u = FinishFrame(v, a)
  PROVE  /\ u \in VideoType /\ Pace(u) /\ Screen(u) # None
         /\ NextShown(u) = NextSlot(a) /\ u.viCurr = v.viCurr
<1> DEFINE s == Screen(v)
<1>1. /\ v.waiting \in {0, 1} /\ a \in Slots /\ s \in Slots \cup {None}
      /\ v.in \in Slots /\ v.out \in Slots /\ v.ring \in [Slots -> Slots \cup {None}]
      /\ v.tick \in Nat
  BY NextIsShown, VideoFields
<1>2. CASE v.tick + 1 >= engine.predict[a] /\ v.waiting = 0 /\ v.pending = 0
  <2>1. u = HandOver(v, a)
    BY <1>2 DEF FinishFrame
  <2>2. /\ u \in VideoType /\ u.pending = 1 /\ u.waiting = 0
        /\ u.ring = v.ring /\ u.in = v.in /\ u.out = v.out
        /\ u.pendingFB = a /\ u.viNext = a /\ u.viCurr = v.viCurr
    <3> HIDE DEF s
    <3>1. a \in Slots /\ v.pending + 1 = 1
      BY <1>1, <1>2
    <3> QED
      BY <1>2, <2>1, <3>1, HandOverFields
  <2>3. Screen(u) = a /\ a # None
    BY <1>1, <2>2, SlotFacts DEF Screen
  <2>4. Pace(u)
    BY <1>2, <2>2, <2>3 DEF Pace
  <2>5. NextShown(u) = NextSlot(a)
    BY <2>2, <2>3 DEF NextShown
  <2> QED
    BY <2>2, <2>3, <2>4, <2>5
<1>3. CASE ~(v.tick + 1 >= engine.predict[a] /\ v.waiting = 0 /\ v.pending = 0)
  <2> DEFINE r == [v.ring EXCEPT ![v.in] = a]
  <2>1. u = [v EXCEPT !.waiting = v.waiting + 1, !.ring = r, !.in = NextSlot(v.in)]
    BY <1>1, <1>3 DEF FinishFrame, VideoType
  <2>2. /\ r \in [Slots -> Slots \cup {None}] /\ r[v.in] = a
        /\ \A i \in Slots : i # v.in => r[i] = v.ring[i]
        /\ v.waiting + 1 \in Nat /\ NextSlot(v.in) \in Slots
    BY <1>1, SlotFacts
  <2> HIDE DEF r
  <2>3. /\ u \in VideoType /\ u.pending = v.pending /\ u.waiting = v.waiting + 1
        /\ u.ring = r /\ u.in = NextSlot(v.in) /\ u.out = v.out /\ u.currentFB = v.currentFB
        /\ u.pendingFB = v.pendingFB /\ u.viNext = v.viNext /\ u.viCurr = v.viCurr
    BY <2>1, <2>2 DEF VideoType
  <2>4. Screen(u) = s
    BY <2>3 DEF Screen
  <2>5. s # None /\ s \in Slots
    <3>1. s = None => v.waiting = 0 /\ v.pendingFB = None /\ v.pending = 0
      BY DEF Pace, Screen
    <3> QED
      BY <1>1, <1>3, <3>1
  <2> HIDE DEF s
  <2>6. CASE v.waiting = 0
    <3>1. v.in = v.out /\ a = NextSlot(s) /\ u.waiting = 1
      BY <2>3, <2>6 DEF Pace, NextShown, s
    <3>2. u.in = NextSlot(u.out) /\ u.ring[u.out] = NextSlot(s)
      BY <2>2, <2>3, <3>1
    <3>3. Pace(u)
      BY <2>3, <2>4, <2>5, <3>1, <3>2 DEF Pace, s
    <3>4. NextShown(u) = NextSlot(a)
      BY <2>4, <3>1 DEF NextShown
    <3> QED
      BY <2>3, <2>4, <2>5, <3>3, <3>4
  <2>7. CASE v.waiting = 1
    <3>1. /\ v.in = NextSlot(v.out) /\ v.ring[v.out] = NextSlot(s) /\ a = NextSlot(NextSlot(s)) /\ u.waiting = 2
      BY <2>3, <2>7 DEF Pace, NextShown, s
    <3>2. u.out = NextSlot(u.in) /\ v.in # v.out
      BY <1>1, <2>3, <3>1, SlotFacts
    <3>3. u.ring[u.out] = NextSlot(s) /\ u.ring[NextSlot(u.out)] = NextSlot(NextSlot(s))
      BY <1>1, <2>2, <2>3, <3>1, <3>2
    <3>4. Pace(u)
      BY <2>3, <2>4, <2>5, <3>1, <3>2, <3>3 DEF Pace, s
    <3>5. NextShown(u) = s
      BY <2>4, <3>1 DEF NextShown
    <3>6. NextSlot(a) = s
      BY <2>5, <3>1, SlotFacts
    <3> QED
      BY <2>3, <2>4, <2>5, <3>4, <3>5, <3>6
  <2> QED
    BY <1>1, <2>6, <2>7
<1> QED
  BY <1>2, <1>3

-----------------------------------------------------------------------------
(* The frames are drawn in turn.                                           *)

LEMMA UndrawnTasks ==
  ASSUME NEW s, NEW Q
  PROVE  Undrawn(s, Q) \subseteq Outstanding(s, Q) /\ Outstanding(s, Q) \subseteq GfxTasks
  BY DEF Undrawn, Outstanding, Queued

LEMMA InTurnKeeps ==
  ASSUME NEW s, NEW Q, NEW e \in EngineType, NEW v, NEW r, NEW R, NEW f, NEW w,
         InTurn(s, Q, e, v), Undrawn(r, R) = Undrawn(s, Q), NextShown(w) = NextShown(v),
         PutSlot(f) = PutSlot(e), RanksShift(s, Q, e, f)
  PROVE  InTurn(r, R, f, w)
<1>1. PICK d \in Int : \A t \in Outstanding(s, Q) : Rank(f, t) = Rank(e, t) + d
  BY DEF RanksShift
<1>2. \A t \in Undrawn(s, Q) : Rank(e, t) \in Int /\ Rank(f, t) = Rank(e, t) + d
  BY <1>1, UndrawnTasks, RanksOf
<1>3. ASSUME NEW t \in Undrawn(s, Q), \A u \in Undrawn(s, Q) : Rank(f, t) <= Rank(f, u)
      PROVE  FB(t) = NextShown(w)
  <2>1. ASSUME NEW u \in Undrawn(s, Q) PROVE Rank(e, t) <= Rank(e, u)
    BY <1>2, <1>3
  <2> QED
    BY <2>1 DEF InTurn
<1>4. Undrawn(s, Q) = {} => PutSlot(f) = NextShown(w)
  BY DEF InTurn
<1> QED
  BY <1>3, <1>4 DEF InTurn

LEMMA RanksStay ==
  ASSUME NEW s, NEW Q, NEW e \in EngineType
  PROVE  RanksShift(s, Q, e, e)
<1>1. \A t \in Outstanding(s, Q) : Rank(e, t) = Rank(e, t) + 0
  BY UndrawnTasks, RanksOf
<1> QED
  BY <1>1 DEF RanksShift

\* While the RDP draws a task, no other task's RDP half is over.
LEMMA Drawing ==
  ASSUME NEW s \in ScType, NEW Q, NEW e \in EngineType, Ordered(s, Q, e), States(s),
         s.curRDP \in GfxTasks
  PROVE  /\ Undrawn(s, Q) = Outstanding(s, Q) /\ s.curRDP \in Outstanding(s, Q)
         /\ \A u \in Outstanding(s, Q) : u = s.curRDP \/ Rank(e, s.curRDP) < Rank(e, u)
<1>1. s.curRDP \in Outstanding(s, Q) /\ "rdp" \in s.state[s.curRDP] /\ s.curRDP # NoTask
  BY Names DEF Outstanding, States
<1>2. \A u \in Outstanding(s, Q) : u = s.curRDP \/ Rank(e, s.curRDP) < Rank(e, u)
  BY DEF Ordered, Outstanding
<1>3. ASSUME NEW t \in Outstanding(s, Q) PROVE t \in Undrawn(s, Q)
  <2>1. t \in GfxTasks
    BY UndrawnTasks
  <2>2. CASE t \in Q
    BY <2>1, <2>2 DEF Undrawn
  <2>3. CASE t = s.curRDP
    BY <1>1, <2>3 DEF Undrawn
  <2>4. CASE t = s.curRSP
    BY <1>1, <2>1, <2>4 DEF Undrawn, States
  <2>5. ASSUME NEW i \in 1..Len(s.gfxList), t = s.gfxList[i], t # s.curRDP
        PROVE  t \in Undrawn(s, Q)
    <3>1. "rdp" \in s.state[t]
      BY <1>1, <2>5 DEF States, Fresh
    <3> QED
      BY <3>1 DEF Undrawn
  <2> QED
    BY <2>1, <2>2, <2>3, <2>4, <2>5 DEF Outstanding, Queued
<1> QED
  BY <1>1, <1>2, <1>3, UndrawnTasks

LEMMA RDPInTurn ==
  ASSUME NEW s \in ScType, NEW Q, NEW e \in EngineType, NEW v, Ordered(s, Q, e), States(s),
         InTurn(s, Q, e, v), s.curRDP \in GfxTasks
  PROVE  FB(s.curRDP) = NextShown(v)
<1>1. /\ s.curRDP \in Undrawn(s, Q)
      /\ \A u \in Undrawn(s, Q) : u = s.curRDP \/ Rank(e, s.curRDP) < Rank(e, u)
      /\ \A u \in Undrawn(s, Q) : Rank(e, u) \in Int
  BY Drawing, UndrawnTasks, RanksOf
<1>2. \A u \in Undrawn(s, Q) : Rank(e, s.curRDP) <= Rank(e, u)
  BY <1>1
<1> QED
  BY <1>1, <1>2 DEF InTurn

\* The task that is handed over after t.
Follower(e, t) == IF LastOf(e, t) THEN GfxTask(NextSlot(FB(t)), 0) ELSE GfxTask(FB(t), 1)

LEMMA OlderNext ==
  ASSUME NEW e \in EngineType, NEW a \in Slots
  PROVE  \/ Age(e, NextSlot(a)) = Age(e, a) + 1
         \/ \A b \in Slots : Age(e, b) <= Age(e, a)
<1>1. e.slot \in Slots
  BY EngineFields
<1>2. CASE a = e.slot
  BY <1>1, <1>2, SlotFacts DEF Age
<1>3. CASE a = NextSlot(e.slot)
  BY <1>1, <1>3, SlotFacts DEF Age
<1>4. CASE a = NextSlot(NextSlot(e.slot))
  BY <1>1, <1>4, SlotFacts DEF Age
<1> QED
  BY <1>1, <1>2, <1>3, <1>4, SlotFacts

LEMMA FollowerIsNext ==
  ASSUME NEW e \in EngineType, NEW t \in GfxTasks, NEW u \in GfxTasks,
         Handed(e, t), Handed(e, u), Rank(e, t) < Rank(e, u),
         NEW x, x = Follower(e, t)
  PROVE  x \in GfxTasks /\ Handed(e, x) /\ Rank(e, t) < Rank(e, x) /\ (x = u \/ Rank(e, x) < Rank(e, u))
<1> DEFINE a == FB(t)
           b == FB(u)
           n == NextSlot(a)
<1>1. /\ a \in Slots /\ b \in Slots /\ n \in Slots /\ e.slot \in Slots
      /\ t[2] \in {0, 1} /\ u[2] \in {0, 1} /\ PutRank(e) \in Nat
  BY GfxParts, SlotFacts, EngineFields DEF PutRank
<1>2. /\ Age(e, a) \in Int /\ Age(e, b) \in Int /\ Age(e, n) \in Int
      /\ (Age(e, a) = Age(e, b) => a = b)
  BY <1>1, Ages
<1>3. /\ Rank(e, t) = 2 * Age(e, a) + t[2] /\ Rank(e, u) = 2 * Age(e, b) + u[2]
      /\ Rank(e, u) < PutRank(e) /\ (u[2] = 1 => e.lines[b])
  BY <1>1, Ranks DEF Handed
<1> HIDE DEF a, b, n
<1>4. CASE LastOf(e, t)
  <2>1. x = GfxTask(n, 0)
    BY <1>4 DEF Follower, n, a
  <2>2. x \in GfxTasks /\ FB(x) = n /\ x[2] = 0
    BY <1>1, <2>1, GfxMade
  <2>3. Rank(e, x) = 2 * Age(e, n)
    BY <1>1, <1>2, <2>2, Ranks
  <2>4. a # b
    <3>1. t[2] = 1 \/ ~e.lines[a]
      BY <1>4 DEF LastOf, a
    <3> QED
      BY <1>1, <1>2, <1>3, <3>1
  <2>5. Age(e, b) >= Age(e, a) + 1
    BY <1>1, <1>2, <1>3, <2>4
  <2>6. Age(e, n) = Age(e, a) + 1
    <3>1. Age(e, n) = Age(e, a) + 1 \/ Age(e, b) <= Age(e, a)
      BY <1>1, OlderNext DEF n
    <3> QED
      BY <1>2, <2>5, <3>1
  <2>7. Rank(e, x) <= Rank(e, u) /\ Rank(e, t) < Rank(e, x) /\ Rank(e, x) \in Int /\ Rank(e, u) \in Int
    BY <1>1, <1>2, <1>3, <2>3, <2>5, <2>6
  <2>8. Handed(e, x)
    BY <1>1, <1>3, <2>2, <2>7 DEF Handed
  <2>9. Rank(e, x) = Rank(e, u) => x = u
    BY <1>1, <2>2, Ranks
  <2> QED
    BY <2>2, <2>7, <2>8, <2>9
<1>5. CASE ~LastOf(e, t)
  <2>1. x = GfxTask(a, 1) /\ t[2] = 0 /\ e.lines[a]
    BY <1>1, <1>5 DEF Follower, LastOf, a
  <2>2. x \in GfxTasks /\ FB(x) = a /\ x[2] = 1
    BY <1>1, <2>1, GfxMade
  <2>3. Rank(e, x) = 2 * Age(e, a) + 1
    BY <1>1, <1>2, <2>2, Ranks
  <2>4. Rank(e, x) <= Rank(e, u) /\ Rank(e, t) < Rank(e, x) /\ Rank(e, x) \in Int /\ Rank(e, u) \in Int
    BY <1>1, <1>2, <1>3, <2>1, <2>3
  <2>5. Handed(e, x)
    BY <1>1, <1>3, <2>1, <2>2, <2>4 DEF Handed
  <2>6. Rank(e, x) = Rank(e, u) => x = u
    BY <1>1, <2>2, Ranks
  <2> QED
    BY <2>2, <2>4, <2>5, <2>6
<1> QED
  BY <1>4, <1>5

LEMMA PutIsNext ==
  ASSUME NEW e \in EngineType, NEW t \in GfxTasks, Handed(e, t),
         \A u \in GfxTasks : Handed(e, u) => Rank(e, u) <= Rank(e, t)
  PROVE  FB(Follower(e, t)) = PutSlot(e)
<1> DEFINE o == Older(e)
<1>1. /\ e.slot \in Slots /\ e.pc \in Places /\ o \in Slots /\ o # e.slot /\ NextSlot(o) = e.slot
      /\ NextSlot(e.slot) \in Slots
  BY EngineFields, SlotFacts DEF Older
<1>2. /\ Age(e, o) = 1 /\ Age(e, NextSlot(e.slot)) = 0 /\ Slots = {e.slot, NextSlot(e.slot), o}
      /\ Age(e, e.slot) = (IF e.pc = "recv" THEN -1 ELSE 2)
  BY <1>1, Ages
<1>3. /\ FB(t) \in Slots /\ t[2] \in {0, 1} /\ Rank(e, t) = 2 * Age(e, FB(t)) + t[2]
      /\ Rank(e, t) < PutRank(e) /\ Rank(e, t) \in Int
  BY <1>1, GfxParts, Ranks DEF Handed
<1>4. ASSUME NEW a \in Slots, 2 * Age(e, a) < PutRank(e)
      PROVE  2 * Age(e, a) <= Rank(e, t)
  <2>1. GfxTask(a, 0) \in GfxTasks /\ FB(GfxTask(a, 0)) = a /\ GfxTask(a, 0)[2] = 0
    BY GfxMade
  <2>2. Rank(e, GfxTask(a, 0)) = 2 * Age(e, a)
    BY <1>1, <2>1, Ages DEF Rank
  <2> QED
    BY <1>4, <2>1, <2>2 DEF Handed
<1>5. ASSUME ~LastOf(e, t)
      PROVE  Rank(e, t) + 1 >= PutRank(e) /\ t[2] = 0 /\ e.lines[FB(t)]
             /\ Follower(e, t) \in GfxTasks /\ FB(Follower(e, t)) = FB(t)
  <2> DEFINE x == GfxTask(FB(t), 1)
  <2>1. x \in GfxTasks /\ FB(x) = FB(t) /\ x[2] = 1 /\ Follower(e, t) = x
    BY <1>3, <1>5, GfxMade DEF Follower
  <2>2. t[2] = 0 /\ e.lines[FB(t)]
    BY <1>3, <1>5 DEF LastOf
  <2> HIDE DEF x
  <2>3. Rank(e, x) = 2 * Age(e, FB(t)) + 1 /\ Age(e, FB(t)) \in Int
    BY <1>1, <1>3, <2>1, Ages DEF Rank
  <2>4. Rank(e, x) = Rank(e, t) + 1
    BY <1>3, <2>2, <2>3
  <2>5. PutRank(e) \in Int
    BY DEF PutRank
  <2>6. Rank(e, x) >= PutRank(e)
    <3>1. ~Handed(e, x)
      BY <1>3, <2>1, <2>4
    <3> QED
      BY <1>3, <2>1, <2>2, <2>4, <2>5, <3>1 DEF Handed
  <2> QED
    BY <2>1, <2>2, <2>4, <2>6
<1>6. ASSUME LastOf(e, t) PROVE FB(Follower(e, t)) = NextSlot(FB(t))
  BY <1>3, <1>6, SlotFacts, GfxMade DEF Follower
<1>7. CASE e.pc \in {"recv", "draw"}
  <2>1. PutRank(e) = 4 /\ PutSlot(e) = e.slot
    BY <1>7 DEF PutRank, PutSlot
  <2>2. Rank(e, t) >= 2
    BY <1>1, <1>2, <1>4, <2>1
  <2>3. FB(t) = o
    BY <1>1, <1>2, <1>3, <2>1, <2>2
  <2>4. LastOf(e, t)
    BY <1>2, <1>3, <1>5, <2>1, <2>3
  <2> QED
    BY <1>1, <1>6, <2>1, <2>3, <2>4
<1>8. CASE e.pc \notin {"recv", "draw"}
  <2>1. PutRank(e) \in {5, 6} /\ Age(e, e.slot) = 2
    BY <1>2, <1>8 DEF PutRank
  <2>2. Rank(e, t) >= 4
    BY <1>1, <1>4, <2>1
  <2>3. FB(t) = e.slot
    BY <1>2, <1>3, <2>1, <2>2
  <2>4. CASE PutRank(e) = 6
    <3>1. LastOf(e, t)
      BY <1>3, <1>5, <2>1, <2>3, <2>4
    <3> QED
      BY <1>6, <2>3, <2>4, <3>1 DEF PutSlot
  <2>5. CASE PutRank(e) = 5
    <3>1. e.lines[e.slot]
      BY <1>8, <2>5 DEF PutRank
    <3>2. ~LastOf(e, t)
      BY <1>3, <2>1, <2>3, <2>5, <3>1 DEF LastOf
    <3> QED
      BY <1>5, <2>3, <2>5, <3>2 DEF PutSlot
  <2> QED
    BY <2>1, <2>4, <2>5
<1> QED
  BY <1>7, <1>8

-----------------------------------------------------------------------------
(* What is shown.                                                          *)

LEMMA ReadyIsApart ==
  ASSUME NEW v \in VideoType, NEW t, TaskReady(t, v)
  PROVE  FB(t) # Screen(v) /\ FB(t) # v.viCurr
  BY VideoFields DEF TaskReady

LEMMA Shows ==
  ASSUME VideoInv
  PROVE  video \in VideoType /\ InTurn(sc, Range(cmdQ), engine, video) /\ Pace(video)
         /\ Start(sc, Range(cmdQ), engine, video) /\ Apart(sc, video)
  BY DEF VideoInv, ShowInv

LEMMA Typed ==
  ASSUME TasksInv
  PROVE  sc \in ScType /\ engine \in EngineType /\ Ordered(sc, Range(cmdQ), engine) /\ States(sc)
         /\ Running(sc)
  BY DEF TasksInv, TasksTypes, SchedInv

\* A retrace hands over the frame whose turn it is.
LEMMA RetraceShows ==
  ASSUME TasksInv, VideoInv, __scHandleRetrace
  PROVE  VideoInv'
<1> DEFINE Q == Range(cmdQ)
           R == Range(cmdQ')
           u == Shown(video)
           w == video'
<1>1. video \in VideoType /\ InTurn(sc, Q, engine, video) /\ Pace(video)
      /\ Start(sc, Q, engine, video) /\ Apart(sc, video)
  BY Shows
<1>2. sc \in ScType /\ engine \in EngineType /\ Ordered(sc, Q, engine) /\ States(sc)
  BY Typed
<1>3. engine' = engine /\ w = ShowNext(u)
  BY DEF __scHandleRetrace
<1>4. /\ Undrawn(sc', R) = Undrawn(sc, Q)
      /\ sc'.curRDP = sc.curRDP \/ TaskReady(sc'.curRDP, w)
      /\ sc'.rdp = sc.rdp \/ TaskReady(sc'.rdp, w)
  BY RetraceStep DEF Handled
<1> HIDE DEF Q, R
<1>5. /\ u \in VideoType /\ Pace(u) /\ u.pendingFB = None
      /\ Screen(u) = Screen(video) /\ NextShown(u) = NextShown(video) /\ u.viCurr = video.viCurr
      /\ Screen(u) = None => u.tick >= 1
  BY <1>1, ShownKeeps
<1> HIDE DEF u
<1>6. /\ w \in VideoType /\ Pace(w)
      /\ Screen(w) = Screen(u) \/ (Screen(w) # NextShown(w) /\ Screen(w) # None)
      /\ NextShown(w) = NextShown(u) /\ w.viCurr = u.viCurr
      /\ Screen(w) = None => w.tick = u.tick
  BY <1>3, <1>5, ShowNextKeeps
<1> HIDE DEF w
<1>7. InTurn(sc', R, engine', w)
  <2>1. RanksShift(sc, Q, engine, engine') /\ PutSlot(engine') = PutSlot(engine)
    BY <1>2, <1>3, RanksStay
  <2> QED
    BY <1>1, <1>2, <1>4, <1>5, <1>6, <2>1, InTurnKeeps
<1>8. Start(sc', R, engine', w)
  BY <1>1, <1>3, <1>5, <1>6 DEF Start
<1>9. Apart(sc', w)
  <2>1. ASSUME sc'.curRDP \in GfxTasks PROVE FB(sc'.curRDP) # Screen(w)
    <3>1. CASE TaskReady(sc'.curRDP, w)
      BY <1>6, <3>1, ReadyIsApart
    <3>2. CASE sc'.curRDP = sc.curRDP
      <4>1. FB(sc.curRDP) = NextShown(w)
        BY <1>1, <1>2, <1>5, <1>6, <2>1, <3>2, RDPInTurn
      <4>2. FB(sc.curRDP) # Screen(u)
        BY <1>1, <1>5, <2>1, <3>2 DEF Apart
      <4> QED
        BY <1>6, <3>2, <4>1, <4>2
    <3> QED
      BY <1>4, <3>1, <3>2
  <2>2. ASSUME sc'.rdp \in GfxTasks PROVE FB(sc'.rdp) # w.viCurr
    <3>1. CASE TaskReady(sc'.rdp, w)
      BY <1>6, <3>1, ReadyIsApart
    <3>2. CASE sc'.rdp = sc.rdp
      BY <1>1, <1>5, <1>6, <2>2, <3>2 DEF Apart
    <3> QED
      BY <1>4, <3>1, <3>2
  <2> QED
    BY <2>1, <2>2 DEF Apart
<1> QED
  BY <1>6, <1>7, <1>8, <1>9 DEF VideoInv, ShowInv, w, R

\* The events of the RSP and the commands change nothing for the screen.
LEMMA WorkShows ==
  ASSUME TasksInv, VideoInv, __scHandleRSP \/ Sched_HandleCmdMsg
  PROVE  VideoInv'
<1> DEFINE Q == Range(cmdQ)
           R == Range(cmdQ')
<1>1. video \in VideoType /\ InTurn(sc, Q, engine, video) /\ Pace(video)
      /\ Start(sc, Q, engine, video) /\ Apart(sc, video)
  BY Shows
<1>2. sc \in ScType /\ engine \in EngineType
  BY Typed
<1>3. engine' = engine /\ video' = video
  BY DEF __scHandleRSP, Sched_HandleCmdMsg
<1>4. /\ Undrawn(sc', R) = Undrawn(sc, Q) /\ Outstanding(sc', R) \subseteq Outstanding(sc, Q)
      /\ sc'.curRDP = sc.curRDP \/ TaskReady(sc'.curRDP, video)
      /\ sc'.rdp = sc.rdp \/ TaskReady(sc'.rdp, video)
      /\ Works(sc, Q, sc', R, engine)
  BY <1>3, RSPStep, CmdStep DEF Handled
<1> HIDE DEF Q, R
<1>5. InTurn(sc', R, engine', video')
  <2>1. RanksShift(sc, Q, engine, engine') /\ PutSlot(engine') = PutSlot(engine)
    BY <1>2, <1>3, RanksStay
  <2> QED
    BY <1>1, <1>2, <1>3, <1>4, <2>1, InTurnKeeps
<1>6. Start(sc', R, engine', video')
  <2>1. Outstanding(sc, Q) = {} /\ sc.gfxMsgQ = <<>> => Outstanding(sc', R) = {} /\ sc'.gfxMsgQ = <<>>
    BY <1>4 DEF Works, Outstanding
  <2> QED
    BY <1>1, <1>3, <2>1 DEF Start
<1>7. Apart(sc', video')
  <2>1. ASSUME sc'.curRDP \in GfxTasks PROVE FB(sc'.curRDP) # Screen(video)
    BY <1>1, <1>4, <2>1, ReadyIsApart DEF Apart
  <2>2. ASSUME sc'.rdp \in GfxTasks PROVE FB(sc'.rdp) # video.viCurr
    BY <1>1, <1>4, <2>2, ReadyIsApart DEF Apart
  <2> QED
    BY <1>3, <2>1, <2>2 DEF Apart
<1> QED
  BY <1>1, <1>3, <1>5, <1>6, <1>7 DEF VideoInv, ShowInv, R

\* The RDP finishes the frame whose turn it is.
LEMMA RDPShows ==
  ASSUME TasksInv, VideoInv, __scHandleRDP
  PROVE  VideoInv'
<1> DEFINE Q == Range(cmdQ)
           R == Range(cmdQ')
           t == sc.curRDP
           a == FB(t)
           x == Follower(engine, t)
           w == video'
<1>1. video \in VideoType /\ InTurn(sc, Q, engine, video) /\ Pace(video)
      /\ Start(sc, Q, engine, video) /\ Apart(sc, video)
  BY Shows
<1>2. sc \in ScType /\ engine \in EngineType /\ Ordered(sc, Q, engine) /\ States(sc)
  BY Typed
<1>3. engine' = engine /\ w = (IF LastOf(engine, t) THEN FinishFrame(video, a) ELSE video)
  BY DEF __scHandleRDP, IsLast, LastOf
<1>4. /\ t \in GfxTasks /\ Outstanding(sc', R) = Queued(sc, Q)
      /\ Undrawn(sc', R) = Undrawn(sc, Q) \ {t}
      /\ sc'.curRDP = NoTask \/ TaskReady(sc'.curRDP, w)
      /\ sc'.rdp = NoTask \/ TaskReady(sc'.rdp, w)
  BY RDPStep
<1> HIDE DEF Q, R, t
<1>5. /\ Undrawn(sc, Q) = Outstanding(sc, Q) /\ t \in Outstanding(sc, Q)
      /\ \A u \in Outstanding(sc, Q) : u = t \/ Rank(engine, t) < Rank(engine, u)
  BY <1>2, <1>4, Drawing DEF t
<1>6. a = NextShown(video) /\ a # Screen(video) /\ a \in Slots
  <2>1. a = NextShown(video)
    BY <1>1, <1>2, <1>4, RDPInTurn DEF t
  <2>2. a # Screen(video)
    BY <1>1, <1>4 DEF Apart, t
  <2> QED
    BY <1>4, <2>1, <2>2, GfxParts
<1>7. Screen(video) = None => video.tick >= 1 /\ engine.predict[a] <= 2
  BY <1>1, <1>5, <1>6 DEF Start
<1>8. /\ w \in VideoType /\ Pace(w) /\ NextShown(w) = FB(x)
      /\ Screen(w) = None => Screen(video) = None /\ w = video
  <2>1. CASE LastOf(engine, t)
    <3>1. engine.predict[a] \in Nat /\ w = FinishFrame(video, a)
      BY <1>2, <1>3, <1>6, <2>1, EngineFields
    <3>2. FB(x) = NextSlot(a)
      BY <1>6, <2>1, SlotFacts, GfxMade DEF Follower
    <3> HIDE DEF a, w, x
    <3>3. w \in VideoType /\ Pace(w) /\ Screen(w) # None /\ NextShown(w) = NextSlot(a)
      BY <1>1, <1>6, <1>7, <3>1, FinishKeeps
    <3> QED
      BY <3>2, <3>3
  <2>2. CASE ~LastOf(engine, t)
    <3>1. w = video /\ FB(x) = a
      BY <1>3, <1>6, <2>2, GfxMade DEF Follower
    <3> QED
      BY <1>1, <1>6, <3>1
  <2> QED
    BY <2>1, <2>2
<1> HIDE DEF a, w, x
<1>9. InTurn(sc', R, engine', w)
  <2>1. /\ \A u \in Outstanding(sc, Q) : u \in GfxTasks /\ Handed(engine, u)
        /\ \A u \in GfxTasks : Handed(engine, u) /\ Rank(engine, t) < Rank(engine, u) => u \in Undrawn(sc', R)
    <3>1. ASSUME NEW u \in GfxTasks, Handed(engine, u), Rank(engine, t) < Rank(engine, u)
          PROVE  u \in Undrawn(sc', R)
      <4>1. u \in Queued(sc, Q)
        BY <1>2, <1>5, <3>1 DEF Ordered
      <4>2. u # t
        BY <1>2, <1>4, <3>1, RanksOf
      <4> QED
        BY <1>4, <1>5, <4>1, <4>2 DEF Outstanding
    <3> QED
      BY <1>2, <3>1, UndrawnTasks DEF Ordered
  <2>2. ASSUME NEW u \in Undrawn(sc', R),
               \A y \in Undrawn(sc', R) : Rank(engine, u) <= Rank(engine, y)
        PROVE  FB(u) = NextShown(w)
    <3>1. u \in GfxTasks /\ Handed(engine, u) /\ Rank(engine, t) < Rank(engine, u)
      BY <1>4, <1>5, <2>1, <2>2
    <3>2. x \in GfxTasks /\ Handed(engine, x) /\ Rank(engine, t) < Rank(engine, x)
          /\ (x = u \/ Rank(engine, x) < Rank(engine, u))
      BY <1>2, <1>4, <1>5, <2>1, <3>1, FollowerIsNext DEF x
    <3>3. Rank(engine, u) <= Rank(engine, x) /\ Rank(engine, u) \in Int /\ Rank(engine, x) \in Int
      BY <1>2, <2>1, <2>2, <3>1, <3>2, RanksOf
    <3>4. x = u
      BY <3>2, <3>3
    <3> QED
      BY <1>8, <3>4
  <2>3. ASSUME Undrawn(sc', R) = {} PROVE PutSlot(engine) = NextShown(w)
    <3>1. ASSUME NEW u \in GfxTasks, Handed(engine, u) PROVE Rank(engine, u) <= Rank(engine, t)
      <4>1. Rank(engine, u) \in Int /\ Rank(engine, t) \in Int
        BY <1>2, <1>4, RanksOf
      <4>2. ~(Rank(engine, t) < Rank(engine, u))
        BY <2>1, <2>3, <3>1
      <4> QED
        BY <4>1, <4>2
    <3>2. Handed(engine, t)
      BY <1>5, <2>1
    <3>3. FB(x) = PutSlot(engine)
      BY <1>2, <1>4, <3>1, <3>2, PutIsNext DEF x
    <3> QED
      BY <1>8, <3>3
  <2> QED
    BY <1>3, <2>2, <2>3 DEF InTurn
<1>10. Start(sc', R, engine', w)
  BY <1>1, <1>3, <1>5, <1>8 DEF Start
<1>11. Apart(sc', w)
  <2>1. NoTask \notin GfxTasks
    BY Names
  <2> QED
    BY <1>4, <1>8, <2>1, ReadyIsApart DEF Apart
<1> QED
  BY <1>8, <1>9, <1>10, <1>11 DEF VideoInv, ShowInv, w, R

LEMMA HardwareShows ==
  ASSUME TasksInv, VideoInv, HardwareStep
  PROVE  VideoInv'
<1> DEFINE Q == Range(cmdQ)
           R == Range(cmdQ')
           w == video'
<1>1. video \in VideoType /\ InTurn(sc, Q, engine, video) /\ Pace(video)
      /\ Start(sc, Q, engine, video) /\ Apart(sc, video)
  BY Shows
<1>2. sc \in ScType /\ engine \in EngineType /\ Running(sc)
  BY Typed
<1>3. /\ engine' = engine /\ sc'.gfxMsgQ = sc.gfxMsgQ
      /\ Outstanding(sc', R) = Outstanding(sc, Q) /\ Undrawn(sc', R) = Undrawn(sc, Q)
      /\ sc'.curRDP = sc.curRDP /\ sc'.rdp \in {sc.rdp, NoTask}
  BY HardwareKeeps
<1> HIDE DEF Q, R
<1>4. \/ w = video
      \/ w = [video EXCEPT !.viCurr = video.viNext]
  BY DEF HardwareStep, VIRetrace, RSPWritesSync, RSPFinishes, RSPYields, RDPFinishes
<1>5. /\ w \in VideoType /\ w.tick = video.tick /\ w.pending = video.pending /\ w.waiting = video.waiting
      /\ w.ring = video.ring /\ w.in = video.in /\ w.out = video.out
      /\ w.currentFB = video.currentFB /\ w.pendingFB = video.pendingFB
      /\ w.viNext = video.viNext /\ w.viCurr \in {video.viCurr, video.viNext}
  BY <1>1, <1>4 DEF VideoType
<1> HIDE DEF w
<1>6. Screen(w) = Screen(video) /\ NextShown(w) = NextShown(video)
  BY <1>5 DEF Screen, NextShown
<1>7. Pace(w)
  BY <1>1, <1>5, <1>6 DEF Pace
<1>8. InTurn(sc', R, engine', w)
  <2>1. RanksShift(sc, Q, engine, engine') /\ PutSlot(engine') = PutSlot(engine)
    BY <1>2, <1>3, RanksStay
  <2> QED
    BY <1>1, <1>2, <1>3, <1>6, <2>1, InTurnKeeps
<1>9. Start(sc', R, engine', w)
  BY <1>1, <1>3, <1>5, <1>6 DEF Start
<1>10. Apart(sc', w)
  <2>1. ASSUME sc'.rdp \in GfxTasks PROVE FB(sc'.rdp) # w.viCurr
    <3>1. sc'.rdp = sc.rdp /\ sc.rdp = sc.curRDP
      BY <1>2, <1>3, <2>1, Names DEF Running
    <3>2. FB(sc.rdp) # video.viCurr /\ FB(sc.rdp) # Screen(video) /\ video.viNext = Screen(video)
      BY <1>1, <2>1, <3>1 DEF Apart, Pace
    <3> QED
      BY <1>5, <3>1, <3>2
  <2> QED
    BY <1>1, <1>3, <1>6, <2>1 DEF Apart
<1> QED
  BY <1>5, <1>7, <1>8, <1>9, <1>10 DEF VideoInv, ShowInv, w, R

\* The engine and the audio manager change nothing for the screen but what
\* comes to it next.
LEMMA LeavesScreen ==
  ASSUME TasksInv, VideoInv, video' = video, sc'.curRDP = sc.curRDP, sc'.rdp = sc.rdp,
         InTurn(sc', Range(cmdQ'), engine', video'),
         Start(sc', Range(cmdQ'), engine', video')
  PROVE  VideoInv'
<1>1. video \in VideoType /\ Pace(video) /\ Apart(sc, video)
  BY Shows
<1>2. Apart(sc', video')
  BY <1>1 DEF Apart
<1> QED
  BY <1>1, <1>2 DEF VideoInv, ShowInv

LEMMA AudioShows ==
  ASSUME TasksInv, VideoInv, AudioStep
  PROVE  VideoInv'
<1> DEFINE Q == Range(cmdQ)
           R == Range(cmdQ')
<1>1. InTurn(sc, Q, engine, video) /\ Start(sc, Q, engine, video) /\ engine \in EngineType
  BY Shows, Typed
<1>2. /\ engine' = engine /\ video' = video /\ sc'.gfxMsgQ = sc.gfxMsgQ
      /\ Outstanding(sc', R) = Outstanding(sc, Q) /\ Undrawn(sc', R) = Undrawn(sc, Q)
      /\ sc'.curRDP = sc.curRDP /\ sc'.rdp = sc.rdp
  BY AudioKeeps
<1> HIDE DEF Q, R
<1>3. InTurn(sc', R, engine', video')
  <2>1. RanksShift(sc, Q, engine, engine') /\ PutSlot(engine') = PutSlot(engine)
    BY <1>1, <1>2, RanksStay
  <2> QED
    BY <1>1, <1>2, <2>1, InTurnKeeps
<1>4. Start(sc', R, engine', video')
  BY <1>1, <1>2 DEF Start
<1> QED
  BY <1>2, <1>3, <1>4, LeavesScreen DEF R

LEMMA RecvShows ==
  ASSUME TasksInv, VideoInv, EngineRecv
  PROVE  VideoInv'
<1> DEFINE Q == Range(cmdQ)
           R == Range(cmdQ')
<1>1. InTurn(sc, Q, engine, video) /\ Start(sc, Q, engine, video) /\ engine \in EngineType
  BY Shows, Typed
<1>2. /\ video' = video /\ Undrawn(sc', R) = Undrawn(sc, Q)
      /\ RanksShift(sc, Q, engine, engine') /\ PutSlot(engine') = PutSlot(engine)
      /\ engine'.predict = engine.predict
      /\ sc'.curRDP = sc.curRDP /\ sc'.rdp = sc.rdp
  BY RecvKeeps
<1>3. sc.gfxMsgQ # <<>>
  BY DEF EngineRecv
<1> HIDE DEF Q, R
<1>4. InTurn(sc', R, engine', video')
  BY <1>1, <1>2, InTurnKeeps
<1>5. Start(sc', R, engine', video')
  BY <1>1, <1>2, <1>3 DEF Start
<1> QED
  BY <1>2, <1>4, <1>5, LeavesScreen DEF R

\* The task handed over is the next in turn, or comes after those that are.
LEMMA PutsInTurn ==
  ASSUME TasksInv, VideoInv, NEW t, PutsTask(t), video' = video
  PROVE  InTurn(sc', Range(cmdQ'), engine', video')
<1> DEFINE A == Undrawn(sc, {})
           B == Undrawn(sc', {t})
<1>1. /\ cmdQ = <<>> /\ cmdQ' = <<t>> /\ t \in GfxTasks /\ FB(t) = PutSlot(engine)
      /\ \A u \in GfxTasks : Rank(engine', u) = Rank(engine, u)
      /\ \A u \in Outstanding(sc, {}) : Rank(engine, u) < Rank(engine, t)
      /\ \A u : u \in B <=> (u \in A \/ u = t)
  BY DEF PutsTask
<1>2. Range(cmdQ) = {} /\ Range(cmdQ') = {t}
  BY <1>1, PutOne, BatchFacts
<1>3. /\ \A u \in A : (\A y \in A : Rank(engine, u) <= Rank(engine, y)) => FB(u) = NextShown(video)
      /\ A = {} => PutSlot(engine) = NextShown(video)
  BY <1>2, Shows DEF InTurn
<1>4. \A u \in A : u \in GfxTasks /\ Rank(engine, u) < Rank(engine, t) /\ Rank(engine, u) \in Int
  BY <1>1, Typed, UndrawnTasks, RanksOf
<1>5. Rank(engine, t) \in Int
  BY <1>1, Typed, RanksOf
<1> HIDE DEF A, B
<1>6. ASSUME NEW u \in B, \A y \in B : Rank(engine', u) <= Rank(engine', y)
      PROVE  FB(u) = NextShown(video)
  <2>1. \A y \in B : Rank(engine, u) <= Rank(engine, y)
    BY <1>1, <1>4, <1>6
  <2>2. CASE u = t
    <3>1. \A y \in A : FALSE
      BY <1>1, <1>4, <1>5, <2>1, <2>2
    <3>2. A = {}
      BY <3>1
    <3> QED
      BY <1>1, <1>3, <2>2, <3>2
  <2>3. CASE u \in A
    BY <1>1, <1>3, <2>1, <2>3
  <2> QED
    BY <1>1, <1>6, <2>2, <2>3
<1>7. B # {}
  BY <1>1
<1>8. InTurn(sc', {t}, engine', video)
  BY <1>6, <1>7 DEF InTurn, B
<1> QED
  BY <1>2, <1>8

LEMMA PutShows ==
  ASSUME TasksInv, VideoInv, EnginePut
  PROVE  VideoInv'
<1>1. /\ video' = video /\ sc' = sc /\ engine'.predict = engine.predict /\ engine.pc # "recv"
  BY PutKeeps
<1>2. InTurn(sc', Range(cmdQ'), engine', video')
  BY <1>1, PutKeeps, PutsInTurn
<1>3. Start(sc', Range(cmdQ'), engine', video')
  BY <1>1, Shows DEF Start
<1> QED
  BY <1>1, <1>2, <1>3, LeavesScreen

LEMMA KickShows ==
  ASSUME TasksInv, VideoInv, EngineKick
  PROVE  VideoInv'
<1> DEFINE Q == Range(cmdQ)
           R == Range(cmdQ')
<1>1. InTurn(sc, Q, engine, video) /\ Start(sc, Q, engine, video) /\ engine \in EngineType
  BY Shows, Typed
<1>2. /\ video' = video /\ sc' = sc /\ R = Q /\ engine.pc # "recv"
      /\ RanksShift(sc, Q, engine, engine') /\ PutSlot(engine') = PutSlot(engine)
      /\ engine'.predict = engine.predict
  BY KickKeeps
<1> HIDE DEF Q, R
<1>3. InTurn(sc', R, engine', video')
  <2>1. Undrawn(sc', R) = Undrawn(sc, Q)
    BY <1>2
  <2> QED
    BY <1>1, <1>2, <2>1, InTurnKeeps
<1>4. Start(sc', R, engine', video')
  BY <1>1, <1>2 DEF Start
<1> QED
  BY <1>2, <1>3, <1>4, LeavesScreen DEF R

LEMMA DrawShows ==
  ASSUME TasksInv, VideoInv, EngineDraw
  PROVE  VideoInv'
<1> DEFINE Q == Range(cmdQ)
           R == Range(cmdQ')
<1>1. InTurn(sc, Q, engine, video) /\ Start(sc, Q, engine, video) /\ engine \in EngineType
      /\ video \in VideoType
  BY Shows, Typed
<1>2. /\ video' = video /\ engine.pc # "recv" /\ sc'.curRDP = sc.curRDP /\ sc'.rdp = sc.rdp
      /\ \E p \in MayPredict : engine'.predict = [engine.predict EXCEPT ![engine.slot] = p]
      /\ \/ \E t : PutsTask(t)
         \/ /\ Undrawn(sc', R) = Undrawn(sc, Q)
            /\ RanksShift(sc, Q, engine, engine') /\ PutSlot(engine') = PutSlot(engine)
  BY DrawKeeps
<1>3. InTurn(sc', R, engine', video')
  <2>1. CASE \E t : PutsTask(t)
    BY <1>2, <2>1, PutsInTurn
  <2> HIDE DEF Q, R
  <2>2. CASE ~\E t : PutsTask(t)
    BY <1>1, <1>2, <2>2, InTurnKeeps
  <2> QED
    BY <2>1, <2>2
<1>4. Start(sc', R, engine', video')
  <2> SUFFICES ASSUME Screen(video) = None
               PROVE  (\A i \in Slots : engine'.predict[i] <= 2) /\ video.tick >= 1
    BY <1>2 DEF Start
  <2>1. (\A i \in Slots : engine.predict[i] <= 2) /\ video.tick >= 1
    BY <1>1, <1>2 DEF Start
  <2>2. video.pendingFB = None /\ video.currentFB = None
    BY DEF Screen
  <2>3. engine'.predict = [engine.predict EXCEPT ![engine.slot] = 2]
    BY <1>2, <2>2 DEF MayPredict
  <2>4. engine.predict \in [Slots -> Nat] /\ engine.slot \in Slots
    BY <1>1, EngineFields
  <2> QED
    BY <2>1, <2>3, <2>4
<1> QED
  BY <1>2, <1>3, <1>4, LeavesScreen

LEMMA InitShows ==
  ASSUME Init
  PROVE  VideoInv
<1>1. /\ video = [tick |-> 0, pending |-> 0, waiting |-> 0, ring |-> [i \in Slots |-> None],
                  in |-> 0, out |-> 0, currentFB |-> None, pendingFB |-> None,
                  viCurr |-> None, viNext |-> None]
      /\ engine.pc = "recv" /\ engine.slot = 0 /\ engine.predict = [s \in Slots |-> 0]
      /\ sc.gfxMsgQ = <<>> /\ sc.curRDP = NoTask /\ sc.rdp = NoTask
  BY DEF Init
<1>2. Outstanding(sc, Range(cmdQ)) = {} /\ Undrawn(sc, Range(cmdQ)) = {}
  BY InitHolds
<1>3. video \in VideoType
  <2>1. [i \in Slots |-> None] \in [Slots -> Slots \cup {None}] /\ 0 \in Slots
    BY DEF Slots
  <2> QED
    BY <1>1, <2>1 DEF VideoType
<1>4. /\ video.tick = 0 /\ video.pending = 0 /\ video.waiting = 0 /\ video.in = 0 /\ video.out = 0
      /\ video.pendingFB = None /\ video.viNext = None /\ Screen(video) = None
  BY <1>1 DEF Screen
<1>5. InTurn(sc, Range(cmdQ), engine, video)
  <2>1. PutRank(engine) = 4 /\ PutSlot(engine) = 0
    BY <1>1 DEF PutRank, PutSlot
  <2>2. NextShown(video) = 0
    BY <1>4, SlotFacts DEF NextShown
  <2> QED
    BY <1>2, <2>1, <2>2 DEF InTurn
<1>6. Pace(video) /\ Start(sc, Range(cmdQ), engine, video)
  BY <1>1, <1>2, <1>4 DEF Pace, Start
<1>7. Apart(sc, video)
  BY <1>1, Names DEF Apart
<1> QED
  BY <1>3, <1>5, <1>6, <1>7 DEF VideoInv, ShowInv

LEMMA VideoStep ==
  ASSUME TasksInv, VideoInv, [Next]_vars
  PROVE  VideoInv'
<1>1. CASE SchedulerStep
  BY <1>1, RetraceShows, WorkShows, RDPShows DEF SchedulerStep
<1>2. CASE HardwareStep
  BY <1>2, HardwareShows
<1>3. CASE EngineStep
  BY <1>3, RecvShows, DrawShows, PutShows, KickShows DEF EngineStep
<1>4. CASE AudioStep
  BY <1>4, AudioShows
<1>5. CASE UNCHANGED vars
  BY <1>5 DEF vars, VideoInv
<1> QED
  BY <1>1, <1>2, <1>3, <1>4, <1>5 DEF Next

\* The RDP finishes the frames in turn: next that of the slot after the frames
\* on the screen and waiting for it, with which the ring and the counters agree.
THEOREM FramesInTurn == Spec => []VideoInv
<1>1. Init => VideoInv
  BY InitShows
<1>2. TasksInv /\ VideoInv /\ [Next]_vars => VideoInv'
  BY VideoStep
<1> QED
  BY <1>1, <1>2, TasksHold, PTL DEF Spec

\* The RDP never draws into the framebuffer that the VI shows or will show next.
THEOREM NothingTears == Spec => []NoTearing
<1>1. TasksInv /\ VideoInv => NoTearing
  <2> SUFFICES ASSUME TasksInv, VideoInv, sc.rdp # NoTask
               PROVE  FB(sc.rdp) \notin {video.viCurr, video.viNext}
    BY DEF NoTearing
  <2>1. sc.rdp \in GfxTasks /\ sc.rdp = sc.curRDP
    BY Typed, ScFields DEF Running
  <2>2. Apart(sc, video) /\ video.viNext = Screen(video)
    BY Shows DEF Pace
  <2> QED
    BY <2>1, <2>2 DEF Apart
<1> QED
  BY <1>1, TasksHold, FramesInTurn, PTL

-----------------------------------------------------------------------------
(* Every frame is seen.                                                    *)

\* A framebuffer the VI has not taken was handed over since the last retrace
\* the scheduler saw, or there has been none since.
Taking(v, iq) ==
    v.viNext # v.viCurr => v.pending = 1 \/ (v.tick = 0 /\ Count(iq, "retrace") = 0)

\* The frames on their way ask for two retraces.
Asking(s, Q, e, v) ==
    /\ \A t \in Outstanding(s, Q) : e.predict[FB(t)] >= 2
    /\ e.pc \in {"kick0", "put1", "kick1"} => e.predict[e.slot] >= 2
    /\ \A i \in Slots : v.ring[i] # None => e.predict[v.ring[i]] >= 2

SeenInv == Taking(video, interruptQ) /\ Asking(sc, Range(cmdQ), engine, video)

\* No other step lets a retrace come or go.
LEMMA RetracesStay ==
  ASSUME TasksInv,
         \/ __scHandleRSP \/ __scHandleRDP \/ Sched_HandleCmdMsg
         \/ HardwareStep /\ ~VIRetrace
         \/ EngineStep \/ AudioStep
  PROVE  Count(interruptQ', "retrace") = Count(interruptQ, "retrace")
<1> DEFINE n(q) == Count(q, "retrace")
<1>1. /\ interruptQ \in Seq(EventNames) /\ TasksTypes
      /\ {"sp", "dp", "cmd", "retrace"} \subseteq EventNames
  BY DEF TasksInv, TasksTypes, EventNames
<1>2. ASSUME NEW ev \in {"sp", "dp", "cmd"}, Take(ev) PROVE n(interruptQ') = n(interruptQ)
  <2>1. /\ n(interruptQ) \in Nat /\ n(interruptQ') \in Nat
        /\ n(interruptQ) = n(interruptQ') + (IF "retrace" = ev THEN 1 ELSE 0)
    BY <1>1, <1>2, Taken
  <2> HIDE DEF n
  <2> QED
    BY <1>2, <2>1
<1>3. ASSUME NEW ev \in {"sp", "dp", "cmd"}, Post(ev) \/ interruptQ' = Append(interruptQ, ev)
      PROVE  n(interruptQ') = n(interruptQ)
  <2>1. interruptQ' = interruptQ \/ interruptQ' = Append(interruptQ, ev)
    BY <1>3 DEF Post
  <2>2. /\ n(interruptQ) \in Nat
        /\ n(Append(interruptQ, ev)) = n(interruptQ) + (IF "retrace" = ev THEN 1 ELSE 0)
    <3>1. ev \in EventNames /\ "retrace" \in EventNames
      BY <1>1, <1>3
    <3>2. \A x \in EventNames :
            /\ Count(interruptQ, x) \in Nat
            /\ Count(Append(interruptQ, ev), x) = Count(interruptQ, x) + (IF x = ev THEN 1 ELSE 0)
      BY <1>1, <3>1, Posted
    <3> QED
      BY <3>1, <3>2
  <2> HIDE DEF n
  <2>3. n(Append(interruptQ, ev)) = n(interruptQ)
    BY <1>3, <2>2
  <2> QED
    BY <2>1, <2>3
<1>4. CASE __scHandleRSP \/ __scHandleRDP \/ Sched_HandleCmdMsg
  BY <1>2, <1>4 DEF __scHandleRSP, __scHandleRDP, Sched_HandleCmdMsg
<1>5. CASE HardwareStep /\ ~VIRetrace
  <2>1. CASE RSPWritesSync
    BY <2>1 DEF RSPWritesSync
  <2>2. CASE RSPFinishes \/ RSPYields
    BY <1>3, <2>2 DEF RSPFinishes, RSPYields
  <2>3. CASE RDPFinishes
    BY <1>3, <2>3 DEF RDPFinishes
  <2> QED
    BY <1>5, <2>1, <2>2, <2>3 DEF HardwareStep
<1>6. CASE EngineStep
  <2>1. CASE EngineRecv \/ EnginePut
    BY <2>1 DEF EngineRecv, EnginePut
  <2>2. CASE EngineDraw
    BY <2>2, DrawMeans
  <2>3. CASE EngineKick
    BY <1>3, <2>3 DEF EngineKick, Kick
  <2> QED
    BY <1>6, <2>1, <2>2, <2>3 DEF EngineStep
<1>7. CASE AudioStep
  <2>1. CASE AudioPut \/ AudioReply
    BY <2>1 DEF AudioPut, AudioReply
  <2>2. CASE AudioKick
    BY <1>3, <2>2 DEF AudioKick, Kick
  <2> QED
    BY <1>7, <2>1, <2>2 DEF AudioStep
<1> QED
  BY <1>4, <1>5, <1>6, <1>7

\* The frame-pacing half of a retrace.
LEMMA RetraceSeen ==
  ASSUME TasksInv, VideoInv, SeenInv, MaxLate = 1, __scHandleRetrace
  PROVE  /\ SeenInv'
         /\ video'.viNext # video.viNext => video.viNext = video.viCurr
<1> DEFINE v == video
           u == Shown(video)
           w == video'
           Q == Range(cmdQ)
           R == Range(cmdQ')
<1>1. /\ v \in VideoType /\ Pace(v) /\ TasksTypes /\ EventsDue(sc, interruptQ)
      /\ Taking(v, interruptQ) /\ Asking(sc, Q, engine, v)
  BY Shows DEF TasksInv, SeenInv
<1>2. engine' = engine /\ w = ShowNext(u) /\ Take("retrace") /\ "retrace" \in EventNames
  BY DEF __scHandleRetrace, EventNames
<1>3. Outstanding(sc', R) \subseteq Outstanding(sc, Q)
  BY RetraceStep DEF Handled
<1>4. Count(interruptQ, "retrace") = 1 /\ Count(interruptQ', "retrace") = 0
  <2>1. /\ Count(interruptQ, "retrace") \in Nat /\ Count(interruptQ', "retrace") \in Nat
        /\ Count(interruptQ, "retrace") = Count(interruptQ', "retrace") + 1
    BY <1>1, <1>2, Taken
  <2> QED
    BY <1>1, <2>1 DEF EventsDue
<1> HIDE DEF Q, R
<1>5. /\ u \in VideoType /\ Pace(u) /\ u.pendingFB = None /\ u.pending = 0 /\ u.viCurr = v.viCurr
      /\ Screen(u) = Screen(v)
  BY <1>1, ShownKeeps
<1>6. u.ring = v.ring /\ u.viNext = v.viNext /\ (v.pending = 1 => u.tick = 0)
  <2>1. Shown(v).ring = v.ring
    BY <1>1 DEF Shown, VideoType
  <2>2. u.viNext = v.viNext
    BY <1>1, <1>5 DEF Pace
  <2>3. v.pending = 1 => Shown(v).tick = 0
    BY <1>1 DEF Shown, VideoType
  <2> QED
    BY <2>1, <2>2, <2>3
<1> DEFINE turn == u.waiting # 0 /\ u.tick + 1 >= engine.predict[u.ring[u.out]]
           a == u.ring[u.out]
           h == HandOver(u, a)
<1>7. ASSUME ~turn PROVE w = u
  BY <1>2, <1>7 DEF ShowNext
<1>8. ASSUME turn PROVE a \in Slots /\ v.pending = 0
  <2>1. u.waiting \in {1, 2} /\ a = NextSlot(Screen(u)) /\ Screen(u) \in Slots /\ u.out \in Slots
    BY <1>5, <1>8, VideoFields DEF Pace
  <2>2. a \in Slots /\ a # None
    BY <2>1, SlotFacts
  <2>3. engine.predict[a] >= 2 /\ engine.predict[a] \in Nat /\ u.tick \in Nat
    BY <1>1, <1>5, <1>6, <2>1, <2>2, VideoFields, EngineFields DEF Asking, TasksTypes
  <2>4. u.tick # 0
    BY <1>8, <2>3
  <2> QED
    BY <1>1, <1>6, <2>2, <2>4 DEF Pace
<1>9. ASSUME turn PROVE w.pending = 1 /\ w.ring = [u.ring EXCEPT ![u.out] = None]
  <2>1. w = [h EXCEPT !.waiting = @ - 1, !.ring[u.out] = None, !.out = NextSlot(@)]
    BY <1>2, <1>9 DEF ShowNext
  <2>2. h \in VideoType /\ h.pending = 1 /\ h.ring = u.ring
    BY <1>5, <1>8, <1>9, HandOverFields
  <2> HIDE DEF h
  <2> QED
    BY <2>1, <2>2 DEF VideoType
<1> HIDE DEF turn, u, w, v
<1>10. Taking(w, interruptQ')
  <2>1. CASE turn
    BY <1>9, <2>1 DEF Taking
  <2>2. CASE ~turn
    <3>1. CASE v.pending = 1
      BY <1>4, <1>6, <1>7, <2>2, <3>1 DEF Taking
    <3>2. CASE v.pending # 1
      BY <1>1, <1>4, <1>5, <1>6, <1>7, <2>2, <3>2 DEF Taking
    <3> QED
      BY <3>1, <3>2
  <2> QED
    BY <2>1, <2>2
<1>11. Asking(sc', R, engine', w)
  <2>1. u.ring \in [Slots -> Slots \cup {None}]
    BY <1>5, VideoFields
  <2>2. \A i \in Slots : w.ring[i] # None => w.ring[i] = v.ring[i]
    BY <1>6, <1>7, <1>9, <2>1
  <2> QED
    BY <1>1, <1>2, <1>3, <2>2 DEF Asking
<1>12. w.viNext # v.viNext => v.viNext = v.viCurr
  <2>1. CASE turn
    BY <1>1, <1>4, <1>8, <2>1 DEF Taking
  <2>2. CASE ~turn
    BY <1>6, <1>7, <2>2
  <2> QED
    BY <2>1, <2>2
<1> QED
  BY <1>10, <1>11, <1>12 DEF SeenInv, w, v, R

LEMMA RDPSeen ==
  ASSUME TasksInv, VideoInv, SeenInv, __scHandleRDP
  PROVE  /\ SeenInv'
         /\ video'.viNext # video.viNext => video.viNext = video.viCurr
<1> DEFINE v == video
           w == video'
           Q == Range(cmdQ)
           R == Range(cmdQ')
           t == sc.curRDP
           a == FB(t)
<1>1. /\ v \in VideoType /\ Taking(v, interruptQ) /\ Asking(sc, Q, engine, v) /\ engine \in EngineType
  BY Shows, Typed DEF SeenInv
<1>2. engine' = engine /\ w = (IF IsLast(t) THEN FinishFrame(v, a) ELSE v)
  BY DEF __scHandleRDP
<1>3. t \in GfxTasks /\ Outstanding(sc', R) = Queued(sc, Q)
  BY RDPStep
<1>4. Count(interruptQ', "retrace") = Count(interruptQ, "retrace")
  <2>1. TasksTypes /\ Take("dp") /\ "dp" \in EventNames /\ "retrace" \in EventNames /\ "retrace" # "dp"
    BY DEF TasksInv, __scHandleRDP, EventNames
  <2>2. /\ Count(interruptQ, "retrace") \in Nat /\ Count(interruptQ', "retrace") \in Nat
        /\ Count(interruptQ, "retrace") = Count(interruptQ', "retrace") + (IF "retrace" = "dp" THEN 1 ELSE 0)
    BY <2>1, Taken
  <2> QED
    BY <2>1, <2>2
<1>5. a \in Slots /\ engine.predict[a] >= 2 /\ engine.predict[a] \in Nat /\ v.tick \in Nat /\ v.in \in Slots
  BY <1>1, <1>3, GfxParts, EngineFields, VideoFields DEF Asking, Outstanding
<1> HIDE DEF v, w, Q, R, t, a
<1> DEFINE now == v.tick + 1 >= engine.predict[a] /\ v.waiting = 0 /\ v.pending = 0
<1>6. \/ w = v
      \/ now /\ w = HandOver(v, a)
      \/ w = [v EXCEPT !.waiting = @ + 1, !.ring[v.in] = a, !.in = NextSlot(@)]
  BY <1>2 DEF FinishFrame
<1>7. CASE w = v
  <2>1. Asking(sc', R, engine', w)
    BY <1>1, <1>2, <1>3, <1>7 DEF Asking, Outstanding
  <2> QED
    BY <1>1, <1>4, <1>7, <2>1 DEF SeenInv, Taking, w, v, R
<1>8. CASE now /\ w = HandOver(v, a)
  <2>1. w.ring = v.ring /\ w.pending = 1
    BY <1>1, <1>5, <1>8, HandOverFields
  <2>2. v.viNext = v.viCurr
    BY <1>1, <1>5, <1>8 DEF Taking
  <2>3. Asking(sc', R, engine', w)
    BY <1>1, <1>2, <1>3, <2>1 DEF Asking, Outstanding
  <2> QED
    BY <2>1, <2>2, <2>3 DEF SeenInv, Taking, w, v, R
<1>9. CASE w = [v EXCEPT !.waiting = @ + 1, !.ring[v.in] = a, !.in = NextSlot(@)]
  <2>1. /\ w.ring = [v.ring EXCEPT ![v.in] = a] /\ w.pending = v.pending /\ w.tick = v.tick
        /\ w.viNext = v.viNext /\ w.viCurr = v.viCurr
    BY <1>1, <1>9 DEF VideoType
  <2>2. v.ring \in [Slots -> Slots \cup {None}]
    BY <1>1, VideoFields
  <2>3. Asking(sc', R, engine', w)
    BY <1>1, <1>2, <1>3, <1>5, <2>1, <2>2 DEF Asking, Outstanding
  <2> QED
    BY <1>1, <1>4, <2>1, <2>3 DEF SeenInv, Taking, w, v, R
<1> QED
  BY <1>6, <1>7, <1>8, <1>9

\* The steps of the others leave the frames that wait alone.
LEMMA LeavesFrames ==
  ASSUME SeenInv, video' = video, Count(interruptQ', "retrace") = Count(interruptQ, "retrace"),
         \A t \in Outstanding(sc', Range(cmdQ')) : engine'.predict[FB(t)] >= 2,
         engine'.pc \in {"kick0", "put1", "kick1"} => engine'.predict[engine'.slot] >= 2,
         \A i \in Slots : engine.predict[i] >= 2 => engine'.predict[i] >= 2,
         video \in VideoType
  PROVE  SeenInv'
<1>1. Taking(video', interruptQ')
  BY DEF SeenInv, Taking
<1>2. \A i \in Slots : video.ring[i] \in Slots \cup {None}
  BY VideoFields
<1>3. Asking(sc', Range(cmdQ'), engine', video')
  BY <1>2 DEF SeenInv, Asking
<1> QED
  BY <1>1, <1>3 DEF SeenInv

LEMMA HardwareSeen ==
  ASSUME TasksInv, VideoInv, SeenInv, HardwareStep
  PROVE  SeenInv' /\ video'.viNext = video.viNext
<1>1. /\ engine' = engine /\ Outstanding(sc', Range(cmdQ')) = Outstanding(sc, Range(cmdQ))
      /\ video \in VideoType
  BY HardwareKeeps, Shows
<1>2. CASE VIRetrace
  <2>1. video' = [video EXCEPT !.viCurr = video.viNext]
    BY <1>2 DEF VIRetrace
  <2>2. video'.viCurr = video.viNext /\ video'.viNext = video.viNext /\ video'.ring = video.ring
    BY <1>1, <2>1 DEF VideoType
  <2>3. Taking(video', interruptQ')
    BY <2>2 DEF Taking
  <2>4. Asking(sc', Range(cmdQ'), engine', video')
    BY <1>1, <2>2 DEF SeenInv, Asking
  <2> QED
    BY <2>2, <2>3, <2>4 DEF SeenInv
<1>3. CASE ~VIRetrace
  <2>1. video' = video
    BY <1>3 DEF HardwareStep, RSPWritesSync, RSPFinishes, RSPYields, RDPFinishes
  <2>3. Count(interruptQ', "retrace") = Count(interruptQ, "retrace")
    BY <1>3, RetracesStay
  <2> QED
    BY <1>1, <2>1, <2>3, LeavesFrames DEF SeenInv, Asking
<1> QED
  BY <1>2, <1>3

\* The steps after which the RSP and the RDP have no more to do than before.
LEMMA WorkSeen ==
  ASSUME TasksInv, VideoInv, SeenInv, __scHandleRSP \/ Sched_HandleCmdMsg \/ AudioStep
  PROVE  SeenInv' /\ video' = video
<1>1. video' = video /\ engine' = engine
      /\ Outstanding(sc', Range(cmdQ')) \subseteq Outstanding(sc, Range(cmdQ))
  BY RSPStep, CmdStep, AudioKeeps DEF Handled, __scHandleRSP, Sched_HandleCmdMsg
<1>2. Count(interruptQ', "retrace") = Count(interruptQ, "retrace")
  BY RetracesStay
<1>3. video \in VideoType
  BY Shows
<1> QED
  BY <1>1, <1>2, <1>3, LeavesFrames DEF SeenInv, Asking

LEMMA RecvSeen ==
  ASSUME TasksInv, VideoInv, SeenInv, EngineRecv
  PROVE  SeenInv' /\ video' = video
<1>1. /\ video' = video /\ engine'.predict = engine.predict
      /\ Outstanding(sc', Range(cmdQ')) = Outstanding(sc, Range(cmdQ))
  BY RecvKeeps
<1>2. engine'.pc \in {"recv", "draw"}
  BY Typed DEF EngineRecv, CEngineApp__Retrace, EngineType
<1>3. Count(interruptQ', "retrace") = Count(interruptQ, "retrace")
  BY RetracesStay DEF EngineStep
<1>4. video \in VideoType
  BY Shows
<1> QED
  BY <1>1, <1>2, <1>3, <1>4, LeavesFrames DEF SeenInv, Asking

LEMMA PutSeen ==
  ASSUME TasksInv, VideoInv, SeenInv, EnginePut
  PROVE  SeenInv' /\ video' = video
<1>1. /\ video' = video /\ sc' = sc /\ engine'.predict = engine.predict
  BY PutKeeps
<1>2. PICK t : PutsTask(t)
  BY PutKeeps
<1>3. engine.pc = "put1" /\ engine' = [engine EXCEPT !.pc = "kick1"] /\ engine \in EngineType
      /\ engine.lines[engine.slot]
  BY Typed DEF EnginePut, TasksInv, EngineOk
<1>4. engine'.slot = engine.slot /\ FB(t) = engine.slot
  BY <1>2, <1>3 DEF PutsTask, PutSlot, PutRank, EngineType
<1>5. Range(cmdQ) = {} /\ Range(cmdQ') = {t}
  BY <1>2, PutOne, BatchFacts DEF PutsTask
<1>6. \A u \in Outstanding(sc', Range(cmdQ')) : u \in Outstanding(sc, Range(cmdQ)) \/ u = t
  <2>1. Outstanding(sc', {t}) = Outstanding(sc, {}) \cup {t}
    BY <1>2 DEF PutsTask
  <2> QED
    BY <1>5, <2>1
<1>7. engine.predict[engine.slot] >= 2
  BY <1>3 DEF SeenInv, Asking
<1>8. \A u \in Outstanding(sc', Range(cmdQ')) : engine'.predict[FB(u)] >= 2
  BY <1>1, <1>4, <1>6, <1>7 DEF SeenInv, Asking
<1>9. Count(interruptQ', "retrace") = Count(interruptQ, "retrace")
  BY RetracesStay DEF EngineStep
<1> QED
  BY <1>1, <1>4, <1>7, <1>8, <1>9, Shows, LeavesFrames

LEMMA KickSeen ==
  ASSUME TasksInv, VideoInv, SeenInv, EngineKick
  PROVE  SeenInv' /\ video' = video
<1>1. /\ video' = video /\ sc' = sc /\ cmdQ' = cmdQ /\ engine'.predict = engine.predict
  BY KickKeeps
<1>2. engine'.pc = "recv" \/ (engine'.slot = engine.slot /\ engine.pc = "kick0")
  <2>1. engine \in EngineType
    BY Typed
  <2>2. CASE engine.pc = "kick0" /\ engine.lines[engine.slot]
    <3>1. engine' = [engine EXCEPT !.pc = "put1"]
      BY <2>2 DEF EngineKick
    <3> QED
      BY <2>1, <2>2, <3>1 DEF EngineType
  <2>3. CASE ~(engine.pc = "kick0" /\ engine.lines[engine.slot])
    <3>1. PICK fade \in Fades : engine' = [NextFrame(engine) EXCEPT !.switching = fade]
      BY <2>3 DEF EngineKick
    <3> QED
      BY <2>1, <3>1, NextFrameFields
  <2> QED
    BY <2>2, <2>3
<1>3. \A t \in Outstanding(sc', Range(cmdQ')) : engine'.predict[FB(t)] >= 2
  BY <1>1 DEF SeenInv, Asking
<1>4. engine'.pc \in {"kick0", "put1", "kick1"} => engine'.predict[engine'.slot] >= 2
  BY <1>1, <1>2 DEF SeenInv, Asking
<1>5. Count(interruptQ', "retrace") = Count(interruptQ, "retrace")
  BY RetracesStay DEF EngineStep
<1> QED
  BY <1>1, <1>3, <1>4, <1>5, Shows, LeavesFrames

LEMMA DrawSeen ==
  ASSUME TasksInv, VideoInv, SeenInv, EngineDraw, \A p \in Predicts : p >= 2
  PROVE  SeenInv' /\ video' = video
<1> DEFINE e == engine
           f == engine'
<1>1. e \in EngineType /\ e.slot \in Slots /\ e.predict \in [Slots -> Nat] /\ e.pc = "draw"
  BY Typed, EngineFields, DrawMeans
<1>2. /\ video' = video /\ f.slot = e.slot
      /\ \E p \in MayPredict : f.predict = [e.predict EXCEPT ![e.slot] = p]
      /\ \/ \E t : PutsTask(t)
         \/ Outstanding(sc', Range(cmdQ')) = Outstanding(sc, Range(cmdQ))
  BY DrawKeeps, DrawCases
<1>3. \A p \in MayPredict : p >= 2
  BY DEF MayPredict
<1>4. f.predict[e.slot] >= 2 /\ \A i \in Slots : e.predict[i] >= 2 => f.predict[i] >= 2
  BY <1>1, <1>2, <1>3
<1>5. ASSUME NEW u \in Outstanding(sc', Range(cmdQ')) PROVE f.predict[FB(u)] >= 2
  <2>1. CASE u \in Outstanding(sc, Range(cmdQ))
    <3>1. u \in GfxTasks /\ e.predict[FB(u)] >= 2
      BY <2>1, UndrawnTasks DEF SeenInv, Asking
    <3> QED
      BY <1>4, <3>1, GfxParts
  <2>2. ASSUME NEW t, PutsTask(t), u \notin Outstanding(sc, Range(cmdQ))
        PROVE  f.predict[FB(u)] >= 2
    <3>1. Range(cmdQ) = {} /\ Range(cmdQ') = {t}
      BY <2>2, PutOne, BatchFacts DEF PutsTask
    <3>2. u = t /\ FB(t) = e.slot
      <4>1. Outstanding(sc', {t}) = Outstanding(sc, {}) \cup {t} /\ FB(t) = PutSlot(e)
        BY <2>2 DEF PutsTask
      <4>2. PutSlot(e) = e.slot
        BY <1>1 DEF PutSlot, PutRank
      <4> QED
        BY <1>5, <2>2, <3>1, <4>1, <4>2
    <3> QED
      BY <1>4, <3>2
  <2> QED
    BY <1>2, <1>5, <2>1, <2>2
<1>6. Count(interruptQ', "retrace") = Count(interruptQ, "retrace")
  BY RetracesStay DEF EngineStep
<1> QED
  BY <1>2, <1>4, <1>5, <1>6, Shows, LeavesFrames

LEMMA InitSeen ==
  ASSUME Init
  PROVE  SeenInv
<1>1. video.viNext = None /\ video.viCurr = None /\ video.ring = [i \in Slots |-> None] /\ engine.pc = "recv"
  BY DEF Init
<1>2. Outstanding(sc, Range(cmdQ)) = {}
  BY InitHolds
<1> QED
  BY <1>1, <1>2 DEF SeenInv, Taking, Asking

LEMMA SeenStep ==
  ASSUME TasksInv, VideoInv, SeenInv, [Next]_vars, MaxLate = 1, \A p \in Predicts : p >= 2
  PROVE  SeenInv' /\ (video'.viNext # video.viNext => video.viNext = video.viCurr)
<1>1. CASE SchedulerStep
  BY <1>1, RetraceSeen, WorkSeen, RDPSeen DEF SchedulerStep
<1>2. CASE HardwareStep
  BY <1>2, HardwareSeen
<1>3. CASE EngineStep
  BY <1>3, RecvSeen, DrawSeen, PutSeen, KickSeen DEF EngineStep
<1>4. CASE AudioStep
  BY <1>4, WorkSeen
<1>5. CASE UNCHANGED vars
  BY <1>5 DEF vars, SeenInv, Taking, Asking
<1> QED
  BY <1>1, <1>2, <1>3, <1>4, <1>5 DEF Next

\* Every frame that is handed to the VI is shown before the next takes its place.
THEOREM EachFrameIsSeen ==
  ASSUME MaxLate = 1, \A p \in Predicts : p >= 2
  PROVE  Spec => EveryFrameSeen
<1>1. Init => SeenInv
  BY InitSeen
<1>2. TasksInv /\ VideoInv /\ SeenInv /\ [Next]_vars => SeenInv'
  BY SeenStep
<1>3. TasksInv /\ VideoInv /\ SeenInv /\ [Next]_vars
        => [video'.viNext # video.viNext => video.viNext = video.viCurr]_vars
  BY SeenStep
<1> QED
  BY <1>1, <1>2, <1>3, TasksHold, FramesInTurn, PTL DEF Spec, EveryFrameSeen

-----------------------------------------------------------------------------
(* The scheduler implements the frame pipeline.  The frames that are drawn *)
(* form a set, listed from the slot of the oldest on.                      *)

One(P, a) == IF a \in P THEN <<a>> ELSE <<>>

\* The frames of P, taken from slot a on.
From(P, a) == One(P, a) \o (One(P, NextSlot(a)) \o One(P, NextSlot(NextSlot(a))))

\* A slot's part of the list.
LEMMA OneIsSeq ==
  ASSUME NEW P, NEW a \in Slots
  PROVE  /\ One(P, a) \in Seq(Slots)
         /\ Range(One(P, a)) = {a} \cap P
<1>1. CASE a \in P
  <2>1. One(P, a) = <<a>>
    BY <1>1 DEF One
  <2> QED
    BY <1>1, <2>1 DEF Range
<1>2. CASE a \notin P
  <2>1. One(P, a) = <<>>
    BY <1>2 DEF One
  <2> QED
    BY <1>2, <2>1 DEF Range
<1> QED
  BY <1>1, <1>2

\* The list names the frames of P and nothing else.
LEMMA FromIsSeq ==
  ASSUME NEW P, NEW a \in Slots
  PROVE  /\ From(P, a) \in Seq(Slots)
         /\ Range(From(P, a)) = P \cap Slots
<1> DEFINE b == NextSlot(a)
           c == NextSlot(b)
           X == One(P, a)
           Y == One(P, b)
           Z == One(P, c)
           W == Y \o Z
<1>1. b \in Slots /\ c \in Slots /\ Slots = {a, b, c}
  BY SlotFacts
<1>2. /\ X \in Seq(Slots) /\ Y \in Seq(Slots) /\ Z \in Seq(Slots)
      /\ Range(X) = {a} \cap P /\ Range(Y) = {b} \cap P /\ Range(Z) = {c} \cap P
  BY <1>1, OneIsSeq
<1>3. From(P, a) = X \o W
  BY DEF From
<1> HIDE DEF X, Y, Z, b, c
<1>4. W \in Seq(Slots) /\ Range(W) = Range(Y) \cup Range(Z)
  BY <1>2, ConcatProperties, RangeConcatenation
<1> HIDE DEF W
<1>5. X \o W \in Seq(Slots) /\ Range(X \o W) = Range(X) \cup Range(W)
  BY <1>2, <1>4, ConcatProperties, RangeConcatenation
<1>6. ({a} \cap P) \cup (({b} \cap P) \cup ({c} \cap P)) = P \cap Slots
  BY <1>1
<1> QED
  BY <1>2, <1>3, <1>4, <1>5, <1>6

\* A frame is added behind all others.
LEMMA FromAdds ==
  ASSUME NEW P, NEW a \in Slots, NEW z, z = NextSlot(NextSlot(a)), z \notin P
  PROVE  From(P \cup {z}, a) = Append(From(P, a), z)
<1> DEFINE b == NextSlot(a)
           X == One(P, a)
           Y == One(P, b)
<1>1. b \in Slots /\ z \in Slots /\ a # z /\ b # z
  BY SlotFacts
<1>2. One(P \cup {z}, a) = X /\ One(P \cup {z}, b) = Y /\ One(P \cup {z}, z) = <<z>> /\ One(P, z) = <<>>
  BY <1>1 DEF One
<1>3. X \in Seq(Slots) /\ Y \in Seq(Slots)
  BY <1>1, OneIsSeq
<1>4. From(P, a) = X \o (Y \o <<>>) /\ From(P \cup {z}, a) = X \o (Y \o <<z>>)
  BY <1>2 DEF From
<1> HIDE DEF X, Y, b
<1>5. Y \o <<>> = Y /\ X \o Y \in Seq(Slots) /\ <<z>> \in Seq(Slots)
  BY <1>1, <1>3, ConcatEmptySeq, ConcatProperties
<1>6. X \o (Y \o <<z>>) = (X \o Y) \o <<z>>
  BY <1>3, <1>5, ConcatAssociative
<1>7. Append(X \o Y, z) = (X \o Y) \o <<z>>
  BY <1>1, <1>5, AppendIsConcat
<1> QED
  BY <1>4, <1>5, <1>6, <1>7

\* A slot without a frame may be the first of the list or the last.
LEMMA SkipFirst ==
  ASSUME NEW P, NEW a \in Slots, a \notin P
  PROVE  /\ From(P, a) = One(P, NextSlot(a)) \o One(P, NextSlot(NextSlot(a)))
         /\ From(P, NextSlot(a)) = From(P, a)
<1> DEFINE b == NextSlot(a)
           c == NextSlot(b)
           Y == One(P, b)
           Z == One(P, c)
<1>1. b \in Slots /\ c \in Slots /\ NextSlot(c) = a
  BY SlotFacts
<1>2. One(P, a) = <<>>
  BY DEF One
<1>3. Y \in Seq(Slots) /\ Z \in Seq(Slots)
  BY <1>1, OneIsSeq
<1>4. From(P, a) = <<>> \o (Y \o Z) /\ From(P, b) = Y \o (Z \o <<>>)
  BY <1>1, <1>2 DEF From
<1> HIDE DEF Y, Z
<1>5. Y \o Z \in Seq(Slots) /\ Z \o <<>> = Z
  BY <1>3, ConcatProperties, ConcatEmptySeq
<1>6. <<>> \o (Y \o Z) = Y \o Z
  BY <1>5, ConcatEmptySeq
<1> QED
  BY <1>4, <1>5, <1>6 DEF Y, Z

\* A frame in the first slot is the head of the list.
LEMMA HeadFirst ==
  ASSUME NEW P, NEW a \in Slots, a \in P
  PROVE  /\ From(P, a) # <<>> /\ Head(From(P, a)) = a
         /\ Tail(From(P, a)) = From(P \ {a}, a)
<1> DEFINE b == NextSlot(a)
           c == NextSlot(b)
           Y == One(P, b)
           Z == One(P, c)
           W == Y \o Z
<1>1. b \in Slots /\ c \in Slots /\ a # b /\ a # c
  BY SlotFacts
<1>2. One(P, a) = <<a>> /\ One(P \ {a}, a) = <<>> /\ One(P \ {a}, b) = Y /\ One(P \ {a}, c) = Z
  BY <1>1 DEF One
<1>3. Y \in Seq(Slots) /\ Z \in Seq(Slots)
  BY <1>1, OneIsSeq
<1>4. From(P, a) = <<a>> \o W /\ From(P \ {a}, a) = <<>> \o W
  BY <1>2 DEF From
<1>5. W \in Seq(Slots)
  BY <1>3, ConcatProperties
<1>6. <<>> \o W = W
  BY <1>5, ConcatEmptySeq
<1> DEFINE F == <<a>> \o W
<1> HIDE DEF W
<1>7. /\ F \in Seq(Slots) /\ Len(F) = 1 + Len(W) /\ F[1] = a
      /\ \A i \in 1..Len(W) : F[i + 1] = W[i]
  <2>1. <<a>> \in Seq(Slots) /\ Len(<<a>>) = 1 /\ <<a>>[1] = a /\ Len(W) \in Nat
    BY <1>5
  <2> QED
    BY <1>5, <2>1, ConcatProperties
<1> HIDE DEF F
<1>8. F # <<>> /\ Head(F) = a
  BY <1>5, <1>7
<1>9. Tail(F) \in Seq(Slots) /\ Len(Tail(F)) = Len(W) /\ \A i \in 1..Len(W) : Tail(F)[i] = W[i]
  BY <1>5, <1>7, <1>8, HeadTailProperties
<1>10. Tail(F) = W
  BY <1>5, <1>9
<1> QED
  BY <1>4, <1>6, <1>8, <1>10 DEF F

\* The first frame is taken away.
LEMMA FromTakes ==
  ASSUME NEW P \in SUBSET Slots, NEW a \in Slots, NEW h \in P,
         NextSlot(h) = a => P = {h},
         h = NextSlot(a) => a \notin P
  PROVE  /\ From(P, a) # <<>> /\ Head(From(P, a)) = h
         /\ Tail(From(P, a)) = From(P \ {h}, a)
<1> DEFINE b == NextSlot(a)
           c == NextSlot(b)
<1>1. b \in Slots /\ c \in Slots /\ Slots = {a, b, c} /\ a # b /\ b # c /\ a # c /\ NextSlot(c) = a
  BY SlotFacts
<1> HIDE DEF b, c
<1>2. CASE h = a
  BY <1>2, HeadFirst
<1>3. CASE h = b
  <2>1. a \notin P /\ a \notin P \ {h}
    BY <1>3 DEF b
  <2>2. From(P, b) = From(P, a) /\ From(P \ {h}, b) = From(P \ {h}, a)
    BY <2>1, SkipFirst DEF b
  <2>3. From(P, b) # <<>> /\ Head(From(P, b)) = b /\ Tail(From(P, b)) = From(P \ {b}, b)
    BY <1>1, <1>3, HeadFirst
  <2> QED
    BY <1>3, <2>2, <2>3
<1>4. CASE h = c
  <2>1. P = {c}
    BY <1>1, <1>4
  <2>2. a \notin P /\ b \notin P /\ a \notin P \ {h} /\ b \notin P \ {h}
    BY <1>1, <2>1
  <2>3. From(P, b) = From(P, a) /\ From(P \ {h}, b) = From(P \ {h}, a)
    BY <2>2, SkipFirst DEF b
  <2>4. From(P, c) = From(P, b) /\ From(P \ {h}, c) = From(P \ {h}, b)
    BY <1>1, <2>2, SkipFirst DEF c
  <2>5. From(P, c) # <<>> /\ Head(From(P, c)) = c /\ Tail(From(P, c)) = From(P \ {c}, c)
    BY <1>1, <1>4, HeadFirst
  <2> QED
    BY <1>4, <2>3, <2>4, <2>5
<1> QED
  BY <1>1, <1>2, <1>3, <1>4

\* The frames that are drawn, the slot of the oldest, and the refinement
\* mapping's list of them, for any queue, records of the scheduler and the engine.
Frames(s, Q, e) ==
    {a \in Slots : \/ LastTask(e, a) \in Undrawn(s, Q)
                   \/ e.slot = a /\ e.pc \in {"kick0", "put1"} /\ e.lines[a]}

Oldest(e) == IF e.pc = "recv" THEN e.slot ELSE NextSlot(e.slot)

DrawnOf(q, s, e, a) ==
    \/ \E i \in DOMAIN q : q[i] = LastTask(e, a)
    \/ /\ LastTask(e, a) = s.curRDP \/ \E i \in DOMAIN s.gfxList : s.gfxList[i] = LastTask(e, a)
       /\ "rdp" \in s.state[LastTask(e, a)]
    \/ e.slot = a /\ e.pc \in {"kick0", "put1"} /\ e.lines[a]

ListOf(q, s, e) ==
    LET one(a) == IF DrawnOf(q, s, e, a) THEN <<a>> ELSE <<>>
        next == NextSlot(e.slot)
        others == one(next) \o one(NextSlot(next))
    IN  IF e.pc = "recv" THEN one(e.slot) \o others ELSE others \o one(e.slot)

\* The refinement mapping's list, now and after the step.
LEMMA DrawingIsListOf ==
  drawing = ListOf(cmdQ, sc, engine) /\ drawing' = ListOf(cmdQ', sc', engine')
<1>1. \A a : /\ BeingDrawn(a) <=> DrawnOf(cmdQ, sc, engine, a)
             /\ BeingDrawn(a)' <=> DrawnOf(cmdQ', sc', engine', a)
  BY DEF BeingDrawn, ToDraw, DrawnOf, LastTask
<1> QED
  BY <1>1 DEF drawing, ListOf

\* The mapping looks for a task where it can be with the RDP half to come.
LEMMA UndrawnIs ==
  ASSUME NEW s \in ScType, States(s), NEW q, NEW t \in GfxTasks
  PROVE  t \in Undrawn(s, Range(q)) <=>
           \/ \E i \in DOMAIN q : q[i] = t
           \/ /\ t = s.curRDP \/ \E i \in DOMAIN s.gfxList : s.gfxList[i] = t
              /\ "rdp" \in s.state[t]
<1>1. t \in Range(q) <=> \E i \in DOMAIN q : q[i] = t
  BY DEF Range
<1>2. DOMAIN s.gfxList = 1..Len(s.gfxList)
  BY ScFields
<1>3. t = s.curRSP /\ "rdp" \in s.state[t] => t = s.curRDP
  BY DEF States
<1> QED
  BY <1>1, <1>2, <1>3 DEF Undrawn, Outstanding, Queued

\* The mapping lists the frames that are drawn from the oldest on.
LEMMA ListOfIs ==
  ASSUME NEW s \in ScType, NEW e \in EngineType, States(s), NEW q
  PROVE  ListOf(q, s, e) = From(Frames(s, Range(q), e), Oldest(e))
<1> DEFINE P == Frames(s, Range(q), e)
           n == NextSlot(e.slot)
           o == NextSlot(n)
           one(a) == IF DrawnOf(q, s, e, a) THEN <<a>> ELSE <<>>
<1>1. /\ e.slot \in Slots /\ n \in Slots /\ o \in Slots /\ NextSlot(o) = e.slot
  BY EngineFields, SlotFacts
<1>2. ASSUME NEW a \in Slots PROVE one(a) = One(P, a)
  <2>1. LastTask(e, a) \in GfxTasks
    BY LastTaskFacts
  <2>2. DrawnOf(q, s, e, a) <=> a \in P
    BY <2>1, UndrawnIs DEF DrawnOf, Frames
  <2> QED
    BY <2>2 DEF One
<1>3. ListOf(q, s, e) = IF e.pc = "recv" THEN one(e.slot) \o (one(n) \o one(o))
                        ELSE (one(n) \o one(o)) \o one(e.slot)
  BY DEF ListOf
<1>4. ListOf(q, s, e) = IF e.pc = "recv" THEN One(P, e.slot) \o (One(P, n) \o One(P, o))
                        ELSE (One(P, n) \o One(P, o)) \o One(P, e.slot)
  BY <1>1, <1>2, <1>3
<1> HIDE DEF P, one
<1>5. One(P, n) \in Seq(Slots) /\ One(P, o) \in Seq(Slots) /\ One(P, e.slot) \in Seq(Slots)
  BY <1>1, OneIsSeq
<1>6. (One(P, n) \o One(P, o)) \o One(P, e.slot) = One(P, n) \o (One(P, o) \o One(P, e.slot))
  BY <1>5, ConcatAssociative
<1> QED
  BY <1>1, <1>4, <1>6 DEF Oldest, From, P

\* The invariant makes that true of this state and the next.
LEMMA DrawingIs ==
  ASSUME TasksInv, TasksInv'
  PROVE  /\ drawing = From(Frames(sc, Range(cmdQ), engine), Oldest(engine))
         /\ drawing' = From(Frames(sc', Range(cmdQ'), engine'), Oldest(engine'))
<1>1. sc \in ScType /\ engine \in EngineType /\ States(sc)
  BY DEF TasksInv, TasksTypes, SchedInv
<1>2. sc' \in ScType /\ engine' \in EngineType /\ States(sc')
  BY DEF TasksInv, TasksTypes, SchedInv
<1> QED
  BY <1>1, <1>2, ListOfIs, DrawingIsListOf

\* Frames are slots, and the list begins in one.
LEMMA FramesAreSlots ==
  ASSUME NEW s, NEW Q, NEW e \in EngineType
  PROVE  Frames(s, Q, e) \in SUBSET Slots /\ Oldest(e) \in Slots
  BY EngineFields, SlotFacts DEF Frames, Oldest

\* The frames that wait for the screen follow the one on the screen.
Follow(n, a) ==
    IF n = 0 THEN <<>> ELSE IF n = 1 THEN <<NextSlot(a)>> ELSE <<NextSlot(a), NextSlot(NextSlot(a))>>

ReadyOf(v) == [i \in 1..v.waiting |-> v.ring[(v.out + i - 1) % 3]]

\* The ring holds the frames after the one on the screen.
LEMMA ReadyIs ==
  ASSUME NEW v \in VideoType, Pace(v)
  PROVE  ReadyOf(v) = Follow(v.waiting, Screen(v))
<1> DEFINE s == Screen(v)
<1>1. /\ v.out \in {0, 1, 2} /\ v.ring \in [Slots -> Slots \cup {None}] /\ v.waiting \in {0, 1, 2}
  BY VideoFields, SlotFacts DEF Pace
<1>2. (v.out + 1 - 1) % 3 = v.out /\ (v.out + 2 - 1) % 3 = NextSlot(v.out)
  BY <1>1 DEF NextSlot
<1>3. CASE v.waiting = 0
  <2>1. 1..v.waiting = {}
    BY <1>3
  <2>2. ReadyOf(v) = <<>>
    BY <2>1 DEF ReadyOf
  <2> QED
    BY <1>3, <2>2 DEF Follow
<1>4. CASE v.waiting = 1
  <2>1. v.ring[v.out] = NextSlot(s)
    BY <1>4 DEF Pace
  <2>2. 1..v.waiting = {1}
    BY <1>4
  <2>3. ReadyOf(v) = [i \in {1} |-> v.ring[(v.out + i - 1) % 3]]
    BY <2>2 DEF ReadyOf
  <2>4. ReadyOf(v) = <<NextSlot(s)>>
    BY <1>2, <2>1, <2>3
  <2> QED
    BY <1>4, <2>4 DEF Follow
<1>5. CASE v.waiting = 2
  <2>1. v.ring[v.out] = NextSlot(s) /\ v.ring[NextSlot(v.out)] = NextSlot(NextSlot(s))
    BY <1>5 DEF Pace
  <2>2. 1..v.waiting = {1, 2}
    BY <1>5
  <2>3. ReadyOf(v) = [i \in {1, 2} |-> v.ring[(v.out + i - 1) % 3]]
    BY <2>2 DEF ReadyOf
  <2>4. ReadyOf(v) = <<NextSlot(s), NextSlot(NextSlot(s))>>
    BY <1>2, <2>1, <2>3
  <2> QED
    BY <1>5, <2>4 DEF Follow
<1> QED
  BY <1>1, <1>3, <1>4, <1>5

\* The mapping of the video record.
LEMMA Viewed ==
  /\ ready = ReadyOf(video) /\ ready' = ReadyOf(video')
  /\ screen = Screen(video) /\ screen' = Screen(video')
  BY DEF ready, ReadyOf, screen, Screen

\* Taking the first frame that waits, and adding one behind the last.
LEMMA FollowFacts ==
  ASSUME NEW p \in Slots \cup {None}
  PROVE  LET b == NextSlot(p)
             c == NextSlot(b)
         IN  /\ Range(Follow(0, p)) = {} /\ Range(Follow(1, p)) = {b}
             /\ Append(Follow(0, p), b) = Follow(1, p) /\ Append(Follow(1, p), c) = Follow(2, p)
             /\ \A n \in {1, 2} : /\ Follow(n, p) # <<>> /\ Head(Follow(n, p)) = b
                                  /\ Tail(Follow(n, p)) = Follow(n - 1, b)
<1> DEFINE b == NextSlot(p)
           c == NextSlot(b)
<1>1. /\ Follow(0, p) = <<>> /\ Follow(1, p) = <<b>> /\ Follow(2, p) = <<b, c>>
      /\ Follow(0, b) = <<>> /\ Follow(1, b) = <<c>>
  BY DEF Follow
<1> HIDE DEF b, c
<1>2. Range(<<>>) = {} /\ Range(<<b>>) = {b}
  BY DEF Range
<1>3. Append(<<>>, b) = <<b>> /\ Append(<<b>>, c) = <<b, c>>
  <2>1. Append(<<>>, b) = <<b>>
    OBVIOUS
  <2>2. b \in {b, c} /\ c \in {b, c}
    OBVIOUS
  <2> QED
    BY <2>1, <2>2, PairOfAppend
<1>4. /\ <<b>> # <<>> /\ Head(<<b>>) = b /\ Tail(<<b>>) = <<>>
      /\ <<b, c>> # <<>> /\ Head(<<b, c>>) = b /\ Tail(<<b, c>>) = <<c>>
  OBVIOUS
<1>5. ASSUME NEW n \in {1, 2}
      PROVE  Follow(n, p) # <<>> /\ Head(Follow(n, p)) = b /\ Tail(Follow(n, p)) = Follow(n - 1, b)
  <2>1. CASE n = 1
    <3>1. Follow(n, p) = <<b>> /\ Follow(n - 1, b) = <<>>
      BY <1>1, <2>1 DEF Follow
    <3> QED
      BY <1>4, <3>1
  <2>2. CASE n = 2
    <3>1. Follow(n, p) = <<b, c>> /\ Follow(n - 1, b) = <<c>>
      BY <1>1, <2>2 DEF Follow
    <3> QED
      BY <1>4, <3>1
  <2> QED
    BY <2>1, <2>2
<1>6. /\ Range(Follow(0, p)) = {} /\ Range(Follow(1, p)) = {b}
      /\ Append(Follow(0, p), b) = Follow(1, p) /\ Append(Follow(1, p), c) = Follow(2, p)
  BY <1>1, <1>2, <1>3
<1> QED
  BY <1>5, <1>6 DEF b, c

\* What the steps that change neither the frames drawn nor the frames shown leave alone.
LEMMA FramesStay ==
  ASSUME TasksInv, TasksInv', engine' = engine,
         Undrawn(sc', Range(cmdQ')) = Undrawn(sc, Range(cmdQ))
  PROVE  drawing' = drawing
<1>1. Frames(sc', Range(cmdQ'), engine') = Frames(sc, Range(cmdQ), engine)
  BY DEF Frames
<1> QED
  BY <1>1, DrawingIs

\* The invariant makes the frames that wait those after the screen's.
LEMMA ReadyAre ==
  ASSUME VideoInv, VideoInv'
  PROVE  /\ ready = Follow(video.waiting, screen) /\ ready' = Follow(video'.waiting, screen')
         /\ screen \in Slots \cup {None} /\ video.waiting \in {0, 1, 2}
         /\ video.waiting = 0 \/ screen \in Slots
<1>1. video \in VideoType /\ Pace(video) /\ video' \in VideoType /\ Pace(video')
  BY DEF VideoInv, ShowInv
<1>2. ready = Follow(video.waiting, screen) /\ ready' = Follow(video'.waiting, screen')
  BY <1>1, ReadyIs, Viewed
<1>3. screen \in Slots \cup {None} /\ video.waiting \in {0, 1, 2} /\ (video.waiting = 0 \/ screen \in Slots)
  BY <1>1, Viewed, VideoFields, SlotFacts DEF Pace
<1> QED
  BY <1>2, <1>3

\* The frames that wait and the screen depend on three fields only.
LEMMA ScreenStays ==
  ASSUME VideoInv, VideoInv', video'.waiting = video.waiting,
         video'.currentFB = video.currentFB, video'.pendingFB = video.pendingFB
  PROVE  ready' = ready /\ screen' = screen
  BY ReadyAre DEF screen

\* The RSP, the commands, the hardware and the audio manager change none of it.
LEMMA WorkPipes ==
  ASSUME TasksInv, TasksInv', VideoInv, VideoInv',
         __scHandleRSP \/ Sched_HandleCmdMsg \/ HardwareStep \/ AudioStep
  PROVE  UNCHANGED Pipeline!vars
<1>1. engine' = engine /\ Undrawn(sc', Range(cmdQ')) = Undrawn(sc, Range(cmdQ))
  <2>1. CASE __scHandleRSP
    BY <2>1, RSPStep DEF Handled, __scHandleRSP
  <2>2. CASE Sched_HandleCmdMsg
    BY <2>2, CmdStep DEF Handled, Sched_HandleCmdMsg
  <2>3. CASE HardwareStep
    BY <2>3, HardwareKeeps
  <2>4. CASE AudioStep
    BY <2>4, AudioKeeps
  <2> QED
    BY <2>1, <2>2, <2>3, <2>4
<1>2. /\ video'.waiting = video.waiting
      /\ video'.currentFB = video.currentFB /\ video'.pendingFB = video.pendingFB
  <2>1. CASE VIRetrace
    <3>1. video' = [video EXCEPT !.viCurr = video.viNext] /\ video \in VideoType
      BY <2>1 DEF VIRetrace, VideoInv
    <3> QED
      BY <3>1 DEF VideoType
  <2>2. CASE video' = video
    BY <2>2
  <2> QED
    BY <2>1, <2>2, AudioKeeps DEF __scHandleRSP, Sched_HandleCmdMsg, HardwareStep, RSPWritesSync,
       RSPFinishes, RSPYields, RDPFinishes
<1> QED
  BY <1>1, <1>2, FramesStay, ScreenStays DEF Pipeline!vars

\* The retrace's frame pacing shows the first frame that waits, or none.
LEMMA ShowNextFields ==
  ASSUME NEW v \in VideoType, Pace(v), NEW u, u = ShowNext(v)
  PROVE  \/ u.waiting = v.waiting /\ Screen(u) = Screen(v)
         \/ v.waiting \in {1, 2} /\ u.waiting = v.waiting - 1 /\ Screen(u) = NextSlot(Screen(v))
<1>1. CASE ~(v.waiting # 0 /\ v.tick + 1 >= engine.predict[v.ring[v.out]])
  BY <1>1 DEF ShowNext
<1>2. CASE v.waiting # 0 /\ v.tick + 1 >= engine.predict[v.ring[v.out]]
  <2> DEFINE a == v.ring[v.out]
             h == HandOver(v, a)
  <2>1. v.waiting \in {1, 2} /\ a = NextSlot(Screen(v)) /\ Screen(v) \in Slots
    BY <1>2, VideoFields, SlotFacts DEF Pace
  <2>2. a \in Slots /\ a # None
    BY <2>1, SlotFacts
  <2>3. h \in VideoType /\ h.waiting = v.waiting /\ h.pendingFB = a /\ h.ring = v.ring /\ h.out = v.out
    BY <2>2, HandOverFields
  <2>4. u = [h EXCEPT !.waiting = @ - 1, !.ring[v.out] = None, !.out = NextSlot(@)]
    BY <1>2 DEF ShowNext
  <2> HIDE DEF h, a
  <2>5. u.waiting = v.waiting - 1 /\ u.pendingFB = a
    BY <2>3, <2>4 DEF VideoType
  <2> QED
    BY <2>1, <2>2, <2>5 DEF Screen
<1> QED
  BY <1>1, <1>2

\* Counting the retrace lets no frame wait less.
LEMMA ShownFields ==
  ASSUME NEW v \in VideoType, NEW u, u = Shown(v)
  PROVE  u.waiting = v.waiting
<1> DEFINE n == IF v.tick < MaxTick THEN v.tick + 1 ELSE v.tick
           t == [v EXCEPT !.tick = n]
<1>1. t.waiting = v.waiting /\ \A x, y : [t EXCEPT !.tick = 0, !.pending = 0,
                                                 !.currentFB = x, !.pendingFB = y].waiting = v.waiting
  BY DEF VideoType
<1>2. u = IF t.pending = 0 THEN t
          ELSE [t EXCEPT !.tick = 0, !.pending = 0, !.currentFB = t.pendingFB, !.pendingFB = None]
  BY DEF Shown
<1> HIDE DEF t
<1> QED
  BY <1>1, <1>2

\* A retrace shows the first frame that waits, or leaves all as it is.
LEMMA RetracePipes ==
  ASSUME TasksInv, TasksInv', VideoInv, VideoInv', __scHandleRetrace
  PROVE  [Pipeline!Next]_(Pipeline!vars)
<1> DEFINE u == Shown(video)
<1>1. video' = ShowNext(u) /\ engine' = engine
  BY DEF __scHandleRetrace
<1>2. drawing' = drawing
  BY <1>1, RetraceStep, FramesStay DEF Handled
<1>3. video \in VideoType /\ Pace(video)
  BY Shows
<1>4. u \in VideoType /\ Pace(u) /\ Screen(u) = Screen(video) /\ u.waiting = video.waiting
  BY <1>3, ShownKeeps, ShownFields
<1> HIDE DEF u
<1>5. \/ video'.waiting = video.waiting /\ screen' = screen
      \/ video.waiting \in {1, 2} /\ video'.waiting = video.waiting - 1 /\ screen' = NextSlot(screen)
  BY <1>1, <1>4, ShowNextFields, Viewed
<1>6. CASE video'.waiting = video.waiting /\ screen' = screen
  BY <1>2, <1>6, ReadyAre DEF Pipeline!vars
<1>7. CASE video.waiting \in {1, 2} /\ video'.waiting = video.waiting - 1 /\ screen' = NextSlot(screen)
  <2>1. ready # <<>> /\ screen' = Head(ready) /\ ready' = Tail(ready)
    BY <1>7, ReadyAre, FollowFacts
  <2> QED
    BY <1>2, <2>1 DEF Pipeline!Next, Pipeline!Show
<1> QED
  BY <1>5, <1>6, <1>7

\* A finished frame is shown at once or waits.
LEMMA FinishFields ==
  ASSUME NEW v \in VideoType, Pace(v), NEW a \in Slots, NEW u, u = FinishFrame(v, a)
  PROVE  \/ v.waiting = 0 /\ u.waiting = 0 /\ Screen(u) = a
         \/ u.waiting = v.waiting + 1 /\ Screen(u) = Screen(v)
<1>1. CASE v.tick + 1 >= engine.predict[a] /\ v.waiting = 0 /\ v.pending = 0
  <2>1. u = HandOver(v, a)
    BY <1>1 DEF FinishFrame
  <2>2. u.waiting = v.waiting /\ u.pendingFB = a /\ a # None
    BY <2>1, HandOverFields, SlotFacts
  <2> QED
    BY <1>1, <2>2 DEF Screen
<1>2. CASE ~(v.tick + 1 >= engine.predict[a] /\ v.waiting = 0 /\ v.pending = 0)
  <2>1. u = [v EXCEPT !.waiting = @ + 1, !.ring[v.in] = a, !.in = NextSlot(@)]
    BY <1>2 DEF FinishFrame
  <2>2. u.waiting = v.waiting + 1 /\ u.pendingFB = v.pendingFB /\ u.currentFB = v.currentFB
    BY <2>1 DEF VideoType
  <2> QED
    BY <2>2 DEF Screen
<1> QED
  BY <1>1, <1>2

\* The list's first slot is the oldest, and the slot before it the newest.
LEMMA OldestFirst ==
  ASSUME NEW e \in EngineType, NEW a \in Slots, NEW b \in Slots
  PROVE  /\ Age(e, a) \in Int /\ Age(e, Oldest(e)) <= Age(e, a)
         /\ NextSlot(a) = Oldest(e) => Age(e, b) <= Age(e, a)
<1>1. e.slot \in Slots
  BY EngineFields
<1>2. /\ Age(e, e.slot) = (IF e.pc = "recv" THEN -1 ELSE 2)
      /\ Age(e, NextSlot(e.slot)) = 0 /\ Age(e, Older(e)) = 1
      /\ Slots = {e.slot, NextSlot(e.slot), Older(e)}
  BY <1>1, Ages
<1>3. /\ NextSlot(Older(e)) = e.slot /\ Older(e) # e.slot /\ Older(e) # NextSlot(e.slot)
      /\ NextSlot(e.slot) # e.slot /\ NextSlot(NextSlot(e.slot)) = Older(e)
  BY <1>1, SlotFacts DEF Older
<1> QED
  BY <1>2, <1>3 DEF Oldest

\* The frame whose last task leaves the RDP is the oldest of those drawn.
LEMMA LastLeaves ==
  ASSUME NEW s \in ScType, NEW Q, NEW e \in EngineType, Ordered(s, Q, e), States(s),
         s.curRDP \in GfxTasks, LastOf(e, s.curRDP),
         NEW r, NEW R, Undrawn(r, R) = Undrawn(s, Q) \ {s.curRDP}
  PROVE  LET P == Frames(s, Q, e)
             a == FB(s.curRDP)
         IN  /\ a \in P /\ Frames(r, R, e) = P \ {a}
             /\ \A b \in P : b = a \/ Age(e, a) < Age(e, b)
<1> DEFINE t == s.curRDP
           a == FB(t)
           P == Frames(s, Q, e)
<1>1. /\ t \in Undrawn(s, Q) /\ t \in Outstanding(s, Q) /\ Undrawn(s, Q) = Outstanding(s, Q)
      /\ \A u \in Outstanding(s, Q) : u = t \/ Rank(e, t) < Rank(e, u)
  BY Drawing
<1>2. Handed(e, t)
  BY <1>1 DEF Ordered
<1>3. a \in Slots /\ t[2] \in {0, 1} /\ t = GfxTask(a, t[2])
  BY GfxParts
<1>4. t = LastTask(e, a)
  BY <1>2, <1>3 DEF Handed, LastOf, LastTask
<1>5. \A b \in Slots : LastTask(e, b) \in GfxTasks /\ FB(LastTask(e, b)) = b
  BY LastTaskFacts
<1>6. \A u \in GfxTasks : Rank(e, u) \in Int /\ Rank(e, u) = 2 * Age(e, FB(u)) + u[2]
                          /\ u[2] \in {0, 1} /\ Age(e, FB(u)) \in -1..2
  BY EngineFields, Ranks, GfxParts, Ages
<1>7. ~(e.slot = a /\ e.pc \in {"kick0", "put1"} /\ e.lines[a])
  <2> SUFFICES ASSUME e.slot = a, e.pc \in {"kick0", "put1"}, e.lines[a] PROVE FALSE
    OBVIOUS
  <2>1. PutRank(e) = 5 /\ t[2] = 1
    BY <1>3, <1>4 DEF PutRank, LastTask, GfxTask
  <2>2. Rank(e, t) = 5
    BY <2>1, RanksOf
  <2> QED
    BY <1>2, <2>1, <2>2 DEF Handed
<1> HIDE DEF a, t
<1>8. a \in P
  BY <1>1, <1>3, <1>4 DEF Frames
<1>9. Frames(r, R, e) = P \ {a}
  <2>1. \A b \in Slots : LastTask(e, b) \in Undrawn(r, R) <=> LastTask(e, b) \in Undrawn(s, Q) /\ b # a
    BY <1>4, <1>5 DEF t, a
  <2> QED
    BY <1>7, <2>1 DEF Frames
<1>10. ASSUME NEW b \in P, b # a PROVE Age(e, a) < Age(e, b)
  <2>1. b \in Slots
    BY DEF Frames
  <2>2. CASE LastTask(e, b) \in Undrawn(s, Q)
    <3>1. LastTask(e, b) # t /\ Rank(e, t) < Rank(e, LastTask(e, b))
      BY <1>1, <1>3, <1>4, <1>5, <1>10, <2>1, <2>2
    <3>2. Age(e, a) <= Age(e, b)
      BY <1>3, <1>4, <1>5, <1>6, <2>1, <3>1
    <3> QED
      BY <1>3, <1>10, <2>1, <3>2, EngineFields, Ages
  <2>3. CASE e.slot = b /\ e.pc \in {"kick0", "put1"}
    <3>1. Age(e, b) = 2 /\ Age(e, a) \in 0..1
      BY <1>10, <2>3 DEF Age
    <3> QED
      BY <3>1
  <2> QED
    BY <2>2, <2>3 DEF Frames
<1> QED
  BY <1>8, <1>9, <1>10 DEF a, t

\* The RDP's event finishes the first frame of the list, unless it has a second task.
LEMMA RDPPipes ==
  ASSUME TasksInv, TasksInv', VideoInv, VideoInv', __scHandleRDP
  PROVE  [Pipeline!Next]_(Pipeline!vars)
<1> DEFINE Q == Range(cmdQ)
           R == Range(cmdQ')
           t == sc.curRDP
           a == FB(t)
           P == Frames(sc, Q, engine)
           o == Oldest(engine)
<1>1. /\ sc \in ScType /\ engine \in EngineType /\ Ordered(sc, Q, engine) /\ States(sc)
      /\ video \in VideoType /\ Pace(video) /\ InTurn(sc, Q, engine, video) /\ Apart(sc, video)
  BY Typed, Shows
<1>2. /\ t \in GfxTasks /\ Undrawn(sc', R) = Undrawn(sc, Q) \ {t}
  BY RDPStep
<1>3. engine' = engine /\ video' = (IF LastOf(engine, t) THEN FinishFrame(video, a) ELSE video)
  BY DEF __scHandleRDP, IsLast, LastOf
<1>4. drawing = From(P, o) /\ drawing' = From(Frames(sc', R, engine), o)
  BY <1>3, DrawingIs
<1> HIDE DEF Q, R
<1>5. CASE ~LastOf(engine, t)
  <2>1. \A b \in Slots : LastTask(engine, b) # t
    BY <1>1, <1>5, LastTaskFacts
  <2>2. Frames(sc', R, engine) = P
    BY <1>2, <2>1 DEF Frames
  <2>3. video' = video
    BY <1>3, <1>5
  <2> QED
    BY <1>4, <2>2, <2>3, ScreenStays DEF Pipeline!vars
<1>6. CASE LastOf(engine, t)
  <2>1. /\ a \in P /\ Frames(sc', R, engine) = P \ {a}
        /\ \A b \in P : b = a \/ Age(engine, a) < Age(engine, b)
    BY <1>1, <1>2, <1>6, LastLeaves
  <2>2. P \in SUBSET Slots /\ o \in Slots /\ a \in Slots
    BY <1>1, <2>1, FramesAreSlots
  <2>3. a = NextShown(video) /\ a # Screen(video)
    BY <1>1, <1>2, RDPInTurn DEF Apart
  <2>4. video' = FinishFrame(video, a)
    BY <1>3, <1>6
  <2> HIDE DEF a, t, P, o
  <2>5. NextSlot(a) = o => P = {a}
    <3> SUFFICES ASSUME NextSlot(a) = o, NEW b \in P, b # a PROVE FALSE
      BY <2>1
    <3>1. Age(engine, b) <= Age(engine, a) /\ Age(engine, a) \in Int /\ Age(engine, b) \in Int
      BY <1>1, <2>2, OldestFirst DEF o
    <3> QED
      BY <2>1, <3>1
  <2>6. a = NextSlot(o) => o \notin P
    <3> SUFFICES ASSUME a = NextSlot(o), o \in P PROVE FALSE
      OBVIOUS
    <3>1. o # a /\ Age(engine, o) <= Age(engine, a) /\ Age(engine, a) \in Int /\ Age(engine, o) \in Int
      BY <1>1, <2>2, SlotFacts, OldestFirst DEF o
    <3> QED
      BY <2>1, <3>1
  <2>7. drawing # <<>> /\ Head(drawing) = a /\ drawing' = Tail(drawing)
    <3>1. From(P, o) # <<>> /\ Head(From(P, o)) = a /\ Tail(From(P, o)) = From(P \ {a}, o)
      BY <2>1, <2>2, <2>5, <2>6, FromTakes
    <3> QED
      BY <1>4, <2>1, <3>1
  <2>8. video.waiting \in {0, 1} /\ screen = Screen(video) /\ screen' = Screen(video')
    BY <1>1, <2>3, NextIsShown, Viewed
  <2>9. a = (IF video.waiting = 0 THEN NextSlot(screen) ELSE NextSlot(NextSlot(screen))) /\ a # screen
    BY <2>3, <2>8 DEF NextShown
  <2>10. /\ ready = Follow(video.waiting, screen) /\ ready' = Follow(video'.waiting, screen')
         /\ screen \in Slots \cup {None} /\ (video.waiting = 0 \/ screen \in Slots)
    BY ReadyAre
  <2>11. a \notin Range(ready) \cup {screen}
    <3>1. CASE video.waiting = 0
      BY <2>9, <2>10, <3>1, FollowFacts
    <3>2. CASE video.waiting = 1
      <4>1. Range(ready) = {NextSlot(screen)}
        BY <2>10, <3>2, FollowFacts
      <4>2. NextSlot(NextSlot(screen)) # NextSlot(screen)
        BY <2>10, <3>2, SlotFacts
      <4> QED
        BY <2>9, <3>2, <4>1, <4>2
    <3> QED
      BY <2>8, <3>1, <3>2
  <2>12. Pipeline!Finished
    BY <2>7, <2>11 DEF Pipeline!Finished, Pipeline!Range, Range
  <2>13. \/ video.waiting = 0 /\ video'.waiting = 0 /\ screen' = a
         \/ video'.waiting = video.waiting + 1 /\ screen' = screen
    BY <1>1, <2>2, <2>4, <2>8, FinishFields
  <2>14. CASE video.waiting = 0 /\ video'.waiting = 0 /\ screen' = a
    <3>1. ready = <<>> /\ ready' = <<>>
      BY <2>10, <2>14 DEF Follow
    <3> QED
      BY <2>7, <2>12, <2>14, <3>1 DEF Pipeline!Next, Pipeline!FinishAndShow
  <2>15. CASE video'.waiting = video.waiting + 1 /\ screen' = screen
    <3>1. ready' = Append(ready, a)
      <4>1. CASE video.waiting = 0
        BY <2>9, <2>10, <2>15, <4>1, FollowFacts
      <4>2. CASE video.waiting = 1
        BY <2>9, <2>10, <2>15, <4>2, FollowFacts
      <4> QED
        BY <2>8, <4>1, <4>2
    <3> QED
      BY <2>7, <2>12, <2>15, <3>1 DEF Pipeline!Next, Pipeline!Finish
  <2> QED
    BY <2>13, <2>14, <2>15
<1> QED
  BY <1>5, <1>6

\* No task of the frame that the engine is about to draw is left.
LEMMA SlotIsClear ==
  ASSUME NEW s, NEW Q, NEW e \in EngineType, Ordered(s, Q, e), e.pc = "draw"
  PROVE  /\ \A t \in Outstanding(s, Q) : FB(t) # e.slot
         /\ e.slot \notin Frames(s, Q, e)
<1>1. \A t \in Outstanding(s, Q) : FB(t) # e.slot
  <2> SUFFICES ASSUME NEW t \in Outstanding(s, Q), FB(t) = e.slot PROVE FALSE
    OBVIOUS
  <2>1. t \in GfxTasks /\ Rank(e, t) < PutRank(e) /\ t[2] \in {0, 1}
    BY UndrawnTasks, GfxParts DEF Ordered, Handed
  <2>2. Rank(e, t) = 4 + t[2] /\ PutRank(e) = 4
    BY <2>1, RanksOf DEF PutRank
  <2> QED
    BY <2>1, <2>2
<1>2. e.slot \in Slots /\ FB(LastTask(e, e.slot)) = e.slot
  BY EngineFields, LastTaskFacts
<1> QED
  BY <1>1, <1>2, UndrawnTasks DEF Frames

\* A frame that is begun is not submitted yet, and its slot has no other.
LEMMA RecvPipes ==
  ASSUME TasksInv, TasksInv', VideoInv, VideoInv', EngineRecv
  PROVE  UNCHANGED Pipeline!vars
<1> DEFINE P == Frames(sc, Range(cmdQ), engine)
           R == Frames(sc', Range(cmdQ'), engine')
<1>1. video' = video /\ Undrawn(sc', Range(cmdQ')) = Undrawn(sc, Range(cmdQ))
  BY RecvKeeps
<1>2. engine \in EngineType /\ engine' \in EngineType /\ Ordered(sc', Range(cmdQ'), engine')
  BY DEF TasksInv, TasksTypes, SchedInv
<1>3. /\ engine.pc = "recv" /\ engine'.pc \in {"recv", "draw"}
      /\ engine'.slot = engine.slot /\ engine'.lines = engine.lines
  BY <1>2 DEF EngineRecv, CEngineApp__Retrace, EngineType
<1>4. R = P
  BY <1>1, <1>3 DEF Frames, LastTask
<1>5. From(R, Oldest(engine')) = From(P, Oldest(engine))
  <2>1. CASE engine'.pc = "recv"
    BY <1>3, <1>4, <2>1 DEF Oldest
  <2>2. CASE engine'.pc = "draw"
    <3>1. engine.slot \notin P /\ engine.slot \in Slots
      BY <1>2, <1>3, <1>4, <2>2, SlotIsClear, EngineFields
    <3>2. Oldest(engine) = engine.slot /\ Oldest(engine') = NextSlot(engine.slot)
      BY <1>3, <2>2 DEF Oldest
    <3> HIDE DEF P, R
    <3> QED
      BY <1>4, <3>1, <3>2, SkipFirst
  <2> QED
    BY <1>3, <2>1, <2>2
<1>6. drawing' = drawing
  BY <1>5, DrawingIs
<1> QED
  BY <1>1, <1>6, ScreenStays DEF Pipeline!vars

\* A frame is submitted with its first task, a refused frame never.
LEMMA DrawPipes ==
  ASSUME TasksInv, TasksInv', VideoInv, VideoInv', EngineDraw
  PROVE  [Pipeline!Next]_(Pipeline!vars)
<1> DEFINE Q == Range(cmdQ)
           S == Range(cmdQ')
           a == engine.slot
           P == Frames(sc, Q, engine)
           R == Frames(sc', S, engine')
           t == GfxTask(a, 0)
<1>1. /\ engine \in EngineType /\ engine' \in EngineType /\ Ordered(sc, Q, engine)
  BY DEF TasksInv, TasksTypes, SchedInv
<1>2. /\ engine.pc = "draw" /\ Waiting /\ AudioWaiting /\ video' = video
  BY DrawMeans
<1>3. /\ engine'.slot = a /\ \A b \in Slots : b # a => engine'.lines[b] = engine.lines[b]
      /\ \/ engine'.pc = "kick0" /\ cmdQ' = Append(cmdQ, t)
         \/ engine'.pc = "recv" /\ cmdQ' = cmdQ
  BY DrawCases
<1>4. a \in Slots /\ a \notin P /\ \A x \in Outstanding(sc, Q) : FB(x) # a
  BY <1>1, <1>2, SlotIsClear, EngineFields
<1>5. cmdQ = <<>>
  BY <1>2, NothingPut
<1>6. t \in GfxTasks /\ FB(t) = a
  BY <1>4, GfxMade
<1>7. \A b \in Slots : b # a => LastTask(engine', b) = LastTask(engine, b)
  BY <1>3 DEF LastTask
<1>8. \A b \in Slots : FB(LastTask(engine', b)) = b
  BY <1>1, LastTaskFacts
<1>9. ready' = ready /\ screen' = screen
  BY <1>2, ScreenStays
<1>10. drawing = From(P, NextSlot(a))
  BY <1>2, DrawingIs DEF Oldest
<1>11. drawing' = From(R, Oldest(engine'))
  BY DrawingIs
<1>12. CASE engine'.pc = "kick0" /\ cmdQ' = Append(cmdQ, t)
  <2>1. cmdQ' = <<t>> /\ S = {t}
    BY <1>5, <1>6, <1>12, PutOne
  <2>2. Undrawn(sc', S) = Undrawn(sc, Q) \cup {t}
    <3>1. t \in Undrawn(sc', S)
      BY <1>6, <2>1 DEF Undrawn
    <3>2. t \notin Undrawn(sc, Q)
      BY <1>4, <1>6, UndrawnTasks
    <3>3. PICK u : PutsTask(u)
      BY <3>1, <3>2, DrawKeeps
    <3>4. u = t
      BY <2>1, <3>3 DEF PutsTask
    <3>5. Q = {}
      BY <1>5, BatchFacts
    <3> QED
      BY <2>1, <3>3, <3>4, <3>5 DEF PutsTask
  <2>3. R = P \cup {a}
    <3>1. ASSUME NEW b \in Slots, b # a PROVE b \in R <=> b \in P
      BY <1>2, <1>3, <1>6, <1>7, <1>8, <2>2, <3>1 DEF Frames
    <3>2. a \in R
      <4>1. CASE engine'.lines[a]
        BY <1>3, <1>4, <1>12, <4>1 DEF Frames
      <4>2. CASE ~engine'.lines[a]
        BY <1>4, <2>2, <4>2 DEF Frames, LastTask
      <4> QED
        BY <4>1, <4>2
    <3>3. P \subseteq Slots /\ R \subseteq Slots
      BY DEF Frames
    <3> HIDE DEF P, R, a
    <3> QED
      BY <1>4, <3>1, <3>2, <3>3
  <2>4. Oldest(engine') = NextSlot(a)
    BY <1>3, <1>12 DEF Oldest
  <2> HIDE DEF P, R, a
  <2>5. a = NextSlot(NextSlot(NextSlot(a))) /\ NextSlot(a) \in Slots
    BY <1>4, SlotFacts
  <2>6. drawing' = Append(drawing, a)
    BY <1>4, <1>10, <1>11, <2>3, <2>4, <2>5, FromAdds
  <2>7. a \notin Range(drawing)
    BY <1>4, <1>10, <2>5, FromIsSeq
  <2>8. Pipeline!Submit
    BY <1>4, <1>9, <2>6, <2>7 DEF Pipeline!Submit, Pipeline!Range, Range
  <2> QED
    BY <2>8 DEF Pipeline!Next
<1>13. CASE engine'.pc = "recv" /\ cmdQ' = cmdQ
  <2>1. Undrawn(sc', S) = Undrawn(sc, Q)
    <3>1. ~\E u : PutsTask(u)
      <4> SUFFICES ASSUME NEW u, PutsTask(u) PROVE FALSE
        OBVIOUS
      <4>1. cmdQ' = <<u>> /\ cmdQ' = <<>>
        BY <1>5, <1>13 DEF PutsTask
      <4> QED
        BY <4>1
    <3> QED
      BY <3>1, DrawKeeps
  <2>2. R = P
    <3>1. ASSUME NEW b \in Slots, b # a PROVE b \in R <=> b \in P
      BY <1>2, <1>7, <1>13, <2>1, <3>1 DEF Frames
    <3>2. LastTask(engine', a) \notin Undrawn(sc, Q)
      BY <1>4, <1>8, UndrawnTasks
    <3>3. a \notin R
      BY <1>13, <2>1, <3>2 DEF Frames
    <3>4. P \subseteq Slots /\ R \subseteq Slots
      BY DEF Frames
    <3> HIDE DEF P, R, a
    <3> QED
      BY <1>4, <3>1, <3>3, <3>4
  <2>3. Oldest(engine') = a
    BY <1>3, <1>13 DEF Oldest
  <2> HIDE DEF P, R, a
  <2>4. From(P, NextSlot(a)) = From(P, a)
    BY <1>4, SkipFirst
  <2> QED
    BY <1>9, <1>10, <1>11, <2>2, <2>3, <2>4 DEF Pipeline!vars
<1> QED
  BY <1>3, <1>12, <1>13

\* The second task belongs to a frame that was submitted with the first.
LEMMA PutPipes ==
  ASSUME TasksInv, TasksInv', VideoInv, VideoInv', EnginePut
  PROVE  UNCHANGED Pipeline!vars
<1> DEFINE Q == Range(cmdQ)
           S == Range(cmdQ')
           a == engine.slot
           t == GfxTask(a, 1)
           P == Frames(sc, Q, engine)
           R == Frames(sc', S, engine')
<1>1. engine \in EngineType /\ EngineOk(engine)
  BY DEF TasksInv, TasksTypes
<1>2. /\ Waiting /\ AudioWaiting /\ engine.pc = "put1" /\ cmdQ' = Append(cmdQ, t)
      /\ engine' = [engine EXCEPT !.pc = "kick1"] /\ video' = video
  BY DEF EnginePut, Put
<1>3. /\ a \in Slots /\ engine.lines[a] /\ engine'.pc = "kick1"
      /\ engine'.slot = a /\ engine'.lines = engine.lines
  BY <1>1, <1>2, EngineFields DEF EngineOk, EngineType
<1>4. cmdQ = <<>> /\ t \in GfxTasks /\ FB(t) = a
  BY <1>2, <1>3, NothingPut, GfxMade
<1>5. cmdQ' = <<t>> /\ S = {t} /\ Q = {}
  BY <1>2, <1>4, PutOne, BatchFacts
<1>6. Undrawn(sc', S) = Undrawn(sc, Q) \cup {t}
  <2>1. PICK u : PutsTask(u)
    BY PutKeeps
  <2>2. u = t
    BY <1>5, <2>1 DEF PutsTask
  <2> QED
    BY <1>5, <2>1, <2>2 DEF PutsTask
<1>7. \A b \in Slots : LastTask(engine', b) = LastTask(engine, b) /\ FB(LastTask(engine, b)) = b
  BY <1>1, <1>3, LastTaskFacts DEF LastTask
<1>8. LastTask(engine, a) = t
  BY <1>3 DEF LastTask
<1>9. R = P
  <2>1. a \in P /\ a \in R
    BY <1>2, <1>3, <1>6, <1>7, <1>8 DEF Frames
  <2>2. ASSUME NEW b \in Slots, b # a PROVE b \in R <=> b \in P
    BY <1>3, <1>4, <1>6, <1>7, <2>2 DEF Frames
  <2>3. P \subseteq Slots /\ R \subseteq Slots
    BY DEF Frames
  <2> HIDE DEF P, R, a
  <2> QED
    BY <2>1, <2>2, <2>3
<1>10. Oldest(engine') = Oldest(engine)
  BY <1>2, <1>3 DEF Oldest
<1>11. drawing' = drawing
  BY <1>9, <1>10, DrawingIs
<1> QED
  BY <1>2, <1>11, ScreenStays DEF Pipeline!vars

\* Moving on to the next slot leaves the list as it is.
LEMMA KickPipes ==
  ASSUME TasksInv, TasksInv', VideoInv, VideoInv', EngineKick
  PROVE  UNCHANGED Pipeline!vars
<1> DEFINE Q == Range(cmdQ)
           P == Frames(sc, Q, engine)
           R == Frames(sc', Range(cmdQ'), engine')
<1>1. engine \in EngineType /\ EngineOk(engine)
  BY DEF TasksInv, TasksTypes
<1>2. /\ engine.pc \in {"kick0", "kick1"} /\ sc' = sc /\ cmdQ' = cmdQ /\ video' = video
      /\ IF engine.pc = "kick0" /\ engine.lines[engine.slot] THEN engine' = [engine EXCEPT !.pc = "put1"]
         ELSE \E fade \in Fades : engine' = [NextFrame(engine) EXCEPT !.switching = fade]
  BY DEF EngineKick
<1>3. CASE engine.pc = "kick0" /\ engine.lines[engine.slot]
  <2>1. engine'.pc = "put1" /\ engine'.slot = engine.slot /\ engine'.lines = engine.lines
    BY <1>1, <1>2, <1>3 DEF EngineType
  <2>2. R = P /\ Oldest(engine') = Oldest(engine)
    BY <1>2, <1>3, <2>1 DEF Frames, LastTask, Oldest
  <2>3. drawing' = drawing
    BY <2>2, DrawingIs
  <2> QED
    BY <1>2, <2>3, ScreenStays DEF Pipeline!vars
<1>4. CASE ~(engine.pc = "kick0" /\ engine.lines[engine.slot])
  <2>1. engine'.pc = "recv" /\ engine'.slot = NextSlot(engine.slot) /\ engine'.lines = engine.lines
    <3>1. PICK fade \in Fades : engine' = [NextFrame(engine) EXCEPT !.switching = fade]
      BY <1>2, <1>4
    <3> QED
      BY <1>1, <3>1, NextFrameFields
  <2>2. R = P /\ Oldest(engine') = Oldest(engine)
    BY <1>2, <1>4, <2>1 DEF Frames, LastTask, Oldest
  <2>3. drawing' = drawing
    BY <2>2, DrawingIs
  <2> QED
    BY <1>2, <2>3, ScreenStays DEF Pipeline!vars
<1> QED
  BY <1>3, <1>4

\* At first nothing is drawn, waits, or is shown.
LEMMA InitPipes ==
  ASSUME Init
  PROVE  Pipeline!Init
<1>1. TasksInv /\ VideoInv /\ Undrawn(sc, Range(cmdQ)) = {}
  BY InitHolds, InitShows
<1>2. /\ engine.pc = "recv" /\ engine.slot = 0
      /\ video.waiting = 0 /\ video.currentFB = None /\ video.pendingFB = None
  BY DEF Init
<1>3. drawing = From(Frames(sc, Range(cmdQ), engine), Oldest(engine))
  BY <1>1, Typed, ListOfIs, DrawingIsListOf
<1>4. Frames(sc, Range(cmdQ), engine) = {}
  BY <1>1, <1>2 DEF Frames
<1>5. drawing = <<>>
  <2>1. One({}, Oldest(engine)) = <<>> /\ One({}, NextSlot(Oldest(engine))) = <<>>
        /\ One({}, NextSlot(NextSlot(Oldest(engine)))) = <<>>
    BY DEF One
  <2>2. <<>> \o (<<>> \o <<>>) = <<>>
    OBVIOUS
  <2> QED
    BY <1>3, <1>4, <2>1, <2>2 DEF From
<1>6. video \in VideoType /\ Pace(video)
  BY <1>1, Shows
<1>7. ready = <<>>
  BY <1>2, <1>6, ReadyIs, Viewed DEF Follow
<1>8. screen = None
  BY <1>2 DEF screen
<1> QED
  BY <1>5, <1>7, <1>8 DEF Pipeline!Init

\* Each step is one of the pipeline or a stutter.
LEMMA PipelineStep ==
  ASSUME TasksInv, TasksInv', VideoInv, VideoInv', [Next]_vars
  PROVE  [Pipeline!Next]_(Pipeline!vars)
<1>1. CASE SchedulerStep
  BY <1>1, RetracePipes, WorkPipes, RDPPipes DEF SchedulerStep
<1>2. CASE HardwareStep \/ AudioStep
  BY <1>2, WorkPipes
<1>3. CASE EngineStep
  BY <1>3, RecvPipes, DrawPipes, PutPipes, KickPipes DEF EngineStep
<1>4. CASE UNCHANGED vars
  BY <1>4, DrawingIsListOf, Viewed DEF vars, Pipeline!vars
<1> QED
  BY <1>1, <1>2, <1>3, <1>4 DEF Next

\* Every frame that is submitted is drawn and then handed to the display once,
\* in the order of submission, and never finished into a framebuffer that is
\* shown or that waits to be shown.
THEOREM ImplementsPipeline == Spec => PipelineSpec
<1>1. Init => Pipeline!Init
  BY InitPipes
<1>2. TasksInv /\ VideoInv /\ TasksInv' /\ VideoInv' /\ [Next]_vars => [Pipeline!Next]_(Pipeline!vars)
  BY PipelineStep
<1> QED
  BY <1>1, <1>2, TasksHold, FramesInTurn, PTL DEF Spec, PipelineSpec, Pipeline!Spec
=============================================================================
