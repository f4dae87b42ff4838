------------------------------ MODULE Scheduler ------------------------------
(***************************************************************************)
(* The RSP/RDP scheduler thread (__scMain and its handlers), the two       *)
(* threads that submit tasks to it (the engine's frame loop and the audio  *)
(* manager) and the hardware that reports back to it: RSP, RDP and VI.     *)
(*                                                                         *)
(* A handler of the scheduler is one step: the scheduler has the highest   *)
(* priority of the game's threads, so the engine and the audio thread run  *)
(* only while it waits for a message (Waiting).  The hardware runs at any  *)
(* time, so events pile up in interruptQ while a handler runs.             *)
(*                                                                         *)
(* The record sc holds the scheduler's lists and current tasks, what it    *)
(* started on the processors, and the reply queues; the record video holds *)
(* the frame globals and the VI's two framebuffer pointers.  The handlers  *)
(* are operators on these records because they call each other.            *)
(***************************************************************************)
EXTENDS Integers, Sequences, SequencesExt, FiniteSets

CONSTANTS
    Predicts,       \* retraces a frame may ask to stay on screen (m_nPredictTicks)
    Lines,          \* whether frames may have the map's lines in a second task
    Refusals,       \* whether the cache may refuse a frame's display list
    Fades,          \* whether a fade may end in mode 17
    SoundAt,        \* bound: the engine's places at which the AI asks for sound
    DisplayLists,   \* the display lists the frames take in turn: 2
    MaxLate,        \* bound: retrace events that wait while a handler runs
    MaxBacklog      \* bound: retrace messages that wait for the engine

\* CEngineApp's frame loop: waiting for a message, in CEngineApp__Draw, and
\* between the two sends of each Sched_SubmitTask.
Places == {"recv", "draw", "kick0", "put1", "kick1"}

\* A sixth retrace that waits could cost an event of a processor its place in
\* interruptQ (QueueSize).
ASSUME SchedulerAssumption ==
    /\ Predicts \subseteq Nat \ {0} /\ 2 \in Predicts
    /\ \E n \in Predicts : \A p \in Predicts : p <= n
    /\ Lines \subseteq BOOLEAN /\ Refusals \subseteq BOOLEAN /\ Fades \subseteq BOOLEAN /\ SoundAt \subseteq Places
    /\ DisplayLists \in Nat \ {0}
    /\ MaxLate \in 1..5 /\ MaxBacklog \in Nat \ {0}

VARIABLES
    sc,             \* the scheduler's lists, current tasks, the processors
    video,          \* frame pacing: gPendingFB, gWaitingFrames, the VI
    interruptQ,     \* events for the scheduler
    cmdQ,           \* tasks handed to Sched_SubmitTask
    engine,         \* CEngineApp's frame loop
    audio           \* the audio manager's place in __amHandleFrameMsg

vars == <<sc, video, interruptQ, cmdQ, engine, audio>>

Slots == 0..2               \* gTotalFramebuffers = 3; a frame slot owns one framebuffer
None == -1
NextSlot(s) == (s + 1) % 3

QueueSize == 8

\* m_FrameData[slot].sc[0..1], and the one audio task that is ever outstanding
GfxTask(s, i) == <<s, i>>
GfxTasks == {GfxTask(s, i) : s \in Slots, i \in 0..1}
Audio == <<3, 0>>
NoTask == <<4, 0>>
Tasks == GfxTasks \cup {Audio}
FB(t) == t[1]

\* OSScTask.state is a set of "rsp" and "rdp" (2 and 1, the processors still
\* needed), "yield" and "yielded" (0x10 and 0x20).

RetraceMsg == [type |-> 1, slot |-> None]
DoneMsg(s) == [type |-> 2, slot |-> s]

\* The events of interruptQ are "retrace", "sp", "dp" and "cmd".

MaxTick == CHOOSE n \in Predicts : \A p \in Predicts : p <= n

-----------------------------------------------------------------------------
Init ==
    /\ sc = [gfxList |-> <<>>, audioList |-> <<>>, doAudio |-> FALSE,
             curRSP |-> NoTask, curRDP |-> NoTask,
             state |-> [t \in Tasks |-> {}],
             rsp |-> NoTask, sig1 |-> FALSE,
             rdp |-> NoTask, synced |-> FALSE,
             gfxMsgQ |-> <<>>, audioReply |-> FALSE]
    /\ video = [tick |-> 0, pending |-> 0, waiting |-> 0,
                ring |-> [i \in Slots |-> None], in |-> 0, out |-> 0,
                currentFB |-> None, pendingFB |-> None,
                viCurr |-> None, viNext |-> None]
    /\ interruptQ = <<>>
    /\ cmdQ = <<>>
    /\ engine = [pc |-> "recv", slot |-> 0, tokens |-> 2,
                 switching |-> FALSE,
                 predict |-> [s \in Slots |-> 0],
                 lines |-> [s \in Slots |-> FALSE],
                 list |-> [s \in Slots |-> 0],
                 taskList |-> [t \in GfxTasks |-> 0]]
    /\ audio = "idle"

-----------------------------------------------------------------------------
(* Operators of the scheduler thread.                                      *)

\* Flag 0x20: the last task of its frame; the map draws its lines in a second.
IsLast(t) == t[2] = 1 \/ ~engine.lines[FB(t)]

\* __scAppendList: a task goes to the list of its type.
AppendList_Unflagged(s, t) ==
    IF t = Audio
    THEN [s EXCEPT !.audioList = Append(@, t), !.state[t] = {"rsp"}]
    ELSE [s EXCEPT !.gfxList = Append(@, t), !.state[t] = {"rsp", "rdp"}]

AppendList(s, t) ==
    IF t = Audio
    THEN [s EXCEPT !.audioList = Append(@, t), !.doAudio = TRUE, !.state[t] = {"rsp"}]
    ELSE [s EXCEPT !.gfxList = Append(@, t), !.state[t] = {"rsp", "rdp"}]

\* All tasks of q, in order, until osRecvMesg finds no more.
AppendAll(s, q) ==
    LET after[n \in 0..Len(q)] == IF n = 0 THEN s ELSE AppendList(after[n - 1], q[n])
    IN  after[Len(q)]

TaskReady_AsBelieved(t, v) == FB(t) \notin {v.currentFB, v.pendingFB}
TaskReady(t, v) == FB(t) \notin {v.currentFB, v.viCurr, v.pendingFB}

\* __scSchedule: what to start next.  Every graphics task has flags 3 or 0x23
\* (RSP and RDP), so of the switch only case 3 is reached, and the recursive
\* call after a choice finds nothing more: the RSP is taken.
NoChoice(s) == [sc |-> s, sp |-> NoTask, dp |-> NoTask]

Schedule_BothAgain(s, v) ==
    LET rspFree == s.curRSP = NoTask
        rdpFree == s.curRDP = NoTask
        head == Head(s.gfxList)
        unlinked == [s EXCEPT !.gfxList = Tail(@)]
        yielded == "yielded" \in s.state[head]
    IN  IF s.doAudio /\ rspFree
        THEN [sc |-> [s EXCEPT !.doAudio = FALSE, !.audioList = Tail(@)],
              sp |-> Head(s.audioList), dp |-> NoTask]
        ELSE IF s.gfxList = <<>> THEN NoChoice(s)
        ELSE IF ~TaskReady(head, v) THEN NoChoice(s)
        ELSE IF yielded /\ rspFree
        THEN [sc |-> unlinked, sp |-> head,
              dp |-> head]
        ELSE IF ~yielded /\ rspFree /\ rdpFree
        THEN [sc |-> unlinked, sp |-> head, dp |-> head]
        ELSE NoChoice(s)

Schedule(s, v) ==
    LET rspFree == s.curRSP = NoTask
        rdpFree == s.curRDP = NoTask
        head == Head(s.gfxList)
        unlinked == [s EXCEPT !.gfxList = Tail(@)]
        yielded == "yielded" \in s.state[head]
    IN  IF s.doAudio /\ rspFree
        THEN [sc |-> [s EXCEPT !.doAudio = FALSE, !.audioList = Tail(@)],
              sp |-> Head(s.audioList), dp |-> NoTask]
        ELSE IF s.gfxList = <<>> THEN NoChoice(s)
        ELSE IF ~TaskReady(head, v) THEN NoChoice(s)
        ELSE IF yielded /\ rspFree
        THEN [sc |-> unlinked, sp |-> head,
              dp |-> IF "rdp" \in s.state[head] THEN head ELSE NoTask]
        ELSE IF ~yielded /\ rspFree /\ rdpFree
        THEN [sc |-> unlinked, sp |-> head, dp |-> head]
        ELSE NoChoice(s)

\* __scExec: loads the task (osSpTaskLoad clears the signals).  A resumed task
\* goes on with the command buffer the RDP is already reading.
Exec(c) ==
    LET t == c.sp
        fresh == c.dp = t /\ "yielded" \notin c.sc.state[t]
    IN  IF t = NoTask THEN c.sc
        ELSE [c.sc EXCEPT
                !.state[t] = @ \ {"yield", "yielded"},
                !.curRSP = t,
                !.curRDP = IF c.dp = t THEN t ELSE @,
                !.rsp = t, !.sig1 = FALSE,
                !.rdp = IF fresh THEN t ELSE @,
                !.synced = IF fresh THEN FALSE ELSE @]

Dispatch(s, v) == Exec(Schedule(s, v))

\* __scYield: asks a graphics task to leave the RSP; the bit stands for the
\* signal osSpTaskYield sends, too, which goes with it.
Yield(s) ==
    IF s.curRSP = Audio THEN s
    ELSE [s EXCEPT !.state[s.curRSP] = @ \cup {"yield"}]

\* What __scHandleRSP does with the task that left the RSP.  (A finished task
\* keeps the yield bit in the code; nothing reads it before __scAppendList.)
YieldedTask(s, t) ==
    [s EXCEPT !.curRSP = NoTask,
              !.state[t] = @ \cup {"yielded"},
              !.gfxList = <<t>> \o @]

CompletedTask_EveryPart(s, t) ==
    [s EXCEPT !.curRSP = NoTask,
              !.state[t] = @ \ {"rsp", "yield"},
              !.audioReply = @ \/ t = Audio,
              !.gfxMsgQ = IF t # Audio
                          THEN Append(@, DoneMsg(FB(t))) ELSE @]

CompletedTask(s, t) ==
    [s EXCEPT !.curRSP = NoTask,
              !.state[t] = @ \ {"rsp", "yield"},
              !.audioReply = @ \/ t = Audio,
              !.gfxMsgQ = IF t # Audio /\ IsLast(t)
                          THEN Append(@, DoneMsg(FB(t))) ELSE @]

\* __scHandleRSP
HandleRSP(s, v) ==
    LET t == s.curRSP
    IN  Dispatch(IF "yield" \in s.state[t] /\ s.sig1
                 THEN YieldedTask(s, t) ELSE CompletedTask(s, t), v)

\* __scHandleRDP: a frame is finished; show it now or let it wait its turn.
HandOver(v, slot) ==
    [v EXCEPT !.pendingFB = slot, !.viNext = slot, !.pending = @ + 1]

FinishFrame_Overtakes(v, slot) ==
    IF v.tick + 1 >= engine.predict[slot] /\ v.pending = 0
    THEN HandOver(v, slot)
    ELSE [v EXCEPT !.waiting = @ + 1, !.ring[v.in] = slot, !.in = NextSlot(@)]

FinishFrame_Replaces(v, slot) ==
    IF v.tick + 1 >= engine.predict[slot] /\ v.waiting = 0
    THEN HandOver(v, slot)
    ELSE [v EXCEPT !.waiting = @ + 1, !.ring[v.in] = slot, !.in = NextSlot(@)]

FinishFrame(v, slot) ==
    IF v.tick + 1 >= engine.predict[slot] /\ v.waiting = 0 /\ v.pending = 0
    THEN HandOver(v, slot)
    ELSE [v EXCEPT !.waiting = @ + 1, !.ring[v.in] = slot, !.in = NextSlot(@)]

\* The retrace's part of frame pacing (__scHandleRetrace).
Shown(v) ==
    LET t == [v EXCEPT !.tick = IF @ < MaxTick THEN @ + 1 ELSE @]
    IN  IF t.pending = 0 THEN t
        ELSE [t EXCEPT !.tick = 0, !.pending = 0,
                       !.currentFB = t.pendingFB, !.pendingFB = None]

ShowNext(v) ==
    IF v.waiting # 0 /\ v.tick + 1 >= engine.predict[v.ring[v.out]]
    THEN [HandOver(v, v.ring[v.out]) EXCEPT
            !.waiting = @ - 1, !.ring[v.out] = None, !.out = NextSlot(@)]
    ELSE v

\* A yielded task whose RDP half is over may be barred by its own framebuffer
\* being on screen: the retrace completes it without running it again.
FinishYielded_Never(s, v) == s

FinishYielded(s, v) ==
    IF /\ s.curRSP = NoTask /\ s.curRDP = NoTask
       /\ s.gfxList # <<>>
       /\ s.state[Head(s.gfxList)] = {"rsp", "yield", "yielded"}
    THEN LET t == Head(s.gfxList)
         IN  HandleRSP([s EXCEPT !.state[t] = {"rsp"}, !.curRSP = t,
                                 !.gfxList = Tail(@)], v)
    ELSE s

YieldOrDispatch(s, v) ==
    IF s.doAudio /\ s.curRSP # NoTask THEN Yield(s) ELSE Dispatch(s, v)

Count(q, x) == Cardinality({i \in DOMAIN q : q[i] = x})

\* The client's message, sent without blocking.  Left out: one that comes when
\* the engine has no token to spend and no mode to switch, and ignores it.
\* Bound: MaxBacklog of them wait (the engine's queue has 4096 places).
TellEngine(s) ==
    [s EXCEPT !.gfxMsgQ =
       IF /\ Count(@, RetraceMsg) < MaxBacklog
          /\ engine.tokens # 0 \/ engine.switching
       THEN Append(@, RetraceMsg) ELSE @]

-----------------------------------------------------------------------------
(* The scheduler thread: __scMain takes one event and runs its handler.    *)

Take(event) == /\ interruptQ # <<>> /\ Head(interruptQ) = event
               /\ interruptQ' = Tail(interruptQ)

__scHandleRetrace ==
    /\ Take("retrace")
    /\ LET v == ShowNext(Shown(video))
           s == YieldOrDispatch(FinishYielded(AppendAll(sc, cmdQ), v), v)
       IN  /\ video' = v
           /\ sc' = TellEngine(s)
    /\ cmdQ' = <<>>
    /\ UNCHANGED <<engine, audio>>

__scHandleRSP ==
    /\ Take("sp")
    /\ sc' = HandleRSP(sc, video)
    /\ UNCHANGED <<video, cmdQ, engine, audio>>

__scHandleRDP ==
    /\ Take("dp")
    /\ LET t == sc.curRDP
           v == IF IsLast(t) THEN FinishFrame(video, FB(t)) ELSE video
       IN  /\ video' = v
           /\ sc' = Dispatch([sc EXCEPT !.state[t] = @ \ {"rdp"},
                                        !.curRDP = NoTask], v)
    /\ UNCHANGED <<cmdQ, engine, audio>>

Sched_HandleCmdMsg ==
    /\ Take("cmd")
    /\ sc' = YieldOrDispatch(AppendAll(sc, cmdQ), video)
    /\ cmdQ' = <<>>
    /\ UNCHANGED <<video, engine, audio>>

-----------------------------------------------------------------------------
(* The hardware.  An event is posted without blocking and lost when the    *)
(* queue is full (__osEventStateTab, viMgrMain).                           *)

Post(event) ==
    interruptQ' = IF Len(interruptQ) < QueueSize
                  THEN Append(interruptQ, event) ELSE interruptQ

\* __osViSwapContext, then the retrace event.  Bound: MaxLate.
VIRetrace ==
    /\ Count(interruptQ, "retrace") < MaxLate
    /\ video' = [video EXCEPT !.viCurr = video.viNext]
    /\ Post("retrace")
    /\ UNCHANGED <<sc, cmdQ, engine, audio>>

\* The RSP writes the task's last command, the full sync, for the RDP.
RSPWritesSync ==
    /\ sc.rsp \in GfxTasks /\ ~sc.synced
    /\ sc' = [sc EXCEPT !.synced = TRUE]
    /\ UNCHANGED <<video, interruptQ, cmdQ, engine, audio>>

RSPFinishes ==
    /\ sc.rsp # NoTask /\ (sc.rsp = Audio \/ sc.synced)
    /\ sc' = [sc EXCEPT !.rsp = NoTask]
    /\ Post("sp")
    /\ UNCHANGED <<video, cmdQ, engine, audio>>

RSPYields ==
    /\ sc.rsp \in GfxTasks /\ "yield" \in sc.state[sc.rsp]
    /\ sc' = [sc EXCEPT !.rsp = NoTask, !.sig1 = TRUE]
    /\ Post("sp")
    /\ UNCHANGED <<video, cmdQ, engine, audio>>

RDPFinishes ==
    /\ sc.rdp # NoTask /\ sc.synced
    /\ sc' = [sc EXCEPT !.rdp = NoTask]
    /\ Post("dp")
    /\ UNCHANGED <<video, cmdQ, engine, audio>>

-----------------------------------------------------------------------------
(* The engine's frame loop.  It draws a frame per token (gDisplayListCount *)
(* starts at 2): a retrace spends a token, and from then on every finished *)
(* display list starts the next frame.  Mode 17 (switching) collects both  *)
(* tokens before the next mode is started.                                 *)

Waiting == interruptQ = <<>>        \* the scheduler waits in osRecvMesg

\* The audio thread, which has a higher priority than the engine, waits too.
AudioWaiting == audio = "idle" \/ (audio = "wait" /\ ~sc.audioReply)

TokensBack_One == engine.tokens >= 1
TokensBack == engine.tokens = 2

\* The mode's own handler first: that of mode 17 starts the next mode once both
\* tokens are back.  Any other mode then spends a token, if there is one.
CEngineApp__Retrace(e) ==
    LET stillSwitching == e.switching /\ ~TokensBack
    IN  IF ~stillSwitching /\ e.tokens # 0
        THEN [e EXCEPT !.switching = FALSE, !.pc = "draw", !.tokens = @ - 1]
        ELSE [e EXCEPT !.switching = stillSwitching]

EngineRecv ==
    /\ Waiting /\ AudioWaiting /\ engine.pc = "recv" /\ sc.gfxMsgQ # <<>>
    /\ engine' = IF Head(sc.gfxMsgQ).type = 1 THEN CEngineApp__Retrace(engine)
                 ELSE IF engine.switching THEN [engine EXCEPT !.tokens = @ + 1]
                 ELSE [engine EXCEPT !.pc = "draw"]
    /\ sc' = [sc EXCEPT !.gfxMsgQ = Tail(@)]
    /\ UNCHANGED <<video, interruptQ, cmdQ, audio>>

\* frameRetraces: the mean of the last frames' retraces, at least 2; there are
\* none to count before the first frame is done.
MayPredict == IF video.currentFB = None /\ video.pendingFB = None THEN {2} ELSE Predicts

\* Sched_SubmitTask: the task, then the event that tells the scheduler.
Put(t) == Len(cmdQ) < QueueSize /\ cmdQ' = Append(cmdQ, t)
Kick == Waiting /\ interruptQ' = Append(interruptQ, "cmd")

\* CEngineApp__Draw: builds the frame; the cache may refuse its display list
\* (CCache__EndDisplayList), and then the frame's message is sent at once.
EngineDraw ==
    /\ Waiting /\ AudioWaiting /\ engine.pc = "draw"
    /\ \E p \in MayPredict, lines \in Lines :
         LET drawn == [engine EXCEPT !.predict[engine.slot] = p,
                                     !.lines[engine.slot] = lines]
             used == [t \in GfxTasks |-> IF FB(t) = engine.slot
                                         THEN engine.list[engine.slot]
                                         ELSE engine.taskList[t]]
         IN  \/ /\ FALSE \in Refusals
                /\ engine' = [drawn EXCEPT !.pc = "kick0", !.taskList = used]
                /\ Put(GfxTask(engine.slot, 0))
                /\ UNCHANGED sc
             \/ /\ TRUE \in Refusals
                /\ \E fade \in Fades :
                     engine' = [drawn EXCEPT !.pc = "recv", !.switching = fade]
                /\ sc' = [sc EXCEPT !.gfxMsgQ = Append(@, DoneMsg(engine.slot))]
                /\ UNCHANGED cmdQ
    /\ UNCHANGED <<video, interruptQ, audio>>

\* The map's lines are drawn by a second task.
EnginePut ==
    /\ Waiting /\ AudioWaiting /\ engine.pc = "put1"
    /\ Put(GfxTask(engine.slot, 1))
    /\ engine' = [engine EXCEPT !.pc = "kick1"]
    /\ UNCHANGED <<sc, video, interruptQ, audio>>

\* The rest of CEngineApp__SubmitGfxTask moves to the next slot and the other
\* display list; the end of CEngineApp__Draw may complete a fade to mode 17.
NextFrame_SameList(e) ==
    LET next == NextSlot(e.slot)
    IN  [e EXCEPT !.pc = "recv", !.slot = next,
                  !.list[next] = e.list[e.slot]]

NextFrame(e) ==
    LET next == NextSlot(e.slot)
    IN  [e EXCEPT !.pc = "recv", !.slot = next,
                  !.list[next] = (e.list[e.slot] + 1) % DisplayLists]

EngineKick ==
    /\ AudioWaiting /\ engine.pc \in {"kick0", "kick1"}
    /\ Kick
    /\ IF engine.pc = "kick0" /\ engine.lines[engine.slot]
       THEN engine' = [engine EXCEPT !.pc = "put1"]
       ELSE \E fade \in Fades :
              engine' = [NextFrame(engine) EXCEPT !.switching = fade]
    /\ UNCHANGED <<sc, video, cmdQ, audio>>

-----------------------------------------------------------------------------
(* The audio manager: one task, then it waits for the reply.               *)

AudioPut ==
    /\ Waiting /\ audio = "idle" /\ engine.pc \in SoundAt
    /\ Put(Audio)
    /\ audio' = "kick"
    /\ UNCHANGED <<sc, video, interruptQ, engine>>

AudioKick ==
    /\ audio = "kick"
    /\ Kick
    /\ audio' = "wait"
    /\ UNCHANGED <<sc, video, cmdQ, engine>>

AudioReply ==
    /\ Waiting /\ audio = "wait" /\ sc.audioReply
    /\ sc' = [sc EXCEPT !.audioReply = FALSE]
    /\ audio' = "idle"
    /\ UNCHANGED <<video, interruptQ, cmdQ, engine>>

-----------------------------------------------------------------------------
SchedulerStep == __scHandleRetrace \/ __scHandleRSP \/ __scHandleRDP \/ Sched_HandleCmdMsg
HardwareStep == VIRetrace \/ RSPWritesSync \/ RSPFinishes \/ RSPYields \/ RDPFinishes
EngineStep == EngineRecv \/ EngineDraw \/ EnginePut \/ EngineKick
AudioStep == AudioPut \/ AudioKick \/ AudioReply

Next == SchedulerStep \/ HardwareStep \/ EngineStep \/ AudioStep

Spec == Init /\ [][Next]_vars

-----------------------------------------------------------------------------
(* Properties.                                                             *)

\* Tasks are used without a test for NULL: by the handlers of the RSP's and the
\* RDP's events, which arrive only for a task that is still current, and never a
\* second time; and by __scSchedule, which unlinks the first audio task whenever
\* doAudio is set and clears the flag though more tasks may follow, so that it
\* must be set exactly while one audio task is listed.
EventsExpected ==
    /\ Count(interruptQ, "sp") = IF sc.curRSP # NoTask /\ sc.rsp = NoTask THEN 1 ELSE 0
    /\ Count(interruptQ, "dp") = IF sc.curRDP # NoTask /\ sc.rdp = NoTask THEN 1 ELSE 0
    /\ sc.rsp \in {NoTask, sc.curRSP}
    /\ sc.rdp \in {NoTask, sc.curRDP}
    /\ IF sc.doAudio THEN Len(sc.audioList) = 1 ELSE sc.audioList = <<>>

\* The RDP never draws into the framebuffer the VI shows or will show at the
\* next retrace, although gCurrentFB and gPendingFB are only the scheduler's
\* belief about the VI and a frame may be handed over after the VI's swap and
\* before the scheduler sees that retrace.
NoTearing == sc.rdp # NoTask => FB(sc.rdp) \notin {video.viCurr, video.viNext}

\* There are two display lists.  The engine writes one only when no task that
\* the RSP has not finished reads it, and the cache is told of the list that a
\* finished task used though the scheduler looks it up in the frame slot, where
\* the engine writes that of the slot's next frame.
Unread(list) ==
    \A t \in Range(sc.gfxList) \cup Range(cmdQ) \cup {sc.curRSP} :
      t \in GfxTasks => engine.taskList[t] # list

DisplayListKept ==
    /\ engine.pc = "draw" => Unread(engine.list[engine.slot])
    /\ \A t \in Range(sc.gfxList) \cup {sc.curRSP} :
         t \in GfxTasks => engine.list[FB(t)] = engine.taskList[t]

\* gDisplayListCount: two frames, never more or fewer, are being built, with
\* the RSP, or known to the engine as finished; so the queue the finished frames
\* are sent to without blocking (a full queue crashes the game) has room.
FramesWithRSP ==
    {FB(t) : t \in {x \in GfxTasks : /\ IsLast(x)
                                     /\ \/ x \in Range(sc.gfxList) \cup Range(cmdQ)
                                        \/ x = sc.curRSP}}

Building ==
    IF engine.pc = "draw" THEN {engine.slot}
    ELSE IF engine.lines[engine.slot] /\ engine.pc \in {"kick0", "put1"}
    THEN {engine.slot} ELSE {}

TokensConserved ==
    engine.tokens + Cardinality(FramesWithRSP \cup Building)
      + Cardinality({i \in DOMAIN sc.gfxMsgQ : sc.gfxMsgQ[i].type = 2}) = 2

\* Mode 17 restarts the game's state when both tokens are back: no frame that
\* was built from the old state is with the RSP or on its way to it then.  The
\* RDP may still draw the last one.
SwitchIsQuiet ==
    [][engine.switching /\ ~engine'.switching =>
         /\ sc.gfxList = <<>> /\ sc.curRSP \notin GfxTasks
         /\ \A t \in Range(cmdQ) : t = Audio]_vars

\* A framebuffer handed to the VI is replaced only after the VI took it: every
\* frame is seen, though the scheduler counts a retrace that came before it
\* handed the frame over.  (Needs the scheduler to be less than two retraces
\* late, and frames that ask for two retraces at least.)
EveryFrameSeen ==
    [][video'.viNext # video.viNext => video.viNext = video.viCurr]_vars

-----------------------------------------------------------------------------
(* The frame pipeline the engine is promised.                              *)

\* A frame is drawn until the RDP has finished its last task, which the engine
\* may have yet to hand over.
ToDraw(t) ==
    \/ \E i \in DOMAIN cmdQ : cmdQ[i] = t
    \/ /\ t = sc.curRDP \/ \E i \in DOMAIN sc.gfxList : sc.gfxList[i] = t
       /\ "rdp" \in sc.state[t]

BeingDrawn(slot) ==
    \/ ToDraw(GfxTask(slot, IF engine.lines[slot] THEN 1 ELSE 0))
    \/ engine.slot = slot /\ engine.pc \in {"kick0", "put1"} /\ engine.lines[slot]

\* Frames are drawn in the order of submission.  The engine takes the slots in
\* turn: its own holds the newest frame or, between two frames, the oldest.
drawing ==
    LET one(slot) == IF BeingDrawn(slot) THEN <<slot>> ELSE <<>>
        next == NextSlot(engine.slot)
        others == one(next) \o one(NextSlot(next))
    IN  IF engine.pc = "recv" THEN one(engine.slot) \o others ELSE others \o one(engine.slot)

ready == [i \in 1..video.waiting |-> video.ring[(video.out + i - 1) % 3]]

screen == IF video.pendingFB # None THEN video.pendingFB ELSE video.currentFB

\* Frames are drawn, and shown, once each and in the order of submission.
Pipeline == INSTANCE FramePipeline
PipelineSpec == Pipeline!Spec

-----------------------------------------------------------------------------
(* Fairness: the scheduler and the processors go on, and the RSP gets some *)
(* of a task done before it yields again; the events leave the lower       *)
(* threads time to run; and some retraces find the RSP idle, since an      *)
(* audio task takes a small part of a retrace and its rate is the AI's,    *)
(* not the VI's.                                                           *)
RSPWorks == RSPWritesSync \/ (RSPFinishes /\ sc.rsp \in GfxTasks)

Fairness ==
    /\ WF_vars(SchedulerStep)
    /\ SF_vars(VIRetrace /\ Waiting /\ sc.curRSP = NoTask)
    /\ SF_vars(RSPWorks) /\ WF_vars(RSPFinishes \/ RSPYields)
    /\ WF_vars(RDPFinishes)
    /\ SF_vars(EngineStep) /\ SF_vars(AudioKick \/ AudioReply)

FairSpec == Spec /\ Fairness

\* Frames keep coming: each of the framebuffers is handed to the display again
\* and again, although a task may yield to audio after its RDP half was done,
\* when its own framebuffer, now on screen, bars it from being resumed.
FramesKeepComing == \A s \in Slots : []<>(screen = s)

\* The audio manager never waits for the reply to its task for ever.
AudioAnswered == []<>(audio # "wait")
=============================================================================
