------------------------ MODULE TurnLifecycleProofs ------------------------
(***************************************************************************)
(* Proofs about TurnLifecycle for every set of turns and inputs and every   *)
(* bound: the type invariant, TaskTracked, Answerable, the refinement of    *)
(* the safety part of TaskContract, that no input is duplicated, that a     *)
(* pause keeps out of a launch and the permit is not leaked, where only the *)
(* loop starts turns, that no user input is lost unless an aborted task had *)
(* it, and while it is calm, that mail which asks for a turn is not         *)
(* forgotten.                                                               *)
(***************************************************************************)
EXTENDS TurnLifecycle, FiniteSetTheorems, TLAPS

StartsTurn == StartPc \cup {"g_reread", "g_push", "g_still"}

\* A turn id is handed to one starter, which adds its task once.
Births ==
    /\ \A p \in Actor : pc[p] \in StartsTurn => cur[p] # NoTurn
    /\ \A p \in Actor : cur[p] # NoTurn =>
         /\ pc[cur[p]] = "unborn"
         /\ prog[cur[p]] # "none"
         /\ pc[p] # "unborn"
         /\ \A q \in Actor : q # p => cur[q] # cur[p]
    /\ \A t \in Turn : prog[t] = "none" => pc[t] = "unborn"
    /\ \A t \in Turn : pc[t] = "unborn" => t \notin cancelled /\ ev[t] = {}

\* A task in the active turn is whole: it runs, nobody has cancelled it and no
\* terminal event was sent for it.
Registered ==
    \A t \in active.tasks :
        pc[t] \in RunPc \cup {"f_remove"} /\ t \notin cancelled /\ ev[t] = {}

\* A task is drained once, by one abort, which handles its tasks one by one.
Drained ==
    /\ \A p \in Actor : held[p] # {} =>
         p \in {Loop, Guard} /\ pc[p] \in {"a_cancel", "a_kill", "a_event"}
    /\ \A p \in Actor : \A t \in held[p] :
         /\ pc[t] # "unborn"
         /\ "aborted" \notin ev[t]
         /\ t \notin active.tasks
         /\ t \in cancelled <=> pc[p] \in {"a_kill", "a_event"} /\ t = victim[p]
         /\ \A q \in Actor : q # p => t \notin held[q]
    /\ \A p \in Actor :
         /\ pc[p] = "a_cancel" => held[p] # {}
         /\ pc[p] \in {"a_kill", "a_event"} => victim[p] \in held[p]
         /\ pc[p] = "a_event" => victim[p] \in doomed
    /\ doomed \subseteq cancelled

\* The invariant: the shape of the state, and who owns which task.
Control == Births /\ Registered /\ Drained /\ TaskTracked /\ Answerable

IndInv == TypeOK /\ Control

\* Labels of a task that has not left its turn, and of an abort with tasks in hand.
LivePc == RunPc \cup {"f_remove"}
HoldPc == {"a_cancel", "a_kill", "a_event"}

\* The step of an actor q that starts, finishes, drains or reports no task.
QuietActor(q) ==
    /\ pc'[q] = "unborn" <=> pc[q] = "unborn"
    /\ pc'[q] \in LivePc => pc[q] \in LivePc
    /\ q \in active.tasks => pc'[q] \in LivePc
    /\ pc'[q] \in StartsTurn => cur'[q] # NoTurn
    /\ held'[q] = held[q]
    /\ \/ pc'[q] = pc[q] /\ victim'[q] = victim[q]
       \/ pc[q] \notin HoldPc /\ pc'[q] \notin HoldPc
    /\ pc'[q] = "t_wait" =>
         hts'[q] = active.ts \/ (pc[q] = "t_wait" /\ hts'[q] = hts[q])
    /\ cur'[q] # NoTurn /\ cur'[q] # cur[q] =>
         /\ cur'[q] \in Turn
         /\ prog[cur'[q]] = "none" /\ prog'[cur'[q]] # "none"
         /\ pc[q] # "unborn"
         /\ \A r \in Actor : r # q => cur'[r] = cur[r]

\* A step that changes no membership of the active turn or of an abort.
Quiet ==
    /\ active'.tasks = active.tasks
    /\ active.tasks # {} => active'.ts = active.ts
    /\ cancelled' = cancelled /\ doomed' = doomed
    /\ \A t \in Turn : prog'[t] = "none" => prog[t] = "none"
    /\ \A t \in Turn : ev'[t] = ev[t] \/ (pc[t] = "f_event" /\ ev'[t] = ev[t] \cup {"complete"})
    /\ \A q \in Actor : QuietActor(q)

USE ActorsAssumption
USE DEF Actor

\* A quiet step keeps the control part of the invariant.
LEMMA QuietControl ==
    ASSUME IndInv, Quiet
    PROVE  Control'
<1> USE DEF IndInv, Control, TypeOK, Quiet
<1>1. Births'
  BY DEF Births, QuietActor, LocalType, HoldPc
<1>2. Registered'
  BY DEF Registered, QuietActor, LivePc, RunPc, TurnType
<1>3. Drained'
  BY DEF Drained, QuietActor, HoldPc, LocalType
<1>4. TaskTracked'
  BY DEF TaskTracked, QuietActor, LivePc, BeingAborted
<1>5. Answerable'
  BY DEF Answerable, QuietActor, At, TurnType
<1> QED BY <1>1, <1>2, <1>3, <1>4, <1>5

----------------------------------------------------------------------------
(* The shape of the state *)

\* Whoever starts a turn has an id for it.
LEMMA StarterTurn ==
    ASSUME IndInv, NEW p \in Actor, pc[p] \in StartsTurn
    PROVE  cur[p] \in Turn
  BY DEF IndInv, TypeOK, LocalType, Control, Births

\* Whoever handles an abort has drained the task from the active turn.
LEMMA AbortTurn ==
    ASSUME IndInv, NEW p \in Actor, pc[p] \in {"a_kill", "a_event"}
    PROVE  victim[p] \in Turn
  BY DEF IndInv, TypeOK, LocalType, Control, Drained

\* The counters of the bounded environment steps stay within their bounds.
LEMMA BoundsType ==
    ASSUME IndInv
    PROVE  LET B == [interrupts : 0..MaxInterrupts, denials : 0..MaxInterrupts,
                     goals : 0..MaxGoalSets]
           IN /\ bounds.interrupts < MaxInterrupts =>
                   [bounds EXCEPT !.interrupts = @ + 1] \in B
              /\ bounds.denials < MaxInterrupts =>
                   [bounds EXCEPT !.denials = @ + 1] \in B
              /\ bounds.goals < MaxGoalSets =>
                   [bounds EXCEPT !.goals = @ + 1] \in B
  BY BoundsAssumption DEF IndInv, TypeOK, GoalType

\* Taking the pending input moves items from a buffer to an actor.
LEMMA TakePendingType ==
    ASSUME IndInv, NEW p \in Actor, NEW l \in Pc \ UsesState,
           NEW m \in Pc \ UsesState, TakePending(p, l, m)
    PROVE  /\ pend' \in [TS -> SUBSET Item]
           /\ loc' \in [Actor -> SUBSET Item]
           /\ pc' \in [Actor -> Pc]
           /\ \A q \in Actor : pc'[q] \in UsesState => pc'[q] = pc[q]
<1>1. /\ pc' \in [Actor -> Pc]
      /\ \A q \in Actor : pc'[q] \in UsesState => pc'[q] = pc[q]
  BY DEF TakePending, Goto, IndInv, TypeOK, LocalType
<1>2. CASE Some
  BY <1>1, <1>2 DEF IndInv, TypeOK, TurnType, LocalType, TakePending, Some
<1>3. CASE ~Some
  BY <1>1, <1>3 DEF IndInv, TypeOK, TurnType, LocalType, TakePending, Some
<1> QED BY <1>2, <1>3

\* Only user input is noted as taken by an aborted task.
LEMMA NoteTakenType ==
    ASSUME IndInv, NEW t, NEW got, NoteTaken(t, got)
    PROVE  taken' \subseteq UserIn
  BY DEF NoteTaken, IndInv, TypeOK, ItemType

\* The counter of follow-up requests stays within its bound.
LEMMA CallsType ==
    ASSUME IndInv, NEW t \in Turn, calls[t] < MaxCalls
    PROVE  [calls EXCEPT ![t] = @ + 1] \in [Turn -> 0..MaxCalls]
  BY BoundsAssumption DEF IndInv, TypeOK, TaskType

\* Deferring the mailbox changes a phase only.
LEMMA DeferMailboxType ==
    ASSUME IndInv, NEW t \in Turn, accepts' \in {accepts, DeferMailbox(t)}
    PROVE  accepts' \in [TS -> BOOLEAN]
  BY DEF IndInv, TypeOK, TurnType, DeferMailbox

\* A tool call stays within the bound on follow-up requests.
LEMMA ToolCallType ==
    ASSUME IndInv, NEW t \in Turn, ToolCall(t)
    PROVE  /\ accepts' \in [TS -> BOOLEAN]
           /\ calls' \in [Turn -> 0..MaxCalls]
           /\ suppressed' = FALSE
           /\ pc[t] = "t_sample"
<1>1. accepts' \in [TS -> BOOLEAN]
  BY DEF IndInv, TypeOK, TurnType, ToolCall, AcceptMailbox
<1>2. calls' \in [Turn -> 0..MaxCalls]
  BY CallsType DEF ToolCall
<1> QED BY <1>1, <1>2 DEF ToolCall, Resumes, At

\* Registering a new task keeps the shape of the state.
LEMMA StartAddTaskType ==
    ASSUME IndInv, NEW p \in Actor, StartAddTask(p)
    PROVE  TypeOK'
<1> USE DEF IndInv, TypeOK, StartAddTask, turnVars, queueVars, itemVars, taskVars,
        goalVars, localVars, At, GetOrInsert, Some
<1>1. cur[p] \in Turn /\ pc[p] = "s_lock2"
  BY StarterTurn DEF StartsTurn, StartPc
<1>2. TurnType'
  BY <1>1, NoTSAssumption DEF TurnType, TS
<1>3. ItemType'
  BY DEF ItemType
<1>4. TaskType'
  BY DEF TaskType
<1>5. GoalType'
  BY DEF GoalType
<1>6. LocalType'
  BY <1>1 DEF LocalType, Pc, RunPc, FinishPc, StartPc, MaybePc, GoalPc, AbortPc, EndPc,
          UsesState
<1> QED BY <1>2, <1>3, <1>4, <1>5, <1>6

\* Giving up a goal continuation keeps the shape of the state.
LEMMA GoalRereadType ==
    ASSUME IndInv, NEW p \in Actor, GoalReread(p)
    PROVE  TypeOK'
<1> USE DEF IndInv, TypeOK, GoalReread, turnVars, queueVars, itemVars, taskVars, goalVars,
        localVars, At, Goto, End, GiveUpReservation, NoActive, Reserved
<1>1. TurnType'
  BY DEF TurnType
<1>2. ItemType'
  BY DEF ItemType
<1>3. TaskType'
  BY DEF TaskType
<1>4. GoalType'
  BY DEF GoalType
<1>5. LocalType'
  BY DEF LocalType, Pc, RunPc, FinishPc, StartPc, MaybePc, GoalPc, AbortPc, EndPc, UsesState
<1> QED BY <1>1, <1>2, <1>3, <1>4, <1>5

\* Confirming or giving up a reservation keeps the shape of the state.
LEMMA GoalStillReservedType ==
    ASSUME IndInv, NEW p \in Actor, GoalStillReserved(p)
    PROVE  TypeOK'
<1> USE DEF IndInv, TypeOK, GoalStillReserved, turnVars, queueVars, itemVars, taskVars,
        goalVars, localVars, At, Goto, End, GiveUpReservation, NoActive, Reserved
<1>1. TurnType'
  BY DEF TurnType
<1>2. ItemType'
  BY DEF ItemType
<1>3. TaskType'
  BY DEF TaskType
<1>4. GoalType'
  BY DEF GoalType, LocalType
<1>5. LocalType'
  BY DEF LocalType, Pc, RunPc, FinishPc, StartPc, MaybePc, GoalPc, AbortPc, EndPc, UsesState
<1> QED BY <1>1, <1>2, <1>3, <1>4, <1>5

\* Draining the active turn keeps the shape of the state.
LEMMA AbortTakeType ==
    ASSUME IndInv, NEW p \in Actor, AbortTake(p)
    PROVE  TypeOK'
<1> USE DEF IndInv, TypeOK, AbortTake, turnVars, queueVars, itemVars, taskVars, goalVars,
        localVars, At, Goto, TakeTurn, NoActive, Interrupted
<1>1. TurnType'
  BY DEF TurnType
<1>2. ItemType'
  BY DEF ItemType, Given
<1>3. TaskType'
  BY DEF TaskType
<1>4. GoalType'
  BY DEF GoalType
<1>5. LocalType'
  BY DEF LocalType, TurnType, Pc, RunPc, FinishPc, StartPc, MaybePc, GoalPc, AbortPc,
          EndPc, UsesState
<1> QED BY <1>1, <1>2, <1>3, <1>4, <1>5

\* Cancelling a drained task keeps the shape of the state.
LEMMA AbortCancelType ==
    ASSUME IndInv, NEW p \in Actor, AbortCancel(p)
    PROVE  TypeOK'
<1> USE DEF IndInv, TypeOK, AbortCancel, turnVars, queueVars, itemVars, taskVars,
        goalVars, localVars, At, Goto, NextHeld
<1>1. TurnType'
  BY DEF TurnType
<1>2. ItemType'
  BY DEF ItemType
<1>3. TaskType'
  BY DEF TaskType, LocalType
<1>4. GoalType'
  BY DEF GoalType
<1>5. LocalType'
  BY DEF LocalType, Pc, RunPc, FinishPc, StartPc, MaybePc, GoalPc, AbortPc, EndPc, UsesState
<1> QED BY <1>1, <1>2, <1>3, <1>4, <1>5

\* Reporting an aborted task keeps the shape of the state.
LEMMA AbortEventType ==
    ASSUME IndInv, NEW p \in Actor, AbortEvent(p)
    PROVE  TypeOK'
<1> USE DEF IndInv, TypeOK, AbortEvent, turnVars, queueVars, itemVars, taskVars, goalVars,
        localVars, At, Goto, NextHeld
<1>1. victim[p] \in Turn
  BY AbortTurn
<1>2. TurnType'
  BY DEF TurnType
<1>3. ItemType'
  BY DEF ItemType
<1>4. TaskType'
  BY <1>1 DEF TaskType
<1>5. GoalType'
  BY DEF GoalType
<1>6. LocalType'
  BY DEF LocalType, Pc, RunPc, FinishPc, StartPc, MaybePc, GoalPc, AbortPc, EndPc, UsesState
<1> QED BY <1>2, <1>3, <1>4, <1>5, <1>6

\* Tripping the circuit breaker keeps the shape of the state.
LEMMA TurnDeniedType ==
    ASSUME IndInv, NEW t \in Turn, TurnDenied(t)
    PROVE  TypeOK'
<1> USE DEF IndInv, TypeOK, TurnDenied, turnVars, queueVars, itemVars, taskVars, goalVars,
        localVars
<1>1. /\ accepts' \in [TS -> BOOLEAN] /\ calls' \in [Turn -> 0..MaxCalls]
      /\ suppressed' = FALSE /\ pc[t] = "t_sample"
  BY ToolCallType
<1>2. TurnType'
  BY <1>1 DEF TurnType
<1>3. ItemType'
  BY DEF ItemType
<1>4. TaskType'
  BY <1>1 DEF TaskType
<1>5. GoalType'
  BY <1>1, BoundsType DEF GoalType
<1>6. LocalType'
  BY <1>1 DEF LocalType, At, Pc, RunPc, FinishPc, StartPc, MaybePc, GoalPc, AbortPc,
          EndPc, UsesState
<1> QED BY <1>2, <1>3, <1>4, <1>5, <1>6

\* Reporting the end of a turn to the goal keeps the shape of the state.
LEMMA FinishGoalType ==
    ASSUME IndInv, NEW t \in Turn, FinishGoal(t)
    PROVE  TypeOK'
<1> USE DEF IndInv, TypeOK, FinishGoal, turnVars, queueVars, itemVars, taskVars, goalVars,
        localVars, At, Goto
<1>1. TurnType'
  BY DEF TurnType
<1>2. ItemType'
  BY DEF ItemType
<1>3. TaskType'
  BY DEF TaskType
<1>4. GoalType'
  BY DEF GoalType, GoalStatus, Accounted
<1>5. LocalType'
  BY DEF LocalType, Pc, RunPc, FinishPc, StartPc, MaybePc, GoalPc, AbortPc, EndPc, UsesState
<1> QED BY <1>1, <1>2, <1>3, <1>4, <1>5

\* Becoming idle keeps the shape of the state.
LEMMA FinishClearType ==
    ASSUME IndInv, NEW t \in Turn, FinishClear(t)
    PROVE  TypeOK'
<1> USE DEF IndInv, TypeOK, FinishClear, turnVars, queueVars, itemVars, taskVars,
        goalVars, localVars, At, Goto, Reserved, NoActive
<1>1. TurnType'
  BY DEF TurnType
<1>2. ItemType'
  BY DEF ItemType
<1>3. TaskType'
  BY DEF TaskType
<1>4. GoalType'
  BY DEF GoalType
<1>5. LocalType'
  BY DEF LocalType, Pc, RunPc, FinishPc, StartPc, MaybePc, GoalPc, AbortPc, EndPc, UsesState
<1> QED BY <1>1, <1>2, <1>3, <1>4, <1>5

\* Injecting shell output keeps the shape of the state.
LEMMA ExtShellOutputType ==
    ASSUME IndInv, NEW i \in ShellIn, ExtShellOutput(i)
    PROVE  TypeOK'
<1> USE DEF IndInv, TypeOK, ExtShellOutput, turnVars, queueVars, itemVars, taskVars,
        goalVars, localVars, Some
<1>1. TurnType'
  BY DEF TurnType, Item, Submitted
<1>2. ItemType'
  BY DEF ItemType, Item, Submitted
<1>3. TaskType'
  BY DEF TaskType
<1>4. GoalType'
  BY DEF GoalType
<1>5. LocalType'
  BY DEF LocalType, Pc, RunPc, FinishPc, StartPc, MaybePc, GoalPc, AbortPc, EndPc, UsesState
<1> QED BY <1>1, <1>2, <1>3, <1>4, <1>5

\* Starting a turn keeps the shape of the state.
LEMMA StartTaskType ==
    ASSUME IndInv, NEW p \in Actor, StartTask(p)
    PROVE  TypeOK'
<1> USE NoTSAssumption DEF IndInv, TypeOK, TurnType, ItemType, TaskType, GoalType,
        LocalType,
        TS, Item, Submitted, UsesState, Pc, RunPc, FinishPc, StartPc, MaybePc, GoalPc, AbortPc, EndPc,
        FollowUpPc, turnVars, queueVars, itemVars, taskVars, goalVars, localVars, allButPc,
        At, Goto, End, Some, Reserved, NoActive, Unused, Resumes, Ready, DrainMail,
        GoalCandidate, GiveUpReservation, Interrupted, NextHeld, Spawn
<1>1. CASE StartTakeIdle(p)
  BY <1>1 DEF StartTakeIdle
<1>2. CASE StartTakePending(p)
  <2>1. /\ pend' \in [TS -> SUBSET Item] /\ loc' \in [Actor -> SUBSET Item]
        /\ pc' \in [Actor -> Pc]
        /\ \A q \in Actor : pc'[q] \in UsesState => pc'[q] = pc[q]
    BY <1>2, TakePendingType DEF StartTakePending
  <2> QED BY <1>2, <2>1 DEF StartTakePending
<1>3. CASE StartDrainMail(p)
  BY <1>3 DEF StartDrainMail
<1>4. CASE StartLockState(p)
  <2>1. cur[p] \in Turn
    BY <1>4, StarterTurn DEF StartLockState, StartsTurn
  <2> QED BY <1>4, <2>1 DEF StartLockState, GetOrInsert
<1>5. CASE StartPushInput(p)
  BY <1>5 DEF StartPushInput
<1>6. CASE StartAddTask(p)
  BY <1>6, StartAddTaskType
<1> QED BY <1>1, <1>2, <1>3, <1>4, <1>5, <1>6 DEF StartTask

\* Looking for pending work and reserving the session keeps the shape of the state.
LEMMA MaybeStartType ==
    ASSUME IndInv, NEW p \in Actor, MaybeStart(p)
    PROVE  TypeOK'
<1> USE NoTSAssumption DEF IndInv, TypeOK, TurnType, ItemType, TaskType, GoalType,
        LocalType,
        TS, Item, Submitted, UsesState, Pc, RunPc, FinishPc, StartPc, MaybePc, GoalPc, AbortPc, EndPc,
        FollowUpPc, turnVars, queueVars, itemVars, taskVars, goalVars, localVars, allButPc,
        At, Goto, End, Some, Reserved, NoActive, Unused, Resumes, Ready, DrainMail,
        GoalCandidate, GiveUpReservation, Interrupted, NextHeld, Spawn
<1>1. CASE MaybeCheckIdle(p)
  BY <1>1 DEF MaybeCheckIdle
<1>2. CASE MaybeCheckMail(p)
  BY <1>2 DEF MaybeCheckMail
<1>3. CASE MaybeReserve(p)
  BY <1>3 DEF MaybeReserve
<1>4. CASE MaybeBusy(p)
  BY <1>4 DEF MaybeBusy
<1> QED BY <1>1, <1>2, <1>3, <1>4 DEF MaybeStart

\* Continuing a goal keeps the shape of the state.
LEMMA GoalContinueType ==
    ASSUME IndInv, NEW p \in Actor, GoalContinue(p)
    PROVE  TypeOK'
<1> USE NoTSAssumption DEF IndInv, TypeOK, TurnType, ItemType, TaskType, GoalType,
        LocalType,
        TS, Item, Submitted, UsesState, Pc, RunPc, FinishPc, StartPc, MaybePc, GoalPc, AbortPc, EndPc,
        FollowUpPc, turnVars, queueVars, itemVars, taskVars, goalVars, localVars, allButPc,
        At, Goto, End, Some, Reserved, NoActive, Unused, Resumes, Ready, DrainMail,
        GoalCandidate, GiveUpReservation, Interrupted, NextHeld, Spawn
<1>1. CASE GoalAcquire(p)
  BY <1>1 DEF GoalAcquire
<1>2. CASE GoalCheck(p)
  BY <1>2 DEF GoalCheck
<1>3. CASE GoalRecheck(p)
  BY <1>3 DEF GoalRecheck
<1>4. CASE GoalReserve(p)
  BY <1>4 DEF GoalReserve
<1>5. CASE GoalBusy(p)
  BY <1>5 DEF GoalBusy
<1>6. CASE GoalReread(p)
  BY <1>6, GoalRereadType
<1>7. CASE GoalPushPrompt(p)
  <2>1. cur[p] \in Turn
    BY <1>7, StarterTurn DEF GoalPushPrompt, StartsTurn
  <2> QED BY <1>7, <2>1 DEF GoalPushPrompt, GetOrInsert
<1>8. CASE GoalStillReserved(p)
  BY <1>8, GoalStillReservedType
<1> QED BY <1>1, <1>2, <1>3, <1>4, <1>5, <1>6, <1>7, <1>8 DEF GoalContinue

\* Where an abort goes on after the goal runtime heard of it.
LEMMA AfterGoalLabel ==
    ASSUME IndInv, NEW p \in Actor
    PROVE  /\ AfterGoal(p) \in {"a_clear", "s_idle", "idle", "stopped", "done", "g_permit"}
           /\ AfterGoal(p) = "a_clear" => hts[p] # NoTS
  BY DEF AfterGoal, IndInv, TypeOK, LocalType

\* Aborting tasks keeps the shape of the state.
LEMMA AbortType ==
    ASSUME IndInv, NEW p \in Actor, Abort(p)
    PROVE  TypeOK'
<1> USE NoTSAssumption DEF IndInv, TypeOK, TurnType, ItemType, TaskType, GoalType,
        LocalType,
        TS, Item, Submitted, UsesState, Pc, RunPc, FinishPc, StartPc, MaybePc, GoalPc, AbortPc, EndPc,
        FollowUpPc, turnVars, queueVars, itemVars, taskVars, goalVars, localVars, allButPc,
        At, Goto, End, Some, Reserved, NoActive, Unused, Resumes, Ready, DrainMail,
        GoalCandidate, GiveUpReservation, Interrupted, NextHeld, Spawn
<1>1. CASE AbortTake(p)
  BY <1>1, AbortTakeType
<1>2. CASE AbortCancel(p)
  BY <1>2, AbortCancelType
<1>3. CASE AbortKill(p)
  BY <1>3, AbortTurn DEF AbortKill
<1>4. CASE AbortEvent(p)
  BY <1>4, AbortEventType
<1>5. CASE AbortGoal(p)
  BY <1>5 DEF AbortGoal, AfterGoal, Accounted, GoalStatus
<1>6. CASE AbortClear(p)
  BY <1>6 DEF AbortClear
<1>7. CASE AbortPauseGoal(p)
  <2>1. PICK l \in {"a_clear", "s_idle", "idle", "stopped", "done", "g_permit"} :
             pc' = [pc EXCEPT ![p] = l] /\ (l = "a_clear" => hts[p] # NoTS)
    BY <1>7, AfterGoalLabel DEF AbortPauseGoal
  <2>2. goal' \in GoalStatus
    BY <1>7 DEF AbortPauseGoal, GoalStatus
  <2> QED BY <1>7, <2>1, <2>2 DEF AbortPauseGoal
<1> QED BY <1>1, <1>2, <1>3, <1>4, <1>5, <1>6, <1>7 DEF Abort

\* Running a task keeps the shape of the state.
LEMMA RunTaskType ==
    ASSUME IndInv, NEW t \in Turn, RunTask(t)
    PROVE  TypeOK'
<1> USE NoTSAssumption DEF IndInv, TypeOK, TurnType, ItemType, TaskType, GoalType,
        LocalType,
        TS, Item, Submitted, UsesState, Pc, RunPc, FinishPc, StartPc, MaybePc, GoalPc, AbortPc, EndPc,
        FollowUpPc, turnVars, queueVars, itemVars, taskVars, goalVars, localVars, allButPc,
        At, Goto, End, Some, Reserved, NoActive, Unused, Resumes, Ready, DrainMail,
        GoalCandidate, GiveUpReservation, Interrupted, NextHeld, Spawn
<1>1. CASE TurnNoWork(t)
  BY <1>1 DEF TurnNoWork
<1>2. CASE TurnCancelledEarly(t)
  BY <1>2 DEF TurnCancelledEarly
<1>3. CASE TurnRefuse(t)
  BY <1>3, CallsType DEF TurnRefuse
<1>4. CASE TurnRecordInput(t)
  BY <1>4 DEF TurnRecordInput
<1>5. CASE TurnDrain(t)
  <2>1. /\ pend' \in [TS -> SUBSET Item] /\ loc' \in [Actor -> SUBSET Item]
        /\ pc' \in [Actor -> Pc]
        /\ \A q \in Actor : pc'[q] \in UsesState => pc'[q] = pc[q]
    BY <1>5, TakePendingType DEF TurnDrain
  <2>2. taken' \subseteq UserIn
    BY <1>5, NoteTakenType DEF TurnDrain
  <2> QED BY <1>5, <2>1, <2>2 DEF TurnDrain
<1>6. CASE TurnDrainMail(t)
  BY <1>6 DEF TurnDrainMail
<1>7. CASE TurnHookAccepts(t)
  BY <1>7 DEF TurnHookAccepts
<1>8. CASE TurnHookBlocks(t)
  BY <1>8 DEF TurnHookBlocks
<1>9. CASE TurnRecordPending(t)
  BY <1>9 DEF TurnRecordPending
<1>10. CASE TurnTool(t)
  <2>1. PICK l \in FollowUpPc : Goto(t, l)
    BY <1>10 DEF TurnTool
  <2> QED BY <1>10, <2>1, ToolCallType DEF TurnTool
<1>11. CASE TurnToolAsks(t)
  BY <1>11, ToolCallType DEF TurnToolAsks
<1>12. CASE TurnCompletesGoal(t)
  BY <1>12, ToolCallType DEF TurnCompletesGoal, GoalStatus
<1>13. CASE TurnDenied(t)
  BY <1>13, TurnDeniedType
<1>14. CASE TurnAsk(t)
  BY <1>14 DEF TurnAsk, InsertSender
<1>15. CASE TurnAnswered(t)
  BY <1>15 DEF TurnAnswered
<1>16. CASE TurnFinal(t)
  BY <1>16, DeferMailboxType DEF TurnFinal
<1>17. CASE TurnError(t)
  BY <1>17 DEF TurnError
<1>18. CASE TurnPost(t)
  BY <1>18 DEF TurnPost
<1>19. CASE TurnStopHookBlocks(t)
  BY <1>19, CallsType DEF TurnStopHookBlocks
<1>20. CASE TurnLoop(t)
  BY <1>20 DEF TurnLoop
<1>21. CASE OtherRun(t)
  BY <1>21 DEF OtherRun
<1>22. CASE TaskEnd(t)
  BY <1>22 DEF TaskEnd
<1>23. CASE TurnCreatesGoal(t)
  BY <1>23, ToolCallType, BoundsType DEF TurnCreatesGoal, GoalStatus
<1>24. CASE TurnFollowUp(t)
  <2>1. PICK l \in FollowUpPc : Goto(t, l)
    BY <1>24 DEF TurnFollowUp
  <2> QED BY <1>24, <2>1, CallsType, DeferMailboxType DEF TurnFollowUp
<1> QED BY <1>1, <1>2, <1>3, <1>4, <1>5, <1>6, <1>7, <1>8, <1>9, <1>10, <1>11, <1>12,
        <1>13, <1>14, <1>15, <1>16, <1>17, <1>18, <1>19, <1>20, <1>21, <1>22, <1>23,
        <1>24 DEF RunTask

\* Finishing a task keeps the shape of the state.
LEMMA FinishTaskType ==
    ASSUME IndInv, NEW t \in Turn, FinishTask(t)
    PROVE  TypeOK'
<1> USE NoTSAssumption DEF IndInv, TypeOK, TurnType, ItemType, TaskType, GoalType,
        LocalType,
        TS, Item, Submitted, UsesState, Pc, RunPc, FinishPc, StartPc, MaybePc, GoalPc, AbortPc, EndPc,
        FollowUpPc, turnVars, queueVars, itemVars, taskVars, goalVars, localVars, allButPc,
        At, Goto, End, Some, Reserved, NoActive, Unused, Resumes, Ready, DrainMail,
        GoalCandidate, GiveUpReservation, Interrupted, NextHeld, Spawn
<1>1. CASE FinishRemove(t)
  BY <1>1 DEF FinishRemove
<1>2. CASE FinishTakeInput(t)
  <2>1. taken' \subseteq UserIn
    BY <1>2, NoteTakenType DEF FinishTakeInput
  <2> QED BY <1>2, <2>1 DEF FinishTakeInput
<1>3. CASE FinishRecord(t)
  BY <1>3 DEF FinishRecord
<1>4. CASE FinishGoal(t)
  BY <1>4, FinishGoalType
<1>5. CASE FinishEvent(t)
  BY <1>5 DEF FinishEvent
<1>6. CASE FinishClear(t)
  BY <1>6, FinishClearType
<1> QED BY <1>1, <1>2, <1>3, <1>4, <1>5, <1>6 DEF FinishTask

\* Dropping an aborted task keeps the shape of the state.
LEMMA DropTaskType ==
    ASSUME IndInv, NEW t \in Turn, DropTask(t)
    PROVE  TypeOK'
<1> USE NoTSAssumption DEF IndInv, TypeOK, TurnType, ItemType, TaskType, GoalType,
        LocalType,
        TS, Item, Submitted, UsesState, Pc, RunPc, FinishPc, StartPc, MaybePc, GoalPc, AbortPc, EndPc,
        FollowUpPc, turnVars, queueVars, itemVars, taskVars, goalVars, localVars, allButPc,
        At, Goto, End, Some, Reserved, NoActive, Unused, Resumes, Ready, DrainMail,
        GoalCandidate, GiveUpReservation, Interrupted, NextHeld, Spawn
<1> QED BY DEF DropTask

\* Operations from the client keep the shape of the state.
LEMMA EnvironmentType ==
    ASSUME IndInv, LoopOp \/ ExtOp \/ CallStep
    PROVE  TypeOK'
<1> USE NoTSAssumption DEF IndInv, TypeOK, TurnType, ItemType, TaskType, GoalType,
        LocalType,
        TS, Item, Submitted, UsesState, Pc, RunPc, FinishPc, StartPc, MaybePc, GoalPc, AbortPc, EndPc,
        FollowUpPc, turnVars, queueVars, itemVars, taskVars, goalVars, localVars, allButPc,
        At, Goto, End, Some, Reserved, NoActive, Unused, Resumes, Ready, DrainMail,
        GoalCandidate, GiveUpReservation, Interrupted, NextHeld, Spawn
<1>1. ASSUME NEW i \in UserIn, SteerInput(i) PROVE TypeOK'
  BY <1>1 DEF SteerInput
<1>2. ASSUME NEW i \in UserIn, LoopSteerRefused(i) PROVE TypeOK'
  BY <1>2 DEF LoopSteerRefused
<1>3. ASSUME NEW i \in UserIn, LoopSpawnTurn(i) PROVE TypeOK'
  BY <1>3 DEF LoopSpawnTurn
<1>4. ASSUME NEW program \in OtherProg, LoopSpawnOther(program) PROVE TypeOK'
  BY <1>4, BoundsAssumption DEF LoopSpawnOther, OtherPrograms
<1>5. ASSUME NEW i \in MailIn, LoopMail(i) PROVE TypeOK'
  BY <1>5 DEF LoopMail
<1>6. ASSUME NEW i \in QueueIn, LoopInject(i) PROVE TypeOK'
  BY <1>6 DEF LoopInject
<1>7. ASSUME NEW i \in QueueIn, LoopInjectFails(i) PROVE TypeOK'
  BY <1>7 DEF LoopInjectFails
<1>8. ASSUME NEW t \in Turn, LoopAnswer(t) PROVE TypeOK'
  BY <1>8 DEF LoopAnswer
<1>9. CASE LoopInterrupt
  BY <1>9, BoundsType DEF LoopInterrupt
<1>10. CASE LoopShutdown
  BY <1>10, BoundsType DEF LoopShutdown
<1>11. CASE LoopQueue
  BY <1>11 DEF LoopQueue
<1>12. ASSUME NEW status \in GoalStatus, ExtWriteGoal(status) PROVE TypeOK'
  BY <1>12, BoundsType DEF ExtWriteGoal
<1>13. ASSUME NEW i \in ShellIn, ExtShellOutput(i) PROVE TypeOK'
  BY <1>13, ExtShellOutputType
<1>14. CASE ExtResumeGoal
  BY <1>14, BoundsType DEF ExtResumeGoal, GoalStatus
<1>15. CASE ExtApplyGoal
  BY <1>15 DEF ExtApplyGoal
<1> QED BY <1>1, <1>2, <1>3, <1>4, <1>5, <1>6, <1>7, <1>8, <1>9, <1>10, <1>11, <1>12, <1>13,
       <1>14, <1>15 DEF LoopOp, ExtOp, CallStep

----------------------------------------------------------------------------
(* Quiet steps *)

\* Giving up a reservation takes no task out of the active turn.
LEMMA GoalRereadQuiet ==
    ASSUME IndInv, NEW p \in Actor, GoalReread(p)
    PROVE  Quiet
<1> USE DEF IndInv, TypeOK, Control
<1>1. active' = active \/ (active'.tasks = {} /\ active.tasks = {})
  BY DEF GoalReread, GiveUpReservation, Reserved, NoActive
<1>2. /\ pc'[p] \in {"g_push", "done", "idle"}
      /\ cur'[p] = cur[p] \/ (cur'[p] = NoTurn /\ pc'[p] # "g_push")
  BY DEF GoalReread, GiveUpReservation, Goto, End, LocalType
<1>3. \A q \in Actor : q # p => pc'[q] = pc[q] /\ cur'[q] = cur[q] /\ hts'[q] = hts[q]
  BY DEF GoalReread, GiveUpReservation, Goto, LocalType
<1>4. UNCHANGED <<prog, cancelled, doomed, ev, held, victim>> /\ pc[p] = "g_reread"
  BY DEF GoalReread, taskVars, At
<1>5. ASSUME NEW q \in Actor PROVE QuietActor(q)
  BY <1>2, <1>3, <1>4 DEF QuietActor, Births, Registered, LivePc, HoldPc, RunPc,
        StartsTurn, StartPc
<1> QED BY <1>1, <1>4, <1>5 DEF Quiet

\* The session becomes idle only when the active turn has no task.
LEMMA FinishClearQuiet ==
    ASSUME IndInv, NEW t \in Turn, FinishClear(t)
    PROVE  Quiet
<1> USE DEF IndInv, TypeOK, Control
<1>1. active' = active \/ (active'.tasks = {} /\ active.tasks = {})
  BY DEF FinishClear, Reserved, NoActive
<1>2. PICK l \in {"m_idle", "done"} : Goto(t, l)
  BY DEF FinishClear, Goto
<1>3. \A q \in Actor : q # t => hts'[q] = hts[q]
  BY DEF FinishClear, LocalType
<1>4. /\ UNCHANGED <<prog, cancelled, doomed, ev, held, victim, cur>>
      /\ pc[t] = "f_clear"
  BY DEF FinishClear, taskVars, At
<1>5. ASSUME NEW q \in Actor PROVE QuietActor(q)
  BY <1>2, <1>3, <1>4 DEF QuietActor, Goto, LocalType, Births, Registered, LivePc, HoldPc,
        RunPc, StartsTurn, StartPc
<1> QED BY <1>1, <1>4, <1>5 DEF Quiet

\* Until it registers its task, start_task is quiet.
LEMMA StartTaskQuiet ==
    ASSUME IndInv, NEW p \in Actor, StartTask(p), ~StartAddTask(p)
    PROVE  Quiet
<1> USE DEF IndInv, Control, TypeOK, TurnType, LocalType, Births, Registered, Drained,
        Quiet, QuietActor, LivePc, HoldPc, StartsTurn, RunPc, StartPc, FollowUpPc,
        turnVars, taskVars, localVars, allButPc, At, Goto, End, Some, Reserved, NoActive,
        Unused, Resumes, Ready, TakePending, DrainMail, GetOrInsert, GoalCandidate,
        GiveUpReservation, Interrupted, ToolCall, Spawn
<1>1. CASE StartTakeIdle(p)
  BY <1>1 DEF StartTakeIdle
<1>2. CASE StartTakePending(p)
  BY <1>2 DEF StartTakePending
<1>3. CASE StartDrainMail(p)
  BY <1>3 DEF StartDrainMail
<1>4. CASE StartLockState(p)
  BY <1>4 DEF StartLockState
<1>5. CASE StartPushInput(p)
  BY <1>5 DEF StartPushInput
<1> QED BY <1>1, <1>2, <1>3, <1>4, <1>5 DEF StartTask

\* maybe_start_turn_for_pending_work is quiet: a reservation has no task yet,
\* and its turn id is fresh.
LEMMA MaybeStartQuiet ==
    ASSUME IndInv, NEW p \in Actor, MaybeStart(p)
    PROVE  Quiet
<1> USE DEF IndInv, Control, TypeOK, TurnType, LocalType, Births, Registered, Drained,
        Quiet, QuietActor, LivePc, HoldPc, StartsTurn, RunPc, StartPc, FollowUpPc,
        turnVars, taskVars, localVars, allButPc, At, Goto, End, Some, Reserved, NoActive,
        Unused, Resumes, Ready, TakePending, DrainMail, GetOrInsert, GoalCandidate,
        GiveUpReservation, Interrupted, ToolCall, Spawn
<1>1. CASE MaybeCheckIdle(p)
  BY <1>1 DEF MaybeCheckIdle
<1>2. CASE MaybeCheckMail(p)
  BY <1>2 DEF MaybeCheckMail
<1>3. CASE MaybeReserve(p)
  <2>1. PICK t \in Turn : /\ prog[t] = "none"
                         /\ prog' = [prog EXCEPT ![t] = "turn"]
                         /\ cur' = [cur EXCEPT ![p] = t]
    BY <1>3 DEF MaybeReserve
  <2>2. active'.tasks = active.tasks /\ active.tasks = {}
    BY <1>3 DEF MaybeReserve
  <2> QED BY <1>3, <2>1, <2>2 DEF MaybeReserve, TaskType
<1>4. CASE MaybeBusy(p)
  BY <1>4 DEF MaybeBusy
<1> QED BY <1>1, <1>2, <1>3, <1>4 DEF MaybeStart

\* Reserving the session for a goal and giving the reservation up is quiet.
LEMMA GoalContinueQuiet ==
    ASSUME IndInv, NEW p \in Actor, GoalContinue(p)
    PROVE  Quiet
<1> USE DEF IndInv, Control, TypeOK, TurnType, LocalType, Births, Registered, Drained,
        Quiet, QuietActor, LivePc, HoldPc, StartsTurn, RunPc, StartPc, FollowUpPc,
        turnVars, taskVars, localVars, allButPc, At, Goto, End, Some, Reserved, NoActive,
        Unused, Resumes, Ready, TakePending, DrainMail, GetOrInsert, GoalCandidate,
        GiveUpReservation, Interrupted, ToolCall, Spawn
<1>1. CASE GoalAcquire(p)
  BY <1>1 DEF GoalAcquire
<1>2. CASE GoalCheck(p)
  BY <1>2 DEF GoalCheck
<1>3. CASE GoalRecheck(p)
  BY <1>3 DEF GoalRecheck
<1>4. CASE GoalReserve(p)
  <2>1. PICK t \in Turn : /\ prog[t] = "none"
                         /\ prog' = [prog EXCEPT ![t] = "turn"]
                         /\ cur' = [cur EXCEPT ![p] = t]
    BY <1>4 DEF GoalReserve
  <2>2. active'.tasks = active.tasks /\ active.tasks = {}
    BY <1>4 DEF GoalReserve
  <2> QED BY <1>4, <2>1, <2>2 DEF GoalReserve, TaskType
<1>5. CASE GoalBusy(p)
  BY <1>5 DEF GoalBusy
<1>6. CASE GoalReread(p)
  BY <1>6, GoalRereadQuiet
<1>7. CASE GoalPushPrompt(p)
  BY <1>7 DEF GoalPushPrompt
<1>8. CASE GoalStillReserved(p)
  BY <1>8 DEF GoalStillReserved
<1> QED BY <1>1, <1>2, <1>3, <1>4, <1>5, <1>6, <1>7, <1>8 DEF GoalContinue

\* What an abort does after its last task is quiet.
LEMMA AbortQuiet ==
    ASSUME IndInv, NEW p \in Actor, Abort(p),
           ~AbortTake(p), ~AbortCancel(p), ~AbortKill(p), ~AbortEvent(p)
    PROVE  Quiet
<1> USE DEF IndInv, Control, TypeOK, TurnType, LocalType, Births, Registered, Drained,
        Quiet, QuietActor, LivePc, HoldPc, StartsTurn, RunPc, StartPc, FollowUpPc,
        turnVars, taskVars, localVars, allButPc, At, Goto, End, Some, Reserved, NoActive,
        Unused, Resumes, Ready, TakePending, DrainMail, GetOrInsert, GoalCandidate,
        GiveUpReservation, Interrupted, ToolCall, Spawn
<1>1. CASE AbortGoal(p)
  BY <1>1 DEF AbortGoal, AfterGoal
<1>2. CASE AbortClear(p)
  BY <1>2 DEF AbortClear
<1>3. CASE AbortPauseGoal(p)
  BY <1>3 DEF AbortPauseGoal, AfterGoal
<1> QED BY <1>1, <1>2, <1>3 DEF Abort

\* A task that runs is quiet, also when it trips the guardian's circuit breaker.
LEMMA RunTaskQuiet ==
    ASSUME IndInv, NEW t \in Turn, RunTask(t)
    PROVE  Quiet
<1> USE DEF IndInv, Control, TypeOK, TurnType, LocalType, Births, Registered, Drained,
        Quiet, QuietActor, LivePc, HoldPc, StartsTurn, RunPc, StartPc, FollowUpPc,
        turnVars, taskVars, localVars, allButPc, At, Goto, End, Some, Reserved, NoActive,
        Unused, Resumes, Ready, TakePending, DrainMail, GetOrInsert, GoalCandidate,
        GiveUpReservation, Interrupted, ToolCall, Spawn
<1>1. CASE TurnNoWork(t)
  BY <1>1 DEF TurnNoWork
<1>2. CASE TurnCancelledEarly(t)
  BY <1>2 DEF TurnCancelledEarly
<1>3. CASE TurnRefuse(t)
  BY <1>3 DEF TurnRefuse
<1>4. CASE TurnRecordInput(t)
  BY <1>4 DEF TurnRecordInput
<1>5. CASE TurnDrain(t)
  BY <1>5 DEF TurnDrain
<1>6. CASE TurnDrainMail(t)
  BY <1>6 DEF TurnDrainMail
<1>7. CASE TurnHookAccepts(t)
  BY <1>7 DEF TurnHookAccepts
<1>8. CASE TurnHookBlocks(t)
  <2>1. PICK l \in {"t_record", "t_drain", "t_loop"} : Goto(t, l)
    BY <1>8 DEF TurnHookBlocks
  <2>2. /\ pc[t] = "t_hook"
        /\ UNCHANGED <<active, prog, cancelled, doomed, ev, held, victim, cur, hts>>
    BY <1>8 DEF TurnHookBlocks
  <2> QED BY <2>1, <2>2
<1>9. CASE TurnRecordPending(t)
  BY <1>9 DEF TurnRecordPending
<1>10. CASE TurnTool(t)
  BY <1>10 DEF TurnTool
<1>11. CASE TurnToolAsks(t)
  BY <1>11 DEF TurnToolAsks
<1>12. CASE TurnCompletesGoal(t)
  BY <1>12 DEF TurnCompletesGoal
<1>13. CASE TurnDenied(t)
  BY <1>13 DEF TurnDenied
<1>14. CASE TurnAsk(t)
  BY <1>14 DEF TurnAsk, InsertSender
<1>15. CASE TurnAnswered(t)
  BY <1>15 DEF TurnAnswered
<1>16. CASE TurnFinal(t)
  BY <1>16 DEF TurnFinal
<1>17. CASE TurnError(t)
  BY <1>17 DEF TurnError
<1>18. CASE TurnPost(t)
  BY <1>18 DEF TurnPost
<1>19. CASE TurnStopHookBlocks(t)
  BY <1>19 DEF TurnStopHookBlocks
<1>20. CASE TurnLoop(t)
  BY <1>20 DEF TurnLoop
<1>21. CASE OtherRun(t)
  BY <1>21 DEF OtherRun
<1>22. CASE TaskEnd(t)
  BY <1>22 DEF TaskEnd
<1>23. CASE TurnCreatesGoal(t)
  BY <1>23 DEF TurnCreatesGoal
<1>24. CASE TurnFollowUp(t)
  BY <1>24 DEF TurnFollowUp
<1> QED BY <1>1, <1>2, <1>3, <1>4, <1>5, <1>6, <1>7, <1>8, <1>9, <1>10, <1>11, <1>12,
        <1>13, <1>14, <1>15, <1>16, <1>17, <1>18, <1>19, <1>20, <1>21, <1>22, <1>23,
        <1>24 DEF RunTask

\* After it has left the active turn, a finishing task is quiet.
LEMMA FinishTaskQuiet ==
    ASSUME IndInv, NEW t \in Turn, FinishTask(t), ~FinishRemove(t)
    PROVE  Quiet
<1> USE DEF IndInv, Control, TypeOK, TurnType, LocalType, Births, Registered, Drained,
        Quiet, QuietActor, LivePc, HoldPc, StartsTurn, RunPc, StartPc, FollowUpPc,
        turnVars, taskVars, localVars, allButPc, At, Goto, End, Some, Reserved, NoActive,
        Unused, Resumes, Ready, TakePending, DrainMail, GetOrInsert, GoalCandidate,
        GiveUpReservation, Interrupted, ToolCall, Spawn
<1>1. CASE FinishTakeInput(t)
  BY <1>1 DEF FinishTakeInput
<1>2. CASE FinishRecord(t)
  BY <1>2 DEF FinishRecord
<1>3. CASE FinishGoal(t)
  BY <1>3 DEF FinishGoal
<1>4. CASE FinishEvent(t)
  BY <1>4 DEF FinishEvent
<1>5. CASE FinishClear(t)
  BY <1>5, FinishClearQuiet
<1> QED BY <1>1, <1>2, <1>3, <1>4, <1>5 DEF FinishTask

\* Dropping an aborted task is quiet: its abort has taken it out of the active turn.
LEMMA DropTaskQuiet ==
    ASSUME IndInv, NEW t \in Turn, DropTask(t)
    PROVE  Quiet
<1> USE DEF IndInv, Control, TypeOK, TurnType, LocalType, Births, Registered, Drained,
        Quiet, QuietActor, LivePc, HoldPc, StartsTurn, RunPc, StartPc, FollowUpPc,
        turnVars, taskVars, localVars, allButPc, At, Goto, End, Some, Reserved, NoActive,
        Unused, Resumes, Ready, TakePending, DrainMail, GetOrInsert, GoalCandidate,
        GiveUpReservation, Interrupted, ToolCall, Spawn
<1> QED BY DEF DropTask

\* Operations from the client are quiet.
LEMMA EnvironmentQuiet ==
    ASSUME IndInv, LoopOp \/ ExtOp \/ CallStep
    PROVE  Quiet
<1> USE DEF IndInv, Control, TypeOK, TurnType, LocalType, Births, Registered, Drained,
        Quiet, QuietActor, LivePc, HoldPc, StartsTurn, RunPc, StartPc, FollowUpPc,
        turnVars, taskVars, localVars, allButPc, At, Goto, End, Some, Reserved, NoActive,
        Unused, Resumes, Ready, TakePending, DrainMail, GetOrInsert, GoalCandidate,
        GiveUpReservation, Interrupted, ToolCall, Spawn
<1>1. ASSUME NEW i \in UserIn, SteerInput(i) PROVE Quiet
  BY <1>1 DEF SteerInput
<1>2. ASSUME NEW i \in UserIn, LoopSteerRefused(i) PROVE Quiet
  BY <1>2 DEF LoopSteerRefused
<1>3. ASSUME NEW i \in UserIn, LoopSpawnTurn(i) PROVE Quiet
  <2>1. PICK t \in Turn : prog[t] = "none" /\ Spawn(t, "turn", {i})
    BY <1>3 DEF LoopSpawnTurn
  <2> QED BY <1>3, <2>1 DEF LoopSpawnTurn, TaskType
<1>4. ASSUME NEW program \in OtherProg, LoopSpawnOther(program) PROVE Quiet
  <2>1. PICK t \in Turn : prog[t] = "none" /\ Spawn(t, program, {})
    BY <1>4 DEF LoopSpawnOther
  <2> QED BY <1>4, <2>1, BoundsAssumption DEF LoopSpawnOther, OtherPrograms, TaskType
<1>5. ASSUME NEW i \in MailIn, LoopMail(i) PROVE Quiet
  BY <1>5 DEF LoopMail
<1>6. ASSUME NEW i \in QueueIn, LoopInject(i) PROVE Quiet
  BY <1>6 DEF LoopInject
<1>7. ASSUME NEW i \in QueueIn, LoopInjectFails(i) PROVE Quiet
  BY <1>7 DEF LoopInjectFails
<1>8. ASSUME NEW t \in Turn, LoopAnswer(t) PROVE Quiet
  BY <1>8 DEF LoopAnswer
<1>9. CASE LoopInterrupt
  BY <1>9 DEF LoopInterrupt
<1>10. CASE LoopShutdown
  BY <1>10 DEF LoopShutdown
<1>11. CASE LoopQueue
  BY <1>11 DEF LoopQueue
<1>12. ASSUME NEW status \in GoalStatus, ExtWriteGoal(status) PROVE Quiet
  BY <1>12 DEF ExtWriteGoal
<1>13. ASSUME NEW i \in ShellIn, ExtShellOutput(i) PROVE Quiet
  BY <1>13 DEF ExtShellOutput
<1>14. CASE ExtResumeGoal
  BY <1>14 DEF ExtResumeGoal
<1>15. CASE ExtApplyGoal
  BY <1>15 DEF ExtApplyGoal
<1> QED BY <1>1, <1>2, <1>3, <1>4, <1>5, <1>6, <1>7, <1>8, <1>9, <1>10, <1>11, <1>12, <1>13,
       <1>14, <1>15 DEF LoopOp, ExtOp, CallStep

----------------------------------------------------------------------------
(* Steps that start, finish, drain or report a task *)

\* Start: the task added by start_task is new, and it is in no abort's hands.
LEMMA StartAddTaskControl ==
    ASSUME IndInv, NEW p \in Actor, StartAddTask(p)
    PROVE  Control'
<1> USE DEF IndInv, TypeOK, Control
<1> DEFINE t == cur[p]
<1>1. /\ t \in Turn /\ t # p /\ pc[t] = "unborn" /\ prog[t] # "none"
      /\ t \notin cancelled /\ ev[t] = {}
      /\ \A q \in Actor : q # p => cur[q] # t
      /\ pc[p] = "s_lock2"
  BY DEF StartAddTask, Births, LocalType, At, StartsTurn, StartPc
<1>2. /\ active'.tasks = active.tasks \cup {t}
      /\ active.tasks # {} => active'.ts = active.ts
  BY <1>1 DEF StartAddTask, TurnType, GetOrInsert, Some
<1>3. /\ pc'[t] \in {"t_run", "t_other"}
      /\ pc'[p] \in {"idle", "stopped", "done", "g_permit"}
      /\ \A q \in Actor : q # p /\ q # t => pc'[q] = pc[q]
  BY <1>1 DEF StartAddTask, LocalType
<1>4. \A q \in Actor : /\ q # p => cur'[q] = cur[q] /\ hts'[q] = hts[q]
                       /\ q = p => cur'[q] = NoTurn
  BY DEF StartAddTask, LocalType
<1>5. UNCHANGED <<prog, cancelled, doomed, ev, held, victim>>
  BY DEF StartAddTask, taskVars
<1> HIDE DEF t
<1>6. Births'
  BY <1>1, <1>3, <1>4, <1>5 DEF Births, LocalType, StartsTurn, StartPc
<1>7. Registered'
  BY <1>1, <1>2, <1>3, <1>5 DEF Registered, TurnType, RunPc
<1>8. Drained'
  BY <1>1, <1>2, <1>3, <1>5 DEF Drained, LocalType
<1>9. TaskTracked'
  BY <1>1, <1>2, <1>3, <1>5 DEF TaskTracked, RunPc, BeingAborted
<1>10. Answerable'
  BY <1>1, <1>2, <1>3, <1>4 DEF Answerable, Registered, RunPc, TurnType, At
<1> QED BY <1>6, <1>7, <1>8, <1>9, <1>10

\* Finish: the task that leaves the active turn is its own and only owner.
LEMMA FinishRemoveControl ==
    ASSUME IndInv, NEW t \in Turn, FinishRemove(t)
    PROVE  Control'
<1> USE DEF IndInv, TypeOK, Control
<1>1. active'.tasks = active.tasks \ {t} /\ active'.ts = active.ts
  BY DEF FinishRemove, TurnType
<1>2. /\ pc[t] = "f_remove" /\ pc'[t] \in {"f_take", "f_goal"}
      /\ \A q \in Actor : q # t => pc'[q] = pc[q] /\ hts'[q] = hts[q]
  BY DEF FinishRemove, LocalType, At, Goto
<1>3. UNCHANGED <<prog, cancelled, doomed, ev, held, victim, cur>>
  BY DEF FinishRemove, taskVars
<1>4. Births'
  BY <1>2, <1>3 DEF Births, LocalType, StartsTurn, StartPc
<1>5. Registered'
  BY <1>1, <1>2, <1>3 DEF Registered, TurnType
<1>6. Drained'
  BY <1>1, <1>2, <1>3 DEF Drained, LocalType
<1>7. TaskTracked'
  BY <1>1, <1>2, <1>3 DEF TaskTracked, RunPc, BeingAborted
<1>8. Answerable'
  BY <1>1, <1>2, <1>3 DEF Answerable, TurnType, At
<1> QED BY <1>4, <1>5, <1>6, <1>7, <1>8

\* Drain: the abort takes every task of the active turn, none of which was
\* cancelled before or is held by another abort.
LEMMA AbortTakeControl ==
    ASSUME IndInv, NEW p \in Actor, AbortTake(p)
    PROVE  Control'
<1> USE DEF IndInv, TypeOK, Control
<1>1. /\ pc[p] = "a_take" /\ held[p] = {}
      /\ \A q \in Actor : q # p => /\ pc'[q] = pc[q] /\ held'[q] = held[q]
                                   /\ victim'[q] = victim[q] /\ hts'[q] = hts[q]
      /\ UNCHANGED <<prog, cancelled, doomed, ev, cur>>
  BY DEF AbortTake, TakeTurn, taskVars, At, Goto, LocalType, Drained
<1>2. CASE active'.tasks = {} /\ active.tasks # {}
  <2>1. p \in {Loop, Guard} /\ held'[p] = active.tasks /\ pc'[p] = "a_cancel"
    BY <1>1, <1>2 DEF AbortTake, TakeTurn, LocalType, Goto
  <2>2. Births'
    BY <1>1, <2>1 DEF Births, LocalType, StartsTurn, StartPc
  <2>3. Registered' /\ Answerable'
    BY <1>2 DEF Registered, Answerable
  <2>4. \A t \in active.tasks : /\ t \in Turn /\ t # p /\ pc'[t] # "unborn"
                               /\ "aborted" \notin ev[t] /\ t \notin cancelled
                               /\ \A q \in Actor : t \notin held[q]
    BY <1>1, <2>1 DEF Registered, Drained, TurnType, RunPc
  <2>5. Drained'
    BY <1>1, <1>2, <2>1, <2>4 DEF Drained, LocalType
  <2>6. TaskTracked'
    BY <1>1, <1>2, <2>1 DEF TaskTracked, BeingAborted, RunPc
  <2> QED BY <2>2, <2>3, <2>5, <2>6
<1>3. CASE active'.tasks = active.tasks
  <2>1. /\ active.tasks # {} => active'.ts = active.ts
        /\ held'[p] = {} /\ pc'[p] \in {"a_goal", "s_idle", "idle"}
        /\ pc'[p] = "s_idle" => cur[p] # NoTurn
    BY <1>1, <1>3 DEF AbortTake, TakeTurn, NoActive, LocalType, TurnType, Goto, Interrupted
  <2>2. Quiet
    BY <1>1, <1>3, <2>1 DEF Quiet, QuietActor, Births, Registered, LivePc, HoldPc, RunPc,
          StartsTurn, StartPc
  <2> QED BY <2>2, QuietControl
<1>4. active'.tasks = {} \/ active'.tasks = active.tasks
  BY DEF AbortTake, TakeTurn, NoActive
<1> QED BY <1>2, <1>3, <1>4

\* An abort that is about to cancel a task is the first to do so.
LEMMA AbortCancelStep ==
    ASSUME IndInv, NEW p \in Actor, AbortCancel(p)
    PROVE  /\ pc[p] = "a_cancel"
           /\ UNCHANGED <<active, prog, doomed, ev, cur, hts, held>>
           /\ \E u \in held[p] :
                /\ u \in Turn /\ u \notin cancelled
                /\ cancelled' = cancelled \cup {u}
                /\ victim' = [victim EXCEPT ![p] = u]
                /\ pc' = [pc EXCEPT ![p] = "a_kill"]
<1> USE DEF IndInv, TypeOK, Control
<1>1. pc[p] = "a_cancel" /\ UNCHANGED <<active, prog, ev, cur, hts>>
  BY DEF AbortCancel, At, turnVars
<1>2. \A u \in held[p] : u \in Turn /\ u \notin cancelled
  BY <1>1 DEF Drained, LocalType
<1> QED BY <1>1, <1>2 DEF AbortCancel, Goto

\* Cancelling the token of a drained task keeps the invariant.
LEMMA AbortCancelControl ==
    ASSUME IndInv, NEW p \in Actor, AbortCancel(p)
    PROVE  Control'
<1> USE DEF IndInv, TypeOK, Control
<1>1. PICK u \in held[p] : /\ u \in Turn /\ u \notin cancelled
                           /\ cancelled' = cancelled \cup {u}
                           /\ victim' = [victim EXCEPT ![p] = u]
                           /\ pc' = [pc EXCEPT ![p] = "a_kill"]
  BY AbortCancelStep
<1>2. pc[p] = "a_cancel" /\ UNCHANGED <<active, prog, doomed, ev, cur, hts, held>>
  BY AbortCancelStep
<1>3. u \notin active.tasks /\ pc[u] # "unborn"
  BY DEF Drained
<1>4. Births'
  BY <1>1, <1>2, <1>3 DEF Births, LocalType, StartsTurn, StartPc
<1>5. Registered' /\ Answerable'
  BY <1>1, <1>2, <1>3 DEF Registered, Answerable, LocalType, TurnType, At, RunPc
<1>6. Drained'
  BY <1>1, <1>2 DEF Drained, LocalType
<1>7. TaskTracked'
  BY <1>1, <1>2 DEF TaskTracked, BeingAborted, LocalType, RunPc
<1> QED BY <1>4, <1>5, <1>6, <1>7

\* Aborting the handle of a drained task keeps the invariant.
LEMMA AbortKillControl ==
    ASSUME IndInv, NEW p \in Actor, AbortKill(p)
    PROVE  Control'
<1> USE DEF IndInv, TypeOK, Control
<1>1. /\ pc[p] = "a_kill" /\ pc' = [pc EXCEPT ![p] = "a_event"]
      /\ doomed' = doomed \cup {victim[p]}
      /\ UNCHANGED <<active, prog, cancelled, ev, cur, hts, held, victim>>
  BY DEF AbortKill, At, Goto, turnVars, localVars
<1>2. victim[p] \in held[p] /\ victim[p] \in cancelled
  BY <1>1 DEF Drained
<1>3. Births'
  BY <1>1 DEF Births, LocalType, StartsTurn, StartPc
<1>4. Registered' /\ Answerable'
  BY <1>1 DEF Registered, Answerable, LocalType, TurnType, At, RunPc
<1>5. Drained'
  BY <1>1, <1>2 DEF Drained, LocalType
<1>6. TaskTracked'
  BY <1>1 DEF TaskTracked, BeingAborted, LocalType, RunPc
<1> QED BY <1>3, <1>4, <1>5, <1>6

\* Report: the task leaves the abort's hands only after its handle was aborted.
LEMMA AbortEventControl ==
    ASSUME IndInv, NEW p \in Actor, AbortEvent(p)
    PROVE  Control'
<1> USE DEF IndInv, TypeOK, Control
<1> DEFINE u == victim[p]
<1>1. u \in held[p] /\ u \in Turn /\ u \in doomed /\ u \notin active.tasks /\ pc[u] # "unborn"
  BY DEF AbortEvent, Drained, LocalType, At
<1>2. /\ pc[p] = "a_event"
      /\ pc' = [pc EXCEPT ![p] = IF held[p] = {u} THEN "a_goal" ELSE "a_cancel"]
      /\ held' = [held EXCEPT ![p] = @ \ {u}]
      /\ ev' = [ev EXCEPT ![u] = @ \cup {"aborted"}]
      /\ UNCHANGED <<active, prog, cancelled, doomed, cur, hts, victim>>
  BY DEF AbortEvent, At, Goto, NextHeld, turnVars
<1> HIDE DEF u
<1>3. \A t \in Turn : t # u => ev'[t] = ev[t]
  BY <1>1, <1>2 DEF TaskType
<1>4. Births'
  BY <1>1, <1>2, <1>3 DEF Births, LocalType, StartsTurn, StartPc
<1>5. Registered' /\ Answerable'
  BY <1>1, <1>2, <1>3 DEF Registered, Answerable, LocalType, TurnType, At, RunPc
<1>6. Drained'
  BY <1>1, <1>2, <1>3 DEF Drained, LocalType, u
<1>7. TaskTracked'
  BY <1>1, <1>2 DEF TaskTracked, BeingAborted, LocalType, RunPc
<1> QED BY <1>4, <1>5, <1>6, <1>7

----------------------------------------------------------------------------
(* The theorems *)

\* The initial state satisfies the invariant.
LEMMA InitInv == Init => IndInv
<1> SUFFICES ASSUME Init PROVE IndInv
  OBVIOUS
<1>1. TurnType
  BY NoTSAssumption DEF Init, TurnType, NoActive
<1>2. ItemType
  BY DEF Init, ItemType, Item
<1>3. TaskType
  BY BoundsAssumption DEF Init, TaskType
<1>4. GoalType
  <2>1. bounds \in [interrupts : 0..MaxInterrupts, denials : 0..MaxInterrupts,
                    goals : 0..MaxGoalSets]
    BY BoundsAssumption DEF Init
  <2> QED BY <2>1 DEF Init, GoalType, GoalStatus
<1>5. LocalType
  BY DEF Init, LocalType, UsesState, Pc, EndPc
<1>6. Births
  BY DEF Init, Births, StartsTurn, StartPc
<1>7. Registered /\ Drained /\ Answerable
  BY DEF Init, Registered, Drained, Answerable, NoActive
<1>8. TaskTracked
  BY DEF Init, TaskTracked, RunPc
<1> QED BY <1>1, <1>2, <1>3, <1>4, <1>5, <1>6, <1>7, <1>8 DEF IndInv, TypeOK, Control

\* The steps that start, finish, drain or report a task.
LoudStep ==
    \/ \E p \in Actor : \/ StartAddTask(p) \/ AbortTake(p) \/ AbortCancel(p)
                        \/ AbortKill(p) \/ AbortEvent(p)
    \/ \E t \in Turn : FinishRemove(t)

\* Every step of the scheduler is either quiet or one of LoudStep.
LEMMA StepKinds ==
    ASSUME IndInv, Next
    PROVE  Quiet \/ LoudStep
<1>1. CASE LoopOp \/ ExtOp \/ CallStep
  BY <1>1, EnvironmentQuiet
<1>2. ASSUME NEW p \in Actor, ActorStep(p) PROVE Quiet \/ LoudStep
  BY <1>2, StartTaskQuiet, MaybeStartQuiet, GoalContinueQuiet, AbortQuiet
     DEF ActorStep, StartTask, MaybeStart, GoalContinue, Abort, LoudStep
<1>3. ASSUME NEW t \in Turn, TaskStep(t) PROVE Quiet \/ LoudStep
  BY <1>3, RunTaskQuiet, FinishTaskQuiet, DropTaskQuiet
     DEF TaskStep, RunTask, FinishTask, LoudStep
<1> QED BY <1>1, <1>2, <1>3 DEF Next

\* Every step of the scheduler keeps the shape of the state.
LEMMA StepType ==
    ASSUME IndInv, Next
    PROVE  TypeOK'
<1>1. CASE LoopOp \/ ExtOp \/ CallStep
  BY <1>1, EnvironmentType
<1>2. ASSUME NEW p \in Actor, ActorStep(p) PROVE TypeOK'
  BY <1>2, StartTaskType, MaybeStartType, GoalContinueType, AbortType
     DEF ActorStep, StartTask, MaybeStart, GoalContinue, Abort
<1>3. ASSUME NEW t \in Turn, TaskStep(t) PROVE TypeOK'
  BY <1>3, RunTaskType, FinishTaskType, DropTaskType DEF TaskStep, RunTask, FinishTask
<1> QED BY <1>1, <1>2, <1>3 DEF Next

\* Every step of the scheduler keeps the control part of the invariant.
LEMMA StepControl ==
    ASSUME IndInv, Next
    PROVE  Control'
<1>1. CASE Quiet
  BY <1>1, QuietControl
<1>2. CASE LoudStep
  BY <1>2, StartAddTaskControl, AbortTakeControl, AbortCancelControl, AbortKillControl,
     AbortEventControl, FinishRemoveControl DEF LoudStep
<1> QED BY <1>1, <1>2, StepKinds

\* IndInv is an inductive invariant of the scheduler.
THEOREM Inductive == Spec => []IndInv
<1>1. IndInv /\ [Next]_vars => IndInv'
  <2> SUFFICES ASSUME IndInv, [Next]_vars PROVE IndInv'
    OBVIOUS
  <2>1. CASE Next
    BY <2>1, StepType, StepControl DEF IndInv
  <2>2. CASE UNCHANGED vars
    BY <2>2 DEF vars, allButPc, turnVars, queueVars, itemVars, taskVars, goalVars,
            localVars,
       IndInv, TypeOK, TurnType, ItemType, TaskType, GoalType, LocalType, Control, Births,
       Registered, Drained, TaskTracked, Answerable, BeingAborted, At, Unused
  <2> QED BY <2>1, <2>2
<1> QED BY InitInv, <1>1, PTL DEF Spec

\* TypeOK holds for every number of turns and inputs: in particular no actor
\* uses a turn state it has no reference to (the Arc clones in start_task,
\* on_task_finished and abort_all_tasks).
THEOREM TypeCorrect == Spec => []TypeOK
<1>1. IndInv => TypeOK
  BY DEF IndInv
<1> QED BY Inductive, <1>1, PTL

\* TaskTracked for every number of turns: whatever races start_task,
\* on_task_finished and the two aborts run, no task is left running that
\* neither the active turn nor an abort in progress knows.
THEOREM NoStrayTask == Spec => []TaskTracked
<1>1. IndInv => TaskTracked
  BY DEF IndInv, Control
<1> QED BY Inductive, <1>1, PTL

\* Answerable for every number of turns: a task of the active turn waits for an
\* approval whose sender is in the turn state notify_approval looks at.
THEOREM ApprovalsReachable == Spec => []Answerable
<1>1. IndInv => Answerable
  BY DEF IndInv, Control
<1> QED BY Inductive, <1>1, PTL

----------------------------------------------------------------------------
(* The scheduler implements the safety part of TaskContract *)

\* The refinement mapping of Contract.
Owners == [t \in Turn |-> Owner(t)]
Reported == {t \in Turn : "aborted" \in ev[t]}

\* Who owns a task, by cases.
LEMMA OwnerCases ==
    ASSUME IndInv, NEW t \in Turn
    PROVE  /\ t \in active.tasks => Owner(t) = "session" /\ ~BeingAborted(t)
           /\ BeingAborted(t) => Owner(t) = "aborter"
           /\ t \notin active.tasks /\ ~BeingAborted(t) =>
                Owner(t) = IF pc[t] = "unborn" THEN "nobody" ELSE "over"
<1>1. t \in active.tasks => ~BeingAborted(t)
  BY DEF IndInv, Control, Drained, BeingAborted
<1>2. BeingAborted(t) => t \notin active.tasks
  BY <1>1
<1> QED BY <1>1, <1>2 DEF Owner

\* A quiet step changes neither the owner of a task nor what was reported.
LEMMA QuietStutters ==
    ASSUME IndInv, IndInv', Quiet
    PROVE  UNCHANGED <<Owners, Reported>>
<1>1. ASSUME NEW t \in Turn PROVE Owner(t)' = Owner(t)
  <2>1. /\ (t \in active.tasks)' <=> t \in active.tasks
        /\ BeingAborted(t)' <=> BeingAborted(t)
        /\ (pc[t] = "unborn")' <=> pc[t] = "unborn"
    BY DEF Quiet, QuietActor, BeingAborted
  <2> QED BY <2>1 DEF Owner
<1>2. ASSUME NEW t \in Turn PROVE "aborted" \in ev'[t] <=> "aborted" \in ev[t]
  BY DEF Quiet
<1> QED BY <1>1, <1>2 DEF Owners, Reported

\* Every loud step is a step of the contract or changes nothing it sees.
LEMMA LoudRefines ==
    ASSUME IndInv, IndInv', LoudStep
    PROVE  Contract!Next \/ UNCHANGED <<Owners, Reported>>
<1>1. ASSUME NEW p \in Actor, StartAddTask(p) PROVE Contract!Next
  <2>1. PICK u \in Turn : /\ u = cur[p] /\ u # p /\ pc[u] = "unborn" /\ pc[p] = "s_lock2"
                          /\ \A q \in Actor : u \notin held[q]
                          /\ u \notin active.tasks
    BY <1>1, StarterTurn DEF StartAddTask, At, StartsTurn, StartPc, IndInv, Control, Births,
       Drained, Registered, RunPc
  <2>2. active'.tasks = active.tasks \cup {u} /\ held' = held /\ ev' = ev
    BY <1>1, <2>1 DEF StartAddTask, GetOrInsert, Some, IndInv, TypeOK, TurnType, taskVars
  <2>3. \A q \in Actor : q # u => (pc'[q] = "unborn" <=> pc[q] = "unborn")
    BY <1>1, <2>1 DEF StartAddTask, IndInv, TypeOK, LocalType
  <2>4. Owner(u) = "nobody" /\ Owner(u)' = "session"
    BY <2>1, <2>2 DEF Owner, BeingAborted
  <2>5. \A t \in Turn : t # u => Owner(t)' = Owner(t)
    BY <2>2, <2>3 DEF Owner, BeingAborted
  <2>6. Contract!Start(u)
    BY <2>1, <2>2, <2>4, <2>5 DEF Contract!Start
  <2> QED BY <2>1, <2>6 DEF Contract!Next
<1>2. ASSUME NEW u \in Turn, FinishRemove(u)
      PROVE  Contract!Next \/ UNCHANGED <<Owners, Reported>>
  <2>1. /\ active'.tasks = active.tasks \ {u} /\ held' = held /\ ev' = ev
        /\ \A q \in Actor : pc'[q] = "unborn" <=> pc[q] = "unborn"
        /\ pc'[u] # "unborn"
    BY <1>2 DEF FinishRemove, At, Goto, IndInv, TypeOK, TurnType, LocalType, taskVars
  <2>2. \A t \in Turn : t # u => Owner(t)' = Owner(t)
    BY <2>1 DEF Owner, BeingAborted
  <2>3. CASE u \in active.tasks
    <3>1. Owner(u) = "session" /\ Owner(u)' = "over"
      BY <2>1, <2>3, OwnerCases DEF Owner, BeingAborted
    <3>2. Contract!Finish(u)
      BY <2>1, <2>2, <3>1 DEF Contract!Finish
    <3> QED BY <3>2 DEF Contract!Next
  <2>4. CASE u \notin active.tasks
    <3>1. Owner(u)' = Owner(u)
      BY <2>1, <2>4 DEF Owner, BeingAborted
    <3> QED BY <2>1, <2>2, <3>1 DEF Owners, Reported
  <2> QED BY <2>3, <2>4
<1>3. ASSUME NEW p \in Actor, AbortTake(p)
      PROVE  Contract!Next \/ UNCHANGED <<Owners, Reported>>
  <2>1. /\ ev' = ev
        /\ \A q \in Actor : pc'[q] = "unborn" <=> pc[q] = "unborn"
        /\ held[p] = {}
        /\ \A q \in Actor : q # p => held'[q] = held[q]
    BY <1>3 DEF AbortTake, TakeTurn, At, Goto, IndInv, TypeOK, LocalType, taskVars,
            Control, Drained
  <2>2. CASE active.tasks # {} /\ active'.tasks = {}
    <3>1. held'[p] = active.tasks
      BY <1>3, <2>2 DEF AbortTake, TakeTurn, IndInv, TypeOK, LocalType
    <3>2. \A t \in Turn : Owner(t)' = IF Owner(t) = "session" THEN "aborter" ELSE Owner(t)
      BY <2>1, <2>2, <3>1 DEF Owner, BeingAborted
    <3>3. \E t \in Turn : Owner(t) = "session"
      BY <2>2 DEF Owner, IndInv, TypeOK, TurnType
    <3>4. Contract!Drain
      BY <2>1, <3>2, <3>3 DEF Contract!Drain, Contract!Running
    <3> QED BY <3>4 DEF Contract!Next
  <2>3. CASE active'.tasks = active.tasks
    <3>1. held'[p] = {}
      BY <1>3, <2>1, <2>3 DEF AbortTake, TakeTurn, NoActive, IndInv, TypeOK, LocalType
    <3>2. \A t \in Turn : Owner(t)' = Owner(t)
      BY <2>1, <2>3, <3>1 DEF Owner, BeingAborted
    <3> QED BY <2>1, <3>2 DEF Owners, Reported
  <2>4. active'.tasks = {} \/ active'.tasks = active.tasks
    BY <1>3 DEF AbortTake, TakeTurn, NoActive
  <2> QED BY <2>2, <2>3, <2>4
<1>4. ASSUME NEW p \in Actor, AbortCancel(p) \/ AbortKill(p)
      PROVE  UNCHANGED <<Owners, Reported>>
  <2>1. active' = active /\ held' = held /\ ev' = ev
    BY <1>4, AbortCancelStep DEF AbortKill, turnVars, localVars
  <2>2. \A q \in Actor : pc'[q] = "unborn" <=> pc[q] = "unborn"
    BY <1>4, AbortCancelStep DEF AbortKill, At, Goto, IndInv, TypeOK, LocalType
  <2>3. \A t \in Turn : Owner(t)' = Owner(t)
    BY <2>1, <2>2 DEF Owner, BeingAborted
  <2> QED BY <2>1, <2>3 DEF Owners, Reported
<1>5. ASSUME NEW p \in Actor, AbortEvent(p) PROVE Contract!Next
  <2>1. PICK u \in Turn : /\ u = victim[p] /\ u \in held[p]
                          /\ u \notin active.tasks /\ pc[u] # "unborn"
                          /\ \A q \in Actor : q # p => u \notin held[q]
    BY <1>5 DEF AbortEvent, At, IndInv, Control, Drained, TypeOK, LocalType
  <2>2. /\ active' = active
        /\ \A q \in Actor : pc'[q] = "unborn" <=> pc[q] = "unborn"
        /\ held' = [held EXCEPT ![p] = @ \ {u}]
        /\ ev' = [ev EXCEPT ![u] = @ \cup {"aborted"}]
    BY <1>5, <2>1 DEF AbortEvent, At, Goto, NextHeld, turnVars, IndInv, TypeOK, LocalType
  <2>3. Owner(u) = "aborter" /\ Owner(u)' = "over"
    BY <2>1, <2>2 DEF Owner, BeingAborted, IndInv, TypeOK, LocalType
  <2>4. \A t \in Turn : t # u => Owner(t)' = Owner(t)
    BY <2>1, <2>2 DEF Owner, BeingAborted, IndInv, TypeOK, LocalType
  <2>5. Reported' = Reported \cup {u}
    BY <2>1, <2>2 DEF Reported, IndInv, TypeOK, TaskType
  <2>6. Contract!Report(u)
    BY <2>1, <2>3, <2>4, <2>5 DEF Contract!Report, Reported
  <2> QED BY <2>1, <2>6 DEF Contract!Next
<1> QED BY <1>1, <1>2, <1>3, <1>4, <1>5 DEF LoudStep

\* The scheduler implements the safety part of TaskContract, for every number of
\* turns: an abort reports exactly the tasks it drained, each once, and a task
\* that left the active turn never returns (take_active_turn, remove_task,
\* handle_task_abort).
THEOREM Refinement == Spec => Contract!Safe
<1>1. Init => Contract!Init
  <2> SUFFICES ASSUME Init PROVE Contract!Init
    OBVIOUS
  <2>1. \A t \in Turn : Owner(t) = "nobody"
    BY DEF Init, Owner, BeingAborted, NoActive
  <2>2. Reported = {}
    BY DEF Init, Reported
  <2> QED BY <2>1, <2>2 DEF Contract!Init, Reported
<1>2. IndInv /\ IndInv' /\ [Next]_vars => [Contract!Next]_<<Owners, Reported>>
  <2> SUFFICES ASSUME IndInv, IndInv', [Next]_vars
               PROVE  Contract!Next \/ UNCHANGED <<Owners, Reported>>
    OBVIOUS
  <2>1. CASE Next
    BY <2>1, StepKinds, QuietStutters, LoudRefines
  <2>2. CASE UNCHANGED vars
    BY <2>2 DEF vars, allButPc, turnVars, taskVars, localVars, Owners, Reported, Owner,
            BeingAborted
  <2> QED BY <2>1, <2>2
<1>3. [Contract!Next]_<<Owners, Reported>> => [Contract!Next]_(Contract!cvars)
  BY DEF Contract!cvars, Owners, Reported
<1> QED BY Inductive, <1>1, <1>2, <1>3, PTL DEF Spec, Contract!Safe

\* A turn that was reported aborted is over.
AbortFinal == \A t \in Turn : "aborted" \in ev[t] => Owner(t) = "over"

\* What a client may conclude from the contract: after TurnAborted the session
\* does not run that turn and nobody aborts it again, for good (TaskContract;
\* handle_task_abort).
THEOREM AbortIsFinal == Spec => []AbortFinal
<1>1. Contract!Init => AbortFinal
  BY DEF Contract!Init, AbortFinal
<1>2. AbortFinal /\ [Contract!Next]_(Contract!cvars) => AbortFinal'
  <2> SUFFICES ASSUME AbortFinal, [Contract!Next]_(Contract!cvars), NEW t \in Turn,
                      "aborted" \in ev'[t]
               PROVE  Owner(t)' = "over"
    BY DEF AbortFinal
  <2>1. [x \in Turn |-> Owner(x)][t] = Owner(t) /\ [x \in Turn |-> Owner(x)]'[t] = Owner(t)'
    OBVIOUS
  <2>2. CASE UNCHANGED Contract!cvars
    BY <2>1, <2>2 DEF Contract!cvars, AbortFinal
  <2>3. CASE Contract!Drain
    BY <2>1, <2>3 DEF Contract!Drain, Contract!Running, AbortFinal
  <2>4. ASSUME NEW u \in Turn, Contract!Start(u) PROVE Owner(t)' = "over"
    BY <2>1, <2>4 DEF Contract!Start, AbortFinal
  <2>5. ASSUME NEW u \in Turn, Contract!Finish(u) PROVE Owner(t)' = "over"
    BY <2>1, <2>5 DEF Contract!Finish, AbortFinal
  <2>6. ASSUME NEW u \in Turn, Contract!Report(u) PROVE Owner(t)' = "over"
    BY <2>1, <2>6 DEF Contract!Report, AbortFinal
  <2> QED BY <2>2, <2>3, <2>4, <2>5, <2>6 DEF Contract!Next
<1> QED BY Refinement, <1>1, <1>2, PTL DEF Contract!Safe

----------------------------------------------------------------------------
(* Where the input is *)

\* The item is in none of the containers of its kind.
NotShared(i) ==
    i \notin mail /\ i \notin idle /\ i \notin history /\ i \notin refused /\ i \notin unsent
NotPending(i) == \A s \in TS : i \notin pend[s]
NotOwn(i) == \A t \in Turn : i \notin inp[t]
NotHeld(i) == \A p \in Actor : i \notin loc[p]

Nowhere(i) == NotShared(i) /\ NotPending(i) /\ NotOwn(i) /\ NotHeld(i)

\* The item is in one container at most.
SharedOnce(i) ==
    /\ i \in mail => i \notin idle /\ i \notin history /\ i \notin refused /\ i \notin unsent
    /\ i \in idle => i \notin history /\ i \notin refused /\ i \notin unsent
    /\ i \in history => i \notin refused /\ i \notin unsent
    /\ i \in refused => i \notin unsent
PendingOnce(i) == \A s, r \in TS : i \in pend[s] /\ i \in pend[r] => s = r
OwnOnce(i) == \A t, u \in Turn : i \in inp[t] /\ i \in inp[u] => t = u
HeldOnce(i) == \A p, q \in Actor : i \in loc[p] /\ i \in loc[q] => p = q

Sole(i) ==
    /\ SharedOnce(i) /\ PendingOnce(i) /\ OwnOnce(i) /\ HeldOnce(i)
    /\ NotShared(i) \/ (NotPending(i) /\ NotOwn(i) /\ NotHeld(i))
    /\ (NotPending(i) /\ (NotOwn(i) \/ NotHeld(i))) \/ (NotOwn(i) /\ NotHeld(i))

\* The prompt of turn t has not been written yet.
Early(t) ==
    \/ prog[t] = "none"
    \/ \E p \in Actor : cur[p] = t /\ pc[p] \in {"g_reread", "g_push"}

\* An item is in one container at most, and a continuation prompt is in none
\* before it is written: else writing it would make a second copy.
ItemsSole == \A i \in Item : Sole(i)
PromptsFresh == \A t \in Turn : Early(t) => Nowhere(t)

ItemInv == IndInv /\ ItemsSole /\ PromptsFresh

\* A step moves an item, or leaves it, or loses it: it makes no copy.
Conserves == \A i \in Item : (Sole(i) => Sole(i)') /\ (Nowhere(i) => Nowhere(i)')

containers == <<pend, mail, idle, history, refused, unsent, inp, loc>>

\* A step that moves no item conserves them.
LEMMA StillConserves ==
    ASSUME UNCHANGED containers
    PROVE  Conserves
  BY DEF containers, Conserves, Sole, SharedOnce, PendingOnce, OwnOnce, HeldOnce, Nowhere,
     NotShared, NotPending, NotOwn, NotHeld

\* Taking the pending input moves it from the active turn to an actor.
LEMMA TakePendingConserves ==
    ASSUME IndInv, NEW p \in Actor, NEW l, NEW m, TakePending(p, l, m),
           UNCHANGED <<mail, idle, history, refused, unsent, inp>>
    PROVE  Conserves
<1> USE DEF Sole, SharedOnce, PendingOnce, OwnOnce, HeldOnce,
     Nowhere, NotShared, NotPending, NotOwn, NotHeld
<1>1. CASE Some
  <2>1. active.ts \in TS /\ pend \in [TS -> SUBSET Item] /\ loc \in [Actor -> SUBSET Item]
    BY <1>1 DEF Some, IndInv, TypeOK, TurnType, LocalType
  <2>2. /\ loc' = [loc EXCEPT ![p] = @ \cup pend[active.ts]]
        /\ pend' = [pend EXCEPT ![active.ts] = {}]
    BY <1>1 DEF TakePending
  <2> QED BY <2>1, <2>2 DEF Conserves
<1>2. CASE ~Some
  BY <1>2, StillConserves DEF TakePending, containers
<1> QED BY <1>1, <1>2

\* Draining the mailbox moves the mail to an actor.
LEMMA DrainMailConserves ==
    ASSUME IndInv, NEW p \in Actor, NEW l, DrainMail(p, l),
           UNCHANGED <<pend, idle, history, refused, unsent, inp>>
    PROVE  Conserves
  BY DEF DrainMail, Conserves, Sole, SharedOnce, PendingOnce, OwnOnce, HeldOnce, Nowhere,
     NotShared, NotPending, NotOwn, NotHeld

\* Starting a task moves the queued input to the starter and on to the turn.
LEMMA StartTaskConserves ==
    ASSUME IndInv, NEW p \in Actor, StartTask(p)
    PROVE  Conserves
<1> USE DEF IndInv, TypeOK, TurnType, ItemType, TaskType, LocalType, Conserves, containers,
        turnVars, queueVars, itemVars, taskVars, goalVars, localVars, allButPc, At, Goto,
        Resumes, ToolCall, GoalCandidate, GiveUpReservation, Ready
<1>1. CASE StartTakeIdle(p)
  BY <1>1 DEF StartTakeIdle, Sole, SharedOnce, PendingOnce, OwnOnce, HeldOnce, Nowhere,
     NotShared, NotPending, NotOwn, NotHeld
<1>2. CASE StartTakePending(p)
  BY <1>2, TakePendingConserves DEF StartTakePending
<1>3. CASE StartDrainMail(p)
  BY <1>3, DrainMailConserves DEF StartDrainMail
<1>4. CASE StartLockState(p)
  BY <1>4, StillConserves DEF StartLockState
<1>5. CASE StartPushInput(p)
  <2>1. hts[p] \in TS
    BY <1>5 DEF StartPushInput, UsesState
  <2> QED BY <1>5 DEF StartPushInput, Sole, SharedOnce, PendingOnce, OwnOnce, HeldOnce,
     Nowhere, NotShared, NotPending, NotOwn, NotHeld
<1>6. CASE StartAddTask(p)
  BY <1>6, StillConserves DEF StartAddTask
<1> QED BY <1>1, <1>2, <1>3, <1>4, <1>5, <1>6 DEF StartTask


\* Looking for pending work moves no input.
LEMMA MaybeStartConserves ==
    ASSUME IndInv, NEW p \in Actor, MaybeStart(p)
    PROVE  Conserves
<1> USE DEF IndInv, TypeOK, TurnType, ItemType, TaskType, LocalType, Conserves, containers,
        turnVars, queueVars, itemVars, taskVars, goalVars, localVars, allButPc, At, Goto,
        Resumes, ToolCall, GoalCandidate, GiveUpReservation, Ready
<1>1. CASE MaybeCheckIdle(p)
  BY <1>1, StillConserves DEF MaybeCheckIdle
<1>2. CASE MaybeCheckMail(p)
  BY <1>2, StillConserves DEF MaybeCheckMail
<1>3. CASE MaybeReserve(p)
  BY <1>3, StillConserves DEF MaybeReserve
<1>4. CASE MaybeBusy(p)
  BY <1>4, StillConserves DEF MaybeBusy
<1> QED BY <1>1, <1>2, <1>3, <1>4 DEF MaybeStart

\* Continuing a goal moves no input, but for the prompt.
LEMMA GoalContinueConserves ==
    ASSUME IndInv, NEW p \in Actor, GoalContinue(p), ~GoalPushPrompt(p)
    PROVE  Conserves
<1> USE DEF IndInv, TypeOK, TurnType, ItemType, TaskType, LocalType, Conserves, containers,
        turnVars, queueVars, itemVars, taskVars, goalVars, localVars, allButPc, At, Goto,
        Resumes, ToolCall, GoalCandidate, GiveUpReservation, Ready
<1>1. CASE GoalAcquire(p)
  BY <1>1, StillConserves DEF GoalAcquire
<1>2. CASE GoalCheck(p)
  BY <1>2, StillConserves DEF GoalCheck
<1>3. CASE GoalRecheck(p)
  BY <1>3, StillConserves DEF GoalRecheck
<1>4. CASE GoalReserve(p)
  BY <1>4, StillConserves DEF GoalReserve
<1>5. CASE GoalBusy(p)
  BY <1>5, StillConserves DEF GoalBusy
<1>6. CASE GoalReread(p)
  BY <1>6, StillConserves DEF GoalReread
<1>7. CASE GoalStillReserved(p)
  BY <1>7, StillConserves DEF GoalStillReserved
<1> QED BY <1>1, <1>2, <1>3, <1>4, <1>5, <1>6, <1>7 DEF GoalContinue

\* Aborting loses the pending input of the turn and moves none.
LEMMA AbortConserves ==
    ASSUME IndInv, NEW p \in Actor, Abort(p)
    PROVE  Conserves
<1> USE DEF IndInv, TypeOK, TurnType, ItemType, TaskType, LocalType, Conserves, containers,
        turnVars, queueVars, itemVars, taskVars, goalVars, localVars, allButPc, At, Goto,
        Resumes, ToolCall, GoalCandidate, GiveUpReservation, Ready
<1>1. CASE AbortTake(p)
  BY <1>1, StillConserves DEF AbortTake, TakeTurn
<1>2. CASE AbortCancel(p)
  BY <1>2, StillConserves DEF AbortCancel
<1>3. CASE AbortKill(p)
  BY <1>3, StillConserves DEF AbortKill
<1>4. CASE AbortEvent(p)
  BY <1>4, StillConserves DEF AbortEvent
<1>5. CASE AbortGoal(p)
  BY <1>5, StillConserves DEF AbortGoal
<1>6. CASE AbortPauseGoal(p)
  BY <1>6, StillConserves DEF AbortPauseGoal
<1>7. CASE AbortClear(p)
  <2>1. hts[p] \in TS
    BY <1>7 DEF AbortClear, UsesState
  <2> QED BY <1>7 DEF AbortClear, Sole, SharedOnce, PendingOnce, OwnOnce, HeldOnce, Nowhere,
     NotShared, NotPending, NotOwn, NotHeld
<1> QED BY <1>1, <1>2, <1>3, <1>4, <1>5, <1>6, <1>7 DEF Abort

\* A running task moves input into the conversation, or back into the turn.
LEMMA RunTaskConserves ==
    ASSUME IndInv, NEW t \in Turn, RunTask(t)
    PROVE  Conserves
<1> USE DEF IndInv, TypeOK, TurnType, ItemType, TaskType, LocalType, Conserves, containers,
        turnVars, queueVars, itemVars, taskVars, goalVars, localVars, allButPc, At, Goto,
        Resumes, ToolCall, GoalCandidate, GiveUpReservation, Ready
<1>1. CASE TurnNoWork(t)
  BY <1>1, StillConserves DEF TurnNoWork
<1>2. CASE TurnCancelledEarly(t)
  BY <1>2, StillConserves DEF TurnCancelledEarly
<1>3. CASE TurnRefuse(t)
  BY <1>3 DEF TurnRefuse, Sole, SharedOnce, PendingOnce, OwnOnce, HeldOnce, Nowhere,
     NotShared, NotPending, NotOwn, NotHeld
<1>4. CASE TurnRecordInput(t)
  BY <1>4 DEF TurnRecordInput, Sole, SharedOnce, PendingOnce, OwnOnce, HeldOnce, Nowhere,
     NotShared, NotPending, NotOwn, NotHeld
<1>5. CASE TurnDrain(t)
  BY <1>5, TakePendingConserves DEF TurnDrain
<1>6. CASE TurnDrainMail(t)
  BY <1>6, DrainMailConserves DEF TurnDrainMail
<1>7. CASE TurnHookAccepts(t)
  BY <1>7, StillConserves DEF TurnHookAccepts
<1>8. CASE TurnHookBlocks(t)
  <2>1. PICK b \in loc[t] \cap UserIn : \E ok \in SUBSET (loc[t] \ {b}) :
             /\ pend' = IF Some THEN [pend EXCEPT ![active.ts] = @ \cup (loc[t] \ (ok \cup {b}))]
                        ELSE pend
             /\ refused' = refused \cup {b}
             /\ loc' = [loc EXCEPT ![t] = ok]
    BY <1>8 DEF TurnHookBlocks
  <2>5. PICK ok \in SUBSET (loc[t] \ {b}) :
             /\ pend' = IF Some THEN [pend EXCEPT ![active.ts] = @ \cup (loc[t] \ (ok \cup {b}))]
                        ELSE pend
             /\ refused' = refused \cup {b}
             /\ loc' = [loc EXCEPT ![t] = ok]
    BY <2>1
  <2>2. UNCHANGED <<mail, idle, history, unsent, inp>>
    BY <1>8 DEF TurnHookBlocks
  <2>3. CASE Some
    <3>1. active.ts \in TS
      BY <2>3 DEF Some
    <3> QED BY <2>5, <2>2 DEF Sole, SharedOnce, PendingOnce, OwnOnce, HeldOnce, Nowhere,
       NotShared, NotPending, NotOwn, NotHeld
  <2>4. CASE ~Some
    BY <2>5, <2>2 DEF Sole, SharedOnce, PendingOnce, OwnOnce, HeldOnce, Nowhere, NotShared,
       NotPending, NotOwn, NotHeld
  <2> QED BY <2>3, <2>4
<1>9. CASE TurnRecordPending(t)
  BY <1>9 DEF TurnRecordPending, Sole, SharedOnce, PendingOnce, OwnOnce, HeldOnce, Nowhere,
     NotShared, NotPending, NotOwn, NotHeld
<1>10. CASE TurnTool(t)
  BY <1>10, StillConserves DEF TurnTool
<1>11. CASE TurnToolAsks(t)
  BY <1>11, StillConserves DEF TurnToolAsks
<1>12. CASE TurnCreatesGoal(t)
  BY <1>12, StillConserves DEF TurnCreatesGoal
<1>13. CASE TurnCompletesGoal(t)
  BY <1>13, StillConserves DEF TurnCompletesGoal
<1>14. CASE TurnDenied(t)
  BY <1>14, StillConserves DEF TurnDenied
<1>15. CASE TurnAsk(t)
  BY <1>15, StillConserves DEF TurnAsk
<1>16. CASE TurnAnswered(t)
  BY <1>16, StillConserves DEF TurnAnswered
<1>17. CASE TurnFinal(t)
  BY <1>17, StillConserves DEF TurnFinal
<1>18. CASE TurnFollowUp(t)
  BY <1>18, StillConserves DEF TurnFollowUp
<1>19. CASE TurnError(t)
  BY <1>19, StillConserves DEF TurnError
<1>20. CASE TurnPost(t)
  BY <1>20, StillConserves DEF TurnPost
<1>21. CASE TurnStopHookBlocks(t)
  BY <1>21, StillConserves DEF TurnStopHookBlocks
<1>22. CASE TurnLoop(t)
  BY <1>22, StillConserves DEF TurnLoop
<1>23. CASE OtherRun(t)
  BY <1>23, StillConserves DEF OtherRun
<1>24. CASE TaskEnd(t)
  BY <1>24, StillConserves DEF TaskEnd
<1> QED BY <1>1, <1>2, <1>3, <1>4, <1>5, <1>6, <1>7, <1>8, <1>9, <1>10, <1>11, <1>12, <1>13,
   <1>14, <1>15, <1>16, <1>17, <1>18, <1>19, <1>20, <1>21, <1>22, <1>23, <1>24 DEF RunTask

\* A finishing task records the input that is left in its turn.
LEMMA FinishTaskConserves ==
    ASSUME IndInv, NEW t \in Turn, FinishTask(t)
    PROVE  Conserves
<1> USE DEF IndInv, TypeOK, TurnType, ItemType, TaskType, LocalType, Conserves, containers,
        turnVars, queueVars, itemVars, taskVars, goalVars, localVars, allButPc, At, Goto,
        Resumes, ToolCall, GoalCandidate, GiveUpReservation, Ready
<1>1. CASE FinishRemove(t)
  BY <1>1, StillConserves DEF FinishRemove
<1>2. CASE FinishTakeInput(t)
  <2>1. hts[t] \in TS
    BY <1>2 DEF FinishTakeInput, UsesState
  <2> QED BY <1>2, <2>1 DEF FinishTakeInput, Sole, SharedOnce, PendingOnce, OwnOnce,
     HeldOnce, Nowhere, NotShared, NotPending, NotOwn, NotHeld
<1>3. CASE FinishRecord(t)
  BY <1>3 DEF FinishRecord, Sole, SharedOnce, PendingOnce, OwnOnce, HeldOnce, Nowhere,
     NotShared, NotPending, NotOwn, NotHeld
<1>4. CASE FinishGoal(t)
  BY <1>4, StillConserves DEF FinishGoal
<1>5. CASE FinishEvent(t)
  BY <1>5, StillConserves DEF FinishEvent
<1>6. CASE FinishClear(t)
  BY <1>6, StillConserves DEF FinishClear
<1> QED BY <1>1, <1>2, <1>3, <1>4, <1>5, <1>6 DEF FinishTask

\* A dropped task loses the input it holds.
LEMMA DropTaskConserves ==
    ASSUME IndInv, NEW t \in Turn, DropTask(t)
    PROVE  Conserves
<1> USE DEF IndInv, TypeOK, TurnType, ItemType, TaskType, LocalType, Conserves, containers,
        turnVars, queueVars, itemVars, taskVars, goalVars, localVars, allButPc, At, Goto,
        Resumes, ToolCall, GoalCandidate, GiveUpReservation, Ready
<1> QED BY DEF DropTask, Sole, SharedOnce, PendingOnce, OwnOnce, HeldOnce, Nowhere,
   NotShared, NotPending, NotOwn, NotHeld

\* An operation moves the submitted input to where it waits.
LEMMA EnvironmentConserves ==
    ASSUME IndInv, LoopOp \/ ExtOp \/ CallStep
    PROVE  Conserves
<1> USE DEF IndInv, TypeOK, TurnType, ItemType, TaskType, LocalType, Conserves, containers,
        turnVars, queueVars, itemVars, taskVars, goalVars, localVars, allButPc, At, Goto,
        Resumes, ToolCall, GoalCandidate, GiveUpReservation, Ready
<1>1. ASSUME NEW i \in UserIn, SteerInput(i) PROVE Conserves
  <2>1. active.ts \in TS
    BY <1>1 DEF SteerInput
  <2> QED BY <1>1 DEF SteerInput, Sole, SharedOnce, PendingOnce, OwnOnce, HeldOnce, Nowhere,
     NotShared, NotPending, NotOwn, NotHeld
<1>2. ASSUME NEW i \in UserIn, LoopSteerRefused(i) PROVE Conserves
  BY <1>2 DEF LoopSteerRefused, Sole, SharedOnce, PendingOnce, OwnOnce, HeldOnce, Nowhere,
     NotShared, NotPending, NotOwn, NotHeld
<1>3. ASSUME NEW i \in UserIn, LoopSpawnTurn(i) PROVE Conserves
  <2>1. PICK t \in Turn : Spawn(t, "turn", {i})
    BY <1>3 DEF LoopSpawnTurn, Unused
  <2> QED BY <1>3 DEF LoopSpawnTurn, Spawn, Sole, SharedOnce, PendingOnce, OwnOnce,
     HeldOnce, Nowhere, NotShared, NotPending, NotOwn, NotHeld
<1>4. ASSUME NEW program \in OtherProg, LoopSpawnOther(program) PROVE Conserves
  <2>1. PICK t \in Turn : Spawn(t, program, {})
    BY <1>4 DEF LoopSpawnOther, Unused
  <2> QED BY <1>4 DEF LoopSpawnOther, Spawn, Sole, SharedOnce, PendingOnce, OwnOnce,
     HeldOnce, Nowhere, NotShared, NotPending, NotOwn, NotHeld
<1>5. ASSUME NEW i \in MailIn, LoopMail(i) PROVE Conserves
  BY <1>5 DEF LoopMail, Sole, SharedOnce, PendingOnce, OwnOnce, HeldOnce, Nowhere,
     NotShared, NotPending, NotOwn, NotHeld
<1>6. ASSUME NEW i \in QueueIn, LoopInject(i) PROVE Conserves
  <2>1. active.ts \in TS
    BY <1>6 DEF LoopInject, Some
  <2> QED BY <1>6 DEF LoopInject, Sole, SharedOnce, PendingOnce, OwnOnce, HeldOnce, Nowhere,
     NotShared, NotPending, NotOwn, NotHeld
<1>7. ASSUME NEW i \in QueueIn, LoopInjectFails(i) PROVE Conserves
  BY <1>7 DEF LoopInjectFails, Sole, SharedOnce, PendingOnce, OwnOnce, HeldOnce, Nowhere,
     NotShared, NotPending, NotOwn, NotHeld
<1>8. ASSUME NEW t \in Turn, LoopAnswer(t) PROVE Conserves
  BY <1>8, StillConserves DEF LoopAnswer
<1>9. CASE LoopInterrupt
  BY <1>9, StillConserves DEF LoopInterrupt
<1>10. CASE LoopShutdown
  BY <1>10, StillConserves DEF LoopShutdown
<1>11. CASE LoopQueue
  BY <1>11 DEF LoopQueue, Sole, SharedOnce, PendingOnce, OwnOnce, HeldOnce, Nowhere,
     NotShared, NotPending, NotOwn, NotHeld
<1>12. ASSUME NEW status \in GoalStatus, ExtWriteGoal(status) PROVE Conserves
  BY <1>12, StillConserves DEF ExtWriteGoal
<1>13. ASSUME NEW i \in ShellIn, ExtShellOutput(i) PROVE Conserves
  <2>1. CASE Some
    <3>1. active.ts \in TS
      BY <2>1 DEF Some
    <3>2. /\ i \in unsent /\ unsent' = unsent \ {i}
          /\ pend' = [pend EXCEPT ![active.ts] = @ \cup {i}]
          /\ UNCHANGED <<mail, idle, history, refused, inp, loc>>
      BY <1>13, <2>1 DEF ExtShellOutput
    <3> QED BY <3>2 DEF Sole, SharedOnce, PendingOnce, OwnOnce, HeldOnce, Nowhere,
       NotShared, NotPending, NotOwn, NotHeld
  <2>2. CASE ~Some
    BY <1>13, <2>2 DEF ExtShellOutput, Sole, SharedOnce, PendingOnce, OwnOnce, HeldOnce,
       Nowhere, NotShared, NotPending, NotOwn, NotHeld
  <2> QED BY <2>1, <2>2
<1>14. CASE ExtResumeGoal
  BY <1>14, StillConserves DEF ExtResumeGoal
<1>15. CASE ExtApplyGoal
  BY <1>15, StillConserves DEF ExtApplyGoal
<1> QED BY <1>1, <1>2, <1>3, <1>4, <1>5, <1>6, <1>7, <1>8, <1>9, <1>10, <1>11, <1>12, <1>13,
   <1>14, <1>15 DEF LoopOp, ExtOp, CallStep

\* No step takes a prompt back to before it is written: starting a task,
LEMMA StartTaskEarly ==
    ASSUME IndInv, NEW p \in Actor, StartTask(p)
    PROVE  \A u \in Turn : Early(u)' => Early(u)
<1> USE DEF IndInv, TypeOK, LocalType, Early, turnVars, taskVars, localVars, allButPc, At, Goto,
        End, Resumes, ToolCall, GoalCandidate, GiveUpReservation, Ready, TakePending,
        DrainMail, Interrupted, FollowUpPc
<1>1. CASE StartTakeIdle(p)
  BY <1>1 DEF StartTakeIdle
<1>2. CASE StartTakePending(p)
  BY <1>2 DEF StartTakePending
<1>3. CASE StartDrainMail(p)
  BY <1>3 DEF StartDrainMail
<1>4. CASE StartLockState(p)
  BY <1>4 DEF StartLockState
<1>5. CASE StartPushInput(p)
  BY <1>5 DEF StartPushInput
<1>6. CASE StartAddTask(p)
  <2>1. cur[p] \in Turn
    BY <1>6, StarterTurn DEF StartAddTask, StartsTurn, StartPc
  <2> QED BY <1>6, <2>1 DEF StartAddTask
<1> QED BY <1>1, <1>2, <1>3, <1>4, <1>5, <1>6 DEF StartTask

\* looking for pending work,
LEMMA MaybeStartEarly ==
    ASSUME IndInv, NEW p \in Actor, MaybeStart(p)
    PROVE  \A u \in Turn : Early(u)' => Early(u)
<1> USE DEF IndInv, TypeOK, LocalType, Early, turnVars, taskVars, localVars, allButPc, At, Goto,
        End, Resumes, ToolCall, GoalCandidate, GiveUpReservation, Ready, TakePending,
        DrainMail, Interrupted, FollowUpPc
<1>1. CASE MaybeCheckIdle(p)
  BY <1>1 DEF MaybeCheckIdle
<1>2. CASE MaybeCheckMail(p)
  BY <1>2 DEF MaybeCheckMail
<1>3. CASE MaybeReserve(p)
  <2>1. PICK u \in Turn : /\ prog[u] = "none"
                          /\ prog' = [prog EXCEPT ![u] = "turn"]
                          /\ cur' = [cur EXCEPT ![p] = u]
    BY <1>3 DEF MaybeReserve, Unused
  <2> QED BY <1>3, <2>1 DEF MaybeReserve, TaskType
<1>4. CASE MaybeBusy(p)
  BY <1>4 DEF MaybeBusy
<1> QED BY <1>1, <1>2, <1>3, <1>4 DEF MaybeStart

\* continuing a goal,
LEMMA GoalContinueEarly ==
    ASSUME IndInv, NEW p \in Actor, GoalContinue(p)
    PROVE  \A u \in Turn : Early(u)' => Early(u)
<1> USE DEF IndInv, TypeOK, LocalType, Early, turnVars, taskVars, localVars, allButPc, At, Goto,
        End, Resumes, ToolCall, GoalCandidate, GiveUpReservation, Ready, TakePending,
        DrainMail, Interrupted, FollowUpPc
<1>1. CASE GoalAcquire(p)
  BY <1>1 DEF GoalAcquire
<1>2. CASE GoalCheck(p)
  BY <1>2 DEF GoalCheck
<1>3. CASE GoalRecheck(p)
  BY <1>3 DEF GoalRecheck
<1>4. CASE GoalReserve(p)
  <2>1. PICK u \in Turn : /\ prog[u] = "none"
                          /\ prog' = [prog EXCEPT ![u] = "turn"]
                          /\ cur' = [cur EXCEPT ![p] = u]
    BY <1>4 DEF GoalReserve, Unused
  <2> QED BY <1>4, <2>1 DEF GoalReserve, TaskType
<1>5. CASE GoalBusy(p)
  BY <1>5 DEF GoalBusy
<1>6. CASE GoalReread(p)
  BY <1>6 DEF GoalReread
<1>7. CASE GoalPushPrompt(p)
  BY <1>7 DEF GoalPushPrompt
<1>8. CASE GoalStillReserved(p)
  BY <1>8 DEF GoalStillReserved
<1> QED BY <1>1, <1>2, <1>3, <1>4, <1>5, <1>6, <1>7, <1>8 DEF GoalContinue

\* aborting,
LEMMA AbortEarly ==
    ASSUME IndInv, NEW p \in Actor, Abort(p)
    PROVE  \A u \in Turn : Early(u)' => Early(u)
<1> USE DEF IndInv, TypeOK, LocalType, Early, turnVars, taskVars, localVars, allButPc, At, Goto,
        End, Resumes, ToolCall, GoalCandidate, GiveUpReservation, Ready, TakePending,
        DrainMail, Interrupted, FollowUpPc,
        TakeTurn, NextHeld, AfterGoal
<1>1. CASE AbortTake(p)
  BY <1>1 DEF AbortTake
<1>2. CASE AbortCancel(p)
  BY <1>2 DEF AbortCancel
<1>3. CASE AbortKill(p)
  BY <1>3 DEF AbortKill
<1>4. CASE AbortEvent(p)
  BY <1>4 DEF AbortEvent
<1>5. CASE AbortGoal(p)
  BY <1>5 DEF AbortGoal
<1>6. CASE AbortPauseGoal(p)
  BY <1>6 DEF AbortPauseGoal
<1>7. CASE AbortClear(p)
  BY <1>7 DEF AbortClear
<1> QED BY <1>1, <1>2, <1>3, <1>4, <1>5, <1>6, <1>7 DEF Abort

\* running a task,
LEMMA RunTaskEarly ==
    ASSUME IndInv, NEW t \in Turn, RunTask(t)
    PROVE  \A u \in Turn : Early(u)' => Early(u)
<1> USE DEF IndInv, TypeOK, LocalType, Early, turnVars, taskVars, localVars, allButPc, At, Goto,
        End, Resumes, ToolCall, GoalCandidate, GiveUpReservation, Ready, TakePending,
        DrainMail, Interrupted, FollowUpPc
<1>1. CASE TurnNoWork(t)
  BY <1>1 DEF TurnNoWork
<1>2. CASE TurnCancelledEarly(t)
  BY <1>2 DEF TurnCancelledEarly
<1>3. CASE TurnRefuse(t)
  BY <1>3 DEF TurnRefuse
<1>4. CASE TurnRecordInput(t)
  BY <1>4 DEF TurnRecordInput
<1>5. CASE TurnDrain(t)
  BY <1>5 DEF TurnDrain
<1>6. CASE TurnDrainMail(t)
  BY <1>6 DEF TurnDrainMail
<1>7. CASE TurnHookAccepts(t)
  BY <1>7 DEF TurnHookAccepts
<1>8. CASE TurnHookBlocks(t)
  <2>1. PICK l \in {"t_record", "t_drain", "t_loop"} : Goto(t, l)
    BY <1>8 DEF TurnHookBlocks
  <2> QED BY <1>8, <2>1 DEF TurnHookBlocks
<1>9. CASE TurnRecordPending(t)
  BY <1>9 DEF TurnRecordPending
<1>10. CASE TurnTool(t)
  BY <1>10 DEF TurnTool
<1>11. CASE TurnToolAsks(t)
  BY <1>11 DEF TurnToolAsks
<1>12. CASE TurnCreatesGoal(t)
  BY <1>12 DEF TurnCreatesGoal
<1>13. CASE TurnCompletesGoal(t)
  BY <1>13 DEF TurnCompletesGoal
<1>14. CASE TurnDenied(t)
  BY <1>14 DEF TurnDenied
<1>15. CASE TurnAsk(t)
  BY <1>15 DEF TurnAsk
<1>16. CASE TurnAnswered(t)
  BY <1>16 DEF TurnAnswered
<1>17. CASE TurnFinal(t)
  BY <1>17 DEF TurnFinal
<1>18. CASE TurnFollowUp(t)
  BY <1>18 DEF TurnFollowUp
<1>19. CASE TurnError(t)
  BY <1>19 DEF TurnError
<1>20. CASE TurnPost(t)
  BY <1>20 DEF TurnPost
<1>21. CASE TurnStopHookBlocks(t)
  BY <1>21 DEF TurnStopHookBlocks
<1>22. CASE TurnLoop(t)
  BY <1>22 DEF TurnLoop
<1>23. CASE OtherRun(t)
  BY <1>23 DEF OtherRun
<1>24. CASE TaskEnd(t)
  BY <1>24 DEF TaskEnd
<1> QED BY <1>1, <1>2, <1>3, <1>4, <1>5, <1>6, <1>7, <1>8, <1>9, <1>10, <1>11, <1>12, <1>13,
   <1>14, <1>15, <1>16, <1>17, <1>18, <1>19, <1>20, <1>21, <1>22, <1>23, <1>24 DEF RunTask

\* finishing it,
LEMMA FinishTaskEarly ==
    ASSUME IndInv, NEW t \in Turn, FinishTask(t)
    PROVE  \A u \in Turn : Early(u)' => Early(u)
<1> USE DEF IndInv, TypeOK, LocalType, Early, turnVars, taskVars, localVars, allButPc, At, Goto,
        End, Resumes, ToolCall, GoalCandidate, GiveUpReservation, Ready, TakePending,
        DrainMail, Interrupted, FollowUpPc
<1>1. CASE FinishRemove(t)
  BY <1>1 DEF FinishRemove
<1>2. CASE FinishTakeInput(t)
  BY <1>2 DEF FinishTakeInput
<1>3. CASE FinishRecord(t)
  BY <1>3 DEF FinishRecord
<1>4. CASE FinishGoal(t)
  BY <1>4 DEF FinishGoal
<1>5. CASE FinishEvent(t)
  BY <1>5 DEF FinishEvent
<1>6. CASE FinishClear(t)
  BY <1>6 DEF FinishClear
<1> QED BY <1>1, <1>2, <1>3, <1>4, <1>5, <1>6 DEF FinishTask

\* dropping it,
LEMMA DropTaskEarly ==
    ASSUME IndInv, NEW t \in Turn, DropTask(t)
    PROVE  \A u \in Turn : Early(u)' => Early(u)
<1> USE DEF IndInv, TypeOK, LocalType, Early, turnVars, taskVars, localVars, allButPc, At, Goto,
        End, Resumes, ToolCall, GoalCandidate, GiveUpReservation, Ready, TakePending,
        DrainMail, Interrupted, FollowUpPc
<1> QED BY DEF DropTask

\* or an operation of the client.
LEMMA EnvironmentEarly ==
    ASSUME IndInv, LoopOp \/ ExtOp \/ CallStep
    PROVE  \A u \in Turn : Early(u)' => Early(u)
<1> USE DEF IndInv, TypeOK, LocalType, Early, turnVars, taskVars, localVars, allButPc, At, Goto,
        End, Resumes, ToolCall, GoalCandidate, GiveUpReservation, Ready, TakePending,
        DrainMail, Interrupted, FollowUpPc, TaskType
<1>1. ASSUME NEW i \in UserIn, SteerInput(i) PROVE \A u \in Turn : Early(u)' => Early(u)
  BY <1>1 DEF SteerInput
<1>2. ASSUME NEW i \in UserIn, LoopSteerRefused(i) PROVE \A u \in Turn : Early(u)' => Early(u)
  BY <1>2 DEF LoopSteerRefused
<1>3. ASSUME NEW i \in UserIn, LoopSpawnTurn(i) PROVE \A u \in Turn : Early(u)' => Early(u)
  <2>1. PICK t \in Turn : prog[t] = "none" /\ Spawn(t, "turn", {i})
    BY <1>3 DEF LoopSpawnTurn, Unused
  <2> QED BY <2>1 DEF Spawn
<1>4. ASSUME NEW program \in OtherProg, LoopSpawnOther(program) PROVE \A u \in Turn : Early(u)' => Early(u)
  <2>1. PICK t \in Turn : prog[t] = "none" /\ Spawn(t, program, {})
    BY <1>4 DEF LoopSpawnOther, Unused
  <2>2. program # "none"
    BY BoundsAssumption DEF OtherPrograms
  <2> QED BY <2>1, <2>2 DEF Spawn
<1>5. ASSUME NEW i \in MailIn, LoopMail(i) PROVE \A u \in Turn : Early(u)' => Early(u)
  BY <1>5 DEF LoopMail
<1>6. ASSUME NEW i \in QueueIn, LoopInject(i) PROVE \A u \in Turn : Early(u)' => Early(u)
  BY <1>6 DEF LoopInject
<1>7. ASSUME NEW i \in QueueIn, LoopInjectFails(i) PROVE \A u \in Turn : Early(u)' => Early(u)
  BY <1>7 DEF LoopInjectFails
<1>8. ASSUME NEW t \in Turn, LoopAnswer(t) PROVE \A u \in Turn : Early(u)' => Early(u)
  BY <1>8 DEF LoopAnswer
<1>9. CASE LoopInterrupt
  BY <1>9 DEF LoopInterrupt
<1>10. CASE LoopShutdown
  BY <1>10 DEF LoopShutdown
<1>11. CASE LoopQueue
  BY <1>11 DEF LoopQueue
<1>12. ASSUME NEW status \in GoalStatus, ExtWriteGoal(status) PROVE \A u \in Turn : Early(u)' => Early(u)
  BY <1>12 DEF ExtWriteGoal
<1>13. ASSUME NEW i \in ShellIn, ExtShellOutput(i) PROVE \A u \in Turn : Early(u)' => Early(u)
  BY <1>13 DEF ExtShellOutput
<1>14. CASE ExtResumeGoal
  BY <1>14 DEF ExtResumeGoal
<1>15. CASE ExtApplyGoal
  BY <1>15 DEF ExtApplyGoal
<1> QED BY <1>1, <1>2, <1>3, <1>4, <1>5, <1>6, <1>7, <1>8, <1>9, <1>10, <1>11, <1>12, <1>13,
   <1>14, <1>15 DEF LoopOp, ExtOp, CallStep

\* Writing the prompt puts it where no copy of it is.
LEMMA PushPromptItems ==
    ASSUME ItemInv, NEW p \in Actor, GoalPushPrompt(p)
    PROVE  ItemsSole' /\ PromptsFresh'
<1>10. PICK t : t = cur[p]
  OBVIOUS
<1>1. /\ IndInv /\ pc[p] = "g_push" /\ t \in Turn /\ hts[p] \in TS
      /\ pend \in [TS -> SUBSET Item]
      /\ pend' = [pend EXCEPT ![hts[p]] = @ \cup {t}]
      /\ pc' = [pc EXCEPT ![p] = "g_still"] /\ pc \in [Actor -> Pc]
      /\ UNCHANGED <<mail, idle, history, refused, unsent, inp, loc, prog, cur>>
  BY <1>10, StarterTurn DEF ItemInv, IndInv, TypeOK, TurnType, LocalType, GoalPushPrompt,
     At, Goto, StartsTurn, UsesState, queueVars, itemVars, taskVars, localVars
<1>2. Early(t)
  BY <1>10, <1>1 DEF Early
<1>3. Nowhere(t)
  BY <1>1, <1>2 DEF ItemInv, PromptsFresh
<1>4. ~Early(t)'
  <2>1. prog[t] # "none" /\ \A q \in Actor : q # p => cur[q] # t
    BY <1>10, <1>1, ActorsAssumption DEF IndInv, Control, Births
  <2> QED BY <1>10, <1>1, <2>1 DEF Early
<1>5. \A u \in Turn : Early(u)' => Early(u)
  BY <1>1, GoalContinueEarly DEF GoalContinue
<1>6. ASSUME NEW i \in Item, i # t PROVE (Sole(i) => Sole(i)') /\ (Nowhere(i) => Nowhere(i)')
  BY <1>1, <1>6 DEF Sole, SharedOnce, PendingOnce, OwnOnce, HeldOnce, Nowhere, NotShared,
     NotPending, NotOwn, NotHeld
<1>7. Sole(t)'
  BY <1>1, <1>3 DEF Sole, SharedOnce, PendingOnce, OwnOnce, HeldOnce, Nowhere, NotShared,
     NotPending, NotOwn, NotHeld
<1>8. ItemsSole'
  <2> SUFFICES ASSUME NEW i \in Item PROVE Sole(i)'
    BY DEF ItemsSole, Item, Submitted
  <2> QED BY <1>6, <1>7 DEF ItemInv, ItemsSole
<1>9. PromptsFresh'
  <2> SUFFICES ASSUME NEW u \in Turn, Early(u)' PROVE Nowhere(u)'
    BY DEF PromptsFresh
  <2>1. u # t /\ Early(u) /\ u \in Item
    BY <1>4, <1>5 DEF Item
  <2> QED BY <2>1, <1>6 DEF ItemInv, PromptsFresh
<1> QED BY <1>8, <1>9

\* Every step of the scheduler keeps the items apart.
LEMMA StepItems ==
    ASSUME ItemInv, Next
    PROVE  ItemsSole' /\ PromptsFresh'
<1> USE DEF ItemInv
<1>1. CASE \E p \in Actor : GoalPushPrompt(p)
  BY <1>1, PushPromptItems
<1>2. CASE ~(\E p \in Actor : GoalPushPrompt(p))
  <2>1. Conserves /\ \A u \in Turn : Early(u)' => Early(u)
    <3>1. CASE LoopOp \/ ExtOp \/ CallStep
      BY <3>1, EnvironmentConserves, EnvironmentEarly
    <3>2. ASSUME NEW p \in Actor, ActorStep(p)
          PROVE  Conserves /\ \A u \in Turn : Early(u)' => Early(u)
      BY <1>2, <3>2, StartTaskConserves, MaybeStartConserves, GoalContinueConserves,
         AbortConserves, StartTaskEarly, MaybeStartEarly, GoalContinueEarly, AbortEarly DEF
         ActorStep
    <3>3. ASSUME NEW t \in Turn, TaskStep(t)
          PROVE  Conserves /\ \A u \in Turn : Early(u)' => Early(u)
      BY <3>3, RunTaskConserves, FinishTaskConserves, DropTaskConserves, RunTaskEarly,
         FinishTaskEarly, DropTaskEarly DEF TaskStep
    <3> QED BY <3>1, <3>2, <3>3 DEF Next
  <2>2. \A i \in Item : (Sole(i) => Sole(i)') /\ (Nowhere(i) => Nowhere(i)')
    BY <2>1 DEF Conserves
  <2> QED BY <2>1, <2>2 DEF ItemsSole, PromptsFresh, Item
<1> QED BY <1>1, <1>2

\* An item that is in one container at most has one place at most.
LEMMA SoleHasOnePlace ==
    ASSUME IndInv, NEW i \in Item, Sole(i)
    PROVE  Cardinality(Places(i)) <= 1
<1> USE DEF Sole, SharedOnce, PendingOnce, OwnOnce, HeldOnce, NotShared, NotPending, NotOwn,
        NotHeld
<1>1. \E x : Places(i) \subseteq {x}
  <2>1. CASE i \in mail
    <3> Places(i) \subseteq {<<"mail">>}
      BY <2>1 DEF Places
    <3> QED OBVIOUS
  <2>2. CASE i \in idle
    <3> Places(i) \subseteq {<<"idle">>}
      BY <2>2 DEF Places
    <3> QED OBVIOUS
  <2>3. CASE i \in history
    <3> Places(i) \subseteq {<<"history">>}
      BY <2>3 DEF Places
    <3> QED OBVIOUS
  <2>4. CASE i \in refused
    <3> Places(i) \subseteq {<<"refused">>}
      BY <2>4 DEF Places
    <3> QED OBVIOUS
  <2>5. CASE i \in unsent
    <3> Places(i) \subseteq {<<"unsent">>}
      BY <2>5 DEF Places
    <3> QED OBVIOUS
  <2>6. ASSUME NEW s \in TS, i \in pend[s] PROVE \E x : Places(i) \subseteq {x}
    <3> Places(i) \subseteq {<<"pend", s>>}
      BY <2>6 DEF Places
    <3> QED OBVIOUS
  <2>7. ASSUME NEW t \in Turn, i \in inp[t] PROVE \E x : Places(i) \subseteq {x}
    <3> Places(i) \subseteq {<<"inp", t>>}
      BY <2>7 DEF Places
    <3> QED OBVIOUS
  <2>8. ASSUME NEW p \in Actor, i \in loc[p] PROVE \E x : Places(i) \subseteq {x}
    <3> Places(i) \subseteq {<<"loc", p>>}
      BY <2>8 DEF Places
    <3> QED OBVIOUS
  <2>9. CASE Nowhere(i)
    <3> Places(i) \subseteq {<<"mail">>}
      BY <2>9 DEF Places, Nowhere
    <3> QED OBVIOUS
  <2> QED BY <2>1, <2>2, <2>3, <2>4, <2>5, <2>6, <2>7, <2>8, <2>9 DEF Nowhere
<1>2. PICK x : Places(i) \subseteq {x}
  BY <1>1
<1>3. Places(i) = {} \/ Places(i) = {x}
  BY <1>2
<1>4. Cardinality({}) = 0 /\ Cardinality({x}) = 1
  BY FS_EmptySet, FS_Singleton
<1>5. CASE Places(i) = {}
  BY <1>4, <1>5
<1>6. CASE Places(i) = {x}
  <2>1. Cardinality(Places(i)) = 1
    BY <1>4, <1>6
  <2> QED BY <2>1
<1> QED BY <1>3, <1>5, <1>6

\* An item is in one container at most, always.
THEOREM ItemsInductive == Spec => []ItemInv
<1>1. Init => ItemsSole /\ PromptsFresh
  BY InputsAssumption DEF Init, ItemsSole, PromptsFresh, Sole, SharedOnce, PendingOnce,
     OwnOnce, HeldOnce, Nowhere, NotShared, NotPending, NotOwn, NotHeld, Submitted
<1>2. ItemInv /\ [Next]_vars => (ItemsSole /\ PromptsFresh)'
  <2> SUFFICES ASSUME ItemInv, [Next]_vars PROVE (ItemsSole /\ PromptsFresh)'
    OBVIOUS
  <2>1. CASE Next
    BY <2>1, StepItems
  <2>2. CASE UNCHANGED vars
    <3>1. UNCHANGED containers /\ UNCHANGED <<prog, cur, pc>>
      BY <2>2 DEF vars, allButPc, turnVars, queueVars, itemVars, taskVars, localVars,
         containers
    <3>2. Conserves
      BY <3>1, StillConserves
    <3> QED BY <3>1, <3>2 DEF Conserves, ItemInv, ItemsSole, PromptsFresh, Early, Item
  <2> QED BY <2>1, <2>2
<1> QED BY Inductive, <1>1, <1>2, PTL DEF Spec, ItemInv

\* Input is never duplicated, whoever starts, aborts and finishes turns at the
\* same time: an item is in one place at a time on its way from the caller to
\* the conversation (get_pending_input, prepend_pending_input,
\* on_task_finished, start_task), and a continuation prompt is written once.
THEOREM InputNotDuplicated == Spec => []NoDuplicate
<1>1. ItemInv => NoDuplicate
  BY SoleHasOnePlace DEF ItemInv, ItemsSole, NoDuplicate
<1> QED BY <1>1, ItemsInductive, PTL

----------------------------------------------------------------------------
(* Who holds the continuation permit *)

\* Labels at which an actor decides whether to continue the goal.
HoldsPermit == {"g_cand", "g_cand2", "g_reserve", "g_reread", "g_push", "g_still"}

\* Whoever decides to continue the goal, or starts the turn for it, holds the
\* permit; the continuation turn has been handed out.
DecidesAlone == \A p \in Actor : pc[p] \in HoldsPermit => permit = p
StartsAlone ==
    \A p \in Actor : cur[p] # NoTurn /\ cur[p] = contTurn => pc[p] \in StartPc /\ permit = p
ContinuesKnown == contTurn # NoTurn => prog[contTurn] # "none"

PermitSound == DecidesAlone /\ StartsAlone /\ ContinuesKnown
PermitInv == IndInv /\ PermitSound

\* A starter keeps the permit until its task is added.
LEMMA StartTaskPermit ==
    ASSUME PermitInv, NEW p \in Actor, StartTask(p)
    PROVE  PermitSound'
<1> USE DEF PermitInv, PermitSound, DecidesAlone, StartsAlone, ContinuesKnown, HoldsPermit,
        IndInv, TypeOK, TaskType, GoalType, LocalType, Control, Births, StartsTurn, StartPc,
        turnVars, taskVars, goalVars, localVars, allButPc, At, Goto, End, Resumes, ToolCall,
        GoalCandidate, GiveUpReservation, Ready, TakePending, DrainMail, Interrupted,
        FollowUpPc
<1>1. CASE StartTakeIdle(p)
  BY <1>1 DEF StartTakeIdle
<1>2. CASE StartTakePending(p)
  BY <1>2 DEF StartTakePending
<1>3. CASE StartDrainMail(p)
  BY <1>3 DEF StartDrainMail
<1>4. CASE StartLockState(p)
  BY <1>4 DEF StartLockState
<1>5. CASE StartPushInput(p)
  BY <1>5 DEF StartPushInput
<1>6. CASE StartAddTask(p)
  <2>1. cur[p] \in Turn
    BY <1>6, StarterTurn DEF StartAddTask
  <2> QED BY <1>6, <2>1 DEF StartAddTask
<1> QED BY <1>1, <1>2, <1>3, <1>4, <1>5, <1>6 DEF StartTask

\* A turn for pending work is not the continuation turn.
LEMMA MaybeStartPermit ==
    ASSUME PermitInv, NEW p \in Actor, MaybeStart(p)
    PROVE  PermitSound'
<1> USE DEF PermitInv, PermitSound, DecidesAlone, StartsAlone, ContinuesKnown, HoldsPermit,
        IndInv, TypeOK, TaskType, GoalType, LocalType, Control, Births, StartsTurn, StartPc,
        turnVars, taskVars, goalVars, localVars, allButPc, At, Goto, End, Resumes, ToolCall,
        GoalCandidate, GiveUpReservation, Ready, TakePending, DrainMail, Interrupted,
        FollowUpPc
<1>1. CASE MaybeCheckIdle(p)
  BY <1>1 DEF MaybeCheckIdle
<1>2. CASE MaybeCheckMail(p)
  BY <1>2 DEF MaybeCheckMail
<1>3. CASE MaybeReserve(p)
  <2>1. PICK u \in Turn : /\ prog[u] = "none"
                          /\ prog' = [prog EXCEPT ![u] = "turn"]
                          /\ cur' = [cur EXCEPT ![p] = u]
    BY <1>3 DEF MaybeReserve, Unused
  <2> QED BY <1>3, <2>1 DEF MaybeReserve
<1>4. CASE MaybeBusy(p)
  BY <1>4 DEF MaybeBusy
<1> QED BY <1>1, <1>2, <1>3, <1>4 DEF MaybeStart

\* A continuation takes the permit first and hands it to the starter.
LEMMA GoalContinuePermit ==
    ASSUME PermitInv, NEW p \in Actor, GoalContinue(p)
    PROVE  PermitSound'
<1> USE DEF PermitInv, PermitSound, DecidesAlone, StartsAlone, ContinuesKnown, HoldsPermit,
        IndInv, TypeOK, TaskType, GoalType, LocalType, Control, Births, StartsTurn, StartPc,
        turnVars, taskVars, goalVars, localVars, allButPc, At, Goto, End, Resumes, ToolCall,
        GoalCandidate, GiveUpReservation, Ready, TakePending, DrainMail, Interrupted,
        FollowUpPc
<1>1. CASE GoalAcquire(p)
  BY <1>1 DEF GoalAcquire
<1>2. CASE GoalCheck(p)
  BY <1>2 DEF GoalCheck
<1>3. CASE GoalRecheck(p)
  BY <1>3 DEF GoalRecheck
<1>4. CASE GoalReserve(p)
  <2>1. PICK u \in Turn : /\ prog[u] = "none"
                          /\ prog' = [prog EXCEPT ![u] = "turn"]
                          /\ cur' = [cur EXCEPT ![p] = u]
    BY <1>4 DEF GoalReserve, Unused
  <2> QED BY <1>4, <2>1 DEF GoalReserve
<1>5. CASE GoalBusy(p)
  BY <1>5 DEF GoalBusy
<1>6. CASE GoalReread(p)
  BY <1>6 DEF GoalReread
<1>7. CASE GoalPushPrompt(p)
  BY <1>7 DEF GoalPushPrompt
<1>8. CASE GoalStillReserved(p)
  BY <1>8 DEF GoalStillReserved
<1> QED BY <1>1, <1>2, <1>3, <1>4, <1>5, <1>6, <1>7, <1>8 DEF GoalContinue

\* An abort at most forgets the continuation turn.
LEMMA AbortPermit ==
    ASSUME PermitInv, NEW p \in Actor, Abort(p)
    PROVE  PermitSound'
<1> USE DEF PermitInv, PermitSound, DecidesAlone, StartsAlone, ContinuesKnown, HoldsPermit,
        IndInv, TypeOK, TaskType, GoalType, LocalType, Control, Births, StartsTurn, StartPc,
        turnVars, taskVars, goalVars, localVars, allButPc, At, Goto, End, Resumes, ToolCall,
        GoalCandidate, GiveUpReservation, Ready, TakePending, DrainMail, Interrupted,
        FollowUpPc,
        TakeTurn, NextHeld, AfterGoal
<1>1. CASE AbortTake(p)
  BY <1>1 DEF AbortTake
<1>2. CASE AbortCancel(p)
  BY <1>2 DEF AbortCancel
<1>3. CASE AbortKill(p)
  BY <1>3 DEF AbortKill
<1>4. CASE AbortEvent(p)
  BY <1>4 DEF AbortEvent
<1>5. CASE AbortGoal(p)
  BY <1>5 DEF AbortGoal
<1>6. CASE AbortPauseGoal(p)
  BY <1>6 DEF AbortPauseGoal
<1>7. CASE AbortClear(p)
  BY <1>7 DEF AbortClear
<1> QED BY <1>1, <1>2, <1>3, <1>4, <1>5, <1>6, <1>7 DEF Abort

\* A running task does not touch the permit.
LEMMA RunTaskPermit ==
    ASSUME PermitInv, NEW t \in Turn, RunTask(t)
    PROVE  PermitSound'
<1> USE DEF PermitInv, PermitSound, DecidesAlone, StartsAlone, ContinuesKnown, HoldsPermit,
        IndInv, TypeOK, TaskType, GoalType, LocalType, Control, Births, StartsTurn, StartPc,
        turnVars, taskVars, goalVars, localVars, allButPc, At, Goto, End, Resumes, ToolCall,
        GoalCandidate, GiveUpReservation, Ready, TakePending, DrainMail, Interrupted,
        FollowUpPc
<1>1. CASE TurnNoWork(t)
  BY <1>1 DEF TurnNoWork
<1>2. CASE TurnCancelledEarly(t)
  BY <1>2 DEF TurnCancelledEarly
<1>3. CASE TurnRefuse(t)
  BY <1>3 DEF TurnRefuse
<1>4. CASE TurnRecordInput(t)
  BY <1>4 DEF TurnRecordInput
<1>5. CASE TurnDrain(t)
  BY <1>5 DEF TurnDrain
<1>6. CASE TurnDrainMail(t)
  BY <1>6 DEF TurnDrainMail
<1>7. CASE TurnHookAccepts(t)
  BY <1>7 DEF TurnHookAccepts
<1>8. CASE TurnHookBlocks(t)
  <2>1. PICK l \in {"t_record", "t_drain", "t_loop"} : Goto(t, l)
    BY <1>8 DEF TurnHookBlocks
  <2> QED BY <1>8, <2>1 DEF TurnHookBlocks
<1>9. CASE TurnRecordPending(t)
  BY <1>9 DEF TurnRecordPending
<1>10. CASE TurnTool(t)
  BY <1>10 DEF TurnTool
<1>11. CASE TurnToolAsks(t)
  BY <1>11 DEF TurnToolAsks
<1>12. CASE TurnCreatesGoal(t)
  BY <1>12 DEF TurnCreatesGoal
<1>13. CASE TurnCompletesGoal(t)
  BY <1>13 DEF TurnCompletesGoal
<1>14. CASE TurnDenied(t)
  BY <1>14 DEF TurnDenied
<1>15. CASE TurnAsk(t)
  BY <1>15 DEF TurnAsk
<1>16. CASE TurnAnswered(t)
  BY <1>16 DEF TurnAnswered
<1>17. CASE TurnFinal(t)
  BY <1>17 DEF TurnFinal
<1>18. CASE TurnFollowUp(t)
  BY <1>18 DEF TurnFollowUp
<1>19. CASE TurnError(t)
  BY <1>19 DEF TurnError
<1>20. CASE TurnPost(t)
  BY <1>20 DEF TurnPost
<1>21. CASE TurnStopHookBlocks(t)
  BY <1>21 DEF TurnStopHookBlocks
<1>22. CASE TurnLoop(t)
  BY <1>22 DEF TurnLoop
<1>23. CASE OtherRun(t)
  BY <1>23 DEF OtherRun
<1>24. CASE TaskEnd(t)
  BY <1>24 DEF TaskEnd
<1> QED BY <1>1, <1>2, <1>3, <1>4, <1>5, <1>6, <1>7, <1>8, <1>9, <1>10, <1>11, <1>12, <1>13,
   <1>14, <1>15, <1>16, <1>17, <1>18, <1>19, <1>20, <1>21, <1>22, <1>23, <1>24 DEF RunTask

\* A finishing task at most forgets the continuation turn.
LEMMA FinishTaskPermit ==
    ASSUME PermitInv, NEW t \in Turn, FinishTask(t)
    PROVE  PermitSound'
<1> USE DEF PermitInv, PermitSound, DecidesAlone, StartsAlone, ContinuesKnown, HoldsPermit,
        IndInv, TypeOK, TaskType, GoalType, LocalType, Control, Births, StartsTurn, StartPc,
        turnVars, taskVars, goalVars, localVars, allButPc, At, Goto, End, Resumes, ToolCall,
        GoalCandidate, GiveUpReservation, Ready, TakePending, DrainMail, Interrupted,
        FollowUpPc
<1>1. CASE FinishRemove(t)
  BY <1>1 DEF FinishRemove
<1>2. CASE FinishTakeInput(t)
  BY <1>2 DEF FinishTakeInput
<1>3. CASE FinishRecord(t)
  BY <1>3 DEF FinishRecord
<1>4. CASE FinishGoal(t)
  BY <1>4 DEF FinishGoal
<1>5. CASE FinishEvent(t)
  BY <1>5 DEF FinishEvent
<1>6. CASE FinishClear(t)
  BY <1>6 DEF FinishClear
<1> QED BY <1>1, <1>2, <1>3, <1>4, <1>5, <1>6 DEF FinishTask

\* A dropped task drops its permit.
LEMMA DropTaskPermit ==
    ASSUME PermitInv, NEW t \in Turn, DropTask(t)
    PROVE  PermitSound'
<1> USE DEF PermitInv, PermitSound, DecidesAlone, StartsAlone, ContinuesKnown, HoldsPermit,
        IndInv, TypeOK, TaskType, GoalType, LocalType, Control, Births, StartsTurn, StartPc,
        turnVars, taskVars, goalVars, localVars, allButPc, At, Goto, End, Resumes, ToolCall,
        GoalCandidate, GiveUpReservation, Ready, TakePending, DrainMail, Interrupted,
        FollowUpPc
<1> QED BY DEF DropTask

\* An operation of the client does not touch the permit.
LEMMA EnvironmentPermit ==
    ASSUME PermitInv, LoopOp \/ ExtOp \/ CallStep
    PROVE  PermitSound'
<1> USE DEF PermitInv, PermitSound, DecidesAlone, StartsAlone, ContinuesKnown, HoldsPermit,
        IndInv, TypeOK, TaskType, GoalType, LocalType, Control, Births, StartsTurn, StartPc,
        turnVars, taskVars, goalVars, localVars, allButPc, At, Goto, End, Resumes, ToolCall,
        GoalCandidate, GiveUpReservation, Ready, TakePending, DrainMail, Interrupted,
        FollowUpPc
<1>1. ASSUME NEW i \in UserIn, SteerInput(i) PROVE PermitSound'
  BY <1>1 DEF SteerInput
<1>2. ASSUME NEW i \in UserIn, LoopSteerRefused(i) PROVE PermitSound'
  BY <1>2 DEF LoopSteerRefused
<1>3. ASSUME NEW i \in UserIn, LoopSpawnTurn(i) PROVE PermitSound'
  <2>1. PICK t \in Turn : prog[t] = "none" /\ Spawn(t, "turn", {i})
    BY <1>3 DEF LoopSpawnTurn, Unused
  <2> QED BY <1>3, <2>1 DEF LoopSpawnTurn, Spawn
<1>4. ASSUME NEW program \in OtherProg, LoopSpawnOther(program) PROVE PermitSound'
  <2>1. PICK t \in Turn : prog[t] = "none" /\ Spawn(t, program, {})
    BY <1>4 DEF LoopSpawnOther, Unused
  <2>2. program # "none"
    BY BoundsAssumption DEF OtherPrograms
  <2> QED BY <1>4, <2>1, <2>2 DEF LoopSpawnOther, Spawn
<1>5. ASSUME NEW i \in MailIn, LoopMail(i) PROVE PermitSound'
  BY <1>5 DEF LoopMail
<1>6. ASSUME NEW i \in QueueIn, LoopInject(i) PROVE PermitSound'
  BY <1>6 DEF LoopInject
<1>7. ASSUME NEW i \in QueueIn, LoopInjectFails(i) PROVE PermitSound'
  BY <1>7 DEF LoopInjectFails
<1>8. ASSUME NEW t \in Turn, LoopAnswer(t) PROVE PermitSound'
  BY <1>8 DEF LoopAnswer
<1>9. CASE LoopInterrupt
  BY <1>9 DEF LoopInterrupt
<1>10. CASE LoopShutdown
  BY <1>10 DEF LoopShutdown
<1>11. CASE LoopQueue
  BY <1>11 DEF LoopQueue
<1>12. ASSUME NEW status \in GoalStatus, ExtWriteGoal(status) PROVE PermitSound'
  BY <1>12 DEF ExtWriteGoal
<1>13. ASSUME NEW i \in ShellIn, ExtShellOutput(i) PROVE PermitSound'
  BY <1>13 DEF ExtShellOutput
<1>14. CASE ExtResumeGoal
  BY <1>14 DEF ExtResumeGoal
<1>15. CASE ExtApplyGoal
  BY <1>15 DEF ExtApplyGoal
<1> QED BY <1>1, <1>2, <1>3, <1>4, <1>5, <1>6, <1>7, <1>8, <1>9, <1>10, <1>11, <1>12, <1>13,
   <1>14, <1>15 DEF LoopOp, ExtOp, CallStep

\* PermitSound holds always: one actor at a time continues the goal.
THEOREM PermitInductive == Spec => []PermitInv
<1>1. Init => PermitSound
  BY DEF Init, PermitSound, DecidesAlone, StartsAlone, ContinuesKnown, HoldsPermit
<1>2. PermitInv /\ [Next]_vars => PermitSound'
  <2> SUFFICES ASSUME PermitInv, [Next]_vars PROVE PermitSound'
    OBVIOUS
  <2>1. CASE LoopOp \/ ExtOp \/ CallStep
    BY <2>1, EnvironmentPermit
  <2>2. ASSUME NEW p \in Actor, ActorStep(p) PROVE PermitSound'
    BY <2>2, StartTaskPermit, MaybeStartPermit, GoalContinuePermit, AbortPermit DEF ActorStep
  <2>3. ASSUME NEW t \in Turn, TaskStep(t) PROVE PermitSound'
    BY <2>3, RunTaskPermit, FinishTaskPermit, DropTaskPermit DEF TaskStep
  <2>4. CASE UNCHANGED vars
    BY <2>4 DEF vars, allButPc, taskVars, goalVars, localVars, PermitInv, PermitSound,
       DecidesAlone, StartsAlone, ContinuesKnown
  <2> QED BY <2>1, <2>2, <2>3, <2>4 DEF Next
<1> QED BY Inductive, <1>1, <1>2, PTL DEF Spec, PermitInv

\* The goal becomes paused by an interrupt or by a client that writes it.
LEMMA PauseKinds ==
    ASSUME Next, goal' = "paused", goal # "paused"
    PROVE  \/ \E p \in Actor : AbortPauseGoal(p)
           \/ \E status \in GoalStatus : ExtWriteGoal(status)
<1> USE DEF goalVars, allButPc, ToolCall
<1>1. CASE LoopOp \/ ExtOp \/ CallStep
  BY <1>1 DEF LoopOp, ExtOp, CallStep, LoopSteerRefused, LoopSpawnTurn, LoopSpawnOther,
     Spawn, LoopMail, LoopInject, LoopInjectFails, LoopQueue, LoopAnswer, LoopInterrupt,
     LoopShutdown, SteerInput, ExtShellOutput, ExtApplyGoal, ExtResumeGoal
<1>2. ASSUME NEW p \in Actor, ActorStep(p), ~AbortPauseGoal(p) PROVE FALSE
  <2>1. CASE StartTask(p) \/ MaybeStart(p)
    BY <2>1 DEF StartTask, MaybeStart, StartTakeIdle, StartTakePending, StartDrainMail,
       StartLockState, StartPushInput, StartAddTask, MaybeCheckIdle, MaybeCheckMail,
       MaybeReserve, MaybeBusy
  <2>2. CASE GoalContinue(p)
    BY <2>2 DEF GoalContinue, GoalAcquire, GoalCheck, GoalRecheck, GoalCandidate,
       GoalReserve, GoalBusy, GoalReread, GoalPushPrompt, GoalStillReserved
  <2>3. CASE Abort(p)
    BY <1>2, <2>3 DEF Abort, AbortTake, AbortCancel, AbortKill, AbortEvent, AbortGoal,
       Accounted, AbortClear
  <2> QED BY <1>2, <2>1, <2>2, <2>3 DEF ActorStep
<1>3. ASSUME NEW t \in Turn, TaskStep(t) PROVE FALSE
  <2>1. CASE RunTask(t)
    BY <2>1 DEF RunTask, TurnNoWork, TurnCancelledEarly, TurnRefuse, TurnRecordInput,
       TurnDrain, TurnDrainMail, TurnHookAccepts, TurnHookBlocks, TurnRecordPending,
       TurnTool, TurnToolAsks, TurnCreatesGoal, TurnCompletesGoal, TurnDenied, TurnAsk,
       TurnAnswered, TurnFinal, TurnFollowUp, TurnError, TurnPost, TurnStopHookBlocks,
       TurnLoop, OtherRun, TaskEnd
  <2>2. CASE FinishTask(t) \/ DropTask(t)
    BY <2>2 DEF FinishTask, FinishRemove, FinishTakeInput, FinishRecord, FinishGoal,
       Accounted, FinishEvent, FinishClear, DropTask
  <2> QED BY <1>3, <2>1, <2>2 DEF TaskStep
<1> QED BY <1>1, <1>2, <1>3 DEF Next

\* While the permit is free, no turn is being started for the goal.
LEMMA FreePermit ==
    ASSUME PermitInv, permit = NoTurn
    PROVE  Launching = {}
  BY DEF PermitInv, PermitSound, DecidesAlone, StartsAlone, HoldsPermit, IndInv, Control,
     Births, StartsTurn, Launching

\* An interrupt never pauses the goal while a turn is being started for it
\* (pause_active_thread_goal_for_interrupt waits for continuation_lock, which
\* maybe_start_goal_continuation_turn keeps until start_task has added the
\* task).
THEOREM PauseWaits == Spec => PauseExcludesLaunch
<1> DEFINE A == (goal' = "paused" /\ \E p \in Actor : At(p, "a_pause") /\ pc'[p] # "a_pause")
                   => goal = "paused" \/ Launching = {}
<1>1. PermitInv /\ [Next]_vars => [A]_vars
  <2> SUFFICES ASSUME PermitInv, Next, goal' = "paused", goal # "paused",
                      NEW q \in Actor, At(q, "a_pause"), pc'[q] # "a_pause"
               PROVE  Launching = {}
    OBVIOUS
  <2>1. CASE \E p \in Actor : AbortPauseGoal(p)
    <3>1. goal = "active"
      BY <2>1 DEF AbortPauseGoal
    <3>2. permit = NoTurn
      BY <2>1, <3>1 DEF AbortPauseGoal
    <3> QED BY <3>2, FreePermit
  <2>2. ASSUME NEW status \in GoalStatus, ExtWriteGoal(status) PROVE FALSE
    BY <2>2 DEF ExtWriteGoal, At, Goto
  <2> QED BY <2>1, <2>2, PauseKinds
<1> QED BY <1>1, PermitInductive, PTL DEF Spec, PauseExcludesLaunch

----------------------------------------------------------------------------
(* The continuation permit is not leaked *)

\* Labels at which an actor may hold the permit.
PermitPc == HoldsPermit \cup StartPc

\* A permit that is taken is in the hands of an actor that decides about a
\* continuation or starts its turn, never of one that has returned or died.
PermitHeld == permit # NoTurn => pc[permit] \in PermitPc

\* The step of actor p leaves a permit that is taken in such hands.
HandsOn(p) ==
    /\ \A q \in Actor : q # p => pc'[q] = pc[q] \/ pc[q] \notin PermitPc
    /\ \/ permit' = NoTurn
       \/ permit' = p /\ pc'[p] \in PermitPc
       \/ permit' = permit /\ permit # p
       \/ permit' = permit /\ pc[p] \notin PermitPc

\* A permit that is handed on is not leaked.
LEMMA HandsOnPermit ==
    ASSUME IndInv, PermitHeld, NEW p \in Actor, HandsOn(p)
    PROVE  PermitHeld'
  BY DEF PermitHeld, HandsOn, IndInv, TypeOK, GoalType

\* Starting, looking for work and continuing the goal hand the permit on.
LEMMA ActorHandsOn ==
    ASSUME IndInv, NEW p \in Actor, ActorStep(p)
    PROVE  HandsOn(p)
<1> USE DEF At, Goto, goalVars, localVars, allButPc, PermitPc, HoldsPermit, StartPc, HandsOn
<1>1. pc \in [Actor -> Pc]
  BY DEF IndInv, TypeOK, LocalType
<1>2. CASE StartTask(p)
  <2>1. CASE StartTakeIdle(p) \/ StartTakePending(p) \/ StartDrainMail(p)
    BY <1>1, <2>1 DEF StartTakeIdle, StartTakePending, StartDrainMail, TakePending, DrainMail
  <2>2. CASE StartLockState(p) \/ StartPushInput(p)
    BY <1>1, <2>2 DEF StartLockState, StartPushInput
  <2>3. CASE StartAddTask(p)
    <3>1. cur[p] \in Turn /\ pc[cur[p]] = "unborn"
      BY <2>3, StarterTurn DEF StartAddTask, StartsTurn, IndInv, Control, Births
    <3> QED BY <1>1, <2>3, <3>1 DEF StartAddTask
  <2> QED BY <1>2, <2>1, <2>2, <2>3 DEF StartTask
<1>3. CASE MaybeStart(p)
  BY <1>1, <1>3 DEF MaybeStart, MaybeCheckIdle, MaybeCheckMail, MaybeReserve, MaybeBusy
<1>4. CASE GoalContinue(p)
  <2>1. CASE GoalAcquire(p) \/ GoalCheck(p) \/ GoalRecheck(p) \/ GoalReserve(p) \/ GoalBusy(p)
    BY <1>1, <2>1 DEF GoalAcquire, GoalCheck, GoalRecheck, GoalCandidate, GoalReserve, GoalBusy
  <2>2. CASE GoalReread(p) \/ GoalPushPrompt(p) \/ GoalStillReserved(p)
    BY <1>1, <2>2 DEF GoalReread, GoalPushPrompt, GoalStillReserved, GiveUpReservation
  <2> QED BY <1>4, <2>1, <2>2 DEF GoalContinue
<1>5. CASE Abort(p)
  <2>1. pc[p] \notin PermitPc /\ permit' = permit
    BY <1>5 DEF Abort, AbortTake, AbortCancel, AbortKill, AbortEvent, AbortGoal, AbortPauseGoal,
       AbortClear
  <2>2. \A q \in Actor : q # p => pc'[q] = pc[q]
    BY <1>1, <1>5 DEF Abort, AbortTake, TakeTurn, AbortCancel, AbortKill, AbortEvent, AbortGoal,
       AbortPauseGoal, AbortClear
  <2> QED BY <2>1, <2>2
<1> QED BY <1>2, <1>3, <1>4, <1>5 DEF ActorStep

\* A task that runs or finishes holds no permit; one that is dropped gives it up.
LEMMA TaskHandsOn ==
    ASSUME IndInv, NEW t \in Turn, TaskStep(t)
    PROVE  PermitHeld => PermitHeld'
<1> USE DEF At, Goto, taskVars, goalVars, localVars, allButPc
<1>1. pc \in [Actor -> Pc] /\ permit \in Actor \cup {NoTurn}
  BY DEF IndInv, TypeOK, LocalType, GoalType
<1>2. CASE DropTask(t)
  BY <1>1, <1>2 DEF DropTask, PermitHeld
<1>3. ASSUME permit' = permit, pc[t] \in RunPc \cup FinishPc,
             \A q \in Actor : q # t => pc'[q] = pc[q] \/ pc[q] = "idle"
      PROVE  PermitHeld => PermitHeld'
  BY <1>1, <1>3 DEF PermitHeld, PermitPc, HoldsPermit, StartPc, RunPc, FinishPc
<1>4. CASE RunTask(t)
  <2>1. permit' = permit
    BY <1>4 DEF RunTask, TurnNoWork, TurnCancelledEarly, TurnRefuse, TurnRecordInput, TurnDrain,
       TurnDrainMail, TurnHookAccepts, TurnHookBlocks, TurnRecordPending, TurnTool,
       TurnToolAsks, TurnCreatesGoal, TurnCompletesGoal, TurnDenied, TurnAsk, TurnAnswered,
       TurnFinal, TurnFollowUp, TurnError, TurnPost, TurnStopHookBlocks, TurnLoop, OtherRun,
       TaskEnd
  <2>2. pc[t] \in RunPc
    BY <1>4 DEF RunPc, RunTask, TurnNoWork, TurnCancelledEarly, TurnRefuse, TurnRecordInput,
       TurnDrain, TurnDrainMail, TurnHookAccepts, TurnHookBlocks, TurnRecordPending, TurnTool,
       TurnToolAsks, TurnCreatesGoal, TurnCompletesGoal, TurnDenied, ToolCall, Resumes, TurnAsk,
       TurnAnswered, TurnFinal, TurnFollowUp, TurnError, TurnPost, TurnStopHookBlocks, TurnLoop,
       OtherRun, TaskEnd
  <2>3. \A q \in Actor : q # t => pc'[q] = pc[q] \/ pc[q] = "idle"
    <3>1. CASE TurnDenied(t)
      BY <1>1, <3>1 DEF TurnDenied
    <3>2. CASE TurnNoWork(t) \/ TurnCancelledEarly(t) \/ TurnRefuse(t) \/ TurnRecordInput(t)
                 \/ TurnDrain(t) \/ TurnDrainMail(t) \/ TurnHookAccepts(t) \/ TurnHookBlocks(t)
                 \/ TurnRecordPending(t)
      BY <1>1, <3>2 DEF TurnNoWork, TurnCancelledEarly, TurnRefuse, TurnRecordInput, TurnDrain,
         TurnDrainMail, TakePending, DrainMail, TurnHookAccepts, TurnHookBlocks,
         TurnRecordPending
    <3>3. CASE TurnTool(t) \/ TurnToolAsks(t) \/ TurnCreatesGoal(t) \/ TurnCompletesGoal(t)
                 \/ TurnAsk(t) \/ TurnAnswered(t) \/ TurnFinal(t) \/ TurnFollowUp(t)
                 \/ TurnError(t) \/ TurnPost(t) \/ TurnStopHookBlocks(t) \/ TurnLoop(t)
                 \/ OtherRun(t) \/ TaskEnd(t)
      BY <1>1, <3>3 DEF TurnTool, TurnToolAsks, TurnCreatesGoal, TurnCompletesGoal, TurnAsk,
         TurnAnswered, TurnFinal, TurnFollowUp, TurnError, TurnPost, TurnStopHookBlocks,
         TurnLoop, OtherRun, TaskEnd
    <3> QED BY <1>4, <3>1, <3>2, <3>3 DEF RunTask
  <2> QED BY <1>3, <2>1, <2>2, <2>3
<1>5. CASE FinishTask(t)
  <2>1. /\ permit' = permit /\ pc[t] \in FinishPc
        /\ \A q \in Actor : q # t => pc'[q] = pc[q]
    BY <1>1, <1>5 DEF FinishTask, FinishRemove, FinishTakeInput, FinishRecord, FinishGoal,
       FinishEvent, FinishClear, FinishPc
  <2> QED BY <1>3, <2>1
<1> QED BY <1>2, <1>4, <1>5 DEF TaskStep

\* The operations of the client are not for actors that hold the permit.
LEMMA EnvironmentHandsOn ==
    ASSUME IndInv, LoopOp \/ ExtOp \/ CallStep
    PROVE  PermitHeld => PermitHeld'
<1> USE DEF At, Goto, Ready, goalVars
<1>1. pc \in [Actor -> Pc] /\ permit \in Actor \cup {NoTurn}
  BY DEF IndInv, TypeOK, LocalType, GoalType
<1>2. permit' = permit
  BY DEF LoopOp, ExtOp, CallStep, LoopSteerRefused, LoopSpawnTurn, LoopSpawnOther, Spawn,
     LoopMail,
     LoopInject, LoopInjectFails, LoopQueue, LoopAnswer, LoopInterrupt, LoopShutdown, SteerInput,
     ExtShellOutput, ExtWriteGoal, ExtApplyGoal, ExtResumeGoal
<1>3. \A q \in Actor : pc'[q] = pc[q] \/ pc[q] \in {"idle", "q_queue", "e_apply"}
  <2>1. CASE LoopOp
    BY <1>1, <2>1 DEF LoopOp, LoopSteerRefused, LoopSpawnTurn, LoopSpawnOther, Spawn, LoopMail,
       LoopInject, LoopInjectFails, LoopAnswer, LoopInterrupt, LoopShutdown
  <2>2. CASE ExtOp \/ CallStep
    BY <1>1, <2>2 DEF ExtOp, CallStep, LoopQueue, SteerInput, ExtShellOutput, ExtWriteGoal,
       ExtApplyGoal, ExtResumeGoal
  <2> QED BY <2>1, <2>2
<1> QED BY <1>1, <1>2, <1>3 DEF PermitHeld, PermitPc, HoldsPermit, StartPc

\* An interrupt that waits for the continuation permit waits for somebody who
\* goes on: whichever early return a continuation takes, and however the task
\* that holds the permit is aborted, the permit comes back
\* (maybe_start_goal_continuation_turn, pause_active_thread_goal_for_interrupt).
THEOREM PermitNotLeaked == Spec => []PermitHeld
<1>1. Init => PermitHeld
  BY DEF Init, PermitHeld
<1>2. IndInv /\ PermitHeld /\ [Next]_vars => PermitHeld'
  <2> SUFFICES ASSUME IndInv, PermitHeld, [Next]_vars PROVE PermitHeld'
    OBVIOUS
  <2>1. ASSUME NEW p \in Actor, ActorStep(p) PROVE PermitHeld'
    BY <2>1, ActorHandsOn, HandsOnPermit
  <2>2. CASE UNCHANGED vars
    BY <2>2 DEF vars, allButPc, goalVars, PermitHeld
  <2> QED BY <2>1, <2>2, TaskHandsOn, EnvironmentHandsOn DEF Next
<1> QED BY Inductive, <1>1, <1>2, PTL DEF Spec

----------------------------------------------------------------------------
(* Steering a turn that is finishing *)

\* Only the submission loop starts turns: there is no mail, nothing is queued
\* for the next turn and there is no goal.
LoopOnly == MailIn = {} /\ QueueIn = {} /\ MaxGoalSets = 0

\* Then no actor gets to where it would start a turn for pending work or for
\* the goal.
Starts == {"m_reserve", "g_cand2", "g_reserve", "g_reread", "g_push", "g_still"}
NoOtherStarter ==
    /\ mail = {} /\ idle = {} /\ goal = "none" /\ pc[Loop] # "q_queue"
    /\ \A p \in Actor : pc[p] \notin Starts
    /\ \A p \in Actor : cur[p] # NoTurn => p = Loop

\* An abort has taken the active turn, and the loop makes its own only with the
\* first lock of start_task.
Winding == AbortPc \ {"a_take"}
Cleans == Winding \cup {"s_idle", "s_pend", "s_mail", "s_lock1"}
Cleared == pc[Loop] \in Cleans => ~Some
LoopStarts == cur[Loop] # NoTurn => pc[Loop] \in AbortPc \cup StartPc

\* A turn state was made for a turn that has begun or that the loop is starting,
\* so the loop never makes one that an abort still refers to.
Origin ==
    Some => \/ pc[active.ts[1]] # "unborn"
            \/ active.tasks = {} /\ active.ts[1] = cur[Loop]
Apart ==
    \A p \in Actor : pc[p] \in Winding /\ hts[p] # NoTS =>
        pc[hts[p][1]] # "unborn" /\ hts[p] # active.ts
Labels == Cleared /\ LoopStarts /\ Origin /\ Apart

\* User input is in the variables of a task only between taking and recording
\* it, and in a regular turn that has not begun or that an abort has cancelled.
HoldPcs == {"t_mail", "t_hook", "t_record", "f_record"}
HandsEmpty ==
    /\ \A p \in Actor : loc[p] \cap UserIn # {} => p \in Turn /\ pc[p] \in HoldPcs
    /\ \A t \in Turn : inp[t] # {} =>
          prog[t] = "turn" /\ (pc[t] \in {"unborn", "t_run"} \/ t \in cancelled)

\* What an aborted task has, and what is left in the turn it ran in, is noted.
TasksNoted == \A t \in Turn : Aborted(t) => (inp[t] \cup loc[t]) \cap UserIn \subseteq taken
BuffersNoted ==
    \A p \in Actor : pc[p] \in Winding /\ hts[p] # NoTS =>
        pend[hts[p]] \cap UserIn \subseteq taken

\* Other user input is buffered in the turn of a running task, or the last task
\* of its turn is about to take it.
Reader(t, s) == pc[t] = "f_take" /\ hts[t] = s /\ ~Aborted(t)
BufferRead ==
    \A s \in TS : \A i \in pend[s] \cap UserIn :
        \/ i \in taken
        \/ s = active.ts /\ active.tasks # {}
        \/ \E t \in Turn : Reader(t, s)

\* And none of it has vanished.
NoneVanished == \A i \in UserIn : Nowhere(i) => i \in taken

Kept == Labels /\ HandsEmpty /\ TasksNoted /\ BuffersNoted /\ BufferRead /\ NoneVanished
SteerInv == IndInv /\ NoOtherStarter /\ Kept

\* The client sets no goal.
LEMMA NoGoalSets ==
    ASSUME LoopOnly, SteerInv
    PROVE  ~(bounds.goals < MaxGoalSets)
<1>1. bounds.goals \in 0..0
  BY DEF LoopOnly, SteerInv, IndInv, TypeOK, GoalType
<1> QED BY <1>1 DEF LoopOnly

\* No step gives anybody else a reason to start a turn: starting a task,
LEMMA StartTaskAlone ==
    ASSUME LoopOnly, SteerInv, NEW p \in Actor, StartTask(p)
    PROVE  NoOtherStarter'
<1> USE DEF SteerInv, NoOtherStarter, Starts,
        IndInv, TypeOK, GoalType, LocalType, Control, Births, StartsTurn, StartPc,
        queueVars, localVars, goalVars, allButPc, At, Goto, End, Resumes, ToolCall,
        GoalCandidate, GiveUpReservation, Ready, TakePending, DrainMail, Interrupted,
        FollowUpPc
<1>1. CASE StartTakeIdle(p)
  BY <1>1 DEF StartTakeIdle
<1>2. CASE StartTakePending(p)
  BY <1>2 DEF StartTakePending
<1>3. CASE StartDrainMail(p)
  BY <1>3 DEF StartDrainMail
<1>4. CASE StartLockState(p)
  BY <1>4 DEF StartLockState
<1>5. CASE StartPushInput(p)
  BY <1>5 DEF StartPushInput
<1>6. CASE StartAddTask(p)
  <2>1. cur[p] \in Turn
    BY <1>6, StarterTurn DEF StartAddTask
  <2> QED BY <1>6, <2>1 DEF StartAddTask
<1> QED BY <1>1, <1>2, <1>3, <1>4, <1>5, <1>6 DEF StartTask

\* looking for pending work,
LEMMA MaybeStartAlone ==
    ASSUME LoopOnly, SteerInv, NEW p \in Actor, MaybeStart(p)
    PROVE  NoOtherStarter'
<1> USE DEF SteerInv, NoOtherStarter, Starts,
        IndInv, TypeOK, GoalType, LocalType, Control, Births, StartsTurn, StartPc,
        queueVars, localVars, goalVars, allButPc, At, Goto, End, Resumes, ToolCall,
        GoalCandidate, GiveUpReservation, Ready, TakePending, DrainMail, Interrupted,
        FollowUpPc, HasTriggerMail
<1>1. CASE MaybeCheckIdle(p)
  BY <1>1 DEF MaybeCheckIdle
<1>2. CASE MaybeCheckMail(p)
  BY <1>2 DEF MaybeCheckMail
<1>3. CASE MaybeReserve(p)
  BY <1>3 DEF MaybeReserve
<1>4. CASE MaybeBusy(p)
  BY <1>4 DEF MaybeBusy
<1> QED BY <1>1, <1>2, <1>3, <1>4 DEF MaybeStart

\* continuing a goal,
LEMMA GoalContinueAlone ==
    ASSUME LoopOnly, SteerInv, NEW p \in Actor, GoalContinue(p)
    PROVE  NoOtherStarter'
<1> USE DEF SteerInv, NoOtherStarter, Starts,
        IndInv, TypeOK, GoalType, LocalType, Control, Births, StartsTurn, StartPc,
        queueVars, localVars, goalVars, allButPc, At, Goto, End, Resumes, ToolCall,
        GoalCandidate, GiveUpReservation, Ready, TakePending, DrainMail, Interrupted,
        FollowUpPc
<1>1. CASE GoalAcquire(p)
  BY <1>1 DEF GoalAcquire
<1>2. CASE GoalCheck(p)
  BY <1>2 DEF GoalCheck
<1>3. CASE GoalRecheck(p)
  BY <1>3 DEF GoalRecheck
<1>4. CASE GoalReserve(p)
  BY <1>4 DEF GoalReserve
<1>5. CASE GoalBusy(p)
  BY <1>5 DEF GoalBusy
<1>6. CASE GoalReread(p)
  BY <1>6 DEF GoalReread
<1>7. CASE GoalPushPrompt(p)
  BY <1>7 DEF GoalPushPrompt
<1>8. CASE GoalStillReserved(p)
  BY <1>8 DEF GoalStillReserved
<1> QED BY <1>1, <1>2, <1>3, <1>4, <1>5, <1>6, <1>7, <1>8 DEF GoalContinue

\* aborting,
LEMMA AbortAlone ==
    ASSUME LoopOnly, SteerInv, NEW p \in Actor, Abort(p)
    PROVE  NoOtherStarter'
<1> USE DEF SteerInv, NoOtherStarter, Starts,
        IndInv, TypeOK, GoalType, LocalType, Control, Births, StartsTurn, StartPc,
        queueVars, localVars, goalVars, allButPc, At, Goto, End, Resumes, ToolCall,
        GoalCandidate, GiveUpReservation, Ready, TakePending, DrainMail, Interrupted,
        FollowUpPc,
        TakeTurn, NextHeld, AfterGoal, Accounted
<1>1. CASE AbortTake(p)
  BY <1>1 DEF AbortTake
<1>2. CASE AbortCancel(p)
  BY <1>2 DEF AbortCancel
<1>3. CASE AbortKill(p)
  BY <1>3 DEF AbortKill
<1>4. CASE AbortEvent(p)
  BY <1>4 DEF AbortEvent
<1>5. CASE AbortGoal(p)
  BY <1>5 DEF AbortGoal
<1>6. CASE AbortPauseGoal(p)
  BY <1>6 DEF AbortPauseGoal
<1>7. CASE AbortClear(p)
  BY <1>7 DEF AbortClear
<1> QED BY <1>1, <1>2, <1>3, <1>4, <1>5, <1>6, <1>7 DEF Abort

\* running a task,
LEMMA RunTaskAlone ==
    ASSUME LoopOnly, SteerInv, NEW t \in Turn, RunTask(t)
    PROVE  NoOtherStarter'
<1> USE DEF SteerInv, NoOtherStarter, Starts,
        IndInv, TypeOK, GoalType, LocalType, Control, Births, StartsTurn, StartPc,
        queueVars, localVars, goalVars, allButPc, At, Goto, End, Resumes, ToolCall,
        GoalCandidate, GiveUpReservation, Ready, TakePending, DrainMail, Interrupted,
        FollowUpPc
<1>1. CASE TurnNoWork(t)
  BY <1>1 DEF TurnNoWork
<1>2. CASE TurnCancelledEarly(t)
  BY <1>2 DEF TurnCancelledEarly
<1>3. CASE TurnRefuse(t)
  BY <1>3 DEF TurnRefuse
<1>4. CASE TurnRecordInput(t)
  BY <1>4 DEF TurnRecordInput
<1>5. CASE TurnDrain(t)
  BY <1>5 DEF TurnDrain
<1>6. CASE TurnDrainMail(t)
  BY <1>6 DEF TurnDrainMail
<1>7. CASE TurnHookAccepts(t)
  BY <1>7 DEF TurnHookAccepts
<1>8. CASE TurnHookBlocks(t)
  <2>1. PICK l \in {"t_record", "t_drain", "t_loop"} : Goto(t, l)
    BY <1>8 DEF TurnHookBlocks
  <2> QED BY <1>8, <2>1 DEF TurnHookBlocks
<1>9. CASE TurnRecordPending(t)
  BY <1>9 DEF TurnRecordPending
<1>10. CASE TurnTool(t)
  BY <1>10 DEF TurnTool
<1>11. CASE TurnToolAsks(t)
  BY <1>11 DEF TurnToolAsks
<1>12. CASE TurnCreatesGoal(t)
  BY <1>12, NoGoalSets DEF TurnCreatesGoal
<1>13. CASE TurnCompletesGoal(t)
  BY <1>13 DEF TurnCompletesGoal
<1>14. CASE TurnDenied(t)
  BY <1>14 DEF TurnDenied
<1>15. CASE TurnAsk(t)
  BY <1>15 DEF TurnAsk
<1>16. CASE TurnAnswered(t)
  BY <1>16 DEF TurnAnswered
<1>17. CASE TurnFinal(t)
  BY <1>17 DEF TurnFinal
<1>18. CASE TurnFollowUp(t)
  BY <1>18 DEF TurnFollowUp
<1>19. CASE TurnError(t)
  BY <1>19 DEF TurnError
<1>20. CASE TurnPost(t)
  BY <1>20 DEF TurnPost
<1>21. CASE TurnStopHookBlocks(t)
  BY <1>21 DEF TurnStopHookBlocks
<1>22. CASE TurnLoop(t)
  BY <1>22 DEF TurnLoop
<1>23. CASE OtherRun(t)
  BY <1>23 DEF OtherRun
<1>24. CASE TaskEnd(t)
  BY <1>24 DEF TaskEnd
<1> QED BY <1>1, <1>2, <1>3, <1>4, <1>5, <1>6, <1>7, <1>8, <1>9, <1>10, <1>11, <1>12, <1>13,
   <1>14, <1>15, <1>16, <1>17, <1>18, <1>19, <1>20, <1>21, <1>22, <1>23, <1>24 DEF RunTask

\* finishing it,
LEMMA FinishTaskAlone ==
    ASSUME LoopOnly, SteerInv, NEW t \in Turn, FinishTask(t)
    PROVE  NoOtherStarter'
<1> USE DEF SteerInv, NoOtherStarter, Starts,
        IndInv, TypeOK, GoalType, LocalType, Control, Births, StartsTurn, StartPc,
        queueVars, localVars, goalVars, allButPc, At, Goto, End, Resumes, ToolCall,
        GoalCandidate, GiveUpReservation, Ready, TakePending, DrainMail, Interrupted,
        FollowUpPc, Accounted
<1>1. CASE FinishRemove(t)
  BY <1>1 DEF FinishRemove
<1>2. CASE FinishTakeInput(t)
  BY <1>2 DEF FinishTakeInput
<1>3. CASE FinishRecord(t)
  BY <1>3 DEF FinishRecord
<1>4. CASE FinishGoal(t)
  BY <1>4 DEF FinishGoal
<1>5. CASE FinishEvent(t)
  BY <1>5 DEF FinishEvent
<1>6. CASE FinishClear(t)
  BY <1>6 DEF FinishClear
<1> QED BY <1>1, <1>2, <1>3, <1>4, <1>5, <1>6 DEF FinishTask

\* dropping it,
LEMMA DropTaskAlone ==
    ASSUME LoopOnly, SteerInv, NEW t \in Turn, DropTask(t)
    PROVE  NoOtherStarter'
<1> USE DEF SteerInv, NoOtherStarter, Starts,
        IndInv, TypeOK, GoalType, LocalType, Control, Births, StartsTurn, StartPc,
        queueVars, localVars, goalVars, allButPc, At, Goto, End, Resumes, ToolCall,
        GoalCandidate, GiveUpReservation, Ready, TakePending, DrainMail, Interrupted,
        FollowUpPc
<1> QED BY DEF DropTask

\* or an operation of the client.
LEMMA EnvironmentAlone ==
    ASSUME LoopOnly, SteerInv, LoopOp \/ ExtOp \/ CallStep
    PROVE  NoOtherStarter'
<1> USE DEF SteerInv, NoOtherStarter, Starts,
        IndInv, TypeOK, GoalType, LocalType, Control, Births, StartsTurn, StartPc,
        queueVars, localVars, goalVars, allButPc, At, Goto, End, Resumes, ToolCall,
        GoalCandidate, GiveUpReservation, Ready, TakePending, DrainMail, Interrupted,
        FollowUpPc
<1>1. ASSUME NEW i \in UserIn, SteerInput(i) PROVE NoOtherStarter'
  BY <1>1 DEF SteerInput
<1>2. ASSUME NEW i \in UserIn, LoopSteerRefused(i) PROVE NoOtherStarter'
  BY <1>2 DEF LoopSteerRefused
<1>3. ASSUME NEW i \in UserIn, LoopSpawnTurn(i) PROVE NoOtherStarter'
  <2>1. PICK t \in Turn : prog[t] = "none" /\ Spawn(t, "turn", {i})
    BY <1>3 DEF LoopSpawnTurn, Unused
  <2> QED BY <1>3, <2>1 DEF LoopSpawnTurn, Spawn
<1>4. ASSUME NEW program \in OtherProg, LoopSpawnOther(program) PROVE NoOtherStarter'
  <2>1. PICK t \in Turn : prog[t] = "none" /\ Spawn(t, program, {})
    BY <1>4 DEF LoopSpawnOther, Unused
  <2> QED BY <1>4, <2>1 DEF LoopSpawnOther, Spawn
<1>5. ASSUME NEW i \in MailIn, LoopMail(i) PROVE NoOtherStarter'
  BY DEF LoopOnly
<1>6. ASSUME NEW i \in QueueIn, LoopInject(i) PROVE NoOtherStarter'
  BY DEF LoopOnly
<1>7. ASSUME NEW i \in QueueIn, LoopInjectFails(i) PROVE NoOtherStarter'
  BY DEF LoopOnly
<1>8. ASSUME NEW t \in Turn, LoopAnswer(t) PROVE NoOtherStarter'
  BY <1>8 DEF LoopAnswer
<1>9. CASE LoopInterrupt
  BY <1>9 DEF LoopInterrupt
<1>10. CASE LoopShutdown
  BY <1>10 DEF LoopShutdown
<1>11. CASE LoopQueue
  BY <1>11 DEF LoopQueue
<1>12. ASSUME NEW status \in GoalStatus, ExtWriteGoal(status) PROVE NoOtherStarter'
  BY <1>12, NoGoalSets DEF ExtWriteGoal
<1>13. ASSUME NEW i \in ShellIn, ExtShellOutput(i) PROVE NoOtherStarter'
  BY <1>13 DEF ExtShellOutput
<1>14. CASE ExtResumeGoal
  BY <1>14, NoGoalSets DEF ExtResumeGoal
<1>15. CASE ExtApplyGoal
  BY <1>15 DEF ExtApplyGoal
<1> QED BY <1>1, <1>2, <1>3, <1>4, <1>5, <1>6, <1>7, <1>8, <1>9, <1>10, <1>11, <1>12, <1>13,
   <1>14, <1>15 DEF LoopOp, ExtOp, CallStep

\* A turn state was made for a turn.
LEMMA StateOfTurn == \A s \in TS : s[1] \in Turn
  BY DEF TS

\* What the step of an actor q that moves no input leaves as it is.
StillActor(q) ==
    /\ pc'[q] = "unborn" <=> pc[q] = "unborn"
    /\ pc[q] = "f_take" => pc'[q] = "f_take" /\ hts'[q] = hts[q]
    /\ pc[q] \in HoldPcs => pc'[q] \in HoldPcs \/ loc[q] \cap UserIn = {}
    /\ pc'[q] \in Winding /\ hts'[q] # NoTS => pc[q] \in Winding /\ hts'[q] = hts[q]
    /\ q \in Turn /\ pc[q] \in {"unborn", "t_run"} =>
         pc'[q] \in {"unborn", "t_run"} \/ inp[q] = {} \/ q \in cancelled
    /\ q = Loop => /\ pc'[q] \in Cleans => pc[q] \in Cleans \/ active'.ts = NoTS
                   /\ cur[q] # NoTurn => pc'[q] \in AbortPc \cup StartPc

\* Nothing but the variables of a step that moves no input.
Frame == <<containers, taken, prog, held, cancelled>>

\* A step that moves no input, aborts no further task and leaves the active turn
\* to its tasks keeps it.
LEMMA StillKept ==
    ASSUME SteerInv, UNCHANGED <<containers, taken, prog>>, cur'[Loop] = cur[Loop],
           active' = active \/ (active.tasks = {} /\ active' = NoActive),
           \A t \in Turn : Aborted(t)' => Aborted(t),
           cancelled \subseteq cancelled',
           \A q \in Actor : StillActor(q)
    PROVE  Kept'
<1> USE DEF SteerInv, Kept, containers, StillActor
<1>0. /\ active \in [ts : TS \cup {NoTS}, tasks : SUBSET Turn]
      /\ hts \in [Actor -> TS \cup {NoTS}]
  BY DEF IndInv, TypeOK, TurnType, LocalType
<1>1. Cleared' /\ LoopStarts'
  BY DEF Labels, Cleared, LoopStarts, Cleans, Some, NoActive, Actor
<1>2. Origin'
  BY <1>0 DEF Labels, Origin, Some, NoActive, Actor, TS
<1>3. Apart'
  BY <1>0, NoTSAssumption DEF Labels, Apart, NoActive, Actor, TS
<1>4. HandsEmpty'
  BY DEF HandsEmpty, Actor
<1>5. TasksNoted'
  BY DEF TasksNoted
<1>6. BuffersNoted'
  BY DEF BuffersNoted
<1>7. BufferRead'
  BY DEF BufferRead, Reader, NoActive, Actor
<1>8. NoneVanished'
  BY DEF NoneVanished, Nowhere, NotShared, NotPending, NotOwn, NotHeld
<1> QED BY <1>1, <1>2, <1>3, <1>4, <1>5, <1>6, <1>7, <1>8 DEF Labels

\* The same where no abort is at work.
LEMMA FrameKept ==
    ASSUME SteerInv, UNCHANGED Frame, cur'[Loop] = cur[Loop],
           active' = active \/ (active.tasks = {} /\ active' = NoActive),
           \A q \in Actor : StillActor(q)
    PROVE  Kept'
<1>1. cancelled \subseteq cancelled' /\ \A t \in Turn : Aborted(t)' => Aborted(t)
  BY DEF Frame, Aborted, BeingAborted
<1> QED BY <1>1, StillKept DEF Frame

\* What the invariant says of tasks and labels.
KeptState ==
    /\ Kept /\ NoOtherStarter /\ doomed \subseteq cancelled
    /\ \A q \in Actor : pc[q] \in StartPc => q = Loop /\ cur[q] \in Turn
    /\ \A q \in Actor : cur[q] # NoTurn => pc[cur[q]] = "unborn"
    /\ \A u \in Turn : pc[u] \in LivePc => u \in active.tasks \/ Aborted(u)
    /\ \A u \in active.tasks : pc[u] \in LivePc /\ ~Aborted(u)
    /\ \A u \in Turn : pc[u] = "unborn" => ~Aborted(u)
    /\ \A u \in Turn : prog[u] = "none" => pc[u] = "unborn"
    /\ active \in [ts : TS \cup {NoTS}, tasks : SUBSET Turn]
    /\ active.tasks # {} => active.ts \in TS
    /\ pend \in [TS -> SUBSET Item] /\ inp \in [Turn -> SUBSET Item]
    /\ loc \in [Actor -> SUBSET Item] /\ prog \in [Turn -> {"none", "turn"} \cup OtherPrograms]
    /\ pc \in [Actor -> Pc] /\ hts \in [Actor -> TS \cup {NoTS}]
    /\ held \in [Actor -> SUBSET Turn]
    /\ cur \in [Actor -> Turn \cup {NoTurn}]
    /\ \A q \in Actor : pc[q] \in UsesState => hts[q] \in TS

\* The part of it that is about the labels.
LocalState ==
    /\ pc \in [Actor -> Pc] /\ hts \in [Actor -> TS \cup {NoTS}]
    /\ ret \in [Actor -> {"idle", "stopped", "done", "g_permit"}]
    /\ cur \in [Actor -> Turn \cup {NoTurn}]
    /\ cur[Loop] # NoTurn => pc[Loop] \in AbortPc \cup StartPc
    /\ Loop \notin Turn /\ NoTurn \notin Turn /\ Turn \subseteq Actor

LEMMA KeptFacts ==
    ASSUME SteerInv
    PROVE  KeptState /\ LocalState
<1>1. IndInv /\ Kept /\ NoOtherStarter
  BY DEF SteerInv
<1>2. doomed \subseteq cancelled
  BY <1>1 DEF IndInv, Control, Drained
<1>3. \A u \in Turn : pc[u] \in LivePc => u \in active.tasks \/ Aborted(u)
  BY <1>1, <1>2 DEF IndInv, Control, TaskTracked, Aborted, LivePc
<1>4. \A u \in active.tasks : pc[u] \in LivePc /\ ~Aborted(u)
  BY <1>1 DEF IndInv, Control, Registered, Drained, Aborted, BeingAborted, LivePc
<1>5. \A u \in Turn : pc[u] = "unborn" => ~Aborted(u)
  BY <1>1 DEF IndInv, Control, Births, Drained, Aborted, BeingAborted
<1>6. \A q \in Actor : pc[q] \in StartPc => q = Loop /\ cur[q] \in Turn
  BY <1>1 DEF NoOtherStarter, IndInv, Control, Births, StartsTurn, TypeOK, LocalType
<1>7. /\ \A q \in Actor : cur[q] # NoTurn => pc[cur[q]] = "unborn"
      /\ \A u \in Turn : prog[u] = "none" => pc[u] = "unborn"
  BY <1>1 DEF IndInv, Control, Births
<1>8. \A q \in Actor : pc[q] \in UsesState => hts[q] \in TS
  BY <1>1 DEF IndInv, TypeOK, LocalType
<1>9. KeptState
  BY <1>1, <1>2, <1>3, <1>4, <1>5, <1>6, <1>7, <1>8 DEF KeptState, IndInv, TypeOK, TurnType,
     TaskType, LocalType
<1>10. LocalState
  BY <1>1, ActorsAssumption DEF LocalState, IndInv, TypeOK, LocalType, Kept, Labels,
     LoopStarts, Actor
<1> QED BY <1>9, <1>10

\* No user input is lost by starting a task,
LEMMA StartTaskKept ==
    ASSUME SteerInv, NEW p \in Actor, StartTask(p)
    PROVE  Kept'
<1>0. KeptState
  BY KeptFacts
<1>100. LocalState
  BY KeptFacts
<1> USE DEF turnVars, queueVars, itemVars, taskVars, localVars, goalVars, allButPc, At, Goto, End,
        Resumes, ToolCall, GoalCandidate, GiveUpReservation, Ready, Interrupted, FollowUpPc
<1>1. CASE StartTakeIdle(p)
  <2>1. Cleared' /\ LoopStarts'
    BY <1>0, <1>1 DEF StartTakeIdle, NoOtherStarter, KeptState, Kept, Labels, Cleared,
       LoopStarts, Cleans, Winding, AbortPc, StartPc, Some
  <2>2. Origin' /\ Apart'
    BY <1>0, <1>1 DEF StartTakeIdle, NoOtherStarter, KeptState, Kept, Labels, Origin,
       Apart, Winding, AbortPc, Some
  <2>3. HandsEmpty'
    BY <1>0, <1>1 DEF StartTakeIdle, NoOtherStarter, KeptState, Kept, HandsEmpty, HoldPcs,
       StartPc
  <2>4. TasksNoted'
    BY <1>0, <1>1 DEF StartTakeIdle, NoOtherStarter, KeptState, Kept, TasksNoted, Aborted,
       BeingAborted
  <2>5. BuffersNoted'
    BY <1>0, <1>1 DEF StartTakeIdle, NoOtherStarter, KeptState, Kept, BuffersNoted,
       Winding, AbortPc
  <2>6. BufferRead'
    BY <1>0, <1>1 DEF StartTakeIdle, NoOtherStarter, KeptState, Kept, BufferRead, Reader,
       Aborted, BeingAborted
  <2>7. NoneVanished'
    BY <1>0, <1>1 DEF StartTakeIdle, NoOtherStarter, KeptState, Kept, NoneVanished,
       Nowhere, NotShared, NotPending, NotOwn, NotHeld
  <2> QED BY <2>1, <2>2, <2>3, <2>4, <2>5, <2>6, <2>7 DEF Kept, Labels
<1>2. CASE StartTakePending(p)
  <2>0. p = Loop /\ ~Some
    BY <1>0, <1>2 DEF StartTakePending, KeptState, Kept, Labels, Cleared, Cleans, StartPc
  <2>1. Cleared' /\ LoopStarts'
    BY <1>0, <1>2, <2>0 DEF StartTakePending, TakePending, KeptState, Kept, Labels,
       Cleared, LoopStarts, Cleans, Winding, AbortPc, StartPc, Some
  <2>2. Origin' /\ Apart'
    BY <1>0, <1>2, <2>0 DEF StartTakePending, TakePending, KeptState, Kept, Labels, Origin,
       Apart, Winding, AbortPc, Some
  <2>3. HandsEmpty'
    BY <1>0, <1>2, <2>0 DEF StartTakePending, TakePending, KeptState, Kept, HandsEmpty,
       HoldPcs, StartPc
  <2>4. TasksNoted'
    BY <1>0, <1>2, <2>0 DEF StartTakePending, TakePending, KeptState, Kept, TasksNoted,
       Aborted, BeingAborted
  <2>5. BuffersNoted'
    BY <1>0, <1>2, <2>0 DEF StartTakePending, TakePending, KeptState, Kept, BuffersNoted,
       Winding, AbortPc
  <2>6. BufferRead'
    BY <1>0, <1>2, <2>0 DEF StartTakePending, TakePending, KeptState, Kept, BufferRead,
       Reader, Aborted, BeingAborted
  <2>7. NoneVanished'
    BY <1>0, <1>2, <2>0 DEF StartTakePending, TakePending, KeptState, Kept, NoneVanished,
       Nowhere, NotShared, NotPending, NotOwn, NotHeld
  <2> QED BY <2>1, <2>2, <2>3, <2>4, <2>5, <2>6, <2>7 DEF Kept, Labels
<1>3. CASE StartDrainMail(p)
  <2>1. Cleared' /\ LoopStarts'
    BY <1>0, <1>3 DEF StartDrainMail, DrainMail, NoOtherStarter, KeptState, Kept, Labels,
       Cleared, LoopStarts, Cleans, Winding, AbortPc, StartPc, Some
  <2>2. Origin' /\ Apart'
    BY <1>0, <1>3 DEF StartDrainMail, DrainMail, NoOtherStarter, KeptState, Kept, Labels,
       Origin, Apart, Winding, AbortPc, Some
  <2>3. HandsEmpty'
    BY <1>0, <1>3 DEF StartDrainMail, DrainMail, NoOtherStarter, KeptState, Kept,
       HandsEmpty, HoldPcs, StartPc
  <2>4. TasksNoted'
    BY <1>0, <1>3 DEF StartDrainMail, DrainMail, NoOtherStarter, KeptState, Kept,
       TasksNoted, Aborted, BeingAborted
  <2>5. BuffersNoted'
    BY <1>0, <1>3 DEF StartDrainMail, DrainMail, NoOtherStarter, KeptState, Kept,
       BuffersNoted, Winding, AbortPc
  <2>6. BufferRead'
    BY <1>0, <1>3 DEF StartDrainMail, DrainMail, NoOtherStarter, KeptState, Kept,
       BufferRead, Reader, Aborted, BeingAborted
  <2>7. NoneVanished'
    BY <1>0, <1>3 DEF StartDrainMail, DrainMail, NoOtherStarter, KeptState, Kept,
       NoneVanished, Nowhere, NotShared, NotPending, NotOwn, NotHeld
  <2> QED BY <2>1, <2>2, <2>3, <2>4, <2>5, <2>6, <2>7 DEF Kept, Labels
<1>4. CASE StartLockState(p)
  <2>0. /\ p = Loop /\ ~Some /\ cur[p] \in Turn /\ pc[cur[p]] = "unborn"
        /\ active' = [ts |-> <<cur[p], "first">>, tasks |-> {}]
        /\ <<cur[p], "first">> \in TS /\ <<cur[p], "first">>[1] = cur[p]
    BY <1>0, <1>4, ActorsAssumption DEF StartLockState, GetOrInsert, KeptState, Kept,
       Labels, Cleared,
       Cleans, StartPc, TS
  <2>1. Cleared' /\ LoopStarts'
    BY <1>0, <1>4, <2>0 DEF StartLockState, GetOrInsert, KeptState, Kept, Labels, Cleared,
       LoopStarts, Cleans, Winding, AbortPc, StartPc, Some
  <2>2. Origin' /\ Apart'
    BY <1>0, <1>4, <2>0 DEF StartLockState, GetOrInsert, KeptState, Kept, Labels, Origin,
       Apart, Winding, AbortPc, Some
  <2>3. HandsEmpty'
    BY <1>0, <1>4, <2>0 DEF StartLockState, GetOrInsert, KeptState, Kept, HandsEmpty,
       HoldPcs, StartPc
  <2>4. TasksNoted'
    BY <1>0, <1>4, <2>0 DEF StartLockState, GetOrInsert, KeptState, Kept, TasksNoted,
       Aborted, BeingAborted
  <2>5. BuffersNoted'
    BY <1>0, <1>4, <2>0 DEF StartLockState, GetOrInsert, KeptState, Kept, BuffersNoted,
       Winding, AbortPc
  <2>6. BufferRead'
    <3>1. active.tasks = {} /\ UNCHANGED <<pend, taken, held, cancelled>>
      BY <1>0, <1>4, <2>0, NoTSAssumption DEF StartLockState, KeptState, Some
    <3>2. \A t \in Turn : pc'[t] = pc[t] /\ hts'[t] = hts[t]
      BY <1>0, <1>100, <1>4, <2>0 DEF StartLockState, KeptState, LocalState
    <3> QED BY <1>0, <3>1, <3>2 DEF KeptState, Kept, BufferRead, Reader, Aborted, BeingAborted
  <2>7. NoneVanished'
    BY <1>0, <1>4, <2>0 DEF StartLockState, GetOrInsert, KeptState, Kept, NoneVanished,
       Nowhere, NotShared, NotPending, NotOwn, NotHeld
  <2> QED BY <2>1, <2>2, <2>3, <2>4, <2>5, <2>6, <2>7 DEF Kept, Labels
<1>5. CASE StartPushInput(p)
  <2>0. p = Loop /\ loc[p] \cap UserIn = {} /\ hts[p] \in TS
    BY <1>0, <1>5, ActorsAssumption DEF StartPushInput, KeptState, Kept, HandsEmpty,
       UsesState, StartPc
  <2>1. Cleared' /\ LoopStarts'
    BY <1>0, <1>5, <2>0 DEF StartPushInput, KeptState, Kept, Labels, Cleared, LoopStarts,
       Cleans, Winding, AbortPc, StartPc, Some
  <2>2. Origin' /\ Apart'
    BY <1>0, <1>5, <2>0 DEF StartPushInput, KeptState, Kept, Labels, Origin, Apart,
       Winding, AbortPc, Some
  <2>3. HandsEmpty'
    BY <1>0, <1>5, <2>0 DEF StartPushInput, KeptState, Kept, HandsEmpty, HoldPcs, StartPc
  <2>4. TasksNoted'
    BY <1>0, <1>5, <2>0 DEF StartPushInput, KeptState, Kept, TasksNoted, Aborted, BeingAborted
  <2>5. BuffersNoted'
    BY <1>0, <1>5, <2>0 DEF StartPushInput, KeptState, Kept, BuffersNoted, Winding, AbortPc
  <2>6. BufferRead'
    BY <1>0, <1>5, <2>0 DEF StartPushInput, KeptState, Kept, BufferRead, Reader, Aborted,
       BeingAborted
  <2>7. NoneVanished'
    BY <1>0, <1>5, <2>0 DEF StartPushInput, KeptState, Kept, NoneVanished, Nowhere,
       NotShared, NotPending, NotOwn, NotHeld
  <2> QED BY <2>1, <2>2, <2>3, <2>4, <2>5, <2>6, <2>7 DEF Kept, Labels
<1>6. CASE StartAddTask(p)
  <2>0. /\ p = Loop /\ cur[p] \in Turn /\ pc[cur[p]] = "unborn"
        /\ <<cur[p], "second">> \in TS /\ <<cur[p], "second">>[1] = cur[p]
    BY <1>0, <1>6 DEF StartAddTask, KeptState, StartPc, TS
  <2>1. Cleared' /\ LoopStarts'
    BY <1>100, <1>6, <2>0 DEF StartAddTask, LocalState, Cleared, LoopStarts, Cleans,
       Winding, AbortPc
  <2>2. Origin' /\ Apart'
    <3>1. /\ pc'[cur[p]] # "unborn" /\ cur[p] # p
          /\ \A q \in Actor : q # p /\ q # cur[p] => pc'[q] = pc[q] /\ hts'[q] = hts[q]
          /\ pc'[p] \notin Winding \cup {"unborn"} /\ pc'[cur[p]] \notin Winding
      BY <1>0, <1>100, <1>6, <2>0 DEF StartAddTask, KeptState, LocalState, Winding, AbortPc
    <3>2. active'.ts = active.ts \/ active'.ts = <<cur[p], "second">>
      BY <1>0, <1>6 DEF StartAddTask, GetOrInsert, KeptState
    <3>3. Origin'
      <4>1. CASE active'.ts = <<cur[p], "second">>
        BY <2>0, <3>1, <4>1 DEF Origin
      <4>2. CASE active'.ts = active.ts
        BY <1>0, <2>0, <3>1, <4>2, StateOfTurn DEF KeptState, Kept, Labels, Origin, Some,
           Actor
      <4> QED BY <3>2, <4>1, <4>2
    <3>4. Apart'
      BY <1>0, <2>0, <3>1, <3>2, StateOfTurn DEF KeptState, Kept, Labels, Apart, Actor
    <3> QED BY <3>3, <3>4
  <2>3. HandsEmpty'
    BY <1>0, <1>6, <2>0 DEF StartAddTask, GetOrInsert, Some, KeptState, Kept, HandsEmpty,
       HoldPcs, StartPc
  <2>4. TasksNoted'
    BY <1>0, <1>6, <2>0 DEF StartAddTask, GetOrInsert, Some, KeptState, Kept, TasksNoted,
       Aborted, BeingAborted
  <2>5. BuffersNoted'
    BY <1>0, <1>6, <2>0 DEF StartAddTask, GetOrInsert, Some, KeptState, Kept, BuffersNoted,
       Winding, AbortPc
  <2>6. BufferRead'
    <3>1. /\ active.ts = NoTS \/ active'.ts = active.ts
          /\ active'.tasks # {} /\ UNCHANGED <<pend, taken, held, cancelled>>
      BY <1>0, <1>6 DEF StartAddTask, KeptState, GetOrInsert, Some
    <3>2. \A t \in Turn : pc[t] = "f_take" => pc'[t] = pc[t] /\ hts'[t] = hts[t]
      BY <1>0, <1>100, <1>6, <2>0 DEF StartAddTask, KeptState, LocalState
    <3> QED BY <1>0, <3>1, <3>2, NoTSAssumption DEF KeptState, Kept, BufferRead, Reader,
       Aborted,
           BeingAborted
  <2>7. NoneVanished'
    BY <1>0, <1>6, <2>0 DEF StartAddTask, GetOrInsert, Some, KeptState, Kept, NoneVanished,
       Nowhere, NotShared, NotPending, NotOwn, NotHeld
  <2> QED BY <2>1, <2>2, <2>3, <2>4, <2>5, <2>6, <2>7 DEF Kept, Labels
<1> QED BY <1>1, <1>2, <1>3, <1>4, <1>5, <1>6 DEF StartTask

\* by looking for pending work,
LEMMA MaybeStartKept ==
    ASSUME SteerInv, NEW p \in Actor, MaybeStart(p)
    PROVE  Kept'
<1>0. KeptState
  BY KeptFacts
<1>100. LocalState
  BY KeptFacts
<1> USE DEF turnVars, queueVars, itemVars, taskVars, localVars, goalVars, allButPc, At, Goto, End,
        Resumes, ToolCall, GoalCandidate, GiveUpReservation, Ready, Interrupted, FollowUpPc, HasTriggerMail
<1>1. CASE MaybeCheckIdle(p)
  <2>1. UNCHANGED Frame /\ active' = active /\ cur'[Loop] = cur[Loop]
    BY <1>1 DEF MaybeCheckIdle, Frame, containers
  <2>2. \A q \in Actor : StillActor(q)
    BY <1>100, <1>1 DEF MaybeCheckIdle, StillActor, LocalState, HoldPcs, Winding, AbortPc,
       Cleans, StartPc
  <2> QED BY <2>1, <2>2, FrameKept
<1>2. CASE MaybeCheckMail(p)
  <2>1. UNCHANGED Frame /\ active' = active /\ cur'[Loop] = cur[Loop]
    BY <1>2 DEF MaybeCheckMail, Frame, containers
  <2>2. \A q \in Actor : StillActor(q)
    BY <1>100, <1>2 DEF MaybeCheckMail, StillActor, LocalState, HoldPcs, Winding, AbortPc,
       Cleans, StartPc
  <2> QED BY <2>1, <2>2, FrameKept
<1>3. CASE MaybeReserve(p)
  BY <1>0, <1>3 DEF MaybeReserve, KeptState, NoOtherStarter, Starts
<1>4. CASE MaybeBusy(p)
  BY <1>0, <1>4 DEF MaybeBusy, KeptState, NoOtherStarter, Starts
<1> QED BY <1>1, <1>2, <1>3, <1>4 DEF MaybeStart

\* by continuing a goal,
LEMMA GoalContinueKept ==
    ASSUME SteerInv, NEW p \in Actor, GoalContinue(p)
    PROVE  Kept'
<1>0. KeptState
  BY KeptFacts
<1>100. LocalState
  BY KeptFacts
<1> USE DEF turnVars, queueVars, itemVars, taskVars, localVars, goalVars, allButPc, At, Goto, End,
        Resumes, ToolCall, GoalCandidate, GiveUpReservation, Ready, Interrupted, FollowUpPc
<1>1. CASE GoalAcquire(p)
  <2>1. UNCHANGED Frame /\ active' = active /\ cur'[Loop] = cur[Loop]
    BY <1>1 DEF GoalAcquire, Frame, containers
  <2>2. \A q \in Actor : StillActor(q)
    BY <1>100, <1>1 DEF GoalAcquire, StillActor, LocalState, HoldPcs, Winding, AbortPc,
       Cleans, StartPc
  <2> QED BY <2>1, <2>2, FrameKept
<1>2. CASE GoalCheck(p)
  <2>1. UNCHANGED Frame /\ active' = active /\ cur'[Loop] = cur[Loop]
    BY <1>2 DEF GoalCheck, Frame, containers
  <2>2. \A q \in Actor : StillActor(q)
    BY <1>100, <1>2 DEF GoalCheck, StillActor, LocalState, HoldPcs, Winding, AbortPc,
       Cleans, StartPc
  <2> QED BY <2>1, <2>2, FrameKept
<1>3. CASE GoalRecheck(p)
  BY <1>0, <1>3 DEF GoalRecheck, KeptState, NoOtherStarter, Starts
<1>4. CASE GoalReserve(p)
  BY <1>0, <1>4 DEF GoalReserve, KeptState, NoOtherStarter, Starts
<1>5. CASE GoalBusy(p)
  BY <1>0, <1>5 DEF GoalBusy, KeptState, NoOtherStarter, Starts
<1>6. CASE GoalReread(p)
  BY <1>0, <1>6 DEF GoalReread, KeptState, NoOtherStarter, Starts
<1>7. CASE GoalPushPrompt(p)
  BY <1>0, <1>7 DEF GoalPushPrompt, KeptState, NoOtherStarter, Starts
<1>8. CASE GoalStillReserved(p)
  BY <1>0, <1>8 DEF GoalStillReserved, KeptState, NoOtherStarter, Starts
<1> QED BY <1>1, <1>2, <1>3, <1>4, <1>5, <1>6, <1>7, <1>8 DEF GoalContinue

\* by an abort, but for what it takes,
LEMMA AbortKept ==
    ASSUME SteerInv, NEW p \in Actor, Abort(p)
    PROVE  Kept'
<1>0. KeptState
  BY KeptFacts
<1>100. LocalState
  BY KeptFacts
<1> USE DEF turnVars, queueVars, itemVars, taskVars, localVars, goalVars, allButPc, At, Goto, End,
        Resumes, ToolCall, GoalCandidate, GiveUpReservation, Ready, Interrupted, FollowUpPc,
        NextHeld, AfterGoal
<1>1. CASE AbortTake(p)
  <2>1. CASE ~TakeTurn(p)
    <3>1. UNCHANGED Frame /\ active' = active /\ cur'[Loop] = cur[Loop]
      BY <1>1, <2>1 DEF AbortTake, Frame, containers
    <3>2. \A q \in Actor : StillActor(q)
      BY <1>100, <1>1, <2>1 DEF AbortTake, StillActor, LocalState, HoldPcs, Winding,
         AbortPc, Cleans
    <3> QED BY <3>1, <3>2, FrameKept
  <2>2. CASE TakeTurn(p) /\ active.tasks = {}
    <3>1. UNCHANGED <<containers, taken, prog, cancelled>> /\ cur'[Loop] = cur[Loop] /\ active' = NoActive
      BY <1>1, <2>2 DEF AbortTake, TakeTurn, Given, containers
    <3>2. \A t \in Turn : Aborted(t)' => Aborted(t)
      BY <1>0, <1>1, <2>2 DEF AbortTake, TakeTurn, KeptState, Aborted, BeingAborted
    <3>3. \A q \in Actor : StillActor(q)
      BY <1>100, <1>1, <2>2 DEF AbortTake, TakeTurn, StillActor, LocalState, HoldPcs,
         Winding, AbortPc,
         Cleans, NoActive, StartPc
    <3> QED BY <2>2, <3>1, <3>2, <3>3, StillKept
  <2>3. CASE TakeTurn(p) /\ active.tasks # {}
    <3>0. /\ pc[p] = "a_take" /\ pc' = [pc EXCEPT ![p] = "a_cancel"] /\ active' = NoActive
          /\ held' = [held EXCEPT ![p] = active.tasks] /\ hts' = [hts EXCEPT ![p] = active.ts]
          /\ taken' = taken \cup Given /\ UNCHANGED <<containers, prog, cancelled, cur>>
          /\ active.ts \in TS
      BY <1>0, <1>1, <2>3 DEF AbortTake, TakeTurn, KeptState, containers
    <3>1. Cleared' /\ LoopStarts'
      BY <1>0, <3>0 DEF KeptState, Kept, Labels, Cleared, LoopStarts, Cleans, Winding,
         AbortPc, Some, NoActive
    <3>2. Origin' /\ Apart'
      <4>1. Origin'
        BY <3>0 DEF Origin, Some, NoActive
      <4>2. pc[active.ts[1]] # "unborn" /\ active.ts[1] \in Turn
        BY <1>0, <2>3, <3>0, NoTSAssumption, StateOfTurn DEF KeptState, Kept, Labels,
           Origin, Some
      <4>3. \A q \in Actor : pc[q] # "unborn" => pc'[q] # "unborn"
        BY <1>0, <3>0 DEF KeptState
      <4>4. \A q \in Actor : q # p => pc'[q] = pc[q] /\ hts'[q] = hts[q]
        BY <1>0, <3>0 DEF KeptState
      <4>5. hts'[p] = active.ts /\ active'.ts = NoTS
        BY <1>0, <3>0 DEF KeptState, NoActive
      <4> QED BY <1>0, <4>1, <4>2, <4>3, <4>4, <4>5, StateOfTurn DEF KeptState, Kept,
         Labels, Apart, Actor
    <3>3. HandsEmpty'
      BY <1>0, <3>0 DEF KeptState, Kept, HandsEmpty, HoldPcs, containers, Actor
    <3>4. TasksNoted'
      BY <1>0, <3>0 DEF KeptState, Kept, TasksNoted, Aborted, BeingAborted, Given, containers
    <3>5. BuffersNoted'
      <4>1. pend[active.ts] \cap UserIn \subseteq Given
        BY <1>0, <2>3 DEF KeptState, Given
      <4>2. hts'[p] = active.ts /\ \A q \in Actor : q # p => pc'[q] = pc[q] /\ hts'[q] = hts[q]
        BY <1>0, <3>0 DEF KeptState
      <4> QED BY <1>0, <3>0, <4>1, <4>2 DEF KeptState, Kept, BuffersNoted, containers
    <3>6. BufferRead'
      BY <1>0, <3>0 DEF KeptState, Kept, BufferRead, Reader, Aborted, BeingAborted, Given,
         LivePc, RunPc, containers, Actor
    <3>7. NoneVanished'
      BY <1>0, <3>0 DEF KeptState, Kept, NoneVanished, Nowhere, NotShared, NotPending,
         NotOwn, NotHeld, containers
    <3> QED BY <3>1, <3>2, <3>3, <3>4, <3>5, <3>6, <3>7 DEF Kept, Labels
  <2> QED BY <2>1, <2>2, <2>3
<1>2. CASE AbortCancel(p)
  <2>1. UNCHANGED <<containers, taken, prog>> /\ active' = active /\ cur'[Loop] = cur[Loop]
    BY <1>2 DEF AbortCancel, containers
  <2>2. cancelled \subseteq cancelled' /\ \A t \in Turn : Aborted(t)' => Aborted(t)
    BY <1>0, <1>2 DEF AbortCancel, KeptState, Aborted, BeingAborted
  <2>3. \A q \in Actor : StillActor(q)
    BY <1>100, <1>2 DEF AbortCancel, StillActor, LocalState, HoldPcs, Winding, AbortPc, Cleans
  <2> QED BY <2>1, <2>2, <2>3, StillKept
<1>3. CASE AbortKill(p)
  <2>1. UNCHANGED <<containers, taken, prog>> /\ active' = active /\ cur'[Loop] = cur[Loop]
    BY <1>3 DEF AbortKill, containers
  <2>2. cancelled \subseteq cancelled' /\ \A t \in Turn : Aborted(t)' => Aborted(t)
    BY <1>0, <1>3 DEF AbortKill, KeptState, Aborted, BeingAborted
  <2>3. \A q \in Actor : StillActor(q)
    BY <1>100, <1>3 DEF AbortKill, StillActor, LocalState, HoldPcs, Winding, AbortPc, Cleans
  <2> QED BY <2>1, <2>2, <2>3, StillKept
<1>4. CASE AbortEvent(p)
  <2>1. UNCHANGED <<containers, taken, prog>> /\ active' = active /\ cur'[Loop] = cur[Loop]
    BY <1>4 DEF AbortEvent, containers
  <2>2. cancelled \subseteq cancelled' /\ \A t \in Turn : Aborted(t)' => Aborted(t)
    BY <1>0, <1>4 DEF AbortEvent, KeptState, Aborted, BeingAborted
  <2>3. \A q \in Actor : StillActor(q)
    BY <1>100, <1>4 DEF AbortEvent, StillActor, LocalState, HoldPcs, Winding, AbortPc, Cleans
  <2> QED BY <2>1, <2>2, <2>3, StillKept
<1>5. CASE AbortGoal(p)
  <2>1. UNCHANGED Frame /\ active' = active /\ cur'[Loop] = cur[Loop]
    BY <1>5 DEF AbortGoal, Frame, containers
  <2>2. \A q \in Actor : StillActor(q)
    BY <1>100, <1>5 DEF AbortGoal, StillActor, LocalState, HoldPcs, Winding, AbortPc,
       Cleans, StartPc
  <2> QED BY <2>1, <2>2, FrameKept
<1>6. CASE AbortPauseGoal(p)
  <2>1. UNCHANGED Frame /\ active' = active /\ cur'[Loop] = cur[Loop]
    BY <1>6 DEF AbortPauseGoal, Frame, containers
  <2>2. \A q \in Actor : StillActor(q)
    BY <1>100, <1>6 DEF AbortPauseGoal, StillActor, LocalState, HoldPcs, Winding, AbortPc,
       Cleans, StartPc
  <2> QED BY <2>1, <2>2, FrameKept
<1>7. CASE AbortClear(p)
  <2>0. hts[p] \in TS /\ pend[hts[p]] \cap UserIn \subseteq taken
    BY <1>0, <1>7, NoTSAssumption DEF AbortClear, KeptState, Kept, BuffersNoted, UsesState,
       Winding, AbortPc
  <2>1. Cleared' /\ LoopStarts'
    BY <1>0, <1>7, <2>0 DEF AbortClear, KeptState, Kept, Labels, Cleared, LoopStarts,
       Cleans, Winding, AbortPc, StartPc, Some
  <2>2. Origin' /\ Apart'
    BY <1>0, <1>7, <2>0 DEF AbortClear, KeptState, Kept, Labels, Origin, Apart, Winding,
       AbortPc, Some
  <2>3. HandsEmpty'
    BY <1>0, <1>7, <2>0 DEF AbortClear, KeptState, Kept, HandsEmpty, HoldPcs, StartPc
  <2>4. TasksNoted'
    BY <1>0, <1>7, <2>0 DEF AbortClear, KeptState, Kept, TasksNoted, Aborted, BeingAborted
  <2>5. BuffersNoted'
    BY <1>0, <1>7, <2>0 DEF AbortClear, KeptState, Kept, BuffersNoted, Winding, AbortPc
  <2>6. BufferRead'
    BY <1>0, <1>7, <2>0 DEF AbortClear, KeptState, Kept, BufferRead, Reader, Aborted,
       BeingAborted
  <2>7. NoneVanished'
    BY <1>0, <1>7, <2>0 DEF AbortClear, KeptState, Kept, NoneVanished, Nowhere, NotShared,
       NotPending, NotOwn, NotHeld
  <2> QED BY <2>1, <2>2, <2>3, <2>4, <2>5, <2>6, <2>7 DEF Kept, Labels
<1> QED BY <1>1, <1>2, <1>3, <1>4, <1>5, <1>6, <1>7 DEF Abort

\* by running a task,
LEMMA RunTaskKept ==
    ASSUME SteerInv, NEW t \in Turn, RunTask(t)
    PROVE  Kept'
<1>0. KeptState
  BY KeptFacts
<1>100. LocalState
  BY KeptFacts
<1> USE DEF turnVars, queueVars, itemVars, taskVars, localVars, goalVars, allButPc, At, Goto, End,
        Resumes, ToolCall, GoalCandidate, GiveUpReservation, Ready, Interrupted, FollowUpPc
<1>1. CASE TurnNoWork(t)
  <2>1. UNCHANGED Frame /\ active' = active /\ cur'[Loop] = cur[Loop]
    BY <1>1 DEF TurnNoWork, Frame, containers
  <2>2. \A q \in Actor : StillActor(q)
    BY <1>100, <1>1 DEF TurnNoWork, StillActor, LocalState, HoldPcs, Winding, AbortPc,
       Cleans, HasWork
  <2> QED BY <2>1, <2>2, FrameKept
<1>2. CASE TurnCancelledEarly(t)
  <2>1. UNCHANGED Frame /\ active' = active /\ cur'[Loop] = cur[Loop]
    BY <1>2 DEF TurnCancelledEarly, Frame, containers
  <2>2. \A q \in Actor : StillActor(q)
    BY <1>100, <1>2 DEF TurnCancelledEarly, StillActor, LocalState, HoldPcs, Winding,
       AbortPc, Cleans
  <2> QED BY <2>1, <2>2, FrameKept
<1>3. CASE TurnRefuse(t)
  <2>1. Cleared' /\ LoopStarts'
    BY <1>0, <1>3 DEF TurnRefuse, KeptState, Kept, Labels, Cleared, LoopStarts, Cleans,
       Winding, AbortPc, StartPc, Some
  <2>2. Origin' /\ Apart'
    BY <1>0, <1>3 DEF TurnRefuse, KeptState, Kept, Labels, Origin, Apart, Winding, AbortPc,
       Some
  <2>3. HandsEmpty'
    BY <1>0, <1>3 DEF TurnRefuse, KeptState, Kept, HandsEmpty, HoldPcs, StartPc
  <2>4. TasksNoted'
    BY <1>0, <1>3 DEF TurnRefuse, KeptState, Kept, TasksNoted, Aborted, BeingAborted
  <2>5. BuffersNoted'
    BY <1>0, <1>3 DEF TurnRefuse, KeptState, Kept, BuffersNoted, Winding, AbortPc
  <2>6. BufferRead'
    BY <1>0, <1>3 DEF TurnRefuse, KeptState, Kept, BufferRead, Reader, Aborted, BeingAborted
  <2>7. NoneVanished'
    BY <1>0, <1>3 DEF TurnRefuse, KeptState, Kept, NoneVanished, Nowhere, NotShared,
       NotPending, NotOwn, NotHeld
  <2> QED BY <2>1, <2>2, <2>3, <2>4, <2>5, <2>6, <2>7 DEF Kept, Labels
<1>4. CASE TurnRecordInput(t)
  <2>1. Cleared' /\ LoopStarts'
    BY <1>0, <1>4 DEF TurnRecordInput, KeptState, Kept, Labels, Cleared, LoopStarts,
       Cleans, Winding, AbortPc, StartPc, Some
  <2>2. Origin' /\ Apart'
    BY <1>0, <1>4 DEF TurnRecordInput, KeptState, Kept, Labels, Origin, Apart, Winding,
       AbortPc, Some
  <2>3. HandsEmpty'
    BY <1>0, <1>4 DEF TurnRecordInput, KeptState, Kept, HandsEmpty, HoldPcs, StartPc
  <2>4. TasksNoted'
    BY <1>0, <1>4 DEF TurnRecordInput, KeptState, Kept, TasksNoted, Aborted, BeingAborted
  <2>5. BuffersNoted'
    BY <1>0, <1>4 DEF TurnRecordInput, KeptState, Kept, BuffersNoted, Winding, AbortPc
  <2>6. BufferRead'
    BY <1>0, <1>4 DEF TurnRecordInput, KeptState, Kept, BufferRead, Reader, Aborted,
       BeingAborted
  <2>7. NoneVanished'
    BY <1>0, <1>4 DEF TurnRecordInput, KeptState, Kept, NoneVanished, Nowhere, NotShared,
       NotPending, NotOwn, NotHeld
  <2> QED BY <2>1, <2>2, <2>3, <2>4, <2>5, <2>6, <2>7 DEF Kept, Labels
<1>5. CASE TurnDrain(t)
  <2>1. Cleared' /\ LoopStarts'
    BY <1>0, <1>5 DEF TurnDrain, TakePending, NoteTaken, KeptState, Kept, Labels, Cleared,
       LoopStarts, Cleans, Winding, AbortPc, StartPc, Some
  <2>2. Origin' /\ Apart'
    BY <1>0, <1>5 DEF TurnDrain, TakePending, NoteTaken, KeptState, Kept, Labels, Origin,
       Apart, Winding, AbortPc, Some
  <2>3. HandsEmpty'
    BY <1>0, <1>5 DEF TurnDrain, TakePending, NoteTaken, KeptState, Kept, HandsEmpty,
       HoldPcs, StartPc
  <2>4. TasksNoted'
    BY <1>0, <1>5 DEF TurnDrain, TakePending, NoteTaken, KeptState, Kept, TasksNoted,
       Aborted, BeingAborted
  <2>5. BuffersNoted'
    BY <1>0, <1>5 DEF TurnDrain, TakePending, NoteTaken, KeptState, Kept, BuffersNoted,
       Winding, AbortPc
  <2>6. BufferRead'
    BY <1>0, <1>5 DEF TurnDrain, TakePending, NoteTaken, KeptState, Kept, BufferRead,
       Reader, Aborted, BeingAborted
  <2>7. NoneVanished'
    BY <1>0, <1>5 DEF TurnDrain, TakePending, NoteTaken, KeptState, Kept, NoneVanished,
       Nowhere, NotShared, NotPending, NotOwn, NotHeld
  <2> QED BY <2>1, <2>2, <2>3, <2>4, <2>5, <2>6, <2>7 DEF Kept, Labels
<1>6. CASE TurnDrainMail(t)
  <2>1. Cleared' /\ LoopStarts'
    BY <1>0, <1>6 DEF TurnDrainMail, DrainMail, NoOtherStarter, KeptState, Kept, Labels,
       Cleared, LoopStarts, Cleans, Winding, AbortPc, StartPc, Some
  <2>2. Origin' /\ Apart'
    BY <1>0, <1>6 DEF TurnDrainMail, DrainMail, NoOtherStarter, KeptState, Kept, Labels,
       Origin, Apart, Winding, AbortPc, Some
  <2>3. HandsEmpty'
    BY <1>0, <1>6 DEF TurnDrainMail, DrainMail, NoOtherStarter, KeptState, Kept,
       HandsEmpty, HoldPcs, StartPc
  <2>4. TasksNoted'
    BY <1>0, <1>6 DEF TurnDrainMail, DrainMail, NoOtherStarter, KeptState, Kept,
       TasksNoted, Aborted, BeingAborted
  <2>5. BuffersNoted'
    BY <1>0, <1>6 DEF TurnDrainMail, DrainMail, NoOtherStarter, KeptState, Kept,
       BuffersNoted, Winding, AbortPc
  <2>6. BufferRead'
    BY <1>0, <1>6 DEF TurnDrainMail, DrainMail, NoOtherStarter, KeptState, Kept,
       BufferRead, Reader, Aborted, BeingAborted
  <2>7. NoneVanished'
    BY <1>0, <1>6 DEF TurnDrainMail, DrainMail, NoOtherStarter, KeptState, Kept,
       NoneVanished, Nowhere, NotShared, NotPending, NotOwn, NotHeld
  <2> QED BY <2>1, <2>2, <2>3, <2>4, <2>5, <2>6, <2>7 DEF Kept, Labels
<1>7. CASE TurnHookAccepts(t)
  <2>1. UNCHANGED Frame /\ active' = active /\ cur'[Loop] = cur[Loop]
    BY <1>7 DEF TurnHookAccepts, Frame, containers
  <2>2. \A q \in Actor : StillActor(q)
    BY <1>100, <1>7 DEF TurnHookAccepts, StillActor, LocalState, HoldPcs, Winding, AbortPc,
       Cleans
  <2> QED BY <2>1, <2>2, FrameKept
<1>8. CASE TurnHookBlocks(t)
  <2>1. /\ UNCHANGED <<active, mail, idle, taken, history, unsent, prog, inp, held, cancelled, hts, cur>>
        /\ pc[t] = "t_hook"
    BY <1>8 DEF TurnHookBlocks
  <2>2. PICK b \in loc[t] \cap UserIn, ok \in SUBSET loc[t], l \in {"t_record", "t_drain", "t_loop"} :
             /\ pend' = IF Some THEN [pend EXCEPT ![active.ts] = @ \cup (loc[t] \ (ok \cup {b}))] ELSE pend
             /\ refused' = refused \cup {b}
             /\ loc' = [loc EXCEPT ![t] = ok]
             /\ pc' = [pc EXCEPT ![t] = l]
             /\ ok # {} => l = "t_record"
    BY <1>8 DEF TurnHookBlocks
  <2>3. (t \in active.tasks /\ active.ts \in TS /\ Some) \/ loc[t] \cap UserIn \subseteq taken
    BY <1>0, <2>1, NoTSAssumption DEF KeptState, Kept, TasksNoted, LivePc, RunPc, Some
  <2>4. Cleared' /\ LoopStarts'
    BY <1>0, <2>1, <2>2 DEF KeptState, Kept, Labels, Cleared, LoopStarts, Cleans, Winding,
       AbortPc, Some
  <2>5. Origin' /\ Apart'
    BY <1>0, <2>1, <2>2 DEF KeptState, Kept, Labels, Origin, Apart, Winding, AbortPc, Some
  <2>6. HandsEmpty'
    BY <1>0, <2>1, <2>2 DEF KeptState, Kept, HandsEmpty, HoldPcs
  <2>7. TasksNoted'
    BY <1>0, <2>1, <2>2 DEF KeptState, Kept, TasksNoted, Aborted, BeingAborted
  <2>8. BuffersNoted'
    BY <1>0, <2>1, <2>2 DEF KeptState, Kept, BuffersNoted, Labels, Apart, Winding, AbortPc,
       Some
  <2>9. BufferRead'
    BY <1>0, <2>1, <2>2, <2>3 DEF KeptState, Kept, BufferRead, Reader, Aborted, BeingAborted
  <2>10. NoneVanished'
    BY <1>0, <2>1, <2>2, <2>3 DEF KeptState, Kept, NoneVanished, Nowhere, NotShared,
       NotPending, NotOwn, NotHeld
  <2> QED BY <2>4, <2>5, <2>6, <2>7, <2>8, <2>9, <2>10 DEF Kept, Labels
<1>9. CASE TurnRecordPending(t)
  <2>1. Cleared' /\ LoopStarts'
    BY <1>0, <1>9 DEF TurnRecordPending, KeptState, Kept, Labels, Cleared, LoopStarts,
       Cleans, Winding, AbortPc, StartPc, Some
  <2>2. Origin' /\ Apart'
    BY <1>0, <1>9 DEF TurnRecordPending, KeptState, Kept, Labels, Origin, Apart, Winding,
       AbortPc, Some
  <2>3. HandsEmpty'
    BY <1>0, <1>9 DEF TurnRecordPending, KeptState, Kept, HandsEmpty, HoldPcs, StartPc
  <2>4. TasksNoted'
    BY <1>0, <1>9 DEF TurnRecordPending, KeptState, Kept, TasksNoted, Aborted, BeingAborted
  <2>5. BuffersNoted'
    BY <1>0, <1>9 DEF TurnRecordPending, KeptState, Kept, BuffersNoted, Winding, AbortPc
  <2>6. BufferRead'
    BY <1>0, <1>9 DEF TurnRecordPending, KeptState, Kept, BufferRead, Reader, Aborted,
       BeingAborted
  <2>7. NoneVanished'
    BY <1>0, <1>9 DEF TurnRecordPending, KeptState, Kept, NoneVanished, Nowhere, NotShared,
       NotPending, NotOwn, NotHeld
  <2> QED BY <2>1, <2>2, <2>3, <2>4, <2>5, <2>6, <2>7 DEF Kept, Labels
<1>10. CASE TurnTool(t)
  <2>1. UNCHANGED Frame /\ active' = active /\ cur'[Loop] = cur[Loop]
    BY <1>10 DEF TurnTool, Frame, containers
  <2>2. \A q \in Actor : StillActor(q)
    BY <1>100, <1>10 DEF TurnTool, StillActor, LocalState, HoldPcs, Winding, AbortPc, Cleans
  <2> QED BY <2>1, <2>2, FrameKept
<1>11. CASE TurnToolAsks(t)
  <2>1. UNCHANGED Frame /\ active' = active /\ cur'[Loop] = cur[Loop]
    BY <1>11 DEF TurnToolAsks, Frame, containers
  <2>2. \A q \in Actor : StillActor(q)
    BY <1>100, <1>11 DEF TurnToolAsks, StillActor, LocalState, HoldPcs, Winding, AbortPc,
       Cleans
  <2> QED BY <2>1, <2>2, FrameKept
<1>12. CASE TurnCreatesGoal(t)
  <2>1. UNCHANGED Frame /\ active' = active /\ cur'[Loop] = cur[Loop]
    BY <1>12 DEF TurnCreatesGoal, Frame, containers
  <2>2. \A q \in Actor : StillActor(q)
    BY <1>100, <1>12 DEF TurnCreatesGoal, StillActor, LocalState, HoldPcs, Winding,
       AbortPc, Cleans
  <2> QED BY <2>1, <2>2, FrameKept
<1>13. CASE TurnCompletesGoal(t)
  <2>1. UNCHANGED Frame /\ active' = active /\ cur'[Loop] = cur[Loop]
    BY <1>13 DEF TurnCompletesGoal, Frame, containers
  <2>2. \A q \in Actor : StillActor(q)
    BY <1>100, <1>13 DEF TurnCompletesGoal, StillActor, LocalState, HoldPcs, Winding,
       AbortPc, Cleans
  <2> QED BY <2>1, <2>2, FrameKept
<1>14. CASE TurnDenied(t)
  <2>1. UNCHANGED Frame /\ active' = active /\ cur'[Loop] = cur[Loop]
    BY <1>14 DEF TurnDenied, Frame, containers
  <2>2. \A q \in Actor : StillActor(q)
    BY <1>100, <1>14 DEF TurnDenied, StillActor, LocalState, HoldPcs, Winding, AbortPc, Cleans
  <2> QED BY <2>1, <2>2, FrameKept
<1>15. CASE TurnAsk(t)
  <2>1. UNCHANGED Frame /\ active' = active /\ cur'[Loop] = cur[Loop]
    BY <1>15 DEF TurnAsk, Frame, containers
  <2>2. \A q \in Actor : StillActor(q)
    BY <1>100, <1>15 DEF TurnAsk, StillActor, LocalState, HoldPcs, Winding, AbortPc, Cleans
  <2> QED BY <2>1, <2>2, FrameKept
<1>16. CASE TurnAnswered(t)
  <2>1. UNCHANGED Frame /\ active' = active /\ cur'[Loop] = cur[Loop]
    BY <1>16 DEF TurnAnswered, Frame, containers
  <2>2. \A q \in Actor : StillActor(q)
    BY <1>100, <1>16 DEF TurnAnswered, StillActor, LocalState, HoldPcs, Winding, AbortPc,
       Cleans
  <2> QED BY <2>1, <2>2, FrameKept
<1>17. CASE TurnFinal(t)
  <2>1. UNCHANGED Frame /\ active' = active /\ cur'[Loop] = cur[Loop]
    BY <1>17 DEF TurnFinal, Frame, containers
  <2>2. \A q \in Actor : StillActor(q)
    BY <1>100, <1>17 DEF TurnFinal, StillActor, LocalState, HoldPcs, Winding, AbortPc, Cleans
  <2> QED BY <2>1, <2>2, FrameKept
<1>18. CASE TurnFollowUp(t)
  <2>1. UNCHANGED Frame /\ active' = active /\ cur'[Loop] = cur[Loop]
    BY <1>18 DEF TurnFollowUp, Frame, containers
  <2>2. \A q \in Actor : StillActor(q)
    BY <1>100, <1>18 DEF TurnFollowUp, StillActor, LocalState, HoldPcs, Winding, AbortPc,
       Cleans
  <2> QED BY <2>1, <2>2, FrameKept
<1>19. CASE TurnError(t)
  <2>1. UNCHANGED Frame /\ active' = active /\ cur'[Loop] = cur[Loop]
    BY <1>19 DEF TurnError, Frame, containers
  <2>2. \A q \in Actor : StillActor(q)
    BY <1>100, <1>19 DEF TurnError, StillActor, LocalState, HoldPcs, Winding, AbortPc, Cleans
  <2> QED BY <2>1, <2>2, FrameKept
<1>20. CASE TurnPost(t)
  <2>1. UNCHANGED Frame /\ active' = active /\ cur'[Loop] = cur[Loop]
    BY <1>20 DEF TurnPost, Frame, containers
  <2>2. \A q \in Actor : StillActor(q)
    BY <1>100, <1>20 DEF TurnPost, StillActor, LocalState, HoldPcs, Winding, AbortPc, Cleans
  <2> QED BY <2>1, <2>2, FrameKept
<1>21. CASE TurnStopHookBlocks(t)
  <2>1. UNCHANGED Frame /\ active' = active /\ cur'[Loop] = cur[Loop]
    BY <1>21 DEF TurnStopHookBlocks, Frame, containers
  <2>2. \A q \in Actor : StillActor(q)
    BY <1>100, <1>21 DEF TurnStopHookBlocks, StillActor, LocalState, HoldPcs, Winding,
       AbortPc, Cleans
  <2> QED BY <2>1, <2>2, FrameKept
<1>22. CASE TurnLoop(t)
  <2>1. UNCHANGED Frame /\ active' = active /\ cur'[Loop] = cur[Loop]
    BY <1>22 DEF TurnLoop, Frame, containers
  <2>2. \A q \in Actor : StillActor(q)
    BY <1>100, <1>22 DEF TurnLoop, StillActor, LocalState, HoldPcs, Winding, AbortPc, Cleans
  <2> QED BY <2>1, <2>2, FrameKept
<1>23. CASE OtherRun(t)
  <2>1. UNCHANGED Frame /\ active' = active /\ cur'[Loop] = cur[Loop]
    BY <1>23 DEF OtherRun, Frame, containers
  <2>2. \A q \in Actor : StillActor(q)
    BY <1>100, <1>23 DEF OtherRun, StillActor, LocalState, HoldPcs, Winding, AbortPc, Cleans
  <2> QED BY <2>1, <2>2, FrameKept
<1>24. CASE TaskEnd(t)
  <2>1. UNCHANGED Frame /\ active' = active /\ cur'[Loop] = cur[Loop]
    BY <1>24 DEF TaskEnd, Frame, containers
  <2>2. \A q \in Actor : StillActor(q)
    BY <1>100, <1>24 DEF TaskEnd, StillActor, LocalState, HoldPcs, Winding, AbortPc, Cleans
  <2> QED BY <2>1, <2>2, FrameKept
<1> QED BY <1>1, <1>2, <1>3, <1>4, <1>5, <1>6, <1>7, <1>8, <1>9, <1>10, <1>11, <1>12, <1>13,
   <1>14, <1>15, <1>16, <1>17, <1>18, <1>19, <1>20, <1>21, <1>22, <1>23, <1>24 DEF RunTask

\* by finishing it,
LEMMA FinishTaskKept ==
    ASSUME SteerInv, NEW t \in Turn, FinishTask(t)
    PROVE  Kept'
<1>0. KeptState
  BY KeptFacts
<1>100. LocalState
  BY KeptFacts
<1> USE DEF turnVars, queueVars, itemVars, taskVars, localVars, goalVars, allButPc, At, Goto, End,
        Resumes, ToolCall, GoalCandidate, GiveUpReservation, Ready, Interrupted, FollowUpPc, Reserved
<1>1. CASE FinishRemove(t)
  <2>1. Cleared' /\ LoopStarts'
    BY <1>0, <1>1 DEF FinishRemove, KeptState, Kept, Labels, Cleared, LoopStarts, Cleans,
       Winding, AbortPc, StartPc, Some
  <2>2. Origin' /\ Apart'
    BY <1>0, <1>1 DEF FinishRemove, KeptState, Kept, Labels, Origin, Apart, Winding,
       AbortPc, Some
  <2>3. HandsEmpty'
    BY <1>0, <1>1 DEF FinishRemove, KeptState, Kept, HandsEmpty, HoldPcs, StartPc
  <2>4. TasksNoted'
    BY <1>0, <1>1 DEF FinishRemove, KeptState, Kept, TasksNoted, Aborted, BeingAborted
  <2>5. BuffersNoted'
    BY <1>0, <1>1 DEF FinishRemove, KeptState, Kept, BuffersNoted, Winding, AbortPc
  <2>6. BufferRead'
    <3>1. pc[t] = "f_remove" /\ UNCHANGED <<pend, taken, held, cancelled>>
      BY <1>1 DEF FinishRemove
    <3>2. /\ active'.ts = active.ts /\ active'.tasks = active.tasks \ {t}
          /\ Some /\ active'.tasks = {} => pc'[t] = "f_take" /\ hts'[t] = active.ts
          /\ \A u \in Turn : u # t => pc'[u] = pc[u] /\ hts'[u] = hts[u]
      BY <1>0, <1>1 DEF FinishRemove, KeptState, Actor
    <3>3. \A u \in Turn, s \in TS : Reader(u, s) => Reader(u, s)'
      BY <3>1, <3>2 DEF Reader, Aborted, BeingAborted
    <3>4. active.tasks # {} /\ active'.tasks = {} => Reader(t, active.ts)'
      BY <1>0, <3>1, <3>2, NoTSAssumption DEF KeptState, Reader, Aborted, BeingAborted, Some
    <3> QED BY <1>0, <3>1, <3>2, <3>3, <3>4 DEF KeptState, Kept, BufferRead
  <2>7. NoneVanished'
    BY <1>0, <1>1 DEF FinishRemove, KeptState, Kept, NoneVanished, Nowhere, NotShared,
       NotPending, NotOwn, NotHeld
  <2> QED BY <2>1, <2>2, <2>3, <2>4, <2>5, <2>6, <2>7 DEF Kept, Labels
<1>2. CASE FinishTakeInput(t)
  <2>0. hts[t] \in TS /\ loc[t] \cap UserIn = {}
    BY <1>0, <1>2 DEF FinishTakeInput, KeptState, Kept, HandsEmpty, HoldPcs, UsesState, Actor
  <2>1. Cleared' /\ LoopStarts'
    BY <1>0, <1>2, <2>0 DEF FinishTakeInput, NoteTaken, KeptState, Kept, Labels, Cleared,
       LoopStarts, Cleans, Winding, AbortPc, StartPc, Some
  <2>2. Origin' /\ Apart'
    BY <1>0, <1>2, <2>0 DEF FinishTakeInput, NoteTaken, KeptState, Kept, Labels, Origin,
       Apart, Winding, AbortPc, Some
  <2>3. HandsEmpty'
    BY <1>0, <1>2, <2>0 DEF FinishTakeInput, NoteTaken, KeptState, Kept, HandsEmpty,
       HoldPcs, StartPc
  <2>4. TasksNoted'
    BY <1>0, <1>2, <2>0 DEF FinishTakeInput, NoteTaken, KeptState, Kept, TasksNoted,
       Aborted, BeingAborted
  <2>5. BuffersNoted'
    BY <1>0, <1>2, <2>0 DEF FinishTakeInput, NoteTaken, KeptState, Kept, BuffersNoted,
       Winding, AbortPc
  <2>6. BufferRead'
    BY <1>0, <1>2, <2>0 DEF FinishTakeInput, NoteTaken, KeptState, Kept, BufferRead,
       Reader, Aborted, BeingAborted
  <2>7. NoneVanished'
    BY <1>0, <1>2, <2>0 DEF FinishTakeInput, NoteTaken, KeptState, Kept, NoneVanished,
       Nowhere, NotShared, NotPending, NotOwn, NotHeld
  <2> QED BY <2>1, <2>2, <2>3, <2>4, <2>5, <2>6, <2>7 DEF Kept, Labels
<1>3. CASE FinishRecord(t)
  <2>1. Cleared' /\ LoopStarts'
    BY <1>0, <1>3 DEF FinishRecord, KeptState, Kept, Labels, Cleared, LoopStarts, Cleans,
       Winding, AbortPc, StartPc, Some
  <2>2. Origin' /\ Apart'
    BY <1>0, <1>3 DEF FinishRecord, KeptState, Kept, Labels, Origin, Apart, Winding,
       AbortPc, Some
  <2>3. HandsEmpty'
    BY <1>0, <1>3 DEF FinishRecord, KeptState, Kept, HandsEmpty, HoldPcs, StartPc
  <2>4. TasksNoted'
    BY <1>0, <1>3 DEF FinishRecord, KeptState, Kept, TasksNoted, Aborted, BeingAborted
  <2>5. BuffersNoted'
    BY <1>0, <1>3 DEF FinishRecord, KeptState, Kept, BuffersNoted, Winding, AbortPc
  <2>6. BufferRead'
    BY <1>0, <1>3 DEF FinishRecord, KeptState, Kept, BufferRead, Reader, Aborted, BeingAborted
  <2>7. NoneVanished'
    BY <1>0, <1>3 DEF FinishRecord, KeptState, Kept, NoneVanished, Nowhere, NotShared,
       NotPending, NotOwn, NotHeld
  <2> QED BY <2>1, <2>2, <2>3, <2>4, <2>5, <2>6, <2>7 DEF Kept, Labels
<1>4. CASE FinishGoal(t)
  <2>1. UNCHANGED Frame /\ active' = active /\ cur'[Loop] = cur[Loop]
    BY <1>4 DEF FinishGoal, Frame, containers
  <2>2. \A q \in Actor : StillActor(q)
    BY <1>100, <1>4 DEF FinishGoal, StillActor, LocalState, HoldPcs, Winding, AbortPc, Cleans
  <2> QED BY <2>1, <2>2, FrameKept
<1>5. CASE FinishEvent(t)
  <2>1. UNCHANGED Frame /\ active' = active /\ cur'[Loop] = cur[Loop]
    BY <1>5 DEF FinishEvent, Frame, containers
  <2>2. \A q \in Actor : StillActor(q)
    BY <1>100, <1>5 DEF FinishEvent, StillActor, LocalState, HoldPcs, Winding, AbortPc, Cleans
  <2> QED BY <2>1, <2>2, FrameKept
<1>6. CASE FinishClear(t)
  <2>1. /\ UNCHANGED Frame /\ cur'[Loop] = cur[Loop]
        /\ active' = active \/ (active.tasks = {} /\ active' = NoActive)
    BY <1>6 DEF FinishClear, Frame, containers
  <2>2. \A q \in Actor : StillActor(q)
    BY <1>100, <1>6 DEF FinishClear, StillActor, LocalState, HoldPcs, Winding, AbortPc, Cleans
  <2> QED BY <2>1, <2>2, FrameKept
<1> QED BY <1>1, <1>2, <1>3, <1>4, <1>5, <1>6 DEF FinishTask

\* by dropping a task, which was aborted,
LEMMA DropTaskKept ==
    ASSUME SteerInv, NEW t \in Turn, DropTask(t)
    PROVE  Kept'
<1>0. KeptState /\ LocalState
  BY KeptFacts
<1>1. /\ Aborted(t) /\ (inp[t] \cup loc[t]) \cap UserIn \subseteq taken
      /\ pc[t] # "unborn"
  BY <1>0 DEF DropTask, KeptState, Kept, TasksNoted, Aborted
<1> USE DEF DropTask, KeptState, Kept, turnVars, queueVars, itemVars, Goto
<1>2. Cleared' /\ LoopStarts'
  BY <1>0, <1>1 DEF Labels, Cleared, LoopStarts, Cleans, Some, LocalState
<1>3. Origin' /\ Apart'
  BY <1>0, <1>1 DEF Labels, Origin, Apart, Winding, AbortPc, Some, LocalState
<1>4. HandsEmpty'
  BY <1>0, <1>1 DEF HandsEmpty
<1>5. TasksNoted'
  BY <1>0, <1>1 DEF TasksNoted, Aborted, BeingAborted
<1>6. BuffersNoted'
  BY <1>0, <1>1 DEF BuffersNoted, Winding, AbortPc
<1>7. BufferRead'
  BY <1>0, <1>1 DEF BufferRead, Reader, Aborted, BeingAborted
<1>8. NoneVanished'
  BY <1>0, <1>1 DEF NoneVanished, Nowhere, NotShared, NotPending, NotOwn, NotHeld
<1> QED BY <1>2, <1>3, <1>4, <1>5, <1>6, <1>7, <1>8 DEF Labels

\* or by an operation of the client.
LEMMA EnvironmentKept ==
    ASSUME LoopOnly, SteerInv, LoopOp \/ ExtOp \/ CallStep
    PROVE  Kept'
<1>0. KeptState
  BY KeptFacts
<1>100. LocalState
  BY KeptFacts
<1> USE DEF turnVars, queueVars, itemVars, taskVars, localVars, goalVars, allButPc, At, Goto, End,
        Resumes, ToolCall, GoalCandidate, GiveUpReservation, Ready, Interrupted, FollowUpPc
<1>1. ASSUME NEW i \in UserIn, SteerInput(i) PROVE Kept'
  <2>1. Cleared' /\ LoopStarts'
    BY <1>0, <1>1 DEF SteerInput, KeptState, Kept, Labels, Cleared, LoopStarts, Cleans,
       Winding, AbortPc, StartPc, Some
  <2>2. Origin' /\ Apart'
    BY <1>0, <1>1 DEF SteerInput, KeptState, Kept, Labels, Origin, Apart, Winding, AbortPc,
       Some
  <2>3. HandsEmpty'
    BY <1>0, <1>1 DEF SteerInput, KeptState, Kept, HandsEmpty, HoldPcs, StartPc
  <2>4. TasksNoted'
    BY <1>0, <1>1 DEF SteerInput, KeptState, Kept, TasksNoted, Aborted, BeingAborted
  <2>5. BuffersNoted'
    BY <1>0, <1>1 DEF SteerInput, KeptState, Kept, BuffersNoted, Labels, Apart, Winding,
       AbortPc
  <2>6. BufferRead'
    BY <1>0, <1>1 DEF SteerInput, KeptState, Kept, BufferRead, Reader, Aborted, BeingAborted
  <2>7. NoneVanished'
    BY <1>0, <1>1 DEF SteerInput, KeptState, Kept, NoneVanished, Nowhere, NotShared,
       NotPending, NotOwn, NotHeld
  <2> QED BY <2>1, <2>2, <2>3, <2>4, <2>5, <2>6, <2>7 DEF Kept, Labels
<1>2. ASSUME NEW i \in UserIn, LoopSteerRefused(i) PROVE Kept'
  <2>1. Cleared' /\ LoopStarts'
    BY <1>0, <1>2 DEF LoopSteerRefused, KeptState, Kept, Labels, Cleared, LoopStarts,
       Cleans, Winding, AbortPc, StartPc, Some
  <2>2. Origin' /\ Apart'
    BY <1>0, <1>2 DEF LoopSteerRefused, KeptState, Kept, Labels, Origin, Apart, Winding,
       AbortPc, Some
  <2>3. HandsEmpty'
    BY <1>0, <1>2 DEF LoopSteerRefused, KeptState, Kept, HandsEmpty, HoldPcs, StartPc
  <2>4. TasksNoted'
    BY <1>0, <1>2 DEF LoopSteerRefused, KeptState, Kept, TasksNoted, Aborted, BeingAborted
  <2>5. BuffersNoted'
    BY <1>0, <1>2 DEF LoopSteerRefused, KeptState, Kept, BuffersNoted, Winding, AbortPc
  <2>6. BufferRead'
    BY <1>0, <1>2 DEF LoopSteerRefused, KeptState, Kept, BufferRead, Reader, Aborted,
       BeingAborted
  <2>7. NoneVanished'
    BY <1>0, <1>2 DEF LoopSteerRefused, KeptState, Kept, NoneVanished, Nowhere, NotShared,
       NotPending, NotOwn, NotHeld
  <2> QED BY <2>1, <2>2, <2>3, <2>4, <2>5, <2>6, <2>7 DEF Kept, Labels
<1>3. ASSUME NEW i \in UserIn, LoopSpawnTurn(i) PROVE Kept'
  <2>0. PICK t \in Turn : prog[t] = "none" /\ Spawn(t, "turn", {i})
    BY <1>3 DEF LoopSpawnTurn, Unused
  <2>8. inp[t] = {} /\ pc[t] = "unborn" /\ ~Aborted(t) /\ pc[Loop] = "idle" /\ cur[Loop] = NoTurn
    BY <1>0, <1>100, <1>3, <2>0 DEF LoopSpawnTurn, KeptState, LocalState, Kept, HandsEmpty,
       AbortPc, StartPc
  <2>1. Cleared' /\ LoopStarts'
    BY <1>0, <1>3, <2>0, <2>8 DEF LoopSpawnTurn, Spawn, KeptState, Kept, Labels, Cleared,
       LoopStarts, Cleans, Winding, AbortPc, StartPc, Some
  <2>2. Origin' /\ Apart'
    <3>1. \A q \in Actor : pc'[q] = pc[q] \/ (q = Loop /\ pc'[q] = "a_take")
      BY <1>0, <2>0 DEF Spawn, KeptState
    <3>2. active' = active /\ hts' = hts
      BY <2>0 DEF Spawn
    <3>3. Origin'
      BY <1>0, <1>100, <2>8, <3>1, <3>2, StateOfTurn DEF KeptState, LocalState, Kept,
         Labels, Origin, Some,
         Actor
    <3>4. Apart'
      BY <1>0, <3>1, <3>2, StateOfTurn DEF KeptState, Kept, Labels, Apart, Winding, Actor
    <3> QED BY <3>3, <3>4
  <2>3. HandsEmpty'
    BY <1>0, <1>3, <2>0, <2>8 DEF LoopSpawnTurn, Spawn, KeptState, Kept, HandsEmpty,
       HoldPcs, StartPc
  <2>4. TasksNoted'
    BY <1>0, <1>3, <2>0, <2>8 DEF LoopSpawnTurn, Spawn, KeptState, Kept, TasksNoted,
       Aborted, BeingAborted
  <2>5. BuffersNoted'
    BY <1>0, <1>3, <2>0, <2>8 DEF LoopSpawnTurn, Spawn, KeptState, Kept, BuffersNoted,
       Winding, AbortPc
  <2>6. BufferRead'
    BY <1>0, <1>3, <2>0, <2>8 DEF LoopSpawnTurn, Spawn, KeptState, Kept, BufferRead,
       Reader, Aborted, BeingAborted
  <2>7. NoneVanished'
    BY <1>0, <1>3, <2>0, <2>8 DEF LoopSpawnTurn, Spawn, KeptState, Kept, NoneVanished,
       Nowhere, NotShared, NotPending, NotOwn, NotHeld
  <2> QED BY <2>1, <2>2, <2>3, <2>4, <2>5, <2>6, <2>7 DEF Kept, Labels
<1>4. ASSUME NEW program \in OtherProg, LoopSpawnOther(program) PROVE Kept'
  <2>0. PICK t \in Turn : prog[t] = "none" /\ Spawn(t, program, {})
    BY <1>4 DEF LoopSpawnOther, Unused
  <2>8. inp[t] = {} /\ pc[t] = "unborn" /\ ~Aborted(t) /\ pc[Loop] = "idle" /\ cur[Loop] = NoTurn
    BY <1>0, <1>100, <1>4, <2>0 DEF LoopSpawnOther, KeptState, LocalState, Kept,
       HandsEmpty, AbortPc, StartPc
  <2>1. Cleared' /\ LoopStarts'
    BY <1>0, <1>4, <2>0, <2>8 DEF LoopSpawnOther, Spawn, KeptState, Kept, Labels, Cleared,
       LoopStarts, Cleans, Winding, AbortPc, StartPc, Some
  <2>2. Origin' /\ Apart'
    <3>1. \A q \in Actor : pc'[q] = pc[q] \/ (q = Loop /\ pc'[q] = "a_take")
      BY <1>0, <2>0 DEF Spawn, KeptState
    <3>2. active' = active /\ hts' = hts
      BY <2>0 DEF Spawn
    <3>3. Origin'
      BY <1>0, <1>100, <2>8, <3>1, <3>2, StateOfTurn DEF KeptState, LocalState, Kept,
         Labels, Origin, Some,
         Actor
    <3>4. Apart'
      BY <1>0, <3>1, <3>2, StateOfTurn DEF KeptState, Kept, Labels, Apart, Winding, Actor
    <3> QED BY <3>3, <3>4
  <2>3. HandsEmpty'
    BY <1>0, <1>4, <2>0, <2>8 DEF LoopSpawnOther, Spawn, KeptState, Kept, HandsEmpty,
       HoldPcs, StartPc
  <2>4. TasksNoted'
    BY <1>0, <1>4, <2>0, <2>8 DEF LoopSpawnOther, Spawn, KeptState, Kept, TasksNoted,
       Aborted, BeingAborted
  <2>5. BuffersNoted'
    BY <1>0, <1>4, <2>0, <2>8 DEF LoopSpawnOther, Spawn, KeptState, Kept, BuffersNoted,
       Winding, AbortPc
  <2>6. BufferRead'
    BY <1>0, <1>4, <2>0, <2>8 DEF LoopSpawnOther, Spawn, KeptState, Kept, BufferRead,
       Reader, Aborted, BeingAborted
  <2>7. NoneVanished'
    BY <1>0, <1>4, <2>0, <2>8 DEF LoopSpawnOther, Spawn, KeptState, Kept, NoneVanished,
       Nowhere, NotShared, NotPending, NotOwn, NotHeld
  <2> QED BY <2>1, <2>2, <2>3, <2>4, <2>5, <2>6, <2>7 DEF Kept, Labels
<1>5. ASSUME NEW i \in MailIn, LoopMail(i) PROVE Kept'
  BY DEF LoopOnly
<1>6. ASSUME NEW i \in QueueIn, LoopInject(i) PROVE Kept'
  BY DEF LoopOnly
<1>7. ASSUME NEW i \in QueueIn, LoopInjectFails(i) PROVE Kept'
  BY DEF LoopOnly
<1>8. ASSUME NEW t \in Turn, LoopAnswer(t) PROVE Kept'
  <2>1. UNCHANGED Frame /\ active' = active /\ cur'[Loop] = cur[Loop]
    BY <1>8 DEF LoopAnswer, Frame, containers
  <2>2. \A q \in Actor : StillActor(q)
    BY <1>100, <1>8 DEF LoopAnswer, StillActor, LocalState, HoldPcs, Winding, AbortPc,
       Cleans, StartPc
  <2> QED BY <2>1, <2>2, FrameKept
<1>9. CASE LoopInterrupt
  <2>1. UNCHANGED Frame /\ active' = active /\ cur'[Loop] = cur[Loop]
    BY <1>9 DEF LoopInterrupt, Frame, containers
  <2>2. \A q \in Actor : StillActor(q)
    BY <1>100, <1>9 DEF LoopInterrupt, StillActor, LocalState, HoldPcs, Winding, AbortPc,
       Cleans, StartPc
  <2> QED BY <2>1, <2>2, FrameKept
<1>10. CASE LoopShutdown
  <2>1. UNCHANGED Frame /\ active' = active /\ cur'[Loop] = cur[Loop]
    BY <1>10 DEF LoopShutdown, Frame, containers
  <2>2. \A q \in Actor : StillActor(q)
    BY <1>100, <1>10 DEF LoopShutdown, StillActor, LocalState, HoldPcs, Winding, AbortPc,
       Cleans, StartPc
  <2> QED BY <2>1, <2>2, FrameKept
<1>11. CASE LoopQueue
  BY <1>0, <1>11 DEF LoopQueue, KeptState, NoOtherStarter
<1>12. ASSUME NEW status \in GoalStatus, ExtWriteGoal(status) PROVE Kept'
  <2>1. UNCHANGED Frame /\ active' = active /\ cur'[Loop] = cur[Loop]
    BY <1>12 DEF ExtWriteGoal, Frame, containers
  <2>2. \A q \in Actor : StillActor(q)
    BY <1>100, <1>12 DEF ExtWriteGoal, StillActor, LocalState, HoldPcs, Winding, AbortPc,
       Cleans
  <2> QED BY <2>1, <2>2, FrameKept
<1>13. ASSUME NEW i \in ShellIn, ExtShellOutput(i) PROVE Kept'
  <2>0. i \notin UserIn
    BY InputsAssumption
  <2>1. Cleared' /\ LoopStarts'
    BY <1>0, <1>13, <2>0 DEF ExtShellOutput, KeptState, Kept, Labels, Cleared, LoopStarts,
       Cleans, Winding, AbortPc, StartPc, Some
  <2>2. Origin' /\ Apart'
    BY <1>0, <1>13, <2>0 DEF ExtShellOutput, KeptState, Kept, Labels, Origin, Apart,
       Winding, AbortPc, Some
  <2>3. HandsEmpty'
    BY <1>0, <1>13, <2>0 DEF ExtShellOutput, KeptState, Kept, HandsEmpty, HoldPcs, StartPc
  <2>4. TasksNoted'
    BY <1>0, <1>13, <2>0 DEF ExtShellOutput, KeptState, Kept, TasksNoted, Aborted,
       BeingAborted
  <2>5. BuffersNoted'
    BY <1>0, <1>13, <2>0 DEF ExtShellOutput, KeptState, Kept, BuffersNoted, Winding, AbortPc
  <2>6. BufferRead'
    BY <1>0, <1>13, <2>0 DEF ExtShellOutput, KeptState, Kept, BufferRead, Reader, Aborted,
       BeingAborted
  <2>7. NoneVanished'
    BY <1>0, <1>13, <2>0 DEF ExtShellOutput, KeptState, Kept, NoneVanished, Nowhere,
       NotShared, NotPending, NotOwn, NotHeld
  <2> QED BY <2>1, <2>2, <2>3, <2>4, <2>5, <2>6, <2>7 DEF Kept, Labels
<1>14. CASE ExtResumeGoal
  <2>1. UNCHANGED Frame /\ active' = active /\ cur'[Loop] = cur[Loop]
    BY <1>14 DEF ExtResumeGoal, Frame, containers
  <2>2. \A q \in Actor : StillActor(q)
    BY <1>100, <1>14 DEF ExtResumeGoal, StillActor, LocalState, HoldPcs, Winding, AbortPc,
       Cleans
  <2> QED BY <2>1, <2>2, FrameKept
<1>15. CASE ExtApplyGoal
  <2>1. UNCHANGED Frame /\ active' = active /\ cur'[Loop] = cur[Loop]
    BY <1>15 DEF ExtApplyGoal, Frame, containers
  <2>2. \A q \in Actor : StillActor(q)
    BY <1>100, <1>15 DEF ExtApplyGoal, StillActor, LocalState, HoldPcs, Winding, AbortPc,
       Cleans
  <2> QED BY <2>1, <2>2, FrameKept
<1> QED BY <1>1, <1>2, <1>3, <1>4, <1>5, <1>6, <1>7, <1>8, <1>9, <1>10, <1>11, <1>12, <1>13,
   <1>14, <1>15 DEF LoopOp, ExtOp, CallStep

\* Where only the loop starts turns, user input that no aborted task had or took
\* is recorded, refused or with somebody who goes on with it.
THEOREM SteerInductive == LoopOnly => (Spec => []SteerInv)
<1> SUFFICES ASSUME LoopOnly PROVE Spec => []SteerInv
  OBVIOUS
<1>1. Init => NoOtherStarter /\ Kept
  <2> SUFFICES ASSUME Init PROVE NoOtherStarter /\ Kept
    OBVIOUS
  <2>1. NoOtherStarter
    BY DEF Init, NoOtherStarter, Starts
  <2>2. Labels
    BY DEF Init, Labels, Cleared, LoopStarts, Origin, Apart, Some, NoActive, Actor
  <2>3. HandsEmpty
    BY DEF Init, HandsEmpty
  <2>4. TasksNoted /\ BuffersNoted
    BY DEF Init, TasksNoted, BuffersNoted, Aborted, BeingAborted
  <2>5. BufferRead
    BY DEF Init, BufferRead
  <2>6. NoneVanished
    BY DEF Init, NoneVanished, Nowhere, NotShared, Submitted
  <2> QED BY <2>1, <2>2, <2>3, <2>4, <2>5, <2>6 DEF Kept
<1>2. SteerInv /\ [Next]_vars => (NoOtherStarter /\ Kept)'
  <2> SUFFICES ASSUME SteerInv, [Next]_vars PROVE (NoOtherStarter /\ Kept)'
    OBVIOUS
  <2>1. CASE Next
    <3>1. NoOtherStarter'
      BY <2>1, StartTaskAlone, MaybeStartAlone, GoalContinueAlone, AbortAlone, RunTaskAlone,
         FinishTaskAlone, DropTaskAlone, EnvironmentAlone DEF Next, ActorStep, TaskStep
    <3>2. Kept'
      BY <2>1, StartTaskKept, MaybeStartKept, GoalContinueKept, AbortKept, RunTaskKept,
         FinishTaskKept, DropTaskKept, EnvironmentKept DEF Next, ActorStep, TaskStep
    <3> QED BY <3>1, <3>2
  <2>2. CASE UNCHANGED vars
    <3>1. UNCHANGED <<Frame, active, goal, hts, cur, pc>>
      BY <2>2 DEF vars, allButPc, turnVars, queueVars, itemVars, taskVars, goalVars,
         localVars, containers, Frame
    <3>2. NoOtherStarter'
      BY <3>1 DEF SteerInv, NoOtherStarter, containers, Frame
    <3>3. \A q \in Actor : StillActor(q)
      BY <3>1, KeptFacts DEF StillActor, LocalState
    <3> QED BY <3>1, <3>2, <3>3, FrameKept
  <2> QED BY <2>1, <2>2
<1> QED BY Inductive, <1>1, <1>2, PTL DEF Spec, SteerInv

\* Steering a turn that is just finishing never drops the input: where only
\* the loop starts turns, user input is lost only if a task that had it or took
\* it was aborted (steer_input, on_task_finished, prepend_pending_input).
THEOREM SteeredInputKept == LoopOnly => (Spec => []SteerKept)
<1>1. SteerInv => SteerKept
  <2> SUFFICES ASSUME SteerInv, NEW i \in UserIn, Lost(i), i \notin taken PROVE FALSE
    BY DEF SteerKept
  <2>1. Kept
    BY DEF SteerInv
  <2>2. \A s \in TS : i \notin pend[s]
    <3> SUFFICES ASSUME NEW s \in TS, i \in pend[s] PROVE WillBeRead(s)
      BY DEF Lost
    <3> QED BY <2>1 DEF Kept, BufferRead, Reader, WillBeRead, Actor
  <2>3. \A t \in Turn : i \notin inp[t]
    BY <2>1 DEF Kept, HandsEmpty, TasksNoted, Lost, At, Aborted
  <2>4. \A p \in Actor : i \notin loc[p]
    BY <2>1 DEF Kept, HandsEmpty, HoldPcs, Lost, At
  <2>5. Nowhere(i)
    BY <2>2, <2>3, <2>4 DEF Nowhere, NotShared, NotPending, NotOwn, NotHeld, Lost
  <2> QED BY <2>1, <2>5 DEF Kept, NoneVanished
<1> QED BY <1>1, SteerInductive, PTL

----------------------------------------------------------------------------
(* Mail that asks for a turn *)

\* Nobody has interrupted the session or tripped the circuit breaker, no task
\* was aborted, and the goal was written once at most and is not stopped.
Calm ==
    /\ bounds.interrupts = 0 /\ bounds.denials = 0 /\ doomed = {}
    /\ bounds.goals <= 1 /\ goal \in {"none", "active"}

\* Labels at which an actor has seen the goal active, holds the reservation for
\* it, or finishes a turn whose last task has gone.
DecidedPc == {"g_cand2", "g_reserve", "g_reread", "g_push", "g_still"}
KeeperPc == {"g_reread", "g_push", "g_still"} \cup (FinishPc \ {"f_remove"})

\* Actor p starts a turn, or replaces the one there is, or refers to the active
\* turn and will start its task or clear it.
SeesTo(p) ==
    \/ pc[p] \in StartPc \cup AbortPc
    \/ pc[p] \in KeeperPc /\ Some /\ hts[p] = active.ts

\* An active turn has a task, or somebody sees to it: it does not stay behind
\* empty, where it would keep every later turn from starting.
Occupied == Some => active.tasks # {} \/ \E p \in Actor : SeesTo(p)

\* Mail that asks for a turn finds a task, which drains the mailbox or looks at
\* it when it ends, or a turn being started, or somebody who is about to look.
MailWatched ==
    HasTriggerMail =>
        active.tasks # {} \/ \E p \in Actor : SeesTo(p) \/ pc[p] \in MaybePc

\* While it is calm, an abort comes from the loop that starts a turn, and a
\* goal somebody has seen active stays so.
CalmState ==
    /\ pc[Guard] = "idle"
    /\ \A p \in Actor : pc[p] \in AbortPc => p = Loop /\ cur[p] # NoTurn
    /\ \A p \in Actor : pc[p] \in DecidedPc => goal = "active"

GoalFirst == bounds.goals = 0 => goal = "none"

MailInv ==
    /\ IndInv
    /\ GoalFirst
    /\ Calm => CalmState /\ Occupied /\ MailWatched

\* A step of actor p that lets the bounded environment steps alone.
OwnStep(p) ==
    /\ pc[p] # "idle"
    /\ \A q \in Actor : q # p => pc'[q] = pc[q] /\ hts'[q] = hts[q] /\ cur'[q] = cur[q]
    /\ bounds' = bounds /\ doomed \subseteq doomed'
    /\ goal' = goal \/ (goal # "none" /\ goal' \notin {"none", "active"})
    /\ pc'[p] \in AbortPc => pc[p] \in AbortPc /\ cur'[p] = cur[p]
    /\ pc'[p] \in DecidedPc => pc[p] \in DecidedPc \/ goal = "active"

\* It was calm before such a step.
LEMMA OwnStepCalm ==
    ASSUME MailInv, NEW p \in Actor, OwnStep(p)
    PROVE  GoalFirst' /\ (Calm' => Calm /\ CalmState')
<1>1. GoalFirst'
  BY DEF MailInv, GoalFirst, OwnStep
<1>2. ASSUME Calm' PROVE Calm /\ CalmState'
  <2>1. Calm /\ CalmState /\ goal' = goal
    BY <1>2 DEF Calm, OwnStep, MailInv
  <2> QED BY <2>1 DEF OwnStep, CalmState
<1> QED BY <1>1, <1>2

\* A turn with a task, or that somebody sees to, is watched.
LEMMA Seen ==
    ASSUME active'.tasks # {} \/ \E p \in Actor : SeesTo(p)'
    PROVE  Occupied' /\ MailWatched'
  BY DEF Occupied, MailWatched

\* A step of p that leaves the active turn alone and brings no mail keeps the
\* watch if p keeps its own part of it.
LEMMA SameWatch ==
    ASSUME Occupied, MailWatched, NEW p \in Actor, OwnStep(p),
           active' = active, mail' \subseteq mail,
           SeesTo(p) => SeesTo(p)', pc[p] \in MaybePc => pc'[p] \in MaybePc
    PROVE  Occupied' /\ MailWatched'
<1>1. \A q \in Actor : SeesTo(q) => SeesTo(q)'
  BY DEF OwnStep, SeesTo, Some
<1>2. Occupied'
  BY <1>1 DEF Occupied, Some
<1>3. MailWatched'
  BY <1>1 DEF MailWatched, HasTriggerMail, OwnStep
<1> QED BY <1>2, <1>3

\* A starter goes on until its task is added.
LEMMA StartTaskMail ==
    ASSUME MailInv, NEW p \in Actor, StartTask(p)
    PROVE  GoalFirst' /\ (Calm' => CalmState' /\ Occupied' /\ MailWatched')
<1> USE DEF At, Goto, turnVars, queueVars, taskVars, goalVars, localVars, StartPc, AbortPc,
        DecidedPc
<1>1. ASSUME ~StartAddTask(p)
      PROVE  OwnStep(p) /\ pc'[p] \in StartPc
  <2>1. pc \in [Actor -> Pc]
    BY DEF MailInv, IndInv, TypeOK, LocalType
  <2>2. CASE StartTakeIdle(p) \/ StartTakePending(p) \/ StartDrainMail(p)
    BY <2>1, <2>2 DEF StartTakeIdle, StartTakePending, StartDrainMail, TakePending,
       DrainMail, OwnStep
  <2>3. CASE StartLockState(p) \/ StartPushInput(p)
    BY <2>3 DEF StartLockState, StartPushInput, OwnStep, MailInv, IndInv, TypeOK, LocalType
  <2> QED BY <1>1, <2>2, <2>3 DEF StartTask
<1>2. CASE StartAddTask(p)
  <2>1. cur[p] \in Turn /\ cur[p] # p /\ pc[cur[p]] = "unborn" /\ pc[p] = "s_lock2"
    BY <1>2, StarterTurn DEF StartAddTask, StartsTurn, MailInv, IndInv, Control, Births
  <2>2. /\ active'.tasks # {} /\ bounds' = bounds /\ doomed' = doomed /\ goal' = goal
        /\ cur' = [cur EXCEPT ![p] = NoTurn]
    BY <1>2 DEF StartAddTask
  <2>3. pc'[p] = ret[p] /\ pc'[cur[p]] \in {"t_run", "t_other"}
    BY <1>2, <2>1 DEF StartAddTask, MailInv, IndInv, TypeOK, LocalType
  <2>4. \A q \in Actor : q # p /\ q # cur[p] => pc'[q] = pc[q]
    BY <1>2 DEF StartAddTask, MailInv, IndInv, TypeOK, LocalType
  <2>5. ret[p] \in {"idle", "stopped", "done", "g_permit"}
    BY DEF MailInv, IndInv, TypeOK, LocalType
  <2>6. GoalFirst' /\ (Calm' => Calm)
    BY <2>2 DEF MailInv, GoalFirst, Calm
  <2>7. Calm => CalmState'
    <3> SUFFICES ASSUME Calm PROVE CalmState'
      OBVIOUS
    <3>1. CalmState
      BY DEF MailInv
    <3>2. pc'[Guard] = "idle"
      BY <2>1, <2>4, <3>1 DEF CalmState
    <3>3. \A q \in Actor : pc'[q] \in AbortPc => q = Loop /\ cur'[q] # NoTurn
      BY <2>2, <2>3, <2>4, <2>5, <3>1 DEF CalmState
    <3>4. \A q \in Actor : pc'[q] \in DecidedPc => pc[q] \in DecidedPc
      BY <2>1, <2>3, <2>4, <2>5
    <3> QED BY <2>2, <3>1, <3>2, <3>3, <3>4 DEF CalmState
  <2> QED BY <2>2, <2>6, <2>7, Seen
<1>3. CASE ~StartAddTask(p)
  <2>1. OwnStep(p) /\ SeesTo(p)'
    BY <1>1, <1>3 DEF SeesTo
  <2> QED BY <2>1, OwnStepCalm, Seen
<1> QED BY <1>2, <1>3

\* Who looks for work goes on looking until a turn is started, until there is
\* no mail, or until somebody else is found to see to the active turn.
LEMMA MaybeStartMail ==
    ASSUME MailInv, NEW p \in Actor, MaybeStart(p)
    PROVE  GoalFirst' /\ (Calm' => CalmState' /\ Occupied' /\ MailWatched')
<1> USE DEF At, Goto, turnVars, queueVars, taskVars, goalVars, localVars, allButPc, AbortPc,
        DecidedPc
<1>1. /\ pc \in [Actor -> Pc] /\ cur \in [Actor -> Turn \cup {NoTurn}]
      /\ ret[p] \in {"idle", "stopped", "done", "g_permit"}
  BY DEF MailInv, IndInv, TypeOK, LocalType
<1>2. OwnStep(p) /\ pc[p] \in MaybePc
  BY <1>1 DEF MaybeStart, MaybeCheckIdle, MaybeCheckMail, MaybeReserve, MaybeBusy, OwnStep,
     MaybePc
<1>3. ASSUME Calm' PROVE Occupied' /\ MailWatched'
  <2>1. Occupied /\ MailWatched
    BY <1>2, <1>3, OwnStepCalm DEF MailInv
  <2>2. ~SeesTo(p)
    BY <1>2 DEF SeesTo, MaybePc, StartPc, KeeperPc, FinishPc
  <2>3. CASE MaybeCheckIdle(p)
    <3>1. active' = active /\ mail' = mail /\ pc'[p] \in MaybePc
      BY <2>3 DEF MaybeCheckIdle, MaybePc
    <3> QED BY <1>2, <2>1, <2>2, <3>1, SameWatch
  <2>4. CASE MaybeReserve(p)
    <3>1. pc'[p] = "s_idle"
      BY <1>1, <2>4 DEF MaybeReserve
    <3> QED BY <3>1, Seen DEF SeesTo, StartPc
  <2>5. CASE MaybeCheckMail(p) /\ HasTriggerMail
    <3>1. active' = active /\ mail' = mail /\ pc'[p] \in MaybePc
      BY <2>5 DEF MaybeCheckMail, MaybePc
    <3> QED BY <1>2, <2>1, <2>2, <3>1, SameWatch
  <2>6. CASE (MaybeCheckMail(p) /\ ~HasTriggerMail) \/ MaybeBusy(p)
    <3>1. active' = active /\ mail' = mail /\ (HasTriggerMail => Some)
      BY <2>6 DEF MaybeCheckMail, MaybeBusy
    <3>2. \A q \in Actor : SeesTo(q) => SeesTo(q)'
      BY <1>2, <2>2, <3>1 DEF OwnStep, SeesTo, Some
    <3>3. Occupied'
      BY <2>1, <3>1, <3>2 DEF Occupied, Some
    <3> QED BY <2>1, <3>1, <3>2, <3>3 DEF Occupied, MailWatched, HasTriggerMail
  <2> QED BY <2>3, <2>4, <2>5, <2>6 DEF MaybeStart
<1> QED BY <1>2, <1>3, OwnStepCalm

\* A continuation keeps the turn it reserved until it starts the task; while the
\* goal is active it gives up only a reservation somebody else has taken.
LEMMA GoalContinueMail ==
    ASSUME MailInv, NEW p \in Actor, GoalContinue(p)
    PROVE  GoalFirst' /\ (Calm' => CalmState' /\ Occupied' /\ MailWatched')
<1> USE DEF At, Goto, turnVars, queueVars, taskVars, goalVars, localVars
<1>1. /\ pc \in [Actor -> Pc] /\ hts \in [Actor -> TS \cup {NoTS}]
      /\ cur \in [Actor -> Turn \cup {NoTurn}]
      /\ \A q \in Actor : pc[q] \in {"g_reread", "g_push", "g_still"} => hts[q] # NoTS
  BY DEF MailInv, IndInv, TypeOK, LocalType, UsesState
<1>2. OwnStep(p) /\ pc[p] \in GoalPc /\ mail' = mail
  <2> USE <1>1 DEF OwnStep, GoalPc, AbortPc, DecidedPc, End
  <2>1. CASE GoalAcquire(p) \/ GoalCheck(p) \/ GoalRecheck(p) \/ GoalBusy(p)
    BY <2>1 DEF GoalAcquire, GoalCheck, GoalRecheck, GoalCandidate, GoalBusy
  <2>2. CASE GoalReserve(p) \/ GoalPushPrompt(p)
    BY <2>2 DEF GoalReserve, GoalPushPrompt
  <2>3. CASE GoalReread(p) \/ GoalStillReserved(p)
    BY <2>3 DEF GoalReread, GoalStillReserved, GiveUpReservation
  <2> QED BY <2>1, <2>2, <2>3 DEF GoalContinue
<1>3. ASSUME Calm' PROVE Occupied' /\ MailWatched'
  <2>1. Occupied /\ MailWatched /\ CalmState
    BY <1>2, <1>3, OwnStepCalm DEF MailInv
  <2>2. pc[p] \notin MaybePc \cup StartPc \cup AbortPc
    BY <1>2 DEF MaybePc, GoalPc, StartPc, AbortPc
  <2>3. CASE GoalAcquire(p) \/ GoalCheck(p) \/ GoalRecheck(p) \/ GoalBusy(p)
    <3>1. active' = active /\ pc[p] \notin KeeperPc
      BY <2>3 DEF GoalAcquire, GoalCheck, GoalRecheck, GoalCandidate, GoalBusy, KeeperPc,
         FinishPc
    <3> QED BY <1>2, <2>1, <2>2, <3>1, SameWatch DEF SeesTo
  <2>4. CASE GoalReserve(p)
    <3>1. pc'[p] = "g_reread" /\ active'.ts = hts'[p] /\ active'.ts # NoTS
      BY <1>1, <2>4, NoTSAssumption DEF GoalReserve, Unused, TS
    <3> QED BY <3>1, Seen DEF SeesTo, KeeperPc, Some
  <2>5. CASE GoalPushPrompt(p)
    <3>1. active' = active /\ hts' = hts /\ pc'[p] = "g_still"
      BY <1>1, <2>5 DEF GoalPushPrompt
    <3>2. SeesTo(p) => SeesTo(p)'
      BY <2>2, <3>1 DEF SeesTo, KeeperPc, Some
    <3> QED BY <1>2, <2>1, <2>2, <3>1, <3>2, SameWatch
  <2>6. CASE GoalReread(p)
    <3>1. goal = "active"
      BY <2>1, <2>6 DEF GoalReread, CalmState, DecidedPc
    <3>2. active' = active /\ hts' = hts /\ pc'[p] = "g_push"
      BY <1>1, <2>6, <3>1 DEF GoalReread
    <3>3. SeesTo(p) => SeesTo(p)'
      BY <2>2, <3>2 DEF SeesTo, KeeperPc, Some
    <3> QED BY <1>2, <2>1, <2>2, <3>2, <3>3, SameWatch
  <2>7. CASE GoalStillReserved(p) /\ Reserved(hts[p])
    <3>1. pc'[p] = "s_idle"
      BY <1>1, <2>7 DEF GoalStillReserved
    <3> QED BY <3>1, Seen DEF SeesTo, StartPc
  <2>8. CASE GoalStillReserved(p) /\ ~Reserved(hts[p])
    <3>1. active' = active
      BY <2>8 DEF GoalStillReserved, GiveUpReservation
    <3>2. CASE hts[p] = active.ts
      BY <2>8, <3>1, <3>2, Seen DEF Reserved
    <3>3. CASE hts[p] # active.ts
      BY <1>2, <2>1, <2>2, <3>1, <3>3, SameWatch DEF SeesTo
    <3> QED BY <3>2, <3>3
  <2> QED BY <2>3, <2>4, <2>5, <2>6, <2>7, <2>8 DEF GoalContinue
<1> QED BY <1>2, <1>3, OwnStepCalm

\* An abort by the loop ends in the start of the loop's own turn.
LEMMA AbortMail ==
    ASSUME MailInv, NEW p \in Actor, Abort(p)
    PROVE  GoalFirst' /\ (Calm' => CalmState' /\ Occupied' /\ MailWatched')
<1> USE DEF At, Goto, turnVars, queueVars, taskVars, goalVars, localVars
<1>1. pc \in [Actor -> Pc] /\ hts \in [Actor -> TS \cup {NoTS}]
  BY DEF MailInv, IndInv, TypeOK, LocalType
<1>2. OwnStep(p) /\ pc[p] \in AbortPc /\ cur' = cur
  <2> USE <1>1 DEF OwnStep, AbortPc, DecidedPc
  <2>0. ret[p] \in {"idle", "stopped", "done", "g_permit"}
    BY DEF MailInv, IndInv, TypeOK, LocalType
  <2>1. CASE AbortTake(p)
    BY <2>1 DEF AbortTake, TakeTurn
  <2>2. CASE AbortCancel(p)
    BY <2>2 DEF AbortCancel, NextHeld
  <2>3. CASE AbortKill(p) \/ AbortEvent(p)
    BY <2>3 DEF AbortKill, AbortEvent, NextHeld
  <2>4. CASE AbortGoal(p) \/ AbortPauseGoal(p)
    BY <2>0, <2>4 DEF AbortGoal, AbortPauseGoal, AfterGoal, Accounted
  <2>5. CASE AbortClear(p)
    BY <2>5 DEF AbortClear
  <2> QED BY <2>1, <2>2, <2>3, <2>4, <2>5 DEF Abort
<1>3. ASSUME Calm' PROVE Occupied' /\ MailWatched'
  <2>1. CalmState
    BY <1>2, <1>3, OwnStepCalm DEF MailInv
  <2>2. p = Loop /\ ~Interrupted(p)
    BY <1>2, <2>1 DEF CalmState, Interrupted
  <2>3. pc'[p] \in StartPc \cup AbortPc
    <3> USE <1>1, <2>2 DEF StartPc, AbortPc
    <3>1. CASE AbortTake(p)
      BY <3>1 DEF AbortTake, TakeTurn
    <3>2. CASE AbortCancel(p) \/ AbortKill(p) \/ AbortEvent(p)
      BY <3>2 DEF AbortCancel, AbortKill, AbortEvent, NextHeld
    <3>3. CASE AbortGoal(p) \/ AbortPauseGoal(p) \/ AbortClear(p)
      BY <3>3 DEF AbortGoal, AbortPauseGoal, AfterGoal, AbortClear
    <3> QED BY <3>1, <3>2, <3>3 DEF Abort
  <2> QED BY <2>3, Seen DEF SeesTo
<1> QED BY <1>2, <1>3, OwnStepCalm

\* A running task is registered or being aborted: it sees to nothing else, and
\* it brings no mail.
LEMMA RunTaskMail ==
    ASSUME MailInv, NEW t \in Turn, RunTask(t)
    PROVE  GoalFirst' /\ (Calm' => CalmState' /\ Occupied' /\ MailWatched')
<1> USE DEF At, Goto, turnVars, queueVars, taskVars, goalVars, localVars, allButPc
<1>1. /\ pc \in [Actor -> Pc] /\ hts \in [Actor -> TS \cup {NoTS}] /\ goal \in GoalStatus
      /\ bounds.goals \in Nat /\ bounds.denials \in Nat
      /\ bounds \in [interrupts : 0..MaxInterrupts, denials : 0..MaxInterrupts,
                     goals : 0..MaxGoalSets]
  BY DEF MailInv, IndInv, TypeOK, LocalType, GoalType
<1>2. /\ active' = active /\ mail' \subseteq mail
      /\ pc[t] \in RunPc /\ pc'[t] \in RunPc \cup {"f_remove", "done"}
  <2> USE <1>1 DEF RunPc
  <2>1. CASE TurnNoWork(t) \/ TurnCancelledEarly(t) \/ TurnRefuse(t) \/ TurnRecordInput(t)
    BY <2>1 DEF TurnNoWork, TurnCancelledEarly, TurnRefuse, TurnRecordInput
  <2>2. CASE TurnDrain(t) \/ TurnDrainMail(t) \/ TurnHookAccepts(t) \/ TurnRecordPending(t)
    BY <2>2 DEF TurnDrain, TurnDrainMail, TakePending, DrainMail, TurnHookAccepts,
       TurnRecordPending
  <2>3. CASE TurnHookBlocks(t)
    <3>1. PICK l \in {"t_record", "t_drain", "t_loop"} : Goto(t, l)
      BY <2>3 DEF TurnHookBlocks
    <3> QED BY <2>3, <3>1 DEF TurnHookBlocks
  <2>4. CASE TurnTool(t) \/ TurnToolAsks(t) \/ TurnCreatesGoal(t) \/ TurnCompletesGoal(t)
    BY <2>4 DEF TurnTool, TurnToolAsks, TurnCreatesGoal, TurnCompletesGoal, ToolCall,
       Resumes, FollowUpPc
  <2>5. CASE TurnDenied(t)
    BY <2>5 DEF TurnDenied, ToolCall, Resumes
  <2>6. CASE TurnAsk(t) \/ TurnAnswered(t) \/ TurnFinal(t) \/ TurnFollowUp(t) \/ TurnError(t)
    BY <2>6 DEF TurnAsk, TurnAnswered, TurnFinal, TurnFollowUp, TurnError, Resumes,
       FollowUpPc
  <2>7. CASE TurnPost(t) \/ TurnStopHookBlocks(t) \/ TurnLoop(t) \/ OtherRun(t) \/ TaskEnd(t)
    BY <2>7 DEF TurnPost, TurnStopHookBlocks, TurnLoop, OtherRun, TaskEnd, Resumes
  <2> QED BY <2>1, <2>2, <2>3, <2>4, <2>5, <2>6, <2>7 DEF RunTask
<1>3. ASSUME ~TurnDenied(t), ~TurnCreatesGoal(t) PROVE OwnStep(t)
  <2> USE <1>1 DEF OwnStep
  <2>0. /\ pc[t] # "idle" /\ (pc'[t] \in AbortPc => pc[t] \in AbortPc)
        /\ pc'[t] \notin DecidedPc /\ pc'[t] \notin AbortPc
    BY <1>2 DEF RunPc, AbortPc, DecidedPc
  <2>1. CASE TurnNoWork(t) \/ TurnCancelledEarly(t) \/ TurnRefuse(t) \/ TurnRecordInput(t)
    BY <2>0, <2>1 DEF TurnNoWork, TurnCancelledEarly, TurnRefuse, TurnRecordInput
  <2>2. CASE TurnDrain(t) \/ TurnDrainMail(t) \/ TurnHookAccepts(t) \/ TurnRecordPending(t)
    BY <2>0, <2>2 DEF TurnDrain, TurnDrainMail, TakePending, DrainMail, TurnHookAccepts,
       TurnRecordPending
  <2>3. CASE TurnHookBlocks(t)
    BY <2>0, <2>3 DEF TurnHookBlocks
  <2>4. CASE TurnTool(t) \/ TurnToolAsks(t) \/ TurnCompletesGoal(t)
    BY <2>0, <2>4 DEF TurnTool, TurnToolAsks, TurnCompletesGoal
  <2>5. CASE TurnAsk(t) \/ TurnAnswered(t) \/ TurnFinal(t) \/ TurnFollowUp(t) \/ TurnError(t)
    BY <2>0, <2>5 DEF TurnAsk, TurnAnswered, TurnFinal, TurnFollowUp, TurnError
  <2>6. CASE TurnPost(t) \/ TurnStopHookBlocks(t) \/ TurnLoop(t) \/ OtherRun(t) \/ TaskEnd(t)
    BY <2>0, <2>6 DEF TurnPost, TurnStopHookBlocks, TurnLoop, OtherRun, TaskEnd
  <2> QED BY <1>3, <2>1, <2>2, <2>3, <2>4, <2>5, <2>6 DEF RunTask
<1>4. ASSUME OwnStep(t), Calm, Calm' PROVE Occupied' /\ MailWatched'
  <2>1. Occupied /\ MailWatched
    BY <1>4 DEF MailInv
  <2>2. ~SeesTo(t) /\ pc[t] \notin MaybePc
    BY <1>2 DEF SeesTo, RunPc, MaybePc, StartPc, AbortPc, KeeperPc, FinishPc
  <2> QED BY <1>2, <1>4, <2>1, <2>2, SameWatch
<1>5. CASE TurnDenied(t)
  <2>1. bounds'.goals = bounds.goals /\ goal' = goal /\ bounds'.denials = bounds.denials + 1
    BY <1>1, <1>5 DEF TurnDenied
  <2>2. bounds'.denials # 0
    BY <1>1, <2>1
  <2> QED BY <2>1, <2>2 DEF Calm, MailInv, GoalFirst
<1>6. CASE TurnCreatesGoal(t)
  <2>1. /\ goal = "none" /\ goal' = "active" /\ doomed' = doomed
        /\ bounds'.goals = bounds.goals + 1 /\ bounds'.interrupts = bounds.interrupts
        /\ bounds'.denials = bounds.denials
        /\ cur' = cur /\ hts' = hts /\ \A q \in Actor : q # t => pc'[q] = pc[q]
    BY <1>1, <1>6 DEF TurnCreatesGoal
  <2>2. GoalFirst'
    BY <1>1, <2>1 DEF GoalFirst
  <2>3. ASSUME Calm' PROVE CalmState' /\ Occupied' /\ MailWatched'
    <3>1. Calm
      BY <1>1, <2>1, <2>3 DEF Calm
    <3>2. CalmState /\ Occupied /\ MailWatched
      BY <3>1 DEF MailInv
    <3>3. CalmState'
      BY <1>2, <2>1, <3>2 DEF CalmState, RunPc, AbortPc
    <3>4. \A q \in Actor : (SeesTo(q) => SeesTo(q)') /\ (pc[q] \in MaybePc => pc'[q] \in MaybePc)
      BY <1>2, <2>1 DEF SeesTo, Some, RunPc, MaybePc, StartPc, AbortPc, KeeperPc, FinishPc
    <3>5. Occupied'
      BY <1>2, <3>2, <3>4 DEF Occupied, Some
    <3>6. MailWatched'
      BY <1>2, <3>2, <3>4 DEF MailWatched, HasTriggerMail
    <3> QED BY <3>3, <3>5, <3>6
  <2> QED BY <2>2, <2>3
<1>7. CASE ~TurnDenied(t) /\ ~TurnCreatesGoal(t)
  BY <1>3, <1>4, <1>7, OwnStepCalm
<1> QED BY <1>5, <1>6, <1>7

\* The last task of a turn keeps it until it is recorded as over; then it looks
\* for work before it ends.
LEMMA FinishTaskMail ==
    ASSUME MailInv, NEW t \in Turn, FinishTask(t)
    PROVE  GoalFirst' /\ (Calm' => CalmState' /\ Occupied' /\ MailWatched')
<1> USE DEF At, Goto, turnVars, queueVars, taskVars, goalVars, localVars
<1>1. /\ pc \in [Actor -> Pc] /\ hts \in [Actor -> TS \cup {NoTS}]
      /\ active \in [ts : TS \cup {NoTS}, tasks : SUBSET Turn]
  BY DEF MailInv, IndInv, TypeOK, LocalType, TurnType
<1>2. OwnStep(t) /\ pc[t] \in FinishPc /\ mail' = mail
  <2> USE <1>1 DEF OwnStep, FinishPc, AbortPc, DecidedPc
  <2>1. CASE FinishRemove(t) \/ FinishTakeInput(t) \/ FinishRecord(t)
    BY <2>1 DEF FinishRemove, FinishTakeInput, FinishRecord
  <2>2. CASE FinishGoal(t)
    BY <2>2 DEF FinishGoal, Accounted
  <2>3. CASE FinishEvent(t) \/ FinishClear(t)
    BY <2>3 DEF FinishEvent, FinishClear
  <2> QED BY <2>1, <2>2, <2>3 DEF FinishTask
<1>3. ASSUME Calm' PROVE Occupied' /\ MailWatched'
  <2>1. Occupied /\ MailWatched
    BY <1>2, <1>3, OwnStepCalm DEF MailInv
  <2>2. pc[t] \notin MaybePc \cup StartPc \cup AbortPc
    BY <1>2 DEF MaybePc, FinishPc, StartPc, AbortPc
  <2>3. CASE FinishRemove(t)
    <3>1. active'.ts = active.ts /\ active'.tasks = active.tasks \ {t} /\ pc[t] = "f_remove"
      BY <1>1, <2>3 DEF FinishRemove
    <3>2. CASE Some /\ active'.tasks = {}
      <4>1. pc'[t] = "f_take" /\ hts'[t] = active.ts
        BY <1>1, <2>3, <3>2 DEF FinishRemove
      <4> QED BY <3>1, <3>2, <4>1, Seen DEF SeesTo, KeeperPc, FinishPc, Some
    <3>3. CASE active'.tasks # {}
      BY <3>3, Seen
    <3>4. CASE ~Some
      <4>1. active.tasks = {}
        BY <3>4 DEF Some, MailInv, IndInv, TypeOK, TurnType
      <4>2. active' = active
        BY <1>1, <2>3, <4>1 DEF FinishRemove
      <4> QED BY <1>2, <2>1, <2>2, <3>1, <4>2, SameWatch DEF SeesTo, KeeperPc
    <3> QED BY <3>2, <3>3, <3>4
  <2>4. CASE FinishTakeInput(t) \/ FinishRecord(t) \/ FinishGoal(t) \/ FinishEvent(t)
    <3>1. active' = active /\ hts' = hts /\ pc'[t] \in FinishPc \ {"f_remove"}
      BY <1>1, <2>4 DEF FinishTakeInput, FinishRecord, FinishGoal, FinishEvent, FinishPc
    <3>2. SeesTo(t) => SeesTo(t)'
      BY <2>2, <3>1 DEF SeesTo, KeeperPc, Some
    <3> QED BY <1>2, <2>1, <2>2, <3>1, <3>2, SameWatch
  <2>5. CASE FinishClear(t) /\ hts[t] # NoTS /\ Reserved(hts[t])
    <3>1. active' = NoActive /\ pc'[t] = "m_idle"
      BY <1>1, <2>5 DEF FinishClear
    <3> QED BY <3>1 DEF Occupied, MailWatched, Some, NoActive, MaybePc
  <2>6. CASE FinishClear(t) /\ ~(hts[t] # NoTS /\ Reserved(hts[t]))
    <3>1. active' = active
      BY <2>6 DEF FinishClear
    <3>2. CASE Some /\ hts[t] = active.ts
      BY <2>6, <3>1, <3>2, Seen DEF Reserved, Some
    <3>3. CASE ~(Some /\ hts[t] = active.ts)
      BY <1>2, <2>1, <2>2, <3>1, <3>3, SameWatch DEF SeesTo
    <3> QED BY <3>2, <3>3
  <2> QED BY <2>3, <2>4, <2>5, <2>6 DEF FinishTask
<1> QED BY <1>2, <1>3, OwnStepCalm

\* It is not calm when a task is dropped.
LEMMA DropTaskMail ==
    ASSUME MailInv, NEW t \in Turn, DropTask(t)
    PROVE  GoalFirst' /\ ~Calm'
  BY DEF DropTask, MailInv, GoalFirst, Calm

\* A client's operation that takes an actor out of nothing it sees to: mail is
\* looked at by the one who delivers it, and a new turn by the one who spawns it.
LEMMA EnvironmentMail ==
    ASSUME MailInv, LoopOp \/ ExtOp \/ CallStep
    PROVE  GoalFirst' /\ (Calm' => CalmState' /\ Occupied' /\ MailWatched')
<1> DEFINE Still == GoalFirst' /\ (Calm' => CalmState' /\ Occupied' /\ MailWatched')
<1> USE DEF At, Goto, Ready, turnVars, queueVars, taskVars, goalVars, localVars
<1>1. /\ pc \in [Actor -> Pc] /\ cur \in [Actor -> Turn \cup {NoTurn}]
      /\ bounds.goals \in Nat /\ bounds.interrupts \in Nat
      /\ bounds \in [interrupts : 0..MaxInterrupts, denials : 0..MaxInterrupts,
                     goals : 0..MaxGoalSets]
  BY DEF MailInv, IndInv, TypeOK, LocalType, GoalType
    \* The operations that give an actor nothing to do.
<1>2. ASSUME active' = active, mail' = mail, pc' = pc, hts' = hts, cur' = cur, goal' = goal,
             bounds' = bounds, doomed' = doomed
      PROVE  Still
  BY <1>2 DEF MailInv, GoalFirst, Calm, CalmState, Occupied, MailWatched, SeesTo, Some,
     HasTriggerMail
    \* The operations that give the waiting actor a something to do.
<1>3. ASSUME NEW a \in Actor, NEW l \in Pc, pc[a] \in {"idle", "e_apply", "q_queue"},
             Goto(a, l),
             active' = active, mail' \subseteq mail \/ l = "m_idle", hts' = hts,
             \A q \in Actor : q # a => cur'[q] = cur[q],
             l \in AbortPc => a = Loop /\ cur'[a] # NoTurn, l \notin DecidedPc, a # Guard,
             goal' = goal \/ bounds'.goals = bounds.goals + 1, doomed' = doomed,
             bounds'.goals = bounds.goals \/ bounds'.goals = bounds.goals + 1,
             bounds'.interrupts = bounds.interrupts, bounds'.denials = bounds.denials
      PROVE  Still
  <2>1. GoalFirst' /\ (Calm' => Calm)
    BY <1>1, <1>3 DEF MailInv, GoalFirst, Calm
  <2>2. ASSUME Calm' PROVE CalmState' /\ Occupied' /\ MailWatched'
    <3>1. Calm /\ CalmState /\ Occupied /\ MailWatched
      BY <2>1, <2>2 DEF MailInv
    <3>2. \A q \in Actor : pc[q] \in DecidedPc => goal' = "active"
      BY <1>1, <1>3, <2>2 DEF MailInv, GoalFirst, Calm, CalmState
    <3>3. CalmState'
      BY <1>1, <1>3, <3>1, <3>2 DEF CalmState
    <3>4. pc[a] \notin MaybePc \cup StartPc \cup AbortPc \cup KeeperPc
      BY <1>3 DEF MaybePc, StartPc, AbortPc, KeeperPc, FinishPc
    <3>5. \A q \in Actor : (SeesTo(q) => SeesTo(q)') /\ (pc[q] \in MaybePc => pc'[q] \in MaybePc)
      BY <1>3, <3>4 DEF SeesTo, Some
    <3>6. Occupied'
      BY <1>3, <3>1, <3>5 DEF Occupied, Some
    <3>7. MailWatched'
      BY <1>1, <1>3, <3>1, <3>5 DEF MailWatched, HasTriggerMail, MaybePc
    <3> QED BY <3>3, <3>6, <3>7
  <2> QED BY <2>1, <2>2
<1> HIDE DEF Still
<1>4. ASSUME NEW i \in UserIn, LoopSteerRefused(i) \/ SteerInput(i) PROVE Still
  BY <1>2, <1>4 DEF LoopSteerRefused, SteerInput
<1>5. ASSUME NEW t \in Turn, NEW program, NEW input, Ready, Spawn(t, program, input) PROVE Still
  <2>1. cur'[Loop] # NoTurn /\ \A q \in Actor : q # Loop => cur'[q] = cur[q]
    BY <1>1, <1>5 DEF Spawn
  <2>2. "a_take" \in Pc /\ "a_take" \notin DecidedPc
    BY DEF Pc, AbortPc, DecidedPc
  <2>3. /\ Goto(Loop, "a_take") /\ active' = active /\ mail' = mail /\ hts' = hts
        /\ goal' = goal /\ bounds' = bounds /\ doomed' = doomed /\ pc[Loop] = "idle"
    BY <1>5 DEF Spawn
  <2> QED BY <1>3, <2>1, <2>2, <2>3
<1>6. ASSUME NEW i \in UserIn, LoopSpawnTurn(i) PROVE Still
  BY <1>5, <1>6 DEF LoopSpawnTurn, Unused
<1>7. ASSUME NEW program \in OtherProg, LoopSpawnOther(program) PROVE Still
  BY <1>5, <1>7 DEF LoopSpawnOther, Unused
<1>8. ASSUME NEW i \in MailIn, LoopMail(i) PROVE Still
  <2>1. /\ active' = active /\ hts' = hts /\ cur' = cur /\ goal' = goal /\ bounds' = bounds
        /\ doomed' = doomed /\ mail' = mail \cup {i} /\ pc[Loop] = "idle"
    BY <1>8 DEF LoopMail
  <2>2. CASE i \in TriggerIn
    <3>1. Goto(Loop, "m_idle") /\ "m_idle" \in Pc \ (AbortPc \cup DecidedPc)
      BY <1>8, <2>2 DEF LoopMail, Pc, MaybePc, AbortPc, DecidedPc
    <3> QED BY <1>3, <2>1, <3>1
  <2>3. CASE i \notin TriggerIn
    <3>1. pc' = pc
      BY <1>1, <1>8, <2>3 DEF LoopMail
    <3> QED BY <2>1, <2>3, <3>1 DEF Still, MailInv, GoalFirst, Calm, CalmState, Occupied,
       MailWatched, SeesTo, Some, HasTriggerMail
  <2> QED BY <2>2, <2>3
<1>9. ASSUME NEW i \in QueueIn, LoopInject(i) PROVE Still
  BY <1>2, <1>9 DEF LoopInject
<1>10. ASSUME NEW i \in QueueIn, LoopInjectFails(i) PROVE Still
  <2>1. "q_queue" \in Pc \ (AbortPc \cup DecidedPc)
    BY DEF Pc, EndPc, AbortPc, DecidedPc
  <2> QED BY <1>3, <1>10, <2>1 DEF LoopInjectFails
<1>11. ASSUME NEW t \in Turn, LoopAnswer(t) PROVE Still
  BY <1>2, <1>11 DEF LoopAnswer
<1>12. ASSUME LoopInterrupt \/ LoopShutdown PROVE Still
  <2>1. /\ bounds'.interrupts = bounds.interrupts + 1 /\ bounds'.goals = bounds.goals
        /\ goal' = goal
    BY <1>1, <1>12 DEF LoopInterrupt, LoopShutdown
  <2>2. bounds'.interrupts # 0
    BY <1>1, <2>1
  <2> QED BY <2>1, <2>2 DEF Still, Calm, GoalFirst, MailInv
<1>13. ASSUME NEW i \in ShellIn, ExtShellOutput(i) PROVE Still
  BY <1>2, <1>13 DEF ExtShellOutput
<1>14. ASSUME LoopQueue \/ ExtApplyGoal PROVE Still
  <2>1. /\ "idle" \in Pc \ (AbortPc \cup DecidedPc)
        /\ "m_idle" \in Pc \ (AbortPc \cup DecidedPc)
    BY DEF Pc, EndPc, MaybePc, AbortPc, DecidedPc
  <2>2. CASE LoopQueue
    <3>1. /\ Goto(Loop, "idle") /\ pc[Loop] = "q_queue" /\ active' = active /\ mail' = mail
          /\ hts' = hts /\ cur' = cur /\ goal' = goal /\ bounds' = bounds /\ doomed' = doomed
      BY <2>2 DEF LoopQueue
    <3> QED BY <1>3, <2>1, <3>1
  <2>3. CASE ExtApplyGoal
    <3>1. PICK l \in {"idle", "m_idle"} : Goto(Ext, l)
      BY <2>3 DEF ExtApplyGoal
    <3>2. /\ pc[Ext] = "e_apply" /\ active' = active /\ mail' = mail
          /\ hts' = hts /\ cur' = cur /\ goal' = goal /\ bounds' = bounds /\ doomed' = doomed
      BY <2>3 DEF ExtApplyGoal
    <3> QED BY <1>3, <2>1, <3>1, <3>2
  <2> QED BY <1>14, <2>2, <2>3
<1>15. ASSUME NEW status \in GoalStatus, ExtWriteGoal(status) PROVE Still
  <2>1. "e_apply" \in Pc \ (AbortPc \cup DecidedPc)
    BY DEF Pc, EndPc, AbortPc, DecidedPc
  <2>2. /\ bounds'.goals = bounds.goals + 1 /\ bounds'.interrupts = bounds.interrupts
        /\ bounds'.denials = bounds.denials
    BY <1>1, <1>15 DEF ExtWriteGoal
  <2> QED BY <1>3, <1>15, <2>1, <2>2 DEF ExtWriteGoal
<1>16. ASSUME ExtResumeGoal PROVE Still
  <2>1. "m_idle" \in Pc \ (AbortPc \cup DecidedPc)
    BY DEF Pc, MaybePc, AbortPc, DecidedPc
  <2>2. /\ bounds'.goals = bounds.goals + 1 /\ bounds'.interrupts = bounds.interrupts
        /\ bounds'.denials = bounds.denials
    BY <1>1, <1>16 DEF ExtResumeGoal
  <2>3. /\ Goto(Ext, "m_idle") /\ pc[Ext] = "idle" /\ active' = active /\ mail' = mail
        /\ hts' = hts /\ cur' = cur /\ doomed' = doomed
    BY <1>16 DEF ExtResumeGoal
  <2> QED BY <1>3, <2>1, <2>2, <2>3
<1> QED BY <1>4, <1>6, <1>7, <1>8, <1>9, <1>10, <1>11, <1>12, <1>13, <1>14, <1>15, <1>16 DEF
   LoopOp, ExtOp, CallStep, Still

\* Mail that asks for a turn never lies in the mailbox of an idle session that
\* has looked at it for the last time, however its delivery meets a turn that
\* ends, a turn that starts and a continuation that is being decided
\* (inter_agent_communication, maybe_start_turn_for_pending_work,
\* on_task_finished): MailWakes follows as the actors go on.
THEOREM MailNotForgotten == Spec => [](Calm => MailWatched)
<1>1. Init => MailInv
  <2>1. Init => IndInv
    BY InitInv
  <2> QED BY <2>1 DEF Init, MailInv, GoalFirst, CalmState, Occupied, MailWatched, Some,
     NoActive, HasTriggerMail, AbortPc, DecidedPc
<1>2. MailInv /\ IndInv' /\ [Next]_vars => MailInv'
  <2> DEFINE Still == GoalFirst' /\ (Calm' => CalmState' /\ Occupied' /\ MailWatched')
  <2> SUFFICES ASSUME MailInv, [Next]_vars PROVE Still
    BY DEF MailInv
  <2>1. CASE LoopOp \/ ExtOp \/ CallStep
    BY <2>1, EnvironmentMail
  <2>2. ASSUME NEW p \in Actor, ActorStep(p) PROVE Still
    BY <2>2, StartTaskMail, MaybeStartMail, GoalContinueMail, AbortMail DEF ActorStep
  <2>3. ASSUME NEW t \in Turn, TaskStep(t) PROVE Still
    BY <2>3, RunTaskMail, FinishTaskMail, DropTaskMail DEF TaskStep
  <2>4. CASE UNCHANGED vars
    BY <2>4 DEF vars, allButPc, turnVars, queueVars, taskVars, goalVars, localVars, MailInv,
       GoalFirst, Calm, CalmState, Occupied, MailWatched, SeesTo, Some, HasTriggerMail
  <2> QED BY <2>1, <2>2, <2>3, <2>4 DEF Next
<1>3. MailInv => (Calm => MailWatched)
  BY DEF MailInv
<1> QED BY Inductive, <1>1, <1>2, <1>3, PTL DEF Spec
=============================================================================
