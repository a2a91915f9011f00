--------------------------- MODULE TurnLifecycle ---------------------------
(***************************************************************************)
(* The turn scheduler of a Codex session (codex-rs/core): which task runs,  *)
(* who may cancel it, where input waits and how a finished turn hands over  *)
(* to the next one.  The state is Session::active_turn with its ActiveTurn  *)
(* and TurnState, the mailbox, the next-turn queue and the goal runtime.    *)
(*                                                                          *)
(* Every Rust future that touches this state is an actor: the submission    *)
(* loop (Loop), the abort spawned by the guardian's circuit breaker         *)
(* (Guard), callers from outside the loop such as the app server (Ext), and *)
(* the tokio task of every turn.  An action is what an actor does between   *)
(* two awaits that can interleave with the others, that is under one lock.  *)
(* The abstraction and the atomicity of each action are in README.md.       *)
(***************************************************************************)
EXTENDS Naturals, FiniteSets

CONSTANTS
    Turn,        \* turn ids (sub_id) this session may hand out
    Loop,        \* the submission loop
    Guard,       \* the task that aborts a turn after too many denials
    Ext,         \* calls that do not go through the submission loop
    UserIn,      \* user inputs (Op::UserInput / Op::UserTurn)
    MailIn,      \* inter-agent communications
    TriggerIn,   \* those of MailIn with trigger_turn set
    QueueIn,     \* approvals of a denied action: injected, else queued
    ShellIn,     \* outputs of auxiliary user shell commands: injected
    OtherProg,   \* programs of the tasks that are not regular turns
    NoTS,        \* no turn state (Option::None)
    NoTurn,      \* no turn id (Option::None)
    MaxInterrupts,  \* bound on interrupts and on guardian aborts, each
    MaxCalls,       \* bound on model requests that ask for a follow-up, per turn
    MaxGoalSets     \* bound on goal activations from outside

\* "plain": a shell command or undo, of kind Regular but deaf to input;
\* "compact": compaction or review, which refuse input.
OtherPrograms == {"plain", "compact"}
GoalStatus == {"none", "active", "paused", "complete"}

ASSUME ActorsAssumption ==
    /\ Loop \notin Turn /\ Guard \notin Turn /\ Ext \notin Turn
    /\ Loop # Guard /\ Loop # Ext /\ Guard # Ext
    /\ NoTurn \notin Turn /\ NoTurn # Loop /\ NoTurn # Guard /\ NoTurn # Ext
ASSUME InputsAssumption ==
    /\ TriggerIn \subseteq MailIn
    /\ UserIn \cap MailIn = {} /\ UserIn \cap QueueIn = {}
    /\ UserIn \cap ShellIn = {} /\ MailIn \cap QueueIn = {}
    /\ MailIn \cap ShellIn = {} /\ QueueIn \cap ShellIn = {}
    /\ Turn \cap (UserIn \cup MailIn \cup QueueIn \cup ShellIn) = {}
ASSUME BoundsAssumption ==
    /\ MaxInterrupts \in Nat /\ MaxCalls \in Nat /\ MaxGoalSets \in Nat
    /\ OtherProg \subseteq OtherPrograms

Actor == Turn \cup {Loop, Guard, Ext}

(***************************************************************************)
(* Items.  A continuation prompt is generated per continuation turn, so the *)
(* turn's id stands for it.                                                 *)
(***************************************************************************)
Submitted == UserIn \cup MailIn \cup QueueIn \cup ShellIn
Item == Submitted \cup Turn

(***************************************************************************)
(* Identities of Arc<Mutex<TurnState>>: one is allocated when a starter     *)
(* reserves the session for turn t, or by either get_or_insert_with of      *)
(* start_task for t.                                                        *)
(***************************************************************************)
TS == Turn \X {"reserve", "first", "second"}

ASSUME NoTSAssumption == NoTS \notin TS

VARIABLES
    active,     \* Session::active_turn: turn state identity and task ids
    pend,       \* TurnState::pending_input, per turn state
    accepts,    \* mailbox_delivery_phase = CurrentTurn, per turn state
    appr,       \* turns whose request has a sender in this turn state
    mail,       \* Session::mailbox
    idle,       \* Session::idle_pending_input
    taken,      \* history: user inputs that an aborted task had or took
    history,    \* items recorded into the conversation
    refused,    \* items answered with a visible refusal (error, hook block)
    unsent,     \* inputs nobody has submitted yet
    prog,       \* program of each turn id, "none" until it is allocated
    inp,        \* the turn's own input, until it is recorded
    cancelled,  \* tasks whose cancellation token is cancelled
    doomed,     \* tasks whose JoinHandle was aborted
    ev,         \* terminal events sent for each turn
    calls,      \* follow-up requests each turn has made
    goal,       \* status of the thread goal; "complete" also if out of budget
    suppressed, \* goal_runtime.continuation_suppressed
    contTurn,   \* goal_runtime.continuation_turn_id
    permit,     \* holder of goal_runtime.continuation_lock
    bounds,     \* uses of the bounded environment steps
    pc,         \* where each actor is
    cur,        \* the turn an actor is starting
    ret,        \* where an actor goes on after starting a turn
    loc,        \* input items an actor holds in local variables
    held,       \* tasks drained by an aborting actor
    victim,     \* the task handle_task_abort works on
    hts         \* the turn state an actor holds a reference to

turnVars  == <<active, pend, accepts, appr>>
queueVars == <<mail, idle, taken>>
itemVars  == <<history, refused, unsent>>
taskVars  == <<prog, inp, cancelled, doomed, ev, calls>>
goalVars  == <<goal, suppressed, contTurn, permit>>
localVars == <<cur, ret, loc, held, victim, hts>>
allButPc == <<turnVars, queueVars, itemVars, taskVars, goalVars, bounds, localVars>>
vars == <<allButPc, pc>>

NoActive == [ts |-> NoTS, tasks |-> {}]
Some == active.ts # NoTS
Reserved(ts) == active.ts = ts /\ active.tasks = {}

\* Labels.  "t_*" run a task, "f_*" finish it, "a_*" abort, "s_*" start_task,
\* "m_*" maybe_start_turn_for_pending_work, "g_*" continue a goal.
RunPc    == {"t_run", "t_drain", "t_mail", "t_hook", "t_record", "t_sample",
             "t_ask", "t_wait", "t_post", "t_loop", "t_other", "t_end"}
FinishPc == {"f_remove", "f_take", "f_record", "f_goal", "f_event", "f_clear"}
StartPc  == {"s_idle", "s_pend", "s_mail", "s_lock1", "s_push", "s_lock2"}
MaybePc  == {"m_idle", "m_mail", "m_reserve"}
GoalPc   == {"g_permit", "g_cand", "g_cand2", "g_reserve", "g_reread",
             "g_push", "g_still"}
AbortPc  == {"a_take", "a_cancel", "a_kill", "a_event", "a_goal", "a_pause", "a_clear"}
EndPc    == {"done", "dead", "idle", "stopped", "q_queue", "e_apply"}
Pc       == RunPc \cup FinishPc \cup StartPc \cup MaybePc \cup GoalPc
              \cup AbortPc \cup EndPc \cup {"unborn"}

Init ==
    /\ active = NoActive
    /\ pend = [s \in TS |-> {}]
    /\ accepts = [s \in TS |-> TRUE]
    /\ appr = [s \in TS |-> {}]
    /\ mail = {} /\ idle = {} /\ taken = {} /\ history = {} /\ refused = {}
    /\ unsent = Submitted
    /\ prog = [t \in Turn |-> "none"]
    /\ inp = [t \in Turn |-> {}]
    /\ cancelled = {} /\ doomed = {}
    /\ ev = [t \in Turn |-> {}]
    /\ calls = [t \in Turn |-> 0]
    /\ goal = "none" /\ suppressed = FALSE
    /\ contTurn = NoTurn /\ permit = NoTurn
    /\ bounds = [interrupts |-> 0, denials |-> 0, goals |-> 0]
    /\ pc = [p \in Actor |-> IF p \in Turn THEN "unborn" ELSE "idle"]
    /\ cur = [p \in Actor |-> NoTurn]
    /\ ret = [p \in Actor |-> "idle"]
    /\ loc = [p \in Actor |-> {}]
    /\ held = [p \in Actor |-> {}]
    /\ victim = [p \in Actor |-> NoTurn]
    /\ hts = [p \in Actor |-> NoTS]

----------------------------------------------------------------------------
(* Helpers *)

At(p, l) == pc[p] = l
Goto(p, l) == pc' = [pc EXCEPT ![p] = l]

\* Where an actor goes when the work it was called for is over.
End(p) == IF p \in Turn THEN "done" ELSE "idle"

Unused == {t \in Turn : prog[t] = "none"}

\* An abort has drained task t from the active turn.
BeingAborted(t) == \E p \in Actor : t \in held[p]
Aborted(t) == BeingAborted(t) \/ t \in cancelled

\* The user input that the tasks of the active turn have been given: it waits
\* in the turn's buffer, or a task has it.
Given ==
    {i \in UserIn : \E t \in active.tasks : i \in pend[active.ts] \cup inp[t] \cup loc[t]}
\* An aborted task takes input as long as it runs.
NoteTaken(t, got) == taken' = IF Aborted(t) THEN taken \cup (got \cap UserIn) ELSE taken

\* Only a task of kind Regular takes input.
Steerable(t) == prog[t] # "compact"

HasTriggerMail == mail \cap TriggerIn # {}

\* Session::has_pending_input: the active turn's buffer, then the mailbox.
HasPendingInput ==
    \/ Some /\ pend[active.ts] # {}
    \/ (Some => accepts[active.ts]) /\ mail # {}

\* Mutant: the buffer is cloned instead of swapped out.
TakePendingClone(p, mailPc, nextPc) ==
    /\ loc' = IF Some THEN [loc EXCEPT ![p] = @ \cup pend[active.ts]] ELSE loc
    /\ Goto(p, IF Some => accepts[active.ts] THEN mailPc ELSE nextPc)
    /\ UNCHANGED pend

\* Session::get_pending_input, first half: the active turn's buffer.  It goes
\* on to the mailbox unless the active turn has closed it.
TakePending(p, mailPc, nextPc) ==
    /\ IF Some
       THEN /\ loc' = [loc EXCEPT ![p] = @ \cup pend[active.ts]]
            /\ pend' = [pend EXCEPT ![active.ts] = {}]
       ELSE UNCHANGED <<loc, pend>>
    /\ Goto(p, IF Some => accepts[active.ts] THEN mailPc ELSE nextPc)

\* Session::get_pending_input, second half: MailboxReceiver::drain.
DrainMail(p, nextPc) ==
    /\ loc' = [loc EXCEPT ![p] = @ \cup mail]
    /\ mail' = {}
    /\ Goto(p, nextPc)

\* Mutant: a starter that relies on the reservation being there.
GetOrInsertNothing(ts) == active

\* active.get_or_insert_with(ActiveTurn::default)
GetOrInsert(ts) == IF Some THEN active ELSE [ts |-> ts, tasks |-> {}]

----------------------------------------------------------------------------
(* Session::start_task for turn cur[p] *)

\* TurnStarted resets the continuation suppression unless this is the
\* continuation turn; then the queued next-turn items are taken.
StartTakeIdle(p) ==
    /\ At(p, "s_idle")
    /\ suppressed' = (suppressed /\ contTurn = cur[p])
    /\ loc' = [loc EXCEPT ![p] = @ \cup idle]
    /\ idle' = {}
    /\ Goto(p, "s_pend")
    /\ UNCHANGED <<turnVars, mail, taken, itemVars, taskVars, goal, contTurn, permit,
                   bounds, cur, ret, held, victim, hts>>

StartTakePending(p) ==
    /\ At(p, "s_pend")
    /\ TakePending(p, "s_mail", "s_lock1")
    /\ UNCHANGED <<active, accepts, appr, queueVars, itemVars, taskVars, goalVars,
                   bounds, cur, ret, held, victim, hts>>

StartDrainMail(p) ==
    /\ At(p, "s_mail")
    /\ DrainMail(p, "s_lock1")
    /\ UNCHANGED <<turnVars, idle, taken, itemVars, taskVars, goalVars, bounds,
                   cur, ret, held, victim, hts>>

\* First lock of active_turn: find or create the turn state for the input.
StartLockState(p) ==
    /\ At(p, "s_lock1")
    /\ active' = GetOrInsert(<<cur[p], "first">>)
    /\ hts' = [hts EXCEPT ![p] = active'.ts]
    /\ Goto(p, "s_push")
    /\ UNCHANGED <<pend, accepts, appr, queueVars, itemVars, taskVars, goalVars,
                   bounds, cur, ret, loc, held, victim>>

StartPushInput(p) ==
    /\ At(p, "s_push")
    /\ pend' = [pend EXCEPT ![hts[p]] = @ \cup loc[p]]
    /\ loc' = [loc EXCEPT ![p] = {}]
    /\ Goto(p, "s_lock2")
    /\ UNCHANGED <<active, accepts, appr, queueVars, itemVars, taskVars, goalVars,
                   bounds, cur, ret, held, victim, hts>>

\* Second lock: spawn the tokio task and register it in the active turn.
StartAddTask(p) ==
    /\ At(p, "s_lock2")
    /\ LET turn == GetOrInsert(<<cur[p], "second">>)
       IN active' = [turn EXCEPT !.tasks = @ \cup {cur[p]}]
    /\ pc' = [pc EXCEPT ![cur[p]] = IF prog[cur[p]] = "turn" THEN "t_run" ELSE "t_other",
                        ![p] = ret[p]]
    /\ permit' = IF permit = p THEN NoTurn ELSE permit
    /\ cur' = [cur EXCEPT ![p] = NoTurn]
    /\ hts' = [hts EXCEPT ![p] = NoTS]
    /\ UNCHANGED <<pend, accepts, appr, queueVars, itemVars, taskVars,
                   goal, suppressed, contTurn, bounds, ret, loc, held, victim>>

StartTask(p) ==
    \/ StartTakeIdle(p)  \/ StartTakePending(p) \/ StartDrainMail(p)
    \/ StartLockState(p) \/ StartPushInput(p)   \/ StartAddTask(p)

----------------------------------------------------------------------------
(* Session::maybe_start_turn_for_pending_work *)

MaybeCheckIdle(p) ==
    /\ At(p, "m_idle")
    /\ Goto(p, IF idle # {} THEN "m_reserve" ELSE "m_mail")
    /\ UNCHANGED allButPc

MaybeCheckMail(p) ==
    /\ At(p, "m_mail")
    /\ Goto(p, IF HasTriggerMail THEN "m_reserve" ELSE ret[p])
    /\ UNCHANGED allButPc

\* The session is reserved with an ActiveTurn that has no task yet.
MaybeReserve(p) ==
    /\ At(p, "m_reserve")
    /\ ~Some
    /\ \E t \in Unused :
         /\ active' = [ts |-> <<t, "reserve">>, tasks |-> {}]
         /\ prog' = [prog EXCEPT ![t] = "turn"]
         /\ cur' = [cur EXCEPT ![p] = t]
    /\ Goto(p, "s_idle")
    /\ UNCHANGED <<pend, accepts, appr, queueVars, itemVars, inp, cancelled, doomed,
                   ev, calls, goalVars, bounds, ret, loc, held, victim, hts>>

MaybeBusy(p) ==
    /\ At(p, "m_reserve")
    /\ Some
    /\ Goto(p, ret[p])
    /\ UNCHANGED allButPc

MaybeStart(p) ==
    MaybeCheckIdle(p) \/ MaybeCheckMail(p) \/ MaybeReserve(p) \/ MaybeBusy(p)

----------------------------------------------------------------------------
(* Session::maybe_start_goal_continuation_turn *)

GoalAcquire(p) ==
    /\ At(p, "g_permit")
    /\ permit = NoTurn
    /\ permit' = p
    /\ Goto(p, "g_cand")
    /\ UNCHANGED <<turnVars, queueVars, itemVars, taskVars, goal, suppressed,
                   contTurn, bounds, localVars>>

\* The candidate reads idleness, suppression and the goal, then idleness again.
GoalCandidate(p, here, next, wanted) ==
    /\ At(p, here)
    /\ LET go == ~Some /\ idle = {} /\ ~HasTriggerMail /\ wanted
       IN /\ Goto(p, IF go THEN next ELSE End(p))
          /\ permit' = IF go THEN permit ELSE NoTurn
    /\ UNCHANGED <<turnVars, queueVars, itemVars, taskVars, goal, suppressed,
                   contTurn, bounds, localVars>>

GoalCheck(p) == GoalCandidate(p, "g_cand", "g_cand2", ~suppressed /\ goal = "active")
GoalRecheck(p) == GoalCandidate(p, "g_cand2", "g_reserve", TRUE)

GoalReserve(p) ==
    /\ At(p, "g_reserve")
    /\ ~Some
    /\ \E t \in Unused :
         /\ active' = [ts |-> <<t, "reserve">>, tasks |-> {}]
         /\ prog' = [prog EXCEPT ![t] = "turn"]
         /\ cur' = [cur EXCEPT ![p] = t]
         /\ hts' = [hts EXCEPT ![p] = <<t, "reserve">>]
    /\ Goto(p, "g_reread")
    /\ UNCHANGED <<pend, accepts, appr, queueVars, itemVars, inp, cancelled, doomed,
                   ev, calls, goalVars, bounds, ret, loc, held, victim>>

\* Mutant: the early return forgets the continuation permit.
GoalBusyKeepsPermit(p) ==
    /\ At(p, "g_reserve")
    /\ Some
    /\ Goto(p, End(p))
    /\ UNCHANGED allButPc

GoalBusy(p) ==
    /\ At(p, "g_reserve")
    /\ Some
    /\ permit' = NoTurn
    /\ Goto(p, End(p))
    /\ UNCHANGED <<turnVars, queueVars, itemVars, taskVars, goal, suppressed,
                   contTurn, bounds, localVars>>

\* Mutant: giving up the reservation forgets the continuation permit.
GiveUpReservationOnly(p) ==
    /\ active' = IF Reserved(hts[p]) THEN NoActive ELSE active
    /\ cur' = [cur EXCEPT ![p] = NoTurn]
    /\ hts' = [hts EXCEPT ![p] = NoTS]
    /\ Goto(p, End(p))
    /\ UNCHANGED permit

\* clear_reserved_goal_continuation_turn, and the return that follows it.
GiveUpReservation(p) ==
    /\ active' = IF Reserved(hts[p]) THEN NoActive ELSE active
    /\ permit' = NoTurn
    /\ cur' = [cur EXCEPT ![p] = NoTurn]
    /\ hts' = [hts EXCEPT ![p] = NoTS]
    /\ Goto(p, End(p))

GoalReread(p) ==
    /\ At(p, "g_reread")
    /\ \/ /\ goal = "active"
          /\ Goto(p, "g_push")
          /\ UNCHANGED <<active, permit, cur, hts>>
       \/ /\ goal # "active"
          /\ GiveUpReservation(p)
    /\ UNCHANGED <<pend, accepts, appr, queueVars, itemVars, taskVars, goal,
                   suppressed, contTurn, bounds, ret, loc, held, victim>>

GoalPushPrompt(p) ==
    /\ At(p, "g_push")
    /\ pend' = [pend EXCEPT ![hts[p]] = @ \cup {cur[p]}]
    /\ Goto(p, "g_still")
    /\ UNCHANGED <<active, accepts, appr, queueVars, itemVars, taskVars, goalVars,
                   bounds, localVars>>

GoalStillReserved(p) ==
    /\ At(p, "g_still")
    /\ \/ /\ Reserved(hts[p])
          /\ contTurn' = cur[p]
          /\ ret' = [ret EXCEPT ![p] = End(p)]
          /\ Goto(p, "s_idle")
          /\ UNCHANGED <<active, permit, cur, hts>>
       \/ /\ ~Reserved(hts[p])
          /\ GiveUpReservation(p)
          /\ UNCHANGED <<contTurn, ret>>
    /\ UNCHANGED <<pend, accepts, appr, queueVars, itemVars, taskVars, goal,
                   suppressed, bounds, loc, held, victim>>

GoalContinue(p) ==
    \/ GoalAcquire(p) \/ GoalCheck(p)  \/ GoalRecheck(p)    \/ GoalReserve(p)
    \/ GoalBusy(p)    \/ GoalReread(p) \/ GoalPushPrompt(p) \/ GoalStillReserved(p)

----------------------------------------------------------------------------
(* Session::abort_all_tasks and Session::abort_turn_if_active *)

\* spawn_task aborts with Replaced before it starts its own turn.
Interrupted(p) == cur[p] = NoTurn

\* take_active_turn and drain_tasks.  hts keeps the turn only if it had tasks.
TakeTurn(p) ==
    /\ held' = [held EXCEPT ![p] = active.tasks]
    /\ hts' = [hts EXCEPT ![p] = IF active.tasks # {} THEN active.ts ELSE NoTS]
    /\ active' = NoActive
    /\ taken' = taken \cup Given
    /\ Goto(p, CASE active.tasks # {} -> "a_cancel"
                 [] active.tasks = {} /\ Interrupted(p) -> "a_goal"
                 [] OTHER -> "s_idle")

AbortTake(p) ==
    /\ At(p, "a_take")
    /\ \/ p = Loop /\ TakeTurn(p)
       \/ p = Guard /\ victim[p] \in active.tasks /\ TakeTurn(p)
       \/ /\ p = Guard /\ victim[p] \notin active.tasks
          /\ Goto(p, "idle")
          /\ UNCHANGED <<active, taken, held, hts>>
    /\ victim' = [victim EXCEPT ![p] = NoTurn]
    /\ UNCHANGED <<pend, accepts, appr, mail, idle, itemVars, taskVars, goalVars,
                   bounds, cur, ret, loc>>

NextHeld(p, u) == IF held[p] = {u} THEN "a_goal" ELSE "a_cancel"

\* handle_task_abort: if somebody cancelled the task before, only the handle is
\* dropped, which aborts the task.
AbortCancel(p) ==
    /\ At(p, "a_cancel")
    /\ \E u \in held[p] :
         IF u \in cancelled
         THEN /\ held' = [held EXCEPT ![p] = @ \ {u}]
              /\ doomed' = doomed \cup {u}
              /\ Goto(p, NextHeld(p, u))
              /\ UNCHANGED <<cancelled, victim>>
         ELSE /\ cancelled' = cancelled \cup {u}
              /\ victim' = [victim EXCEPT ![p] = u]
              /\ Goto(p, "a_kill")
              /\ UNCHANGED <<held, doomed>>
    /\ UNCHANGED <<turnVars, queueVars, itemVars, prog, inp, ev, calls,
                   goalVars, bounds, cur, ret, loc, hts>>

\* The task notified `done` or the grace period is over: handle.abort().
AbortKill(p) ==
    /\ At(p, "a_kill")
    /\ doomed' = doomed \cup {victim[p]}
    /\ Goto(p, "a_event")
    /\ UNCHANGED <<turnVars, queueVars, itemVars, prog, inp, cancelled, ev, calls,
                   goalVars, bounds, localVars>>

\* Mutant: no TurnAborted for a task that got its TurnComplete out.
AbortEventUnlessComplete(p) ==
    /\ At(p, "a_event")
    /\ ev' = [ev EXCEPT ![victim[p]] = IF @ = {} THEN {"aborted"} ELSE @]
    /\ held' = [held EXCEPT ![p] = @ \ {victim[p]}]
    /\ Goto(p, NextHeld(p, victim[p]))
    /\ UNCHANGED <<turnVars, queueVars, itemVars, prog, inp, cancelled, doomed, calls,
                   goalVars, bounds, cur, ret, loc, victim, hts>>

AbortEvent(p) ==
    /\ At(p, "a_event")
    /\ ev' = [ev EXCEPT ![victim[p]] = @ \cup {"aborted"}]
    /\ held' = [held EXCEPT ![p] = @ \ {victim[p]}]
    /\ Goto(p, NextHeld(p, victim[p]))
    /\ UNCHANGED <<turnVars, queueVars, itemVars, prog, inp, cancelled, doomed, calls,
                   goalVars, bounds, cur, ret, loc, victim, hts>>

\* account_thread_goal_progress: the goal may run out of its token budget.
Accounted == {goal, IF goal = "active" THEN "complete" ELSE goal}

\* What is left to do after the goal runtime heard of the abort.
AfterGoal(p) ==
    IF hts[p] # NoTS THEN "a_clear" ELSE IF Interrupted(p) THEN ret[p] ELSE "s_idle"

\* GoalRuntimeEvent::TaskAborted: forget the continuation turn and account for
\* the aborted turn, if there was one.
AbortGoal(p) ==
    /\ At(p, "a_goal")
    /\ contTurn' = IF contTurn = victim[p] THEN NoTurn ELSE contTurn
    /\ goal' \in (IF victim[p] = NoTurn THEN {goal} ELSE Accounted)
    /\ Goto(p, IF Interrupted(p) THEN "a_pause" ELSE AfterGoal(p))
    /\ UNCHANGED <<turnVars, queueVars, itemVars, taskVars, suppressed, permit,
                   bounds, localVars>>

\* Mutant: the goal is paused without the continuation lock.
AbortPauseUnlocked(p) ==
    /\ At(p, "a_pause")
    /\ goal' = IF goal = "active" THEN "paused" ELSE goal
    /\ Goto(p, AfterGoal(p))
    /\ UNCHANGED <<turnVars, queueVars, itemVars, taskVars, suppressed, contTurn, permit,
                   bounds, localVars>>

\* An interrupt pauses the goal, task or no task.  It waits for a continuation
\* that is being started, unless the session has no use for goals.
AbortPauseGoal(p) ==
    /\ At(p, "a_pause")
    /\ goal = "none" \/ permit = NoTurn
    /\ goal' = IF goal = "active" THEN "paused" ELSE goal
    /\ Goto(p, AfterGoal(p))
    /\ UNCHANGED <<turnVars, queueVars, itemVars, taskVars, suppressed, contTurn, permit,
                   bounds, localVars>>

\* ActiveTurn::clear_pending drops the buffered input and every sender.
AbortClear(p) ==
    /\ At(p, "a_clear")
    /\ pend' = [pend EXCEPT ![hts[p]] = {}]
    /\ appr' = [appr EXCEPT ![hts[p]] = {}]
    /\ hts' = [hts EXCEPT ![p] = NoTS]
    /\ victim' = [victim EXCEPT ![p] = NoTurn]
    /\ Goto(p, IF Interrupted(p) THEN "m_idle" ELSE "s_idle")
    /\ UNCHANGED <<active, accepts, queueVars, itemVars, taskVars, goalVars, bounds,
                   cur, ret, loc, held>>

Abort(p) ==
    \/ AbortTake(p)  \/ AbortCancel(p) \/ AbortKill(p) \/ AbortEvent(p)
    \/ AbortGoal(p)  \/ AbortPauseGoal(p) \/ AbortClear(p)

----------------------------------------------------------------------------
(* The body of a task: RegularTask::run and run_turn *)

\* A task whose handle was aborted goes on to its next suspension point only:
\* it never comes back from the model, from a tool or from an approval.
Resumes(t, l) == At(t, l) /\ t \notin doomed

\* run_turn with nothing to do, or with its own input or pending input.
HasWork(t) == inp[t] # {} \/ HasPendingInput

TurnNoWork(t) ==
    /\ At(t, "t_run")
    /\ ~HasWork(t)
    /\ Goto(t, "t_loop")
    /\ UNCHANGED allButPc

\* Cancelled while it waits for the prewarmed model session.
TurnCancelledEarly(t) ==
    /\ At(t, "t_run")
    /\ t \in cancelled
    /\ Goto(t, "t_end")
    /\ UNCHANGED allButPc

\* The compaction before sampling fails or a hook stops the turn: the input is
\* answered with an error or a hook event and run_turn returns.
TurnRefuse(t) ==
    /\ At(t, "t_run")
    /\ HasWork(t)
    /\ calls[t] < MaxCalls
    /\ calls' = [calls EXCEPT ![t] = @ + 1]
    /\ refused' = refused \cup inp[t]
    /\ inp' = [inp EXCEPT ![t] = {}]
    /\ Goto(t, "t_loop")
    /\ UNCHANGED <<turnVars, queueVars, history, unsent, prog, cancelled, doomed, ev,
                   goalVars, bounds, localVars>>

\* The fresh prompt is recorded and sampled before pending input is drained.
TurnRecordInput(t) ==
    /\ At(t, "t_run")
    /\ HasWork(t)
    /\ history' = history \cup inp[t]
    /\ inp' = [inp EXCEPT ![t] = {}]
    /\ Goto(t, IF inp[t] = {} THEN "t_drain" ELSE "t_sample")
    /\ UNCHANGED <<turnVars, queueVars, refused, unsent, prog, cancelled, doomed, ev,
                   calls, goalVars, bounds, localVars>>

TurnDrain(t) ==
    /\ At(t, "t_drain")
    /\ TakePending(t, "t_mail", "t_hook")
    /\ NoteTaken(t, loc'[t])
    /\ UNCHANGED <<active, accepts, appr, mail, idle, itemVars, taskVars, goalVars,
                   bounds, cur, ret, held, victim, hts>>

TurnDrainMail(t) ==
    /\ At(t, "t_mail")
    /\ DrainMail(t, "t_hook")
    /\ UNCHANGED <<turnVars, idle, taken, itemVars, taskVars, goalVars, bounds,
                   cur, ret, held, victim, hts>>

TurnHookAccepts(t) ==
    /\ At(t, "t_hook")
    /\ Goto(t, IF loc[t] = {} THEN "t_sample" ELSE "t_record")
    /\ UNCHANGED allButPc

\* The hook accepts some items and blocks user input b; the rest goes back in
\* front of whatever turn is active now, or nowhere if there is none.
TurnHookBlocks(t) ==
    /\ At(t, "t_hook")
    /\ \E b \in loc[t] \cap UserIn : \E ok \in SUBSET (loc[t] \ {b}) :
         LET rest == loc[t] \ (ok \cup {b})
         IN /\ pend' = IF Some THEN [pend EXCEPT ![active.ts] = @ \cup rest] ELSE pend
            /\ refused' = refused \cup {b}
            /\ loc' = [loc EXCEPT ![t] = ok]
            /\ Goto(t, CASE ok # {} -> "t_record"
                         [] ok = {} /\ rest # {} -> "t_drain"
                         [] OTHER -> "t_loop")
    /\ UNCHANGED <<active, accepts, appr, queueVars, history, unsent, taskVars, goalVars,
                   bounds, cur, ret, held, victim, hts>>

TurnRecordPending(t) ==
    /\ At(t, "t_record")
    /\ history' = history \cup loc[t]
    /\ loc' = [loc EXCEPT ![t] = {}]
    /\ Goto(t, "t_sample")
    /\ UNCHANGED <<turnVars, queueVars, refused, unsent, taskVars, goalVars, bounds,
                   cur, ret, held, victim, hts>>

\* accept_mailbox_delivery_for_current_turn, in the turn that runs this task.
AcceptMailbox(t) ==
    IF t \in active.tasks THEN [accepts EXCEPT ![active.ts] = TRUE] ELSE accepts

\* defer_mailbox_delivery_to_next_turn, unless input is pending already.
DeferMailbox(t) ==
    IF t \in active.tasks /\ pend[active.ts] = {}
    THEN [accepts EXCEPT ![active.ts] = FALSE]
    ELSE accepts

\* A tool call reopens the mailbox for this turn and ends the suppression of
\* goal continuations.
ToolCall(t) ==
    /\ Resumes(t, "t_sample")
    /\ calls[t] < MaxCalls
    /\ calls' = [calls EXCEPT ![t] = @ + 1]
    /\ accepts' = AcceptMailbox(t)
    /\ suppressed' = FALSE

\* The model needs a follow-up: drain first, or sample again right away after
\* a compaction, or give up when that compaction fails.
FollowUpPc == {"t_drain", "t_sample", "t_loop"}

TurnTool(t) ==
    /\ ToolCall(t)
    /\ \E l \in FollowUpPc : Goto(t, l)
    /\ UNCHANGED <<active, pend, appr, queueVars, itemVars, prog, inp, cancelled, doomed,
                   ev, goal, contTurn, permit, bounds, localVars>>

TurnToolAsks(t) ==
    /\ ToolCall(t)
    /\ Goto(t, "t_ask")
    /\ UNCHANGED <<active, pend, appr, queueVars, itemVars, prog, inp, cancelled, doomed,
                   ev, goal, contTurn, permit, bounds, localVars>>

\* create_goal inserts a goal where there is none.
TurnCreatesGoal(t) ==
    /\ ToolCall(t)
    /\ goal = "none"
    /\ bounds.goals < MaxGoalSets
    /\ bounds' = [bounds EXCEPT !.goals = @ + 1]
    /\ goal' = "active"
    /\ Goto(t, "t_drain")
    /\ UNCHANGED <<active, pend, appr, queueVars, itemVars, prog, inp, cancelled, doomed,
                   ev, contTurn, permit, localVars>>

\* update_goal completes the goal, or the tool's tokens use up its budget.
TurnCompletesGoal(t) ==
    /\ ToolCall(t)
    /\ goal \in {"active", "paused"}
    /\ goal' = "complete"
    /\ Goto(t, "t_drain")
    /\ UNCHANGED <<active, pend, appr, queueVars, itemVars, prog, inp, cancelled, doomed,
                   ev, contTurn, permit, bounds, localVars>>

\* A denied tool call trips the circuit breaker, which spawns the abort.
TurnDenied(t) ==
    /\ ToolCall(t)
    /\ t \in active.tasks
    /\ At(Guard, "idle")
    /\ bounds.denials < MaxInterrupts
    /\ bounds' = [bounds EXCEPT !.denials = @ + 1]
    /\ victim' = [victim EXCEPT ![Guard] = t]
    /\ pc' = [pc EXCEPT ![Guard] = "a_take", ![t] = "t_drain"]
    /\ UNCHANGED <<active, pend, appr, queueVars, itemVars, prog, inp, cancelled, doomed,
                   ev, goal, contTurn, permit, cur, ret, loc, held, hts>>

\* Mutant: the request event goes out before the sender is registered.
TurnAskUnregistered(t) ==
    /\ At(t, "t_ask")
    /\ Goto(t, "t_wait")
    /\ UNCHANGED allButPc

\* insert_pending_approval and its like, in whatever turn is active.
InsertSender(t) == IF Some THEN [appr EXCEPT ![active.ts] = @ \cup {t}] ELSE appr

\* request_command_approval: without an active turn the sender stays in the
\* caller's frame, where nobody finds it.
TurnAsk(t) ==
    /\ At(t, "t_ask")
    /\ appr' = InsertSender(t)
    /\ hts' = [hts EXCEPT ![t] = active.ts]
    /\ Goto(t, "t_wait")
    /\ UNCHANGED <<active, pend, accepts, queueVars, itemVars, taskVars, goalVars, bounds,
                   cur, ret, loc, held, victim>>

\* The wait ends with an answer, with a dropped sender or by cancellation.
TurnAnswered(t) ==
    /\ Resumes(t, "t_wait")
    /\ \/ hts[t] # NoTS /\ t \notin appr[hts[t]]
       \/ t \in cancelled
    /\ hts' = [hts EXCEPT ![t] = NoTS]
    /\ \E l \in FollowUpPc : Goto(t, l)
    /\ UNCHANGED <<turnVars, queueVars, itemVars, taskVars, goalVars, bounds,
                   cur, ret, loc, held, victim>>

\* The model is done.  If it showed an answer, late mail waits for the next turn.
TurnFinal(t) ==
    /\ Resumes(t, "t_sample")
    /\ accepts' \in {accepts, DeferMailbox(t)}
    /\ Goto(t, "t_post")
    /\ UNCHANGED <<active, pend, appr, queueVars, itemVars, taskVars, goalVars, bounds,
                   localVars>>

\* The model goes on without a tool call: it said so, or mail preempted it.
TurnFollowUp(t) ==
    /\ Resumes(t, "t_sample")
    /\ calls[t] < MaxCalls
    /\ calls' = [calls EXCEPT ![t] = @ + 1]
    /\ accepts' \in {accepts, DeferMailbox(t)}
    /\ \E l \in FollowUpPc : Goto(t, l)
    /\ UNCHANGED <<active, pend, appr, queueVars, itemVars, prog, inp, cancelled, doomed,
                   ev, goalVars, bounds, localVars>>

\* The request failed, after its retries.
TurnError(t) ==
    /\ Resumes(t, "t_sample")
    /\ Goto(t, "t_loop")
    /\ UNCHANGED allButPc

\* No follow-up asked by the model: go on only for pending input.
TurnPost(t) ==
    /\ At(t, "t_post")
    /\ \E l \in {"t_drain", "t_loop"} :
         /\ ~HasPendingInput => l = "t_loop"
         /\ Goto(t, l)
    /\ UNCHANGED allButPc

\* A stop hook blocks the end of the turn and adds a prompt of its own.
TurnStopHookBlocks(t) ==
    /\ At(t, "t_post")
    /\ ~HasPendingInput
    /\ calls[t] < MaxCalls
    /\ calls' = [calls EXCEPT ![t] = @ + 1]
    /\ Goto(t, "t_drain")
    /\ UNCHANGED <<turnVars, queueVars, itemVars, prog, inp, cancelled, doomed, ev, goalVars,
                   bounds, localVars>>

\* RegularTask::run starts over while there is pending input.
TurnLoop(t) ==
    /\ At(t, "t_loop")
    /\ Goto(t, IF HasPendingInput THEN "t_run" ELSE "t_end")
    /\ UNCHANGED allButPc

\* Compact, review, undo and shell tasks never look at pending input.
OtherRun(t) ==
    /\ Resumes(t, "t_other")
    /\ Goto(t, "t_end")
    /\ UNCHANGED allButPc

\* Mutant: the turn that continues a goal does not report its end.
TaskEndUnlessContinuation(t) ==
    /\ At(t, "t_end")
    /\ Goto(t, IF t \in cancelled \/ contTurn = t THEN "done" ELSE "f_remove")
    /\ UNCHANGED allButPc

\* The spawned future after run: only an uncancelled task finishes its turn.
TaskEnd(t) ==
    /\ At(t, "t_end")
    /\ Goto(t, IF t \in cancelled THEN "done" ELSE "f_remove")
    /\ UNCHANGED allButPc

RunTask(t) ==
    \/ TurnNoWork(t) \/ TurnCancelledEarly(t) \/ TurnRefuse(t) \/ TurnRecordInput(t)
    \/ TurnDrain(t) \/ TurnDrainMail(t)
    \/ TurnHookAccepts(t) \/ TurnHookBlocks(t) \/ TurnRecordPending(t)
    \/ TurnTool(t) \/ TurnToolAsks(t) \/ TurnCreatesGoal(t) \/ TurnCompletesGoal(t)
    \/ TurnDenied(t)
    \/ TurnAsk(t) \/ TurnAnswered(t) \/ TurnFinal(t) \/ TurnFollowUp(t) \/ TurnError(t)
    \/ TurnPost(t) \/ TurnStopHookBlocks(t) \/ TurnLoop(t)
    \/ OtherRun(t) \/ TaskEnd(t)

----------------------------------------------------------------------------
(* Session::on_task_finished *)

\* remove_task answers whether the active turn has no task left, also when
\* the active turn is not the one this task ran in.
FinishRemove(t) ==
    /\ At(t, "f_remove")
    /\ active' = [active EXCEPT !.tasks = @ \ {t}]
    /\ LET last == Some /\ active'.tasks = {}
       IN /\ hts' = [hts EXCEPT ![t] = IF last THEN active.ts ELSE NoTS]
          /\ Goto(t, IF last THEN "f_take" ELSE "f_goal")
    /\ UNCHANGED <<pend, accepts, appr, queueVars, itemVars, taskVars, goalVars, bounds,
                   cur, ret, loc, held, victim>>

\* Mutant: leftover input stays in the turn state that is about to be dropped.
FinishLeavesInput(t) ==
    /\ At(t, "f_take")
    /\ Goto(t, "f_goal")
    /\ UNCHANGED allButPc

FinishTakeInput(t) ==
    /\ At(t, "f_take")
    /\ loc' = [loc EXCEPT ![t] = pend[hts[t]]]
    /\ pend' = [pend EXCEPT ![hts[t]] = {}]
    /\ NoteTaken(t, pend[hts[t]])
    /\ Goto(t, IF pend[hts[t]] = {} THEN "f_goal" ELSE "f_record")
    /\ UNCHANGED <<active, accepts, appr, mail, idle, itemVars, taskVars, goalVars, bounds,
                   cur, ret, held, victim, hts>>

\* Leftover input is recorded without a model request, or blocked by the hook.
FinishRecord(t) ==
    /\ At(t, "f_record")
    /\ \E blocked \in SUBSET (loc[t] \cap UserIn) :
         /\ history' = history \cup (loc[t] \ blocked)
         /\ refused' = refused \cup blocked
    /\ loc' = [loc EXCEPT ![t] = {}]
    /\ Goto(t, "f_goal")
    /\ UNCHANGED <<turnVars, queueVars, unsent, taskVars, goalVars, bounds,
                   cur, ret, held, victim, hts>>

\* A turn that completes is accounted for.  A continuation turn without tool
\* calls suppresses the next continuation; a task that lost its turn state
\* reports zero tool calls.
FinishGoal(t) ==
    /\ At(t, "f_goal")
    /\ IF contTurn = t
       THEN /\ contTurn' = NoTurn
            /\ suppressed' \in (IF hts[t] = NoTS THEN {TRUE} ELSE {TRUE, suppressed})
       ELSE UNCHANGED <<contTurn, suppressed>>
    /\ goal' \in (IF hts[t] = NoTS THEN {goal} ELSE Accounted)
    /\ Goto(t, "f_event")
    /\ UNCHANGED <<turnVars, queueVars, itemVars, taskVars, permit, bounds, localVars>>

FinishEvent(t) ==
    /\ At(t, "f_event")
    /\ ev' = [ev EXCEPT ![t] = @ \cup {"complete"}]
    /\ Goto(t, "f_clear")
    /\ UNCHANGED <<turnVars, queueVars, itemVars, prog, inp, cancelled, doomed, calls,
                   goalVars, bounds, localVars>>

\* Mutant: whatever turn is active now is cleared.
FinishClearsAny(t) ==
    /\ At(t, "f_clear")
    /\ active' = IF hts[t] # NoTS THEN NoActive ELSE active
    /\ ret' = [ret EXCEPT ![t] = "g_permit"]
    /\ Goto(t, IF hts[t] # NoTS THEN "m_idle" ELSE "done")
    /\ hts' = [hts EXCEPT ![t] = NoTS]
    /\ UNCHANGED <<pend, accepts, appr, queueVars, itemVars, taskVars, goalVars, bounds,
                   cur, loc, held, victim>>

\* Mutant: nobody looks for pending work after the turn.
FinishClearAndRest(t) ==
    /\ At(t, "f_clear")
    /\ active' = IF hts[t] # NoTS /\ Reserved(hts[t]) THEN NoActive ELSE active
    /\ Goto(t, "done")
    /\ hts' = [hts EXCEPT ![t] = NoTS]
    /\ UNCHANGED <<pend, accepts, appr, queueVars, itemVars, taskVars, goalVars, bounds,
                   cur, ret, loc, held, victim>>

\* The session becomes idle only if it still has this task's turn state and no
\* task; then pending work or the goal may start the next turn.
FinishClear(t) ==
    /\ At(t, "f_clear")
    /\ IF hts[t] # NoTS /\ Reserved(hts[t])
       THEN /\ active' = NoActive
            /\ ret' = [ret EXCEPT ![t] = "g_permit"]
            /\ Goto(t, "m_idle")
       ELSE /\ Goto(t, "done")
            /\ UNCHANGED <<active, ret>>
    /\ hts' = [hts EXCEPT ![t] = NoTS]
    /\ UNCHANGED <<pend, accepts, appr, queueVars, itemVars, taskVars, goalVars, bounds,
                   cur, loc, held, victim>>

FinishTask(t) ==
    \/ FinishRemove(t) \/ FinishTakeInput(t) \/ FinishRecord(t)
    \/ FinishGoal(t)   \/ FinishEvent(t)     \/ FinishClear(t)

\* tokio drops an aborted task at its next suspension point, with its locals.
DropTask(t) ==
    /\ t \in doomed
    /\ pc[t] \notin {"done", "dead"}
    /\ Goto(t, "dead")
    /\ inp' = [inp EXCEPT ![t] = {}]
    /\ loc' = [loc EXCEPT ![t] = {}]
    /\ cur' = [cur EXCEPT ![t] = NoTurn]
    /\ hts' = [hts EXCEPT ![t] = NoTS]
    /\ permit' = IF permit = t THEN NoTurn ELSE permit
    /\ UNCHANGED <<turnVars, queueVars, itemVars, prog, cancelled, doomed, ev, calls,
                   goal, suppressed, contTurn, bounds, ret, held, victim>>

----------------------------------------------------------------------------
(* The submission loop takes one operation after the other *)

Ready == At(Loop, "idle")

\* user_input_or_turn: the running task takes no further input.
LoopSteerRefused(i) ==
    /\ Ready /\ i \in unsent \cap UserIn
    /\ \E first \in active.tasks : ~Steerable(first)
    /\ unsent' = unsent \ {i}
    /\ refused' = refused \cup {i}
    /\ UNCHANGED <<turnVars, queueVars, history, taskVars, goalVars, bounds, pc, localVars>>

\* spawn_task for turn t: abort_all_tasks(Replaced), then start_task.
Spawn(t, program, input) ==
    /\ prog' = [prog EXCEPT ![t] = program]
    /\ inp' = [inp EXCEPT ![t] = input]
    /\ cur' = [cur EXCEPT ![Loop] = t]
    /\ ret' = [ret EXCEPT ![Loop] = "idle"]
    /\ Goto(Loop, "a_take")
    /\ UNCHANGED <<turnVars, queueVars, history, refused, cancelled, doomed, ev, calls,
                   goalVars, bounds, loc, held, victim, hts>>

\* No task to steer: the input gets a turn of its own.
LoopSpawnTurn(i) ==
    /\ Ready /\ i \in unsent \cap UserIn
    /\ active.tasks = {}
    /\ unsent' = unsent \ {i}
    /\ \E t \in Unused : Spawn(t, "turn", {i})

\* Compact, review and undo replace a running task.  A shell command that finds
\* none is a task too; else it joins as an auxiliary command (ExtShellOutput).
LoopSpawnOther(program) ==
    /\ Ready
    /\ \E t \in Unused : Spawn(t, program, {})
    /\ UNCHANGED unsent

\* inter_agent_communication
LoopMail(i) ==
    /\ Ready /\ i \in unsent \cap MailIn
    /\ unsent' = unsent \ {i}
    /\ mail' = mail \cup {i}
    /\ ret' = [ret EXCEPT ![Loop] = "idle"]
    /\ Goto(Loop, IF i \in TriggerIn THEN "m_idle" ELSE "idle")
    /\ UNCHANGED <<turnVars, idle, taken, history, refused, taskVars, goalVars, bounds,
                   cur, loc, held, victim, hts>>

\* approve_guardian_denied_action: inject_response_items, else queue.
LoopInject(i) ==
    /\ Ready /\ i \in unsent \cap QueueIn
    /\ Some
    /\ unsent' = unsent \ {i}
    /\ pend' = [pend EXCEPT ![active.ts] = @ \cup {i}]
    /\ UNCHANGED <<active, accepts, appr, queueVars, history, refused, taskVars, goalVars,
                   bounds, pc, localVars>>

LoopInjectFails(i) ==
    /\ Ready /\ i \in unsent \cap QueueIn
    /\ ~Some
    /\ unsent' = unsent \ {i}
    /\ loc' = [loc EXCEPT ![Loop] = {i}]
    /\ Goto(Loop, "q_queue")
    /\ UNCHANGED <<turnVars, queueVars, history, refused, taskVars, goalVars, bounds,
                   cur, ret, held, victim, hts>>

LoopQueue ==
    /\ At(Loop, "q_queue")
    /\ idle' = idle \cup loc[Loop]
    /\ loc' = [loc EXCEPT ![Loop] = {}]
    /\ Goto(Loop, "idle")
    /\ UNCHANGED <<turnVars, mail, taken, itemVars, taskVars, goalVars, bounds,
                   cur, ret, held, victim, hts>>

\* notify_approval finds the sender in the active turn only.
LoopAnswer(t) ==
    /\ Ready
    /\ Some /\ t \in appr[active.ts]
    /\ appr' = [appr EXCEPT ![active.ts] = @ \ {t}]
    /\ UNCHANGED <<active, pend, accepts, queueVars, itemVars, taskVars, goalVars, bounds,
                   pc, localVars>>

\* interrupt_task, also for an approval answered with Abort.
LoopInterrupt ==
    /\ Ready
    /\ bounds.interrupts < MaxInterrupts
    /\ bounds' = [bounds EXCEPT !.interrupts = @ + 1]
    /\ ret' = [ret EXCEPT ![Loop] = "idle"]
    /\ Goto(Loop, "a_take")
    /\ UNCHANGED <<turnVars, queueVars, itemVars, taskVars, goalVars,
                   cur, loc, held, victim, hts>>

\* shutdown aborts like an interrupt; the loop takes no operation afterwards.
LoopShutdown ==
    /\ Ready
    /\ bounds.interrupts < MaxInterrupts
    /\ bounds' = [bounds EXCEPT !.interrupts = @ + 1]
    /\ ret' = [ret EXCEPT ![Loop] = "stopped"]
    /\ Goto(Loop, "a_take")
    /\ UNCHANGED <<turnVars, queueVars, itemVars, taskVars, goalVars,
                   cur, loc, held, victim, hts>>

LoopOp ==
    \/ \E i \in UserIn : LoopSteerRefused(i) \/ LoopSpawnTurn(i)
    \/ \E program \in OtherProg : LoopSpawnOther(program)
    \/ \E i \in MailIn : LoopMail(i)
    \/ \E i \in QueueIn : LoopInject(i) \/ LoopInjectFails(i)
    \/ \E t \in Turn : LoopAnswer(t)
    \/ LoopInterrupt \/ LoopShutdown

----------------------------------------------------------------------------
(* Calls from outside the submission loop *)

\* steer_input pushes into the running turn and reopens the mailbox for it.
\* user_input_or_turn calls it in the loop and turn/steer at any time; a
\* turn/steer that is refused changes nothing and is answered to its caller.
SteerInput(i) ==
    /\ i \in unsent \cap UserIn
    /\ \E first \in active.tasks : Steerable(first)
    /\ unsent' = unsent \ {i}
    /\ pend' = [pend EXCEPT ![active.ts] = @ \cup {i}]
    /\ accepts' = [accepts EXCEPT ![active.ts] = TRUE]
    /\ UNCHANGED <<active, appr, queueVars, history, refused, taskVars, goalVars, bounds,
                   pc, localVars>>

\* persist_user_shell_output of an auxiliary command: started in some turn,
\* it injects its output whenever it ends, or records it if nothing is active.
ExtShellOutput(i) ==
    /\ i \in unsent \cap ShellIn
    /\ \E t \in Turn : pc[t] # "unborn"
    /\ unsent' = unsent \ {i}
    /\ IF Some
       THEN pend' = [pend EXCEPT ![active.ts] = @ \cup {i}] /\ UNCHANGED history
       ELSE history' = history \cup {i} /\ UNCHANGED pend
    /\ UNCHANGED <<active, accepts, appr, queueVars, refused, taskVars, goalVars, bounds,
                   pc, localVars>>

\* thread/goal/set and thread/goal/clear: the app server ends the suppression
\* and writes the goal.
ExtWriteGoal(status) ==
    /\ At(Ext, "idle")
    /\ bounds.goals < MaxGoalSets
    /\ bounds' = [bounds EXCEPT !.goals = @ + 1]
    /\ goal' = status
    /\ suppressed' = FALSE
    /\ ret' = [ret EXCEPT ![Ext] = IF status = "active" THEN "g_permit" ELSE "idle"]
    /\ Goto(Ext, "e_apply")
    /\ UNCHANGED <<turnVars, queueVars, itemVars, taskVars, contTurn, permit,
                   cur, loc, held, victim, hts>>

\* apply_external_goal_set or _clear: an active goal is continued.
ExtApplyGoal ==
    /\ At(Ext, "e_apply")
    /\ suppressed' = FALSE
    /\ Goto(Ext, IF ret[Ext] = "g_permit" THEN "m_idle" ELSE "idle")
    /\ UNCHANGED <<turnVars, queueVars, itemVars, taskVars, goal, contTurn, permit,
                   bounds, localVars>>

\* A resumed thread takes up its paused goal again and continues it.
ExtResumeGoal ==
    /\ At(Ext, "idle")
    /\ bounds.goals < MaxGoalSets
    /\ permit = NoTurn
    /\ bounds' = [bounds EXCEPT !.goals = @ + 1]
    /\ goal' = IF goal = "paused" THEN "active" ELSE goal
    /\ suppressed' = (suppressed /\ goal # "paused")
    /\ ret' = [ret EXCEPT ![Ext] = "g_permit"]
    /\ Goto(Ext, "m_idle")
    /\ UNCHANGED <<turnVars, queueVars, itemVars, taskVars, contTurn, permit,
                   cur, loc, held, victim, hts>>

ExtOp ==
    \/ \E i \in UserIn : SteerInput(i)
    \/ \E i \in ShellIn : ExtShellOutput(i)
    \/ \E status \in GoalStatus : ExtWriteGoal(status)
    \/ ExtResumeGoal

----------------------------------------------------------------------------

\* What an actor does by itself once it has been given work.
CallStep == LoopQueue \/ ExtApplyGoal
TaskStep(t) == RunTask(t) \/ FinishTask(t) \/ DropTask(t)
ActorStep(p) == StartTask(p) \/ MaybeStart(p) \/ GoalContinue(p) \/ Abort(p)

Next ==
    \/ LoopOp \/ ExtOp \/ CallStep
    \/ \E p \in Actor : ActorStep(p)
    \/ \E t \in Turn : TaskStep(t)

Spec == Init /\ [][Next]_vars

\* The tokio runtime polls every future that can make progress.  The client
\* and the model answer when they like: no operation is ever due.
Fairness ==
    /\ WF_vars(LoopQueue) /\ WF_vars(ExtApplyGoal)
    /\ \A p \in Actor : WF_vars(ActorStep(p))
    /\ \A t \in Turn : WF_vars(TaskStep(t))

FairSpec == Spec /\ Fairness

----------------------------------------------------------------------------
(* Properties *)

\* Labels at which an actor is about to use the turn state it refers to.
UsesState == {"s_push", "g_reread", "g_push", "g_still", "f_take", "a_clear"}

TurnType ==
    /\ active \in [ts : TS \cup {NoTS}, tasks : SUBSET Turn]
    /\ active.ts = NoTS => active.tasks = {}
    /\ pend \in [TS -> SUBSET Item]
    /\ accepts \in [TS -> BOOLEAN]
    /\ appr \in [TS -> SUBSET Turn]
ItemType ==
    /\ mail \subseteq Item /\ idle \subseteq Item /\ taken \subseteq UserIn
    /\ history \subseteq Item /\ refused \subseteq Item
    /\ unsent \subseteq Submitted
TaskType ==
    /\ prog \in [Turn -> {"none", "turn"} \cup OtherPrograms]
    /\ inp \in [Turn -> SUBSET Item]
    /\ cancelled \subseteq Turn /\ doomed \subseteq Turn
    /\ ev \in [Turn -> SUBSET {"complete", "aborted"}]
    /\ calls \in [Turn -> 0..MaxCalls]
GoalType ==
    /\ goal \in GoalStatus
    /\ suppressed \in BOOLEAN
    /\ contTurn \in Turn \cup {NoTurn}
    /\ permit \in Actor \cup {NoTurn}
    /\ bounds \in [interrupts : 0..MaxInterrupts, denials : 0..MaxInterrupts,
                   goals : 0..MaxGoalSets]
LocalType ==
    /\ pc \in [Actor -> Pc]
    /\ cur \in [Actor -> Turn \cup {NoTurn}]
    /\ ret \in [Actor -> {"idle", "stopped", "done", "g_permit"}]
    /\ loc \in [Actor -> SUBSET Item]
    /\ held \in [Actor -> SUBSET Turn]
    /\ victim \in [Actor -> Turn \cup {NoTurn}]
    /\ hts \in [Actor -> TS \cup {NoTS}]
    /\ \A p \in Actor : pc[p] \in UsesState => hts[p] # NoTS

\* The shape of the state: no task without an active turn, and no use of a
\* turn state an actor does not refer to.
TypeOK == TurnType /\ ItemType /\ TaskType /\ GoalType /\ LocalType

\* A task that has not begun to finish its turn can always be stopped: it is
\* registered in the active turn, or an abort in progress has drained it, or
\* its handle was aborted.  Two starters, an abort and a finishing task may
\* meet in one ActiveTurn; none of them leaves a task behind that no
\* interrupt reaches (start_task, on_task_finished, abort_all_tasks).
TaskTracked ==
    \A t \in Turn :
        pc[t] \in RunPc \cup {"f_remove"} =>
            t \in active.tasks \/ BeingAborted(t) \/ t \in doomed

\* While the session runs a task that waits for the user's decision, the
\* sender is where notify_approval looks for it, or the decision is there
\* already: an approval of the active turn is never unanswerable
\* (request_command_approval, notify_approval, clear_pending).
Answerable ==
    \A t \in active.tasks : At(t, "t_wait") => hts[t] = active.ts

\* Who may end the task of turn t, for TaskContract.
Owner(t) ==
    IF t \in active.tasks THEN "session"
    ELSE IF BeingAborted(t) THEN "aborter"
    ELSE IF pc[t] = "unborn" THEN "nobody" ELSE "over"

Contract == INSTANCE TaskContract
                WITH owner <- [t \in Turn |-> Owner(t)],
                     reported <- {t \in Turn : "aborted" \in ev[t]}

\* The scheduler implements TaskContract: a drained task is reported aborted
\* exactly once and eventually, and no task returns to the active turn.
ImplementsContract == Contract!Spec

\* The containers an item can be in.
Places(i) ==
    {<<"mail">> : x \in mail \cap {i}} \cup {<<"idle">> : x \in idle \cap {i}}
    \cup {<<"history">> : x \in history \cap {i}}
    \cup {<<"refused">> : x \in refused \cap {i}}
    \cup {<<"unsent">> : x \in unsent \cap {i}}
    \cup {<<"pend", s>> : s \in {x \in TS : i \in pend[x]}}
    \cup {<<"inp", t>> : t \in {x \in Turn : i \in inp[x]}}
    \cup {<<"loc", p>> : p \in {x \in Actor : i \in loc[x]}}

\* Input is never duplicated: on its way from the caller through mailbox,
\* queues, requeues and handovers between turns to the history, an item is in
\* one place at a time, so the model never sees it twice (get_pending_input,
\* prepend_pending_input, on_task_finished).
NoDuplicate == \A i \in Item : Cardinality(Places(i)) <= 1

\* Somebody will still read the input buffered in turn state s.
WillBeRead(s) ==
    \/ s = active.ts
    \/ \E p \in Actor : hts[p] = s /\ pc[p] \in {"g_push", "g_still", "f_take"}

\* Nobody goes on with input i: it is nowhere, or in a buffer that nobody
\* reads any more, or in the variables of a task that is over.
Lost(i) ==
    /\ i \notin unsent \cup mail \cup idle \cup history \cup refused
    /\ \A s \in TS : i \in pend[s] => ~WillBeRead(s)
    /\ \A t \in Turn : i \in inp[t] => At(t, "done")
    /\ \A p \in Actor : i \in loc[p] => At(p, "done")

\* Where only the submission loop starts turns, a user input is lost only
\* through an abort of a task that had it or took it: whatever other turns were
\* interrupted or replaced before, and however late they wind up, steering a
\* turn that is just finishing never drops the input (steer_input,
\* on_task_finished, abort_all_tasks).
SteerKept == \A i \in UserIn : Lost(i) => i \in taken

\* Actors that have seen the goal active and are starting a turn for it.
Launching ==
    {p \in Actor : \/ pc[p] \in {"g_push", "g_still"}
                   \/ pc[p] \in StartPc /\ contTurn = cur[p]}

\* An interrupt never pauses the goal behind the back of a continuation: when
\* the pause takes effect, no turn is being started for the goal any more, so
\* the goal it was read from cannot be paused under it
\* (pause_active_thread_goal_for_interrupt, maybe_start_goal_continuation_turn).
PauseExcludesLaunch ==
    [][(goal' = "paused" /\ \E p \in Actor : At(p, "a_pause") /\ pc'[p] # "a_pause")
          => goal = "paused" \/ Launching = {}]_vars

\* protocol_v1.md: "`Session` has at most one `Task` running at a time."
AtMostOneTask == Cardinality(active.tasks) <= 1

\* Every task comes to an end the client hears of, TurnComplete or TurnAborted,
\* unless it waits for the client's own decision.
TurnEnds ==
    \A t \in Turn : pc[t] \in RunPc ~> (ev[t] # {} \/ At(t, "t_wait"))

\* A turn is due but the model has no id left for it: the bound is reached.
OutOfIds ==
    Unused = {} /\ ~Some /\ \E p \in Actor : pc[p] \in {"m_reserve", "g_reserve"}

\* A turn waits for a decision of the client.
Waiting == \E t \in Turn : At(t, "t_wait")

\* Mail that asks for a turn gets one, whatever turn is just finishing or
\* starting when it arrives (maybe_start_turn_for_pending_work), while clients
\* answer and unless the goal is stopped: a continuation that gives up its
\* reservation because of that does not look for mail again.
MailWakes ==
    []<>~Waiting =>
        \A i \in TriggerIn :
            i \in mail ~> (i \notin mail \/ OutOfIds \/ goal \in {"paused", "complete"})

\* An active goal is not forgotten: unless it is paused, complete or
\* suppressed, an idle session runs a turn again (MaybeContinueIfIdle).  An
\* aborted task can die in the middle of handing over, so this is promised
\* only where no task was aborted.
GoalResumes ==
    (goal = "active" /\ ~suppressed)
        ~> \/ goal # "active" \/ suppressed \/ active.tasks # {}
           \/ doomed # {} \/ OutOfIds

\* An interrupt never hangs the submission loop: although it waits for the
\* lock of a continuation that is being started, and that starter may be a
\* task it has just aborted, the loop gets back to its next operation
\* (interrupt_task, pause_active_thread_goal_for_interrupt).
InterruptReturns ==
    At(Loop, "a_take") ~> (pc[Loop] \in {"idle", "stopped"} \/ OutOfIds)

============================================================================
