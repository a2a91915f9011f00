-------------------------- MODULE GoalAccounting --------------------------
(***************************************************************************)
(* How the tokens and seconds of a session are billed to its goal           *)
(* (core/src/goals.rs and state/src/runtime/goals.rs).  The goal is one row *)
(* of the state database; the session keeps a snapshot of what is already   *)
(* billed.  Both are written by the session's main path (turns start,       *)
(* finish, are interrupted), by the tool calls of a turn, which run in      *)
(* parallel, and by requests of the app server.  accounting_lock is the     *)
(* only thing that orders them, and not everybody takes it.                 *)
(*                                                                          *)
(* An action is one database statement or one section under a mutex.        *)
(***************************************************************************)
EXTENDS Integers

CONSTANTS
    Main,        \* the session's own path: at most one turn at a time
    Tool,        \* slots for tool calls that run at the same time
    Ext,         \* a request of the app server
    Budget,      \* token budgets that can be asked for
    ExtKind,     \* requests the app server gets: "set", "clear", "resume"
    EndKind,     \* how turns end: "finish", "replace", "interrupt"
    MaxTurns, MaxGoals, MaxTokens, MaxClock, MaxTools, MaxRequests  \* bounds

Proc == Tool \cup {Main, Ext}
NoGoal == 0      \* Option::None of a goal id: ids count from 1
NoTurn == 0      \* Option::None of a turn id
NoBudget == 0    \* Option::None of a budget: validate_goal_budget wants more

ASSUME ProcAssumption == Main \notin Tool /\ Ext \notin Tool /\ Main # Ext
ASSUME BudgetAssumption == Budget \subseteq Nat \ {0}
ASSUME KindAssumption ==
    /\ ExtKind \subseteq {"set", "clear", "resume"}
    /\ EndKind \subseteq {"finish", "replace", "interrupt"}
ASSUME BoundAssumption ==
    /\ MaxTurns \in Nat /\ MaxGoals \in Nat /\ MaxTokens \in Nat
    /\ MaxClock \in Nat /\ MaxTools \in Nat /\ MaxRequests \in Nat

VARIABLES
    goal,      \* the row of thread_goals; id = NoGoal when there is none
    snap,      \* GoalAccountingSnapshot::turn: turn, baseline, goal billed
    wall,      \* GoalAccountingSnapshot::wall_clock: baseline, goal billed
    holders,   \* who has the one permit of accounting_lock
    reported,  \* budget_limit_reported_goal_id
    total,     \* tokens of the session that count, total_token_usage
    clock,     \* seconds since the session began
    pc, loc,   \* where each future is, and its locals
    made,      \* number of goals created so far: the last goal id
    turns,     \* number of turns started so far: the last turn id
    calls,     \* number of tool calls and requests so far
    born,      \* history: tokens and clock when the row was created, first baseline
    steers     \* history: budget notices sent for the row

store == <<goal, made, born>>
books == <<snap, wall, reported, steers>>
world == <<total, clock, turns, calls>>
vars == <<goal, made, born, snap, wall, reported, steers, total, clock, turns, calls,
          holders, pc, loc>>

Status == {"active", "paused", "budget_limited", "complete"}
NoRow == [id |-> NoGoal, status |-> "complete", budget |-> NoBudget, used |-> 0, time |-> 0]

Ops == {"none", "tool", "create", "complete", "finish", "replace", "interrupt",
        "set", "clear", "resume"}
Locals == [op : Ops, own : Nat, cur : Nat, delta : Nat, secs : Nat, exp : Nat, out : Status]
NoLocals == [op |-> "none", own |-> NoTurn, cur |-> 0, delta |-> 0, secs |-> 0,
             exp |-> NoGoal, out |-> "active"]

Init ==
    /\ goal = NoRow /\ made = 0 /\ born = [tokens |-> 0, clock |-> 0, base |-> 0]
    /\ snap = [turn |-> NoTurn, base |-> 0, goal |-> NoGoal]
    /\ wall = [last |-> 0, goal |-> NoGoal]
    /\ reported = NoGoal /\ steers = 0
    /\ total = 0 /\ clock = 0 /\ turns = 0 /\ calls = [tools |-> 0, requests |-> 0]
    /\ holders = {}
    /\ pc = [p \in Proc |-> "idle"] /\ loc = [p \in Proc |-> NoLocals]

(***************************************************************************)
(* The store.  Each operator is the row after one SQL statement.            *)
(***************************************************************************)
Exhausted(used, budget) == budget # NoBudget /\ used >= budget

status_after_budget_limit(status, used, budget) ==
    IF status = "active" /\ Exhausted(used, budget) THEN "budget_limited" ELSE status

\* An expected id of NoGoal is SQL NULL: no filter on the goal.
Matches(exp) == goal.id # NoGoal /\ (exp = NoGoal \/ goal.id = exp)

FreshRow(status, budget) ==
    [id |-> made + 1, status |-> status_after_budget_limit(status, 0, budget),
     budget |-> budget, used |-> 0, time |-> 0]

\* Insert or replace: a new id, and usage from zero.
PutFresh(status, budget) ==
    /\ made < MaxGoals
    /\ goal' = FreshRow(status, budget) /\ made' = made + 1
    /\ born' = [tokens |-> total, clock |-> clock, base |-> total]

\* Mutant: the budget that the update itself brings is not looked at.
UpdatedStatusOldBudget(status, budget) ==
    status_after_budget_limit(status, goal.used, goal.budget)
\* update_thread_goal with a status and with the budget left alone or set.  A
\* goal that ran out of budget is not paused.
UpdatedStatus(status, budget) ==
    IF goal.status = "budget_limited" /\ status = "paused" THEN goal.status
    ELSE status_after_budget_limit(status, goal.used, budget)

UpdatedRow(status, budget) ==
    [goal EXCEPT !.status = UpdatedStatus(status, budget), !.budget = budget]

\* ThreadGoalAccountingMode: the status of the goals that usage is billed to.
ActiveOnly == {"active", "budget_limited"}
ActiveStatusOnly == {"active"}

BilledRow(tokens, secs) ==
    [goal EXCEPT !.used = @ + tokens, !.time = @ + secs,
                 !.status = status_after_budget_limit(@, goal.used + tokens, goal.budget)]

(***************************************************************************)
(* The snapshots.                                                           *)
(***************************************************************************)
Atleast0(n) == IF n < 0 THEN 0 ELSE n
\* Mutant: the subtraction is not kept from going below zero.
token_delta_signed(cur) == cur - snap.base
token_delta(cur) == Atleast0(cur - snap.base)

time_delta == Atleast0(clock - wall.last)

\* GoalWallClockAccountingSnapshot: the baseline moves only to another goal.
WallMark(g) == IF wall.goal = g THEN wall ELSE [last |-> clock, goal |-> g]
WallCleared == [last |-> clock, goal |-> NoGoal]

\* active_turn_context: the turn whose task is registered.
ActiveTurn == IF pc[Main] = "run" THEN loc[Main].own ELSE NoTurn

SnapCleared == [snap EXCEPT !.goal = NoGoal]

(***************************************************************************)
(* Control: p goes on at label l, with locals r; when it is done it has     *)
(* none.                                                                    *)
(***************************************************************************)
GotoWith(p, l, r) == pc' = [pc EXCEPT ![p] = l] /\ loc' = [loc EXCEPT ![p] = r]
Goto(p, l) == GotoWith(p, l, IF l = "idle" THEN NoLocals ELSE loc[p])
At(p, l) == pc[p] = l

\* Mutant: nobody waits for the permit.
AcquireNoPermit(p) == holders' = holders \cup {p}
AcquirePermit(p) == holders = {} /\ holders' = {p}

ReleasePermit(p) == holders' = holders \ {p}

\* Where account_thread_goal_progress, account_thread_goal_wall_clock_usage and
\* mark_active_goal_accounting return to.
AfterProgress(p) ==
    CASE loc[p].op \in {"tool", "create"} -> "idle"
      [] loc[p].op = "complete" -> "w_lock"
      [] loc[p].op \in {"finish", "replace", "interrupt"} -> "t_clear"
      [] loc[p].op = "set" -> "x_get"
      [] OTHER -> "x_delete"
AfterWall(p) ==
    CASE loc[p].op = "create" -> "n_insert"
      [] loc[p].op = "complete" -> "c_read"
      [] loc[p].op = "interrupt" -> "i_pause"
      [] loc[p].op = "set" -> "x_get"
      [] OTHER -> "x_delete"
AfterMark(p) == IF loc[p].op = "create" THEN "p_lock" ELSE "idle"

(***************************************************************************)
(* account_thread_goal_progress.                                            *)
(***************************************************************************)
ProgressLock(p) ==
    /\ At(p, "p_lock") /\ AcquirePermit(p) /\ Goto(p, "p_total")
    /\ UNCHANGED <<store, books, world>>

ProgressTotal(p) ==
    /\ At(p, "p_total") /\ GotoWith(p, "p_snap", [loc[p] EXCEPT !.cur = total])
    /\ UNCHANGED <<store, books, world, holders>>

\* Another turn, a turn without goal, or nothing to bill: return.
NothingToBill(p) ==
    \/ snap.turn # loc[p].own \/ snap.goal = NoGoal
    \/ time_delta = 0 /\ token_delta(loc[p].cur) = 0

ProgressSnap(p) ==
    /\ At(p, "p_snap") /\ ~NothingToBill(p)
    /\ GotoWith(p, "p_db", [loc[p] EXCEPT !.delta = token_delta(loc[p].cur),
                                          !.secs = time_delta, !.exp = snap.goal])
    /\ UNCHANGED <<store, books, world, holders>>

ProgressReturn(p) ==
    /\ At(p, "p_snap") /\ NothingToBill(p)
    /\ ReleasePermit(p) /\ Goto(p, AfterProgress(p))
    /\ UNCHANGED <<store, books, world>>

\* account_thread_goal_usage finds the row, or nothing is billed or marked.
BillRow(p, mode) == Matches(loc[p].exp) /\ goal.status \in mode

ProgressBill(p) ==
    /\ At(p, "p_db") /\ BillRow(p, ActiveOnly)
    /\ goal' = BilledRow(loc[p].delta, loc[p].secs)
    /\ GotoWith(p, "p_mark", [loc[p] EXCEPT !.out = goal'.status])
    /\ UNCHANGED <<made, born, books, world, holders>>

ProgressUnchanged(p) ==
    /\ At(p, "p_db") /\ ~BillRow(p, ActiveOnly)
    /\ ReleasePermit(p) /\ Goto(p, AfterProgress(p))
    /\ UNCHANGED <<store, books, world>>

\* BudgetLimitSteering::Allowed: only a completed tool call may send the notice.
SteeringAllowed(p) == loc[p].op \in {"tool", "create"}

\* A goal that ran out of budget stays with the turn until its notice is out.
ClearsGoal(p) ==
    \/ loc[p].out \in {"paused", "complete"}
    \/ loc[p].out = "budget_limited" /\ ~SteeringAllowed(p)

\* Mutant: the total is read again after the write.
BaselineNow(p) == total
\* mark_accounted takes the total that the bill was made from.
Baseline(p) == loc[p].cur

ProgressMark(p) ==
    /\ At(p, "p_mark")
    /\ snap' = IF snap.turn # loc[p].own THEN snap
               ELSE [snap EXCEPT !.base = Baseline(p),
                                 !.goal = IF ClearsGoal(p) THEN NoGoal ELSE @]
    /\ wall' = IF ClearsGoal(p) THEN WallCleared ELSE [wall EXCEPT !.last = @ + loc[p].secs]
    \* Whether the notice was sent before is read here and used at p_report.
    /\ GotoWith(p, IF /\ SteeringAllowed(p) /\ loc[p].out = "budget_limited"
                      /\ reported # loc[p].exp
                   THEN "p_steer" ELSE "p_report", loc[p])
    /\ UNCHANGED <<store, reported, steers, world, holders>>

ProgressReport(p) ==
    /\ At(p, "p_report")
    /\ reported' = IF loc[p].out # "budget_limited" THEN NoGoal ELSE reported
    /\ ReleasePermit(p) /\ Goto(p, AfterProgress(p))
    /\ UNCHANGED <<store, snap, wall, steers, world>>

\* inject_response_items first, and then the goal is noted as reported.
ProgressSteer(p) ==
    /\ At(p, "p_steer") /\ Goto(p, "p_noted")
    /\ steers' = IF goal.id = loc[p].exp THEN steers + 1 ELSE steers
    /\ UNCHANGED <<store, snap, wall, reported, world, holders>>

\* Mutant: the notice is sent and not noted.
ProgressNotNoted(p) ==
    /\ At(p, "p_noted") /\ ReleasePermit(p) /\ Goto(p, AfterProgress(p))
    /\ UNCHANGED <<store, books, world>>
ProgressNoted(p) ==
    /\ At(p, "p_noted") /\ reported' = loc[p].exp
    /\ ReleasePermit(p) /\ Goto(p, AfterProgress(p))
    /\ UNCHANGED <<store, snap, wall, steers, world>>

Progress(p) ==
    \/ ProgressLock(p) \/ ProgressTotal(p) \/ ProgressSnap(p) \/ ProgressReturn(p)
    \/ ProgressBill(p) \/ ProgressUnchanged(p) \/ ProgressMark(p)
    \/ ProgressReport(p) \/ ProgressSteer(p)
    \/ ProgressNoted(p)

(***************************************************************************)
(* account_thread_goal_wall_clock_usage: seconds only.                      *)
(***************************************************************************)
WallLock(p) ==
    /\ At(p, "w_lock") /\ AcquirePermit(p) /\ Goto(p, "w_read")
    /\ UNCHANGED <<store, books, world>>

WallRead(p) ==
    /\ At(p, "w_read") /\ time_delta > 0
    /\ GotoWith(p, "w_db", [loc[p] EXCEPT !.delta = 0, !.secs = time_delta, !.exp = wall.goal])
    /\ UNCHANGED <<store, books, world, holders>>

WallReturn(p) ==
    /\ At(p, "w_read") /\ time_delta = 0
    /\ ReleasePermit(p) /\ Goto(p, AfterWall(p))
    /\ UNCHANGED <<store, books, world>>

\* Before it pauses the goal an interrupt bills its time if it is active.
WallMode(p) == IF loc[p].op = "interrupt" THEN ActiveStatusOnly ELSE ActiveOnly

WallBill(p) ==
    /\ At(p, "w_db") /\ BillRow(p, WallMode(p))
    /\ goal' = BilledRow(0, loc[p].secs) /\ Goto(p, "w_mark")
    /\ UNCHANGED <<made, born, books, world, holders>>

WallUnchanged(p) ==
    /\ At(p, "w_db") /\ ~BillRow(p, WallMode(p)) /\ Goto(p, "w_clear")
    /\ UNCHANGED <<store, books, world, holders>>

WallDone(p) ==
    /\ \/ At(p, "w_mark") /\ wall' = [wall EXCEPT !.last = @ + loc[p].secs]
       \/ At(p, "w_clear") /\ wall' = WallCleared
    /\ ReleasePermit(p) /\ Goto(p, AfterWall(p))
    /\ UNCHANGED <<store, snap, reported, steers, world>>

Wall(p) ==
    \/ WallLock(p) \/ WallRead(p) \/ WallReturn(p) \/ WallBill(p) \/ WallUnchanged(p)
    \/ WallDone(p)

(***************************************************************************)
(* mark_active_goal_accounting for goal exp, after the row was activated.   *)
(* It takes no permit: the total it was called with may be old.             *)
(***************************************************************************)
MarkReset(p) ==
    /\ At(p, "n_reset") /\ reported' = NoGoal
    /\ Goto(p, IF p = Ext THEN "x_turn" ELSE "n_total")
    /\ UNCHANGED <<store, snap, wall, steers, world, holders>>

MarkTotal(p) ==
    /\ At(p, "n_total") /\ GotoWith(p, "n_mark", [loc[p] EXCEPT !.cur = total])
    /\ UNCHANGED <<store, books, world, holders>>

MarkGoal(p) ==
    /\ At(p, "n_mark")
    /\ snap' = IF loc[p].own = NoTurn THEN snap
               ELSE [turn |-> loc[p].own, base |-> loc[p].cur, goal |-> loc[p].exp]
    /\ wall' = WallMark(loc[p].exp) /\ Goto(p, AfterMark(p))
    /\ born' = IF goal.id = loc[p].exp THEN [born EXCEPT !.base = loc[p].cur] ELSE born
    /\ UNCHANGED <<goal, made, reported, steers, world, holders>>

Mark(p) == MarkReset(p) \/ MarkTotal(p) \/ MarkGoal(p)

(***************************************************************************)
(* Tool calls of the running turn.  Most run in parallel; create_goal and   *)
(* update_goal take parallel_execution for themselves.                      *)
(***************************************************************************)
Goalish == {"create", "complete"}
Busy(w) == ~At(w, "idle")

ToolStart(w, op) ==
    /\ At(Main, "run") /\ At(w, "idle") /\ calls.tools < MaxTools
    /\ \A v \in Tool : Busy(v) => op = "tool" /\ loc[v].op = "tool"
    /\ calls' = [calls EXCEPT !.tools = @ + 1]
    /\ GotoWith(w, IF op = "create" THEN "w_lock" ELSE "p_lock",
                [NoLocals EXCEPT !.op = op, !.own = loc[Main].own])
    /\ UNCHANGED <<store, books, total, clock, turns, holders>>

\* create_thread_goal: insert_thread_goal does nothing if there is a goal.
CreateInsert(w) ==
    /\ At(w, "n_insert")
    /\ \/ /\ goal.id = NoGoal
          /\ \E b \in Budget \cup {NoBudget} : PutFresh("active", b)
          /\ GotoWith(w, "n_reset", [loc[w] EXCEPT !.exp = goal'.id])
       \/ /\ goal.id # NoGoal /\ Goto(w, "p_lock") /\ UNCHANGED <<store>>
    /\ UNCHANGED <<books, world, holders>>

\* set_thread_goal(Complete) of update_goal, after its two accountings.
CompleteRead(w) ==
    /\ At(w, "c_read") /\ GotoWith(w, "c_update", [loc[w] EXCEPT !.exp = goal.id])
    /\ UNCHANGED <<store, books, world, holders>>

CompleteUpdate(w) ==
    /\ At(w, "c_update")
    /\ \/ /\ Matches(loc[w].exp)
          /\ goal' = UpdatedRow("complete", goal.budget) /\ Goto(w, "c_clear")
       \/ /\ ~Matches(loc[w].exp) /\ Goto(w, "idle") /\ UNCHANGED goal
    /\ UNCHANGED <<made, born, books, world, holders>>

CompleteClear(w) ==
    /\ At(w, "c_clear") /\ Goto(w, "idle")
    /\ reported' = NoGoal /\ wall' = WallCleared
    /\ snap' = IF snap.turn = loc[w].own THEN SnapCleared ELSE snap
    /\ UNCHANGED <<store, steers, world, holders>>

\* A tool call of a turn that was cancelled is dropped at any await.
ToolDrop(w) ==
    /\ Busy(w) /\ loc[w].own # ActiveTurn
    /\ GotoWith(w, "idle", NoLocals) /\ ReleasePermit(w)
    /\ UNCHANGED <<store, books, world>>

ToolStep(w) ==
    \/ Progress(w) \/ Wall(w) \/ Mark(w)
    \/ CreateInsert(w) \/ CompleteRead(w) \/ CompleteUpdate(w) \/ CompleteClear(w)
    \/ ToolDrop(w)

(***************************************************************************)
(* The main path: turns, one after the other.                               *)
(***************************************************************************)
Spend ==
    /\ At(Main, "run") /\ total < MaxTokens /\ total' = total + 1
    /\ UNCHANGED <<store, books, clock, turns, calls, holders, pc, loc>>

Tick ==
    /\ clock < MaxClock /\ clock' = clock + 1
    /\ UNCHANGED <<store, books, total, turns, calls, holders, pc, loc>>

\* mark_thread_goal_turn_started: a fresh snapshot, then the goal it bills.
TurnStart ==
    /\ At(Main, "idle") /\ turns < MaxTurns /\ turns' = turns + 1
    /\ snap' = [turn |-> turns + 1, base |-> total, goal |-> NoGoal]
    /\ GotoWith(Main, "t_read", [NoLocals EXCEPT !.own = turns + 1])
    /\ UNCHANGED <<store, wall, reported, steers, total, clock, calls, holders>>

TurnReadGoal ==
    /\ At(Main, "t_read")
    /\ GotoWith(Main, "t_mark",
                [loc[Main] EXCEPT !.exp = IF goal.status \in ActiveOnly THEN goal.id
                                          ELSE NoGoal])
    /\ UNCHANGED <<store, books, world, holders>>

TurnMarkGoal ==
    /\ At(Main, "t_mark") /\ Goto(Main, "run")
    /\ LET g == loc[Main].exp IN
         /\ wall' = IF g = NoGoal THEN WallCleared ELSE WallMark(g)
         /\ snap' = IF g # NoGoal /\ snap.turn = loc[Main].own THEN [snap EXCEPT !.goal = g]
                    ELSE snap
    /\ UNCHANGED <<store, reported, steers, world, holders>>

\* A turn that finishes has waited for its tool calls; an aborted one has not.
TurnEnd(op) ==
    /\ At(Main, "run") /\ (op = "finish" => \A w \in Tool : ~Busy(w))
    /\ GotoWith(Main, "p_lock", [loc[Main] EXCEPT !.op = op])
    /\ UNCHANGED <<store, books, world, holders>>

TurnClear ==
    /\ At(Main, "t_clear")
    /\ snap' = IF snap.turn = loc[Main].own THEN [snap EXCEPT !.turn = NoTurn, !.goal = NoGoal]
               ELSE snap
    /\ Goto(Main, IF loc[Main].op = "interrupt" THEN "w_lock" ELSE "idle")
    /\ UNCHANGED <<store, wall, reported, steers, world, holders>>

\* An interrupt accounts and pauses also when no turn runs.
InterruptIdle ==
    /\ At(Main, "idle") /\ "interrupt" \in EndKind
    /\ GotoWith(Main, "w_lock", [NoLocals EXCEPT !.op = "interrupt"])
    /\ UNCHANGED <<store, books, world, holders>>

InterruptPause ==
    /\ At(Main, "i_pause")
    /\ \/ /\ goal.id # NoGoal /\ goal.status = "active"
          /\ goal' = [goal EXCEPT !.status = "paused"] /\ Goto(Main, "i_clear")
       \/ /\ ~(goal.id # NoGoal /\ goal.status = "active")
          /\ Goto(Main, "idle") /\ UNCHANGED goal
    /\ UNCHANGED <<made, born, books, world, holders>>

InterruptClear ==
    /\ At(Main, "i_clear") /\ Goto(Main, "idle")
    /\ reported' = NoGoal /\ wall' = WallCleared
    /\ UNCHANGED <<store, snap, steers, world, holders>>

MainStep ==
    \/ Progress(Main) \/ Wall(Main)
    \/ TurnStart \/ TurnReadGoal \/ TurnMarkGoal \/ Spend \/ TurnClear
    \/ \E op \in EndKind : TurnEnd(op)
    \/ InterruptIdle \/ InterruptPause \/ InterruptClear

(***************************************************************************)
(* Requests of the app server, and the resumption of a thread.              *)
(***************************************************************************)
ExtStart(op) ==
    /\ At(Ext, "idle") /\ calls.requests < MaxRequests
    /\ calls' = [calls EXCEPT !.requests = @ + 1]
    /\ GotoWith(Ext, IF op = "resume" THEN "r_get"
                     ELSE IF ActiveTurn = NoTurn THEN "w_lock" ELSE "p_lock",
                [NoLocals EXCEPT !.op = op, !.own = ActiveTurn])
    /\ UNCHANGED <<store, books, total, clock, turns, holders>>

\* thread_goal_set: the current objective updates the goal, another replaces it,
\* none at all updates whatever goal there is.
SetRead ==
    /\ At(Ext, "x_get")
    /\ \/ /\ goal.id # NoGoal /\ goal.status # "complete"
          /\ GotoWith(Ext, "x_update", [loc[Ext] EXCEPT !.exp = goal.id])
       \/ Goto(Ext, "x_replace")
       \/ GotoWith(Ext, "x_update", [loc[Ext] EXCEPT !.exp = NoGoal])
    /\ UNCHANGED <<store, books, world, holders>>

SetReplace ==
    /\ At(Ext, "x_replace")
    /\ \E s \in Status, b \in Budget \cup {NoBudget} : PutFresh(s, b)
    /\ GotoWith(Ext, "x_apply", [loc[Ext] EXCEPT !.out = goal'.status])
    /\ UNCHANGED <<books, world, holders>>

SetUpdate ==
    /\ At(Ext, "x_update") /\ Matches(loc[Ext].exp)
    /\ \E s \in Status, b \in Budget \cup {NoBudget, goal.budget} : goal' = UpdatedRow(s, b)
    /\ GotoWith(Ext, "x_apply", [loc[Ext] EXCEPT !.out = goal'.status])
    /\ UNCHANGED <<made, born, books, world, holders>>

SetFails ==
    /\ At(Ext, "x_update") /\ ~Matches(loc[Ext].exp) /\ Goto(Ext, "idle")
    /\ UNCHANGED <<store, books, world, holders>>

\* apply_external_thread_goal_status.
ApplyStatus ==
    /\ At(Ext, "x_apply")
    /\ Goto(Ext, CASE loc[Ext].out = "active" -> "x_reread"
                   [] loc[Ext].out = "budget_limited" /\ ActiveTurn # NoTurn -> "idle"
                   [] OTHER -> "x_stop")
    /\ UNCHANGED <<store, books, world, holders>>

ApplyReread ==
    /\ At(Ext, "x_reread")
    /\ \/ /\ goal.id # NoGoal /\ goal.status = "active"
          /\ GotoWith(Ext, "x_turn", [loc[Ext] EXCEPT !.exp = goal.id])
       \/ /\ goal.id = NoGoal \/ goal.status # "active"
          /\ Goto(Ext, "idle")
    /\ UNCHANGED <<store, books, world, holders>>

ApplyTurn ==
    /\ At(Ext, "x_turn") /\ GotoWith(Ext, "n_total", [loc[Ext] EXCEPT !.own = ActiveTurn])
    /\ UNCHANGED <<store, books, world, holders>>

\* clear_stopped_thread_goal_runtime_state.
ApplyStop ==
    /\ At(Ext, "x_stop") /\ Goto(Ext, "idle")
    /\ reported' = NoGoal /\ snap' = SnapCleared /\ wall' = WallCleared
    /\ UNCHANGED <<store, steers, world, holders>>

ClearDelete ==
    /\ At(Ext, "x_delete")
    /\ goal' = NoRow /\ Goto(Ext, IF goal.id = NoGoal THEN "idle" ELSE "x_stop")
    /\ UNCHANGED <<made, born, books, world, holders>>

\* activate_paused_thread_goal_after_resume.
ResumeRead ==
    /\ At(Ext, "r_get")
    /\ IF goal.id # NoGoal /\ goal.status = "paused"
       THEN /\ GotoWith(Ext, "r_update", [loc[Ext] EXCEPT !.exp = goal.id])
            /\ UNCHANGED <<reported, wall>>
       ELSE /\ Goto(Ext, "idle")
            /\ wall' = IF goal.status = "active" THEN WallMark(goal.id) ELSE WallCleared
            /\ reported' = IF goal.id = NoGoal THEN NoGoal ELSE reported
    /\ UNCHANGED <<store, snap, steers, world, holders>>

ResumeUpdate ==
    /\ At(Ext, "r_update")
    /\ IF Matches(loc[Ext].exp)
       THEN /\ goal' = UpdatedRow("active", goal.budget) /\ Goto(Ext, "n_reset")
            /\ UNCHANGED <<reported, wall>>
       ELSE /\ Goto(Ext, "idle") /\ reported' = NoGoal /\ wall' = WallCleared
            /\ UNCHANGED goal
    /\ UNCHANGED <<made, born, snap, steers, world, holders>>

ExtStep ==
    \/ Progress(Ext) \/ Wall(Ext) \/ Mark(Ext)
    \/ \E op \in ExtKind : ExtStart(op)
    \/ SetRead \/ SetReplace \/ SetUpdate \/ SetFails
    \/ ApplyStatus \/ ApplyReread \/ ApplyTurn \/ ApplyStop \/ ClearDelete
    \/ ResumeRead \/ ResumeUpdate

Next ==
    \/ \E w \in Tool, op \in {"tool", "create", "complete"} : ToolStart(w, op)
    \/ \E w \in Tool : ToolStep(w)
    \/ MainStep \/ ExtStep \/ Tick

Spec == Init /\ [][Next]_vars

(***************************************************************************)
(* Properties.                                                              *)
(***************************************************************************)
Labels == {"idle", "run", "p_lock", "p_total", "p_snap", "p_db", "p_mark", "p_report",
           "p_steer", "p_noted", "w_lock", "w_read", "w_db", "w_mark", "w_clear",
           "n_insert", "n_reset", "n_total", "n_mark", "c_read", "c_update", "c_clear",
           "t_read", "t_mark", "t_clear", "i_pause", "i_clear", "x_get", "x_replace",
           "x_update", "x_apply", "x_reread", "x_turn", "x_stop", "x_delete",
           "r_get", "r_update"}
Row == [id : Nat, status : Status, budget : Nat, used : Nat, time : Nat]

\* Types of the row, the snapshots and the locals.
BooksTypeOK ==
    /\ goal \in Row /\ made \in Nat /\ born \in [tokens : Nat, clock : Nat, base : Nat]
    /\ snap \in [turn : Nat, base : Nat, goal : Nat]
    /\ wall \in [last : Nat, goal : Nat]
    /\ reported \in Nat /\ steers \in Nat
    /\ total \in Nat /\ clock \in Nat /\ turns \in Nat
    /\ calls \in [tools : Nat, requests : Nat]
    /\ holders \subseteq Proc
    /\ pc \in [Proc -> Labels] /\ loc \in [Proc -> Locals]

\* Whoever writes the row last (a tool call that bills, a request that changes status or
\* budget, an interrupt, a resumption), a goal that is active has budget left: the
\* continuation of TurnLifecycle never works on a goal that used it up.
ActiveUnderBudget == goal.status = "active" => ~Exhausted(goal.used, goal.budget)

\* A goal is never billed more than the session used up since the goal exists, whatever
\* tool calls finish together (account_thread_goal_progress).
NoOverbilling ==
    goal.id # NoGoal =>
        /\ goal.used <= total - born.tokens
        /\ goal.time <= clock - born.clock

\* When no turn runs, every token since the goal was marked for accounting has been
\* billed to it: what is spent while a tool call writes the row is left for the next one.
BilledInFull ==
    goal.status = "active" /\ (\A p \in Proc : At(p, "idle"))
    => goal.used = total - born.base

\* The model is told at most once that its goal ran out of budget, although several tool
\* calls may find out at the same time.
SteerOnce == steers <= 1
=============================================================================
