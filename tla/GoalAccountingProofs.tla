----------------------- MODULE GoalAccountingProofs -----------------------
(***************************************************************************)
(* Proofs about GoalAccounting, for any number of tool calls, goals and     *)
(* requests: the types, that an active goal is under its budget and, in     *)
(* sessions that nothing interrupts, that the books balance and the budget  *)
(* notice is sent once.                                                     *)
(***************************************************************************)
EXTENDS GoalAccounting, TLAPS

UnderBudget(r) == r.status = "active" => ~Exhausted(r.used, r.budget)

\* The types and the budget are one inductive invariant: the store's statements
\* decide on the status from the usage they write.
BudgetInv == BooksTypeOK /\ ActiveUnderBudget

-----------------------------------------------------------------------------
(***************************************************************************)
(* What the store's statements return.                                      *)
(***************************************************************************)

\* status_after_budget_limit never answers "active" for a goal out of budget.
LEMMA StatusLemma ==
    ASSUME NEW s \in Status, NEW u \in Nat, NEW b \in Nat
    PROVE  /\ status_after_budget_limit(s, u, b) \in Status
           /\ status_after_budget_limit(s, u, b) = "active" => ~Exhausted(u, b)
BY DEF status_after_budget_limit, Status

\* Inserting or replacing writes a well-formed row under its budget.
LEMMA FreshLemma ==
    ASSUME made \in Nat, NEW s \in Status, NEW b \in Nat
    PROVE  FreshRow(s, b) \in Row /\ UnderBudget(FreshRow(s, b))
<1>1. status_after_budget_limit(s, 0, b) \in Status
  BY StatusLemma
<1>2. status_after_budget_limit(s, 0, b) = "active" => ~Exhausted(0, b)
  BY StatusLemma
<1> QED BY <1>1, <1>2 DEF FreshRow, Row, UnderBudget

\* Updating status and budget does too, whatever the row was before.
LEMMA UpdateLemma ==
    ASSUME goal \in Row, NEW s \in Status, NEW b \in Nat
    PROVE  UpdatedRow(s, b) \in Row /\ UnderBudget(UpdatedRow(s, b))
<1>1. UpdatedStatus(s, b) \in Status
  BY StatusLemma DEF UpdatedStatus, Row
<1>2. UpdatedStatus(s, b) = "active" => ~Exhausted(goal.used, b)
  BY StatusLemma DEF UpdatedStatus, Row
<1> QED BY <1>1, <1>2 DEF UpdatedRow, Row, UnderBudget

\* Billing keeps a goal active only if the sum still is under the budget.
LEMMA BillLemma ==
    ASSUME goal \in Row, NEW n \in Nat, NEW t \in Nat
    PROVE  BilledRow(n, t) \in Row /\ UnderBudget(BilledRow(n, t))
<1>1. goal.used + n \in Nat /\ goal.time + t \in Nat /\ goal.budget \in Nat
        /\ goal.status \in Status
  BY DEF Row
<1>2. status_after_budget_limit(goal.status, goal.used + n, goal.budget) \in Status
  BY <1>1, StatusLemma
<1>3. status_after_budget_limit(goal.status, goal.used + n, goal.budget) = "active"
        => ~Exhausted(goal.used + n, goal.budget)
  BY <1>1, StatusLemma
<1> QED BY <1>1, <1>2, <1>3 DEF BilledRow, Row, UnderBudget

-----------------------------------------------------------------------------
(***************************************************************************)
(* Control.                                                                 *)
(***************************************************************************)
ControlType == pc \in [Proc -> Labels] /\ loc \in [Proc -> Locals]

LEMMA GotoWithLemma ==
    ASSUME ControlType, NEW p \in Proc, NEW l \in Labels, NEW r \in Locals, GotoWith(p, l, r)
    PROVE  ControlType'
BY DEF ControlType, GotoWith

LEMMA NoLocalsType == NoLocals \in Locals
BY DEF NoLocals, Locals, Ops, Status, NoTurn, NoGoal

LEMMA GotoLemma ==
    ASSUME ControlType, NEW p \in Proc, NEW l \in Labels, Goto(p, l)
    PROVE  ControlType'
<1>1. (IF l = "idle" THEN NoLocals ELSE loc[p]) \in Locals
  BY NoLocalsType DEF ControlType
<1> QED BY <1>1, GotoWithLemma DEF Goto

\* Where the accounting operations return to are labels.
LEMMA ReturnLabels ==
    ASSUME NEW p
    PROVE  AfterProgress(p) \in Labels /\ AfterWall(p) \in Labels /\ AfterMark(p) \in Labels
BY DEF AfterProgress, AfterWall, AfterMark, Labels

\* Tokens and seconds to bill are natural numbers.
LEMMA DeltaType ==
    ASSUME BooksTypeOK
    PROVE  /\ \A n \in Nat : token_delta(n) \in Nat
           /\ time_delta \in Nat
BY DEF BooksTypeOK, token_delta, time_delta, Atleast0

LEMMA ActiveTurnType ==
    ASSUME BooksTypeOK, Main \in Proc
    PROVE  ActiveTurn \in Nat
BY DEF BooksTypeOK, ActiveTurn, Locals, NoTurn

\* The wall-clock snapshots that are written are well typed.
LEMMA WallType ==
    ASSUME BooksTypeOK, NEW g \in Nat
    PROVE  /\ WallMark(g) \in [last : Nat, goal : Nat]
           /\ WallCleared \in [last : Nat, goal : Nat]
           /\ \A n \in Nat : [wall EXCEPT !.last = @ + n] \in [last : Nat, goal : Nat]
BY DEF BooksTypeOK, WallMark, WallCleared, NoGoal
-----------------------------------------------------------------------------
(***************************************************************************)
(* Every step preserves the invariant.  RowType, SnapType and WorldType cut *)
(* the type invariant into what the actions change together.                *)
(***************************************************************************)
RowType == goal \in Row /\ ActiveUnderBudget /\ made \in Nat
           /\ born \in [tokens : Nat, clock : Nat, base : Nat]
SnapType == /\ snap \in [turn : Nat, base : Nat, goal : Nat]
            /\ wall \in [last : Nat, goal : Nat]
            /\ reported \in Nat /\ steers \in Nat
WorldType == /\ total \in Nat /\ clock \in Nat /\ turns \in Nat
             /\ calls \in [tools : Nat, requests : Nat]
             /\ holders \subseteq Proc

LEMMA Parts == BudgetInv <=> RowType /\ SnapType /\ WorldType /\ ControlType
BY DEF BudgetInv, BooksTypeOK, RowType, SnapType, WorldType, ControlType

LEMMA PartsNext == BudgetInv' <=> RowType' /\ SnapType' /\ WorldType' /\ ControlType'
BY DEF BudgetInv, BooksTypeOK, RowType, SnapType, WorldType, ControlType

\* Variables that a step leaves alone keep their types.
LEMMA Frame ==
    ASSUME BudgetInv
    PROVE  /\ UNCHANGED store => RowType'
           /\ UNCHANGED books => SnapType'
           /\ UNCHANGED world /\ holders' \subseteq Proc => WorldType'
BY Parts DEF RowType, SnapType, WorldType, store, books, world, ActiveUnderBudget

\* A row that a statement returned, under its budget, is a good row to store.
LEMMA StoreRow ==
    ASSUME BudgetInv, NEW r \in Row, UnderBudget(r), goal' = r, made' \in Nat,
           born' \in [tokens : Nat, clock : Nat, base : Nat]
    PROVE  RowType'
BY DEF RowType, ActiveUnderBudget, UnderBudget

\* The locals of every future are well typed.
LEMMA LocType ==
    ASSUME BudgetInv, NEW p \in Proc
    PROVE  /\ loc[p] \in Locals /\ loc[p].own \in Nat /\ loc[p].cur \in Nat
           /\ loc[p].delta \in Nat /\ loc[p].secs \in Nat /\ loc[p].exp \in Nat
           /\ loc[p].out \in Status /\ loc[p].op \in Ops
BY DEF BudgetInv, BooksTypeOK, Locals

\* Handling the permit keeps holders among the futures.
LEMMA PermitType ==
    ASSUME BudgetInv, NEW p \in Proc, AcquirePermit(p) \/ ReleasePermit(p) \/ UNCHANGED holders
    PROVE  holders' \subseteq Proc
BY DEF BudgetInv, BooksTypeOK, AcquirePermit, ReleasePermit

\* account_thread_goal_progress.
LEMMA ProgressInv ==
    ASSUME BudgetInv, NEW p \in Proc, Progress(p)
    PROVE  BudgetInv'
<1> USE Parts
<1>L. /\ loc[p] \in Locals /\ loc[p].own \in Nat /\ loc[p].cur \in Nat
      /\ loc[p].delta \in Nat /\ loc[p].secs \in Nat /\ loc[p].exp \in Nat
  BY LocType
<1>R. AfterProgress(p) \in Labels
  BY ReturnLabels
<1>1. CASE ProgressLock(p)
  <2>1. ControlType'
    BY <1>1, GotoLemma DEF ProgressLock, Labels
  <2> QED BY <1>1, <2>1, Frame, PermitType, PartsNext DEF ProgressLock
<1>2. CASE ProgressTotal(p)
  <2>1. [loc[p] EXCEPT !.cur = total] \in Locals
    BY <1>L DEF Locals, WorldType
  <2>2. ControlType'
    BY <1>2, <2>1, GotoWithLemma DEF ProgressTotal, Labels
  <2> QED BY <1>2, <2>2, Frame, PermitType, PartsNext DEF ProgressTotal
<1>3. CASE ProgressSnap(p)
  <2>1. token_delta(loc[p].cur) \in Nat /\ time_delta \in Nat /\ snap.goal \in Nat
    BY <1>L, DeltaType DEF SnapType, BudgetInv
  <2>2. [loc[p] EXCEPT !.delta = token_delta(loc[p].cur), !.secs = time_delta,
                       !.exp = snap.goal] \in Locals
    BY <1>L, <2>1 DEF Locals
  <2>3. ControlType'
    BY <1>3, <2>2, GotoWithLemma DEF ProgressSnap, Labels
  <2> QED BY <1>3, <2>3, Frame, PermitType, PartsNext DEF ProgressSnap
<1>4. CASE ProgressReturn(p)
  <2>1. ControlType'
    BY <1>4, <1>R, GotoLemma DEF ProgressReturn
  <2> QED BY <1>4, <2>1, Frame, PermitType, PartsNext DEF ProgressReturn
<1>5. CASE ProgressBill(p)
  <2>1. BilledRow(loc[p].delta, loc[p].secs) \in Row
          /\ UnderBudget(BilledRow(loc[p].delta, loc[p].secs))
    BY <1>L, BillLemma DEF RowType
  <2>2. RowType'
    BY <1>5, <2>1, StoreRow DEF ProgressBill, RowType
  <2>3. [loc[p] EXCEPT !.out = goal'.status] \in Locals
    BY <1>L, <2>2 DEF Locals, RowType, Row
  <2>4. ControlType'
    BY <1>5, <2>3, GotoWithLemma DEF ProgressBill, Labels
  <2> QED BY <1>5, <2>2, <2>4, Frame, PermitType, PartsNext DEF ProgressBill
<1>6. CASE ProgressUnchanged(p)
  <2>1. ControlType'
    BY <1>6, <1>R, GotoLemma DEF ProgressUnchanged
  <2> QED BY <1>6, <2>1, Frame, PermitType, PartsNext DEF ProgressUnchanged
<1>7. CASE ProgressMark(p)
  <2>1. ControlType'
    BY <1>7, <1>L, GotoWithLemma DEF ProgressMark, Labels
  <2>2. SnapType'
    <3>1. snap' \in [turn : Nat, base : Nat, goal : Nat]
      BY <1>7, <1>L DEF ProgressMark, SnapType, Baseline, NoGoal
    <3>2. wall' \in [last : Nat, goal : Nat]
      BY <1>7, <1>L, WallType DEF ProgressMark, SnapType, BudgetInv
    <3> QED BY <1>7, <3>1, <3>2 DEF ProgressMark, SnapType
  <2> QED BY <1>7, <2>1, <2>2, Frame, PermitType, PartsNext DEF ProgressMark
<1>8. CASE ProgressReport(p)
  <2>1. ControlType'
    BY <1>8, <1>R, GotoLemma DEF ProgressReport
  <2>2. SnapType'
    BY <1>8 DEF ProgressReport, SnapType, NoGoal
  <2> QED BY <1>8, <2>1, <2>2, Frame, PermitType, PartsNext DEF ProgressReport
<1>9. CASE ProgressSteer(p)
  <2>1. ControlType'
    BY <1>9, GotoLemma DEF ProgressSteer, Labels
  <2>2. SnapType'
    BY <1>9 DEF ProgressSteer, SnapType
  <2> QED BY <1>9, <2>1, <2>2, Frame, PermitType, PartsNext DEF ProgressSteer
<1>10. CASE ProgressNoted(p)
  <2>1. ControlType'
    BY <1>10, <1>R, GotoLemma DEF ProgressNoted
  <2>2. SnapType'
    BY <1>10, <1>L DEF ProgressNoted, SnapType
  <2> QED BY <1>10, <2>1, <2>2, Frame, PermitType, PartsNext DEF ProgressNoted
<1> QED BY <1>1, <1>2, <1>3, <1>4, <1>5, <1>6, <1>7, <1>8, <1>9, <1>10 DEF Progress

\* account_thread_goal_wall_clock_usage.
LEMMA WallInv ==
    ASSUME BudgetInv, NEW p \in Proc, Wall(p)
    PROVE  BudgetInv'
<1> USE Parts
<1>L. loc[p] \in Locals /\ loc[p].secs \in Nat
  BY LocType
<1>R. AfterWall(p) \in Labels
  BY ReturnLabels
<1>1. CASE WallLock(p)
  <2>1. ControlType'
    BY <1>1, GotoLemma DEF WallLock, Labels
  <2> QED BY <1>1, <2>1, Frame, PermitType, PartsNext DEF WallLock
<1>2. CASE WallRead(p)
  <2>1. time_delta \in Nat /\ wall.goal \in Nat
    BY DeltaType DEF SnapType, BudgetInv
  <2>2. [loc[p] EXCEPT !.delta = 0, !.secs = time_delta, !.exp = wall.goal] \in Locals
    BY <1>L, <2>1 DEF Locals
  <2>3. ControlType'
    BY <1>2, <2>2, GotoWithLemma DEF WallRead, Labels
  <2> QED BY <1>2, <2>3, Frame, PermitType, PartsNext DEF WallRead
<1>3. CASE WallReturn(p)
  <2>1. ControlType'
    BY <1>3, <1>R, GotoLemma DEF WallReturn
  <2> QED BY <1>3, <2>1, Frame, PermitType, PartsNext DEF WallReturn
<1>4. CASE WallBill(p)
  <2>1. BilledRow(0, loc[p].secs) \in Row /\ UnderBudget(BilledRow(0, loc[p].secs))
    BY <1>L, BillLemma DEF RowType
  <2>2. RowType'
    BY <1>4, <2>1, StoreRow DEF WallBill, RowType
  <2>3. ControlType'
    BY <1>4, GotoLemma DEF WallBill, Labels
  <2> QED BY <1>4, <2>2, <2>3, Frame, PermitType, PartsNext DEF WallBill
<1>5. CASE WallUnchanged(p)
  <2>1. ControlType'
    BY <1>5, GotoLemma DEF WallUnchanged, Labels
  <2> QED BY <1>5, <2>1, Frame, PermitType, PartsNext DEF WallUnchanged
<1>6. CASE WallDone(p)
  <2>1. ControlType'
    BY <1>6, <1>R, GotoLemma DEF WallDone
  <2>2. wall' \in [last : Nat, goal : Nat]
    BY <1>6, <1>L, WallType DEF WallDone, SnapType, BudgetInv
  <2>3. SnapType'
    BY <1>6, <2>2 DEF WallDone, SnapType
  <2> QED BY <1>6, <2>1, <2>3, Frame, PermitType, PartsNext DEF WallDone
<1> QED BY <1>1, <1>2, <1>3, <1>4, <1>5, <1>6 DEF Wall
\* mark_active_goal_accounting.
LEMMA MarkInv ==
    ASSUME BudgetInv, NEW p \in Proc, Mark(p)
    PROVE  BudgetInv'
<1> USE Parts
<1>L. loc[p] \in Locals /\ loc[p].own \in Nat /\ loc[p].cur \in Nat /\ loc[p].exp \in Nat
  BY LocType
<1>1. CASE MarkReset(p)
  <2>1. ControlType'
    BY <1>1, GotoLemma DEF MarkReset, Labels
  <2>2. SnapType'
    BY <1>1 DEF MarkReset, SnapType, NoGoal
  <2> QED BY <1>1, <2>1, <2>2, Frame, PermitType, PartsNext DEF MarkReset
<1>2. CASE MarkTotal(p)
  <2>1. [loc[p] EXCEPT !.cur = total] \in Locals
    BY <1>L DEF Locals, WorldType
  <2>2. ControlType'
    BY <1>2, <2>1, GotoWithLemma DEF MarkTotal, Labels
  <2> QED BY <1>2, <2>2, Frame, PermitType, PartsNext DEF MarkTotal
<1>3. CASE MarkGoal(p)
  <2>1. ControlType'
    BY <1>3, ReturnLabels, GotoLemma DEF MarkGoal
  <2>2. SnapType'
    <3>1. wall' \in [last : Nat, goal : Nat]
      BY <1>3, <1>L, WallType DEF MarkGoal, BudgetInv
    <3> QED BY <1>3, <1>L, <3>1 DEF MarkGoal, SnapType
  <2>3. RowType'
    BY <1>3, <1>L DEF MarkGoal, RowType, ActiveUnderBudget
  <2> QED BY <1>3, <2>1, <2>2, <2>3, Frame, PermitType, PartsNext DEF MarkGoal
<1> QED BY <1>1, <1>2, <1>3 DEF Mark

\* A new goal: a fresh id and nothing used.
LEMMA PutFreshLemma ==
    ASSUME BudgetInv, NEW s \in Status, NEW b \in Nat, PutFresh(s, b)
    PROVE  RowType'
<1>1. FreshRow(s, b) \in Row /\ UnderBudget(FreshRow(s, b))
  BY Parts, FreshLemma DEF RowType
<1> QED BY <1>1, Parts, StoreRow DEF PutFresh, RowType, WorldType

LEMMA BudgetType == \A b \in Budget \cup {NoBudget} : b \in Nat
BY BudgetAssumption DEF NoBudget

\* Tool calls.
LEMMA ToolStartInv ==
    ASSUME BudgetInv, NEW w \in Tool, NEW op \in {"tool", "create", "complete"}, ToolStart(w, op)
    PROVE  BudgetInv'
<1> USE Parts
<1>1. w \in Proc /\ Main \in Proc
  BY DEF Proc
<1>2. [NoLocals EXCEPT !.op = op, !.own = loc[Main].own] \in Locals
  BY <1>1, LocType, NoLocalsType DEF Locals, Ops
<1>3. ControlType'
  BY <1>1, <1>2, GotoWithLemma DEF ToolStart, Labels
<1>4. WorldType'
  BY DEF ToolStart, WorldType
<1> QED BY <1>3, <1>4, Frame, PartsNext DEF ToolStart

LEMMA ToolInv ==
    ASSUME BudgetInv, NEW w \in Tool, ToolStep(w)
    PROVE  BudgetInv'
<1> USE Parts
<1>P. w \in Proc
  BY DEF Proc
<1>L. loc[w] \in Locals
  BY <1>P, LocType
<1>1. CASE CreateInsert(w)
  <2>1. CASE goal.id = NoGoal
    <3>1. PICK b \in Budget \cup {NoBudget} : PutFresh("active", b)
      BY <1>1, <2>1 DEF CreateInsert
    <3>2. RowType'
      BY <3>1, BudgetType, PutFreshLemma DEF Status
    <3>3. [loc[w] EXCEPT !.exp = goal'.id] \in Locals
      BY <1>L, <3>2 DEF Locals, RowType, Row
    <3>4. ControlType'
      BY <1>1, <1>P, <2>1, <3>3, GotoWithLemma DEF CreateInsert, Labels
    <3> QED BY <1>1, <1>P, <3>2, <3>4, Frame, PermitType, PartsNext DEF CreateInsert
  <2>2. CASE goal.id # NoGoal
    <3>1. ControlType'
      BY <1>1, <1>P, <2>2, GotoLemma DEF CreateInsert, Labels
    <3> QED BY <1>1, <1>P, <2>2, <3>1, Frame, PermitType, PartsNext DEF CreateInsert
  <2> QED BY <2>1, <2>2
<1>2. CASE CompleteRead(w)
  <2>1. [loc[w] EXCEPT !.exp = goal.id] \in Locals
    BY <1>L DEF Locals, RowType, Row
  <2>2. ControlType'
    BY <1>2, <1>P, <2>1, GotoWithLemma DEF CompleteRead, Labels
  <2> QED BY <1>2, <1>P, <2>2, Frame, PermitType, PartsNext DEF CompleteRead
<1>3. CASE CompleteUpdate(w)
  <2>1. UpdatedRow("complete", goal.budget) \in Row
          /\ UnderBudget(UpdatedRow("complete", goal.budget))
    BY UpdateLemma DEF RowType, Row, Status
  <2>2. RowType'
    BY <1>3, <2>1, StoreRow DEF CompleteUpdate, RowType, ActiveUnderBudget
  <2>3. ControlType'
    BY <1>3, <1>P, GotoLemma DEF CompleteUpdate, Labels
  <2> QED BY <1>3, <1>P, <2>2, <2>3, Frame, PermitType, PartsNext DEF CompleteUpdate
<1>4. CASE CompleteClear(w)
  <2>1. ControlType'
    BY <1>4, <1>P, GotoLemma DEF CompleteClear, Labels
  <2>2. SnapType'
    <3>1. wall' \in [last : Nat, goal : Nat]
      BY <1>4, WallType DEF CompleteClear, BudgetInv, NoGoal
    <3> QED BY <1>4, <3>1 DEF CompleteClear, SnapType, SnapCleared, NoGoal
  <2> QED BY <1>4, <1>P, <2>1, <2>2, Frame, PermitType, PartsNext DEF CompleteClear
<1>5. CASE ToolDrop(w)
  <2>1. ControlType'
    BY <1>5, <1>P, NoLocalsType, GotoWithLemma DEF ToolDrop, Labels
  <2> QED BY <1>5, <1>P, <2>1, Frame, PermitType, PartsNext DEF ToolDrop
<1> QED BY <1>P, <1>1, <1>2, <1>3, <1>4, <1>5, ProgressInv, WallInv, MarkInv DEF ToolStep

\* The main path.
LEMMA MainInv ==
    ASSUME BudgetInv, MainStep
    PROVE  BudgetInv'
<1> USE Parts
<1>P. Main \in Proc
  BY DEF Proc
<1>L. loc[Main] \in Locals /\ loc[Main].exp \in Nat /\ loc[Main].own \in Nat
  BY <1>P, LocType
<1>1. CASE TurnStart
  <2>1. [NoLocals EXCEPT !.own = turns + 1] \in Locals
    BY NoLocalsType DEF Locals, WorldType
  <2>2. ControlType'
    BY <1>1, <1>P, <2>1, GotoWithLemma DEF TurnStart, Labels
  <2>3. SnapType' /\ WorldType'
    BY <1>1 DEF TurnStart, SnapType, WorldType, NoGoal
  <2> QED BY <1>1, <2>2, <2>3, Frame, PartsNext DEF TurnStart
<1>2. CASE TurnReadGoal
  <2>1. [loc[Main] EXCEPT !.exp = IF goal.status \in ActiveOnly THEN goal.id
                                  ELSE NoGoal] \in Locals
    BY <1>L DEF Locals, RowType, Row, NoGoal
  <2>2. ControlType'
    BY <1>2, <1>P, <2>1, GotoWithLemma DEF TurnReadGoal, Labels
  <2> QED BY <1>2, <1>P, <2>2, Frame, PermitType, PartsNext DEF TurnReadGoal
<1>3. CASE TurnMarkGoal
  <2>1. ControlType'
    BY <1>3, <1>P, GotoLemma DEF TurnMarkGoal, Labels
  <2>2. SnapType'
    <3>1. wall' \in [last : Nat, goal : Nat]
      BY <1>3, <1>L, WallType DEF TurnMarkGoal, BudgetInv
    <3> QED BY <1>3, <1>L, <3>1 DEF TurnMarkGoal, SnapType
  <2> QED BY <1>3, <1>P, <2>1, <2>2, Frame, PermitType, PartsNext DEF TurnMarkGoal
<1>4. CASE Spend
  <2>1. WorldType' /\ ControlType'
    BY <1>4 DEF Spend, WorldType, ControlType
  <2> QED BY <1>4, <2>1, Frame, PartsNext DEF Spend
<1>5. CASE TurnClear
  <2>1. ControlType'
    BY <1>5, <1>P, GotoLemma DEF TurnClear, Labels
  <2>2. SnapType'
    BY <1>5 DEF TurnClear, SnapType, NoTurn, NoGoal
  <2> QED BY <1>5, <1>P, <2>1, <2>2, Frame, PermitType, PartsNext DEF TurnClear
<1>6. ASSUME NEW op \in EndKind, TurnEnd(op)
      PROVE  BudgetInv'
  <2>1. [loc[Main] EXCEPT !.op = op] \in Locals
    BY <1>L, KindAssumption DEF Locals, Ops
  <2>2. ControlType'
    BY <1>6, <1>P, <2>1, GotoWithLemma DEF TurnEnd, Labels
  <2> QED BY <1>6, <1>P, <2>2, Frame, PermitType, PartsNext DEF TurnEnd
<1>7. CASE InterruptIdle
  <2>1. [NoLocals EXCEPT !.op = "interrupt"] \in Locals
    BY NoLocalsType DEF Locals, Ops
  <2>2. ControlType'
    BY <1>7, <1>P, <2>1, GotoWithLemma DEF InterruptIdle, Labels
  <2> QED BY <1>7, <1>P, <2>2, Frame, PermitType, PartsNext DEF InterruptIdle
<1>8. CASE InterruptPause
  <2>1. ControlType'
    BY <1>8, <1>P, GotoLemma DEF InterruptPause, Labels
  <2>2. RowType'
    BY <1>8 DEF InterruptPause, RowType, Row, Status, ActiveUnderBudget
  <2> QED BY <1>8, <1>P, <2>1, <2>2, Frame, PermitType, PartsNext DEF InterruptPause
<1>9. CASE InterruptClear
  <2>1. ControlType'
    BY <1>9, <1>P, GotoLemma DEF InterruptClear, Labels
  <2>2. SnapType'
    <3>1. wall' \in [last : Nat, goal : Nat]
      BY <1>9, WallType DEF InterruptClear, BudgetInv, NoGoal
    <3> QED BY <1>9, <3>1 DEF InterruptClear, SnapType, NoGoal
  <2> QED BY <1>9, <1>P, <2>1, <2>2, Frame, PermitType, PartsNext DEF InterruptClear
<1> QED BY <1>P, <1>1, <1>2, <1>3, <1>4, <1>5, <1>6, <1>7, <1>8, <1>9, ProgressInv, WallInv
        DEF MainStep

\* Requests from outside.
LEMMA ExtInv ==
    ASSUME BudgetInv, ExtStep
    PROVE  BudgetInv'
<1> USE Parts
<1>P. Ext \in Proc /\ Main \in Proc
  BY DEF Proc
<1>L. loc[Ext] \in Locals
  BY <1>P, LocType
<1>A. ActiveTurn \in Nat
  BY <1>P, ActiveTurnType DEF BudgetInv
<1>1. ASSUME NEW op \in ExtKind, ExtStart(op)
      PROVE  BudgetInv'
  <2>1. [NoLocals EXCEPT !.op = op, !.own = ActiveTurn] \in Locals
    BY <1>A, NoLocalsType, KindAssumption DEF Locals, Ops
  <2>2. ControlType'
    BY <1>1, <1>P, <2>1, GotoWithLemma DEF ExtStart, Labels
  <2>3. WorldType'
    BY <1>1 DEF ExtStart, WorldType
  <2> QED BY <1>1, <2>2, <2>3, Frame, PartsNext DEF ExtStart
<1>2. CASE SetRead
  <2>1. [loc[Ext] EXCEPT !.exp = goal.id] \in Locals
          /\ [loc[Ext] EXCEPT !.exp = NoGoal] \in Locals
    BY <1>L DEF Locals, RowType, Row, NoGoal
  <2>2. ControlType'
    BY <1>2, <1>P, <2>1, GotoWithLemma, GotoLemma DEF SetRead, Labels
  <2> QED BY <1>2, <1>P, <2>2, Frame, PermitType, PartsNext DEF SetRead
<1>3. CASE SetReplace
  <2>1. RowType'
    BY <1>3, BudgetType, PutFreshLemma DEF SetReplace
  <2>2. [loc[Ext] EXCEPT !.out = goal'.status] \in Locals
    BY <1>L, <2>1 DEF Locals, RowType, Row
  <2>3. ControlType'
    BY <1>3, <1>P, <2>2, GotoWithLemma DEF SetReplace, Labels
  <2> QED BY <1>3, <1>P, <2>1, <2>3, Frame, PermitType, PartsNext DEF SetReplace
<1>4. CASE SetUpdate
  <2>1. PICK s \in Status, b \in Budget \cup {NoBudget, goal.budget} : goal' = UpdatedRow(s, b)
    BY <1>4 DEF SetUpdate
  <2>2. b \in Nat
    BY BudgetType DEF RowType, Row
  <2>3. RowType'
    BY <1>4, <2>1, <2>2, UpdateLemma, StoreRow DEF SetUpdate, RowType
  <2>4. [loc[Ext] EXCEPT !.out = goal'.status] \in Locals
    BY <1>L, <2>3 DEF Locals, RowType, Row
  <2>5. ControlType'
    BY <1>4, <1>P, <2>4, GotoWithLemma DEF SetUpdate, Labels
  <2> QED BY <1>4, <1>P, <2>3, <2>5, Frame, PermitType, PartsNext DEF SetUpdate
<1>5. CASE SetFails
  <2>1. ControlType'
    BY <1>5, <1>P, GotoLemma DEF SetFails, Labels
  <2> QED BY <1>5, <1>P, <2>1, Frame, PermitType, PartsNext DEF SetFails
<1>6. CASE ApplyStatus
  <2>1. (CASE loc[Ext].out = "active" -> "x_reread"
           [] loc[Ext].out = "budget_limited" /\ ActiveTurn # NoTurn -> "idle"
           [] OTHER -> "x_stop") \in Labels
    BY DEF Labels
  <2>2. ControlType'
    BY <1>6, <1>P, <2>1, GotoLemma DEF ApplyStatus
  <2> QED BY <1>6, <1>P, <2>2, Frame, PermitType, PartsNext DEF ApplyStatus
<1>7. CASE ApplyReread
  <2>1. [loc[Ext] EXCEPT !.exp = goal.id] \in Locals
    BY <1>L DEF Locals, RowType, Row
  <2>2. ControlType'
    BY <1>7, <1>P, <2>1, GotoWithLemma, GotoLemma DEF ApplyReread, Labels
  <2> QED BY <1>7, <1>P, <2>2, Frame, PermitType, PartsNext DEF ApplyReread
<1>8. CASE ApplyTurn
  <2>1. [loc[Ext] EXCEPT !.own = ActiveTurn] \in Locals
    BY <1>L, <1>A DEF Locals
  <2>2. ControlType'
    BY <1>8, <1>P, <2>1, GotoWithLemma DEF ApplyTurn, Labels
  <2> QED BY <1>8, <1>P, <2>2, Frame, PermitType, PartsNext DEF ApplyTurn
<1>9. CASE ApplyStop
  <2>1. ControlType'
    BY <1>9, <1>P, GotoLemma DEF ApplyStop, Labels
  <2>2. SnapType'
    <3>1. wall' \in [last : Nat, goal : Nat]
      BY <1>9, WallType DEF ApplyStop, BudgetInv, NoGoal
    <3> QED BY <1>9, <3>1 DEF ApplyStop, SnapType, SnapCleared, NoGoal
  <2> QED BY <1>9, <1>P, <2>1, <2>2, Frame, PermitType, PartsNext DEF ApplyStop
<1>10. CASE ClearDelete
  <2>1. ControlType'
    BY <1>10, <1>P, GotoLemma DEF ClearDelete, Labels
  <2>2. RowType'
    BY <1>10 DEF ClearDelete, RowType, NoRow, Row, Status, ActiveUnderBudget, NoGoal, NoBudget
  <2> QED BY <1>10, <1>P, <2>1, <2>2, Frame, PermitType, PartsNext DEF ClearDelete
<1>11. CASE ResumeRead
  <2>1. [loc[Ext] EXCEPT !.exp = goal.id] \in Locals /\ goal.id \in Nat
    BY <1>L DEF Locals, RowType, Row
  <2>2. ControlType'
    BY <1>11, <1>P, <2>1, GotoWithLemma, GotoLemma DEF ResumeRead, Labels
  <2>3. SnapType'
    <3>1. wall' \in [last : Nat, goal : Nat]
      BY <1>11, <2>1, WallType DEF ResumeRead, BudgetInv, SnapType
    <3> QED BY <1>11, <3>1 DEF ResumeRead, SnapType, NoGoal
  <2> QED BY <1>11, <1>P, <2>2, <2>3, Frame, PermitType, PartsNext DEF ResumeRead
<1>12. CASE ResumeUpdate
  <2>1. UpdatedRow("active", goal.budget) \in Row
          /\ UnderBudget(UpdatedRow("active", goal.budget))
    BY UpdateLemma DEF RowType, Row, Status
  <2>2. RowType'
    BY <1>12, <2>1, StoreRow DEF ResumeUpdate, RowType, ActiveUnderBudget
  <2>3. ControlType'
    BY <1>12, <1>P, GotoLemma DEF ResumeUpdate, Labels
  <2>4. SnapType'
    <3>1. wall' \in [last : Nat, goal : Nat]
      BY <1>12, WallType DEF ResumeUpdate, BudgetInv, SnapType, NoGoal
    <3> QED BY <1>12, <3>1 DEF ResumeUpdate, SnapType, NoGoal
  <2> QED BY <1>12, <1>P, <2>2, <2>3, <2>4, Frame, PermitType, PartsNext DEF ResumeUpdate
<1> QED BY <1>P, <1>1, <1>2, <1>3, <1>4, <1>5, <1>6, <1>7, <1>8, <1>9, <1>10, <1>11, <1>12,
           ProgressInv, WallInv, MarkInv DEF ExtStep

-----------------------------------------------------------------------------
(***************************************************************************)
(* The theorems.                                                            *)
(***************************************************************************)

\* The invariant holds initially and every step keeps it.
THEOREM BudgetInductive == Spec => []BudgetInv
<1>1. Init => BudgetInv
  BY NoLocalsType DEF Init, BudgetInv, BooksTypeOK, ActiveUnderBudget, NoRow, Row, Status,
     Labels, NoGoal, NoTurn, NoBudget
<1>2. BudgetInv /\ [Next]_vars => BudgetInv'
  <2> SUFFICES ASSUME BudgetInv, [Next]_vars PROVE BudgetInv'
    OBVIOUS
  <2>1. ASSUME NEW w \in Tool, NEW op \in {"tool", "create", "complete"}, ToolStart(w, op)
        PROVE  BudgetInv'
    BY <2>1, ToolStartInv
  <2>2. ASSUME NEW w \in Tool, ToolStep(w)
        PROVE  BudgetInv'
    BY <2>2, ToolInv
  <2>3. CASE Tick
    <3>1. WorldType' /\ ControlType'
      BY <2>3, Parts DEF Tick, WorldType, ControlType
    <3> QED BY <2>3, <3>1, Frame, PartsNext DEF Tick
  <2>4. CASE UNCHANGED vars
    BY <2>4 DEF vars, BudgetInv, BooksTypeOK, ActiveUnderBudget
  <2> QED BY <2>1, <2>2, <2>3, <2>4, MainInv, ExtInv DEF Next
<1> QED BY <1>1, <1>2, PTL DEF Spec

\* The types of the row, the snapshots and the locals, for any number of futures.
THEOREM BooksTypeCorrect == Spec => []BooksTypeOK
BY BudgetInductive, PTL DEF BudgetInv

\* However billing, requests, interrupts and resumptions interleave, a goal that is active
\* has budget left (state/src/runtime/goals.rs decides the status in every statement).
THEOREM BudgetHolds == Spec => []ActiveUnderBudget
BY BudgetInductive, PTL DEF BudgetInv
-----------------------------------------------------------------------------
(***************************************************************************)
(* The books of a session that nothing interrupts: its turns finish, and no *)
(* request comes in.  A tool call that is dropped between the bill and the  *)
(* mark leaves tokens to be billed twice, so the books balance only here.   *)
(***************************************************************************)
Undisturbed == ExtKind = {} /\ EndKind \subseteq {"finish"}

\* The labels of account_thread_goal_progress and of
\* account_thread_goal_wall_clock_usage; the permit is held at all but the first.
ProgressHeld == {"p_total", "p_snap", "p_db", "p_mark", "p_report", "p_steer", "p_noted"}
WallHeld == {"w_read", "w_db", "w_mark", "w_clear"}
Held == ProgressHeld \cup WallHeld
FreshAt == {"n_reset", "n_total", "n_mark"}
CreateAt == FreshAt \cup WallHeld \cup {"w_lock", "n_insert"}
CompleteAt == WallHeld \cup {"w_lock", "c_read", "c_update", "c_clear"}

\* Where a tool call can be.
ToolAt(op) ==
    ProgressHeld \cup {"p_lock"} \cup (IF op = "create" THEN CreateAt
                                       ELSE IF op = "complete" THEN CompleteAt ELSE {})

\* Who holds the permit holds it alone.
PermitSound == \A p \in Proc : pc[p] \in Held => holders = {p}

\* A tool call belongs to the running turn, and create_goal and update_goal run alone.
CallsSound ==
    /\ pc[Ext] = "idle"
    /\ pc[Main] \in ProgressHeld \cup {"idle", "t_read", "t_mark", "run", "p_lock", "t_clear"}
    /\ pc[Main] \in ProgressHeld \cup {"p_lock", "t_clear"} => loc[Main].op = "finish"
    /\ \A w \in Tool : Busy(w) =>
          /\ pc[Main] = "run" /\ loc[w].own = loc[Main].own
          /\ loc[w].op \in {"tool", "create", "complete"} /\ pc[w] \in ToolAt(loc[w].op)
    /\ \A v, w \in Tool : v # w /\ Busy(v) /\ Busy(w) => loc[v].op = "tool"

\* What the row was billed, against the baseline it is billed up to.
TokensTo(n) ==
    /\ goal.used + born.base <= n
    /\ goal.status = "active" => goal.used + born.base = n
SecondsTo(n) == goal.time + born.clock <= n

\* The snapshots are of the one goal there is, and no baseline is ahead of the world.
SnapSound ==
    /\ goal.id = NoGoal => goal.status = "complete" /\ steers = 0
    /\ snap.goal # NoGoal => snap.goal = goal.id
    /\ wall.goal # NoGoal => wall.goal = goal.id
    /\ snap.base <= total /\ wall.last <= clock
    /\ born.tokens <= born.base /\ born.base <= total /\ born.clock <= clock

\* What a future read stays true until it has written what follows from it.
ReadSound(p) ==
    /\ pc[p] \in {"p_snap", "p_db", "p_mark"} => snap.base <= loc[p].cur /\ loc[p].cur <= total
    /\ pc[p] = "p_db" => loc[p].delta = loc[p].cur - snap.base /\ loc[p].exp = snap.goal
    /\ pc[p] \in {"p_db", "p_mark", "w_db", "w_mark"} => wall.last + loc[p].secs <= clock
    /\ pc[p] \in {"p_db", "p_mark", "p_report", "p_steer", "p_noted"} =>
          goal.id # NoGoal /\ loc[p].exp = goal.id
    /\ pc[p] = "n_mark" => born.tokens <= loc[p].cur /\ loc[p].cur <= total
    /\ pc[p] \in FreshAt =>
          /\ goal.id # NoGoal /\ loc[p].exp = goal.id /\ goal.used = 0 /\ goal.time = 0
          /\ snap.goal = NoGoal /\ wall.goal = NoGoal /\ steers = 0

\* Between the bill and the mark the row is ahead of the baseline.
BillSound(p) ==
    /\ pc[p] = "p_mark" => TokensTo(loc[p].cur) /\ SecondsTo(wall.last + loc[p].secs)
    /\ pc[p] = "w_mark" => TokensTo(snap.base) /\ SecondsTo(wall.last + loc[p].secs)
    /\ pc[p] \in {"p_mark", "p_report", "p_steer", "p_noted"} => loc[p].out = goal.status
    /\ pc[p] = "c_clear" => goal.status = "complete"
    /\ pc[p] = "p_steer" => steers = 0 /\ goal.status = "budget_limited"

\* Otherwise the row is billed up to the baseline, and between turns in full.
Settled == \A p \in Proc : pc[p] \notin {"p_mark", "w_mark"} \cup FreshAt
BooksSound ==
    goal.id # NoGoal /\ Settled =>
        /\ TokensTo(IF pc[Main] = "idle" THEN total ELSE snap.base)
        /\ SecondsTo(wall.last)

\* The snapshot is of the running turn and of its goal; what the end of a turn bills is
\* all there is.
TurnSound ==
    /\ pc[Main] # "idle" => snap.turn = loc[Main].own /\ loc[Main].own # NoTurn
    /\ pc[Main] = "t_mark" =>
          /\ loc[Main].exp # NoGoal => loc[Main].exp = goal.id
          /\ goal.status = "active" => loc[Main].exp = goal.id
    /\ /\ pc[Main] \in ProgressHeld \cup {"run", "p_lock"} /\ goal.status = "active"
       /\ \A p \in Proc : pc[p] \notin FreshAt
       => snap.goal = goal.id
    /\ pc[Main] \in {"p_snap", "p_db", "p_mark"} => loc[Main].cur = total
    /\ pc[Main] \in {"p_report", "p_steer", "p_noted", "t_clear"} /\ goal.status = "active"
       => snap.base = total

\* Once the notice went out, the goal is noted as reported before the permit is returned,
\* and is not forgotten while it can be billed.
SteerSound ==
    /\ steers <= 1
    /\ steers = 1 =>
          \/ goal.status = "complete"
          \/ /\ goal.status = "budget_limited"
             /\ reported = goal.id \/ \E p \in Proc : pc[p] = "p_noted"

LedgerInv ==
    /\ PermitSound /\ CallsSound /\ SnapSound /\ BooksSound /\ TurnSound /\ SteerSound
    /\ \A p \in Proc : ReadSound(p) /\ BillSound(p)

-----------------------------------------------------------------------------
(***************************************************************************)
(* Whoever is about to write is alone with what it read.                    *)
(***************************************************************************)
Calm == {"idle", "run", "p_lock"}

\* Every other future is where it has read nothing.
Focus(p) == \A q \in Proc : q # p => pc[q] \in Calm

LEMMA ProcParts == Main \in Proc /\ Ext \in Proc /\ Proc = Tool \cup {Main, Ext}
                   /\ \A w \in Tool : w \in Proc /\ w # Main /\ w # Ext
BY ProcAssumption DEF Proc

\* The end of a turn is alone: its tool calls are done.
LEMMA MainAlone ==
    ASSUME CallsSound, pc[Main] # "run" \/ \A w \in Tool : ~Busy(w)
    PROVE  Focus(Main)
BY ProcParts DEF CallsSound, Focus, Calm, Busy, At

\* So is a tool call that holds the permit, or that excludes the others.
LEMMA ToolAlone ==
    ASSUME PermitSound, CallsSound, NEW w \in Tool, Busy(w),
           pc[w] \in Held \/ loc[w].op # "tool"
    PROVE  Focus(w)
<1> SUFFICES ASSUME NEW q \in Proc, q # w, pc[q] \notin Calm PROVE FALSE
  BY DEF Focus
<1>1. pc[Main] = "run" /\ pc[Ext] = "idle"
  BY DEF CallsSound
<1>2. q \in Tool
  BY <1>1, ProcParts DEF Calm
<1>3. Busy(q)
  BY DEF Busy, At, Calm
<1>4. loc[q].op = "tool" /\ loc[w].op = "tool"
  BY <1>2, <1>3 DEF CallsSound
<1>5. pc[w] \in Held
  BY <1>4
<1>6. pc[q] \in ProgressHeld
  BY <1>2, <1>3, <1>4 DEF CallsSound, ToolAt, Calm
<1>7. holders = {w} /\ holders = {q}
  BY <1>2, <1>5, <1>6, ProcParts DEF PermitSound, Held
<1> QED BY <1>7

\* Nothing is claimed of a future that has read nothing.
LEMMA CalmSound ==
    ASSUME NEW q, pc[q] \in Calm
    PROVE  ReadSound(q) /\ BillSound(q)
BY DEF Calm, ReadSound, BillSound, FreshAt

LEMMA CalmSoundNext ==
    ASSUME NEW q, pc'[q] \in Calm
    PROVE  ReadSound(q)' /\ BillSound(q)'
BY DEF Calm, ReadSound, BillSound, FreshAt

\* With the others calm, the whole state is settled when p is.
LEMMA FocusLemma ==
    ASSUME NEW p \in Proc, Focus(p)
    PROVE  /\ Settled <=> pc[p] \notin {"p_mark", "w_mark"} \cup FreshAt
           /\ (\A q \in Proc : pc[q] \notin FreshAt) <=> pc[p] \notin FreshAt
           /\ (\E q \in Proc : pc[q] = "p_noted") <=> pc[p] = "p_noted"
BY DEF Focus, Calm, Settled, FreshAt

LEMMA FocusNext ==
    ASSUME NEW p \in Proc, NEW l, NEW r, Focus(p), BooksTypeOK, GotoWith(p, l, r)
    PROVE  /\ Settled' <=> l \notin {"p_mark", "w_mark"} \cup FreshAt
           /\ (\A q \in Proc : pc'[q] \notin FreshAt) <=> l \notin FreshAt
           /\ (\E q \in Proc : pc'[q] = "p_noted") <=> l = "p_noted"
           /\ \A q \in Proc : q # p => ReadSound(q)' /\ BillSound(q)'
           /\ pc'[p] = l /\ loc'[p] = r
           /\ \A q \in Proc : q # p => pc'[q] = pc[q] /\ loc'[q] = loc[q]
<1>1. pc'[p] = l /\ loc'[p] = r
  BY DEF GotoWith, BooksTypeOK
<1>2. \A q \in Proc : q # p => pc'[q] = pc[q] /\ loc'[q] = loc[q]
  BY DEF GotoWith, BooksTypeOK
<1>3. \A q \in Proc : q # p => pc'[q] \in Calm
  BY <1>2 DEF Focus
<1>4. \A q \in Proc : q # p => ReadSound(q)' /\ BillSound(q)'
  BY <1>3, CalmSoundNext
<1>5. Settled' <=> l \notin {"p_mark", "w_mark"} \cup FreshAt
  BY <1>1, <1>3 DEF Settled, Calm, FreshAt
<1>6. (\A q \in Proc : pc'[q] \notin FreshAt) <=> l \notin FreshAt
  BY <1>1, <1>3 DEF Calm, FreshAt
<1>7. (\E q \in Proc : pc'[q] = "p_noted") <=> l = "p_noted"
  BY <1>1, <1>3 DEF Calm
<1> QED BY <1>1, <1>2, <1>4, <1>5, <1>6, <1>7

-----------------------------------------------------------------------------
(***************************************************************************)
(* Control: the permit, and where the calls are.                            *)
(***************************************************************************)
LEMMA PermitStep ==
    ASSUME BooksTypeOK, PermitSound, NEW p \in Proc, NEW l, NEW r, GotoWith(p, l, r),
           \/ AcquirePermit(p)
           \/ ReleasePermit(p) /\ l \notin Held /\ pc[p] \in Held
           \/ UNCHANGED holders /\ (l \in Held => pc[p] \in Held)
    PROVE  PermitSound'
<1> SUFFICES ASSUME NEW q \in Proc, pc'[q] \in Held PROVE holders' = {q}
  BY DEF PermitSound
<1>1. pc'[p] = l /\ (q # p => pc'[q] = pc[q])
  BY DEF GotoWith, BooksTypeOK
<1>2. CASE AcquirePermit(p)
  BY <1>1, <1>2 DEF AcquirePermit, PermitSound
<1>3. CASE ReleasePermit(p) /\ l \notin Held /\ pc[p] \in Held
  BY <1>1, <1>3 DEF PermitSound
<1>4. CASE UNCHANGED holders /\ (l \in Held => pc[p] \in Held)
  BY <1>1, <1>4 DEF PermitSound
<1> QED BY <1>2, <1>3, <1>4

LEMMA ToolControl ==
    ASSUME BooksTypeOK, CallsSound, NEW p \in Tool, Busy(p), NEW l, NEW r, GotoWith(p, l, r),
           l = "idle" \/ (r.own = loc[p].own /\ r.op = loc[p].op /\ l \in ToolAt(r.op))
    PROVE  CallsSound'
<1>1. p \in Proc /\ p # Main /\ p # Ext /\ Main \in Proc /\ Ext \in Proc
  BY ProcParts
<1>2. pc'[p] = l /\ loc'[p] = r /\ \A q \in Proc : q # p => pc'[q] = pc[q] /\ loc'[q] = loc[q]
  BY <1>1 DEF GotoWith, BooksTypeOK
<1>3. pc'[Main] = pc[Main] /\ loc'[Main] = loc[Main] /\ pc'[Ext] = pc[Ext]
  BY <1>1, <1>2
<1>4. ASSUME NEW w \in Tool, Busy(w)'
      PROVE  /\ Busy(w) /\ loc'[w].own = loc[w].own /\ loc'[w].op = loc[w].op
             /\ pc'[w] \in ToolAt(loc[w].op)
  <2>1. CASE w = p
    BY <1>2, <1>4, <2>1 DEF Busy, At
  <2>2. CASE w # p
    BY <1>2, <1>4, ProcParts DEF Busy, At, CallsSound
  <2> QED BY <2>1, <2>2
<1>5. \A w \in Tool : Busy(w)' =>
          /\ pc'[Main] = "run" /\ loc'[w].own = loc'[Main].own
          /\ loc'[w].op \in {"tool", "create", "complete"} /\ pc'[w] \in ToolAt(loc'[w].op)
  BY <1>3, <1>4 DEF CallsSound
<1>6. \A v, w \in Tool : v # w /\ Busy(v)' /\ Busy(w)' => loc'[v].op = "tool"
  BY <1>4 DEF CallsSound
<1> QED BY <1>3, <1>5, <1>6 DEF CallsSound, ToolAt

MainAt == ProgressHeld \cup {"idle", "t_read", "t_mark", "run", "p_lock", "t_clear"}

LEMMA MainControl ==
    ASSUME BooksTypeOK, CallsSound, NEW l \in MainAt, NEW r, GotoWith(Main, l, r),
           pc[Main] # "run" \/ \A w \in Tool : ~Busy(w),
           l \in ProgressHeld \cup {"p_lock", "t_clear"} => r.op = "finish"
    PROVE  CallsSound'
<1>1. pc'[Main] = l /\ loc'[Main] = r /\ pc'[Ext] = pc[Ext]
  BY ProcParts, ProcAssumption DEF GotoWith, BooksTypeOK
<1>2. \A w \in Tool : pc'[w] = "idle"
  BY ProcParts DEF GotoWith, BooksTypeOK, CallsSound, Busy, At
<1>3. \A w \in Tool : ~Busy(w)'
  BY <1>2 DEF Busy, At
<1> QED BY <1>1, <1>3 DEF CallsSound, MainAt

-----------------------------------------------------------------------------
(***************************************************************************)
(* What is common to the steps.                                             *)
(***************************************************************************)
LEMMA Numbers ==
    ASSUME BooksTypeOK
    PROVE  /\ goal.id \in Nat /\ goal.used \in Nat /\ goal.time \in Nat
           /\ born.tokens \in Nat /\ born.base \in Nat /\ born.clock \in Nat
           /\ snap.base \in Nat /\ snap.goal \in Nat /\ snap.turn \in Nat
           /\ wall.last \in Nat /\ wall.goal \in Nat
           /\ total \in Nat /\ clock \in Nat /\ steers \in Nat
BY DEF BooksTypeOK, Row

LEMMA Wrap ==
    ASSUME NEW p \in Proc, \A q \in Proc : q # p => ReadSound(q)' /\ BillSound(q)',
           PermitSound', CallsSound', SnapSound', BooksSound', TurnSound', SteerSound',
           ReadSound(p)', BillSound(p)'
    PROVE  LedgerInv'
<1>1. \A q \in Proc : (ReadSound(q) /\ BillSound(q))'
  OBVIOUS
<1> QED BY <1>1 DEF LedgerInv

\* While a tool call runs its turn does, and keeps its snapshot.
LEMMA ToolTurn ==
    ASSUME BooksTypeOK, CallsSound, TurnSound, NEW p \in Tool, Busy(p), NEW l, NEW r,
           GotoWith(p, l, r), snap'.turn = snap.turn,
           goal'.status = "active" /\ (\A q \in Proc : pc'[q] \notin FreshAt)
               => snap'.goal = goal'.id
    PROVE  TurnSound'
<1>1. p \in Proc /\ p # Main /\ Main \in Proc
  BY ProcParts
<1>2. pc'[Main] = "run" /\ loc'[Main] = loc[Main] /\ pc[Main] = "run"
  BY <1>1 DEF GotoWith, BooksTypeOK, CallsSound
<1> QED BY <1>2 DEF TurnSound, ProgressHeld

\* A step that only moves p, between places where the row and the baseline agree.
LEMMA StillLemma ==
    ASSUME BooksTypeOK, LedgerInv, NEW p \in Proc, NEW l, NEW r, GotoWith(p, l, r),
           UNCHANGED <<store, books, total, clock>>,
           pc[p] \notin {"p_mark", "w_mark", "p_noted"} \cup FreshAt,
           l \notin {"p_mark", "w_mark", "p_noted"} \cup FreshAt,
           p = Main => pc[Main] # "idle" /\ l # "idle"
    PROVE  /\ SnapSound' /\ BooksSound' /\ SteerSound'
           /\ \A q \in Proc : q # p => ReadSound(q)' /\ BillSound(q)'
           /\ (\A q \in Proc : pc'[q] \notin FreshAt) <=> (\A q \in Proc : pc[q] \notin FreshAt)
           /\ pc'[p] = l /\ loc'[p] = r
<1>1. pc'[p] = l /\ loc'[p] = r
  BY DEF GotoWith, BooksTypeOK
<1>2. \A q \in Proc : q # p => pc'[q] = pc[q] /\ loc'[q] = loc[q]
  BY DEF GotoWith, BooksTypeOK
<1>3. /\ goal' = goal /\ born' = born /\ snap' = snap /\ wall' = wall /\ reported' = reported
      /\ steers' = steers /\ total' = total /\ clock' = clock
  BY DEF store, books
<1>4. SnapSound'
  BY <1>3 DEF LedgerInv, SnapSound
<1>5. \A n : (TokensTo(n) <=> TokensTo(n)') /\ (SecondsTo(n) <=> SecondsTo(n)')
  BY <1>3 DEF TokensTo, SecondsTo
<1>6. Settled' <=> Settled
  BY <1>1, <1>2 DEF Settled
<1>7. pc'[Main] = "idle" <=> pc[Main] = "idle"
  BY <1>1, <1>2, ProcParts
<1>8. BooksSound'
  BY <1>3, <1>6, <1>7 DEF LedgerInv, BooksSound, TokensTo, SecondsTo
<1>9. (\E q \in Proc : pc'[q] = "p_noted") <=> (\E q \in Proc : pc[q] = "p_noted")
  BY <1>1, <1>2
<1>10. SteerSound'
  BY <1>3, <1>9 DEF LedgerInv, SteerSound
<1>11. ASSUME NEW q \in Proc, q # p
       PROVE  ReadSound(q)' /\ BillSound(q)'
  <2>1. ReadSound(q) /\ BillSound(q) /\ pc'[q] = pc[q] /\ loc'[q] = loc[q]
    BY <1>2, <1>11 DEF LedgerInv
  <2>2. ReadSound(q)'
    BY <1>3, <2>1 DEF ReadSound
  <2>3. BillSound(q)'
    BY <1>3, <2>1 DEF BillSound, TokensTo, SecondsTo
  <2> QED BY <2>2, <2>3
<1>12. (\A q \in Proc : pc'[q] \notin FreshAt) <=> (\A q \in Proc : pc[q] \notin FreshAt)
  BY <1>1, <1>2
<1> QED BY <1>1, <1>4, <1>8, <1>10, <1>11, <1>12

\* A step of a tool call that only moves it.
LEMMA ToolStill ==
    ASSUME BooksTypeOK, LedgerInv, NEW p \in Tool, Busy(p), NEW l, NEW r, GotoWith(p, l, r),
           UNCHANGED <<store, books, total, clock>>,
           pc[p] \notin {"p_mark", "w_mark", "p_noted"} \cup FreshAt,
           l \notin {"p_mark", "w_mark", "p_noted"} \cup FreshAt,
           l = "idle" \/ (r.own = loc[p].own /\ r.op = loc[p].op /\ l \in ToolAt(r.op)),
           PermitSound', ReadSound(p)', BillSound(p)'
    PROVE  LedgerInv'
<1>1. p \in Proc /\ p # Main
  BY ProcParts
<1>2. /\ SnapSound' /\ BooksSound' /\ SteerSound'
      /\ \A q \in Proc : q # p => ReadSound(q)' /\ BillSound(q)'
      /\ (\A q \in Proc : pc'[q] \notin FreshAt) <=> (\A q \in Proc : pc[q] \notin FreshAt)
  BY <1>1, StillLemma
<1>3. CallsSound'
  BY ToolControl DEF LedgerInv
<1>4. goal' = goal /\ snap' = snap
  BY DEF store, books
<1>5. pc[Main] = "run" /\ TurnSound /\ CallsSound
  BY DEF LedgerInv, CallsSound
<1>6. TurnSound'
  <2>1. goal'.status = "active" /\ (\A q \in Proc : pc'[q] \notin FreshAt)
               => snap'.goal = goal'.id
    BY <1>2, <1>4, <1>5 DEF TurnSound
  <2> QED BY <1>4, <1>5, <2>1, ToolTurn
<1> QED BY <1>1, <1>2, <1>3, <1>6, Wrap

\* A step of the main path that only moves it, within a turn.
LEMMA MainStill ==
    ASSUME BooksTypeOK, LedgerInv, NEW l \in MainAt, NEW r, GotoWith(Main, l, r),
           pc[Main] # "run" \/ \A w \in Tool : ~Busy(w),
           l \in ProgressHeld \cup {"p_lock", "t_clear"} => r.op = "finish",
           UNCHANGED <<store, books, total, clock>>,
           pc[Main] \notin {"idle", "p_mark", "w_mark", "p_noted"} \cup FreshAt,
           l \notin {"idle", "p_mark", "w_mark", "p_noted"} \cup FreshAt,
           PermitSound', TurnSound', ReadSound(Main)', BillSound(Main)'
    PROVE  LedgerInv'
<1>1. /\ SnapSound' /\ BooksSound' /\ SteerSound'
      /\ \A q \in Proc : q # Main => ReadSound(q)' /\ BillSound(q)'
  BY ProcParts, StillLemma
<1>2. CallsSound'
  BY MainControl DEF LedgerInv
<1> QED BY <1>1, <1>2, ProcParts, Wrap

-----------------------------------------------------------------------------
(***************************************************************************)
(* account_thread_goal_progress, by a tool call or by the end of a turn.    *)
(***************************************************************************)
ProgressAt == ProgressHeld \cup {"p_lock"}

\* Where it returns to, and that it accounts for the turn of the snapshot.
LEMMA ProgressPlace ==
    ASSUME LedgerInv, NEW p \in Tool \cup {Main}, pc[p] \in ProgressAt
    PROVE  /\ p \in Proc /\ snap.turn = loc[p].own /\ loc[p].own # NoTurn
           /\ p = Main => loc[p].op = "finish" /\ AfterProgress(p) = "t_clear"
           /\ p # Main => /\ p \in Tool /\ Busy(p) /\ pc[Main] = "run"
                          /\ AfterProgress(p) = "idle" \/ AfterProgress(p) \in ToolAt(loc[p].op)
                          /\ AfterProgress(p) \in {"idle", "w_lock"}
           /\ pc[p] \in ProgressHeld => Focus(p)
<1>1. p \in Proc
  BY ProcParts
<1>2. pc[p] # "idle" /\ pc[p] # "run"
  BY DEF ProgressAt, ProgressHeld
<1>3. CASE p = Main
  <2>1. loc[Main].op = "finish"
    BY <1>3 DEF LedgerInv, CallsSound, ProgressAt
  <2>2. AfterProgress(Main) = "t_clear"
    BY <2>1 DEF AfterProgress
  <2>3. snap.turn = loc[Main].own /\ loc[Main].own # NoTurn
    BY <1>2, <1>3 DEF LedgerInv, TurnSound
  <2>4. Focus(Main)
    BY <1>2, <1>3, MainAlone DEF LedgerInv
  <2> QED BY <1>1, <1>3, <2>1, <2>2, <2>3, <2>4
<1>4. CASE p # Main
  <2>1. p \in Tool /\ Busy(p)
    BY <1>2, <1>4 DEF Busy, At
  <2>2. pc[Main] = "run" /\ loc[p].own = loc[Main].own
          /\ loc[p].op \in {"tool", "create", "complete"}
    BY <2>1 DEF LedgerInv, CallsSound
  <2>3. snap.turn = loc[p].own /\ loc[p].own # NoTurn
    BY <2>2 DEF LedgerInv, TurnSound
  <2>4. AfterProgress(p) \in {"idle", "w_lock"}
          /\ (AfterProgress(p) = "idle" \/ AfterProgress(p) \in ToolAt(loc[p].op))
    BY <2>2 DEF AfterProgress, ToolAt, CompleteAt
  <2>5. pc[p] \in ProgressHeld => Focus(p)
    BY <2>1, ToolAlone DEF LedgerInv, Held
  <2> QED BY <1>1, <1>4, <2>1, <2>2, <2>3, <2>4, <2>5
<1> QED BY <1>3, <1>4

\* A step of it that writes nothing.
LEMMA ProgressStill ==
    ASSUME BooksTypeOK, LedgerInv, NEW p \in Tool \cup {Main},
           pc[p] \in {"p_lock", "p_total", "p_snap", "p_db"}, NEW l, NEW r, GotoWith(p, l, r),
           \/ l \in {"p_total", "p_snap", "p_db"} /\ r.own = loc[p].own /\ r.op = loc[p].op
           \/ l = AfterProgress(p) /\ (l # "idle" => r = loc[p]),
           UNCHANGED <<store, books, total, clock>>,
           PermitSound', ReadSound(p)', BillSound(p)', p = Main => TurnSound'
    PROVE  LedgerInv'
<1>1. /\ p = Main => loc[p].op = "finish" /\ AfterProgress(p) = "t_clear"
      /\ p # Main => /\ p \in Tool /\ Busy(p)
                     /\ AfterProgress(p) = "idle" \/ AfterProgress(p) \in ToolAt(loc[p].op)
                     /\ AfterProgress(p) \in {"idle", "w_lock"}
  BY ProgressPlace DEF ProgressAt, ProgressHeld
<1>2. CASE p = Main
  <2>1. l \in MainAt /\ (l \in ProgressHeld \cup {"p_lock", "t_clear"} => r.op = "finish")
    BY <1>1, <1>2 DEF MainAt, ProgressHeld
  <2>2. l \notin {"idle", "p_mark", "w_mark", "p_noted"} \cup FreshAt
    BY <1>1, <1>2 DEF FreshAt
  <2>3. pc[Main] \notin {"idle", "run", "p_mark", "w_mark", "p_noted"} \cup FreshAt
    BY <1>2 DEF FreshAt
  <2> QED BY <1>2, <2>1, <2>2, <2>3, MainStill
<1>3. CASE p # Main
  <2>1. l \notin {"p_mark", "w_mark", "p_noted"} \cup FreshAt
    BY <1>1, <1>3 DEF FreshAt
  <2>2. pc[p] \notin {"p_mark", "w_mark", "p_noted"} \cup FreshAt
    BY DEF FreshAt
  <2>3. l = "idle" \/ (r.own = loc[p].own /\ r.op = loc[p].op /\ l \in ToolAt(r.op))
    BY <1>1, <1>3 DEF ToolAt, ProgressHeld
  <2> QED BY <1>1, <1>3, <2>1, <2>2, <2>3, ToolStill
<1> QED BY <1>2, <1>3

\* The end of a turn keeps the snapshot as long as it writes nothing.
LEMMA ProgressTurn ==
    ASSUME BooksTypeOK, LedgerInv, pc[Main] \in ProgressAt, NEW l, NEW r, GotoWith(Main, l, r),
           UNCHANGED <<store, books, total, clock>>,
           r.own = loc[Main].own, l \in ProgressAt \cup {"t_clear"},
           l \in {"p_snap", "p_db", "p_mark"} => r.cur = total,
           l \in {"p_report", "p_steer", "p_noted", "t_clear"} /\ goal.status = "active"
               => snap.base = total
    PROVE  TurnSound'
<1>1. pc[Main] # "idle" /\ pc[Main] # "run" /\ l # "idle" /\ l # "t_mark"
  BY DEF ProgressAt, ProgressHeld
<1>2. Focus(Main)
  BY <1>1, MainAlone DEF LedgerInv
<1>3. pc[Main] \notin FreshAt /\ l \notin FreshAt
  BY DEF ProgressAt, ProgressHeld, FreshAt
<1>4. \A q \in Proc : pc[q] \notin FreshAt
  BY <1>2, <1>3, ProcParts, FocusLemma
<1>5. pc'[Main] = l /\ loc'[Main] = r
  BY ProcParts DEF GotoWith, BooksTypeOK
<1>6. snap' = snap /\ goal' = goal /\ total' = total
  BY DEF store, books
<1>7. goal.status = "active" => snap.goal = goal.id
  BY <1>4 DEF LedgerInv, TurnSound, ProgressAt
<1>8. snap.turn = loc[Main].own /\ loc[Main].own # NoTurn
  BY <1>1 DEF LedgerInv, TurnSound
<1> QED BY <1>1, <1>5, <1>6, <1>7, <1>8 DEF TurnSound

\* The total is read under the permit.
LEMMA ProgressReadLedger ==
    ASSUME BudgetInv, LedgerInv, NEW p \in Tool \cup {Main},
           ProgressLock(p) \/ ProgressTotal(p)
    PROVE  LedgerInv'
<1>B. BooksTypeOK /\ p \in Proc
  BY ProcParts DEF BudgetInv
<1>1. CASE ProgressLock(p)
  <2>1. pc[p] = "p_lock" /\ GotoWith(p, "p_total", loc[p])
        /\ UNCHANGED <<store, books, total, clock>>
    BY <1>1 DEF ProgressLock, At, Goto, world
  <2>2. pc'[p] = "p_total"
    BY <1>B, <2>1 DEF GotoWith, BooksTypeOK
  <2>3. ReadSound(p)' /\ BillSound(p)'
    BY <2>2 DEF ReadSound, BillSound, FreshAt
  <2>4. PermitSound'
    BY <1>B, <1>1, <2>1, PermitStep DEF ProgressLock, LedgerInv
  <2>5. p = Main => TurnSound'
    BY <1>B, <2>1, ProgressTurn DEF ProgressAt, ProgressHeld
  <2> QED BY <1>B, <2>1, <2>3, <2>4, <2>5, ProgressStill
<1>2. CASE ProgressTotal(p)
  <2> DEFINE r == [loc[p] EXCEPT !.cur = total]
  <2>1. pc[p] = "p_total" /\ GotoWith(p, "p_snap", r)
        /\ UNCHANGED <<store, books, total, clock>> /\ UNCHANGED holders
    BY <1>2 DEF ProgressTotal, At, world
  <2>2. pc'[p] = "p_snap" /\ loc'[p] = r
    BY <1>B, <2>1 DEF GotoWith, BooksTypeOK
  <2>3. r.own = loc[p].own /\ r.op = loc[p].op /\ r.cur = total
    BY <1>B, LocType DEF Locals
  <2> HIDE DEF r
  <2>4. ReadSound(p)' /\ BillSound(p)'
    <3>1. snap'.base <= total' /\ total' <= total'
      BY <1>B, <2>1, Numbers DEF LedgerInv, SnapSound, books
    <3> QED BY <2>1, <2>2, <2>3, <3>1 DEF ReadSound, BillSound, FreshAt
  <2>5. PermitSound'
    BY <1>B, <2>1, PermitStep DEF LedgerInv, Held, ProgressHeld
  <2>6. p = Main => TurnSound'
    BY <1>B, <2>1, <2>3, ProgressTurn DEF ProgressAt, ProgressHeld
  <2> QED BY <1>B, <2>1, <2>3, <2>4, <2>5, <2>6, ProgressStill
<1> QED BY <1>1, <1>2

\* With the permit, an active goal is the one of the snapshot.
LEMMA ActiveBound ==
    ASSUME LedgerInv, NEW p \in Tool \cup {Main}, pc[p] \in ProgressHeld
    PROVE  goal.status = "active" => snap.goal = goal.id /\ goal.id # NoGoal
<1>1. p \in Proc /\ Focus(p) /\ (p # Main => pc[Main] = "run")
  BY ProgressPlace DEF ProgressAt
<1>2. \A q \in Proc : pc[q] \notin FreshAt
  BY <1>1, FocusLemma DEF ProgressHeld, FreshAt
<1>3. pc[Main] \in ProgressHeld \cup {"run", "p_lock"}
  BY <1>1
<1> QED BY <1>2, <1>3 DEF LedgerInv, TurnSound, SnapSound

\* A delta is the whole difference, once the baseline is known to be behind.
LEMMA DeltaLemma ==
    ASSUME BooksTypeOK, NEW n \in Nat, snap.base <= n, wall.last <= clock
    PROVE  token_delta(n) = n - snap.base /\ wall.last + time_delta <= clock
BY Numbers DEF token_delta, time_delta, Atleast0

\* The snapshot is read.
LEMMA ProgressSnapLedger ==
    ASSUME BudgetInv, LedgerInv, NEW p \in Tool \cup {Main}, ProgressSnap(p)
    PROVE  LedgerInv'
<1>B. BooksTypeOK /\ p \in Proc
  BY ProcParts DEF BudgetInv
<1>L. loc[p] \in Locals /\ loc[p].cur \in Nat
  BY <1>B, LocType
<1> DEFINE r == [loc[p] EXCEPT !.delta = token_delta(loc[p].cur),
                               !.secs = time_delta, !.exp = snap.goal]
<1>1. pc[p] = "p_snap" /\ ~NothingToBill(p) /\ GotoWith(p, "p_db", r)
      /\ UNCHANGED <<store, books, total, clock>> /\ UNCHANGED holders
  BY DEF ProgressSnap, At, world
<1>2. pc'[p] = "p_db" /\ loc'[p] = r
  BY <1>B, <1>1 DEF GotoWith, BooksTypeOK
<1>3. /\ r.own = loc[p].own /\ r.op = loc[p].op /\ r.cur = loc[p].cur
      /\ r.delta = token_delta(loc[p].cur) /\ r.secs = time_delta /\ r.exp = snap.goal
  BY <1>L DEF Locals
<1> HIDE DEF r
<1>4. snap.base <= loc[p].cur /\ loc[p].cur <= total /\ wall.last <= clock
  BY <1>B, <1>1 DEF LedgerInv, ReadSound, SnapSound
<1>5. r.delta = loc[p].cur - snap.base /\ wall.last + r.secs <= clock
  BY <1>B, <1>L, <1>3, <1>4, DeltaLemma
<1>6. r.exp = goal.id /\ goal.id # NoGoal
  BY <1>1, <1>3 DEF NothingToBill, LedgerInv, SnapSound
<1>7. snap' = snap /\ goal' = goal /\ wall' = wall /\ total' = total /\ clock' = clock
  BY <1>1 DEF store, books
<1>8. ReadSound(p)' /\ BillSound(p)'
  BY <1>2, <1>3, <1>4, <1>5, <1>6, <1>7 DEF ReadSound, BillSound, FreshAt
<1>9. PermitSound'
  BY <1>B, <1>1, PermitStep DEF LedgerInv, Held, ProgressHeld
<1>10. p = Main => TurnSound'
  <2>1. p = Main => loc[p].cur = total
    BY <1>1 DEF LedgerInv, TurnSound
  <2> QED BY <1>B, <1>1, <1>3, <2>1, ProgressTurn DEF ProgressAt, ProgressHeld
<1> QED BY <1>B, <1>1, <1>3, <1>8, <1>9, <1>10, ProgressStill

\* It returns without a bill: there was nothing to bill, or no goal to bill it to.
LEMMA ProgressReturnLedger ==
    ASSUME BudgetInv, LedgerInv, NEW p \in Tool \cup {Main},
           ProgressReturn(p) \/ ProgressUnchanged(p)
    PROVE  LedgerInv'
<1>B. BooksTypeOK
  BY DEF BudgetInv
<1> DEFINE l == AfterProgress(p)
           r == IF l = "idle" THEN NoLocals ELSE loc[p]
<1>1. pc[p] \in {"p_snap", "p_db"} /\ GotoWith(p, l, r) /\ ReleasePermit(p)
      /\ UNCHANGED <<store, books, total, clock>>
  BY DEF ProgressReturn, ProgressUnchanged, At, Goto, world
<1>2. /\ p \in Proc /\ snap.turn = loc[p].own
      /\ p = Main => loc[p].op = "finish" /\ l = "t_clear"
      /\ p # Main => l \in {"idle", "w_lock"}
  BY <1>1, ProgressPlace DEF ProgressAt, ProgressHeld
<1>L. loc[p].cur \in Nat
  BY <1>2, LocType
<1>3. pc'[p] = l /\ (l # "idle" => r = loc[p])
  BY <1>B, <1>1, <1>2 DEF GotoWith, BooksTypeOK
<1>4. l \in {"idle", "w_lock", "t_clear"}
  BY <1>2
<1> HIDE DEF l, r
<1>5. ReadSound(p)' /\ BillSound(p)'
  BY <1>3, <1>4 DEF ReadSound, BillSound, FreshAt
<1>6. PermitSound'
  <2>1. l \notin Held /\ pc[p] \in Held
    BY <1>1, <1>4 DEF Held, ProgressHeld, WallHeld
  <2> QED BY <1>B, <1>1, <1>2, <2>1, PermitStep DEF LedgerInv
<1>7. p = Main => TurnSound'
  <2> SUFFICES ASSUME p = Main PROVE TurnSound'
    OBVIOUS
  <2>1. goal.status = "active" => snap.base = total
    <3> SUFFICES ASSUME goal.status = "active" PROVE snap.base = total
      OBVIOUS
    <3>1. snap.goal = goal.id /\ goal.id # NoGoal
      BY <1>1, ActiveBound DEF ProgressHeld
    <3>2. CASE ProgressReturn(p)
      <4>1. pc[p] = "p_snap" /\ token_delta(loc[p].cur) = 0
        BY <1>2, <3>1, <3>2 DEF ProgressReturn, NothingToBill, At
      <4>2. loc[p].cur = total /\ snap.base <= loc[p].cur /\ wall.last <= clock
        BY <1>2, <4>1 DEF LedgerInv, TurnSound, ReadSound, SnapSound
      <4>3. loc[p].cur - snap.base = 0
        BY <1>B, <1>L, <4>1, <4>2, DeltaLemma
      <4> QED BY <1>B, <4>2, <4>3, Numbers
    <3>3. CASE ProgressUnchanged(p)
      <4>1. pc[p] = "p_db" /\ ~BillRow(p, ActiveOnly)
        BY <3>3 DEF ProgressUnchanged, At
      <4>2. loc[p].exp = goal.id
        BY <1>2, <4>1 DEF LedgerInv, ReadSound
      <4> QED BY <3>1, <4>1, <4>2 DEF BillRow, Matches, ActiveOnly
    <3> QED BY <3>2, <3>3
  <2>2. r.own = loc[Main].own /\ l = "t_clear"
    BY <1>2, <1>3
  <2> QED BY <1>B, <1>1, <2>1, <2>2, ProgressTurn DEF ProgressAt, ProgressHeld
<1> QED BY <1>B, <1>1, <1>3, <1>5, <1>6, <1>7, ProgressStill DEF l

\* What the end of a turn, or a tool call within it, has to show of the turn it accounts for.
LEMMA WriterTurn ==
    ASSUME BooksTypeOK, LedgerInv, NEW p \in Tool \cup {Main}, pc[p] \in ProgressHeld,
           NEW l, NEW r, GotoWith(p, l, r), snap'.turn = snap.turn,
           goal'.status = "active" => snap'.goal = goal'.id,
           p = Main => /\ r.own = loc[Main].own /\ l \in ProgressAt \cup {"t_clear"}
                       /\ l \in {"p_snap", "p_db", "p_mark"} => r.cur = total'
                       /\ l \in {"p_report", "p_steer", "p_noted", "t_clear"}
                            /\ goal'.status = "active" => snap'.base = total'
    PROVE  TurnSound'
<1>1. snap.turn = loc[p].own /\ loc[p].own # NoTurn
      /\ (p # Main => p \in Tool /\ Busy(p))
  BY ProgressPlace DEF ProgressAt
<1>2. CASE p # Main
  BY <1>1, <1>2, ToolTurn DEF LedgerInv
<1>3. CASE p = Main
  <2>1. pc'[Main] = l /\ loc'[Main] = r
    BY <1>3, ProcParts DEF GotoWith, BooksTypeOK
  <2>2. l # "idle" /\ l # "t_mark"
    BY <1>3 DEF ProgressAt, ProgressHeld
  <2> QED BY <1>1, <1>3, <2>1, <2>2 DEF TurnSound
<1> QED BY <1>2, <1>3

\* Its control.
LEMMA WriterControl ==
    ASSUME BooksTypeOK, LedgerInv, NEW p \in Tool \cup {Main}, pc[p] \in ProgressHeld,
           NEW l, NEW r, GotoWith(p, l, r),
           \/ l \in ProgressHeld /\ r.own = loc[p].own /\ r.op = loc[p].op /\ UNCHANGED holders
           \/ /\ l = AfterProgress(p) /\ (l # "idle" => r = loc[p])
              /\ ReleasePermit(p)
    PROVE  /\ CallsSound' /\ PermitSound'
           /\ \/ l \in ProgressHeld
              \/ p = Main /\ l = "t_clear"
              \/ p # Main /\ l \in {"idle", "w_lock"}
<1>1. /\ p \in Proc
      /\ p = Main => loc[p].op = "finish" /\ AfterProgress(p) = "t_clear"
      /\ p # Main => /\ p \in Tool /\ Busy(p)
                     /\ AfterProgress(p) = "idle" \/ AfterProgress(p) \in ToolAt(loc[p].op)
                     /\ AfterProgress(p) \in {"idle", "w_lock"}
  BY ProgressPlace DEF ProgressAt
<1>2. PermitSound'
  <2>1. pc[p] \in Held /\ (l \in ProgressHeld => l \in Held)
    BY DEF Held
  <2>2. AfterProgress(p) \notin Held
    BY <1>1 DEF Held, ProgressHeld, WallHeld
  <2> QED BY <1>1, <2>1, <2>2, PermitStep DEF LedgerInv
<1>3. CASE p = Main
  <2>1. l \in MainAt /\ (l \in ProgressHeld \cup {"p_lock", "t_clear"} => r.op = "finish")
    BY <1>1, <1>3 DEF MainAt, ProgressHeld
  <2>2. pc[Main] # "run"
    BY <1>3 DEF ProgressHeld
  <2>3. CallsSound'
    BY <1>3, <2>1, <2>2, MainControl DEF LedgerInv
  <2> QED BY <1>1, <1>2, <1>3, <2>3
<1>4. CASE p # Main
  <2>1. l = "idle" \/ (r.own = loc[p].own /\ r.op = loc[p].op /\ l \in ToolAt(r.op))
    BY <1>1, <1>4 DEF ToolAt
  <2>2. CallsSound'
    BY <1>1, <1>4, <2>1, ToolControl DEF LedgerInv
  <2> QED BY <1>1, <1>2, <1>4, <2>2
<1> QED BY <1>3, <1>4

\* The row after a bill.
LEMMA BilledFields ==
    ASSUME goal \in Row, NEW n \in Nat, NEW t \in Nat, goal' = BilledRow(n, t)
    PROVE  /\ goal'.id = goal.id /\ goal'.used = goal.used + n /\ goal'.time = goal.time + t
           /\ goal'.status = "active" => goal.status = "active"
           /\ goal.status # "active" => goal'.status = goal.status
BY DEF BilledRow, Row, status_after_budget_limit

LEMMA BillSum ==
    ASSUME NEW u \in Nat, NEW d \in Nat, NEW b \in Nat, NEW s \in Nat, NEW c \in Nat,
           d = c - s
    PROVE  /\ u + b <= s => (u + d) + b <= c
           /\ u + b = s => (u + d) + b = c
OBVIOUS

\* The bill: the row runs ahead of the baseline by what was read.
LEMMA ProgressBillLedger ==
    ASSUME BudgetInv, BudgetInv', LedgerInv, NEW p \in Tool \cup {Main}, ProgressBill(p)
    PROVE  LedgerInv'
<1>B. BooksTypeOK /\ BooksTypeOK'
  BY DEF BudgetInv
<1> DEFINE r == [loc[p] EXCEPT !.out = goal'.status]
<1>1. pc[p] = "p_db" /\ BillRow(p, ActiveOnly) /\ goal' = BilledRow(loc[p].delta, loc[p].secs)
      /\ GotoWith(p, "p_mark", r) /\ UNCHANGED <<born, books, total, clock, holders>>
  BY DEF ProgressBill, At, world
<1>2. p \in Proc /\ Focus(p) /\ (p # Main => pc[Main] = "run")
  BY <1>1, ProgressPlace DEF ProgressAt, ProgressHeld
<1>L. /\ loc[p] \in Locals /\ loc[p].cur \in Nat /\ loc[p].delta \in Nat
      /\ loc[p].secs \in Nat /\ loc[p].exp \in Nat
  BY <1>2, LocType
<1>3. /\ r.own = loc[p].own /\ r.op = loc[p].op /\ r.cur = loc[p].cur
      /\ r.secs = loc[p].secs /\ r.exp = loc[p].exp /\ r.out = goal'.status
  BY <1>L DEF Locals
<1> HIDE DEF r
<1>4. /\ goal'.id = goal.id /\ goal'.used = goal.used + loc[p].delta
      /\ goal'.time = goal.time + loc[p].secs
      /\ goal'.status = "active" => goal.status = "active"
      /\ goal.status # "active" => goal'.status = goal.status
  BY <1>B, <1>L, <1>1, BilledFields DEF BooksTypeOK
<1>5. /\ snap' = snap /\ wall' = wall /\ born' = born /\ total' = total /\ clock' = clock
      /\ steers' = steers /\ reported' = reported
  BY <1>1 DEF books
<1>6. /\ ~Settled' /\ \A q \in Proc : q # p => ReadSound(q)' /\ BillSound(q)'
      /\ pc'[p] = "p_mark" /\ loc'[p] = r
  BY <1>B, <1>1, <1>2, FocusNext
<1>7. /\ snap.base <= loc[p].cur /\ loc[p].cur <= total
      /\ loc[p].delta = loc[p].cur - snap.base /\ wall.last + loc[p].secs <= clock
      /\ goal.id # NoGoal /\ loc[p].exp = goal.id
  BY <1>1, <1>2 DEF LedgerInv, ReadSound
<1>8. ReadSound(p)'
  BY <1>3, <1>4, <1>5, <1>6, <1>7 DEF ReadSound, FreshAt
<1>9. TokensTo(snap.base) /\ SecondsTo(wall.last)
  <2>1. Settled /\ pc[Main] # "idle"
    BY <1>1, <1>2, FocusLemma DEF FreshAt
  <2> QED BY <1>7, <2>1 DEF LedgerInv, BooksSound
<1>10. BillSound(p)'
  <2>1. goal'.used + born.base <= loc[p].cur
    BY <1>B, <1>L, <1>4, <1>7, <1>9, Numbers DEF TokensTo
  <2>2. goal'.status = "active" => goal'.used + born.base = loc[p].cur
    BY <1>B, <1>L, <1>4, <1>7, <1>9, Numbers DEF TokensTo
  <2>3. goal'.time + born.clock <= wall.last + loc[p].secs
    BY <1>B, <1>L, <1>4, <1>9, Numbers DEF SecondsTo
  <2> QED BY <1>3, <1>5, <1>6, <2>1, <2>2, <2>3 DEF BillSound, TokensTo, SecondsTo
<1>11. SnapSound'
  BY <1>4, <1>5, <1>7 DEF LedgerInv, SnapSound
<1>12. BooksSound'
  BY <1>6 DEF BooksSound
<1>13. TurnSound'
  <2>1. goal.status = "active" => snap.goal = goal.id
    BY <1>1, ActiveBound DEF ProgressHeld
  <2>2. p = Main => r.cur = total'
    BY <1>1, <1>3, <1>5 DEF LedgerInv, TurnSound
  <2> QED BY <1>B, <1>1, <1>3, <1>4, <1>5, <2>1, <2>2, WriterTurn DEF ProgressAt,
     ProgressHeld
<1>14. SteerSound'
  <2>1. goal.status # "complete"
    BY <1>1 DEF BillRow, ActiveOnly
  <2>2. ~\E q \in Proc : pc[q] = "p_noted"
    BY <1>1, <1>2, FocusLemma
  <2> QED BY <1>4, <1>5, <2>1, <2>2 DEF LedgerInv, SteerSound
<1>15. CallsSound' /\ PermitSound'
  BY <1>B, <1>1, <1>3, WriterControl DEF ProgressHeld
<1> QED BY <1>2, <1>6, <1>8, <1>10, <1>11, <1>12, <1>13, <1>14, <1>15, Wrap

\* The mark: the baseline catches up with the row.
LEMMA ProgressMarkLedger ==
    ASSUME BudgetInv, BudgetInv', LedgerInv, NEW p \in Tool \cup {Main}, ProgressMark(p)
    PROVE  LedgerInv'
<1>B. BooksTypeOK /\ BooksTypeOK'
  BY DEF BudgetInv
<1> DEFINE l == IF /\ SteeringAllowed(p) /\ loc[p].out = "budget_limited"
                   /\ reported # loc[p].exp THEN "p_steer" ELSE "p_report"
<1>1. pc[p] = "p_mark" /\ GotoWith(p, l, loc[p])
      /\ UNCHANGED <<goal, born, reported, steers, total, clock, holders>>
  BY DEF ProgressMark, At, world, store
<1>2. /\ p \in Proc /\ Focus(p) /\ snap.turn = loc[p].own /\ (p # Main => pc[Main] = "run")
      /\ (p = Main => loc[p].op = "finish")
  BY <1>1, ProgressPlace DEF ProgressAt, ProgressHeld
<1>L. loc[p].cur \in Nat /\ loc[p].secs \in Nat /\ loc[p].exp \in Nat
  BY <1>2, LocType
<1>3. /\ snap'.turn = snap.turn /\ snap'.base = loc[p].cur
      /\ snap'.goal = IF ClearsGoal(p) THEN NoGoal ELSE snap.goal
  BY <1>B, <1>2 DEF ProgressMark, Baseline, BooksTypeOK
<1>4. /\ wall'.last = IF ClearsGoal(p) THEN clock ELSE wall.last + loc[p].secs
      /\ wall'.goal = IF ClearsGoal(p) THEN NoGoal ELSE wall.goal
  BY <1>B DEF ProgressMark, WallCleared, BooksTypeOK
<1>5. /\ goal' = goal /\ born' = born /\ total' = total /\ clock' = clock
      /\ steers' = steers /\ reported' = reported
  BY <1>1
<1>6. l \in {"p_steer", "p_report"}
  OBVIOUS
<1>7. l = "p_steer" => /\ loc[p].out = "budget_limited" /\ reported # loc[p].exp
  OBVIOUS
<1>8. l = "p_steer" => p # Main
  BY <1>2 DEF SteeringAllowed
<1> HIDE DEF l
<1>9. /\ \A q \in Proc : q # p => ReadSound(q)' /\ BillSound(q)' /\ pc'[q] = pc[q]
      /\ pc'[p] = l /\ loc'[p] = loc[p]
      /\ ~\E q \in Proc : pc'[q] = "p_noted"
  BY <1>B, <1>1, <1>2, <1>6, FocusNext
<1>10. /\ loc[p].cur <= total /\ wall.last + loc[p].secs <= clock
       /\ goal.id # NoGoal /\ loc[p].exp = goal.id /\ loc[p].out = goal.status
       /\ TokensTo(loc[p].cur) /\ SecondsTo(wall.last + loc[p].secs)
  BY <1>1, <1>2 DEF LedgerInv, ReadSound, BillSound
<1>11. wall.last + loc[p].secs <= wall'.last /\ wall'.last <= clock
  BY <1>B, <1>L, <1>4, <1>10, Numbers
<1>12. ReadSound(p)'
  BY <1>5, <1>6, <1>9, <1>10 DEF ReadSound, FreshAt
<1>13. ~\E q \in Proc : pc[q] = "p_noted"
  BY <1>1, <1>2, FocusLemma
<1>14. l = "p_steer" => steers = 0 /\ goal.status = "budget_limited"
  <2> SUFFICES ASSUME l = "p_steer" PROVE steers = 0 /\ goal.status = "budget_limited"
    OBVIOUS
  <2>1. goal.status = "budget_limited" /\ reported # goal.id
    BY <1>7, <1>10
  <2>2. steers # 1 /\ steers <= 1
    BY <1>13, <2>1 DEF LedgerInv, SteerSound
  <2> QED BY <1>B, <2>1, <2>2, Numbers
<1>15. BillSound(p)'
  BY <1>5, <1>6, <1>9, <1>10, <1>14 DEF BillSound
<1>16. SnapSound'
  <2>1. snap'.base <= total' /\ wall'.last <= clock'
    BY <1>3, <1>5, <1>10, <1>11
  <2> QED BY <1>3, <1>4, <1>5, <2>1 DEF LedgerInv, SnapSound
<1>17. BooksSound'
  <2>1. pc'[Main] # "idle"
    BY <1>2, <1>6, <1>9, ProcParts
  <2>2. (TokensTo(snap.base))'
    BY <1>3, <1>5, <1>10 DEF TokensTo
  <2>3. goal.time + born.clock <= wall'.last
    <3>1. goal.time + born.clock <= wall.last + loc[p].secs
      BY <1>10 DEF SecondsTo
    <3>2. wall'.last \in Nat
      BY <1>B DEF BooksTypeOK
    <3> QED BY <1>B, <1>L, <1>11, <3>1, <3>2, Numbers
  <2> QED BY <1>5, <2>1, <2>2, <2>3 DEF BooksSound, SecondsTo
<1>18. TurnSound'
  <2>1. goal.status = "active" => snap.goal = goal.id
    BY <1>1, ActiveBound DEF ProgressHeld
  <2>2. goal.status = "active" => ~ClearsGoal(p)
    BY <1>10 DEF ClearsGoal
  <2>3. goal'.status = "active" => snap'.goal = goal'.id
    BY <1>3, <1>5, <2>1, <2>2
  <2>4. p = Main => snap'.base = total'
    BY <1>1, <1>3, <1>5 DEF LedgerInv, TurnSound
  <2> QED BY <1>B, <1>1, <1>3, <1>6, <2>3, <2>4, WriterTurn DEF ProgressAt, ProgressHeld
<1>19. SteerSound'
  BY <1>5, <1>13 DEF LedgerInv, SteerSound
<1>20. CallsSound' /\ PermitSound'
  BY <1>B, <1>1, <1>6, WriterControl DEF ProgressHeld
<1> QED BY <1>2, <1>9, <1>12, <1>15, <1>16, <1>17, <1>18, <1>19, <1>20, Wrap

\* The steps after the mark leave row and baseline alone.
LEMMA AfterMarkLedger ==
    ASSUME BooksTypeOK, LedgerInv, NEW p \in Tool \cup {Main},
           pc[p] \in {"p_report", "p_steer", "p_noted"}, NEW l, NEW r, GotoWith(p, l, r),
           UNCHANGED <<goal, born, snap, wall, total, clock>>,
           \/ l = "p_noted" /\ r = loc[p] /\ UNCHANGED holders
           \/ /\ l = AfterProgress(p) /\ (l # "idle" => r = loc[p])
              /\ ReleasePermit(p),
           SteerSound'
    PROVE  LedgerInv'
<1>1. pc[p] \in ProgressHeld
  BY DEF ProgressHeld
<1>2. p \in Proc /\ Focus(p) /\ (p # Main => pc[Main] = "run")
  BY <1>1, ProgressPlace DEF ProgressAt
<1>3. /\ CallsSound' /\ PermitSound'
      /\ \/ l \in ProgressHeld
         \/ p = Main /\ l = "t_clear"
         \/ p # Main /\ l \in {"idle", "w_lock"}
  BY <1>1, WriterControl DEF ProgressHeld
<1>4. l \in {"p_noted", "t_clear", "idle", "w_lock"} /\ (p = Main => l \in {"p_noted", "t_clear"})
  <2>1. AfterProgress(p) \in {"t_clear", "idle", "w_lock"}
        /\ (p = Main => AfterProgress(p) = "t_clear")
    BY <1>1, ProgressPlace DEF ProgressAt
  <2> QED BY <2>1
<1>5. /\ \A q \in Proc : q # p => ReadSound(q)' /\ BillSound(q)' /\ pc'[q] = pc[q]
      /\ pc'[p] = l /\ loc'[p] = r
  BY <1>2, FocusNext
<1>6. goal.id # NoGoal /\ loc[p].exp = goal.id /\ loc[p].out = goal.status
  BY <1>2 DEF LedgerInv, ReadSound, BillSound
<1>7. l = "p_noted" => r = loc[p]
  BY <1>4
<1>8. ReadSound(p)' /\ BillSound(p)'
  BY <1>4, <1>5, <1>6 DEF ReadSound, BillSound, FreshAt
<1>9. SnapSound'
  BY <1>6 DEF LedgerInv, SnapSound
<1>10. BooksSound'
  <2>1. Settled /\ pc[Main] # "idle" /\ pc'[Main] # "idle"
    BY <1>2, <1>4, <1>5, FocusLemma, ProcParts DEF FreshAt
  <2>2. TokensTo(snap.base) /\ SecondsTo(wall.last)
    BY <1>6, <2>1 DEF LedgerInv, BooksSound
  <2> QED BY <2>1, <2>2 DEF BooksSound, TokensTo, SecondsTo
<1>11. TurnSound'
  <2>1. goal.status = "active" => snap.goal = goal.id
    BY <1>1, ActiveBound
  <2>2. p = Main => (goal.status = "active" => snap.base = total)
    BY DEF LedgerInv, TurnSound
  <2>3. p = Main => r = loc[p]
    BY <1>4
  <2> QED BY <1>4, <2>1, <2>2, WriterTurn DEF ProgressAt, ProgressHeld
<1> QED BY <1>2, <1>3, <1>5, <1>8, <1>9, <1>10, <1>11, Wrap

\* The notice: sent once, and noted before the permit is returned.
LEMMA ProgressSteerLedger ==
    ASSUME BudgetInv, BudgetInv', LedgerInv, NEW p \in Tool \cup {Main},
           ProgressReport(p) \/ ProgressSteer(p) \/ ProgressNoted(p)
    PROVE  LedgerInv'
<1>B. BooksTypeOK
  BY DEF BudgetInv
<1>P. pc[p] \in {"p_report", "p_steer", "p_noted"}
  BY DEF ProgressReport, ProgressSteer, ProgressNoted, At
<1>F. p \in Proc /\ Focus(p)
  BY <1>P, ProgressPlace DEF ProgressAt, ProgressHeld
<1>E. goal.id # NoGoal /\ loc[p].exp = goal.id /\ loc[p].out = goal.status
  BY <1>P, <1>F DEF LedgerInv, ReadSound, BillSound
<1>D. UNCHANGED <<goal, born, snap, wall, total, clock>>
  BY DEF ProgressReport, ProgressSteer, ProgressNoted, store, world
<1>N. (\E q \in Proc : pc[q] = "p_noted") <=> pc[p] = "p_noted"
  BY <1>F, FocusLemma
<1> DEFINE l == AfterProgress(p)
           r == IF l = "idle" THEN NoLocals ELSE loc[p]
<1>1. CASE ProgressReport(p)
  <2>1. /\ pc[p] = "p_report" /\ GotoWith(p, l, r) /\ ReleasePermit(p) /\ steers' = steers
        /\ reported' = IF loc[p].out # "budget_limited" THEN NoGoal ELSE reported
    BY <1>1 DEF ProgressReport, At, Goto
  <2>2. SteerSound'
    <3>1. steers = 1 => goal.status = "complete" \/ (goal.status = "budget_limited" /\ reported = goal.id)
      BY <1>N, <2>1 DEF LedgerInv, SteerSound
    <3>2. goal.status = "budget_limited" => reported' = reported
      BY <1>E, <2>1
    <3> QED BY <1>D, <2>1, <3>1, <3>2 DEF LedgerInv, SteerSound
  <2> QED BY <1>B, <1>P, <1>D, <2>1, <2>2, AfterMarkLedger
<1>2. CASE ProgressSteer(p)
  <2>1. pc[p] = "p_steer" /\ GotoWith(p, "p_noted", loc[p]) /\ UNCHANGED holders
        /\ steers' = steers + 1
    BY <1>E, <1>2 DEF ProgressSteer, At, Goto
  <2>2. steers = 0 /\ goal.status = "budget_limited"
    BY <1>F, <2>1 DEF LedgerInv, BillSound
  <2>3. pc'[p] = "p_noted"
    BY <1>B, <1>F, <2>1 DEF GotoWith, BooksTypeOK
  <2>4. SteerSound'
    BY <1>D, <1>F, <2>1, <2>2, <2>3 DEF SteerSound
  <2> QED BY <1>B, <1>P, <1>D, <2>1, <2>4, AfterMarkLedger
<1>3. CASE ProgressNoted(p)
  <2>1. /\ pc[p] = "p_noted" /\ GotoWith(p, l, r) /\ ReleasePermit(p) /\ steers' = steers
        /\ reported' = goal.id
    BY <1>E, <1>3 DEF ProgressNoted, At, Goto
  <2>2. SteerSound'
    BY <1>D, <2>1 DEF LedgerInv, SteerSound
  <2> QED BY <1>B, <1>P, <1>D, <2>1, <2>2, AfterMarkLedger
<1> QED BY <1>1, <1>2, <1>3

LEMMA ProgressLedger ==
    ASSUME BudgetInv, BudgetInv', LedgerInv, NEW p \in Tool \cup {Main}, Progress(p)
    PROVE  LedgerInv'
BY ProgressReadLedger, ProgressSnapLedger, ProgressReturnLedger, ProgressBillLedger,
   ProgressMarkLedger, ProgressSteerLedger DEF Progress

-----------------------------------------------------------------------------
(***************************************************************************)
(* account_thread_goal_wall_clock_usage, of create_goal and update_goal.    *)
(***************************************************************************)

\* A call that is not at account_thread_goal_progress excludes all others.
LEMMA GoalishPlace ==
    ASSUME LedgerInv, NEW w \in Tool, pc[w] \in CreateAt \cup CompleteAt
    PROVE  /\ w \in Proc /\ w # Main /\ w # Ext /\ Busy(w) /\ Focus(w) /\ pc[Main] = "run"
           /\ snap.turn = loc[w].own /\ loc[w].own # NoTurn
           /\ \/ loc[w].op = "create" /\ pc[w] \in CreateAt
              \/ loc[w].op = "complete" /\ pc[w] \in CompleteAt
<1>1. Busy(w)
  BY DEF Busy, At, CreateAt, CompleteAt, FreshAt, WallHeld
<1>2. /\ pc[Main] = "run" /\ loc[w].own = loc[Main].own
      /\ loc[w].op \in {"tool", "create", "complete"} /\ pc[w] \in ToolAt(loc[w].op)
  BY <1>1 DEF LedgerInv, CallsSound
<1>3. pc[w] \notin ProgressHeld \cup {"p_lock"}
  BY DEF ProgressHeld, CreateAt, CompleteAt, FreshAt, WallHeld
<1>4. \/ loc[w].op = "create" /\ pc[w] \in CreateAt
      \/ loc[w].op = "complete" /\ pc[w] \in CompleteAt
  BY <1>2, <1>3 DEF ToolAt
<1>5. Focus(w)
  BY <1>1, <1>4, ToolAlone DEF LedgerInv
<1>6. snap.turn = loc[w].own /\ loc[w].own # NoTurn
  BY <1>2 DEF LedgerInv, TurnSound
<1> QED BY <1>1, <1>2, <1>4, <1>5, <1>6, ProcParts

\* Outside a new goal and a bill, row and baseline agree.
LEMMA GoalishBooks ==
    ASSUME LedgerInv, NEW w \in Tool, pc[w] \in CreateAt \cup CompleteAt,
           pc[w] \notin FreshAt \cup {"w_mark"}, goal.id # NoGoal
    PROVE  TokensTo(snap.base) /\ SecondsTo(wall.last)
<1>1. w \in Proc /\ Focus(w) /\ pc[Main] = "run"
  BY GoalishPlace
<1>2. Settled
  BY <1>1, FocusLemma DEF CreateAt, CompleteAt, FreshAt, WallHeld
<1> QED BY <1>1, <1>2 DEF LedgerInv, BooksSound

\* Where the call of one of these two operations goes next.
LEMMA WallPlace ==
    ASSUME LedgerInv, NEW w \in Tool, pc[w] \in WallHeld \cup {"w_lock"}
    PROVE  /\ pc[w] \in CreateAt \cup CompleteAt
           /\ WallHeld \subseteq ToolAt(loc[w].op)
           /\ AfterWall(w) \in ToolAt(loc[w].op) /\ AfterWall(w) \in {"n_insert", "c_read"}
<1>1. pc[w] \in CreateAt \cup CompleteAt
  BY DEF CreateAt, CompleteAt
<1>2. loc[w].op \in {"create", "complete"}
  BY <1>1, GoalishPlace
<1> QED BY <1>1, <1>2 DEF AfterWall, ToolAt, CreateAt, CompleteAt

\* The steps that write nothing.
LEMMA WallStill ==
    ASSUME BooksTypeOK, LedgerInv, NEW w \in Tool,
           pc[w] \in {"w_lock", "w_read", "w_db"}, NEW l, NEW r, GotoWith(w, l, r),
           UNCHANGED <<store, books, total, clock>>, r.own = loc[w].own, r.op = loc[w].op,
           \/ l = "w_read" /\ AcquirePermit(w)
           \/ l \in {"w_db", "w_clear"} /\ pc[w] # "w_lock" /\ UNCHANGED holders
           \/ l = AfterWall(w) /\ pc[w] # "w_lock" /\ ReleasePermit(w),
           l = "w_db" => wall.last + r.secs <= clock
    PROVE  LedgerInv'
<1>1. /\ pc[w] \in CreateAt \cup CompleteAt /\ WallHeld \subseteq ToolAt(loc[w].op)
      /\ AfterWall(w) \in ToolAt(loc[w].op) /\ AfterWall(w) \in {"n_insert", "c_read"}
  BY WallPlace DEF WallHeld
<1>2. w \in Proc /\ Busy(w)
  BY <1>1, GoalishPlace
<1>3. l \in {"w_read", "w_db", "w_clear", "n_insert", "c_read"}
  BY <1>1
<1>4. l \in ToolAt(r.op)
  BY <1>1 DEF WallHeld
<1>5. pc'[w] = l /\ loc'[w] = r /\ wall' = wall /\ clock' = clock
  BY <1>2 DEF GotoWith, BooksTypeOK, books
<1>6. ReadSound(w)' /\ BillSound(w)'
  BY <1>3, <1>5 DEF ReadSound, BillSound, FreshAt
<1>7. PermitSound'
  <2>1. pc[w] # "w_lock" => pc[w] \in Held
    BY DEF Held, WallHeld
  <2>2. AfterWall(w) \notin Held
    BY <1>1 DEF Held, WallHeld, ProgressHeld
  <2> QED BY <1>2, <2>1, <2>2, PermitStep DEF LedgerInv
<1>8. pc[w] \notin {"p_mark", "w_mark", "p_noted"} \cup FreshAt
  BY DEF FreshAt
<1>9. l \notin {"p_mark", "w_mark", "p_noted"} \cup FreshAt
  BY <1>3 DEF FreshAt
<1> QED BY <1>2, <1>4, <1>6, <1>7, <1>8, <1>9, ToolStill

\* A tool call that writes: what is left to show of the whole state.
LEMMA GoalishWrap ==
    ASSUME BooksTypeOK, LedgerInv, NEW w \in Tool, pc[w] \in CreateAt \cup CompleteAt,
           NEW l, NEW r, GotoWith(w, l, r),
           l = "idle" \/ (r.own = loc[w].own /\ r.op = loc[w].op /\ l \in ToolAt(r.op)),
           \/ ReleasePermit(w) /\ l \notin Held /\ pc[w] \in Held
           \/ UNCHANGED holders /\ (l \in Held => pc[w] \in Held),
           l # "p_noted",
           SnapSound', ReadSound(w)', BillSound(w)',
           goal'.id # NoGoal /\ l \notin FreshAt \cup {"p_mark", "w_mark"}
               => (TokensTo(snap.base) /\ SecondsTo(wall.last))',
           snap'.turn = snap.turn,
           goal'.status = "active" /\ l \notin FreshAt => snap'.goal = goal'.id,
           steers' <= 1,
           steers' = 1 => \/ goal'.status = "complete"
                          \/ goal'.status = "budget_limited" /\ reported' = goal'.id
    PROVE  LedgerInv'
<1>1. w \in Proc /\ w # Main /\ Busy(w) /\ Focus(w) /\ pc[Main] = "run"
  BY GoalishPlace
<1>2. /\ Settled' <=> l \notin {"p_mark", "w_mark"} \cup FreshAt
      /\ (\A q \in Proc : pc'[q] \notin FreshAt) <=> l \notin FreshAt
      /\ \A q \in Proc : q # w => ReadSound(q)' /\ BillSound(q)' /\ pc'[q] = pc[q]
  BY <1>1, FocusNext
<1>3. pc'[Main] = "run"
  BY <1>1, <1>2, ProcParts
<1>4. CallsSound'
  BY <1>1, ToolControl DEF LedgerInv
<1>5. PermitSound'
  BY <1>1, PermitStep DEF LedgerInv
<1>6. BooksSound'
  BY <1>2, <1>3 DEF BooksSound
<1>7. TurnSound'
  BY <1>1, <1>2, ToolTurn DEF LedgerInv
<1>8. SteerSound'
  BY DEF SteerSound
<1> QED BY <1>1, <1>2, <1>4, <1>5, <1>6, <1>7, <1>8, Wrap

\* The turn of the call has an active goal in its snapshot.
LEMMA GoalishActive ==
    ASSUME LedgerInv, NEW w \in Tool, pc[w] \in CreateAt \cup CompleteAt, pc[w] \notin FreshAt
    PROVE  /\ goal.status = "active" => snap.goal = goal.id
           /\ steers <= 1
           /\ steers = 1 => \/ goal.status = "complete"
                            \/ goal.status = "budget_limited" /\ reported = goal.id
<1>1. w \in Proc /\ Focus(w) /\ pc[Main] = "run"
  BY GoalishPlace
<1>2. pc[w] # "p_noted"
  BY DEF CreateAt, CompleteAt, FreshAt, WallHeld
<1>3. (\A q \in Proc : pc[q] \notin FreshAt) /\ ~\E q \in Proc : pc[q] = "p_noted"
  BY <1>1, <1>2, FocusLemma
<1> QED BY <1>1, <1>3 DEF LedgerInv, TurnSound, SteerSound

\* Seconds are billed and marked under the permit; a failed bill starts the clock anew.
LEMMA WallLedger ==
    ASSUME BudgetInv, BudgetInv', LedgerInv, NEW w \in Tool, Wall(w)
    PROVE  LedgerInv'
<1>B. BooksTypeOK /\ BooksTypeOK'
  BY DEF BudgetInv
<1>P. pc[w] \in WallHeld \cup {"w_lock"}
  BY DEF Wall, WallLock, WallRead, WallReturn, WallBill, WallUnchanged, WallDone, At,
     WallHeld
<1>C. /\ pc[w] \in CreateAt \cup CompleteAt /\ WallHeld \subseteq ToolAt(loc[w].op)
      /\ AfterWall(w) \in ToolAt(loc[w].op) /\ AfterWall(w) \in {"n_insert", "c_read"}
  BY <1>P, WallPlace
<1>F. w \in Proc /\ Focus(w) /\ pc[Main] = "run"
  BY <1>C, GoalishPlace
<1>L. loc[w] \in Locals /\ loc[w].secs \in Nat
  BY <1>F, LocType
<1>A. /\ goal.status = "active" => snap.goal = goal.id
      /\ steers <= 1
      /\ steers = 1 => \/ goal.status = "complete"
                       \/ goal.status = "budget_limited" /\ reported = goal.id
  BY <1>P, <1>C, GoalishActive DEF WallHeld, FreshAt
<1>W. wall.last <= clock
  BY DEF LedgerInv, SnapSound
<1>1. CASE WallLock(w)
  <2>1. pc[w] = "w_lock" /\ AcquirePermit(w) /\ GotoWith(w, "w_read", loc[w])
        /\ UNCHANGED <<store, books, total, clock>>
    BY <1>1 DEF WallLock, At, Goto, world
  <2> QED BY <1>B, <2>1, WallStill
<1>2. CASE WallRead(w)
  <2> DEFINE r == [loc[w] EXCEPT !.delta = 0, !.secs = time_delta, !.exp = wall.goal]
  <2>1. pc[w] = "w_read" /\ GotoWith(w, "w_db", r) /\ UNCHANGED holders
        /\ UNCHANGED <<store, books, total, clock>>
    BY <1>2 DEF WallRead, At, world
  <2>2. r.own = loc[w].own /\ r.op = loc[w].op /\ r.secs = time_delta
    BY <1>L DEF Locals
  <2> HIDE DEF r
  <2>3. wall.last + r.secs <= clock
    BY <1>B, <1>W, <2>2, Numbers DEF time_delta, Atleast0
  <2> QED BY <1>B, <2>1, <2>2, <2>3, WallStill
<1>3. CASE WallReturn(w)
  <2>1. pc[w] = "w_read" /\ GotoWith(w, AfterWall(w), loc[w]) /\ ReleasePermit(w)
        /\ UNCHANGED <<store, books, total, clock>>
    BY <1>3, <1>C DEF WallReturn, At, Goto, world
  <2> QED BY <1>B, <1>C, <2>1, WallStill
<1>4. CASE WallBill(w)
  <2>1. /\ pc[w] = "w_db" /\ BillRow(w, WallMode(w)) /\ goal' = BilledRow(0, loc[w].secs)
        /\ GotoWith(w, "w_mark", loc[w]) /\ UNCHANGED <<born, books, total, clock, holders>>
    BY <1>4 DEF WallBill, At, Goto, world
  <2>2. /\ goal'.id = goal.id /\ goal'.used = goal.used + 0
        /\ goal'.time = goal.time + loc[w].secs
        /\ goal'.status = "active" => goal.status = "active"
        /\ goal.status # "active" => goal'.status = goal.status
    BY <1>B, <1>L, <2>1, BilledFields DEF BooksTypeOK
  <2>3. /\ snap' = snap /\ wall' = wall /\ born' = born /\ total' = total /\ clock' = clock
        /\ steers' = steers /\ reported' = reported
    BY <2>1 DEF books
  <2>4. goal.id # NoGoal /\ goal.status # "complete"
    BY <2>1 DEF BillRow, Matches, WallMode, ActiveOnly, ActiveStatusOnly
  <2>5. TokensTo(snap.base) /\ SecondsTo(wall.last)
    BY <1>C, <2>1, <2>4, GoalishBooks DEF FreshAt
  <2>6. pc'[w] = "w_mark" /\ loc'[w] = loc[w]
    BY <1>B, <1>F, <2>1, FocusNext
  <2>7. wall.last + loc[w].secs <= clock
    BY <1>F, <2>1 DEF LedgerInv, ReadSound
  <2>8. ReadSound(w)'
    BY <2>3, <2>6, <2>7 DEF ReadSound, FreshAt
  <2>9. BillSound(w)'
    <3>1. goal'.used = goal.used
      BY <1>B, <2>2, Numbers
    <3>2. (TokensTo(snap.base))'
      BY <2>2, <2>3, <2>5, <3>1 DEF TokensTo
    <3>3. goal'.time + born.clock <= wall.last + loc[w].secs
      BY <1>B, <1>L, <2>2, <2>5, Numbers DEF SecondsTo
    <3> QED BY <2>3, <2>6, <3>2, <3>3 DEF BillSound, SecondsTo
  <2>10. SnapSound'
    BY <2>2, <2>3, <2>4 DEF LedgerInv, SnapSound
  <2>11. goal'.status = "active" => snap'.goal = goal'.id
    BY <1>A, <2>2, <2>3
  <2>12. /\ steers' <= 1
         /\ steers' = 1 => goal'.status = "budget_limited" /\ reported' = goal'.id
    BY <1>A, <2>2, <2>3, <2>4
  <2>13. "w_mark" \in ToolAt(loc[w].op) /\ pc[w] \in Held
    BY <1>C, <2>1 DEF WallHeld, Held
  <2>14. snap'.turn = snap.turn
    BY <2>3
  <2> QED BY <1>B, <1>C, <2>1, <2>8, <2>9, <2>10, <2>11, <2>12, <2>13, <2>14, GoalishWrap
<1>5. CASE WallUnchanged(w)
  <2>1. pc[w] = "w_db" /\ GotoWith(w, "w_clear", loc[w]) /\ UNCHANGED holders
        /\ UNCHANGED <<store, books, total, clock>>
    BY <1>5 DEF WallUnchanged, At, Goto, world
  <2> QED BY <1>B, <2>1, WallStill
<1>6. CASE WallDone(w)
  <2> DEFINE l == AfterWall(w)
  <2>1. /\ pc[w] \in {"w_mark", "w_clear"} /\ GotoWith(w, l, loc[w]) /\ ReleasePermit(w)
        /\ UNCHANGED <<goal, born, snap, reported, steers, total, clock>>
    BY <1>6, <1>C DEF WallDone, At, Goto, world, store
  <2>2. l \in {"n_insert", "c_read"} /\ l \in ToolAt(loc[w].op)
    BY <1>C
  <2> HIDE DEF l
  <2>3. /\ pc[w] = "w_mark" => wall'.last = wall.last + loc[w].secs /\ wall'.goal = wall.goal
        /\ pc[w] = "w_clear" => wall'.last = clock /\ wall'.goal = NoGoal
    BY <1>B, <1>6 DEF WallDone, At, WallCleared, BooksTypeOK
  <2>4. pc[w] = "w_mark" => /\ wall.last + loc[w].secs <= clock
                            /\ TokensTo(snap.base) /\ SecondsTo(wall.last + loc[w].secs)
    BY <1>F DEF LedgerInv, ReadSound, BillSound
  <2>5. wall'.last <= clock
    BY <1>B, <2>1, <2>3, <2>4, Numbers
  <2>6. SnapSound'
    BY <2>1, <2>3, <2>5 DEF LedgerInv, SnapSound
  <2>7. pc'[w] = l
    BY <1>B, <1>F, <2>1, FocusNext
  <2>8. ReadSound(w)' /\ BillSound(w)'
    BY <2>2, <2>7 DEF ReadSound, BillSound, FreshAt
  <2>9. goal'.id # NoGoal => (TokensTo(snap.base) /\ SecondsTo(wall.last))'
    <3> SUFFICES ASSUME goal.id # NoGoal
                 PROVE  (TokensTo(snap.base) /\ SecondsTo(wall.last))'
      BY <2>1
    <3>1. CASE pc[w] = "w_mark"
      BY <2>1, <2>3, <2>4, <3>1 DEF TokensTo, SecondsTo
    <3>2. CASE pc[w] = "w_clear"
      <4>1. TokensTo(snap.base) /\ SecondsTo(wall.last)
        BY <1>C, <3>2, GoalishBooks DEF FreshAt
      <4>2. goal.time + born.clock <= clock
        BY <1>B, <1>W, <4>1, Numbers DEF SecondsTo
      <4> QED BY <2>1, <2>3, <3>2, <4>1, <4>2 DEF TokensTo, SecondsTo
    <3> QED BY <2>1, <3>1, <3>2
  <2>10. l \notin Held /\ pc[w] \in Held /\ l # "p_noted"
    BY <2>1, <2>2 DEF Held, WallHeld, ProgressHeld
  <2>11. goal'.status = "active" => snap'.goal = goal'.id
    BY <1>A, <2>1
  <2>12. /\ steers' <= 1
         /\ steers' = 1 => \/ goal'.status = "complete"
                           \/ goal'.status = "budget_limited" /\ reported' = goal'.id
    BY <1>A, <2>1
  <2>13. snap'.turn = snap.turn
    BY <2>1
  <2> QED BY <1>B, <1>C, <2>1, <2>2, <2>6, <2>8, <2>9, <2>10, <2>11, <2>12, GoalishWrap
<1> QED BY <1>1, <1>2, <1>3, <1>4, <1>5, <1>6 DEF Wall

-----------------------------------------------------------------------------
(***************************************************************************)
(* create_goal: the new row has used nothing until its baseline is set.     *)
(***************************************************************************)
LEMMA MarkLedger ==
    ASSUME BudgetInv, BudgetInv', LedgerInv, NEW w \in Tool, Mark(w)
    PROVE  LedgerInv'
<1>B. BooksTypeOK /\ BooksTypeOK'
  BY DEF BudgetInv
<1>P. pc[w] \in FreshAt
  BY DEF Mark, MarkReset, MarkTotal, MarkGoal, At, FreshAt
<1>C. pc[w] \in CreateAt \cup CompleteAt /\ pc[w] \notin CompleteAt
  BY <1>P DEF CreateAt, CompleteAt, FreshAt, WallHeld
<1>F. /\ w \in Proc /\ w # Ext /\ Focus(w) /\ pc[Main] = "run" /\ loc[w].op = "create"
      /\ snap.turn = loc[w].own /\ loc[w].own # NoTurn
  BY <1>C, GoalishPlace
<1>L. loc[w] \in Locals /\ loc[w].cur \in Nat /\ loc[w].exp \in Nat
  BY <1>F, LocType
<1>R. /\ goal.id # NoGoal /\ loc[w].exp = goal.id /\ goal.used = 0 /\ goal.time = 0
      /\ snap.goal = NoGoal /\ wall.goal = NoGoal /\ steers = 0
  BY <1>P, <1>F DEF LedgerInv, ReadSound
<1>S. SnapSound
  BY DEF LedgerInv
<1>T. FreshAt \subseteq ToolAt("create") /\ "p_lock" \in ToolAt("create")
  BY DEF ToolAt, CreateAt
<1>H. \A l \in FreshAt \cup {"p_lock"} : l \notin Held
  BY DEF Held, ProgressHeld, WallHeld, FreshAt
<1>1. CASE MarkReset(w)
  <2>1. /\ pc[w] = "n_reset" /\ GotoWith(w, "n_total", loc[w])
        /\ UNCHANGED <<goal, born, snap, wall, steers, total, clock, holders>>
    BY <1>1, <1>F DEF MarkReset, At, Goto, world, store
  <2>2. pc'[w] = "n_total" /\ loc'[w] = loc[w]
    BY <1>B, <1>F, <2>1, FocusNext
  <2>3. ReadSound(w)' /\ BillSound(w)'
    BY <1>R, <2>1, <2>2 DEF ReadSound, BillSound
  <2>4. SnapSound'
    BY <1>S, <2>1 DEF SnapSound
  <2>5. "n_total" \in FreshAt
    BY DEF FreshAt
  <2> QED BY <1>B, <1>C, <1>F, <1>R, <1>T, <1>H, <2>1, <2>3, <2>4, <2>5, GoalishWrap
<1>2. CASE MarkTotal(w)
  <2> DEFINE r == [loc[w] EXCEPT !.cur = total]
  <2>1. /\ pc[w] = "n_total" /\ GotoWith(w, "n_mark", r)
        /\ UNCHANGED <<goal, born, snap, wall, steers, total, clock, holders>>
    BY <1>2 DEF MarkTotal, At, world, store, books
  <2>2. r.own = loc[w].own /\ r.op = loc[w].op /\ r.cur = total /\ r.exp = loc[w].exp
    BY <1>L DEF Locals
  <2> HIDE DEF r
  <2>3. pc'[w] = "n_mark" /\ loc'[w] = r
    BY <1>B, <1>F, <2>1, FocusNext
  <2>4. ReadSound(w)' /\ BillSound(w)'
    <3>1. born.tokens <= total /\ total <= total
      BY <1>B, <1>S, Numbers DEF SnapSound
    <3> QED BY <1>R, <2>1, <2>2, <2>3, <3>1 DEF ReadSound, BillSound
  <2>5. SnapSound'
    BY <1>S, <2>1 DEF SnapSound
  <2>6. "n_mark" \in FreshAt
    BY DEF FreshAt
  <2> QED BY <1>B, <1>C, <1>F, <1>R, <1>T, <1>H, <2>1, <2>2, <2>4, <2>5, <2>6, GoalishWrap
<1>3. CASE MarkGoal(w)
  <2>1. /\ pc[w] = "n_mark" /\ GotoWith(w, "p_lock", loc[w])
        /\ UNCHANGED <<goal, reported, steers, total, clock, holders>>
    BY <1>3, <1>F DEF MarkGoal, At, Goto, AfterMark, world
  <2>2. /\ snap'.turn = snap.turn /\ snap'.base = loc[w].cur /\ snap'.goal = goal.id
        /\ wall'.last = clock /\ wall'.goal = goal.id
    BY <1>3, <1>F, <1>R DEF MarkGoal, WallMark
  <2>3. born'.tokens = born.tokens /\ born'.clock = born.clock /\ born'.base = loc[w].cur
    BY <1>B, <1>3, <1>R DEF MarkGoal, BooksTypeOK
  <2>4. born.tokens <= loc[w].cur /\ loc[w].cur <= total
    BY <1>F, <2>1 DEF LedgerInv, ReadSound
  <2>5. SnapSound'
    <3>1. clock <= clock /\ born.clock <= clock
      BY <1>B, <1>S, Numbers DEF SnapSound
    <3> QED BY <1>R, <2>1, <2>2, <2>3, <2>4, <3>1 DEF SnapSound
  <2>6. pc'[w] = "p_lock"
    BY <1>B, <1>F, <2>1, FocusNext
  <2>7. ReadSound(w)' /\ BillSound(w)'
    BY <2>6, CalmSoundNext DEF Calm
  <2>8. (TokensTo(snap.base) /\ SecondsTo(wall.last))'
    <3>1. 0 + loc[w].cur = loc[w].cur /\ 0 + loc[w].cur <= loc[w].cur
      BY <1>L
    <3>2. 0 + born.clock <= clock
      BY <1>B, <1>S, Numbers DEF SnapSound
    <3> QED BY <1>R, <2>1, <2>2, <2>3, <3>1, <3>2 DEF TokensTo, SecondsTo
  <2> QED BY <1>B, <1>C, <1>F, <1>R, <1>T, <1>H, <2>1, <2>2, <2>5, <2>7, <2>8, GoalishWrap
<1> QED BY <1>1, <1>2, <1>3 DEF Mark

\* insert_thread_goal: a first goal, or the one there is.
LEMMA CreateLedger ==
    ASSUME BudgetInv, BudgetInv', LedgerInv, NEW w \in Tool, CreateInsert(w)
    PROVE  LedgerInv'
<1>B. BooksTypeOK /\ BooksTypeOK'
  BY DEF BudgetInv
<1>P. pc[w] = "n_insert" /\ UNCHANGED <<books, total, clock, holders>>
  BY DEF CreateInsert, At, world
<1>C. pc[w] \in CreateAt \cup CompleteAt /\ pc[w] \notin CompleteAt
  BY <1>P DEF CreateAt, CompleteAt, FreshAt, WallHeld
<1>F. /\ w \in Proc /\ Busy(w) /\ Focus(w) /\ pc[Main] = "run" /\ loc[w].op = "create"
      /\ snap.turn = loc[w].own /\ loc[w].own # NoTurn
  BY <1>C, GoalishPlace
<1>L. loc[w] \in Locals
  BY <1>F, LocType
<1>K. /\ snap' = snap /\ wall' = wall /\ reported' = reported /\ steers' = steers
      /\ total' = total /\ clock' = clock
  BY <1>P DEF books
<1>S. SnapSound
  BY DEF LedgerInv
<1>1. CASE goal.id = NoGoal
  <2> DEFINE r == [loc[w] EXCEPT !.exp = goal'.id]
  <2>1. PICK b \in Budget \cup {NoBudget} : PutFresh("active", b)
    BY <1>1 DEF CreateInsert
  <2>2. /\ goal'.id = made + 1 /\ goal'.used = 0 /\ goal'.time = 0
        /\ born'.tokens = total /\ born'.base = total /\ born'.clock = clock
    BY <2>1 DEF PutFresh, FreshRow
  <2>3. goal'.id # NoGoal
    BY <1>B, <2>2 DEF BooksTypeOK, NoGoal
  <2>4. GotoWith(w, "n_reset", r)
    BY <1>1 DEF CreateInsert
  <2>5. r.own = loc[w].own /\ r.op = loc[w].op /\ r.exp = goal'.id
    BY <1>L DEF Locals
  <2> HIDE DEF r
  <2>6. pc'[w] = "n_reset" /\ loc'[w] = r
    BY <1>B, <1>F, <2>4, FocusNext
  <2>7. snap.goal = NoGoal /\ wall.goal = NoGoal /\ steers = 0
    BY <1>1, <1>S DEF SnapSound
  <2>8. ReadSound(w)' /\ BillSound(w)'
    BY <1>K, <2>2, <2>3, <2>5, <2>6, <2>7 DEF ReadSound, BillSound
  <2>9. SnapSound'
    <3>1. total <= total /\ clock <= clock
      BY <1>B, Numbers
    <3> QED BY <1>S, <1>K, <2>2, <2>3, <2>7, <3>1 DEF SnapSound
  <2>10. "n_reset" \in FreshAt /\ "n_reset" \in ToolAt("create") /\ "n_reset" \notin Held
    BY DEF FreshAt, ToolAt, CreateAt, Held, ProgressHeld, WallHeld
  <2>11. steers' <= 1 /\ steers' # 1
    BY <1>K, <2>7
  <2>12. snap'.turn = snap.turn /\ UNCHANGED holders
    BY <1>K, <1>P
  <2> QED BY <1>B, <1>C, <1>F, <2>4, <2>5, <2>8, <2>9, <2>10, <2>11, <2>12, GoalishWrap
<1>2. CASE goal.id # NoGoal
  <2>1. GotoWith(w, "p_lock", loc[w]) /\ UNCHANGED <<store, books, total, clock>>
    BY <1>P, <1>2 DEF CreateInsert, Goto
  <2>2. pc'[w] = "p_lock"
    BY <1>B, <1>F, <2>1, FocusNext
  <2>3. ReadSound(w)' /\ BillSound(w)'
    BY <2>2, CalmSoundNext DEF Calm
  <2>4. PermitSound'
    BY <1>B, <1>P, <1>F, <2>1, PermitStep DEF LedgerInv, Held, ProgressHeld, WallHeld
  <2>5. "p_lock" \in ToolAt(loc[w].op)
    BY DEF ToolAt
  <2> QED BY <1>B, <1>P, <1>F, <2>1, <2>3, <2>4, <2>5, ToolStill DEF FreshAt
<1> QED BY <1>1, <1>2

\* update_goal: a goal that is complete is billed no more.
LEMMA CompleteLedger ==
    ASSUME BudgetInv, BudgetInv', LedgerInv, NEW w \in Tool,
           CompleteRead(w) \/ CompleteUpdate(w) \/ CompleteClear(w)
    PROVE  LedgerInv'
<1>B. BooksTypeOK /\ BooksTypeOK'
  BY DEF BudgetInv
<1>P. pc[w] \in {"c_read", "c_update", "c_clear"} /\ UNCHANGED <<born, total, clock, holders>>
  BY DEF CompleteRead, CompleteUpdate, CompleteClear, At, world, store
<1>C. pc[w] \in CreateAt \cup CompleteAt /\ pc[w] \notin CreateAt
  BY <1>P DEF CreateAt, CompleteAt, FreshAt, WallHeld
<1>F. /\ w \in Proc /\ Busy(w) /\ Focus(w) /\ pc[Main] = "run" /\ loc[w].op = "complete"
  BY <1>C, GoalishPlace
<1>L. loc[w] \in Locals
  BY <1>F, LocType
<1>S. SnapSound
  BY DEF LedgerInv
<1>T. {"c_read", "c_update", "c_clear"} \subseteq ToolAt("complete")
  BY DEF ToolAt, CompleteAt
<1>H. \A l \in {"c_read", "c_update", "c_clear", "idle"} :
          l \notin Held /\ l \notin FreshAt \cup {"p_mark", "w_mark", "p_noted"}
  BY DEF Held, ProgressHeld, WallHeld, FreshAt
<1>A. steers <= 1
  BY DEF LedgerInv, SteerSound
<1>1. ASSUME NEW l \in {"idle", "c_update"}, NEW r, GotoWith(w, l, r),
             l # "idle" => r.own = loc[w].own /\ r.op = loc[w].op,
             UNCHANGED <<store, books, total, clock>>
      PROVE  LedgerInv'
  <2>1. pc'[w] = l
    BY <1>B, <1>F, <1>1, FocusNext
  <2>2. ReadSound(w)' /\ BillSound(w)'
    BY <2>1, <1>H DEF ReadSound, BillSound
  <2>3. PermitSound'
    BY <1>B, <1>P, <1>F, <1>H, <1>1, PermitStep DEF LedgerInv
  <2> QED BY <1>B, <1>P, <1>F, <1>T, <1>H, <1>1, <2>2, <2>3, ToolStill
<1>2. CASE CompleteRead(w)
  <2> DEFINE r == [loc[w] EXCEPT !.exp = goal.id]
  <2>1. GotoWith(w, "c_update", r) /\ UNCHANGED <<store, books, total, clock>>
    BY <1>2 DEF CompleteRead, world
  <2>2. r.own = loc[w].own /\ r.op = loc[w].op
    BY <1>L DEF Locals
  <2> HIDE DEF r
  <2> QED BY <1>1, <2>1, <2>2
<1>3. CASE CompleteUpdate(w) /\ ~Matches(loc[w].exp)
  <2>1. GotoWith(w, "idle", NoLocals) /\ UNCHANGED <<store, books, total, clock>>
    BY <1>3 DEF CompleteUpdate, Goto, world, store
  <2> QED BY <1>1, <2>1
<1>4. CASE CompleteUpdate(w) /\ Matches(loc[w].exp)
  <2>1. /\ pc[w] = "c_update" /\ goal' = UpdatedRow("complete", goal.budget)
        /\ GotoWith(w, "c_clear", loc[w]) /\ UNCHANGED books /\ goal.id # NoGoal
    BY <1>4 DEF CompleteUpdate, At, Goto, Matches
  <2>2. /\ goal'.id = goal.id /\ goal'.used = goal.used /\ goal'.time = goal.time
        /\ goal'.status = "complete"
    BY <2>1 DEF UpdatedRow, UpdatedStatus, status_after_budget_limit
  <2>3. snap' = snap /\ wall' = wall /\ steers' = steers /\ born' = born /\ total' = total
        /\ clock' = clock
    BY <1>P, <2>1 DEF books
  <2>4. pc'[w] = "c_clear"
    BY <1>B, <1>F, <2>1, FocusNext
  <2>5. ReadSound(w)' /\ BillSound(w)'
    BY <1>H, <2>2, <2>4 DEF ReadSound, BillSound
  <2>6. SnapSound'
    BY <1>S, <2>1, <2>2, <2>3 DEF SnapSound
  <2>7. (TokensTo(snap.base) /\ SecondsTo(wall.last))'
    <3>1. TokensTo(snap.base) /\ SecondsTo(wall.last)
      BY <1>C, <1>P, <1>H, <2>1, GoalishBooks
    <3> QED BY <2>2, <2>3, <3>1 DEF TokensTo, SecondsTo
  <2>8. steers' <= 1 /\ snap'.turn = snap.turn /\ goal'.status # "active" /\ UNCHANGED holders
    BY <1>A, <1>P, <2>2, <2>3
  <2> QED BY <1>B, <1>C, <1>F, <1>T, <1>H, <2>1, <2>2, <2>5, <2>6, <2>7, <2>8, GoalishWrap
<1>5. CASE CompleteClear(w)
  <2>1. /\ pc[w] = "c_clear" /\ GotoWith(w, "idle", NoLocals) /\ goal' = goal /\ steers' = steers
        /\ wall'.last = clock /\ wall'.goal = NoGoal
    BY <1>5 DEF CompleteClear, At, Goto, WallCleared, store
  <2>2. /\ snap'.turn = snap.turn /\ snap'.base = snap.base
        /\ snap'.goal = NoGoal \/ snap'.goal = snap.goal
    BY <1>B, <1>5 DEF CompleteClear, SnapCleared, BooksTypeOK
  <2>3. goal.status = "complete"
    BY <1>F, <2>1 DEF LedgerInv, BillSound
  <2>4. pc'[w] = "idle"
    BY <1>B, <1>F, <2>1, FocusNext
  <2>5. ReadSound(w)' /\ BillSound(w)'
    BY <2>4, CalmSoundNext DEF Calm
  <2>6. wall'.last <= clock
    BY <1>B, <2>1, Numbers
  <2>7. SnapSound'
    BY <1>S, <1>P, <2>1, <2>2, <2>6 DEF SnapSound
  <2>8. goal'.id # NoGoal => (TokensTo(snap.base) /\ SecondsTo(wall.last))'
    <3> SUFFICES ASSUME goal.id # NoGoal
                 PROVE  (TokensTo(snap.base) /\ SecondsTo(wall.last))'
      BY <2>1
    <3>1. TokensTo(snap.base) /\ SecondsTo(wall.last)
      BY <1>C, <1>P, <1>H, <2>1, GoalishBooks
    <3>2. goal.time + born.clock <= clock
      BY <1>B, <1>S, <3>1, Numbers DEF SecondsTo, SnapSound
    <3> QED BY <1>P, <2>1, <2>2, <3>1, <3>2 DEF TokensTo, SecondsTo
  <2>9. steers' <= 1 /\ snap'.turn = snap.turn /\ goal'.status = "complete" /\ UNCHANGED holders
    BY <1>A, <1>P, <2>1, <2>2, <2>3
  <2> QED BY <1>B, <1>C, <1>H, <2>1, <2>5, <2>7, <2>8, <2>9, GoalishWrap
<1> QED BY <1>2, <1>3, <1>4, <1>5

\* A tool call starts in the running turn.
LEMMA ToolStartLedger ==
    ASSUME BudgetInv, LedgerInv, NEW w \in Tool, NEW op \in {"tool", "create", "complete"},
           ToolStart(w, op)
    PROVE  LedgerInv'
<1>B. BooksTypeOK /\ w \in Proc /\ w # Main /\ w # Ext /\ Main \in Proc /\ Ext \in Proc
  BY ProcParts DEF BudgetInv
<1> DEFINE l == IF op = "create" THEN "w_lock" ELSE "p_lock"
           r == [NoLocals EXCEPT !.op = op, !.own = loc[Main].own]
<1>1. /\ pc[Main] = "run" /\ pc[w] = "idle" /\ GotoWith(w, l, r)
      /\ \A v \in Tool : Busy(v) => op = "tool" /\ loc[v].op = "tool"
      /\ UNCHANGED <<store, books, total, clock>> /\ UNCHANGED holders
  BY DEF ToolStart, At
<1>2. r.op = op /\ r.own = loc[Main].own
  BY DEF NoLocals
<1>3. l \in ToolAt(op) /\ l \in {"w_lock", "p_lock"}
  BY DEF ToolAt, CreateAt
<1> HIDE DEF l, r
<1>4. pc'[w] = l /\ loc'[w] = r /\ \A q \in Proc : q # w => pc'[q] = pc[q] /\ loc'[q] = loc[q]
  BY <1>B, <1>1 DEF GotoWith, BooksTypeOK
<1>5. CallsSound'
  <2>1. pc'[Main] = "run" /\ loc'[Main] = loc[Main] /\ pc'[Ext] = pc[Ext]
    BY <1>B, <1>1, <1>4
  <2>2. ASSUME NEW v \in Tool, v # w
        PROVE  (Busy(v)' <=> Busy(v)) /\ pc'[v] = pc[v] /\ loc'[v] = loc[v]
    BY <1>4, <2>2, ProcParts DEF Busy, At
  <2>3. \A v \in Tool : Busy(v)' =>
          /\ pc'[Main] = "run" /\ loc'[v].own = loc'[Main].own
          /\ loc'[v].op \in {"tool", "create", "complete"} /\ pc'[v] \in ToolAt(loc'[v].op)
    BY <1>2, <1>3, <1>4, <2>1, <2>2 DEF LedgerInv, CallsSound
  <2>4. \A v, u \in Tool : v # u /\ Busy(v)' /\ Busy(u)' => loc'[v].op = "tool"
    BY <1>1, <1>2, <1>4, <2>2
  <2> QED BY <2>1, <2>3, <2>4 DEF LedgerInv, CallsSound, ProgressHeld
<1>6. PermitSound'
  BY <1>B, <1>1, <1>3, PermitStep DEF LedgerInv, Held, ProgressHeld, WallHeld
<1>7. ReadSound(w)' /\ BillSound(w)'
  BY <1>3, <1>4 DEF ReadSound, BillSound, FreshAt
<1>8. /\ SnapSound' /\ BooksSound' /\ SteerSound'
      /\ \A q \in Proc : q # w => ReadSound(q)' /\ BillSound(q)'
      /\ (\A q \in Proc : pc'[q] \notin FreshAt) <=> (\A q \in Proc : pc[q] \notin FreshAt)
  <2>1. pc[w] \notin {"p_mark", "w_mark", "p_noted"} \cup FreshAt
        /\ l \notin {"p_mark", "w_mark", "p_noted"} \cup FreshAt
    BY <1>1, <1>3 DEF FreshAt
  <2> QED BY <1>B, <1>1, <2>1, StillLemma
<1>9. TurnSound'
  <2>1. snap' = snap /\ goal' = goal /\ pc'[Main] = "run" /\ loc'[Main] = loc[Main]
    BY <1>B, <1>1, <1>4 DEF store, books
  <2> QED BY <1>1, <1>8, <2>1 DEF LedgerInv, TurnSound, ProgressHeld
<1> QED BY <1>B, <1>5, <1>6, <1>7, <1>8, <1>9, Wrap

\* Every step of a tool call; none is dropped, as its turn runs until it is done.
LEMMA ToolLedger ==
    ASSUME BudgetInv, BudgetInv', LedgerInv, NEW w \in Tool, ToolStep(w)
    PROVE  LedgerInv'
<1>1. ~ToolDrop(w)
  BY DEF ToolDrop, LedgerInv, CallsSound, ActiveTurn, At
<1>2. w \in Tool \cup {Main}
  OBVIOUS
<1> QED BY <1>1, ProgressLedger, WallLedger, MarkLedger, CreateLedger, CompleteLedger DEF
   ToolStep

-----------------------------------------------------------------------------
(***************************************************************************)
(* The main path and the world.                                             *)
(***************************************************************************)

\* A step of the main path that writes the snapshots, when no tool call runs.
LEMMA MainWrap ==
    ASSUME BooksTypeOK, LedgerInv, NEW l \in {"idle", "t_read", "run"}, NEW r,
           GotoWith(Main, l, r), pc[Main] \in {"idle", "t_mark", "t_clear"},
           UNCHANGED <<goal, born, reported, steers, total, clock, holders>>,
           SnapSound', TurnSound',
           goal.id # NoGoal => (TokensTo(IF l = "idle" THEN total ELSE snap.base)
                                /\ SecondsTo(wall.last))'
    PROVE  LedgerInv'
<1>1. Focus(Main) /\ Main \in Proc
  BY ProcParts, MainAlone DEF LedgerInv
<1>2. /\ \A q \in Proc : q # Main => ReadSound(q)' /\ BillSound(q)'
      /\ pc'[Main] = l
  BY <1>1, FocusNext
<1>3. CallsSound'
  BY MainControl DEF LedgerInv, MainAt, ProgressHeld
<1>4. PermitSound'
  BY <1>1, PermitStep DEF LedgerInv, Held, ProgressHeld, WallHeld
<1>5. BooksSound'
  BY <1>2 DEF BooksSound
<1>6. SteerSound'
  <2>1. ~\E q \in Proc : pc[q] = "p_noted"
    BY <1>1, FocusLemma
  <2> QED BY <2>1 DEF LedgerInv, SteerSound
<1>7. ReadSound(Main)' /\ BillSound(Main)'
  BY <1>2 DEF ReadSound, BillSound, FreshAt
<1> QED BY <1>1, <1>2, <1>3, <1>4, <1>5, <1>6, <1>7, Wrap

\* What is billed when no tool call runs.
LEMMA MainBooks ==
    ASSUME LedgerInv, pc[Main] \in {"idle", "t_mark", "t_clear"}, goal.id # NoGoal
    PROVE  TokensTo(IF pc[Main] = "idle" THEN total ELSE snap.base) /\ SecondsTo(wall.last)
<1>1. Focus(Main) /\ Main \in Proc
  BY ProcParts, MainAlone DEF LedgerInv
<1>2. Settled
  BY <1>1, FocusLemma DEF FreshAt
<1> QED BY <1>2 DEF LedgerInv, BooksSound

\* A turn starts where the last one was billed to, is bound to its goal, and ends.
LEMMA TurnLedger ==
    ASSUME BudgetInv, BudgetInv', LedgerInv, TurnStart \/ TurnMarkGoal \/ TurnClear
    PROVE  LedgerInv'
<1>B. BooksTypeOK /\ BooksTypeOK' /\ Main \in Proc
  BY ProcParts DEF BudgetInv
<1>S. SnapSound
  BY DEF LedgerInv
<1>1. CASE TurnStart
  <2> DEFINE r == [NoLocals EXCEPT !.own = turns + 1]
  <2>1. /\ pc[Main] = "idle" /\ GotoWith(Main, "t_read", r)
        /\ UNCHANGED <<goal, born, wall, reported, steers, total, clock, holders>>
        /\ snap' = [turn |-> turns + 1, base |-> total, goal |-> NoGoal]
    BY <1>1 DEF TurnStart, At, store
  <2>2. r.own = turns + 1 /\ turns + 1 # NoTurn
    BY <1>B DEF NoLocals, NoTurn, BooksTypeOK
  <2> HIDE DEF r
  <2>3. pc'[Main] = "t_read" /\ loc'[Main] = r
    BY <1>B, <2>1 DEF GotoWith, BooksTypeOK
  <2>4. total <= total
    BY <1>B, Numbers
  <2>5. SnapSound'
    BY <1>S, <2>1, <2>4 DEF SnapSound
  <2>6. TurnSound'
    BY <2>1, <2>2, <2>3 DEF TurnSound, ProgressHeld
  <2>7. goal.id # NoGoal => (TokensTo(snap.base) /\ SecondsTo(wall.last))'
    BY <2>1, MainBooks DEF TokensTo, SecondsTo
  <2> QED BY <1>B, <2>1, <2>5, <2>6, <2>7, MainWrap
<1>2. CASE TurnMarkGoal
  <2> DEFINE g == loc[Main].exp
  <2>1. /\ pc[Main] = "t_mark" /\ GotoWith(Main, "run", loc[Main])
        /\ UNCHANGED <<goal, born, reported, steers, total, clock, holders>>
        /\ wall' = IF g = NoGoal THEN WallCleared ELSE WallMark(g)
        /\ snap' = IF g # NoGoal /\ snap.turn = loc[Main].own THEN [snap EXCEPT !.goal = g]
                   ELSE snap
    BY <1>2 DEF TurnMarkGoal, At, Goto, store, world
  <2>2. /\ snap.turn = loc[Main].own /\ loc[Main].own # NoTurn /\ (g # NoGoal => g = goal.id)
        /\ goal.status = "active" => g = goal.id
    BY <2>1 DEF LedgerInv, TurnSound
  <2>3. snap'.turn = snap.turn /\ snap'.base = snap.base
        /\ snap'.goal = IF g # NoGoal THEN g ELSE snap.goal
    BY <1>B, <2>1, <2>2 DEF BooksTypeOK
  <2>4. wall'.goal = g /\ (wall'.last = clock \/ wall'.last = wall.last)
    BY <2>1 DEF WallCleared, WallMark
  <2>5. wall.last <= wall'.last /\ wall'.last <= clock
    BY <1>B, <1>S, <2>4, Numbers DEF SnapSound
  <2>6. pc'[Main] = "run" /\ loc'[Main] = loc[Main]
    BY <1>B, <2>1 DEF GotoWith, BooksTypeOK
  <2>7. SnapSound'
    BY <1>S, <2>1, <2>2, <2>4, <2>5 DEF SnapSound
  <2>8. TurnSound'
    <3>1. goal.status = "active" => goal.id # NoGoal
      BY <1>S DEF SnapSound
    <3>2. goal.status = "active" => snap'.goal = goal.id
      BY <2>2, <2>3, <3>1
    <3> QED BY <2>1, <2>2, <2>6, <3>2 DEF TurnSound
  <2>9. goal.id # NoGoal => (TokensTo(snap.base) /\ SecondsTo(wall.last))'
    <3> SUFFICES ASSUME goal.id # NoGoal PROVE (TokensTo(snap.base) /\ SecondsTo(wall.last))'
      OBVIOUS
    <3>1. TokensTo(snap.base) /\ SecondsTo(wall.last)
      BY <2>1, MainBooks
    <3>2. wall'.last \in Nat
      BY <1>B DEF BooksTypeOK
    <3>3. goal.time + born.clock <= wall'.last
      BY <1>B, <2>5, <3>1, <3>2, Numbers DEF SecondsTo
    <3> QED BY <2>1, <2>3, <3>1, <3>3 DEF TokensTo, SecondsTo
  <2> QED BY <1>B, <2>1, <2>7, <2>8, <2>9, MainWrap
<1>3. CASE TurnClear
  <2>1. pc[Main] = "t_clear" /\ loc[Main].op = "finish"
    BY <1>3 DEF TurnClear, At, LedgerInv, CallsSound
  <2>2. /\ GotoWith(Main, "idle", NoLocals)
        /\ UNCHANGED <<goal, born, wall, reported, steers, total, clock, holders>>
    BY <1>3, <2>1 DEF TurnClear, Goto, store, world
  <2>3. snap'.base = snap.base /\ (snap'.goal = NoGoal \/ snap'.goal = snap.goal)
    BY <1>B, <1>3 DEF TurnClear, BooksTypeOK
  <2>4. pc'[Main] = "idle"
    BY <1>B, <2>2 DEF GotoWith, BooksTypeOK
  <2>5. SnapSound'
    BY <1>S, <2>2, <2>3 DEF SnapSound
  <2>6. TurnSound'
    BY <2>4 DEF TurnSound, ProgressHeld
  <2>7. goal.id # NoGoal => (TokensTo(total) /\ SecondsTo(wall.last))'
    <3> SUFFICES ASSUME goal.id # NoGoal PROVE (TokensTo(total) /\ SecondsTo(wall.last))'
      OBVIOUS
    <3>1. TokensTo(snap.base) /\ SecondsTo(wall.last)
      BY <2>1, MainBooks
    <3>2. goal.status = "active" => snap.base = total
      BY <2>1 DEF LedgerInv, TurnSound
    <3>3. goal.used + born.base <= total
      BY <1>B, <1>S, <3>1, Numbers DEF TokensTo, SnapSound
    <3>4. goal.status = "active" => goal.used + born.base = total
      BY <3>1, <3>2 DEF TokensTo
    <3> QED BY <2>2, <3>1, <3>3, <3>4 DEF TokensTo, SecondsTo
  <2> QED BY <1>B, <2>1, <2>2, <2>5, <2>6, <2>7, MainWrap
<1> QED BY <1>1, <1>2, <1>3

\* The steps of the main path that write nothing.
LEMMA TurnMoveLedger ==
    ASSUME BudgetInv, LedgerInv, TurnReadGoal \/ TurnEnd("finish")
    PROVE  LedgerInv'
<1>B. BooksTypeOK /\ Main \in Proc
  BY ProcParts DEF BudgetInv
<1>L. loc[Main] \in Locals
  BY <1>B, LocType
<1>1. CASE TurnReadGoal
  <2> DEFINE e == IF goal.status \in ActiveOnly THEN goal.id ELSE NoGoal
             r == [loc[Main] EXCEPT !.exp = e]
  <2>1. /\ pc[Main] = "t_read" /\ GotoWith(Main, "t_mark", r) /\ UNCHANGED holders
        /\ UNCHANGED <<store, books, total, clock>>
    BY <1>1 DEF TurnReadGoal, At, world
  <2>2. r.own = loc[Main].own /\ r.exp = e
    BY <1>L DEF Locals
  <2>3. (e # NoGoal => e = goal.id) /\ (goal.status = "active" => e = goal.id)
    BY DEF ActiveOnly
  <2> HIDE DEF r, e
  <2>4. pc'[Main] = "t_mark" /\ loc'[Main] = r /\ snap' = snap /\ goal' = goal
    BY <1>B, <2>1 DEF GotoWith, BooksTypeOK, store, books
  <2>5. TurnSound'
    BY <2>1, <2>2, <2>3, <2>4 DEF LedgerInv, TurnSound, ProgressHeld
  <2>6. ReadSound(Main)' /\ BillSound(Main)'
    BY <2>4 DEF ReadSound, BillSound, FreshAt
  <2>7. PermitSound'
    BY <1>B, <2>1, PermitStep DEF LedgerInv, Held, ProgressHeld, WallHeld
  <2> QED BY <1>B, <2>1, <2>5, <2>6, <2>7, MainStill DEF MainAt, ProgressHeld, FreshAt
<1>2. CASE TurnEnd("finish")
  <2> DEFINE r == [loc[Main] EXCEPT !.op = "finish"]
  <2>1. /\ pc[Main] = "run" /\ GotoWith(Main, "p_lock", r) /\ UNCHANGED holders
        /\ UNCHANGED <<store, books, total, clock>> /\ \A w \in Tool : ~Busy(w)
    BY <1>2 DEF TurnEnd, At, world
  <2>2. r.own = loc[Main].own /\ r.op = "finish"
    BY <1>L DEF Locals
  <2> HIDE DEF r
  <2>3. pc'[Main] = "p_lock" /\ loc'[Main] = r /\ snap' = snap /\ goal' = goal
    BY <1>B, <2>1 DEF GotoWith, BooksTypeOK, store, books
  <2>4. \A q \in Proc : pc[q] \notin FreshAt
    <3>1. Focus(Main)
      BY <2>1, MainAlone DEF LedgerInv
    <3> QED BY <1>B, <2>1, <3>1, FocusLemma DEF FreshAt
  <2>5. TurnSound'
    BY <2>1, <2>2, <2>3, <2>4 DEF LedgerInv, TurnSound
  <2>6. ReadSound(Main)' /\ BillSound(Main)'
    BY <2>3 DEF ReadSound, BillSound, FreshAt
  <2>7. PermitSound'
    BY <1>B, <2>1, PermitStep DEF LedgerInv, Held, ProgressHeld, WallHeld
  <2> QED BY <1>B, <2>1, <2>2, <2>5, <2>6, <2>7, MainStill DEF MainAt, FreshAt
<1> QED BY <1>1, <1>2

\* Tokens and seconds pass: nothing that was read is overtaken.
LEMMA WorldLedger ==
    ASSUME BudgetInv, LedgerInv, Spend \/ Tick
    PROVE  LedgerInv'
<1>B. BooksTypeOK
  BY DEF BudgetInv
<1>1. /\ goal' = goal /\ born' = born /\ snap' = snap /\ wall' = wall /\ reported' = reported
      /\ steers' = steers /\ holders' = holders /\ pc' = pc /\ loc' = loc
  BY DEF Spend, Tick, store, books
<1>2. total \in Nat /\ clock \in Nat /\ total' \in Nat /\ clock' \in Nat
      /\ total <= total' /\ clock <= clock'
  BY <1>B, Numbers DEF Spend, Tick
<1>3. total' # total => pc[Main] = "run"
  BY DEF Spend, Tick, At
<1>4. PermitSound' /\ CallsSound' /\ SteerSound'
  BY <1>1 DEF LedgerInv, PermitSound, CallsSound, SteerSound, Busy, At
<1>5. SnapSound'
  <2>1. snap.base <= total' /\ wall.last <= clock' /\ born.base <= total' /\ born.clock <= clock'
    BY <1>B, <1>2, Numbers DEF LedgerInv, SnapSound
  <2> QED BY <1>1, <2>1 DEF LedgerInv, SnapSound
<1>6. BooksSound'
  <2>1. pc[Main] = "idle" => total' = total
    BY <1>3
  <2> QED BY <1>1, <2>1 DEF LedgerInv, BooksSound, Settled, TokensTo, SecondsTo
<1>7. TurnSound'
  <2>1. pc[Main] # "run" => total' = total
    BY <1>3
  <2> QED BY <1>1, <2>1 DEF LedgerInv, TurnSound
<1>8. ASSUME NEW p \in Proc
      PROVE  (ReadSound(p) /\ BillSound(p))'
  <2>1. ReadSound(p) /\ BillSound(p)
    BY DEF LedgerInv
  <2>2. loc[p].cur \in Nat /\ loc[p].secs \in Nat /\ wall.last \in Nat
    BY <1>B, LocType, Numbers
  <2>3. /\ loc[p].cur <= total => loc[p].cur <= total'
        /\ wall.last + loc[p].secs <= clock => wall.last + loc[p].secs <= clock'
    BY <1>2, <2>2
  <2>4. ReadSound(p)'
    BY <1>1, <2>1, <2>3 DEF ReadSound
  <2>5. BillSound(p)'
    BY <1>1, <2>1 DEF BillSound, TokensTo, SecondsTo
  <2> QED BY <2>4, <2>5
<1> QED BY <1>4, <1>5, <1>6, <1>7, <1>8 DEF LedgerInv

\* With no request and no interrupt, the main path is turns that finish.
LEMMA MainLedger ==
    ASSUME Undisturbed, BudgetInv, BudgetInv', LedgerInv, MainStep
    PROVE  LedgerInv'
<1>1. pc[Main] \in MainAt
  BY DEF LedgerInv, CallsSound, MainAt
<1>2. ~Wall(Main)
  BY <1>1 DEF Wall, WallLock, WallRead, WallReturn, WallBill, WallUnchanged, WallDone, At,
     MainAt, ProgressHeld
<1>3. ~InterruptIdle /\ ~InterruptPause /\ ~InterruptClear
  BY <1>1 DEF InterruptIdle, InterruptPause, InterruptClear, Undisturbed, At, MainAt,
     ProgressHeld
<1>4. \A op \in EndKind : TurnEnd(op) => TurnEnd("finish")
  BY DEF Undisturbed
<1>5. Main \in Tool \cup {Main}
  OBVIOUS
<1> QED BY <1>2, <1>3, <1>4, ProgressLedger, TurnLedger, TurnMoveLedger, WorldLedger DEF
   MainStep

LEMMA ExtLedger ==
    ASSUME Undisturbed, LedgerInv
    PROVE  ~ExtStep
<1>1. pc[Ext] = "idle" /\ ExtKind = {}
  BY DEF LedgerInv, CallsSound, Undisturbed
<1>2. ~Progress(Ext)
  BY <1>1 DEF Progress, ProgressLock, ProgressTotal, ProgressSnap, ProgressReturn,
     ProgressBill, ProgressUnchanged, ProgressMark, ProgressReport, ProgressSteer,
     ProgressNoted, At
<1>3. ~Wall(Ext) /\ ~Mark(Ext)
  BY <1>1 DEF Wall, WallLock, WallRead, WallReturn, WallBill, WallUnchanged, WallDone, At,
     Mark, MarkReset, MarkTotal, MarkGoal
<1> QED BY <1>1, <1>2, <1>3 DEF ExtStep, SetRead, SetReplace, SetUpdate, SetFails,
   ApplyStatus, ApplyReread, ApplyTurn, ApplyStop, ClearDelete, ResumeRead, ResumeUpdate, At

LEMMA LedgerStep ==
    ASSUME Undisturbed, BudgetInv, BudgetInv', LedgerInv, [Next]_vars
    PROVE  LedgerInv'
<1>1. CASE UNCHANGED vars
  BY <1>1 DEF vars, LedgerInv, PermitSound, CallsSound, SnapSound, BooksSound, TurnSound,
     SteerSound, ReadSound, BillSound, Settled, TokensTo, SecondsTo, Busy, At
<1>2. CASE Next
  BY <1>2, ToolStartLedger, ToolLedger, MainLedger, ExtLedger, WorldLedger DEF Next
<1> QED BY <1>1, <1>2

LEMMA LedgerInit == Init => LedgerInv
<1> SUFFICES ASSUME Init PROVE LedgerInv
  OBVIOUS
<1>1. \A p \in Proc : pc[p] = "idle"
  BY DEF Init
<1>2. \A p \in Proc : ReadSound(p) /\ BillSound(p)
  BY <1>1, CalmSound DEF Calm
<1>3. PermitSound /\ CallsSound
  BY <1>1, ProcParts DEF PermitSound, CallsSound, Held, ProgressHeld, WallHeld, Busy, At
<1>4. SnapSound
  BY DEF Init, SnapSound, NoRow
<1>5. goal.id = NoGoal /\ steers = 0
  BY DEF Init, NoRow
<1>6. BooksSound /\ SteerSound
  BY <1>5 DEF BooksSound, SteerSound
<1>7. TurnSound
  BY <1>1, ProcParts DEF TurnSound, ProgressHeld
<1> QED BY <1>2, <1>3, <1>4, <1>6, <1>7 DEF LedgerInv

-----------------------------------------------------------------------------
(***************************************************************************)
(* The theorems about a session that nothing interrupts.                    *)
(***************************************************************************)

\* The books balance in every state: under the permit the row and the baseline move
\* together, and whoever takes no permit is alone (core/src/goals.rs).
THEOREM LedgerInductive == Undisturbed => (Spec => []LedgerInv)
<1> SUFFICES ASSUME Undisturbed PROVE Spec => []LedgerInv
  OBVIOUS
<1>1. BudgetInv /\ BudgetInv' /\ LedgerInv /\ [Next]_vars => LedgerInv'
  BY LedgerStep
<1> QED BY <1>1, LedgerInit, BudgetInductive, PTL DEF Spec

LEMMA LedgerCovers ==
    ASSUME BooksTypeOK, LedgerInv
    PROVE  NoOverbilling /\ BilledInFull /\ SteerOnce
<1>N. /\ goal.used \in Nat /\ goal.time \in Nat /\ born.tokens \in Nat /\ born.base \in Nat
      /\ born.clock \in Nat /\ total \in Nat /\ clock \in Nat /\ snap.base \in Nat
      /\ wall.last \in Nat
  BY Numbers
<1>S. /\ born.tokens <= born.base /\ snap.base <= total /\ born.clock <= clock
      /\ born.base <= total /\ wall.last <= clock
  BY DEF LedgerInv, SnapSound
<1>1. ASSUME goal.id # NoGoal
      PROVE  goal.used <= total - born.tokens /\ goal.time <= clock - born.clock
  <2>1. CASE Settled
    <3>1. PICK n \in {total, snap.base} : TokensTo(n)
      BY <1>1, <2>1 DEF LedgerInv, BooksSound
    <3>2. SecondsTo(wall.last)
      BY <1>1, <2>1 DEF LedgerInv, BooksSound
    <3>3. goal.used + born.base <= total
      BY <1>N, <1>S, <3>1 DEF TokensTo
    <3>4. goal.time + born.clock <= clock
      BY <1>N, <1>S, <3>2 DEF SecondsTo
    <3> QED BY <1>N, <1>S, <3>3, <3>4
  <2>2. CASE ~Settled
    <3>1. PICK p \in Proc : pc[p] \in {"p_mark", "w_mark"} \cup FreshAt
      BY <2>2 DEF Settled
    <3>2. ReadSound(p) /\ BillSound(p) /\ loc[p].cur \in Nat /\ loc[p].secs \in Nat
      BY <3>1 DEF LedgerInv, BooksTypeOK, Locals
    <3>3. CASE pc[p] \in FreshAt
      <4>1. goal.used = 0 /\ goal.time = 0
        BY <3>2, <3>3 DEF ReadSound
      <4> QED BY <1>N, <1>S, <4>1
    <3>4. CASE pc[p] = "p_mark"
      <4>1. /\ loc[p].cur <= total /\ wall.last + loc[p].secs <= clock
            /\ goal.used + born.base <= loc[p].cur
            /\ goal.time + born.clock <= wall.last + loc[p].secs
        BY <3>2, <3>4 DEF ReadSound, BillSound, TokensTo, SecondsTo
      <4> QED BY <1>N, <1>S, <3>2, <4>1
    <3>5. CASE pc[p] = "w_mark"
      <4>1. /\ wall.last + loc[p].secs <= clock /\ goal.used + born.base <= snap.base
            /\ goal.time + born.clock <= wall.last + loc[p].secs
        BY <3>2, <3>5 DEF ReadSound, BillSound, TokensTo, SecondsTo
      <4> QED BY <1>N, <1>S, <3>2, <4>1
    <3> QED BY <3>1, <3>3, <3>4, <3>5
  <2> QED BY <2>1, <2>2
<1>2. ASSUME goal.status = "active", \A p \in Proc : At(p, "idle")
      PROVE  goal.used = total - born.base
  <2>1. goal.id # NoGoal
    BY <1>2 DEF LedgerInv, SnapSound
  <2>2. Settled /\ pc[Main] = "idle"
    BY <1>2, ProcParts DEF Settled, FreshAt, At
  <2>3. goal.used + born.base = total
    BY <1>2, <2>1, <2>2 DEF LedgerInv, BooksSound, TokensTo
  <2> QED BY <1>N, <2>3
<1> QED BY <1>1, <1>2 DEF NoOverbilling, BilledInFull, SteerOnce, LedgerInv, SteerSound

\* However many tool calls finish together, a goal is never billed more tokens or seconds
\* than the session spent since it exists (account_thread_goal_progress).
THEOREM NeverOverbilled == Undisturbed => (Spec => []NoOverbilling)
<1>1. BudgetInv /\ LedgerInv => NoOverbilling
  BY LedgerCovers DEF BudgetInv
<1> QED BY <1>1, LedgerInductive, BudgetInductive, PTL

\* Between turns an active goal has been billed every token since its baseline was set.
THEOREM AlwaysBilledInFull == Undisturbed => (Spec => []BilledInFull)
<1>1. BudgetInv /\ LedgerInv => BilledInFull
  BY LedgerCovers DEF BudgetInv
<1> QED BY <1>1, LedgerInductive, BudgetInductive, PTL

\* The notice that the budget is used up is sent once, whichever calls find out.
THEOREM SteeredOnce == Undisturbed => (Spec => []SteerOnce)
<1>1. BudgetInv /\ LedgerInv => SteerOnce
  BY LedgerCovers DEF BudgetInv
<1> QED BY <1>1, LedgerInductive, BudgetInductive, PTL
=============================================================================
