------------------------------ MODULE MemoryJobs ------------------------------
(***************************************************************************)
(* The memory pipeline: every start of a root session runs phase 1, which  *)
(* extracts a memory from each thread that changed, and then phase 2,      *)
(* which consolidates the memories.  Several processes do so at a time;    *)
(* they meet only in the rows of the state database.                       *)
(*                                                                         *)
(* Source: state/src/runtime/memories.rs, core/src/memories/{start,phase1, *)
(* phase2}.rs.  One action is one transaction, or one statement outside    *)
(* a transaction.                                                          *)
(*                                                                         *)
(* Time: a lease lapses and a retry delay passes at some moment.  A worker *)
(* stands for the pipelines of one process, one after the other; its name  *)
(* is the ownership token, which it uses only while it holds a claim.      *)
(***************************************************************************)
EXTENDS Integers, FiniteSets

CONSTANTS
    Thread, Worker, None,
    MaxRunning,     \* max_rollouts_per_startup: stage-1 jobs at a time
    Retries,        \* DEFAULT_RETRY_REMAINING, of a stage-1 job
    GlobalRetries,  \* DEFAULT_RETRY_REMAINING, of the global job
    First,          \* updated_at of each thread at the start
    MaxUpdate,      \* bound on a thread's updated_at
    MaxChange,      \* bound on the changes made to threads and to all data
    MaxFault        \* bound on the crashes, and the leases that lapse
                    \*   under a live worker

ASSUME MemoryAssumption ==
    /\ None \notin Worker
    /\ MaxRunning \in Nat \ {0} /\ Retries \in Nat \ {0} /\ GlobalRetries \in Nat \ {0}
    /\ MaxUpdate \in Nat /\ First \in [Thread -> 1..MaxUpdate]

VARIABLES
    updated,    \* threads.updated_at
    polluted,   \* threads whose memory_mode is 'polluted'
    out,        \* source_updated_at of each thread's output; 0: no row
    flag,       \* selected_for_phase2_source_updated_at; 0: not selected
    job,        \* the stage-1 job of each thread
    glob,       \* the global phase-2 job
    pc,         \* worker: "idle", "scan", "phase1", "select", "agent"
    todo,       \* worker: scanned threads, with the updated_at that was read
    held,       \* worker: claimed threads, with the same
    mark,       \* worker: the claimed watermark, then the completion one
    picked,     \* worker: the selection, thread -> source_updated_at
    changes,    \* counted against MaxChange
    faults,     \* counted against MaxFault
    base,       \* history: the selection of the last success
    dirt,       \* history: threads whose memory changed since that
                \*   selection was read
    missed      \* history, per worker: ... since its own selection

rows == <<updated, polluted, out, flag, job, glob>>
work == <<pc, todo, held, mark, picked>>
bounds == <<changes, faults>>
history == <<base, dirt, missed>>
vars == <<rows, work, bounds, history>>

Nothing == [t \in Thread |-> 0]
NoJob == [status |-> "none", token |-> None, leased |-> FALSE, backoff |-> FALSE,
          retries |-> 0, input |-> 0, success |-> 0]

Init ==
    /\ updated = First /\ polluted = {}
    /\ out = Nothing /\ flag = Nothing
    /\ job = [t \in Thread |-> NoJob] /\ glob = NoJob
    /\ pc = [w \in Worker |-> "idle"]
    /\ todo = [w \in Worker |-> Nothing] /\ held = [w \in Worker |-> Nothing]
    /\ mark = [w \in Worker |-> 0] /\ picked = [w \in Worker |-> Nothing]
    /\ changes = 0 /\ faults = 0
    /\ base = Nothing /\ dirt = {} /\ missed = [w \in Worker |-> {}]

-----------------------------------------------------------------------------
Larger(a, b) == IF a >= b THEN a ELSE b
Running(j) == j.status = "running" /\ j.leased
Owns(j, w) == j.status = "running" /\ j.token = w

(* enqueue_global_consolidation: every call moves the watermark up.        *)
(* (Mutant: only to the source's timestamp.)                               *)
AdvancedToSource(input, n) == Larger(n, input)
Advanced(input, n) == IF n > input THEN n ELSE input + 1

Enqueued(n) ==
    IF glob.status = "none"
      THEN [NoJob EXCEPT !.status = "pending", !.retries = GlobalRetries, !.input = n]
      ELSE [glob EXCEPT !.status = IF @ = "running" THEN @ ELSE "pending",
                        !.backoff = glob.status = "running" /\ @,
                        !.retries = Larger(@, GlobalRetries),
                        !.input = Advanced(@, n)]

(* History of a change that phase 2 must see.                              *)
Changed(t) ==
    /\ dirt' = dirt \cup {t}
    /\ missed' = [w \in Worker |-> IF pc[w] = "agent" THEN missed[w] \cup {t} ELSE {}]
    /\ UNCHANGED base

-----------------------------------------------------------------------------
Change == changes < MaxChange /\ changes' = changes + 1
Fault == faults < MaxFault /\ faults' = faults + 1

(* touch_thread_updated_at, as a thread is worked on: the timestamp grows. *)
Touch(t) ==
    /\ updated[t] < MaxUpdate /\ Change
    /\ updated' = [updated EXCEPT ![t] = @ + 1]
    /\ UNCHANGED <<polluted, out, flag, job, glob, work, faults, history>>

(* mark_thread_memory_mode_polluted.                                       *)
Pollute(t) ==
    /\ t \notin polluted /\ Change
    /\ polluted' = polluted \cup {t}
    /\ IF flag[t] # 0
         THEN glob' = Enqueued(MaxUpdate) /\ Changed(t)
         ELSE UNCHANGED <<glob, history>>
    /\ UNCHANGED <<updated, out, flag, job, work, faults>>

(* clear_memory_data: a reset of the memories.                             *)
ClearData ==
    /\ Change
    /\ out' = Nothing /\ flag' = Nothing
    /\ job' = [t \in Thread |-> NoJob] /\ glob' = NoJob
    /\ base' = Nothing /\ dirt' = {} /\ UNCHANGED missed
    /\ UNCHANGED <<updated, polluted, work, faults>>

-----------------------------------------------------------------------------
(* phase1::prune removes outputs that are unused for long and are not in   *)
(* the baseline, as many as its limit allows: any of them here.  (When the *)
(* statement fails, none: the code only warns.)                            *)
Prune(w, old) ==
    /\ pc[w] = "idle"
    /\ old \subseteq {t \in Thread : out[t] # 0 /\ flag[t] = 0}
    /\ out' = [t \in Thread |-> IF t \in old THEN 0 ELSE out[t]]
    /\ pc' = [pc EXCEPT ![w] = "scan"]
    /\ UNCHANGED <<updated, polluted, flag, job, glob, todo, held, mark, picked, bounds, history>>

(* claim_stage1_jobs_for_startup lists the threads whose memory is stale.  *)
(* Its limit, its age and idle windows and the current thread, which it    *)
(* skips, are left out: they only take threads off the list.               *)
Stale(t) ==
    t \notin polluted /\ out[t] < updated[t] /\ job[t].success < updated[t]

Scan(w) ==
    /\ pc[w] = "scan"
    /\ todo' = [todo EXCEPT ![w] = [t \in Thread |-> IF Stale(t) THEN updated[t] ELSE 0]]
    /\ pc' = [pc EXCEPT ![w] = "phase1"]
    /\ UNCHANGED <<rows, held, mark, picked, bounds, history>>

(* try_claim_stage1_job at the updated_at the scan read.                   *)
BelowLimit == Cardinality({t \in Thread : Running(job[t])}) < MaxRunning

(* Mutant: retries may be used up.                                         *)
ClaimableAgain(t, src) ==
    /\ out[t] < src /\ job[t].success < src
    /\ BelowLimit /\ ~Running(job[t])
    /\ ~job[t].backoff \/ src > job[t].input

Claimable(t, src) ==
    /\ out[t] < src /\ job[t].success < src
    /\ BelowLimit
    /\ \/ job[t].status = "none"
       \/ /\ ~Running(job[t])
          /\ ~job[t].backoff \/ src > job[t].input
          /\ job[t].retries > 0 \/ src > job[t].input

Claims(w) == Cardinality({t \in Thread : held[w][t] # 0})

TryClaim(w, t) ==
    /\ pc[w] = "phase1" /\ todo[w][t] # 0
    /\ LET src == todo[w][t]
       IN  IF Claimable(t, src)
             THEN /\ held' = [held EXCEPT ![w][t] = src]
                  /\ todo' = [todo EXCEPT ![w] =
                                IF Claims(w) + 1 = MaxRunning THEN Nothing ELSE [@ EXCEPT ![t] = 0]]
                  /\ job' = [job EXCEPT ![t] = [status |-> "running", token |-> w,
                                leased |-> TRUE, backoff |-> FALSE,
                                retries |-> IF src > @.input THEN Retries ELSE @.retries,
                                input |-> src, success |-> @.success]]
             ELSE /\ todo' = [todo EXCEPT ![w][t] = 0]
                  /\ UNCHANGED <<held, job>>
    /\ UNCHANGED <<updated, polluted, out, flag, glob, pc, mark, picked, bounds, history>>

(* run_jobs, once the claims are made.  A finished job keeps its token in  *)
(* the row, where nothing looks at it before the next claim.               *)
Extracting(w, t) == pc[w] = "phase1" /\ todo[w] = Nothing /\ held[w][t] # 0
Done(j) == [j EXCEPT !.status = "done", !.token = None, !.leased = FALSE,
                     !.success = j.input]
Failed(j) == [j EXCEPT !.status = "error", !.token = None, !.leased = FALSE,
                       !.backoff = TRUE, !.retries = @ - 1]

(* mark_stage1_job_succeeded, ..._no_output and ..._failed.                *)
Extracted(w, t) ==
    /\ Extracting(w, t)
    /\ held' = [held EXCEPT ![w][t] = 0]
    /\ IF Owns(job[t], w)
         THEN /\ job' = [job EXCEPT ![t] = Done(@)]
              /\ out' = [out EXCEPT ![t] = Larger(@, held[w][t])]
              /\ glob' = Enqueued(held[w][t])
              /\ Changed(t)
         ELSE UNCHANGED <<job, out, glob, history>>
    /\ UNCHANGED <<updated, polluted, flag, pc, todo, mark, picked, bounds>>

ExtractedNothing(w, t) ==
    /\ Extracting(w, t)
    /\ held' = [held EXCEPT ![w][t] = 0]
    /\ job' = IF Owns(job[t], w) THEN [job EXCEPT ![t] = Done(@)] ELSE job
    /\ IF Owns(job[t], w) /\ out[t] # 0
         THEN /\ out' = [out EXCEPT ![t] = 0]
              /\ flag' = [flag EXCEPT ![t] = 0]
              /\ glob' = Enqueued(job[t].input)
              /\ Changed(t)
         ELSE UNCHANGED <<out, flag, glob, history>>
    /\ UNCHANGED <<updated, polluted, pc, todo, mark, picked, bounds>>

ExtractFailed(w, t) ==
    /\ Extracting(w, t)
    /\ held' = [held EXCEPT ![w][t] = 0]
    /\ job' = IF Owns(job[t], w) THEN [job EXCEPT ![t] = Failed(@)] ELSE job
    /\ UNCHANGED <<updated, polluted, out, flag, glob, pc, todo, mark, picked, bounds, history>>

-----------------------------------------------------------------------------
(* Phase 2, once every claimed job is finished: try_claim_global_phase2_job*)
(* takes a job whose owner let the lease lapse.  (Mutant: it does not.)    *)
Dirty == glob.input > glob.success
TakeableIfStopped == glob.status # "running"
Takeable == ~Running(glob)

ClaimGlobal(w) ==
    /\ pc[w] = "phase1" /\ todo[w] = Nothing /\ held[w] = Nothing
    /\ IF Dirty /\ glob.retries > 0 /\ ~glob.backoff /\ Takeable
         THEN /\ glob' = [glob EXCEPT !.status = "running", !.token = w, !.leased = TRUE]
              /\ mark' = [mark EXCEPT ![w] = glob.input]
              /\ pc' = [pc EXCEPT ![w] = "select"]
         ELSE /\ pc' = [pc EXCEPT ![w] = "idle"]
              /\ UNCHANGED <<glob, mark>>
    /\ UNCHANGED <<updated, polluted, out, flag, job, todo, held, picked, bounds, history>>

(* get_phase2_input_selection and get_watermark.  The query also skips     *)
(* outputs that are empty or outside the window of max_unused_days, and    *)
(* keeps the n most used of the rest (LIMIT n).  That is left out: what is *)
(* in the selection stands for what the query saw, kept or not.            *)
Selection == [t \in Thread |-> IF t \in polluted THEN 0 ELSE out[t]]
NewestIn(sel, least) ==
    CHOOSE n \in {least} \cup {sel[t] : t \in Thread} :
        n >= least /\ \A t \in Thread : n >= sel[t]

Select(w) ==
    /\ pc[w] = "select"
    /\ picked' = [picked EXCEPT ![w] = Selection]
    /\ mark' = [mark EXCEPT ![w] = NewestIn(Selection, mark[w])]
    /\ missed' = [missed EXCEPT ![w] = {}]
    /\ pc' = [pc EXCEPT ![w] = "agent"]
    /\ UNCHANGED <<rows, todo, held, bounds, base, dirt>>

(* The agent is done, or there was nothing for it to do:                   *)
(* mark_global_phase2_job_succeeded flags the rows that are still as they  *)
(* were selected.  (Mutant: a flag is only ever added.)                    *)
FlaggedToo(w, t) == IF picked[w][t] = out[t] THEN picked[w][t] ELSE flag[t]
Flagged(w, t) == IF picked[w][t] = out[t] THEN picked[w][t] ELSE 0

Forget(w) ==
    /\ missed' = [missed EXCEPT ![w] = {}]
    /\ mark' = [mark EXCEPT ![w] = 0] /\ picked' = [picked EXCEPT ![w] = Nothing]
    /\ pc' = [pc EXCEPT ![w] = "idle"]
    /\ UNCHANGED <<todo, held>>

Consolidated(w) ==
    /\ pc[w] = "agent"
    /\ IF Owns(glob, w)
         THEN /\ glob' = [glob EXCEPT !.status = "done", !.token = None, !.leased = FALSE,
                                      !.success = Larger(@, mark[w])]
              /\ flag' = [t \in Thread |-> Flagged(w, t)]
              /\ base' = picked[w] /\ dirt' = missed[w]
         ELSE UNCHANGED <<glob, flag, base, dirt>>
    /\ Forget(w)
    /\ UNCHANGED <<updated, polluted, out, job, bounds>>

(* Any step after the claim fails, or the agent does:                      *)
(* mark_global_phase2_job_failed and ..._if_unowned.                       *)
ConsolidationFailed(w) ==
    /\ pc[w] \in {"select", "agent"}
    /\ glob' = IF Owns(glob, w) THEN Failed(glob) ELSE glob
    /\ Forget(w)
    /\ UNCHANGED <<updated, polluted, out, flag, job, bounds, base, dirt>>

(* heartbeat_global_phase2_job: the lease is extended, or the worker finds *)
(* that the job is no longer its own and gives up.                         *)
Heartbeat(w) ==
    /\ pc[w] = "agent" /\ Owns(glob, w) /\ ~glob.leased
    /\ glob' = [glob EXCEPT !.leased = TRUE]
    /\ UNCHANGED <<updated, polluted, out, flag, job, work, bounds, history>>

GiveUp(w) ==
    /\ pc[w] = "agent" /\ ~Owns(glob, w)
    /\ Forget(w)
    /\ UNCHANGED <<rows, bounds, base, dirt>>

-----------------------------------------------------------------------------
(* The process of a worker ends at any point.                              *)
Crash(w) ==
    /\ pc[w] # "idle" /\ Fault
    /\ pc' = [pc EXCEPT ![w] = "idle"]
    /\ todo' = [todo EXCEPT ![w] = Nothing] /\ held' = [held EXCEPT ![w] = Nothing]
    /\ mark' = [mark EXCEPT ![w] = 0] /\ picked' = [picked EXCEPT ![w] = Nothing]
    /\ missed' = [missed EXCEPT ![w] = {}]
    /\ UNCHANGED <<rows, changes, base, dirt>>

(* A lease lapses: of a worker that is gone, or of one that took too long. *)
Alive(t) == \E w \in Worker : job[t].token = w /\ held[w][t] # 0
GlobalAlive == \E w \in Worker : glob.token = w /\ pc[w] \in {"select", "agent"}

Lapse(t) ==
    /\ Running(job[t])
    /\ IF Alive(t) THEN Fault ELSE UNCHANGED faults
    /\ job' = [job EXCEPT ![t].leased = FALSE]
    /\ UNCHANGED <<updated, polluted, out, flag, glob, work, changes, history>>

GlobalLapse ==
    /\ Running(glob)
    /\ IF GlobalAlive THEN Fault ELSE UNCHANGED faults
    /\ glob' = [glob EXCEPT !.leased = FALSE]
    /\ UNCHANGED <<updated, polluted, out, flag, job, work, changes, history>>

(* retry_at passes.                                                        *)
BackoffOver(t) ==
    /\ job[t].backoff
    /\ job' = [job EXCEPT ![t].backoff = FALSE]
    /\ UNCHANGED <<updated, polluted, out, flag, glob, work, bounds, history>>

GlobalBackoffOver ==
    /\ glob.backoff
    /\ glob' = [glob EXCEPT !.backoff = FALSE]
    /\ UNCHANGED <<updated, polluted, out, flag, job, work, bounds, history>>

-----------------------------------------------------------------------------
Startup(w) == \E old \in SUBSET Thread : Prune(w, old)
Extract(w, t) == Extracted(w, t) \/ ExtractedNothing(w, t) \/ ExtractFailed(w, t)
Steps(w) ==
    \/ Scan(w) \/ ClaimGlobal(w) \/ Select(w)
    \/ Consolidated(w) \/ ConsolidationFailed(w) \/ GiveUp(w)
    \/ \E t \in Thread : TryClaim(w, t) \/ Extract(w, t)

Next ==
    \/ \E t \in Thread : Touch(t) \/ Pollute(t) \/ Lapse(t) \/ BackoffOver(t)
    \/ \E w \in Worker : Startup(w) \/ Steps(w) \/ Heartbeat(w) \/ Crash(w)
    \/ ClearData \/ GlobalLapse \/ GlobalBackoffOver

Spec == Init /\ [][Next]_vars

(* Sessions keep being started; a pipeline that started goes on to its     *)
(* end; delays pass, and so do the leases of workers that are gone.        *)
FairSpec ==
    /\ Spec
    /\ \A w \in Worker : WF_vars(Startup(w)) /\ WF_vars(Steps(w))
    /\ \A t \in Thread : WF_vars(~Alive(t) /\ Lapse(t)) /\ WF_vars(BackoffOver(t))
    /\ WF_vars(~GlobalAlive /\ GlobalLapse) /\ WF_vars(GlobalBackoffOver)

-----------------------------------------------------------------------------
Statuses == {"none", "pending", "running", "error", "done"}
JobType(n) == [status : Statuses, token : Worker \cup {None}, leased : BOOLEAN,
               backoff : BOOLEAN, retries : 0..n, input : Nat, success : Nat]

(* Type invariant.                                                         *)
MemoryTypeOK ==
    /\ updated \in [Thread -> 1..MaxUpdate] /\ polluted \subseteq Thread
    /\ out \in [Thread -> 0..MaxUpdate] /\ flag \in [Thread -> 0..MaxUpdate]
    /\ job \in [Thread -> JobType(Retries)] /\ glob \in JobType(GlobalRetries)
    /\ pc \in [Worker -> {"idle", "scan", "phase1", "select", "agent"}]
    /\ todo \in [Worker -> [Thread -> 0..MaxUpdate]]
    /\ held \in [Worker -> [Thread -> 0..MaxUpdate]]
    /\ picked \in [Worker -> [Thread -> 0..MaxUpdate]] /\ mark \in [Worker -> Nat]

(* No memory is forgotten by phase 2: while the global job is not dirty,   *)
(* every change of an output is in the selection of the last success,      *)
(* though changes arrive while a consolidation runs and their timestamps   *)
(* do not grow (enqueue_global_consolidation, get_watermark).              *)
NoLostMemory == ~Dirty => dirt = {}

(* The flags tell the truth about the baseline: a row that is flagged was  *)
(* selected by the last success, with the very timestamp that the flag     *)
(* keeps, though it is rewritten, pruned and deleted meanwhile and workers *)
(* that lost the job still finish (mark_global_phase2_job_succeeded).      *)
BaselineTrue == \A t \in Thread : flag[t] # 0 => flag[t] = base[t]

(* Once a change is recorded, phase 2 catches up with it or gives up after *)
(* its retries, over crashes, lapsed leases and concurrent pipelines.      *)
CatchesUp == Dirty ~> ~Dirty \/ glob.retries = 0
=============================================================================
