--------------------------- MODULE MemoryJobsProofs ---------------------------
(***************************************************************************)
(* Proofs about MemoryJobs, for any number of threads, workers, retries,   *)
(* changes and faults: no change of a memory is forgotten by phase 2, and  *)
(* the flags of the rows tell the truth about its baseline.                *)
(***************************************************************************)
EXTENDS MemoryJobs, NumberLemmas

(* The variables MemoryTypeOK leaves out.                                  *)
HistoryType ==
    /\ base \in [Thread -> 0..MaxUpdate]
    /\ dirt \subseteq Thread /\ missed \in [Worker -> SUBSET Thread]

(* A job runs on a retry that it still has, and on an input.               *)
Funded ==
    /\ \A t \in Thread :
          /\ job[t].status = "running" => job[t].retries > 0 /\ job[t].input > 0
          /\ job[t].status = "none" => job[t].input = 0
    /\ glob.status = "running" => glob.retries > 0

(* The watermark of the global job covers every output and every success.  *)
Covered ==
    /\ glob.status = "none" => glob.input = 0 /\ glob.success = 0
    /\ glob.success <= glob.input
    /\ \A t \in Thread : out[t] <= glob.input

(* The worker that owns the global job will not mark more than was there   *)
(* when it read its selection: if anything changed since, the watermark    *)
(* has moved on.                                                           *)
OwnerBehind ==
    \A w \in Worker : Owns(glob, w) /\ pc[w] \in {"select", "agent"} =>
        /\ mark[w] <= glob.input
        /\ pc[w] = "agent" /\ missed[w] # {}
             => mark[w] < glob.input /\ glob.success < glob.input

MemoryInv ==
    /\ MemoryTypeOK /\ HistoryType
    /\ Funded /\ Covered /\ OwnerBehind /\ NoLostMemory /\ BaselineTrue

-----------------------------------------------------------------------------
(* get_watermark returns the greatest of its arguments.                    *)
LEMMA NewestLemma ==
    ASSUME NEW sel \in [Thread -> 0..MaxUpdate], NEW least \in Nat
    PROVE  /\ NewestIn(sel, least) \in Nat
           /\ NewestIn(sel, least) = least \/ \E t \in Thread : NewestIn(sel, least) = sel[t]
<1> DEFINE S == {least} \cup {sel[t] : t \in Thread}
           b == IF least > MaxUpdate THEN least ELSE MaxUpdate
<1>1. S \in SUBSET Nat /\ S # {} /\ b \in Nat /\ \A x \in S : x <= b
  BY MemoryAssumption
<1> HIDE DEF b
<1>2. PICK n \in S : \A y \in S : n >= y
  BY <1>1, Greatest
<1>3. n >= least /\ \A t \in Thread : n >= sel[t]
  BY <1>2
<1>4. NewestIn(sel, least) \in S
  BY <1>2, <1>3 DEF NewestIn
<1> QED BY <1>1, <1>4

-----------------------------------------------------------------------------
(* What the updates of a row return.                                       *)
LEMMA DoneLemma ==
    ASSUME NEW n \in Nat, NEW j \in JobType(n)
    PROVE  Done(j) \in JobType(n) /\ Done(j).status = "done"
BY DEF Done, JobType, Statuses

LEMMA FailedLemma ==
    ASSUME NEW n \in Nat, NEW j \in JobType(n), j.retries > 0
    PROVE  /\ Failed(j) \in JobType(n) /\ Failed(j).status = "error"
           /\ Failed(j).input = j.input /\ Failed(j).success = j.success
<1>1. j.retries - 1 \in 0..n
  BY DEF JobType
<1> QED BY <1>1 DEF Failed, JobType, Statuses

LEMMA UpdatedLemma ==
    ASSUME NEW n \in Nat, NEW j \in JobType(n), NEW st \in Statuses, NEW b \in BOOLEAN,
           NEW r \in 0..n, NEW i \in Nat
    PROVE  [j EXCEPT !.status = st, !.backoff = b, !.retries = r, !.input = i] \in JobType(n)
BY DEF JobType

(* enqueue_global_consolidation raises the watermark to n at least, and    *)
(* leaves the owner and the last success as they are.                      *)
LEMMA EnqueuedLemma ==
    ASSUME glob \in JobType(GlobalRetries), NEW n \in Nat \ {0},
           glob.status = "none" => glob.input = 0 /\ glob.success = 0
    PROVE  /\ Enqueued(n) \in JobType(GlobalRetries)
           /\ Enqueued(n).status # "none"
           /\ Enqueued(n).status = "running" <=> glob.status = "running"
           /\ Enqueued(n).status = "running" => Enqueued(n).token = glob.token
           /\ Enqueued(n).retries = GlobalRetries
           /\ Enqueued(n).input >= n /\ Enqueued(n).input > glob.input
           /\ Enqueued(n).success = glob.success
<1>1. GlobalRetries \in Nat /\ GlobalRetries > 0
  BY MemoryAssumption
<1>2. CASE glob.status = "none"
  <2>1. Enqueued(n) = [status |-> "pending", token |-> None, leased |-> FALSE, backoff |-> FALSE,
                       retries |-> GlobalRetries, input |-> n, success |-> 0]
    BY <1>2 DEF Enqueued, NoJob
  <2>2. Enqueued(n) \in JobType(GlobalRetries)
    BY <1>1, <2>1 DEF JobType, Statuses
  <2> QED BY <1>1, <1>2, <2>1, <2>2
<1>3. CASE glob.status # "none"
  <2> DEFINE st == IF glob.status = "running" THEN glob.status ELSE "pending"
             b == glob.status = "running" /\ glob.backoff
             g == [glob EXCEPT !.status = st, !.backoff = b,
                               !.retries = Larger(glob.retries, GlobalRetries),
                               !.input = Advanced(glob.input, n)]
  <2>1. Enqueued(n) = g
    BY <1>3 DEF Enqueued
  <2>2. Larger(glob.retries, GlobalRetries) = GlobalRetries
    BY <1>1 DEF Larger, JobType
  <2>3. Advanced(glob.input, n) \in Nat /\ Advanced(glob.input, n) >= n
          /\ Advanced(glob.input, n) > glob.input
    BY DEF Advanced, JobType
  <2>4. g.status = (IF glob.status = "running" THEN "running" ELSE "pending")
          /\ g.token = glob.token /\ g.retries = GlobalRetries
          /\ g.input = Advanced(glob.input, n) /\ g.success = glob.success
    BY <2>2
  <2>5. g \in JobType(GlobalRetries)
    <3>1. st \in Statuses /\ b \in BOOLEAN
      BY DEF Statuses
    <3>2. GlobalRetries \in 0..GlobalRetries
      BY <1>1
    <3> HIDE DEF st, b
    <3> QED BY <1>1, <2>2, <2>3, <3>1, <3>2, UpdatedLemma
  <2> HIDE DEF g
  <2> QED BY <2>1, <2>3, <2>4, <2>5
<1> QED BY <1>2, <1>3

(* A change that is enqueued is not lost: the watermark passes the mark of *)
(* the owner as the change is added to what the owner missed.              *)
LEMMA EnqueueStep ==
    ASSUME MemoryInv, NEW n \in Nat \ {0}, NEW t \in Thread,
           glob' = Enqueued(n), Changed(t), UNCHANGED <<pc, mark>>,
           out' \in [Thread -> 0..MaxUpdate], \A q \in Thread : out'[q] <= out[q] \/ out'[q] <= n
    PROVE  /\ glob' \in JobType(GlobalRetries) /\ HistoryType'
           /\ glob'.status = "running" => glob'.retries > 0
           /\ Covered' /\ OwnerBehind' /\ NoLostMemory'
<1>1. /\ glob \in JobType(GlobalRetries) /\ glob.input \in Nat /\ glob.success \in Nat
      /\ glob' \in JobType(GlobalRetries) /\ glob'.input \in Nat
      /\ mark \in [Worker -> Nat] /\ out \in [Thread -> 0..MaxUpdate] /\ MaxUpdate \in Nat
      /\ GlobalRetries > 0
  BY EnqueuedLemma, MemoryAssumption DEF MemoryInv, MemoryTypeOK, Covered, JobType
<1>2. /\ glob'.status # "none"
      /\ glob'.status = "running" <=> glob.status = "running"
      /\ glob'.status = "running" => glob'.token = glob.token
      /\ glob'.retries = GlobalRetries
      /\ glob'.input >= n /\ glob'.input > glob.input
      /\ glob'.success = glob.success
  BY <1>1, EnqueuedLemma DEF MemoryInv, Covered
<1>3. glob.success <= glob.input /\ \A q \in Thread : out[q] <= glob.input
  BY DEF MemoryInv, Covered
<1>4. HistoryType'
  BY DEF MemoryInv, HistoryType, Changed
<1>5. Covered'
  BY <1>1, <1>2, <1>3 DEF Covered
<1>6. OwnerBehind'
  <2> SUFFICES ASSUME NEW w \in Worker, Owns(glob, w)', pc[w] \in {"select", "agent"}
               PROVE  mark[w] < glob'.input /\ glob'.success < glob'.input
    BY <1>1 DEF OwnerBehind
  <2>1. Owns(glob, w)
    BY <1>2 DEF Owns
  <2>2. mark[w] <= glob.input
    BY <2>1 DEF MemoryInv, OwnerBehind
  <2> QED BY <1>1, <1>2, <1>3, <2>2
<1>7. NoLostMemory'
  BY <1>1, <1>2, <1>3 DEF NoLostMemory, Dirty
<1> QED BY <1>1, <1>2, <1>4, <1>5, <1>6, <1>7

(* Nothing changes for the owner of the global job when the row keeps its  *)
(* watermarks and nobody becomes its owner.                                *)
LEMMA QuietStep ==
    ASSUME MemoryInv, UNCHANGED <<out, mark, dirt>>,
           glob'.input = glob.input, glob'.success = glob.success,
           glob'.status = "none" => glob.status = "none",
           \A w \in Worker : Owns(glob, w)' /\ pc'[w] \in {"select", "agent"}
               => Owns(glob, w) /\ pc'[w] = pc[w] /\ missed'[w] = missed[w]
    PROVE  Covered' /\ OwnerBehind' /\ NoLostMemory'
<1>1. Covered' /\ NoLostMemory'
  BY DEF MemoryInv, Covered, NoLostMemory, Dirty
<1>2. OwnerBehind'
  BY DEF MemoryInv, OwnerBehind
<1> QED BY <1>1, <1>2

(* A step of phase 1 that leaves the outputs and the global job alone.     *)
JobFunded(j) ==
    /\ j.status = "running" => j.retries > 0 /\ j.input > 0
    /\ j.status = "none" => j.input = 0

LEMMA ClaimStep ==
    ASSUME MemoryInv, UNCHANGED <<updated, polluted, out, flag, glob, pc, mark, picked, history>>,
           job' \in [Thread -> JobType(Retries)], \A q \in Thread : JobFunded(job'[q]),
           todo' \in [Worker -> [Thread -> 0..MaxUpdate]],
           held' \in [Worker -> [Thread -> 0..MaxUpdate]]
    PROVE  MemoryInv'
<1>1. MemoryTypeOK'
  BY DEF MemoryInv, MemoryTypeOK
<1>2. HistoryType' /\ BaselineTrue' /\ Funded'
  BY DEF MemoryInv, HistoryType, BaselineTrue, Funded, JobFunded, history
<1>3. Covered' /\ OwnerBehind' /\ NoLostMemory'
  BY QuietStep DEF history
<1> QED BY <1>1, <1>2, <1>3 DEF MemoryInv

(* A lease is extended or lapses, or a delay passes, for the global job.   *)
LEMMA RenewedStep ==
    ASSUME MemoryInv, UNCHANGED <<updated, polluted, out, flag, job, work, history>>,
           NEW l \in BOOLEAN,
           glob' = [glob EXCEPT !.leased = l] \/ glob' = [glob EXCEPT !.backoff = l]
    PROVE  MemoryInv'
<1>1. /\ glob' \in JobType(GlobalRetries)
      /\ glob'.status = glob.status /\ glob'.token = glob.token /\ glob'.retries = glob.retries
      /\ glob'.input = glob.input /\ glob'.success = glob.success
  BY DEF MemoryInv, MemoryTypeOK, JobType
<1>2. MemoryTypeOK'
  BY <1>1 DEF MemoryInv, MemoryTypeOK, work
<1>3. HistoryType' /\ Funded' /\ BaselineTrue'
  BY <1>1 DEF MemoryInv, HistoryType, Funded, BaselineTrue, history
<1>4. Covered' /\ OwnerBehind' /\ NoLostMemory'
  BY <1>1, QuietStep DEF Owns, work, history
<1> QED BY <1>2, <1>3, <1>4 DEF MemoryInv

\* The watermark moves past whatever the owner of the global job will mark.
LEMMA PolluteKeeps ==
    ASSUME MemoryInv, NEW t \in Thread, Pollute(t)
    PROVE  MemoryInv'
<1>1. CASE flag[t] # 0
  <2>1. MaxUpdate \in Nat \ {0} /\ out' \in [Thread -> 0..MaxUpdate]
          /\ \A q \in Thread : out'[q] <= out[q] \/ out'[q] <= MaxUpdate
    BY MemoryAssumption DEF MemoryInv, MemoryTypeOK, Pollute
  <2>2. glob' = Enqueued(MaxUpdate) /\ Changed(t) /\ UNCHANGED <<pc, mark>>
    BY <1>1 DEF Pollute, work
  <2>3. /\ glob' \in JobType(GlobalRetries) /\ HistoryType'
        /\ glob'.status = "running" => glob'.retries > 0
        /\ Covered' /\ OwnerBehind' /\ NoLostMemory'
    BY <2>1, <2>2, EnqueueStep
  <2>4. MemoryTypeOK'
    BY <2>3 DEF MemoryInv, MemoryTypeOK, Pollute, work
  <2>5. Funded' /\ BaselineTrue'
    BY <2>2, <2>3 DEF MemoryInv, Funded, BaselineTrue, Changed, Pollute
  <2> QED BY <2>3, <2>4, <2>5 DEF MemoryInv
<1>2. CASE flag[t] = 0
  <2>1. UNCHANGED <<updated, out, flag, job, glob, work, history>> /\ polluted' = polluted \cup {t}
    BY <1>2 DEF Pollute
  <2>2. MemoryTypeOK'
    BY <2>1 DEF MemoryInv, MemoryTypeOK, work
  <2>3. HistoryType' /\ Funded' /\ BaselineTrue'
    BY <2>1 DEF MemoryInv, HistoryType, Funded, BaselineTrue, history
  <2>4. Covered' /\ OwnerBehind' /\ NoLostMemory'
    BY <2>1, QuietStep DEF work, history
  <2> QED BY <2>2, <2>3, <2>4 DEF MemoryInv
<1> QED BY <1>1, <1>2

\* A claim is made on a fresh set of retries or on one that is not used up.
LEMMA TryClaimKeeps ==
    ASSUME MemoryInv, NEW w \in Worker, NEW t \in Thread, TryClaim(w, t)
    PROVE  MemoryInv'
<1> DEFINE src == todo[w][t]
<1>1. src \in 1..MaxUpdate /\ MaxUpdate \in Nat /\ Retries \in Nat /\ Retries > 0
        /\ job[t] \in JobType(Retries)
  BY MemoryAssumption DEF MemoryInv, MemoryTypeOK, TryClaim
<1>2. Nothing \in [Thread -> 0..MaxUpdate]
  BY <1>1 DEF Nothing
<1>3. CASE Claimable(t, src)
  <2> DEFINE r == IF src > job[t].input THEN Retries ELSE job[t].retries
             j == [status |-> "running", token |-> w, leased |-> TRUE, backoff |-> FALSE,
                   retries |-> r, input |-> src, success |-> job[t].success]
  <2>1. r \in 0..Retries /\ r > 0
    BY <1>1, <1>3 DEF Claimable, MemoryInv, Funded, JobType
  <2>2. j \in JobType(Retries)
    BY <1>1 DEF JobType, Statuses
  <2>3. job' = [job EXCEPT ![t] = j] /\ held' = [held EXCEPT ![w][t] = src]
          /\ todo' = [todo EXCEPT ![w] = IF Claims(w) + 1 = MaxRunning THEN Nothing
                                         ELSE [todo[w] EXCEPT ![t] = 0]]
    BY <1>3 DEF TryClaim
  <2>4. JobFunded(j)
    BY <1>1, <2>1 DEF JobFunded
  <2> HIDE DEF r, j
  <2>5. job' \in [Thread -> JobType(Retries)] /\ \A q \in Thread : JobFunded(job'[q])
    BY <2>2, <2>3, <2>4 DEF MemoryInv, MemoryTypeOK, Funded, JobFunded
  <2>6. held' \in [Worker -> [Thread -> 0..MaxUpdate]]
    BY <2>3 DEF MemoryInv, MemoryTypeOK
  <2>7. todo' \in [Worker -> [Thread -> 0..MaxUpdate]]
    BY <1>1, <1>2, <2>3 DEF MemoryInv, MemoryTypeOK
  <2> QED BY <2>5, <2>6, <2>7, ClaimStep DEF TryClaim
<1>4. CASE ~Claimable(t, src)
  <2>1. todo' = [todo EXCEPT ![w][t] = 0] /\ UNCHANGED <<held, job>>
    BY <1>4 DEF TryClaim
  <2>2. todo' \in [Worker -> [Thread -> 0..MaxUpdate]]
    BY <1>1, <2>1 DEF MemoryInv, MemoryTypeOK
  <2> QED BY <2>1, <2>2, ClaimStep DEF MemoryInv, MemoryTypeOK, Funded, JobFunded, TryClaim
<1> QED BY <1>3, <1>4

(* What the three outcomes of an extraction have in common.                *)
LEMMA ExtractingLemma ==
    ASSUME MemoryInv, NEW w \in Worker, NEW t \in Thread, Extracting(w, t)
    PROVE  /\ held[w][t] \in 1..MaxUpdate
           /\ [held EXCEPT ![w][t] = 0] \in [Worker -> [Thread -> 0..MaxUpdate]]
           /\ job[t] \in JobType(Retries) /\ Retries \in Nat
           /\ Owns(job[t], w) => job[t].retries > 0 /\ job[t].input > 0
BY MemoryAssumption DEF MemoryInv, MemoryTypeOK, Extracting, Funded, Owns

(* A job that is finished, whether it succeeded or not.                    *)
LEMMA FinishedLemma ==
    ASSUME MemoryInv, NEW t \in Thread, NEW j \in JobType(Retries),
           j.status \notin {"running", "none"}
    PROVE  /\ [job EXCEPT ![t] = j] \in [Thread -> JobType(Retries)]
           /\ \A q \in Thread : JobFunded([job EXCEPT ![t] = j][q])
BY DEF MemoryInv, MemoryTypeOK, Funded, JobFunded

\* A job that runs has a retry to lose.
LEMMA ExtractFailedKeeps ==
    ASSUME MemoryInv, NEW w \in Worker, NEW t \in Thread, ExtractFailed(w, t)
    PROVE  MemoryInv'
<1>1. Extracting(w, t) /\ held' = [held EXCEPT ![w][t] = 0]
        /\ UNCHANGED <<updated, polluted, out, flag, glob, pc, todo, mark, picked, history>>
  BY DEF ExtractFailed
<1>2. CASE Owns(job[t], w)
  <2>1. job' = [job EXCEPT ![t] = Failed(job[t])]
    BY <1>2 DEF ExtractFailed
  <2>2. Failed(job[t]) \in JobType(Retries) /\ Failed(job[t]).status = "error"
    BY <1>1, <1>2, ExtractingLemma, FailedLemma
  <2>3. job' \in [Thread -> JobType(Retries)] /\ \A q \in Thread : JobFunded(job'[q])
    BY <2>1, <2>2, FinishedLemma
  <2> QED BY <1>1, <2>3, ExtractingLemma, ClaimStep DEF MemoryInv, MemoryTypeOK
<1>3. CASE ~Owns(job[t], w)
  BY <1>3, ExtractingLemma, ClaimStep DEF ExtractFailed, MemoryInv, MemoryTypeOK, Funded,
     JobFunded
<1> QED BY <1>2, <1>3

(* An extraction that changes the output of its thread.                    *)
LEMMA OutputStep ==
    ASSUME MemoryInv, NEW w \in Worker, NEW t \in Thread, Extracting(w, t), Owns(job[t], w),
           held' = [held EXCEPT ![w][t] = 0], job' = [job EXCEPT ![t] = Done(job[t])],
           NEW n \in Nat \ {0}, glob' = Enqueued(n), Changed(t),
           out' \in [Thread -> 0..MaxUpdate],
           \A q \in Thread : out'[q] <= out[q] \/ out'[q] <= n,
           \A q \in Thread : flag'[q] = flag[q] \/ flag'[q] = 0,
           flag' \in [Thread -> 0..MaxUpdate],
           UNCHANGED <<updated, polluted, pc, todo, mark, picked>>
    PROVE  MemoryInv'
<1>1. /\ glob' \in JobType(GlobalRetries) /\ HistoryType'
      /\ glob'.status = "running" => glob'.retries > 0
      /\ Covered' /\ OwnerBehind' /\ NoLostMemory'
  BY EnqueueStep
<1>2. Done(job[t]) \in JobType(Retries) /\ Done(job[t]).status = "done"
  BY ExtractingLemma, DoneLemma
<1>3. job' \in [Thread -> JobType(Retries)] /\ \A q \in Thread : JobFunded(job'[q])
  BY <1>2, FinishedLemma
<1>4. MemoryTypeOK'
  BY <1>1, <1>3, ExtractingLemma DEF MemoryInv, MemoryTypeOK
<1>5. Funded' /\ BaselineTrue'
  BY <1>1, <1>3 DEF MemoryInv, Funded, JobFunded, BaselineTrue, Changed
<1> QED BY <1>1, <1>4, <1>5 DEF MemoryInv

\* The new output is under the new watermark.
LEMMA ExtractedKeeps ==
    ASSUME MemoryInv, NEW w \in Worker, NEW t \in Thread, Extracted(w, t)
    PROVE  MemoryInv'
<1>1. Extracting(w, t) /\ held' = [held EXCEPT ![w][t] = 0] /\ held[w][t] \in 1..MaxUpdate
        /\ UNCHANGED <<updated, polluted, flag, pc, todo, mark, picked>>
  BY ExtractingLemma DEF Extracted
<1>2. out \in [Thread -> 0..MaxUpdate] /\ flag \in [Thread -> 0..MaxUpdate] /\ MaxUpdate \in Nat
  BY MemoryAssumption DEF MemoryInv, MemoryTypeOK
<1>3. CASE Owns(job[t], w)
  <2>1. /\ job' = [job EXCEPT ![t] = Done(job[t])] /\ glob' = Enqueued(held[w][t]) /\ Changed(t)
        /\ out' = [out EXCEPT ![t] = Larger(out[t], held[w][t])]
    BY <1>3 DEF Extracted
  <2>2. out' \in [Thread -> 0..MaxUpdate]
          /\ \A q \in Thread : out'[q] <= out[q] \/ out'[q] <= held[w][t]
    BY <1>1, <1>2, <2>1 DEF Larger
  <2>3. held[w][t] \in Nat \ {0}
    BY <1>1, <1>2
  <2> QED BY <1>1, <1>2, <1>3, <2>1, <2>2, <2>3, OutputStep
<1>4. CASE ~Owns(job[t], w)
  BY <1>4, ExtractingLemma, ClaimStep DEF Extracted, MemoryInv, MemoryTypeOK, Funded,
     JobFunded
<1> QED BY <1>3, <1>4

LEMMA ExtractedNothingKeeps ==
    ASSUME MemoryInv, NEW w \in Worker, NEW t \in Thread, ExtractedNothing(w, t)
    PROVE  MemoryInv'
<1>1. Extracting(w, t) /\ held' = [held EXCEPT ![w][t] = 0]
        /\ UNCHANGED <<updated, polluted, pc, todo, mark, picked>>
  BY DEF ExtractedNothing
<1>2. out \in [Thread -> 0..MaxUpdate] /\ flag \in [Thread -> 0..MaxUpdate] /\ MaxUpdate \in Nat
  BY MemoryAssumption DEF MemoryInv, MemoryTypeOK
<1>3. CASE Owns(job[t], w) /\ out[t] # 0
  <2>1. /\ job' = [job EXCEPT ![t] = Done(job[t])] /\ glob' = Enqueued(job[t].input) /\ Changed(t)
        /\ out' = [out EXCEPT ![t] = 0] /\ flag' = [flag EXCEPT ![t] = 0]
    BY <1>3 DEF ExtractedNothing
  <2>2. /\ out' \in [Thread -> 0..MaxUpdate] /\ flag' \in [Thread -> 0..MaxUpdate]
        /\ \A q \in Thread : out'[q] <= out[q]
        /\ \A q \in Thread : flag'[q] = flag[q] \/ flag'[q] = 0
    BY <1>2, <2>1
  <2>3. job[t].input \in Nat \ {0}
    BY <1>1, <1>3, ExtractingLemma DEF JobType
  <2> QED BY <1>1, <1>3, <2>1, <2>2, <2>3, OutputStep
<1>4. CASE Owns(job[t], w) /\ out[t] = 0
  <2>1. job' = [job EXCEPT ![t] = Done(job[t])] /\ UNCHANGED <<out, flag, glob, history>>
    BY <1>4 DEF ExtractedNothing
  <2>2. Done(job[t]) \in JobType(Retries) /\ Done(job[t]).status = "done"
    BY <1>1, ExtractingLemma, DoneLemma
  <2>3. job' \in [Thread -> JobType(Retries)] /\ \A q \in Thread : JobFunded(job'[q])
    BY <2>1, <2>2, FinishedLemma
  <2> QED BY <1>1, <2>1, <2>3, ExtractingLemma, ClaimStep DEF MemoryInv, MemoryTypeOK
<1>5. CASE ~Owns(job[t], w)
  BY <1>5, ExtractingLemma, ClaimStep DEF ExtractedNothing, MemoryInv, MemoryTypeOK, Funded,
     JobFunded
<1> QED BY <1>3, <1>4, <1>5

\* The new owner starts from the watermark it read.
LEMMA ClaimGlobalKeeps ==
    ASSUME MemoryInv, NEW w \in Worker, ClaimGlobal(w)
    PROVE  MemoryInv'
<1>1. UNCHANGED <<updated, polluted, out, flag, job, todo, held, picked, history>>
  BY DEF ClaimGlobal
<1>2. CASE Dirty /\ glob.retries > 0 /\ ~glob.backoff /\ Takeable
  <2>1. /\ glob' = [glob EXCEPT !.status = "running", !.token = w, !.leased = TRUE]
        /\ mark' = [mark EXCEPT ![w] = glob.input] /\ pc' = [pc EXCEPT ![w] = "select"]
    BY <1>2 DEF ClaimGlobal
  <2>2. glob \in JobType(GlobalRetries) /\ mark \in [Worker -> Nat] /\ glob.input \in Nat
    BY DEF MemoryInv, MemoryTypeOK, JobType
  <2>3. /\ glob' \in JobType(GlobalRetries) /\ glob'.status = "running" /\ glob'.token = w
        /\ glob'.retries = glob.retries /\ glob'.input = glob.input /\ glob'.success = glob.success
    BY <2>1, <2>2 DEF JobType, Statuses
  <2>4. MemoryTypeOK'
    BY <1>1, <2>1, <2>2, <2>3 DEF MemoryInv, MemoryTypeOK
  <2>5. HistoryType' /\ BaselineTrue' /\ NoLostMemory'
    BY <1>1, <2>3 DEF MemoryInv, HistoryType, BaselineTrue, NoLostMemory, Dirty, history
  <2>6. Funded' /\ Covered'
    BY <1>1, <1>2, <2>3 DEF MemoryInv, Funded, Covered
  <2>7. OwnerBehind'
    BY <2>1, <2>2 DEF OwnerBehind, Owns, MemoryInv, MemoryTypeOK
  <2> QED BY <2>4, <2>5, <2>6, <2>7 DEF MemoryInv
<1>3. CASE ~(Dirty /\ glob.retries > 0 /\ ~glob.backoff /\ Takeable)
  <2>1. pc' = [pc EXCEPT ![w] = "idle"] /\ UNCHANGED <<glob, mark>>
    BY <1>3 DEF ClaimGlobal
  <2>2. MemoryTypeOK'
    BY <1>1, <2>1 DEF MemoryInv, MemoryTypeOK
  <2>3. HistoryType' /\ BaselineTrue' /\ Funded'
    BY <1>1, <2>1 DEF MemoryInv, HistoryType, BaselineTrue, Funded, history
  <2>4. Covered' /\ OwnerBehind' /\ NoLostMemory'
    BY <1>1, <2>1, QuietStep DEF history
  <2> QED BY <2>2, <2>3, <2>4 DEF MemoryInv
<1> QED BY <1>2, <1>3

\* No output is above the watermark, so neither is the completion mark.
LEMMA SelectKeeps ==
    ASSUME MemoryInv, NEW w \in Worker, Select(w)
    PROVE  MemoryInv'
<1>1. /\ picked' = [picked EXCEPT ![w] = Selection]
      /\ mark' = [mark EXCEPT ![w] = NewestIn(Selection, mark[w])]
      /\ missed' = [missed EXCEPT ![w] = {}] /\ pc' = [pc EXCEPT ![w] = "agent"]
      /\ UNCHANGED <<rows, todo, held, base, dirt>> /\ pc[w] = "select"
  BY DEF Select
<1>2. /\ out \in [Thread -> 0..MaxUpdate] /\ mark \in [Worker -> Nat] /\ MaxUpdate \in Nat
      /\ glob.input \in Nat /\ missed \in [Worker -> SUBSET Thread]
      /\ pc \in [Worker -> {"idle", "scan", "phase1", "select", "agent"}]
  BY MemoryAssumption DEF MemoryInv, MemoryTypeOK, HistoryType, JobType
<1>3. /\ Selection \in [Thread -> 0..MaxUpdate]
      /\ \A t \in Thread : Selection[t] = 0 \/ Selection[t] = out[t]
  BY <1>2 DEF Selection
<1>4. /\ NewestIn(Selection, mark[w]) \in Nat
      /\ \/ NewestIn(Selection, mark[w]) = mark[w]
         \/ \E t \in Thread : NewestIn(Selection, mark[w]) = Selection[t]
  BY <1>2, <1>3, NewestLemma
<1>5. MemoryTypeOK'
  BY <1>1, <1>3, <1>4 DEF MemoryInv, MemoryTypeOK, rows
<1>6. HistoryType' /\ Funded' /\ Covered' /\ NoLostMemory' /\ BaselineTrue'
  BY <1>1 DEF MemoryInv, HistoryType, Funded, Covered, NoLostMemory, BaselineTrue, Dirty,
     rows
<1>7. OwnerBehind'
  <2> SUFFICES ASSUME NEW v \in Worker, Owns(glob, v)', pc'[v] \in {"select", "agent"}
               PROVE  /\ mark'[v] <= glob'.input
                      /\ pc'[v] = "agent" /\ missed'[v] # {}
                           => mark'[v] < glob'.input /\ glob'.success < glob'.input
    BY DEF OwnerBehind
  <2>1. Owns(glob, v) /\ glob' = glob
    BY <1>1 DEF rows
  <2>2. CASE v = w
    <3>1. mark[w] <= glob.input /\ \A t \in Thread : out[t] <= glob.input
      BY <1>1, <2>1, <2>2 DEF MemoryInv, OwnerBehind, Covered
    <3>2. NewestIn(Selection, mark[w]) <= glob.input
      BY <1>2, <1>3, <1>4, <3>1
    <3> QED BY <1>1, <1>2, <2>1, <2>2, <3>2
  <2>3. CASE v # w
    BY <1>1, <2>1, <2>3 DEF MemoryInv, OwnerBehind
  <2> QED BY <2>2, <2>3
<1> QED BY <1>5, <1>6, <1>7 DEF MemoryInv

(* A worker that is done with phase 2.                                     *)
LEMMA ForgetLemma ==
    ASSUME MemoryInv, NEW w \in Worker, Forget(w)
    PROVE  /\ missed' \in [Worker -> SUBSET Thread] /\ mark' \in [Worker -> Nat]
           /\ picked' \in [Worker -> [Thread -> 0..MaxUpdate]]
           /\ pc' \in [Worker -> {"idle", "scan", "phase1", "select", "agent"}]
           /\ pc'[w] = "idle" /\ UNCHANGED <<todo, held>>
           /\ \A v \in Worker \ {w} : pc'[v] = pc[v] /\ mark'[v] = mark[v] /\ missed'[v] = missed[v]
BY MemoryAssumption DEF MemoryInv, MemoryTypeOK, HistoryType, Forget, Nothing

(* It leaves the rows alone when it is no longer the owner.                *)
LEMMA LeaveStep ==
    ASSUME MemoryInv, NEW w \in Worker, ~Owns(glob, w), Forget(w),
           UNCHANGED <<updated, polluted, out, flag, job, glob, base, dirt>>
    PROVE  MemoryInv'
<1>1. MemoryTypeOK'
  BY ForgetLemma DEF MemoryInv, MemoryTypeOK
<1>2. HistoryType' /\ Funded' /\ Covered' /\ NoLostMemory' /\ BaselineTrue'
  BY ForgetLemma DEF MemoryInv, HistoryType, Funded, Covered, NoLostMemory, BaselineTrue,
     Dirty
<1>3. OwnerBehind'
  BY ForgetLemma DEF MemoryInv, OwnerBehind
<1> QED BY <1>1, <1>2, <1>3 DEF MemoryInv

\* What the owner missed keeps the job dirty.
LEMMA ConsolidatedKeeps ==
    ASSUME MemoryInv, NEW w \in Worker, Consolidated(w)
    PROVE  MemoryInv'
<1>1. pc[w] = "agent" /\ Forget(w) /\ UNCHANGED <<updated, polluted, out, job>>
  BY DEF Consolidated
<1>2. CASE Owns(glob, w)
  <2>1. /\ glob' = [glob EXCEPT !.status = "done", !.token = None, !.leased = FALSE,
                                !.success = Larger(glob.success, mark[w])]
        /\ flag' = [t \in Thread |-> Flagged(w, t)] /\ base' = picked[w] /\ dirt' = missed[w]
    BY <1>2 DEF Consolidated
  <2>2. /\ glob \in JobType(GlobalRetries) /\ glob.input \in Nat /\ glob.success \in Nat
        /\ mark[w] \in Nat /\ picked[w] \in [Thread -> 0..MaxUpdate] /\ missed[w] \subseteq Thread
        /\ MaxUpdate \in Nat
    BY MemoryAssumption DEF MemoryInv, MemoryTypeOK, HistoryType, JobType
  <2>3. /\ Larger(glob.success, mark[w]) \in Nat
        /\ Larger(glob.success, mark[w]) <= glob.input
        /\ missed[w] # {} => Larger(glob.success, mark[w]) < glob.input
    BY <1>1, <1>2, <2>2 DEF MemoryInv, Covered, OwnerBehind, Larger
  <2>4. /\ glob' \in JobType(GlobalRetries) /\ glob'.status = "done" /\ glob'.input = glob.input
        /\ glob'.success = Larger(glob.success, mark[w])
    BY <2>1, <2>2, <2>3 DEF JobType, Statuses
  <2>5. flag' \in [Thread -> 0..MaxUpdate] /\ \A t \in Thread : flag'[t] = base'[t] \/ flag'[t] = 0
    BY <2>1, <2>2 DEF Flagged
  <2>6. MemoryTypeOK'
    BY <1>1, <2>4, <2>5, ForgetLemma DEF MemoryInv, MemoryTypeOK
  <2>7. HistoryType' /\ BaselineTrue'
    BY <1>1, <2>1, <2>2, <2>5, ForgetLemma DEF HistoryType, BaselineTrue
  <2>8. Funded' /\ Covered' /\ NoLostMemory'
    BY <1>1, <2>1, <2>3 DEF MemoryInv, Funded, Covered, NoLostMemory, Dirty
  <2>9. OwnerBehind'
    BY <2>4 DEF OwnerBehind, Owns
  <2> QED BY <2>6, <2>7, <2>8, <2>9 DEF MemoryInv
<1>3. CASE ~Owns(glob, w)
  <2>1. UNCHANGED <<glob, flag, base, dirt>>
    BY <1>3 DEF Consolidated
  <2> QED BY <1>1, <1>3, <2>1, LeaveStep
<1> QED BY <1>2, <1>3

LEMMA ConsolidationFailedKeeps ==
    ASSUME MemoryInv, NEW w \in Worker, ConsolidationFailed(w)
    PROVE  MemoryInv'
<1>1. Forget(w) /\ UNCHANGED <<updated, polluted, out, flag, job, base, dirt>>
  BY DEF ConsolidationFailed
<1>2. CASE Owns(glob, w)
  <2>1. glob' = Failed(glob) /\ glob \in JobType(GlobalRetries) /\ glob.retries > 0
          /\ GlobalRetries \in Nat
    BY <1>2, MemoryAssumption DEF ConsolidationFailed, MemoryInv, MemoryTypeOK, Funded, Owns
  <2>2. /\ glob' \in JobType(GlobalRetries) /\ glob'.status = "error"
        /\ glob'.input = glob.input /\ glob'.success = glob.success
    BY <2>1, FailedLemma
  <2>3. MemoryTypeOK'
    BY <1>1, <2>2, ForgetLemma DEF MemoryInv, MemoryTypeOK
  <2>4. HistoryType' /\ BaselineTrue'
    BY <1>1, ForgetLemma DEF MemoryInv, HistoryType, BaselineTrue
  <2>5. Funded' /\ Covered' /\ NoLostMemory'
    BY <1>1, <2>2 DEF MemoryInv, Funded, Covered, NoLostMemory, Dirty
  <2>6. OwnerBehind'
    BY <2>2 DEF OwnerBehind, Owns
  <2> QED BY <2>3, <2>4, <2>5, <2>6 DEF MemoryInv
<1>3. CASE ~Owns(glob, w)
  <2>1. UNCHANGED glob
    BY <1>3 DEF ConsolidationFailed
  <2> QED BY <1>1, <1>3, <2>1, LeaveStep
<1> QED BY <1>2, <1>3

LEMMA GiveUpKeeps ==
    ASSUME MemoryInv, NEW w \in Worker, GiveUp(w)
    PROVE  MemoryInv'
BY LeaveStep DEF GiveUp, rows

LEMMA TouchKeeps ==
    ASSUME MemoryInv, NEW t \in Thread, Touch(t)
    PROVE  MemoryInv'
<1>1. UNCHANGED <<polluted, out, flag, job, glob, work, history>>
        /\ updated' = [updated EXCEPT ![t] = updated[t] + 1] /\ updated[t] < MaxUpdate
  BY DEF Touch
<1>2. MemoryTypeOK'
  BY <1>1, MemoryAssumption DEF MemoryInv, MemoryTypeOK, work
<1>3. HistoryType' /\ Funded' /\ BaselineTrue'
  BY <1>1 DEF MemoryInv, HistoryType, Funded, BaselineTrue, history
<1>4. Covered' /\ OwnerBehind' /\ NoLostMemory'
  BY <1>1, QuietStep DEF work, history
<1> QED BY <1>2, <1>3, <1>4 DEF MemoryInv

\* Nobody owns the job that is left.
LEMMA ClearDataKeeps ==
    ASSUME MemoryInv, ClearData
    PROVE  MemoryInv'
<1>1. /\ out' = Nothing /\ flag' = Nothing /\ job' = [t \in Thread |-> NoJob] /\ glob' = NoJob
      /\ base' = Nothing /\ dirt' = {} /\ UNCHANGED <<updated, polluted, work, missed>>
  BY DEF ClearData
<1>2. MaxUpdate \in Nat /\ NoJob \in JobType(Retries) /\ NoJob \in JobType(GlobalRetries)
        /\ NoJob.status = "none" /\ NoJob.input = 0 /\ NoJob.success = 0
        /\ Nothing \in [Thread -> 0..MaxUpdate] /\ \A t \in Thread : Nothing[t] = 0
  BY MemoryAssumption DEF NoJob, JobType, Statuses, Nothing
<1>3. MemoryTypeOK'
  BY <1>1, <1>2 DEF MemoryInv, MemoryTypeOK, work
<1>4. HistoryType' /\ Funded' /\ Covered'
  BY <1>1, <1>2 DEF MemoryInv, HistoryType, Funded, Covered
<1>5. OwnerBehind' /\ NoLostMemory' /\ BaselineTrue'
  BY <1>1, <1>2 DEF OwnerBehind, NoLostMemory, BaselineTrue, Owns
<1> QED BY <1>3, <1>4, <1>5 DEF MemoryInv

\* What prune removes was not flagged, and no output rises.
LEMMA PruneKeeps ==
    ASSUME MemoryInv, NEW w \in Worker, NEW old \in SUBSET Thread, Prune(w, old)
    PROVE  MemoryInv'
<1>1. /\ out' = [t \in Thread |-> IF t \in old THEN 0 ELSE out[t]]
      /\ pc' = [pc EXCEPT ![w] = "scan"]
      /\ UNCHANGED <<updated, polluted, flag, job, glob, todo, held, mark, picked, history>>
  BY DEF Prune
<1>2. out' \in [Thread -> 0..MaxUpdate] /\ \A t \in Thread : out'[t] <= glob.input
  BY <1>1, MemoryAssumption DEF MemoryInv, MemoryTypeOK, Covered, JobType
<1>3. pc' \in [Worker -> {"idle", "scan", "phase1", "select", "agent"}]
  BY <1>1 DEF MemoryInv, MemoryTypeOK
<1>4. MemoryTypeOK'
  BY <1>1, <1>2, <1>3 DEF MemoryInv, MemoryTypeOK
<1>5. HistoryType' /\ Funded' /\ BaselineTrue' /\ NoLostMemory'
  BY <1>1 DEF MemoryInv, HistoryType, Funded, BaselineTrue, NoLostMemory, Dirty, history
<1>6. Covered' /\ OwnerBehind'
  BY <1>1, <1>2 DEF MemoryInv, Covered, OwnerBehind, history
<1> QED BY <1>4, <1>5, <1>6 DEF MemoryInv

\* The scan only fills the worker's own list.
LEMMA ScanKeeps ==
    ASSUME MemoryInv, NEW w \in Worker, Scan(w)
    PROVE  MemoryInv'
<1>1. /\ todo' = [todo EXCEPT ![w] = [t \in Thread |-> IF Stale(t) THEN updated[t] ELSE 0]]
      /\ pc' = [pc EXCEPT ![w] = "phase1"]
      /\ UNCHANGED <<updated, polluted, out, flag, job, glob, held, mark, picked, history>>
  BY DEF Scan, rows
<1>2. [t \in Thread |-> IF Stale(t) THEN updated[t] ELSE 0] \in [Thread -> 0..MaxUpdate]
  BY MemoryAssumption DEF MemoryInv, MemoryTypeOK
<1>3. todo' \in [Worker -> [Thread -> 0..MaxUpdate]]
        /\ pc' \in [Worker -> {"idle", "scan", "phase1", "select", "agent"}]
  BY <1>1, <1>2 DEF MemoryInv, MemoryTypeOK
<1>4. MemoryTypeOK'
  BY <1>1, <1>3 DEF MemoryInv, MemoryTypeOK
<1>5. HistoryType' /\ Funded' /\ BaselineTrue' /\ NoLostMemory'
  BY <1>1 DEF MemoryInv, HistoryType, Funded, BaselineTrue, NoLostMemory, Dirty, history
<1>6. Covered' /\ OwnerBehind'
  BY <1>1 DEF MemoryInv, Covered, OwnerBehind, history
<1> QED BY <1>4, <1>5, <1>6 DEF MemoryInv

LEMMA HeartbeatKeeps ==
    ASSUME MemoryInv, NEW w \in Worker, Heartbeat(w)
    PROVE  MemoryInv'
BY RenewedStep DEF Heartbeat

LEMMA CrashKeeps ==
    ASSUME MemoryInv, NEW w \in Worker, Crash(w)
    PROVE  MemoryInv'
<1>1. /\ pc' = [pc EXCEPT ![w] = "idle"]
      /\ todo' = [todo EXCEPT ![w] = Nothing] /\ held' = [held EXCEPT ![w] = Nothing]
      /\ mark' = [mark EXCEPT ![w] = 0] /\ picked' = [picked EXCEPT ![w] = Nothing]
      /\ missed' = [missed EXCEPT ![w] = {}] /\ UNCHANGED <<rows, base, dirt>>
  BY DEF Crash
<1>2. Nothing \in [Thread -> 0..MaxUpdate]
  BY MemoryAssumption DEF Nothing
<1>3. MemoryTypeOK'
  BY <1>1, <1>2 DEF MemoryInv, MemoryTypeOK, rows
<1>4. HistoryType' /\ Funded' /\ Covered' /\ NoLostMemory' /\ BaselineTrue'
  BY <1>1 DEF MemoryInv, HistoryType, Funded, Covered, NoLostMemory, BaselineTrue, Dirty,
     rows
<1>5. OwnerBehind'
  BY <1>1 DEF MemoryInv, MemoryTypeOK, OwnerBehind, rows
<1> QED BY <1>3, <1>4, <1>5 DEF MemoryInv

\* Time passes for a stage-1 job.
LEMMA LapseKeeps ==
    ASSUME MemoryInv, NEW t \in Thread, Lapse(t) \/ BackoffOver(t)
    PROVE  MemoryInv'
<1>1. /\ job' = [job EXCEPT ![t].leased = FALSE] \/ job' = [job EXCEPT ![t].backoff = FALSE]
      /\ UNCHANGED <<updated, polluted, out, flag, glob, work, history>>
  BY DEF Lapse, BackoffOver
<1>2. job' \in [Thread -> JobType(Retries)] /\ \A q \in Thread : JobFunded(job'[q])
  <2>1. job[t] \in JobType(Retries) /\ JobFunded(job[t]) /\ job \in [Thread -> JobType(Retries)]
    BY DEF MemoryInv, MemoryTypeOK, Funded, JobFunded
  <2>2. PICK j \in JobType(Retries) : JobFunded(j) /\ job' = [job EXCEPT ![t] = j]
    <3>1. CASE job' = [job EXCEPT ![t].leased = FALSE]
      <4> DEFINE j == [job[t] EXCEPT !.leased = FALSE]
      <4>1. j \in JobType(Retries) /\ JobFunded(j)
        BY <2>1 DEF JobType, JobFunded
      <4>2. job' = [job EXCEPT ![t] = j]
        BY <3>1
      <4> QED BY <4>1, <4>2
    <3>2. CASE job' = [job EXCEPT ![t].backoff = FALSE]
      <4> DEFINE j == [job[t] EXCEPT !.backoff = FALSE]
      <4>1. j \in JobType(Retries) /\ JobFunded(j)
        BY <2>1 DEF JobType, JobFunded
      <4>2. job' = [job EXCEPT ![t] = j]
        BY <3>2
      <4> QED BY <4>1, <4>2
    <3> QED BY <1>1, <3>1, <3>2
  <2> QED BY <2>1, <2>2 DEF MemoryInv, Funded, JobFunded
<1> QED BY <1>1, <1>2, ClaimStep DEF MemoryInv, MemoryTypeOK, work

LEMMA GlobalLapseKeeps ==
    ASSUME MemoryInv, GlobalLapse \/ GlobalBackoffOver
    PROVE  MemoryInv'
BY RenewedStep DEF GlobalLapse, GlobalBackoffOver

-----------------------------------------------------------------------------
LEMMA MemoryInit == Init => MemoryInv
<1> SUFFICES ASSUME Init PROVE MemoryInv
  OBVIOUS
<1>1. MaxUpdate \in Nat /\ NoJob \in JobType(Retries) /\ NoJob \in JobType(GlobalRetries)
        /\ NoJob.status = "none" /\ NoJob.input = 0 /\ NoJob.success = 0
        /\ Nothing \in [Thread -> 0..MaxUpdate] /\ \A t \in Thread : Nothing[t] = 0
  BY MemoryAssumption DEF NoJob, JobType, Statuses, Nothing
<1>2. MemoryTypeOK
  BY <1>1, MemoryAssumption DEF Init, MemoryTypeOK
<1>3. HistoryType /\ Funded /\ Covered
  BY <1>1 DEF Init, HistoryType, Funded, Covered
<1>4. OwnerBehind /\ NoLostMemory /\ BaselineTrue
  BY DEF Init, OwnerBehind, NoLostMemory, BaselineTrue
<1> QED BY <1>2, <1>3, <1>4 DEF MemoryInv

LEMMA MemoryStep == MemoryInv /\ [Next]_vars => MemoryInv'
<1> SUFFICES ASSUME MemoryInv, [Next]_vars PROVE MemoryInv'
  OBVIOUS
<1>1. ASSUME NEW t \in Thread, Touch(t) \/ Pollute(t) \/ Lapse(t) \/ BackoffOver(t)
      PROVE  MemoryInv'
  BY <1>1, TouchKeeps, PolluteKeeps, LapseKeeps
<1>2. ASSUME NEW w \in Worker, Startup(w) \/ Heartbeat(w) \/ Crash(w) PROVE MemoryInv'
  BY <1>2, PruneKeeps, HeartbeatKeeps, CrashKeeps DEF Startup
<1>3. ASSUME NEW w \in Worker, Steps(w) PROVE MemoryInv'
  <2>1. CASE \/ Scan(w) \/ ClaimGlobal(w) \/ Select(w)
              \/ Consolidated(w) \/ ConsolidationFailed(w) \/ GiveUp(w)
    BY <2>1, ScanKeeps, ClaimGlobalKeeps, SelectKeeps, ConsolidatedKeeps, ConsolidationFailedKeeps,
       GiveUpKeeps
  <2>2. ASSUME NEW t \in Thread, TryClaim(w, t) \/ Extract(w, t) PROVE MemoryInv'
    BY <2>2, TryClaimKeeps, ExtractedKeeps, ExtractedNothingKeeps, ExtractFailedKeeps DEF
       Extract
  <2> QED BY <1>3, <2>1, <2>2 DEF Steps
<1>4. CASE ClearData \/ GlobalLapse \/ GlobalBackoffOver
  BY <1>4, ClearDataKeeps, GlobalLapseKeeps
<1>5. CASE UNCHANGED vars
  <2>1. MemoryTypeOK'
    BY <1>5 DEF vars, rows, work, MemoryInv, MemoryTypeOK
  <2>2. HistoryType' /\ Funded' /\ Covered'
    BY <1>5 DEF vars, rows, history, MemoryInv, HistoryType, Funded, Covered
  <2>3. OwnerBehind' /\ NoLostMemory' /\ BaselineTrue'
    BY <1>5 DEF vars, rows, work, history, MemoryInv, OwnerBehind, NoLostMemory,
       BaselineTrue, Dirty
  <2> QED BY <2>1, <2>2, <2>3 DEF MemoryInv
<1>6. CASE Next
  BY <1>1, <1>2, <1>3, <1>4, <1>6 DEF Next
<1> QED BY <1>5, <1>6

(* The inductive invariant holds in every state of the pipeline.           *)
THEOREM MemoryInductive == Spec => []MemoryInv
BY MemoryInit, MemoryStep, PTL DEF Spec

(* Types hold for any number of threads, workers and retries: no retry is  *)
(* taken from a job that has none left (memories.rs).                      *)
THEOREM MemoryTypeCorrect == Spec => []MemoryTypeOK
<1>1. MemoryInv => MemoryTypeOK
  BY DEF MemoryInv
<1> QED BY <1>1, MemoryInductive, PTL

(* No change of an output is forgotten by phase 2: a change that arrives   *)
(* while a consolidation runs leaves the global job dirty, whatever its    *)
(* timestamp and whoever owns the job by then                              *)
(* (enqueue_global_consolidation, mark_global_phase2_job_succeeded).       *)
THEOREM NothingLost == Spec => []NoLostMemory
<1>1. MemoryInv => NoLostMemory
  BY DEF MemoryInv
<1> QED BY <1>1, MemoryInductive, PTL

(* The flag of a row is the timestamp at which the last success selected   *)
(* it, though other workers prune, rewrite and delete rows meanwhile       *)
(* (mark_global_phase2_job_succeeded, memories.rs).                        *)
THEOREM BaselineHolds == Spec => []BaselineTrue
<1>1. MemoryInv => BaselineTrue
  BY DEF MemoryInv
<1> QED BY <1>1, MemoryInductive, PTL
=============================================================================
