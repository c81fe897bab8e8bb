------------------------ MODULE LabExperimentProofs ------------------------
(***************************************************************************)
(* What the Lab promises of paid calls, for any number of batches,         *)
(* attempts and workers, any limits, and any number of failures.           *)
(*                                                                         *)
(* The argument: a reservation takes an attempt out of pending and counts  *)
(* it, only its own worker can turn it into a call, and that worker leaves *)
(* the reservation behind when it does.  Every other step is quiet: it     *)
(* reserves nothing, calls nothing and makes no attempt pending again.     *)
(***************************************************************************)
EXTENDS LabExperimentJobs, FiniteSetTheorems, TLAPS

\* A working slot has a job that exists, and an attempt once it reserved one.
Placed ==
  \A w \in Workers :
    /\ worker[w].pc # "idle" => MyJob(w) \in Jobs /\ job[MyJob(w)].status # "none"
    /\ worker[w].pc \in {"reserved", "calling", "storing", "stopping"}
         => worker[w].att \in Attempts
    /\ worker[w].pc = "storing" => worker[w].result # "none"

LabTypeInv == LabTypeOK /\ Placed

Slot == [pc : {"idle", "ready", "reserved", "calling", "storing", "stopping", "finishing"},
         job : Jobs \cup {NoJob}, lease : Nat, att : Attempts \cup {0},
         result : {"none", "completed", "failed"}]

AttemptStatus == {"none", "pending", "dispatching"} \cup Outcomes

LEMMA AttemptsFinite == IsFiniteSet(Attempts)
BY LabAssumption, FS_Interval DEF Attempts

\* The updates of a row, of the attempts and of a slot keep their types.
LEMMA JobUpdates ==
  ASSUME NEW r \in JobRow, NEW s \in ActiveJob \cup Stopped, NEW b \in BOOLEAN, NEW n \in Nat
  PROVE  /\ Unleased(r, s) \in JobRow
         /\ [Unleased(r, s) EXCEPT !.expired = TRUE] \in JobRow
         /\ [r EXCEPT !.status = s] \in JobRow
         /\ [r EXCEPT !.cancel = TRUE, !.status = s] \in JobRow
         /\ [r EXCEPT !.status = s, !.lease = n, !.live = TRUE] \in JobRow
         /\ [r EXCEPT !.live = b] \in JobRow
         /\ [r EXCEPT !.expired = TRUE] \in JobRow
         /\ [r EXCEPT !.calls = n] \in JobRow
BY DEF JobRow, Unleased, ActiveJob, Stopped

LEMMA BecomeType ==
  ASSUME LabTypeOK, NEW j \in Jobs, NEW S, NEW s \in AttemptStatus, Become(j, S, s)
  PROVE  attempt' \in [Jobs -> [Attempts -> AttemptStatus]]
BY DEF LabTypeOK, Become, AttemptStatus

LEMMA GotoType ==
  ASSUME LabTypeOK, NEW w \in Workers, Goto(w, "idle") \/ Goto(w, "stopping") \/ Goto(w, "ready")
           \/ Goto(w, "finishing") \/ Goto(w, "calling")
  PROVE  worker' \in [Workers -> Slot]
<1>1. worker \in [Workers -> Slot] /\ Idle \in Slot BY DEF LabTypeOK, Slot, Idle
<1>2. \A r \in Slot : \A p \in {"stopping", "ready", "finishing", "calling"} :
        [r EXCEPT !.pc = p] \in Slot
  BY DEF Slot
<1>3. \E r \in Slot : worker' = [worker EXCEPT ![w] = r]
  <2>1. worker[w] \in Slot BY <1>1
  <2>2. CASE Goto(w, "idle") BY <1>1, <2>2 DEF Goto
  <2>3. ASSUME NEW p \in {"stopping", "ready", "finishing", "calling"}, Goto(w, p)
        PROVE  worker' = [worker EXCEPT ![w] = [worker[w] EXCEPT !.pc = p]]
    BY <2>3 DEF Goto
  <2> QED BY <1>2, <2>1, <2>2, <2>3
<1> QED BY <1>1, <1>3

LEMMA HappensType ==
  ASSUME LabTypeOK, NEW k, Happens(k) PROVE happened' \in [DOMAIN Risk -> Nat]
<1>1. \A i \in DOMAIN Risk : happened[i] \in Nat /\ happened[i] + 1 \in Nat BY DEF LabTypeOK
<1>2. happened' = [happened EXCEPT ![k] = happened[k] + 1] BY DEF Happens
<1>3. happened' = [i \in DOMAIN Risk |-> IF i = k THEN happened[k] + 1 ELSE happened[i]]
  BY <1>2 DEF LabTypeOK
<1> QED BY <1>1, <1>3

LEMMA LabInitType == LabInit => LabTypeInv
<1> SUFFICES ASSUME LabInit PROVE LabTypeInv OBVIOUS
<1>1. LabTypeOK
  BY LabAssumption DEF LabInit, LabTypeOK, JobRow, Unborn, Idle
<1>2. Placed BY DEF LabInit, Placed, Idle
<1> QED BY <1>1, <1>2 DEF LabTypeInv

OwnerStep(j) == Start(j) \/ Cancel(j) \/ Retract(j) \/ Tombstone(j)

\* A step that moves no slot and lets no job vanish.
LEMMA StayPlaced ==
  ASSUME LabTypeInv, UNCHANGED worker,
         \A j \in Jobs : job[j].status # "none" => job'[j].status # "none"
  PROVE  Placed'
BY DEF LabTypeInv, LabTypeOK, Placed, MyJob

LEMMA OwnerType ==
  ASSUME LabTypeInv, NEW j \in Jobs, OwnerStep(j) PROVE LabTypeInv'
<1>t. LabTypeOK /\ job \in [Jobs -> JobRow] /\ job[j] \in JobRow BY DEF LabTypeInv, LabTypeOK
<1>1. CASE Start(j)
  <2>1. attempt' \in [Jobs -> [Attempts -> AttemptStatus]]
    BY <1>t, <1>1, BecomeType DEF Start, AttemptStatus
  <2>2. job' \in [Jobs -> JobRow]
    BY <1>t, <1>1, JobUpdates DEF Start, ActiveJob
  <2>3. LabTypeOK' BY <1>1, <1>t, <2>1, <2>2 DEF LabTypeOK, Start, AttemptStatus
  <2>4. Placed' BY <1>t, <1>1, StayPlaced DEF Start
  <2> QED BY <2>3, <2>4 DEF LabTypeInv
<1>2. CASE Cancel(j)
  <2>1. attempt' \in [Jobs -> [Attempts -> AttemptStatus]]
    BY <1>t, <1>2, BecomeType DEF Cancel, CancelPending, AttemptStatus, Outcomes
  <2>2. job' \in [Jobs -> JobRow]
    BY <1>t, <1>2, JobUpdates DEF Cancel, ActiveJob, Stopped
  <2>3. LabTypeOK' BY <1>2, <1>t, <2>1, <2>2 DEF LabTypeOK, Cancel, AttemptStatus
  <2>4. Placed' BY <1>t, <1>2, StayPlaced DEF Cancel
  <2> QED BY <2>3, <2>4 DEF LabTypeInv
<1>3. CASE Retract(j)
  <2>1. LabTypeOK' BY <1>3, <1>t, HappensType DEF LabTypeOK, Retract
  <2>2. Placed' BY <1>3, StayPlaced DEF Retract
  <2> QED BY <2>1, <2>2 DEF LabTypeInv
<1>4. CASE Tombstone(j)
  <2>1. attempt' \in [Jobs -> [Attempts -> AttemptStatus]]
    BY <1>t, <1>4 DEF Tombstone, LabTypeOK, AttemptStatus
  <2>2. job[j].status \in ActiveJob \cup Stopped
    BY <1>t, <1>4 DEF Tombstone, JobRow
  <2>3. job' \in [Jobs -> JobRow]
    BY <1>t, <1>4, <2>2, JobUpdates DEF Tombstone, Stopped
  <2>4. LabTypeOK' BY <1>4, <1>t, <2>1, <2>3 DEF LabTypeOK, Tombstone, AttemptStatus
  <2>5. Placed' BY <1>t, <1>4, StayPlaced DEF Tombstone, Unleased, JobRow
  <2> QED BY <2>4, <2>5 DEF LabTypeInv
<1> QED BY <1>1, <1>2, <1>3, <1>4 DEF OwnerStep

LEMMA MaintenanceType ==
  ASSUME LabTypeInv, NEW j \in Jobs, Maintenance(j) PROVE LabTypeInv'
<1>t. LabTypeOK /\ job \in [Jobs -> JobRow] /\ job[j] \in JobRow
      /\ attempt \in [Jobs -> [Attempts -> AttemptStatus]]
  BY DEF LabTypeInv, LabTypeOK, AttemptStatus
<1>1. CASE RecoverStale(j)
  <2>1. attempt' \in [Jobs -> [Attempts -> AttemptStatus]]
    BY <1>t, <1>1 DEF RecoverStale, AttemptStatus, Outcomes
  <2>0. PICK s \in ActiveJob \cup Stopped : job' = [job EXCEPT ![j] = Unleased(job[j], s)]
    BY <1>1 DEF RecoverStale, ActiveJob, Stopped
  <2>2. job' \in [Jobs -> JobRow] BY <1>t, <2>0, JobUpdates
  <2>3. LabTypeOK' BY <1>1, <1>t, <2>1, <2>2 DEF LabTypeOK, RecoverStale, AttemptStatus
  <2>4. \A x \in Jobs : job[x].status # "none" => job'[x].status # "none"
    BY <1>t, <2>0 DEF Unleased, JobRow, ActiveJob, Stopped
  <2>5. Placed' BY <1>1, <2>4, StayPlaced DEF RecoverStale
  <2> QED BY <2>3, <2>5 DEF LabTypeInv
<1>2. CASE ScrubAttempts(j)
  <2>1. attempt' \in [Jobs -> [Attempts -> AttemptStatus]]
    BY <1>t, <1>2 DEF ScrubAttempts, AttemptStatus
  <2>2. LabTypeOK' BY <1>2, <1>t, <2>1 DEF LabTypeOK, ScrubAttempts, AttemptStatus
  <2>3. Placed' BY <1>2, StayPlaced DEF ScrubAttempts
  <2> QED BY <2>2, <2>3 DEF LabTypeInv
<1>3. CASE ScrubJob(j)
  <2>1. job' \in [Jobs -> JobRow] BY <1>t, <1>3, JobUpdates DEF ScrubJob, Stopped
  <2>2. LabTypeOK' BY <1>3, <1>t, <2>1 DEF LabTypeOK, ScrubJob
  <2>3. Placed' BY <1>t, <1>3, StayPlaced DEF ScrubJob, Unleased, JobRow
  <2> QED BY <2>2, <2>3 DEF LabTypeInv
<1> QED BY <1>1, <1>2, <1>3 DEF Maintenance

\* Where a step of one slot leads: it goes on with its job and its attempt.
LEMMA GoesOn ==
  ASSUME LabTypeInv, NEW w \in Workers, worker[w].pc # "idle",
         NEW p \in {"idle", "ready", "calling", "stopping", "finishing"}, Goto(w, p),
         p \in {"calling", "stopping"} => worker[w].att \in Attempts,
         \A j \in Jobs : job[j].status # "none" => job'[j].status # "none"
  PROVE  Placed'
<1>1. worker \in [Workers -> Slot] BY DEF LabTypeInv, LabTypeOK, Slot
<1>2. \A v \in Workers : v # w => worker'[v] = worker[v] BY <1>1 DEF Goto
<1>3. worker'[w] = IF p = "idle" THEN Idle ELSE [worker[w] EXCEPT !.pc = p] BY <1>1 DEF Goto
<1>4. worker'[w].pc = p /\ (p # "idle" => worker'[w].job = worker[w].job /\ worker'[w].att = worker[w].att)
  BY <1>1, <1>3 DEF Idle, Slot
<1> QED BY <1>2, <1>4 DEF LabTypeInv, Placed, MyJob

LEMMA ExecutionType ==
  ASSUME LabTypeInv, NEW w \in Workers, Execution(w) PROVE LabTypeInv'
<1> DEFINE j == MyJob(w)
<1>t. LabTypeOK /\ job \in [Jobs -> JobRow] /\ worker \in [Workers -> Slot]
      /\ worker[w] \in Slot /\ attempt \in [Jobs -> [Attempts -> AttemptStatus]]
  BY DEF LabTypeInv, LabTypeOK, AttemptStatus, Slot
<1>j. worker[w].pc # "idle" => j \in Jobs /\ job[j] \in JobRow /\ job[j].status # "none"
  BY <1>t DEF LabTypeInv, Placed
<1>1. CASE Claim(w)
  <2>1. PICK x \in Jobs :
          /\ job[x].status = "queued" /\ ~job[x].expired
          /\ job' = [job EXCEPT ![x].status = "running", ![x].lease = leases + 1, ![x].live = TRUE]
          /\ worker' = [worker EXCEPT ![w] =
               [Idle EXCEPT !.pc = "ready", !.job = x, !.lease = leases + 1]]
    BY <1>1 DEF Claim
  <2>2. leases' = leases + 1 /\ leases \in Nat /\ leases + 1 \in Nat
    BY <1>1, <1>t DEF Claim, LabTypeOK
  <2>3. job' \in [Jobs -> JobRow]
    <3>1. [job[x] EXCEPT !.status = "running", !.lease = leases + 1, !.live = TRUE] \in JobRow
      BY <1>t, <2>2, JobUpdates DEF ActiveJob
    <3> QED BY <1>t, <2>1, <3>1
  <2>4. [Idle EXCEPT !.pc = "ready", !.job = x, !.lease = leases + 1] \in Slot
    BY <2>2 DEF Idle, Slot
  <2>5. worker' \in [Workers -> Slot] BY <1>t, <2>1, <2>4
  <2>6. LabTypeOK' BY <1>1, <1>t, <2>2, <2>3, <2>5 DEF LabTypeOK, Claim, Slot
  <2>7. Placed' BY <1>t, <2>1 DEF LabTypeInv, Placed, MyJob, Idle, JobRow
  <2> QED BY <2>6, <2>7 DEF LabTypeInv
<1>2. CASE Reserve(w)
  <2>1. PICK i \in FirstPending(j) :
          /\ attempt' = [attempt EXCEPT ![j][i] = "dispatching"]
          /\ worker' = [worker EXCEPT ![w] = [@ EXCEPT !.pc = "reserved", !.att = i]]
    BY <1>2 DEF Reserve
  <2>2. i \in Attempts BY DEF FirstPending, In
  <2>3. j \in Jobs /\ job[j] \in JobRow BY <1>2, <1>j DEF Reserve, At
  <2>4. attempt' \in [Jobs -> [Attempts -> AttemptStatus]]
    BY <1>t, <2>1, <2>2 DEF AttemptStatus
  <2>5. worker' \in [Workers -> Slot]
    <3>1. [worker[w] EXCEPT !.pc = "reserved", !.att = i] \in Slot BY <1>t, <2>2 DEF Slot
    <3> QED BY <1>t, <2>1, <3>1
  <2>6. job' \in [Jobs -> JobRow]
    <3>1. job[j].calls + 1 \in Nat BY <2>3 DEF JobRow
    <3>2. [job[j] EXCEPT !.calls = job[j].calls + 1] \in JobRow BY <2>3, <3>1 DEF JobRow
    <3> QED BY <1>2, <1>t, <2>3, <3>2 DEF Reserve
  <2>7. daily' \in Nat BY <1>2, <1>t DEF Reserve, LabTypeOK
  <2>8. LabTypeOK' BY <1>2, <1>t, <2>4, <2>5, <2>6, <2>7 DEF LabTypeOK, Reserve, AttemptStatus, Slot
  <2>9. Placed'
    <3>1. \A x \in Jobs : job'[x].status = job[x].status BY <1>2, <1>t, <2>3 DEF Reserve, JobRow
    <3>2. worker'[w].pc = "reserved" /\ worker'[w].job = j /\ worker'[w].att = i
      BY <1>t, <2>1 DEF Slot, MyJob
    <3> QED BY <1>t, <1>j, <1>2, <2>1, <2>2, <3>1, <3>2 DEF LabTypeInv, Placed, MyJob, Reserve, At
  <2> QED BY <2>8, <2>9 DEF LabTypeInv
\* The other steps of a slot leave the jobs alone but for the verdict.
<1>a. ASSUME NEW p \in {"idle", "ready", "calling", "stopping", "finishing"}, Goto(w, p),
             worker[w].pc # "idle", p \in {"calling", "stopping"} => worker[w].att \in Attempts,
             UNCHANGED <<job, daily, current, leases, closed, happened>>,
             attempt' \in [Jobs -> [Attempts -> AttemptStatus]],
             sent' \in [Jobs -> [Attempts -> Nat]]
      PROVE  LabTypeInv'
  <2>1. worker' \in [Workers -> Slot] BY <1>t, <1>a, GotoType
  <2>2. LabTypeOK' BY <1>a, <1>t, <2>1 DEF LabTypeOK, AttemptStatus, Slot
  <2>3. Placed' BY <1>a, GoesOn
  <2> QED BY <2>2, <2>3 DEF LabTypeInv
<1>s. sent \in [Jobs -> [Attempts -> Nat]] BY <1>t DEF LabTypeOK
<1>p. worker[w].pc \in {"reserved", "calling", "storing", "stopping"} => worker[w].att \in Attempts
  BY DEF LabTypeInv, Placed
<1>3. CASE NoneLeft(w)
  <2>1. attempt' \in [Jobs -> [Attempts -> AttemptStatus]]
    BY <1>3, <1>t, <1>j, BecomeType DEF NoneLeft, CancelPending, At, AttemptStatus, Outcomes
  <2> QED BY <1>3, <1>a, <1>s, <2>1 DEF NoneLeft, At
<1>4. CASE Dispatch(w)
  <2>1. sent' \in [Jobs -> [Attempts -> Nat]]
    BY <1>4, <1>s, <1>j, <1>p DEF Dispatch, At
  <2> QED BY <1>4, <1>a, <1>t, <1>p, <2>1 DEF Dispatch, At
<1>5. CASE DispatchRefused(w)
  BY <1>5, <1>a, <1>t, <1>p, <1>s DEF DispatchRefused, At
<1>6. CASE Outcome(w)
  <2>1. PICK r \in {"failed", "completed"} :
          worker' = [worker EXCEPT ![w] = [@ EXCEPT !.pc = "storing", !.result = r]]
    BY <1>6 DEF Outcome
  <2>2. [worker[w] EXCEPT !.pc = "storing", !.result = r] \in Slot BY <1>t DEF Slot
  <2>3. worker' \in [Workers -> Slot] BY <1>t, <2>1, <2>2
  <2>4. LabTypeOK' BY <1>6, <1>t, <2>3 DEF Outcome, LabTypeOK, Slot
  <2>5. /\ worker'[w].pc = "storing" /\ worker'[w].job = j
        /\ worker'[w].att = worker[w].att /\ worker'[w].result = r
        /\ \A v \in Workers : v # w => worker'[v] = worker[v]
    BY <1>t, <2>1 DEF Slot, MyJob
  <2>6. Placed' BY <1>6, <1>j, <1>p, <2>5 DEF Outcome, At, LabTypeInv, Placed, MyJob
  <2> QED BY <2>4, <2>6 DEF LabTypeInv
<1>7. CASE Store(w)
  <2>1. worker[w].result \in AttemptStatus
    BY <1>7, <1>t DEF Store, At, LabTypeInv, Placed, Slot, AttemptStatus, Outcomes
  <2>2. attempt' \in [Jobs -> [Attempts -> AttemptStatus]]
    <3>1. j \in Jobs /\ worker[w].att \in Attempts BY <1>7, <1>j, <1>p DEF Store, At
    <3>2. \/ UNCHANGED attempt
          \/ attempt' = [attempt EXCEPT ![j][worker[w].att] = worker[w].result]
      BY <1>7 DEF Store
    <3> QED BY <1>t, <2>1, <3>1, <3>2
  <2> QED BY <1>7, <1>a, <1>s, <2>2 DEF Store, At
<1>8. CASE StopReserved(w)
  <2>1. attempt' \in [Jobs -> [Attempts -> AttemptStatus]]
    BY <1>8, <1>t, <1>j DEF StopReserved, At, AttemptStatus, Outcomes
  <2> QED BY <1>8, <1>a, <1>s, <2>1 DEF StopReserved, At
<1>9. CASE Finish(w)
  <2>1. Verdict(j) \in ActiveJob \cup Stopped BY DEF Verdict, ActiveJob, Stopped
  <2>2. job' \in [Jobs -> JobRow] BY <1>9, <1>t, <1>j, <2>1, JobUpdates DEF Finish, At
  <2>3. \A x \in Jobs : job[x].status # "none" => job'[x].status # "none"
    BY <1>9, <1>t, <1>j, <2>1 DEF Finish, At, Unleased, JobRow, ActiveJob, Stopped
  <2>4. worker' \in [Workers -> Slot] BY <1>9, <1>t, GotoType DEF Finish
  <2>5. LabTypeOK' BY <1>9, <1>t, <2>2, <2>4 DEF Finish, LabTypeOK, Slot
  <2>6. Placed' BY <1>9, <2>3, GoesOn DEF Finish, At
  <2> QED BY <2>5, <2>6 DEF LabTypeInv
<1> QED BY <1>1, <1>2, <1>3, <1>4, <1>5, <1>6, <1>7, <1>8, <1>9 DEF Execution

Circumstance ==
  \/ \E j \in Jobs : Expire(j) \/ Lapse(j)
  \/ \E w \in Workers : Heartbeat(w) \/ Lost(w) \/ Shutdown(w) \/ Restart(w)
  \/ NextDay

LEMMA CircumstanceType == LabTypeInv /\ Circumstance => LabTypeInv'
<1> SUFFICES ASSUME LabTypeInv, Circumstance PROVE LabTypeInv' OBVIOUS
<1>t. LabTypeOK /\ job \in [Jobs -> JobRow] BY DEF LabTypeInv, LabTypeOK
\* A step that sets a flag of one job.
<1>a. ASSUME NEW j \in Jobs, NEW r \in JobRow, job' = [job EXCEPT ![j] = r],
             job[j].status # "none" => r.status # "none",
             UNCHANGED <<attempt, daily, current, leases, worker, closed, sent>>,
             happened' \in [DOMAIN Risk -> Nat]
      PROVE  LabTypeInv'
  <2>1. LabTypeOK' BY <1>a, <1>t DEF LabTypeOK
  <2>2. Placed' BY <1>a, <1>t, StayPlaced
  <2> QED BY <2>1, <2>2 DEF LabTypeInv
<1>h. happened \in [DOMAIN Risk -> Nat] BY <1>t DEF LabTypeOK
<1>1. ASSUME NEW j \in Jobs, Expire(j) PROVE LabTypeInv'
  <2>1. [job[j] EXCEPT !.expired = TRUE] \in JobRow
        /\ [job[j] EXCEPT !.expired = TRUE].status = job[j].status
    BY <1>t DEF JobRow
  <2> QED BY <1>1, <1>a, <1>t, <2>1, HappensType DEF Expire
<1>2. ASSUME NEW j \in Jobs, Lapse(j) PROVE LabTypeInv'
  <2>1. [job[j] EXCEPT !.live = FALSE] \in JobRow
        /\ [job[j] EXCEPT !.live = FALSE].status = job[j].status
    BY <1>t DEF JobRow
  <2>2. happened' \in [DOMAIN Risk -> Nat] BY <1>2, <1>t, <1>h, HappensType DEF Lapse
  <2> QED BY <1>2, <1>a, <2>1, <2>2 DEF Lapse
<1>3. ASSUME NEW w \in Workers, Heartbeat(w) PROVE LabTypeInv'
  <2>1. MyJob(w) \in Jobs BY <1>3 DEF Heartbeat, At, LabTypeInv, Placed
  <2>2. [job[MyJob(w)] EXCEPT !.live = TRUE] \in JobRow
        /\ [job[MyJob(w)] EXCEPT !.live = TRUE].status = job[MyJob(w)].status
    BY <1>t, <2>1 DEF JobRow
  <2> QED BY <1>3, <1>a, <1>h, <2>1, <2>2 DEF Heartbeat
<1>4. ASSUME NEW w \in Workers, Lost(w) PROVE LabTypeInv'
  <2>1. worker' \in [Workers -> Slot] BY <1>4, <1>t, GotoType DEF Lost
  <2>2. LabTypeOK' BY <1>4, <1>t, <2>1, HappensType DEF Lost, LabTypeOK, Slot
  <2>3. Placed' BY <1>4, GoesOn DEF Lost, At
  <2> QED BY <2>2, <2>3 DEF LabTypeInv
<1>5. ASSUME NEW w \in Workers, Shutdown(w) \/ Restart(w) PROVE LabTypeInv'
  <2>1. closed' \subseteq Workers BY <1>5, <1>t DEF Shutdown, Restart, LabTypeOK
  <2>2. happened' \in [DOMAIN Risk -> Nat] BY <1>5, <1>t, <1>h, HappensType DEF Shutdown, Restart
  <2>3. UNCHANGED <<job, attempt, daily, current, leases, worker, sent>>
    BY <1>5 DEF Shutdown, Restart
  <2>4. LabTypeOK' BY <1>t, <2>1, <2>2, <2>3 DEF LabTypeOK
  <2>5. Placed' BY <2>3, StayPlaced
  <2> QED BY <2>4, <2>5 DEF LabTypeInv
<1>6. CASE NextDay
  <2>1. LabTypeOK' BY <1>6, <1>t, HappensType DEF NextDay, LabTypeOK
  <2>2. Placed' BY <1>6, StayPlaced DEF NextDay
  <2> QED BY <2>1, <2>2 DEF LabTypeInv
<1> QED BY <1>1, <1>2, <1>3, <1>4, <1>5, <1>6 DEF Circumstance

\* The steps of the Lab by who takes them.
LEMMA LabSteps ==
  LabNext => \/ \E j \in Jobs : OwnerStep(j) \/ Maintenance(j)
             \/ \E w \in Workers : Execution(w)
             \/ Circumstance
BY DEF LabNext, OwnerStep, Circumstance

LEMMA LabTypeStep == LabTypeInv /\ [LabNext]_labVars => LabTypeInv'
<1>1. LabTypeInv /\ UNCHANGED labVars => LabTypeInv'
  BY DEF labVars, LabTypeInv, LabTypeOK, Placed, MyJob
<1> QED BY <1>1, LabSteps, OwnerType, MaintenanceType, ExecutionType, CircumstanceType

LEMMA LabTypeInvariant == LabSafety => []LabTypeInv
BY LabInitType, LabTypeStep, PTL DEF LabSafety

\* Every reachable state is well typed.
THEOREM LabTypeCorrect == LabSafety => []LabTypeOK
<1>1. LabTypeInv => LabTypeOK BY DEF LabTypeInv
<1> QED BY <1>1, LabTypeInvariant, PTL

----------------------------------------------------------------------------
\* Slot w holds a reserved call that was not issued, for attempt i of j.
Reserving(w, j, i) == worker[w].pc = "reserved" /\ MyJob(w) = j /\ worker[w].att = i

\* What job j has paid for: the calls made, and those a slot is about to make.
Bought(j) == {i \in Attempts : sent[j][i] > 0 \/ \E w \in Workers : Reserving(w, j, i)}

\* A call is made once: a pending attempt was not called, a reserved one was
\* not called yet and is not pending, and one slot holds it.
CallOnce ==
  /\ \A j \in Jobs, i \in Attempts :
       /\ sent[j][i] <= 1
       /\ attempt[j][i] = "pending" \/ job[j].status = "none" => sent[j][i] = 0
  /\ \A w \in Workers, j \in Jobs, i \in Attempts :
       Reserving(w, j, i) =>
         /\ sent[j][i] = 0 /\ attempt[j][i] # "pending"
         /\ \A v \in Workers : Reserving(v, j, i) => v = w

Counted == \A j \in Jobs : Cardinality(Bought(j)) <= job[j].calls /\ job[j].calls <= CallLimit

PaidInv == LabTypeInv /\ CallOnce /\ Counted

\* A step that reserves nothing, calls nothing and makes nothing pending that
\* was called.
Quiet ==
  /\ sent' = sent
  /\ \A w \in Workers, j \in Jobs, i \in Attempts : Reserving(w, j, i)' => Reserving(w, j, i)
  /\ \A j \in Jobs :
       /\ job'[j].calls = job[j].calls
       /\ job'[j].status = "none" => job[j].status = "none"
       /\ \A i \in Attempts : attempt'[j][i] = "pending" =>
            attempt[j][i] = "pending" \/ job[j].status = "none"

LEMMA QuietPays ==
  ASSUME PaidInv, LabTypeInv', Quiet PROVE PaidInv'
<1>1. CallOnce'
  <2>1. ASSUME NEW j \in Jobs, NEW i \in Attempts
        PROVE  /\ sent'[j][i] <= 1
               /\ attempt'[j][i] = "pending" \/ job'[j].status = "none" => sent'[j][i] = 0
    BY DEF PaidInv, CallOnce, Quiet
  <2>2. ASSUME NEW w \in Workers, NEW j \in Jobs, NEW i \in Attempts, Reserving(w, j, i)'
        PROVE  /\ sent'[j][i] = 0 /\ attempt'[j][i] # "pending"
               /\ \A v \in Workers : Reserving(v, j, i)' => v = w
    <3>1. Reserving(w, j, i) BY <2>2 DEF Quiet
    <3>2. job[j].status # "none"
      BY <3>1 DEF Reserving, PaidInv, LabTypeInv, Placed
    <3> QED BY <3>1, <3>2 DEF PaidInv, CallOnce, Quiet
  <2> QED BY <2>1, <2>2 DEF CallOnce
<1>2. Counted'
  <2> SUFFICES ASSUME NEW j \in Jobs
               PROVE  Cardinality(Bought(j)') <= job'[j].calls /\ job'[j].calls <= CallLimit
    BY DEF Counted
  <2>1. Bought(j)' \subseteq Bought(j) BY DEF Quiet, Bought
  <2>2. IsFiniteSet(Bought(j)) BY AttemptsFinite, FS_Subset DEF Bought
  <2>3. /\ Cardinality(Bought(j)') <= Cardinality(Bought(j))
        /\ Cardinality(Bought(j)') \in Nat /\ Cardinality(Bought(j)) \in Nat
    BY <2>1, <2>2, FS_Subset, FS_CardinalityType
  <2>4. job[j].calls \in Nat /\ job'[j].calls = job[j].calls
    BY DEF PaidInv, LabTypeInv, LabTypeOK, JobRow, Quiet
  <2> QED BY <2>3, <2>4 DEF PaidInv, Counted
<1> QED BY <1>1, <1>2 DEF PaidInv

\* A reservation buys one attempt, which is on the books at once.
LEMMA ReservePays ==
  ASSUME PaidInv, LabTypeInv', NEW w \in Workers, Reserve(w) PROVE PaidInv'
<1> DEFINE j == MyJob(w)
<1>t. /\ job \in [Jobs -> JobRow] /\ j \in Jobs /\ job[j].status # "none"
      /\ job[j].calls \in Nat /\ worker \in [Workers -> Slot]
      /\ attempt \in [Jobs -> [Attempts -> AttemptStatus]]
      /\ sent \in [Jobs -> [Attempts -> Nat]]
  BY DEF PaidInv, LabTypeInv, LabTypeOK, Placed, Reserve, At, JobRow, Slot, AttemptStatus
<1>1. PICK i \in FirstPending(j) :
        /\ attempt' = [attempt EXCEPT ![j][i] = "dispatching"]
        /\ worker' = [worker EXCEPT ![w] = [@ EXCEPT !.pc = "reserved", !.att = i]]
  BY DEF Reserve
<1>2. i \in Attempts /\ attempt[j][i] = "pending" BY DEF FirstPending, In
<1>3. sent' = sent /\ job' = [job EXCEPT ![j].calls = job[j].calls + 1] BY DEF Reserve
<1>4. \A v \in Workers, x \in Jobs, k \in Attempts :
        Reserving(v, x, k)' <=> IF v = w THEN x = j /\ k = i ELSE Reserving(v, x, k)
  <2>1. /\ worker'[w].pc = "reserved" /\ worker'[w].job = j /\ worker'[w].att = i
        /\ \A v \in Workers : v # w => worker'[v] = worker[v]
    BY <1>t, <1>1 DEF Slot, MyJob
  <2> QED BY <2>1 DEF Reserving, MyJob
<1>5. /\ attempt'[j][i] = "dispatching"
      /\ \A x \in Jobs, k \in Attempts : <<x, k>> # <<j, i>> => attempt'[x][k] = attempt[x][k]
  BY <1>t, <1>1, <1>2
<1>6. \A x \in Jobs : /\ job'[x].status = job[x].status
                      /\ job'[x].calls = IF x = j THEN job[j].calls + 1 ELSE job[x].calls
  BY <1>t, <1>3 DEF JobRow
<1>7. sent[j][i] = 0 BY <1>t, <1>2 DEF PaidInv, CallOnce
<1>8. \A v \in Workers : ~Reserving(v, j, i)
  BY <1>t, <1>2 DEF PaidInv, CallOnce
<1>9. CallOnce'
  <2>1. ASSUME NEW x \in Jobs, NEW k \in Attempts
        PROVE  /\ sent'[x][k] <= 1
               /\ attempt'[x][k] = "pending" \/ job'[x].status = "none" => sent'[x][k] = 0
    BY <1>2, <1>3, <1>5, <1>6 DEF PaidInv, CallOnce
  <2>2. ASSUME NEW v \in Workers, NEW x \in Jobs, NEW k \in Attempts, Reserving(v, x, k)'
        PROVE  /\ sent'[x][k] = 0 /\ attempt'[x][k] # "pending"
               /\ \A u \in Workers : Reserving(u, x, k)' => u = v
    <3>1. CASE x = j /\ k = i BY <1>3, <1>4, <1>5, <1>7, <1>8, <2>2, <3>1
    <3>2. CASE ~(x = j /\ k = i)
      BY <1>3, <1>4, <1>5, <2>2, <3>2 DEF PaidInv, CallOnce
    <3> QED BY <3>1, <3>2
  <2> QED BY <2>1, <2>2 DEF CallOnce
<1>10. Counted'
  <2> SUFFICES ASSUME NEW x \in Jobs
               PROVE  Cardinality(Bought(x)') <= job'[x].calls /\ job'[x].calls <= CallLimit
    BY DEF Counted
  <2>1. IsFiniteSet(Bought(x)) BY AttemptsFinite, FS_Subset DEF Bought
  <2>2. Cardinality(Bought(x)) \in Nat BY <2>1, FS_CardinalityType
  <2>3. job[x].calls \in Nat /\ CallLimit \in Nat BY <1>t, LabAssumption DEF JobRow
  <2>4. CASE x = j
    <3>1. Bought(x)' \subseteq Bought(x) \cup {i} BY <1>3, <1>4, <2>4 DEF Bought
    <3>2. /\ IsFiniteSet(Bought(x) \cup {i})
          /\ Cardinality(Bought(x) \cup {i}) <= Cardinality(Bought(x)) + 1
      <4>1. /\ IsFiniteSet(Bought(x) \cup {i})
            /\ Cardinality(Bought(x) \cup {i}) =
                 IF i \in Bought(x) THEN Cardinality(Bought(x)) ELSE Cardinality(Bought(x)) + 1
        BY <2>1, FS_AddElement
      <4> QED BY <2>2, <4>1
    <3>3. /\ Cardinality(Bought(x)') <= Cardinality(Bought(x) \cup {i})
          /\ Cardinality(Bought(x)') \in Nat /\ Cardinality(Bought(x) \cup {i}) \in Nat
      BY <3>1, <3>2, FS_Subset, FS_CardinalityType
    <3>4. job[x].calls < CallLimit
      BY <2>3, <2>4 DEF Reserve, Barred
    <3>5. job'[x].calls = job[x].calls + 1 BY <1>6, <2>4
    <3>6. Cardinality(Bought(x)) <= job[x].calls BY DEF PaidInv, Counted
    <3> QED BY <2>2, <2>3, <3>2, <3>3, <3>4, <3>5, <3>6
  <2>5. CASE x # j
    <3>1. Bought(x)' \subseteq Bought(x) BY <1>3, <1>4, <2>5 DEF Bought
    <3>2. Cardinality(Bought(x)') <= Cardinality(Bought(x)) /\ Cardinality(Bought(x)') \in Nat
      BY <2>1, <3>1, FS_Subset, FS_CardinalityType
    <3> QED BY <1>6, <2>2, <2>3, <2>5, <3>2 DEF PaidInv, Counted
  <2> QED BY <2>4, <2>5
<1> QED BY <1>9, <1>10 DEF PaidInv

\* What a step that moves slots by Goto, or not at all, does to reservations.
LEMMA NoNewReservation ==
  ASSUME LabTypeInv,
         \/ UNCHANGED worker
         \/ \E w \in Workers : \E p \in {"idle", "ready", "calling", "stopping", "finishing"} : Goto(w, p)
  PROVE  \A w \in Workers, j \in Jobs, i \in Attempts : Reserving(w, j, i)' => Reserving(w, j, i)
<1>1. CASE UNCHANGED worker BY <1>1 DEF Reserving, MyJob
<1>2. ASSUME NEW w \in Workers,
             NEW p \in {"idle", "ready", "calling", "stopping", "finishing"}, Goto(w, p)
      PROVE  \A v \in Workers : worker'[v].pc = "reserved" => worker'[v] = worker[v]
  <2>1. worker \in [Workers -> Slot] BY DEF LabTypeInv, LabTypeOK, Slot
  <2>2. \A v \in Workers : v # w => worker'[v] = worker[v] BY <1>2, <2>1 DEF Goto
  <2>3. worker'[w].pc = p BY <1>2, <2>1 DEF Goto, Idle, Slot
  <2> QED BY <2>2, <2>3
<1> QED BY <1>1, <1>2 DEF Reserving, MyJob

\* A dispatch turns a reservation into a call; what was bought stays the same.
LEMMA DispatchBuysNothing ==
  ASSUME LabTypeInv, NEW w \in Workers, Dispatch(w)
  PROVE  \A x \in Jobs : Bought(x)' \subseteq Bought(x)
<1> DEFINE j == MyJob(w)
           i == worker[w].att
<1>t. /\ j \in Jobs /\ i \in Attempts /\ worker \in [Workers -> Slot]
      /\ sent \in [Jobs -> [Attempts -> Nat]]
  BY DEF LabTypeInv, LabTypeOK, Placed, Dispatch, At, Slot
<1>1. sent' = [sent EXCEPT ![j][i] = @ + 1] BY DEF Dispatch
<1>2. Reserving(w, j, i) BY DEF Dispatch, At, Reserving
<1>4. \A x \in Jobs, k \in Attempts : ~(x = j /\ k = i) => sent'[x][k] = sent[x][k]
  BY <1>t, <1>1
<1>5. \A v \in Workers, x \in Jobs, k \in Attempts : Reserving(v, x, k)' => Reserving(v, x, k)
  BY <1>t, NoNewReservation DEF Dispatch
<1> SUFFICES ASSUME NEW x \in Jobs, NEW k \in Attempts, k \in Bought(x)' PROVE k \in Bought(x)
  BY DEF Bought
<1>6. CASE x = j /\ k = i BY <1>2, <1>6 DEF Bought
<1>7. CASE ~(x = j /\ k = i) BY <1>4, <1>5, <1>7 DEF Bought
<1> QED BY <1>6, <1>7

LEMMA DispatchPays ==
  ASSUME PaidInv, LabTypeInv', NEW w \in Workers, Dispatch(w) PROVE PaidInv'
<1> DEFINE j == MyJob(w)
           i == worker[w].att
<1>t. /\ j \in Jobs /\ i \in Attempts /\ worker \in [Workers -> Slot]
      /\ sent \in [Jobs -> [Attempts -> Nat]] /\ job[j].status # "none"
  BY DEF PaidInv, LabTypeInv, LabTypeOK, Placed, Dispatch, At, Slot
<1>1. sent' = [sent EXCEPT ![j][i] = @ + 1] /\ UNCHANGED <<job, attempt>> BY DEF Dispatch
<1>2. Reserving(w, j, i) BY DEF Dispatch, At, Reserving
<1>3. sent[j][i] = 0 /\ attempt[j][i] # "pending" /\ \A v \in Workers : Reserving(v, j, i) => v = w
  BY <1>t, <1>2 DEF PaidInv, CallOnce
<1>4. sent'[j][i] = 1 /\ \A x \in Jobs, k \in Attempts : <<x, k>> # <<j, i>> => sent'[x][k] = sent[x][k]
  BY <1>t, <1>1, <1>3
<1>5. \A v \in Workers, x \in Jobs, k \in Attempts :
        Reserving(v, x, k)' <=> v # w /\ Reserving(v, x, k)
  <2>1. worker'[w].pc = "calling" /\ \A v \in Workers : v # w => worker'[v] = worker[v]
    BY <1>t DEF Dispatch, Goto, Slot
  <2> QED BY <2>1 DEF Reserving, MyJob
<1>6. CallOnce'
  <2>1. ASSUME NEW x \in Jobs, NEW k \in Attempts
        PROVE  /\ sent'[x][k] <= 1
               /\ attempt'[x][k] = "pending" \/ job'[x].status = "none" => sent'[x][k] = 0
    BY <1>t, <1>1, <1>3, <1>4 DEF PaidInv, CallOnce
  <2>2. ASSUME NEW v \in Workers, NEW x \in Jobs, NEW k \in Attempts, Reserving(v, x, k)'
        PROVE  /\ sent'[x][k] = 0 /\ attempt'[x][k] # "pending"
               /\ \A u \in Workers : Reserving(u, x, k)' => u = v
    BY <1>1, <1>3, <1>4, <1>5, <2>2 DEF PaidInv, CallOnce
  <2> QED BY <2>1, <2>2 DEF CallOnce
<1>7. \A x \in Jobs : Bought(x)' \subseteq Bought(x) BY DispatchBuysNothing DEF PaidInv
<1>8. Counted'
  <2> SUFFICES ASSUME NEW x \in Jobs
               PROVE  Cardinality(Bought(x)') <= job[x].calls /\ job[x].calls <= CallLimit
    BY <1>1 DEF Counted
  <2>1. IsFiniteSet(Bought(x)) BY AttemptsFinite, FS_Subset DEF Bought
  <2>2. /\ Cardinality(Bought(x)') <= Cardinality(Bought(x))
        /\ Cardinality(Bought(x)') \in Nat /\ Cardinality(Bought(x)) \in Nat
    BY <1>7, <2>1, FS_Subset, FS_CardinalityType
  <2>3. job[x].calls \in Nat BY DEF PaidInv, LabTypeInv, LabTypeOK, JobRow
  <2> QED BY <2>2, <2>3 DEF PaidInv, Counted
<1> QED BY <1>6, <1>8 DEF PaidInv

\* What a step that leaves the counts alone does to the jobs and attempts.
QuietJobs ==
  \A j \in Jobs :
    /\ job'[j].calls = job[j].calls
    /\ job'[j].status = "none" => job[j].status = "none"
    /\ \A i \in Attempts : attempt'[j][i] = "pending" =>
         attempt[j][i] = "pending" \/ job[j].status = "none"

LEMMA OwnerQuiet ==
  ASSUME LabTypeInv, NEW j \in Jobs, OwnerStep(j) PROVE Quiet
<1>t. /\ job \in [Jobs -> JobRow] /\ attempt \in [Jobs -> [Attempts -> AttemptStatus]]
  BY DEF LabTypeInv, LabTypeOK, AttemptStatus
<1>1. sent' = sent /\ worker' = worker BY DEF OwnerStep, Start, Cancel, Retract, Tombstone
<1>2. QuietJobs
  <2>1. CASE Start(j) BY <1>t, <2>1 DEF Start, Become, QuietJobs, JobRow
  <2>2. CASE Cancel(j)
    BY <1>t, <2>2 DEF Cancel, CancelPending, Become, QuietJobs, JobRow, ActiveJob
  <2>3. CASE Retract(j) BY <2>3 DEF Retract, QuietJobs
  <2>4. CASE Tombstone(j) BY <1>t, <2>4 DEF Tombstone, Unleased, QuietJobs, JobRow
  <2> QED BY <2>1, <2>2, <2>3, <2>4 DEF OwnerStep
<1> QED BY <1>1, <1>2, NoNewReservation DEF Quiet, QuietJobs

LEMMA MaintenanceQuiet ==
  ASSUME LabTypeInv, NEW j \in Jobs, Maintenance(j) PROVE Quiet
<1>t. /\ job \in [Jobs -> JobRow] /\ attempt \in [Jobs -> [Attempts -> AttemptStatus]]
  BY DEF LabTypeInv, LabTypeOK, AttemptStatus
<1>1. sent' = sent /\ worker' = worker BY DEF Maintenance, RecoverStale, ScrubAttempts, ScrubJob
<1>2. QuietJobs
  <2>1. CASE RecoverStale(j)
    <3>1. PICK s \in ActiveJob \cup Stopped : job' = [job EXCEPT ![j] = Unleased(job[j], s)]
      BY <2>1 DEF RecoverStale, ActiveJob, Stopped
    <3>2. \A x \in Jobs : /\ job'[x].calls = job[x].calls
                          /\ job'[x].status = "none" => job[x].status = "none"
      BY <1>t, <3>1 DEF Unleased, JobRow, ActiveJob, Stopped
    <3>3. \A x \in Jobs, i \in Attempts : attempt'[x][i] = "pending" => attempt[x][i] = "pending"
      BY <1>t, <2>1 DEF RecoverStale
    <3> QED BY <3>2, <3>3 DEF QuietJobs
  <2>2. CASE ScrubAttempts(j) BY <1>t, <2>2 DEF ScrubAttempts, QuietJobs
  <2>3. CASE ScrubJob(j) BY <1>t, <2>3 DEF ScrubJob, Unleased, QuietJobs, JobRow
  <2> QED BY <2>1, <2>2, <2>3 DEF Maintenance
<1> QED BY <1>1, <1>2, NoNewReservation DEF Quiet, QuietJobs

LEMMA ExecutionQuiet ==
  ASSUME LabTypeInv, NEW w \in Workers, Execution(w), ~Reserve(w), ~Dispatch(w) PROVE Quiet
<1>t. /\ LabTypeInv /\ job \in [Jobs -> JobRow] /\ worker \in [Workers -> Slot]
      /\ attempt \in [Jobs -> [Attempts -> AttemptStatus]]
  BY DEF LabTypeInv, LabTypeOK, AttemptStatus, Slot
<1>j. worker[w].pc # "idle" => MyJob(w) \in Jobs /\ job[MyJob(w)].status # "none"
  BY <1>t DEF LabTypeInv, Placed
<1>3. CASE Claim(w)
  <2>1. PICK x \in Jobs :
          /\ job[x].status = "queued"
          /\ job' = [job EXCEPT ![x].status = "running", ![x].lease = leases + 1, ![x].live = TRUE]
          /\ worker' = [worker EXCEPT ![w] =
               [Idle EXCEPT !.pc = "ready", !.job = x, !.lease = leases + 1]]
    BY <1>3 DEF Claim
  <2>2. QuietJobs BY <1>3, <1>t, <2>1 DEF Claim, QuietJobs, JobRow
  <2>3. \A v \in Workers : worker'[v].pc = "reserved" => worker'[v] = worker[v]
    BY <1>t, <2>1 DEF Idle
  <2> QED BY <1>3, <2>2, <2>3 DEF Claim, Quiet, QuietJobs, Reserving, MyJob
<1>4. CASE Outcome(w)
  <2>1. \A v \in Workers : worker'[v].pc = "reserved" => worker'[v] = worker[v]
    BY <1>4, <1>t DEF Outcome, Slot
  <2> QED BY <1>4, <2>1 DEF Outcome, Quiet, Reserving, MyJob
<1>5. CASE Finish(w)
  <2>1. Verdict(MyJob(w)) # "none" BY DEF Verdict
  <2>2. attempt' = attempt /\ MyJob(w) \in Jobs
        /\ \/ UNCHANGED job
           \/ job' = [job EXCEPT ![MyJob(w)] = Unleased(job[MyJob(w)], Verdict(MyJob(w)))]
    BY <1>5, <1>j DEF Finish, At
  <2>4. \A r \in JobRow : \A v : Unleased(r, v).status = v /\ Unleased(r, v).calls = r.calls
    BY DEF Unleased, JobRow
  <2>5. \A x \in Jobs : /\ job'[x].calls = job[x].calls
                        /\ job'[x].status = "none" => job[x].status = "none"
    BY <1>t, <2>1, <2>2, <2>4
  <2> QED BY <1>5, <1>t, <2>2, <2>5, NoNewReservation DEF Finish, Quiet
<1>6. ASSUME sent' = sent, job' = job,
             \E p \in {"idle", "ready", "calling", "stopping", "finishing"} : Goto(w, p),
             \A x \in Jobs, i \in Attempts : attempt'[x][i] = "pending" => attempt[x][i] = "pending"
      PROVE  Quiet
  BY <1>6, <1>t, NoNewReservation DEF Quiet
<1>7. CASE NoneLeft(w)
  <2>1. \A x \in Jobs, i \in Attempts : attempt'[x][i] = "pending" => attempt[x][i] = "pending"
    <3>1. MyJob(w) \in Jobs BY <1>7, <1>j DEF NoneLeft, At
    <3>2. UNCHANGED attempt \/ CancelPending(MyJob(w)) BY <1>7 DEF NoneLeft
    <3> QED BY <1>t, <3>1, <3>2 DEF CancelPending, Become
  <2> QED BY <1>6, <1>7, <2>1 DEF NoneLeft
<1>8. CASE DispatchRefused(w) BY <1>6, <1>8 DEF DispatchRefused
<1>9. CASE Store(w)
  <2>1. worker[w].result # "pending" BY <1>t DEF Slot
  <2>2. \/ UNCHANGED attempt
        \/ attempt' = [attempt EXCEPT ![MyJob(w)][worker[w].att] = worker[w].result]
    BY <1>9 DEF Store
  <2>3. \A x \in Jobs, i \in Attempts : attempt'[x][i] = "pending" => attempt[x][i] = "pending"
    BY <1>t, <2>1, <2>2
  <2> QED BY <1>6, <1>9, <2>3 DEF Store
<1>10. CASE StopReserved(w)
  <2>1. \A x \in Jobs, i \in Attempts : attempt'[x][i] = "pending" => attempt[x][i] = "pending"
    BY <1>10, <1>t, <1>j DEF StopReserved, At
  <2> QED BY <1>6, <1>10, <2>1 DEF StopReserved
<1> QED BY <1>3, <1>4, <1>5, <1>7, <1>8, <1>9, <1>10 DEF Execution

LEMMA ExecutionPays ==
  ASSUME PaidInv, LabTypeInv', NEW w \in Workers, Execution(w) PROVE PaidInv'
BY ReservePays, DispatchPays, ExecutionQuiet, QuietPays DEF PaidInv

LEMMA CircumstanceQuiet == LabTypeInv /\ Circumstance => Quiet
<1> SUFFICES ASSUME LabTypeInv, Circumstance PROVE Quiet OBVIOUS
<1>t. job \in [Jobs -> JobRow] BY DEF LabTypeInv, LabTypeOK
<1>1. sent' = sent /\ attempt' = attempt
  BY DEF Circumstance, Expire, Lapse, Heartbeat, Lost, Shutdown, Restart, NextDay
<1>2. \/ UNCHANGED worker
      \/ \E w \in Workers : Goto(w, "idle")
  BY DEF Circumstance, Expire, Lapse, Heartbeat, Lost, Shutdown, Restart, NextDay
<1>3. \A j \in Jobs : job'[j].calls = job[j].calls /\ job'[j].status = job[j].status
  BY <1>t DEF Circumstance, Expire, Lapse, Heartbeat, Lost, Shutdown, Restart, NextDay, JobRow
<1> QED BY <1>1, <1>2, <1>3, NoNewReservation DEF Quiet

LEMMA PaidInit == LabInit => PaidInv
<1> SUFFICES ASSUME LabInit PROVE PaidInv OBVIOUS
<1>1. CallOnce BY DEF LabInit, CallOnce, Reserving, Idle
<1>2. ASSUME NEW j \in Jobs PROVE Cardinality(Bought(j)) <= job[j].calls /\ job[j].calls <= CallLimit
  <2>1. Bought(j) = {} BY <1>2 DEF LabInit, Bought, Reserving, Idle
  <2>2. job[j].calls = 0 BY <1>2 DEF LabInit, Unborn
  <2> QED BY <2>1, <2>2, FS_EmptySet, LabAssumption
<1> QED BY <1>1, <1>2, LabInitType DEF PaidInv, Counted

LEMMA PaidStep == PaidInv /\ [LabNext]_labVars => PaidInv'
<1> SUFFICES ASSUME PaidInv, [LabNext]_labVars PROVE PaidInv' OBVIOUS
<1>1. LabTypeInv /\ LabTypeInv' BY LabTypeStep DEF PaidInv
<1>2. CASE UNCHANGED labVars
  <2>1. Quiet BY <1>2 DEF labVars, Quiet, Reserving, MyJob
  <2> QED BY <1>1, <2>1, QuietPays
<1> QED BY <1>1, <1>2, LabSteps, OwnerQuiet, MaintenanceQuiet, CircumstanceQuiet, QuietPays, ExecutionPays

LEMMA PaidInvariant == LabSafety => []PaidInv
BY PaidInit, PaidStep, PTL DEF LabSafety

\* No attempt is paid twice and no batch calls more than was reserved for it,
\* whatever is lost, recovered, resumed or late.
THEOREM PaidOnceHolds == LabSafety => []PaidOnce
<1>1. PaidInv => PaidOnce
  <2> SUFFICES ASSUME PaidInv, NEW j \in Jobs
               PROVE  /\ \A i \in Attempts : sent[j][i] <= 1
                      /\ Cardinality(Called(j)) <= job[j].calls
                      /\ job[j].calls <= CallLimit
    BY DEF PaidOnce
  <2>1. Called(j) \subseteq Bought(j) BY DEF Called, Bought
  <2>2. IsFiniteSet(Bought(j)) BY AttemptsFinite, FS_Subset DEF Bought
  <2>3. /\ Cardinality(Called(j)) <= Cardinality(Bought(j))
        /\ Cardinality(Called(j)) \in Nat /\ Cardinality(Bought(j)) \in Nat
    BY <2>1, <2>2, FS_Subset, FS_CardinalityType
  <2>4. job[j].calls \in Nat BY DEF PaidInv, LabTypeInv, LabTypeOK, JobRow
  <2> QED BY <2>3, <2>4 DEF PaidInv, CallOnce, Counted
<1> QED BY <1>1, PaidInvariant, PTL

----------------------------------------------------------------------------
\* Slot w was refused the dispatch of attempt i of j and is about to cancel it.
Stopping(w, j, i) == worker[w].pc = "stopping" /\ MyJob(w) = j /\ worker[w].att = i

\* What is cancelled, or about to be, was not called and cannot be any more.
NotCalled ==
  /\ \A j \in Jobs, i \in Attempts : attempt[j][i] = "cancelled" => sent[j][i] = 0
  /\ \A w \in Workers, j \in Jobs, i \in Attempts : Stopping(w, j, i) =>
       /\ sent[j][i] = 0 /\ attempt[j][i] # "pending"
       /\ \A v \in Workers : ~Reserving(v, j, i)

\* A step that refuses no dispatch and cancels only what waits.
Lenient ==
  /\ \A w \in Workers, j \in Jobs, i \in Attempts : Stopping(w, j, i)' => Stopping(w, j, i)
  /\ \A j \in Jobs, i \in Attempts :
       attempt'[j][i] = "cancelled" => attempt[j][i] \in {"cancelled", "pending"}

LEMMA LenientCancels ==
  ASSUME PaidInv, NotCalled, Quiet, Lenient PROVE NotCalled'
<1>1. ASSUME NEW j \in Jobs, NEW i \in Attempts, attempt'[j][i] = "cancelled"
      PROVE  sent'[j][i] = 0
  BY <1>1 DEF PaidInv, CallOnce, NotCalled, Quiet, Lenient
<1>2. ASSUME NEW w \in Workers, NEW j \in Jobs, NEW i \in Attempts, Stopping(w, j, i)'
      PROVE  /\ sent'[j][i] = 0 /\ attempt'[j][i] # "pending"
             /\ \A v \in Workers : ~Reserving(v, j, i)'
  <2>1. Stopping(w, j, i) BY <1>2 DEF Lenient
  <2>2. job[j].status # "none" BY <2>1 DEF Stopping, PaidInv, LabTypeInv, Placed
  <2> QED BY <2>1, <2>2 DEF NotCalled, Quiet
<1> QED BY <1>1, <1>2 DEF NotCalled

\* What a slot that moves by Goto does to the refused dispatches.
LEMMA NoNewRefusal ==
  ASSUME LabTypeInv,
         \/ UNCHANGED worker
         \/ \E w \in Workers : \E p \in {"idle", "ready", "calling", "finishing"} : Goto(w, p)
  PROVE  \A w \in Workers, j \in Jobs, i \in Attempts : Stopping(w, j, i)' => Stopping(w, j, i)
<1>1. CASE UNCHANGED worker BY <1>1 DEF Stopping, MyJob
<1>2. ASSUME NEW w \in Workers, NEW p \in {"idle", "ready", "calling", "finishing"}, Goto(w, p)
      PROVE  \A v \in Workers : worker'[v].pc = "stopping" => worker'[v] = worker[v]
  <2>1. worker \in [Workers -> Slot] BY DEF LabTypeInv, LabTypeOK, Slot
  <2>2. \A v \in Workers : v # w => worker'[v] = worker[v] BY <1>2, <2>1 DEF Goto
  <2>3. worker'[w].pc = p BY <1>2, <2>1 DEF Goto, Idle, Slot
  <2> QED BY <2>2, <2>3
<1> QED BY <1>1, <1>2 DEF Stopping, MyJob

LEMMA OwnerLenient ==
  ASSUME LabTypeInv, NEW j \in Jobs, OwnerStep(j) \/ Maintenance(j) PROVE Lenient
<1>t. attempt \in [Jobs -> [Attempts -> AttemptStatus]] BY DEF LabTypeInv, LabTypeOK, AttemptStatus
<1>1. worker' = worker
  BY DEF OwnerStep, Start, Cancel, Retract, Tombstone, Maintenance, RecoverStale,
         ScrubAttempts, ScrubJob
<1>2. \A x \in Jobs, i \in Attempts :
        attempt'[x][i] = "cancelled" => attempt[x][i] \in {"cancelled", "pending"}
  <2>1. CASE Start(j) BY <1>t, <2>1 DEF Start, Become
  <2>2. CASE Cancel(j) BY <1>t, <2>2 DEF Cancel, CancelPending, Become
  <2>3. CASE Retract(j) \/ ScrubJob(j) BY <2>3 DEF Retract, ScrubJob
  <2>4. CASE Tombstone(j) \/ ScrubAttempts(j) BY <1>t, <2>4 DEF Tombstone, ScrubAttempts
  <2>5. CASE RecoverStale(j) BY <1>t, <2>5 DEF RecoverStale
  <2> QED BY <2>1, <2>2, <2>3, <2>4, <2>5 DEF OwnerStep, Maintenance
<1> QED BY <1>1, <1>2, NoNewRefusal DEF Lenient

LEMMA CircumstanceLenient == LabTypeInv /\ Circumstance => Lenient
<1> SUFFICES ASSUME LabTypeInv, Circumstance PROVE Lenient OBVIOUS
<1>1. attempt' = attempt
  BY DEF Circumstance, Expire, Lapse, Heartbeat, Lost, Shutdown, Restart, NextDay
<1>2. \/ UNCHANGED worker
      \/ \E w \in Workers : Goto(w, "idle")
  BY DEF Circumstance, Expire, Lapse, Heartbeat, Lost, Shutdown, Restart, NextDay
<1> QED BY <1>1, <1>2, NoNewRefusal DEF Lenient

LEMMA ExecutionLenient ==
  ASSUME LabTypeInv, NEW w \in Workers,
         Claim(w) \/ NoneLeft(w) \/ Outcome(w) \/ Store(w) \/ Finish(w)
  PROVE  Lenient
<1>t. /\ attempt \in [Jobs -> [Attempts -> AttemptStatus]] /\ worker \in [Workers -> Slot]
  BY DEF LabTypeInv, LabTypeOK, AttemptStatus, Slot
<1>j. worker[w].pc # "idle" => MyJob(w) \in Jobs BY DEF LabTypeInv, Placed
<1>1. CASE Claim(w) \/ Outcome(w)
  <2>1. \A v \in Workers : worker'[v].pc = "stopping" => worker'[v] = worker[v]
    BY <1>t, <1>1 DEF Claim, Outcome, Idle, Slot
  <2> QED BY <1>1, <2>1 DEF Claim, Outcome, Lenient, Stopping, MyJob
<1>2. CASE NoneLeft(w)
  <2>1. MyJob(w) \in Jobs /\ (UNCHANGED attempt \/ CancelPending(MyJob(w)))
    BY <1>2, <1>j DEF NoneLeft, At
  <2>2. \A x \in Jobs, i \in Attempts :
          attempt'[x][i] = "cancelled" => attempt[x][i] \in {"cancelled", "pending"}
    BY <1>t, <2>1 DEF CancelPending, Become
  <2> QED BY <1>2, <2>2, NoNewRefusal DEF NoneLeft, Lenient
<1>3. CASE Store(w)
  <2>1. worker[w].result # "cancelled" BY <1>t DEF Slot
  <2>2. \/ UNCHANGED attempt
        \/ attempt' = [attempt EXCEPT ![MyJob(w)][worker[w].att] = worker[w].result]
    BY <1>3 DEF Store
  <2>3. \A x \in Jobs, i \in Attempts : attempt'[x][i] = "cancelled" => attempt[x][i] = "cancelled"
    BY <1>t, <2>1, <2>2
  <2> QED BY <1>3, <2>3, NoNewRefusal DEF Store, Lenient
<1>4. CASE Finish(w) BY <1>4, NoNewRefusal DEF Finish, Lenient
<1> QED BY <1>1, <1>2, <1>3, <1>4

\* The four steps of a slot that reserve, call, refuse or cancel.
LEMMA ReserveNotCalled ==
  ASSUME PaidInv, NotCalled, NEW w \in Workers, Reserve(w) PROVE NotCalled'
<1> DEFINE j == MyJob(w)
<1>t. /\ j \in Jobs /\ worker \in [Workers -> Slot]
      /\ attempt \in [Jobs -> [Attempts -> AttemptStatus]]
  BY DEF PaidInv, LabTypeInv, LabTypeOK, Placed, Reserve, At, Slot, AttemptStatus
<1>1. PICK i \in FirstPending(j) :
        /\ attempt' = [attempt EXCEPT ![j][i] = "dispatching"]
        /\ worker' = [worker EXCEPT ![w] = [@ EXCEPT !.pc = "reserved", !.att = i]]
  BY DEF Reserve
<1>2. i \in Attempts /\ attempt[j][i] = "pending" /\ sent' = sent BY DEF FirstPending, In, Reserve
<1>3. /\ worker'[w].pc = "reserved" /\ worker'[w].job = j /\ worker'[w].att = i
      /\ \A v \in Workers : v # w => worker'[v] = worker[v]
  BY <1>t, <1>1 DEF Slot, MyJob
<1>4. \A v \in Workers, x \in Jobs, k \in Attempts :
        /\ Stopping(v, x, k)' => Stopping(v, x, k)
        /\ Reserving(v, x, k)' => (x = j /\ k = i) \/ Reserving(v, x, k)
  BY <1>3 DEF Stopping, Reserving, MyJob
<1>5. \A x \in Jobs, k \in Attempts :
        attempt'[x][k] = IF x = j /\ k = i THEN "dispatching" ELSE attempt[x][k]
  BY <1>t, <1>1, <1>2
<1> QED BY <1>2, <1>4, <1>5 DEF NotCalled

LEMMA DispatchNotCalled ==
  ASSUME PaidInv, NotCalled, NEW w \in Workers, Dispatch(w) PROVE NotCalled'
<1> DEFINE j == MyJob(w)
           i == worker[w].att
<1>t. /\ j \in Jobs /\ i \in Attempts /\ worker \in [Workers -> Slot]
      /\ sent \in [Jobs -> [Attempts -> Nat]]
  BY DEF PaidInv, LabTypeInv, LabTypeOK, Placed, Dispatch, At, Slot
<1>1. sent' = [sent EXCEPT ![j][i] = @ + 1] /\ attempt' = attempt /\ attempt[j][i] = "dispatching"
  BY DEF Dispatch, Authorized, MyAttempt
<1>2. Reserving(w, j, i) BY DEF Dispatch, At, Reserving
<1>3. \A x \in Jobs, k \in Attempts : ~(x = j /\ k = i) => sent'[x][k] = sent[x][k]
  BY <1>t, <1>1
<1>4. \A v \in Workers, x \in Jobs, k \in Attempts :
        /\ Stopping(v, x, k)' => Stopping(v, x, k)
        /\ Reserving(v, x, k)' => Reserving(v, x, k)
  <2>1. worker'[w].pc = "calling" /\ \A v \in Workers : v # w => worker'[v] = worker[v]
    BY <1>t DEF Dispatch, Goto, Slot
  <2> QED BY <2>1 DEF Stopping, Reserving, MyJob
<1> QED BY <1>1, <1>2, <1>3, <1>4 DEF NotCalled

LEMMA RefusalNotCalled ==
  ASSUME PaidInv, NotCalled, NEW w \in Workers, DispatchRefused(w) PROVE NotCalled'
<1>t. worker \in [Workers -> Slot] BY DEF PaidInv, LabTypeInv, LabTypeOK, Slot
<1>1. sent' = sent /\ attempt' = attempt /\ worker[w].pc = "reserved" BY DEF DispatchRefused, At
<1>2. /\ worker'[w] = [worker[w] EXCEPT !.pc = "stopping"]
      /\ \A v \in Workers : v # w => worker'[v] = worker[v]
  BY <1>t DEF DispatchRefused, Goto
<1>3. worker'[w].pc = "stopping" /\ worker'[w].job = worker[w].job /\ worker'[w].att = worker[w].att
  BY <1>t, <1>2 DEF Slot
<1>4. \A v \in Workers, x \in Jobs, k \in Attempts :
        /\ Stopping(v, x, k)' => Stopping(v, x, k) \/ (v = w /\ Reserving(w, x, k))
        /\ Reserving(v, x, k)' => v # w /\ Reserving(v, x, k)
  BY <1>1, <1>2, <1>3 DEF Stopping, Reserving, MyJob
<1> QED BY <1>1, <1>4 DEF NotCalled, PaidInv, CallOnce

LEMMA StopNotCalled ==
  ASSUME PaidInv, NotCalled, NEW w \in Workers, StopReserved(w) PROVE NotCalled'
<1> DEFINE j == MyJob(w)
           i == worker[w].att
<1>t. /\ j \in Jobs /\ i \in Attempts /\ worker \in [Workers -> Slot] /\ LabTypeInv
      /\ attempt \in [Jobs -> [Attempts -> AttemptStatus]]
  BY DEF PaidInv, LabTypeInv, LabTypeOK, Placed, StopReserved, At, Slot, AttemptStatus
<1>1. sent' = sent /\ Stopping(w, j, i) BY DEF StopReserved, At, Stopping
<1>2. \A x \in Jobs, k \in Attempts :
        attempt'[x][k] = attempt[x][k] \/ attempt[x][k] = "pending" \/ (x = j /\ k = i)
  BY <1>t DEF StopReserved
<1>3. Goto(w, "finishing") BY DEF StopReserved
<1>4. \A v \in Workers, x \in Jobs, k \in Attempts :
        /\ Stopping(v, x, k)' => Stopping(v, x, k)
        /\ Reserving(v, x, k)' => Reserving(v, x, k)
  BY <1>3, <1>t, NoNewRefusal, NoNewReservation
<1>5. \A x \in Jobs, k \in Attempts : attempt'[x][k] = "pending" => attempt[x][k] = "pending"
  BY <1>t DEF StopReserved
<1> QED BY <1>1, <1>2, <1>4, <1>5 DEF NotCalled, PaidInv, CallOnce

LEMMA NotCalledStep == PaidInv /\ NotCalled /\ [LabNext]_labVars => NotCalled'
<1> SUFFICES ASSUME PaidInv, NotCalled, [LabNext]_labVars PROVE NotCalled' OBVIOUS
<1>t. LabTypeInv BY DEF PaidInv
<1>1. CASE UNCHANGED labVars
  <2>1. Quiet /\ Lenient BY <1>1 DEF labVars, Quiet, Lenient, Reserving, Stopping, MyJob
  <2> QED BY <2>1, LenientCancels
<1>2. ASSUME NEW j \in Jobs, OwnerStep(j) \/ Maintenance(j) PROVE NotCalled'
  BY <1>2, <1>t, OwnerQuiet, MaintenanceQuiet, OwnerLenient, LenientCancels
<1>3. CASE Circumstance BY <1>3, <1>t, CircumstanceQuiet, CircumstanceLenient, LenientCancels
<1>4. ASSUME NEW w \in Workers, Execution(w) PROVE NotCalled'
  <2>1. CASE Reserve(w) BY <2>1, ReserveNotCalled
  <2>2. CASE Dispatch(w) BY <2>2, DispatchNotCalled
  <2>3. CASE DispatchRefused(w) BY <2>3, RefusalNotCalled
  <2>4. CASE StopReserved(w) BY <2>4, StopNotCalled
  <2>5. CASE Claim(w) \/ NoneLeft(w) \/ Outcome(w) \/ Store(w) \/ Finish(w)
    <3>1. CASE Reserve(w) \/ Dispatch(w) BY <3>1, <2>1, <2>2
    <3>2. CASE ~(Reserve(w) \/ Dispatch(w))
      BY <1>4, <1>t, <2>5, <3>2, ExecutionQuiet, ExecutionLenient, LenientCancels
    <3> QED BY <3>1, <3>2
  <2> QED BY <1>4, <2>1, <2>2, <2>3, <2>4, <2>5 DEF Execution
<1> QED BY <1>1, <1>2, <1>3, <1>4, LabSteps

\* No call that was made is ever reported as cancelled before dispatch, whichever
\* worker lost its job meanwhile (reserveAttempt, withCurrentAttempt, cancel).
THEOREM CancelledHolds == LabSafety => []CancelledWasNotCalled
<1>1. LabInit => NotCalled BY DEF LabInit, NotCalled, Stopping, Idle
<1>2. LabSafety => []NotCalled BY <1>1, NotCalledStep, PaidInvariant, PTL DEF LabSafety
<1>3. NotCalled => CancelledWasNotCalled
  <2> SUFFICES ASSUME NotCalled, NEW j \in Jobs, NEW i \in Attempts,
                      attempt[j][i] = "cancelled", sent[j][i] > 0
               PROVE  FALSE
    BY DEF CancelledWasNotCalled, In, Called
  <2> QED BY DEF NotCalled
<1> QED BY <1>2, <1>3, PTL

----------------------------------------------------------------------------
\* What all batches together have paid for.
AllBought ==
  {c \in Jobs \X Attempts : \/ sent[c[1]][c[2]] > 0
                            \/ \E w \in Workers : Reserving(w, c[1], c[2])}

\* Today's budget counts what was bought today; every earlier day had its own.
WithinDays ==
  /\ IsFiniteSet(AllBought)
  /\ Cardinality(AllBought) <= daily + DailyLimit * happened["day"]
  /\ daily <= DailyLimit

LEMMA BudgetType == LabTypeOK => daily \in Nat /\ happened["day"] \in Nat /\ DailyLimit \in Nat
BY LabAssumption DEF LabTypeOK

\* A step that buys nothing and takes nothing off the budget.
LEMMA NothingBought ==
  ASSUME WithinDays, LabTypeOK, LabTypeOK', AllBought' \subseteq AllBought, daily' <= DailyLimit,
         daily + DailyLimit * happened["day"] <= daily' + DailyLimit * happened'["day"]
  PROVE  WithinDays'
<1>1. /\ IsFiniteSet(AllBought') /\ Cardinality(AllBought') <= Cardinality(AllBought)
      /\ Cardinality(AllBought') \in Nat /\ Cardinality(AllBought) \in Nat
  BY FS_Subset, FS_CardinalityType DEF WithinDays
<1>2. /\ daily + DailyLimit * happened["day"] \in Nat
      /\ daily' + DailyLimit * happened'["day"] \in Nat
  <2>1. happened["day"] \in Nat /\ happened'["day"] \in Nat /\ DailyLimit \in Nat
    BY LabAssumption DEF LabTypeOK
  <2>2. daily \in Nat /\ daily' \in Nat BY DEF LabTypeOK
  <2> QED BY <2>1, <2>2
<1> QED BY <1>1, <1>2 DEF WithinDays

LEMMA SameDay ==
  ASSUME WithinDays, LabTypeOK, LabTypeOK', AllBought' \subseteq AllBought,
         daily' = daily, happened'["day"] = happened["day"]
  PROVE  WithinDays'
<1>1. daily + DailyLimit * happened["day"] \in Nat BY BudgetType
<1>2. daily + DailyLimit * happened["day"] <= daily' + DailyLimit * happened'["day"]
  BY <1>1
<1>3. daily' <= DailyLimit BY DEF WithinDays
<1> QED BY <1>2, <1>3, NothingBought

LEMMA QuietBuysNothing ==
  ASSUME LabTypeInv, Quiet PROVE AllBought' \subseteq AllBought
BY DEF Quiet, AllBought

LEMMA ReserveWithinDays ==
  ASSUME WithinDays, LabTypeInv, LabTypeOK', NEW w \in Workers, Reserve(w) PROVE WithinDays'
<1> DEFINE j == MyJob(w)
           h == DailyLimit * happened["day"]
<1>t. /\ j \in Jobs /\ worker \in [Workers -> Slot] /\ LabTypeOK
      /\ daily \in Nat /\ h \in Nat /\ DailyLimit \in Nat
  BY BudgetType DEF LabTypeInv, LabTypeOK, Placed, Reserve, At, Slot
<1>1. PICK i \in FirstPending(j) :
        worker' = [worker EXCEPT ![w] = [@ EXCEPT !.pc = "reserved", !.att = i]]
  BY DEF Reserve
<1>2. /\ sent' = sent /\ daily' = daily + 1 /\ happened' = happened /\ daily < DailyLimit
  BY <1>t DEF Reserve, Barred
<1>3. /\ worker'[w].job = j /\ worker'[w].att = i
      /\ \A v \in Workers : v # w => worker'[v] = worker[v]
  BY <1>t, <1>1 DEF Slot, MyJob
<1>4. AllBought' \subseteq AllBought \cup {<<j, i>>}
  <2>1. \A v \in Workers, x \in Jobs, k \in Attempts :
          Reserving(v, x, k)' => (x = j /\ k = i) \/ Reserving(v, x, k)
    BY <1>3 DEF Reserving, MyJob
  <2> QED BY <1>2, <2>1 DEF AllBought
<1>5. /\ IsFiniteSet(AllBought \cup {<<j, i>>}) /\ Cardinality(AllBought) \in Nat
      /\ Cardinality(AllBought \cup {<<j, i>>}) =
           IF <<j, i>> \in AllBought THEN Cardinality(AllBought) ELSE Cardinality(AllBought) + 1
  BY FS_AddElement, FS_CardinalityType DEF WithinDays
<1>6. /\ IsFiniteSet(AllBought') /\ Cardinality(AllBought') \in Nat
      /\ Cardinality(AllBought') <= Cardinality(AllBought \cup {<<j, i>>})
  BY <1>4, <1>5, FS_Subset, FS_CardinalityType
<1>7. Cardinality(AllBought) <= daily + h BY DEF WithinDays
<1> HIDE DEF h
<1>8. Cardinality(AllBought') <= daily' + h BY <1>t, <1>2, <1>5, <1>6, <1>7
<1> QED BY <1>t, <1>2, <1>6, <1>8 DEF WithinDays, h

\* A new day begins with a budget of its own.
LEMMA NextDayWithinDays ==
  ASSUME WithinDays, LabTypeInv, LabTypeOK', NextDay PROVE WithinDays'
<1>t. LabTypeOK /\ happened \in [DOMAIN Risk -> Nat] /\ "day" \in DOMAIN Risk
  BY LabAssumption DEF LabTypeInv, LabTypeOK
<1>1. daily' = 0 /\ happened' = [happened EXCEPT !["day"] = @ + 1] BY DEF NextDay, Happens
<1>2. happened'["day"] = happened["day"] + 1 BY <1>t, <1>1
<1>3. DailyLimit * (happened["day"] + 1) = DailyLimit * happened["day"] + DailyLimit
  BY <1>t, BudgetType
<1>4. daily <= DailyLimit BY DEF WithinDays
<1>5. AllBought' = AllBought BY DEF NextDay, AllBought, Reserving, MyJob
<1>6. DailyLimit * happened["day"] \in Nat BY <1>t, BudgetType
<1>7. daily + DailyLimit * happened["day"] <= daily' + DailyLimit * happened'["day"]
  BY <1>t, <1>1, <1>2, <1>3, <1>4, <1>6, BudgetType
<1> QED BY <1>t, <1>1, <1>5, <1>7, BudgetType, NothingBought

LEMMA DayStep == PaidInv /\ WithinDays /\ [LabNext]_labVars => WithinDays'
<1> SUFFICES ASSUME PaidInv, WithinDays, [LabNext]_labVars PROVE WithinDays' OBVIOUS
<1>t. LabTypeInv /\ LabTypeOK /\ LabTypeOK' BY LabTypeStep DEF PaidInv, LabTypeInv
<1>h. ASSUME NEW k, k # "day", Happens(k) PROVE happened'["day"] = happened["day"]
  BY <1>h, <1>t, LabAssumption DEF Happens, LabTypeOK
<1>1. CASE UNCHANGED labVars
  <2>1. AllBought' = AllBought BY <1>1 DEF labVars, AllBought, Reserving, MyJob
  <2> QED BY <1>1, <1>t, <2>1, SameDay DEF labVars
<1>2. ASSUME NEW j \in Jobs, OwnerStep(j) PROVE WithinDays'
  <2>1. daily' = daily /\ happened'["day"] = happened["day"]
    BY <1>2, <1>h DEF OwnerStep, Start, Cancel, Retract, Tombstone
  <2> QED BY <1>2, <1>t, <2>1, OwnerQuiet, QuietBuysNothing, SameDay
<1>3. ASSUME NEW j \in Jobs, Maintenance(j) PROVE WithinDays'
  <2>1. daily' = daily /\ happened' = happened
    BY <1>3 DEF Maintenance, RecoverStale, ScrubAttempts, ScrubJob
  <2> QED BY <1>3, <1>t, <2>1, MaintenanceQuiet, QuietBuysNothing, SameDay
<1>4. CASE Circumstance
  <2>1. CASE NextDay BY <1>t, <2>1, NextDayWithinDays
  <2>2. CASE ~NextDay
    <3>1. daily' = daily /\ happened'["day"] = happened["day"]
      BY <1>4, <1>h, <2>2 DEF Circumstance, Expire, Lapse, Heartbeat, Lost, Shutdown, Restart
    <3> QED BY <1>4, <1>t, <3>1, CircumstanceQuiet, QuietBuysNothing, SameDay
  <2> QED BY <2>1, <2>2
<1>5. ASSUME NEW w \in Workers, Execution(w) PROVE WithinDays'
  <2>1. CASE Reserve(w) BY <1>t, <2>1, ReserveWithinDays
  <2>2. CASE ~Reserve(w)
    <3>1. daily' = daily /\ happened' = happened
      BY <1>5, <2>2 DEF Execution, Claim, NoneLeft, Dispatch, DispatchRefused, Outcome, Store,
                        StopReserved, Finish
    <3>2. AllBought' \subseteq AllBought
      <4>1. CASE Dispatch(w)
        <5>1. \A x \in Jobs : Bought(x)' \subseteq Bought(x) BY <1>t, <4>1, DispatchBuysNothing
        <5> QED BY <5>1 DEF Bought, AllBought
      <4>2. CASE ~Dispatch(w) BY <1>5, <1>t, <2>2, <4>2, ExecutionQuiet, QuietBuysNothing
      <4> QED BY <4>1, <4>2
    <3> QED BY <1>t, <3>1, <3>2, SameDay
  <2> QED BY <2>1, <2>2
<1> QED BY <1>1, <1>2, <1>3, <1>4, <1>5, LabSteps

\* The batches of a workspace call no more than the budgets of its days allow,
\* however many batches share a day and whatever became of them.
THEOREM PaidWithinDayHolds == LabSafety => []PaidWithinDay
<1>1. LabInit => WithinDays
  <2> SUFFICES ASSUME LabInit PROVE WithinDays OBVIOUS
  <2>1. AllBought = {} BY DEF LabInit, AllBought, Reserving, Idle
  <2>2. daily = 0 /\ happened["day"] = 0 BY LabAssumption DEF LabInit
  <2> QED BY <2>1, <2>2, FS_EmptySet, LabAssumption DEF WithinDays
<1>2. LabSafety => []WithinDays BY <1>1, DayStep, PaidInvariant, PTL DEF LabSafety
<1>3. LabTypeOK /\ WithinDays => PaidWithinDay
  <2> SUFFICES ASSUME LabTypeOK, WithinDays PROVE PaidWithinDay OBVIOUS
  <2> DEFINE S == {c \in Jobs \X Attempts : sent[c[1]][c[2]] > 0}
  <2>1. S \subseteq AllBought BY DEF AllBought
  <2>2. /\ Cardinality(S) <= Cardinality(AllBought)
        /\ Cardinality(S) \in Nat /\ Cardinality(AllBought) \in Nat
    BY <2>1, FS_Subset, FS_CardinalityType DEF WithinDays
  <2>3. DailyLimit * (1 + happened["day"]) = DailyLimit * happened["day"] + DailyLimit
    BY BudgetType
  <2>4. DailyLimit * happened["day"] \in Nat BY BudgetType
  <2>5. Cardinality(AllBought) <= daily + DailyLimit * happened["day"] /\ daily <= DailyLimit
    BY DEF WithinDays
  <2> HIDE DEF S
  <2>6. Cardinality(S) <= DailyLimit * (1 + happened["day"])
    BY <2>2, <2>3, <2>4, <2>5, BudgetType
  <2> QED BY <2>6 DEF PaidWithinDay, S
<1> QED BY <1>2, <1>3, LabTypeCorrect, PTL

----------------------------------------------------------------------------
\* The attempts a have none in status s.
NoneIs(a, s) == \A i \in Attempts : a[i] # s

\* What the row of a job says of its attempts, and what it may not say.
Books(r, a) ==
  /\ r.status = "none" => ~r.cancel /\ \A i \in Attempts : a[i] = "none"
  /\ r.lease # 0 => r.status \in Held
  /\ r.cancel => NoneIs(a, "pending")
  /\ ~r.expired =>
       /\ r.status # "none" => NoneIs(a, "none")
       /\ r.status # "unknown" => NoneIs(a, "unknown")
       /\ r.status \notin Held \cup {"unknown"} => NoneIs(a, "dispatching")
       /\ r.status \in {"completed", "partial", "failed", "cancelled"} => NoneIs(a, "pending")
       /\ r.status = "completed" => \A i \in Attempts : a[i] = "completed"

\* The books of every job are in order, and a slot at work was given a lease.
BooksInv ==
  /\ \A j \in Jobs : Books(job[j], attempt[j])
  /\ \A w \in Workers : worker[w].pc # "idle" => worker[w].lease # 0

\* A step that concerns the books of one job.
LEMMA OneJobsBooks ==
  ASSUME BooksInv, NEW j \in Jobs, Books(job'[j], attempt'[j]),
         \A x \in Jobs : x # j => job'[x] = job[x] /\ attempt'[x] = attempt[x],
         \A w \in Workers : worker'[w].pc # "idle" => worker'[w].lease # 0
  PROVE  BooksInv'
BY DEF BooksInv

LEMMA SameLeases ==
  ASSUME LabTypeInv, BooksInv,
         \/ UNCHANGED worker
         \/ \E w \in Workers : \E p \in {"idle", "ready", "calling", "stopping", "finishing"} :
              worker[w].pc # "idle" /\ Goto(w, p)
  PROVE  \A w \in Workers : worker'[w].pc # "idle" => worker'[w].lease # 0
<1>1. CASE UNCHANGED worker BY <1>1 DEF BooksInv
<1>2. ASSUME NEW w \in Workers, worker[w].pc # "idle",
             NEW p \in {"idle", "ready", "calling", "stopping", "finishing"}, Goto(w, p)
      PROVE  \A v \in Workers : worker'[v].pc # "idle" => worker'[v].lease # 0
  <2>1. worker \in [Workers -> Slot] BY DEF LabTypeInv, LabTypeOK, Slot
  <2>2. \A v \in Workers : v # w => worker'[v] = worker[v] BY <1>2, <2>1 DEF Goto
  <2>3. worker'[w].pc # "idle" => worker'[w].lease = worker[w].lease
    BY <1>2, <2>1 DEF Goto, Idle, Slot
  <2> QED BY <1>2, <2>2, <2>3 DEF BooksInv
<1> QED BY <1>1, <1>2

LEMMA OwnerBooks ==
  ASSUME LabTypeInv, BooksInv, NEW j \in Jobs, OwnerStep(j) PROVE BooksInv'
<1>t. /\ job \in [Jobs -> JobRow] /\ attempt \in [Jobs -> [Attempts -> AttemptStatus]]
      /\ job[j] \in JobRow /\ attempt[j] \in [Attempts -> AttemptStatus]
      /\ Books(job[j], attempt[j])
  BY DEF LabTypeInv, LabTypeOK, AttemptStatus, BooksInv
<1>w. \A w \in Workers : worker'[w].pc # "idle" => worker'[w].lease # 0
  BY SameLeases DEF OwnerStep, Start, Cancel, Retract, Tombstone
<1>x. \A x \in Jobs : x # j => job'[x] = job[x] /\ attempt'[x] = attempt[x]
  BY <1>t DEF OwnerStep, Start, Cancel, CancelPending, Become, Retract, Tombstone
<1>1. CASE Start(j)
  <2>1. /\ job'[j] = [job[j] EXCEPT !.status = "queued"] /\ job[j].status = "none"
        /\ attempt'[j] = [i \in Attempts |-> IF attempt[j][i] \in {"none"} THEN "pending" ELSE attempt[j][i]]
    BY <1>t, <1>1 DEF Start, Become
  <2>2. \A i \in Attempts : attempt'[j][i] = "pending" BY <1>t, <2>1 DEF Books
  <2>3. /\ job'[j].status = "queued" /\ ~job'[j].cancel /\ job'[j].lease = job[j].lease
    BY <1>t, <2>1 DEF Books, JobRow
  <2>4. Books(job'[j], attempt'[j])
    BY <1>t, <2>1, <2>2, <2>3 DEF Books, NoneIs, Held
  <2> QED BY <1>w, <1>x, <2>4, OneJobsBooks
<1>2. CASE Cancel(j)
  <2>1. /\ job'[j] = [job[j] EXCEPT !.cancel = TRUE,
                        !.status = IF job[j].status = "queued" THEN "cancelled" ELSE "cancelling"]
        /\ attempt'[j] = [i \in Attempts |->
             IF attempt[j][i] \in {"pending"} THEN "cancelled" ELSE attempt[j][i]]
        /\ job[j].status \in ActiveJob
    BY <1>t, <1>2 DEF Cancel, CancelPending, Become
  <2>2. /\ job'[j].status = (IF job[j].status = "queued" THEN "cancelled" ELSE "cancelling")
        /\ job'[j].lease = job[j].lease /\ job'[j].expired = job[j].expired
    BY <1>t, <2>1 DEF JobRow
  <2>3. \A i \in Attempts : attempt'[j][i] # "pending"
          /\ (attempt'[j][i] = attempt[j][i] \/ attempt'[j][i] = "cancelled")
    BY <1>t, <2>1
  <2>4. Books(job'[j], attempt'[j])
    BY <1>t, <2>1, <2>2, <2>3 DEF Books, NoneIs, Held, ActiveJob
  <2> QED BY <1>w, <1>x, <2>4, OneJobsBooks
<1>3. CASE Retract(j) BY <1>t, <1>3, <1>w, <1>x, OneJobsBooks DEF Retract
<1>4. CASE Tombstone(j)
  <2>1. /\ job'[j] = [Unleased(job[j], IF job[j].status \in ActiveJob THEN "unknown" ELSE job[j].status)
                        EXCEPT !.expired = TRUE]
        /\ attempt'[j] = [i \in Attempts |-> "none"] /\ job[j].status # "none"
    BY <1>t, <1>4 DEF Tombstone
  <2>2. job'[j].lease = 0 /\ job'[j].expired /\ job'[j].status # "none"
    BY <1>t, <2>1 DEF Unleased, JobRow
  <2>3. Books(job'[j], attempt'[j]) BY <2>1, <2>2 DEF Books, NoneIs
  <2> QED BY <1>w, <1>x, <2>3, OneJobsBooks
<1> QED BY <1>1, <1>2, <1>3, <1>4 DEF OwnerStep

\* A job without a lease may go to any status that its attempts bear out.
LEMMA UnleasedRow ==
  ASSUME NEW r \in JobRow, NEW s
  PROVE  /\ Unleased(r, s).status = s /\ Unleased(r, s).lease = 0
         /\ Unleased(r, s).cancel = r.cancel /\ Unleased(r, s).expired = r.expired
BY DEF Unleased, JobRow

LEMMA MaintenanceBooks ==
  ASSUME LabTypeInv, BooksInv, NEW j \in Jobs, Maintenance(j) PROVE BooksInv'
<1>t. /\ job \in [Jobs -> JobRow] /\ attempt \in [Jobs -> [Attempts -> AttemptStatus]]
      /\ job[j] \in JobRow /\ attempt[j] \in [Attempts -> AttemptStatus]
      /\ Books(job[j], attempt[j])
  BY DEF LabTypeInv, LabTypeOK, AttemptStatus, BooksInv
<1>w. \A w \in Workers : worker'[w].pc # "idle" => worker'[w].lease # 0
  BY SameLeases DEF Maintenance, RecoverStale, ScrubAttempts, ScrubJob
<1>x. \A x \in Jobs : x # j => job'[x] = job[x] /\ attempt'[x] = attempt[x]
  BY <1>t DEF Maintenance, RecoverStale, ScrubAttempts, ScrubJob
<1>1. CASE RecoverStale(j)
  <2>1. CASE In(j, {"dispatching"}) # {}
    <3>1. /\ job'[j] = Unleased(job[j], "unknown")
          /\ attempt'[j] = [i \in Attempts |-> CASE attempt[j][i] = "dispatching" -> "unknown"
                                                [] attempt[j][i] = "pending" -> "cancelled"
                                                [] OTHER -> attempt[j][i]]
          /\ job[j].status \in Held
      BY <1>t, <1>1, <2>1 DEF RecoverStale
    <3>2. \A i \in Attempts : attempt'[j][i] # "pending" /\ attempt'[j][i] # "dispatching"
            /\ (attempt'[j][i] = "none" => attempt[j][i] = "none")
      BY <1>t, <3>1
    <3>3. Books(job'[j], attempt'[j])
      BY <1>t, <3>1, <3>2, UnleasedRow DEF Books, NoneIs, Held
    <3> QED BY <1>w, <1>x, <3>3, OneJobsBooks
  <2>2. CASE In(j, {"dispatching"}) = {}
    <3>1. /\ job'[j] = Unleased(job[j], IF job[j].cancel THEN "cancelled" ELSE "queued")
          /\ attempt' = attempt /\ job[j].status \in Held
      BY <1>t, <1>1, <2>2 DEF RecoverStale
    <3>2. NoneIs(attempt[j], "dispatching") BY <2>2 DEF In, NoneIs
    <3>3. Books(job'[j], attempt'[j])
      BY <1>t, <3>1, <3>2, UnleasedRow DEF Books, Held
    <3> QED BY <1>w, <1>x, <3>3, OneJobsBooks
  <2> QED BY <2>1, <2>2
<1>2. CASE ScrubAttempts(j)
  <2>1. job' = job /\ job[j].expired /\ attempt'[j] = [i \in Attempts |-> "none"]
    BY <1>t, <1>2 DEF ScrubAttempts
  <2>2. Books(job'[j], attempt'[j]) BY <1>t, <2>1 DEF Books, NoneIs
  <2> QED BY <1>w, <1>x, <2>2, OneJobsBooks
<1>3. CASE ScrubJob(j)
  <2>1. attempt' = attempt /\ job[j].expired /\ job'[j] = Unleased(job[j], "unknown")
    BY <1>t, <1>3 DEF ScrubJob
  <2>2. Books(job'[j], attempt'[j]) BY <1>t, <2>1, UnleasedRow DEF Books
  <2> QED BY <1>w, <1>x, <2>2, OneJobsBooks
<1> QED BY <1>1, <1>2, <1>3 DEF Maintenance

LEMMA CircumstanceBooks == LabTypeInv /\ BooksInv /\ Circumstance => BooksInv'
<1> SUFFICES ASSUME LabTypeInv, BooksInv, Circumstance PROVE BooksInv' OBVIOUS
<1>t. job \in [Jobs -> JobRow] BY DEF LabTypeInv, LabTypeOK
<1>1. attempt' = attempt
  BY DEF Circumstance, Expire, Lapse, Heartbeat, Lost, Shutdown, Restart, NextDay
<1>2. \/ UNCHANGED worker
      \/ \E w \in Workers : worker[w].pc # "idle" /\ Goto(w, "idle")
  BY DEF Circumstance, Expire, Lapse, Heartbeat, Lost, At, Shutdown, Restart, NextDay
<1>3. \A w \in Workers : worker'[w].pc # "idle" => worker'[w].lease # 0 BY <1>2, SameLeases
<1>4. \A j \in Jobs : /\ job'[j].status = job[j].status /\ job'[j].lease = job[j].lease
                      /\ job'[j].cancel = job[j].cancel
                      /\ job'[j].expired = job[j].expired \/ (job'[j].expired /\ job[j].status # "none")
  BY <1>t DEF Circumstance, Expire, Lapse, Heartbeat, Lost, Shutdown, Restart, NextDay, JobRow
<1>5. \A j \in Jobs : Books(job[j], attempt[j]) => Books(job'[j], attempt'[j])
  <2> SUFFICES ASSUME NEW j \in Jobs, Books(job[j], attempt[j]) PROVE Books(job'[j], attempt'[j])
    OBVIOUS
  <2>1. \/ job'[j].expired = job[j].expired
        \/ job'[j].expired = TRUE
    BY <1>t, <1>4 DEF Circumstance, Expire, Lapse, Heartbeat, Lost, Shutdown, Restart, NextDay, JobRow
  <2> QED BY <1>1, <1>4, <2>1 DEF Books
<1> QED BY <1>3, <1>5 DEF BooksInv

LEMMA ExecutionBooks ==
  ASSUME LabTypeInv, BooksInv, NEW w \in Workers, Execution(w) PROVE BooksInv'
<1> DEFINE j == MyJob(w)
<1>t. /\ job \in [Jobs -> JobRow] /\ attempt \in [Jobs -> [Attempts -> AttemptStatus]]
      /\ worker \in [Workers -> Slot]
  BY DEF LabTypeInv, LabTypeOK, AttemptStatus, Slot
<1>j. worker[w].pc # "idle" =>
        /\ j \in Jobs /\ job[j] \in JobRow /\ attempt[j] \in [Attempts -> AttemptStatus]
        /\ Books(job[j], attempt[j]) /\ worker[w].lease # 0
  BY <1>t DEF LabTypeInv, Placed, BooksInv
<1>1. CASE Claim(w)
  <2>1. PICK x \in Jobs :
          /\ job[x].status = "queued" /\ ~job[x].expired
          /\ job' = [job EXCEPT ![x].status = "running", ![x].lease = leases + 1, ![x].live = TRUE]
          /\ worker' = [worker EXCEPT ![w] =
               [Idle EXCEPT !.pc = "ready", !.job = x, !.lease = leases + 1]]
    BY <1>1 DEF Claim
  <2>2. leases + 1 # 0 BY DEF LabTypeInv, LabTypeOK
  <2>3. \A v \in Workers : worker'[v].pc # "idle" => worker'[v].lease # 0
    BY <1>t, <2>1, <2>2 DEF BooksInv, Idle
  <2>4. attempt' = attempt /\ \A y \in Jobs : y # x => job'[y] = job[y] BY <1>1, <1>t, <2>1 DEF Claim
  <2>5. /\ job'[x].status = "running" /\ job'[x].cancel = job[x].cancel
        /\ job'[x].expired = job[x].expired
    BY <1>t, <2>1 DEF JobRow
  <2>6. Books(job'[x], attempt'[x]) BY <2>1, <2>4, <2>5 DEF BooksInv, Books, Held
  <2> QED BY <2>3, <2>4, <2>6, OneJobsBooks
<1>2. CASE Reserve(w)
  <2>j. j \in Jobs /\ job[j] \in JobRow /\ attempt[j] \in [Attempts -> AttemptStatus]
        /\ Books(job[j], attempt[j]) /\ worker[w].lease # 0
    BY <1>2, <1>j DEF Reserve, At
  <2>1. PICK i \in FirstPending(j) :
          /\ attempt' = [attempt EXCEPT ![j][i] = "dispatching"]
          /\ worker' = [worker EXCEPT ![w] = [@ EXCEPT !.pc = "reserved", !.att = i]]
    BY <1>2 DEF Reserve
  <2>2. i \in Attempts /\ job' = [job EXCEPT ![j].calls = job[j].calls + 1] /\ job[j].status = "running"
    BY <1>2 DEF FirstPending, In, Reserve, MayReserve
  <2>3. \A v \in Workers : worker'[v].pc # "idle" => worker'[v].lease # 0
    BY <1>t, <2>j, <2>1 DEF BooksInv, Slot
  <2>4. \A x \in Jobs : x # j => job'[x] = job[x] /\ attempt'[x] = attempt[x]
    BY <1>t, <2>1, <2>2
  <2>5. /\ job'[j].status = "running" /\ job'[j].cancel = job[j].cancel
        /\ job'[j].expired = job[j].expired
    BY <1>t, <2>2, <2>j DEF JobRow
  <2>6. \A k \in Attempts : attempt'[j][k] = IF k = i THEN "dispatching" ELSE attempt[j][k]
    BY <1>t, <2>1, <2>2, <2>j
  <2>7. Books(job'[j], attempt'[j]) BY <2>j, <2>2, <2>5, <2>6 DEF Books, NoneIs, Held
  <2> QED BY <2>j, <2>3, <2>4, <2>7, OneJobsBooks
\* The other steps move the slot, and may change the attempts of a running job.
<1>a. ASSUME worker[w].pc # "idle", \A v \in Workers : worker'[v].pc # "idle" => worker'[v].lease # 0,
             UNCHANGED job,
             \/ attempt' = attempt
             \/ /\ \A x \in Jobs : x # j => attempt'[x] = attempt[x]
                /\ job[j].status \in Held
                /\ \A i \in Attempts :
                     attempt'[j][i] \in {attempt[j][i], "completed", "failed", "cancelled"}
      PROVE  BooksInv'
  <2>1. CASE attempt' = attempt BY <1>a, <2>1 DEF BooksInv
  <2>2. CASE attempt' # attempt
    <3>1. Books(job'[j], attempt'[j])
      BY <1>a, <1>j, <2>2 DEF Books, NoneIs, Held
    <3> QED BY <1>a, <1>j, <2>2, <3>1, OneJobsBooks
  <2> QED BY <2>1, <2>2
<1>h. worker[w].pc # "idle" /\ Leased(w) => job[j].status \in Held
  BY <1>j DEF Leased, Books
<1>g. ASSUME NEW p \in {"idle", "ready", "calling", "stopping", "finishing"},
             worker[w].pc # "idle", Goto(w, p)
      PROVE  \A v \in Workers : worker'[v].pc # "idle" => worker'[v].lease # 0
  BY <1>g, SameLeases
<1>3. CASE NoneLeft(w)
  <2>1. \/ attempt' = attempt
        \/ CancelPending(j) /\ job[j].status \in Held
    BY <1>3 DEF NoneLeft, MayReserve, Held
  <2>2. \/ attempt' = attempt
        \/ /\ \A x \in Jobs : x # j => attempt'[x] = attempt[x]
           /\ job[j].status \in Held
           /\ \A i \in Attempts : attempt'[j][i] \in {attempt[j][i], "cancelled"}
    BY <1>3, <1>t, <1>j, <2>1 DEF NoneLeft, At, CancelPending, Become
  <2> QED BY <1>3, <1>a, <1>g, <2>2 DEF NoneLeft, At
<1>4. CASE Dispatch(w) \/ DispatchRefused(w)
  BY <1>4, <1>a, <1>g DEF Dispatch, DispatchRefused, At
<1>5. CASE Outcome(w)
  <2>1. PICK r : worker' = [worker EXCEPT ![w] = [@ EXCEPT !.pc = "storing", !.result = r]]
    BY <1>5 DEF Outcome
  <2>2. \A v \in Workers : worker'[v].pc # "idle" => worker'[v].lease # 0
    BY <1>5, <1>t, <1>j, <2>1 DEF BooksInv, Slot, Outcome, At
  <2> QED BY <1>5, <1>a, <2>2 DEF Outcome, At
<1>6. CASE Store(w)
  <2>1. worker[w].result \in {"completed", "failed"} /\ j \in Jobs
    BY <1>6, <1>t, <1>j DEF Store, At, LabTypeInv, Placed, Slot
  <2>2. \/ attempt' = attempt
        \/ /\ job[j].status \in Held
           /\ attempt' = [attempt EXCEPT ![j][worker[w].att] = worker[w].result]
    BY <1>6 DEF Store, Authorized
  <2>3. \/ attempt' = attempt
        \/ /\ \A x \in Jobs : x # j => attempt'[x] = attempt[x]
           /\ job[j].status \in Held
           /\ \A i \in Attempts : attempt'[j][i] \in {attempt[j][i], "completed", "failed"}
    BY <1>t, <2>1, <2>2
  <2> QED BY <1>6, <1>a, <1>g, <2>3 DEF Store, At
<1>7. CASE StopReserved(w)
  <2>1. \/ attempt' = attempt
        \/ /\ Leased(w)
           /\ attempt' = [attempt EXCEPT ![j] = [i \in Attempts |->
                IF attempt[j][i] = "pending" \/ (i = worker[w].att /\ attempt[j][i] = "dispatching")
                THEN "cancelled" ELSE attempt[j][i]]]
    BY <1>7 DEF StopReserved
  <2>2. \/ attempt' = attempt
        \/ /\ \A x \in Jobs : x # j => attempt'[x] = attempt[x]
           /\ job[j].status \in Held
           /\ \A i \in Attempts : attempt'[j][i] \in {attempt[j][i], "cancelled"}
    BY <1>7, <1>t, <1>j, <1>h, <2>1 DEF StopReserved, At
  <2> QED BY <1>7, <1>a, <1>g, <2>2 DEF StopReserved, At
<1>8. CASE Finish(w)
  <2>j. j \in Jobs /\ job[j] \in JobRow /\ Books(job[j], attempt[j])
    BY <1>8, <1>j DEF Finish, At
  <2>w. \A v \in Workers : worker'[v].pc # "idle" => worker'[v].lease # 0
    BY <1>8, <1>g DEF Finish, At
  <2>1. CASE job' = job BY <1>8, <2>w, <2>1 DEF Finish, BooksInv
  <2>2. CASE job' # job
    <3>1. /\ job'[j] = Unleased(job[j], Verdict(j)) /\ job[j].status \in Held /\ attempt' = attempt
          /\ \A x \in Jobs : x # j => job'[x] = job[x]
      BY <1>8, <1>t, <2>j, <2>2 DEF Finish
    <3>2. Verdict(j) = "unknown" \/ (NoneIs(attempt[j], "dispatching") /\ NoneIs(attempt[j], "unknown"))
      BY DEF Verdict, In, NoneIs
    <3>3. Verdict(j) \in {"unknown", "queued"} \/ NoneIs(attempt[j], "pending") \/ job[j].cancel
      BY DEF Verdict, In, NoneIs
    <3>4. Verdict(j) = "completed" =>
            \A i \in Attempts : attempt[j][i] \in {"completed", "none"}
      BY DEF Verdict, In
    <3>5. Verdict(j) \notin Held /\ Verdict(j) # "none" BY DEF Verdict, Held
    <3>6. Books(job'[j], attempt'[j])
      BY <2>j, <3>1, <3>2, <3>3, <3>4, <3>5, UnleasedRow DEF Books, NoneIs, Held
    <3> QED BY <2>j, <2>w, <3>1, <3>6, OneJobsBooks
  <2> QED BY <2>1, <2>2
<1> QED BY <1>1, <1>2, <1>3, <1>4, <1>5, <1>6, <1>7, <1>8 DEF Execution

\* A job that reports an outcome stands by it: nothing that was called is left
\* out of a verdict (finishJob, recoverStaleJobs, cancel, scrubExpired).
THEOREM HonestVerdictHolds == LabSafety => []HonestVerdict
<1>1. LabInit => BooksInv
  BY DEF LabInit, BooksInv, Books, Unborn, Idle, NoneIs, Held
<1>2. LabTypeInv /\ BooksInv /\ [LabNext]_labVars => BooksInv'
  <2> SUFFICES ASSUME LabTypeInv, BooksInv, [LabNext]_labVars PROVE BooksInv' OBVIOUS
  <2>1. CASE UNCHANGED labVars BY <2>1 DEF labVars, BooksInv
  <2> QED BY <2>1, LabSteps, OwnerBooks, MaintenanceBooks, ExecutionBooks, CircumstanceBooks
<1>3. LabSafety => []BooksInv BY <1>1, <1>2, LabTypeInvariant, PTL DEF LabSafety
<1>4. BooksInv => HonestVerdict
  <2> SUFFICES ASSUME BooksInv, NEW j \in Jobs, ~job[j].expired,
                      job[j].status \in {"completed", "partial", "failed", "cancelled"}
               PROVE  /\ In(j, {"pending", "dispatching", "unknown"}) = {}
                      /\ job[j].status = "completed" => In(j, {"completed"}) = Attempts
    BY DEF HonestVerdict
  <2> QED BY DEF BooksInv, Books, NoneIs, In, Held
<1> QED BY <1>3, <1>4, PTL

----------------------------------------------------------------------------
\* A call starts only for a job that nobody cancelled, that did not expire and
\* whose source is current, at the very step that starts it.
THEOREM RevocationHolds == LabSafety => NoCallAfterRevocation
<1> DEFINE Free == \A j \in Jobs :
             job[j].cancel \/ ~current[j] \/ job[j].expired => sent'[j] = sent[j]
<1>1. LabTypeInv /\ [LabNext]_labVars => [Free]_labVars
  <2> SUFFICES ASSUME LabTypeInv, [LabNext]_labVars PROVE Free OBVIOUS
  <2>1. ASSUME NEW w \in Workers, Dispatch(w) PROVE Free
    <3>1. /\ ~job[MyJob(w)].cancel /\ current[MyJob(w)] /\ ~job[MyJob(w)].expired
          /\ sent' = [sent EXCEPT ![MyJob(w)][worker[w].att] = @ + 1]
      BY <2>1 DEF Dispatch, Authorized
    <3>2. sent \in [Jobs -> [Attempts -> Nat]] BY DEF LabTypeInv, LabTypeOK
    <3> QED BY <3>1, <3>2
  <2>2. ASSUME NEW w \in Workers, Execution(w), ~Dispatch(w) PROVE sent' = sent
    BY <2>2 DEF Execution, Claim, Reserve, NoneLeft, DispatchRefused, Outcome, Store,
                StopReserved, Finish
  <2>3. CASE UNCHANGED labVars BY <2>3 DEF labVars
  <2>4. CASE sent' = sent BY <2>4
  <2> QED BY <2>1, <2>2, <2>3, <2>4, LabSteps, OwnerQuiet, MaintenanceQuiet, CircumstanceQuiet
          DEF Quiet
<1> QED BY <1>1, LabTypeInvariant, PTL DEF LabSafety, NoCallAfterRevocation

\* What happened to an attempt and what became of a job is not rewritten.
Settled ==
  \A j \in Jobs :
    /\ \A i \in Attempts :
         attempt[j][i] \in Outcomes => attempt'[j][i] \in {attempt[j][i], "none"}
    /\ job[j].status \in Stopped => job'[j].status \in Stopped

LEMMA StepSettles == LabTypeInv /\ [LabNext]_labVars => [Settled]_labVars
<1> SUFFICES ASSUME LabTypeInv, [LabNext]_labVars PROVE Settled OBVIOUS
<1>t. /\ job \in [Jobs -> JobRow] /\ worker \in [Workers -> Slot]
      /\ attempt \in [Jobs -> [Attempts -> AttemptStatus]]
      /\ \A j \in Jobs : job[j] \in JobRow
  BY DEF LabTypeInv, LabTypeOK, AttemptStatus, Slot
<1>b. ASSUME NEW j, NEW S, S \cap Outcomes = {}, NEW s, Become(j, S, s)
      PROVE  \A x \in Jobs, i \in Attempts : attempt[x][i] \in Outcomes => attempt'[x][i] = attempt[x][i]
  BY <1>b, <1>t DEF Become
<1>1. ASSUME NEW j \in Jobs, OwnerStep(j) PROVE Settled
  <2>1. CASE Start(j)
    <3>1. job'[j].status = "queued" /\ \A x \in Jobs : x # j => job'[x] = job[x]
      BY <1>t, <2>1 DEF Start, JobRow
    <3> QED BY <1>b, <2>1, <3>1 DEF Start, Settled, Outcomes, Stopped
  <2>2. CASE Cancel(j)
    <3>1. \A x \in Jobs : x # j => job'[x] = job[x] BY <1>t, <2>2 DEF Cancel
    <3> QED BY <1>b, <2>2, <3>1 DEF Cancel, CancelPending, Settled, Outcomes, Stopped, ActiveJob
  <2>3. CASE Retract(j) BY <2>3 DEF Retract, Settled
  <2>4. CASE Tombstone(j)
    <3>1. job[j].status \in Stopped => job'[j].status \in Stopped
      BY <1>t, <2>4 DEF Tombstone, Unleased, JobRow, Stopped, ActiveJob
    <3> QED BY <1>t, <2>4, <3>1 DEF Tombstone, Settled
  <2> QED BY <1>1, <2>1, <2>2, <2>3, <2>4 DEF OwnerStep
<1>2. ASSUME NEW j \in Jobs, Maintenance(j) PROVE Settled
  <2>1. CASE RecoverStale(j)
    <3>1. job[j].status \notin Stopped BY <2>1 DEF RecoverStale, Held, Stopped
    <3>2. \A x \in Jobs : x # j => job'[x] = job[x] BY <1>t, <2>1 DEF RecoverStale
    <3>3. \A x \in Jobs, i \in Attempts :
            attempt[x][i] \in Outcomes => attempt'[x][i] = attempt[x][i]
      BY <1>t, <2>1 DEF RecoverStale, Outcomes
    <3> QED BY <3>1, <3>2, <3>3 DEF Settled
  <2>2. CASE ScrubAttempts(j) BY <1>t, <2>2 DEF ScrubAttempts, Settled
  <2>3. CASE ScrubJob(j) BY <1>t, <2>3 DEF ScrubJob, Settled, ActiveJob, Stopped
  <2> QED BY <1>2, <2>1, <2>2, <2>3 DEF Maintenance
<1>3. ASSUME NEW w \in Workers, Execution(w) PROVE Settled
  <2>j. worker[w].pc # "idle" => MyJob(w) \in Jobs BY DEF LabTypeInv, Placed
  <2>1. CASE Claim(w) BY <1>t, <2>1 DEF Claim, Settled, Stopped
  <2>2. CASE Reserve(w)
    <3>1. PICK i \in FirstPending(MyJob(w)) :
            attempt' = [attempt EXCEPT ![MyJob(w)][i] = "dispatching"]
      BY <2>2 DEF Reserve
    <3>2. i \in Attempts /\ attempt[MyJob(w)][i] = "pending" BY DEF FirstPending, In
    <3>3. MyJob(w) \in Jobs BY <2>2, <2>j DEF Reserve, At
    <3>4. \A x \in Jobs : job'[x].status = job[x].status BY <1>t, <2>2, <3>3 DEF Reserve, JobRow
    <3> QED BY <1>t, <3>1, <3>2, <3>3, <3>4 DEF Settled, Outcomes
  <2>3. CASE NoneLeft(w)
    <3>1. UNCHANGED job /\ (UNCHANGED attempt \/ CancelPending(MyJob(w))) BY <2>3 DEF NoneLeft
    <3> QED BY <1>b, <3>1 DEF CancelPending, Settled, Outcomes
  <2>4. CASE Dispatch(w) \/ DispatchRefused(w) \/ Outcome(w)
    BY <2>4 DEF Dispatch, DispatchRefused, Outcome, Settled
  <2>5. CASE Store(w)
    <3>1. UNCHANGED job
          /\ \/ UNCHANGED attempt
             \/ /\ MyAttempt(w) = "dispatching"
                /\ attempt' = [attempt EXCEPT ![MyJob(w)][worker[w].att] = worker[w].result]
      BY <2>5 DEF Store, Authorized
    <3> QED BY <1>t, <3>1 DEF MyAttempt, Settled, Outcomes
  <2>6. CASE StopReserved(w)
    <3>1. MyJob(w) \in Jobs /\ UNCHANGED job BY <2>6, <2>j DEF StopReserved, At
    <3>2. \A x \in Jobs, i \in Attempts :
            attempt[x][i] \in Outcomes => attempt'[x][i] = attempt[x][i]
      BY <1>t, <2>6, <3>1 DEF StopReserved, Outcomes
    <3> QED BY <3>1, <3>2 DEF Settled
  <2>7. CASE Finish(w)
    <3>1. UNCHANGED attempt /\ \A x \in Jobs : job[x].status \in Stopped => job'[x] = job[x]
      BY <1>t, <2>7 DEF Finish, Held, Stopped
    <3> QED BY <3>1 DEF Settled
  <2> QED BY <1>3, <2>1, <2>2, <2>3, <2>4, <2>5, <2>6, <2>7 DEF Execution
<1>4. CASE Circumstance
  <2>1. attempt' = attempt
    BY <1>4 DEF Circumstance, Expire, Lapse, Heartbeat, Lost, Shutdown, Restart, NextDay
  <2>2. \A j \in Jobs : job'[j].status = job[j].status
    BY <1>4, <1>t DEF Circumstance, Expire, Lapse, Heartbeat, Lost, Shutdown, Restart, NextDay, JobRow
  <2> QED BY <2>1, <2>2 DEF Settled
<1>5. CASE UNCHANGED labVars BY <1>5 DEF labVars, Settled
<1> QED BY <1>1, <1>2, <1>3, <1>4, <1>5, LabSteps

\* Outcomes are final: a late worker, a recovery or a cancellation can neither
\* change what is recorded of an attempt nor restart a job that stopped.
THEOREM OutcomeHolds == LabSafety => OutcomeIsFinal
BY StepSettles, LabTypeInvariant, PTL DEF LabSafety, OutcomeIsFinal, Settled
=============================================================================
