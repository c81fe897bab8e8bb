------------------------- MODULE LabExperimentJobs -------------------------
(***************************************************************************)
(* Batches of paid model calls: LabExperimentJobService and the way it     *)
(* runs one attempt (executeJobAttempt).                                   *)
(*                                                                         *)
(* A job has a matrix of attempts.  A worker (one of the two execution     *)
(* slots of a backend process) claims a queued job under a fresh lease,    *)
(* reserves one attempt after the other, calls the provider and stores the *)
(* result.  Each database transaction is one action; between two of them   *)
(* the user may cancel, the source of the job may be withdrawn, the job    *)
(* may expire, the lease may lapse and be recovered, the process may die.  *)
(*                                                                         *)
(* One account and one day's budget.  What an attempt asks, answers and is *)
(* checked for is left out; a lease id is the number of its claim.         *)
(***************************************************************************)
EXTENDS Naturals, FiniteSets

CONSTANTS
  Jobs,        \* batch ids
  Workers,     \* execution slots, each in some backend process
  SameBuild,   \* workers whose backend revision is the one the jobs froze
  Plan,        \* attempts of a job
  CallLimit,   \* definition.call_limit
  DailyLimit,  \* dailyCallLimit
  Risk,        \* bound: how often each kind of event of the environment happens
  MaxKinds,    \* bound: how many of these kinds happen in one behaviour
  NoJob

ASSUME LabAssumption ==
  /\ IsFiniteSet(Workers)
  /\ SameBuild \subseteq Workers
  /\ Plan \in Nat /\ CallLimit \in Nat /\ DailyLimit \in Nat
  /\ NoJob \notin Jobs
  /\ Risk \in [{"retract", "expire", "stall", "lost", "shutdown", "day"} -> Nat]
  /\ MaxKinds \in Nat

VARIABLES
  job,      \* lab_experiment_jobs
  attempt,  \* lab_experiment_attempts.status, "none" without a row
  daily,    \* lab_model_call_budgets.calls_reserved of today
  current,  \* the regression lineage a job was started from is available
  leases,   \* how many leases were handed out
  worker,   \* where each execution stands
  closed,   \* workers whose process shuts down
  sent,     \* how often the provider was called for an attempt
  happened  \* how much of Risk is used

labVars == <<job, attempt, daily, current, leases, worker, closed, sent, happened>>

----------------------------------------------------------------------------
Attempts == 1..Plan
ActiveJob == {"queued", "running", "cancelling"}
Held == {"running", "cancelling"}
Stopped == {"cancelled", "completed", "partial", "failed", "unknown"}
Outcomes == {"completed", "failed", "cancelled", "unknown"}

JobRow == [status : {"none"} \cup ActiveJob \cup Stopped,
           lease : Nat, live : BOOLEAN, cancel : BOOLEAN, expired : BOOLEAN, calls : Nat]

\* lease 0 is SQL NULL.
Unborn == [status |-> "none", lease |-> 0, live |-> FALSE, cancel |-> FALSE,
           expired |-> FALSE, calls |-> 0]

Idle == [pc |-> "idle", job |-> NoJob, lease |-> 0, att |-> 0, result |-> "none"]

In(j, S) == {i \in Attempts : attempt[j][i] \in S}

\* The attempts of j that are in S get status s.
Become(j, S, s) ==
  attempt' = [attempt EXCEPT ![j] = [i \in Attempts |-> IF @[i] \in S THEN s ELSE @[i]]]

\* Mutant: an attempt that is being dispatched is cancelled like a pending one.
CancelIssued(j) == Become(j, {"pending", "dispatching"}, "cancelled")

CancelPending(j) == Become(j, {"pending"}, "cancelled")

\* A job that gives up its lease.
Unleased(r, s) == [r EXCEPT !.status = s, !.lease = 0, !.live = FALSE]

Happens(k) ==
  /\ happened[k] < Risk[k]
  /\ Cardinality({x \in DOMAIN Risk : x = k \/ happened[x] > 0}) <= MaxKinds
  /\ happened' = [happened EXCEPT ![k] = @ + 1]

LabInit ==
  /\ job = [j \in Jobs |-> Unborn]
  /\ attempt = [j \in Jobs |-> [i \in Attempts |-> "none"]]
  /\ daily = 0
  /\ current = [j \in Jobs |-> TRUE]
  /\ leases = 0
  /\ worker = [w \in Workers |-> Idle]
  /\ closed = {}
  /\ sent = [j \in Jobs |-> [i \in Attempts |-> 0]]
  /\ happened = [k \in DOMAIN Risk |-> 0]

----------------------------------------------------------------------------
(* The owner of a job. *)

\* A repeated start finds its row, scrubbed or not, and starts nothing.
Start(j) ==
  /\ job[j].status = "none" /\ current[j]
  /\ \A x \in Jobs : job[x].status \in ActiveJob => job[x].expired
  /\ job' = [job EXCEPT ![j].status = "queued"]
  /\ Become(j, {"none"}, "pending")
  /\ UNCHANGED <<daily, current, leases, worker, closed, sent, happened>>

Cancel(j) ==
  /\ job[j].status \in ActiveJob /\ ~job[j].expired
  /\ CancelPending(j)
  /\ job' = [job EXCEPT ![j].cancel = TRUE,
                        ![j].status = IF @ = "queued" THEN "cancelled" ELSE "cancelling"]
  /\ UNCHANGED <<daily, current, leases, worker, closed, sent, happened>>

\* The source of the job is no longer available.
Retract(j) ==
  /\ current[j] /\ Happens("retract")
  /\ current' = [current EXCEPT ![j] = FALSE]
  /\ UNCHANGED <<job, attempt, daily, leases, worker, closed, sent>>

\* Removing the regression ends its jobs and deletes their attempts at once.
Tombstone(j) ==
  /\ ~current[j] /\ job[j].status # "none"
  /\ In(j, {"none"}) # Attempts
  /\ job' = [job EXCEPT ![j] =
       [Unleased(@, IF @.status \in ActiveJob THEN "unknown" ELSE @.status)
          EXCEPT !.expired = TRUE]]
  /\ attempt' = [attempt EXCEPT ![j] = [i \in Attempts |-> "none"]]
  /\ UNCHANGED <<daily, current, leases, worker, closed, sent, happened>>

----------------------------------------------------------------------------
(* A worker. *)

At(w, S) == worker[w].pc \in S
MyJob(w) == worker[w].job
MyAttempt(w) == attempt[MyJob(w)][worker[w].att]
Leased(w) == job[MyJob(w)].lease = worker[w].lease

Goto(w, p) ==
  worker' = [worker EXCEPT ![w] = IF p = "idle" THEN Idle ELSE [@ EXCEPT !.pc = p]]

Claim(w) ==
  /\ At(w, {"idle"}) /\ w \notin closed
  /\ \E j \in Jobs :
       /\ job[j].status = "queued" /\ ~job[j].expired
       /\ job' = [job EXCEPT ![j].status = "running", ![j].lease = leases + 1, ![j].live = TRUE]
       /\ worker' = [worker EXCEPT ![w] =
            [Idle EXCEPT !.pc = "ready", !.job = j, !.lease = leases + 1]]
  /\ leases' = leases + 1
  /\ UNCHANGED <<attempt, daily, current, closed, sent, happened>>

\* What reserveAttempt reads of the job; not whether its lease is current.
MayReserve(w) ==
  LET r == job[MyJob(w)] IN
  w \notin closed /\ Leased(w) /\ r.status = "running" /\ ~r.expired

\* Mutant: only the batch limit is checked.
WithinBatch(w) == ~current[MyJob(w)] \/ job[MyJob(w)].calls >= CallLimit \/ w \notin SameBuild

\* Why a job may not buy another call.
Barred(w) ==
  \/ ~current[MyJob(w)]
  \/ job[MyJob(w)].calls >= CallLimit \/ daily >= DailyLimit
  \/ w \notin SameBuild

FirstPending(j) == {i \in In(j, {"pending"}) : \A k \in In(j, {"pending"}) : i <= k}

\* The reservation commits before the provider can see a request.
Reserve(w) ==
  LET j == MyJob(w) IN
  /\ At(w, {"ready"})
  /\ MayReserve(w) /\ ~Barred(w)
  /\ \E i \in FirstPending(j) :
       /\ attempt' = [attempt EXCEPT ![j][i] = "dispatching"]
       /\ worker' = [worker EXCEPT ![w] = [@ EXCEPT !.pc = "reserved", !.att = i]]
  /\ job' = [job EXCEPT ![j].calls = @ + 1]
  /\ daily' = daily + 1
  /\ UNCHANGED <<current, leases, closed, sent, happened>>

NoneLeft(w) ==
  /\ At(w, {"ready"})
  /\ IF MayReserve(w) /\ In(MyJob(w), {"pending"}) # {}
     THEN Barred(w) /\ CancelPending(MyJob(w))
     ELSE UNCHANGED attempt
  /\ Goto(w, "finishing")
  /\ UNCHANGED <<job, daily, current, leases, closed, sent, happened>>

\* withCurrentAttempt: dispatch and the result of an attempt are authorized
\* again, under locks that keep a withdrawal of the source out.
Authorized(w, statuses) ==
  LET r == job[MyJob(w)] IN
  /\ current[MyJob(w)] /\ w \in SameBuild
  /\ Leased(w) /\ r.live /\ ~r.expired /\ r.status \in statuses
  /\ MyAttempt(w) = "dispatching"

\* Mutant: a reserved call is dispatched without looking again.
DispatchReserved(w) ==
  /\ At(w, {"reserved"})
  /\ sent' = [sent EXCEPT ![MyJob(w)][worker[w].att] = @ + 1]
  /\ Goto(w, "calling")
  /\ UNCHANGED <<job, attempt, daily, current, leases, closed, happened>>

Dispatch(w) ==
  /\ At(w, {"reserved"})
  /\ Authorized(w, {"running"}) /\ ~job[MyJob(w)].cancel
  /\ sent' = [sent EXCEPT ![MyJob(w)][worker[w].att] = @ + 1]
  /\ Goto(w, "calling")
  /\ UNCHANGED <<job, attempt, daily, current, leases, closed, happened>>

DispatchRefused(w) ==
  /\ At(w, {"reserved"})
  /\ ~(Authorized(w, {"running"}) /\ ~job[MyJob(w)].cancel)
  /\ Goto(w, "stopping")
  /\ UNCHANGED <<job, attempt, daily, current, leases, closed, sent, happened>>

\* Mutant: an answer that cannot be verified is handed on as unknown.
OutcomeUnverified(w) ==
  /\ At(w, {"reserved", "calling"})
  /\ \E r \in {"completed", "unknown"} :
       worker' = [worker EXCEPT ![w] = [@ EXCEPT !.pc = "storing", !.result = r]]
  /\ UNCHANGED <<job, attempt, daily, current, leases, closed, sent, happened>>

\* The provider answers or fails.  A frozen input, provider or prompt that
\* cannot be verified is a failed attempt without a call.
Outcome(w) ==
  /\ At(w, {"reserved", "calling"})
  /\ \E r \in {"failed"} \cup (IF At(w, {"calling"}) THEN {"completed"} ELSE {}) :
       worker' = [worker EXCEPT ![w] = [@ EXCEPT !.pc = "storing", !.result = r]]
  /\ UNCHANGED <<job, attempt, daily, current, leases, closed, sent, happened>>

\* Mutant: a late result is stored whatever became of the job meanwhile.
StoreLate(w) ==
  /\ At(w, {"storing"})
  /\ attempt' = [attempt EXCEPT ![MyJob(w)][worker[w].att] = worker[w].result]
  /\ Goto(w, "ready")
  /\ UNCHANGED <<job, daily, current, leases, closed, sent, happened>>

Store(w) ==
  /\ At(w, {"storing"})
  /\ IF Authorized(w, Held)
     THEN attempt' = [attempt EXCEPT ![MyJob(w)][worker[w].att] = worker[w].result]
     ELSE UNCHANGED attempt
  /\ Goto(w, "ready")
  /\ UNCHANGED <<job, daily, current, leases, closed, sent, happened>>

\* A reserved call that was not dispatched, and the ones after it.
StopReserved(w) ==
  LET j == MyJob(w) IN
  /\ At(w, {"stopping"})
  /\ IF Leased(w)
     THEN attempt' = [attempt EXCEPT ![j] = [i \in Attempts |->
            IF @[i] = "pending" \/ (i = worker[w].att /\ @[i] = "dispatching")
            THEN "cancelled" ELSE @[i]]]
     ELSE UNCHANGED attempt
  /\ Goto(w, "finishing")
  /\ UNCHANGED <<job, daily, current, leases, closed, sent, happened>>

\* Mutant: a call without a result is not looked for.
VerdictByCount(j) ==
  CASE job[j].cancel -> "cancelled"
    [] OTHER -> IF In(j, {"pending"}) # {} THEN "queued"
                ELSE IF In(j, {"completed"}) # {} THEN "completed" ELSE "failed"

Verdict(j) ==
  CASE In(j, {"unknown", "dispatching"}) # {} -> "unknown"
    [] In(j, {"unknown", "dispatching"}) = {} /\ job[j].cancel -> "cancelled"
    [] OTHER -> IF In(j, {"pending"}) # {} THEN "queued"
                ELSE IF In(j, {"completed", "none"}) = Attempts THEN "completed"
                ELSE IF In(j, {"completed"}) # {} THEN "partial" ELSE "failed"

Finish(w) ==
  LET j == MyJob(w) IN
  /\ At(w, {"finishing"})
  /\ IF Leased(w) /\ job[j].status \in Held
     THEN job' = [job EXCEPT ![j] = Unleased(@, Verdict(j))]
     ELSE UNCHANGED job
  /\ Goto(w, "idle")
  /\ UNCHANGED <<attempt, daily, current, leases, closed, sent, happened>>

\* The heartbeat renews a lease also after it lapsed, until it is recovered.
Heartbeat(w) ==
  /\ ~At(w, {"idle"}) /\ Leased(w)
  /\ job[MyJob(w)].status \in Held /\ ~job[MyJob(w)].live
  /\ job' = [job EXCEPT ![MyJob(w)].live = TRUE]
  /\ UNCHANGED <<attempt, daily, current, leases, worker, closed, sent, happened>>

----------------------------------------------------------------------------
(* Maintenance, by any process. *)

\* Mutant: a lost call is issued again.
RepeatLost(j) ==
  /\ job[j].status \in Held /\ ~job[j].live
  /\ Become(j, {"dispatching"}, "pending")
  /\ job' = [job EXCEPT ![j] = Unleased(@, IF @.cancel THEN "cancelled" ELSE "queued")]
  /\ UNCHANGED <<daily, current, leases, worker, closed, sent, happened>>

\* Mutant: a job that was cancelled while its worker was lost is left alone.
RecoverRunning(j) ==
  /\ job[j].status = "running" /\ ~job[j].live
  /\ Become(j, {"dispatching"}, "unknown")
  /\ job' = [job EXCEPT ![j] = Unleased(@, "unknown")]
  /\ UNCHANGED <<daily, current, leases, worker, closed, sent, happened>>

\* One transaction recovers all stale jobs; they do not affect one another.
RecoverStale(j) ==
  /\ job[j].status \in Held /\ ~job[j].live
  /\ IF In(j, {"dispatching"}) # {}
     THEN /\ attempt' = [attempt EXCEPT ![j] = [i \in Attempts |->
               CASE @[i] = "dispatching" -> "unknown"
                 [] @[i] = "pending" -> "cancelled"
                 [] OTHER -> @[i]]]
          /\ job' = [job EXCEPT ![j] = Unleased(@, "unknown")]
     ELSE /\ job' = [job EXCEPT ![j] = Unleased(@, IF @.cancel THEN "cancelled" ELSE "queued")]
          /\ UNCHANGED attempt
  /\ UNCHANGED <<daily, current, leases, worker, closed, sent, happened>>

\* scrubExpired deletes the attempts in one statement and ends the job in the
\* next one, which also ends a job that expired between the two.
ScrubAttempts(j) ==
  /\ job[j].expired /\ In(j, {"none"}) # Attempts
  /\ attempt' = [attempt EXCEPT ![j] = [i \in Attempts |-> "none"]]
  /\ UNCHANGED <<job, daily, current, leases, worker, closed, sent, happened>>

ScrubJob(j) ==
  /\ job[j].expired /\ job[j].status \in ActiveJob
  /\ job' = [job EXCEPT ![j] = Unleased(@, "unknown")]
  /\ UNCHANGED <<attempt, daily, current, leases, worker, closed, sent, happened>>

----------------------------------------------------------------------------
(* The environment. *)

\* Seven days are over.
Expire(j) ==
  /\ job[j].status # "none" /\ ~job[j].expired /\ Happens("expire")
  /\ job' = [job EXCEPT ![j].expired = TRUE]
  /\ UNCHANGED <<attempt, daily, current, leases, worker, closed, sent>>

Holders(j) == {w \in Workers : worker[w].pc # "idle" /\ MyJob(w) = j /\ Leased(w)}

\* Ninety seconds without a heartbeat: its holder stalls, or has none.
Lapse(j) ==
  /\ job[j].live
  /\ IF Holders(j) = {} THEN UNCHANGED happened ELSE Happens("stall")
  /\ job' = [job EXCEPT ![j].live = FALSE]
  /\ UNCHANGED <<attempt, daily, current, leases, worker, closed, sent>>

\* The process dies, or a query of the execution throws.
Lost(w) ==
  /\ ~At(w, {"idle"}) /\ Happens("lost")
  /\ Goto(w, "idle")
  /\ UNCHANGED <<job, attempt, daily, current, leases, closed, sent>>

\* close(): the process lets the attempt end and gives the job back.
Shutdown(w) ==
  /\ w \notin closed /\ Happens("shutdown")
  /\ closed' = closed \cup {w}
  /\ UNCHANGED <<job, attempt, daily, current, leases, worker, sent>>

Restart(w) ==
  /\ w \in closed /\ At(w, {"idle"})
  /\ closed' = closed \ {w}
  /\ UNCHANGED <<job, attempt, daily, current, leases, worker, sent, happened>>

NextDay ==
  /\ daily > 0 /\ Happens("day")
  /\ daily' = 0
  /\ UNCHANGED <<job, attempt, current, leases, worker, closed, sent>>

----------------------------------------------------------------------------
Execution(w) ==
  \/ Claim(w) \/ Reserve(w) \/ NoneLeft(w) \/ Dispatch(w) \/ DispatchRefused(w)
  \/ Outcome(w) \/ Store(w) \/ StopReserved(w) \/ Finish(w)

Maintenance(j) == RecoverStale(j) \/ ScrubAttempts(j) \/ ScrubJob(j)

LabNext ==
  \/ \E j \in Jobs :
       \/ Start(j) \/ Cancel(j) \/ Retract(j) \/ Tombstone(j)
       \/ Maintenance(j) \/ Expire(j) \/ Lapse(j)
  \/ \E w \in Workers : Execution(w) \/ Heartbeat(w) \/ Lost(w) \/ Shutdown(w) \/ Restart(w)
  \/ NextDay

LabSafety == LabInit /\ [][LabNext]_labVars

\* Processes are restarted, their ticks and maintenance recur, a provider call
\* ends, the lease of a lost worker lapses.
LabSpec ==
  /\ LabSafety
  /\ \A w \in Workers : WF_labVars(Execution(w)) /\ WF_labVars(Restart(w))
  /\ \A j \in Jobs : WF_labVars(Maintenance(j)) /\ WF_labVars(Lapse(j) /\ Holders(j) = {})

----------------------------------------------------------------------------
\* Every variable has its type.
LabTypeOK ==
  /\ job \in [Jobs -> JobRow]
  /\ attempt \in [Jobs -> [Attempts -> {"none", "pending", "dispatching"} \cup Outcomes]]
  /\ daily \in Nat /\ leases \in Nat
  /\ current \in [Jobs -> BOOLEAN]
  /\ worker \in [Workers ->
       [pc : {"idle", "ready", "reserved", "calling", "storing", "stopping", "finishing"},
        job : Jobs \cup {NoJob}, lease : Nat, att : Attempts \cup {0},
        result : {"none", "completed", "failed"}]]
  /\ closed \subseteq Workers
  /\ sent \in [Jobs -> [Attempts -> Nat]]
  /\ happened \in [DOMAIN Risk -> Nat]

Called(j) == {i \in Attempts : sent[j][i] > 0}

\* Whatever is lost, recovered, resumed or late, no attempt is paid twice, and
\* the calls of a batch stay within what was reserved for it and its limit.
PaidOnce ==
  \A j \in Jobs :
    /\ \A i \in Attempts : sent[j][i] <= 1
    /\ Cardinality(Called(j)) <= job[j].calls
    /\ job[j].calls <= CallLimit

\* The batches of a workspace together call no more than its days allow (the
\* first one and every day that began since).
PaidWithinDay ==
  Cardinality({c \in Jobs \X Attempts : sent[c[1]][c[2]] > 0})
    <= DailyLimit * (1 + happened["day"])

\* A call that was made is never reported as cancelled before dispatch.
CancelledWasNotCalled ==
  \A j \in Jobs : In(j, {"cancelled"}) \cap Called(j) = {}

\* A job that reports an outcome stands by it: completed has every result,
\* failed and partial hide no call whose result is missing.
HonestVerdict ==
  \A j \in Jobs :
    ~job[j].expired /\ job[j].status \in {"completed", "partial", "failed", "cancelled"} =>
      /\ In(j, {"pending", "dispatching", "unknown"}) = {}
      /\ job[j].status = "completed" => In(j, {"completed"}) = Attempts

\* The recorded outcome of an attempt is final until it is scrubbed, and a job
\* that stopped never runs again: a late worker changes neither.
OutcomeIsFinal ==
  [][\A j \in Jobs :
       /\ \A i \in Attempts :
            attempt[j][i] \in Outcomes => attempt'[j][i] \in {attempt[j][i], "none"}
       /\ job[j].status \in Stopped => job'[j].status \in Stopped]_labVars

\* After a cancellation, a withdrawal of the source or the expiry of a job no
\* further call of it starts, also for a call that was reserved before.
NoCallAfterRevocation ==
  [][\A j \in Jobs :
       job[j].cancel \/ ~current[j] \/ job[j].expired => sent'[j] = sent[j]]_labVars

\* Every job ends: it completes, is cancelled or its loss is recorded.
JobEnds == \A j \in Jobs : job[j].status \in ActiveJob ~> job[j].status \in Stopped

\* In a stopped job the attempt of a lost worker is recorded as unknown and no
\* attempt waits or is being dispatched.
LostIsUnknown ==
  \A j \in Jobs :
    job[j].status \in Stopped => In(j, {"pending", "dispatching"}) = {}
=============================================================================
