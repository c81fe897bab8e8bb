--------------------------- MODULE SourceCompilation ---------------------------
(***************************************************************************)
(* The authorization of one source and the recompilation of the            *)
(* relationship Wiki that rests on it (sourceAuthorization.ts, wiki.ts,    *)
(* idempotency.ts, migration 013).  Every decision about the source        *)
(* invalidates the Wiki and leaves a job in the same transaction; the      *)
(* request that decided compiles at once, and workers with leases do what  *)
(* it left undone.  A compilation is a transaction of several reads under  *)
(* a key of its decision and the lock of the relationship.                 *)
(*                                                                         *)
(* Decision d is the one that made the source's version d.                 *)
(***************************************************************************)
EXTENDS Naturals, FiniteSets

CONSTANTS
  MaxDecisions, \* bound: decisions about the source
  Workers,      \* passes of runPendingSourceAuthorizationCompilationJobs
  Requests,     \* requests of clients: decisions, retries, compilations
  Risk,         \* the kinds of event that may happen, and how often each
  MaxKinds      \* how many kinds happen in one behaviour

Decisions == 1 .. MaxDecisions
Threads == Workers \cup Requests
Kinds == {"crash", "fail", "lapse", "retry", "compile"}

ASSUME CompilationAssumption ==
  /\ MaxDecisions \in Nat
  /\ Workers # {} /\ Workers \cap Requests = {} /\ "none" \notin Workers
  /\ Risk \in [Kinds -> Nat] /\ MaxKinds \in Nat

VARIABLES
  version,    \* captures.version of the source: decisions made so far
  source,     \* source_retention_receipts.authorization_state
  elapsed,    \* authorization_expires_at has passed
  job,        \* source_authorization_compilation_jobs, by decision
  ready,      \* jobs whose available_at has passed
  lapsed,     \* jobs whose lease_expires_at has passed
  answer,     \* what the decision's own record says of the compilation
  compiled,   \* the snapshot under each decision's compilation key, if any
  invalid,    \* keys whose record says {"invalidated":true} instead
  published,  \* the relationship's published snapshot, if any
  thread,     \* what each worker and each request is doing
  spent       \* Risk that was used

sourceVars == <<version, source, elapsed>>
jobVars == <<job, ready, lapsed, answer>>
wikiVars == <<compiled, invalid, published>>
vars == <<sourceVars, jobVars, wikiVars, thread, spent>>

\* key 0 is a compilation a user asked for, under a key used only once.  saw is
\* the version of the source a request expects or a compilation read first;
\* rests, that a read found the source's evidence; late, that the transaction
\* began after the deadline (now() is the start of the transaction).
Idle == [at |-> "idle", key |-> 0, want |-> "none", saw |-> 0,
         rests |-> FALSE, late |-> FALSE, outcome |-> "none"]

CompilationInit ==
  /\ version = 0 /\ source = "authorized" /\ elapsed = FALSE
  /\ job = [d \in Decisions |-> [status |-> "none", decision |-> "none", owner |-> "none"]]
  /\ ready = {} /\ lapsed = {}
  /\ answer = [d \in Decisions |-> "none"]
  /\ compiled = [d \in Decisions |-> {}]
  /\ invalid = {} /\ published = {}
  /\ thread = [t \in Threads |-> Idle]
  /\ spent = [k \in Kinds |-> 0]

Spend(kind) ==
  /\ spent[kind] < Risk[kind]
  /\ Cardinality({k \in Kinds : spent[k] > 0} \cup {kind}) <= MaxKinds
  /\ spent' = [spent EXCEPT ![kind] = @ + 1]

Usable == source = "authorized" /\ ~elapsed

-------------------------------------------------------------------------------
(* Decisions.                                                              *)

\* invalidateKnowledge: the published snapshot is superseded, and the record of
\* its compilation, or of any that used the source's evidence, loses its answer.
Invalidated ==
  {d \in Decisions : \E s \in compiled[d] : s.rests \/ s \in published}

\* transitionCaptureSourceAuthorization, once its checks have passed.
Transition(decision) ==
  LET d == version + 1 IN
  /\ version < MaxDecisions
  /\ version' = d
  /\ source' = CASE decision = "restore" -> "authorized"
                 [] decision = "revoke" -> "revoked"
                 [] decision = "expire" -> "expired"
  /\ elapsed' = (elapsed /\ decision # "restore")
  /\ job' = [job EXCEPT ![d] = [status |-> "pending", decision |-> decision, owner |-> "none"]]
  /\ ready' = ready \cup {d}
  /\ invalid' = invalid \cup Invalidated
  /\ published' = {}
  /\ UNCHANGED <<lapsed, answer, compiled>>

\* The deadline passes; a bound keeps one decision for it.
Elapse ==
  /\ source = "authorized" /\ ~elapsed /\ version < MaxDecisions
  /\ elapsed' = TRUE
  /\ UNCHANGED <<version, source, jobVars, wikiVars, thread, spent>>

\* sweepDueSourceAuthorizations, which leaves the compilation to the workers.
Sweep ==
  /\ source = "authorized" /\ elapsed
  /\ Transition("expire")
  /\ UNCHANGED <<thread, spent>>

\* A request to revoke or restore arrives; a source that is due expires first
\* (expireCaptureSourceAuthorizationIfDue, which reads without a lock).
Request(r, want) ==
  /\ thread[r] = Idle /\ version < MaxDecisions
  /\ thread' = [thread EXCEPT ![r] =
       [Idle EXCEPT !.at = IF source = "authorized" /\ elapsed THEN "expire" ELSE "decide",
                    !.want = want, !.saw = version]]
  /\ UNCHANGED <<sourceVars, jobVars, wikiVars, spent>>

\* The expiry of that request.  If a sweep committed it first the key replays
\* its answer to the same user; any other change makes the request stale.
ExpireFirst(r) ==
  LET p == thread[r]
      Compile == [thread EXCEPT ![r].at = "compile", ![r].key = p.saw + 1]
  IN
  /\ p.at = "expire"
  /\ \/ /\ p.saw = version /\ Transition("expire")
        /\ thread' = Compile
     \/ /\ p.saw # version /\ UNCHANGED <<sourceVars, jobVars, wikiVars>>
        /\ thread' \in {[thread EXCEPT ![r] = Idle]} \cup
             {q \in {Compile} : job[p.saw + 1].decision = "expire"}
  /\ UNCHANGED spent

Target(want) == IF want = "restore" THEN "authorized" ELSE "revoked"

\* The decision itself: refused when stale or when it would change nothing.
Decide(r) ==
  LET p == thread[r] IN
  /\ p.at = "decide"
  /\ \/ /\ p.saw = version /\ source # Target(p.want)
        /\ Transition(p.want)
        /\ thread' = [thread EXCEPT ![r] = [Idle EXCEPT !.at = "compile", !.key = version + 1]]
     \/ /\ p.saw # version \/ source = Target(p.want) \/ version = MaxDecisions
        /\ thread' = [thread EXCEPT ![r] = Idle]
        /\ UNCHANGED <<sourceVars, jobVars, wikiVars>>
  /\ UNCHANGED spent

\* A client repeats a decision whose answer it lost: the record is replayed, and
\* compiled again unless it already tells of a compilation or of its failure.
\* (A restore that met a deadline cannot be repeated: its record was written for
\* another expected version.)
Retry(r, d) ==
  /\ thread[r] = Idle /\ job[d].decision \in {"revoke", "restore"} /\ answer[d] = "none"
  /\ thread' = [thread EXCEPT ![r] = [Idle EXCEPT !.at = "compile", !.key = d]]
  /\ Spend("retry")
  /\ UNCHANGED <<sourceVars, jobVars, wikiVars>>

\* A user compiles the Wiki (POST .../wiki/compile).
Compile(r) ==
  /\ thread[r] = Idle
  /\ thread' = [thread EXCEPT ![r] = [Idle EXCEPT !.at = "compile"]]
  /\ Spend("compile")
  /\ UNCHANGED <<sourceVars, jobVars, wikiVars>>

-------------------------------------------------------------------------------
(* Jobs.                                                                   *)

\* Mutant: a job whose worker was lost is not taken again.
ClaimableOnce(d) == job[d].status \in {"pending", "retry"} /\ d \in ready

Claimable(d) ==
  \/ job[d].status \in {"pending", "retry"} /\ d \in ready
  \/ job[d].status = "running" /\ d \in lapsed

\* claimSourceAuthorizationCompilationJob
Claim(w, d) ==
  /\ thread[w] = Idle /\ Claimable(d)
  /\ job' = [job EXCEPT ![d].status = "running", ![d].owner = w]
  /\ ready' = ready \ {d} /\ lapsed' = lapsed \ {d}
  /\ thread' = [thread EXCEPT ![w] = [Idle EXCEPT !.at = "compile", !.key = d]]
  /\ UNCHANGED <<sourceVars, answer, wikiVars, spent>>

\* The back-off of a failed attempt is over.
Ready(d) ==
  /\ job[d].status = "retry" /\ d \notin ready
  /\ ready' = ready \cup {d}
  /\ UNCHANGED <<sourceVars, job, lapsed, answer, wikiVars, thread, spent>>

\* A lease that nobody renews is over, at last when its owner is gone.
Lapse(d) ==
  /\ job[d].status = "running" /\ d \notin lapsed
  /\ lapsed' = lapsed \cup {d}
  /\ \/ thread[job[d].owner].key # d /\ UNCHANGED spent
     \/ thread[job[d].owner].key = d /\ Spend("lapse")
  /\ UNCHANGED <<sourceVars, job, ready, answer, wikiVars, thread>>

\* persistSourceAuthorizationCompilation: a worker needs to own the running job,
\* a request one that no worker has.
Persisted(t, d, outcome) ==
  LET Matches == IF t \in Workers THEN job[d].status = "running" /\ job[d].owner = t
                 ELSE job[d].status \in {"pending", "retry"}
      Done == outcome = "snapshot"
  IN
  IF Matches
  THEN /\ job' = [job EXCEPT ![d].status = IF Done THEN "completed" ELSE "retry",
                             ![d].owner = "none"]
       /\ answer' = [answer EXCEPT ![d] = IF Done THEN "compiled" ELSE "error"]
       /\ ready' = ready \ {d} /\ lapsed' = lapsed \ {d}
  ELSE UNCHANGED jobVars

\* What a request goes on to after a compilation is recorded: a restore that met
\* a deadline expects the version the expiry made.
After(p) ==
  IF p.want = "restore"
  THEN [Idle EXCEPT !.at = "decide", !.want = "restore", !.saw = p.key]
  ELSE Idle

Persist(t) ==
  LET p == thread[t] IN
  /\ p.at = "persist"
  /\ Persisted(t, p.key, p.outcome)
  /\ thread' = [thread EXCEPT ![t] = After(p)]
  /\ UNCHANGED <<sourceVars, wikiVars, spent>>

\* The record cannot be written: a worker that compiled takes it for a failure
\* of the attempt and records that; otherwise the error ends pass and request.
LosePersist(t) ==
  LET p == thread[t] IN
  /\ p.at = "persist" /\ Spend("fail")
  /\ thread' = [thread EXCEPT ![t] =
       IF t \in Workers /\ p.outcome = "snapshot" THEN [p EXCEPT !.outcome = "error"] ELSE Idle]
  /\ UNCHANGED <<sourceVars, jobVars, wikiVars>>

-------------------------------------------------------------------------------
(* compileRelationshipWiki, one transaction.                               *)

\* The transaction is open: it has its key and the lock of the relationship.
Open(t) == thread[t].at \in {"read", "check", "commit"}

\* FOR UPDATE of the subject and the assignment.
LockFree == \A t \in Threads : ~Open(t)

\* Where a compilation leaves its caller: only a decision's is recorded.
Ended(p, outcome) ==
  IF p.key = 0 THEN Idle
  ELSE [Idle EXCEPT !.at = "persist", !.key = p.key, !.want = p.want, !.outcome = outcome]

\* Mutant: a compilation that does not take the lock.
BeginUnlocked(t) ==
  LET p == thread[t] IN
  /\ p.at = "compile"
  /\ \A u \in Threads : Open(u) => thread[u].key # p.key
  /\ p.key = 0 \/ (p.key \in Decisions /\ compiled[p.key] = {})
  /\ thread' = [thread EXCEPT ![t] =
       [p EXCEPT !.at = "read", !.saw = version, !.rests = Usable, !.late = elapsed]]
  /\ UNCHANGED <<sourceVars, jobVars, wikiVars, spent>>

\* claimIdempotency finds no record, or waits until the one it meets is rolled
\* back; then the lock, and the first of the reads.
Begin(t) ==
  LET p == thread[t] IN
  /\ p.at = "compile" /\ LockFree
  /\ p.key = 0 \/ (p.key \in Decisions /\ compiled[p.key] = {})
  /\ thread' = [thread EXCEPT ![t] =
       [p EXCEPT !.at = "read", !.saw = version, !.rests = Usable, !.late = elapsed]]
  /\ UNCHANGED <<sourceVars, jobVars, wikiVars, spent>>

\* The source's evidence, for a statement of the transaction of p.
Sees(p) == source = "authorized" /\ ~(elapsed /\ p.late)

\* Each later read sees what has been committed since.
ReadMore(t) ==
  LET p == thread[t] IN
  /\ p.at = "read"
  /\ thread' = [thread EXCEPT ![t] =
       [p EXCEPT !.at = "check", !.rests = @ \/ Sees(p)]]
  /\ UNCHANGED <<sourceVars, jobVars, wikiVars, spent>>

\* loadSnapshot, at the end of the transaction, refuses a snapshot whose source
\* is no longer authorized; so does any other failure.  All is rolled back.
Check(t) ==
  LET p == thread[t]
      Stale == p.rests /\ ~Sees(p)
  IN
  /\ p.at = "check"
  /\ thread' = [thread EXCEPT ![t] = IF Stale THEN Ended(p, "error") ELSE [p EXCEPT !.at = "commit"]]
  /\ UNCHANGED <<sourceVars, jobVars, wikiVars, spent>>

\* The new snapshot replaces the published one and is the answer of its key.
Commit(t) ==
  LET p == thread[t]
      new == [key |-> p.key, saw |-> p.saw, rests |-> p.rests]
  IN
  /\ p.at = "commit"
  /\ published' = {new}
  /\ compiled' = [d \in Decisions |-> IF d = p.key THEN {new} ELSE compiled[d]]
  /\ thread' = [thread EXCEPT ![t] = Ended(p, "snapshot")]
  /\ UNCHANGED <<sourceVars, jobVars, invalid, spent>>

Fail(t) ==
  /\ thread[t].at \in {"compile", "read", "check", "commit"}
  /\ thread' = [thread EXCEPT ![t] = Ended(thread[t], "error")]
  /\ Spend("fail")
  /\ UNCHANGED <<sourceVars, jobVars, wikiVars>>

\* The key has an answer: it is replayed if the snapshot may still be loaded.
Replay(t) ==
  LET p == thread[t]
      Loads == p.key \notin invalid /\ \A s \in compiled[p.key] : s.rests => Usable
  IN
  /\ p.at = "compile" /\ p.key \in Decisions /\ compiled[p.key] # {}
  /\ thread' = [thread EXCEPT ![t] = Ended(p, IF Loads THEN "snapshot" ELSE "error")]
  /\ UNCHANGED <<sourceVars, jobVars, wikiVars, spent>>

\* A process dies, and with it its transaction.
Crash(t) ==
  /\ thread[t] # Idle
  /\ thread' = [thread EXCEPT ![t] = Idle]
  /\ Spend("crash")
  /\ UNCHANGED <<sourceVars, jobVars, wikiVars>>

-------------------------------------------------------------------------------
Work(t) == Persist(t) \/ ReadMore(t) \/ Check(t) \/ Commit(t)

Enter(t) == Begin(t) \/ Replay(t)

CompilationNext ==
  \/ Elapse \/ Sweep
  \/ \E r \in Requests :
       \/ \E want \in {"revoke", "restore"} : Request(r, want)
       \/ ExpireFirst(r) \/ Decide(r) \/ Compile(r)
       \/ \E d \in Decisions : Retry(r, d)
  \/ \E w \in Workers, d \in Decisions : Claim(w, d)
  \/ \E d \in Decisions : Ready(d) \/ Lapse(d)
  \/ \E t \in Threads : Work(t) \/ Enter(t) \/ LosePersist(t) \/ Fail(t) \/ Crash(t)

CompilationSafety == CompilationInit /\ [][CompilationNext]_vars

\* A running process goes on, the lifecycle sweep comes again and takes the
\* oldest jobs first, leases and back-offs end, and the lock of the relationship
\* is given out in the order it was asked for.
CompilationSpec ==
  /\ CompilationSafety
  /\ WF_vars(Sweep)
  /\ \A r \in Requests : WF_vars(ExpireFirst(r) \/ Decide(r))
  /\ \A t \in Threads : WF_vars(Work(t)) /\ SF_vars(Enter(t))
  /\ \A d \in Decisions :
       /\ WF_vars(Ready(d)) /\ WF_vars(Lapse(d) /\ UNCHANGED spent)
       /\ SF_vars(\E w \in Workers : Claim(w, d))

-------------------------------------------------------------------------------
Snapshots == [key : 0 .. MaxDecisions, saw : 0 .. MaxDecisions, rests : BOOLEAN]

ThreadStates ==
  [at : {"idle", "expire", "decide", "compile", "read", "check", "commit", "persist"},
   key : 0 .. MaxDecisions, want : {"none", "revoke", "restore"}, saw : 0 .. MaxDecisions,
   rests : BOOLEAN, late : BOOLEAN, outcome : {"none", "snapshot", "error"}]

JobStates ==
  [status : {"none", "pending", "running", "retry", "completed"},
   decision : {"none", "revoke", "expire", "restore"}, owner : Workers \cup {"none"}]

\* The type invariant.
CompilationTypeOK ==
  /\ version \in 0 .. MaxDecisions
  /\ source \in {"authorized", "revoked", "expired"} /\ elapsed \in BOOLEAN
  /\ job \in [Decisions -> JobStates]
  /\ ready \subseteq Decisions /\ lapsed \subseteq Decisions
  /\ answer \in [Decisions -> {"none", "compiled", "error"}]
  /\ compiled \in [Decisions -> SUBSET Snapshots]
  /\ invalid \subseteq Decisions /\ published \subseteq Snapshots
  /\ thread \in [Threads -> ThreadStates]
  /\ spent \in [Kinds -> Nat]

\* The published Wiki was read after every decision whose job is completed, and
\* there is one if the last decision's is: no worker that was slow, late or
\* repeated publishes what an older state of the source said over it.
RecompiledAfterDecision ==
  \A d \in Decisions : job[d].status = "completed" =>
    /\ \A s \in published : s.saw >= d
    /\ published = {} => d < version

\* Every decision's job is completed, unless a later decision took back the
\* compilation's answer before the job was told of it.
CompilationEnds ==
  \A d \in Decisions :
    (job[d].status # "none") ~> (job[d].status = "completed" \/ d \in invalid)

\* docs/architecture.md:226: "This makes projection recovery eventually complete
\* across restarts", for every job.
EveryJobCompletes ==
  \A d \in Decisions : (job[d].status # "none") ~> (job[d].status = "completed")

===============================================================================
