------------------------ MODULE SourceCompilationProofs ------------------------
(***************************************************************************)
(* That the Wiki published last is never older than a decision whose job   *)
(* is completed, for any number of decisions, workers and requests and any *)
(* failures.                                                               *)
(*                                                                         *)
(* The argument: a decision's key cannot be used before the decision is    *)
(* made, and its compilation begins under the lock of the relationship.    *)
(* When it commits, whatever was compiling before it has ended, and what   *)
(* begins later reads at least as much (Fresh).  A job is completed only   *)
(* by somebody who was told that its key has a snapshot (Told, Done).      *)
(***************************************************************************)
EXTENDS SourceCompilation, TLAPS

\* Jobs and keys belong to decisions that were made.
Made ==
  \A d \in Decisions : d > version =>
    job[d].status = "none" /\ job[d].decision = "none" /\ compiled[d] = {}

\* What a thread works for exists, and what it expects or has read is no more
\* than the current version; a compilation reads no less than its decision made.
Placed ==
  \A t \in Threads :
    /\ thread[t].key <= version /\ thread[t].saw <= version
    /\ Open(t) => thread[t].key <= thread[t].saw
    /\ thread[t].at = "decide" => thread[t].want # "none"

\* One compilation at a time.
Alone == \A t, u \in Threads : Open(t) /\ Open(u) => t = u

\* Once a decision's compilation is committed, nothing older is published and
\* nothing older is being compiled.
Fresh ==
  \A d \in Decisions : compiled[d] # {} =>
    /\ \A s \in published : s.saw >= d
    /\ published = {} => d < version
    /\ \A t \in Threads : Open(t) => thread[t].saw >= d

\* Who records a snapshot has one.
Told ==
  \A t \in Threads : thread[t].at = "persist" =>
    /\ thread[t].key \in Decisions
    /\ thread[t].outcome = "snapshot" => compiled[thread[t].key] # {}

Done == \A d \in Decisions : job[d].status = "completed" => compiled[d] # {}

CompilationInv == CompilationTypeOK /\ Made /\ Placed /\ Alone /\ Fresh /\ Told /\ Done

OpenAt == {"read", "check", "commit"}

LEMMA IdleState == Idle \in ThreadStates
BY CompilationAssumption DEF Idle, ThreadStates

LEMMA CompileState ==
  ASSUME NEW p \in ThreadStates, NEW k \in 0 .. MaxDecisions
  PROVE  [p EXCEPT !.at = "compile", !.key = k] \in ThreadStates
BY DEF ThreadStates

LEMMA SpendType ==
  ASSUME CompilationTypeOK, NEW k \in Kinds, Spend(k) PROVE spent' \in [Kinds -> Nat]
BY DEF CompilationTypeOK, Spend

\* A step of thread t, which is q afterwards, that changes no version, job, key
\* or snapshot.
Steps(t, q) ==
  /\ q \in ThreadStates /\ thread' = [thread EXCEPT ![t] = q]
  /\ UNCHANGED <<sourceVars, jobVars, wikiVars>> /\ spent' \in [Kinds -> Nat]
  /\ q.key <= version /\ q.saw <= version
  /\ q.at = "decide" => q.want # "none"
  /\ q.at \in OpenAt => /\ q.key <= q.saw
                        /\ LockFree \/ Open(t)
                        /\ \A d \in Decisions : compiled[d] # {} => q.saw >= d
  /\ q.at = "persist" => /\ q.key \in Decisions
                         /\ q.outcome = "snapshot" => compiled[q.key] # {}

LEMMA ThreadStep ==
  ASSUME CompilationInv, NEW t \in Threads, NEW q, Steps(t, q) PROVE CompilationInv'
<1> USE DEF Steps
<1>1. /\ thread'[t] = q
      /\ \A u \in Threads : u # t => thread'[u] = thread[u]
  BY DEF CompilationInv, CompilationTypeOK
<1>2. CompilationTypeOK'
  BY DEF CompilationInv, CompilationTypeOK, sourceVars, jobVars, wikiVars
<1>3. Made' /\ Done' BY DEF CompilationInv, Made, Done, sourceVars, jobVars, wikiVars
<1>4. Placed' BY <1>1 DEF CompilationInv, Placed, Open, OpenAt, sourceVars
<1>5. Alone' BY <1>1 DEF CompilationInv, Alone, Open, OpenAt, LockFree
<1>6. Fresh' BY <1>1 DEF CompilationInv, Fresh, Open, OpenAt, sourceVars, wikiVars
<1>7. Told' BY <1>1 DEF CompilationInv, Told, wikiVars
<1> QED BY <1>2, <1>3, <1>4, <1>5, <1>6, <1>7 DEF CompilationInv

\* A step that makes a decision and leaves thread t, outside a transaction, as q.
Decides(kind, t, q) ==
  /\ Transition(kind) /\ kind \in {"revoke", "restore", "expire"}
  /\ q \in ThreadStates /\ thread' = [thread EXCEPT ![t] = q] /\ UNCHANGED spent
  /\ q.key <= version + 1 /\ q.saw <= version + 1
  /\ q.at = "decide" => q.want # "none"
  /\ q.at \notin OpenAt \cup {"persist"} \/ q = thread[t]

LEMMA TransitionStep ==
  ASSUME CompilationInv, NEW kind, NEW t \in Threads, NEW q, Decides(kind, t, q)
  PROVE  CompilationInv'
<1> USE DEF Decides
<1> USE CompilationAssumption
<1> DEFINE d == version + 1
<1>1. /\ thread'[t] = q
      /\ \A u \in Threads : u # t => thread'[u] = thread[u]
      /\ \A u \in Threads : thread'[u] = thread[u] \/ thread'[u].at \notin OpenAt \cup {"persist"}
  BY DEF CompilationInv, CompilationTypeOK
<1>2. /\ d \in Decisions /\ version' = d /\ version \in Nat
      /\ compiled' = compiled /\ published' = {}
  BY DEF CompilationInv, CompilationTypeOK, Transition, Decisions
<1>3. job' = [job EXCEPT ![d] = [status |-> "pending", decision |-> kind, owner |-> "none"]]
  BY DEF Transition
<1>4. CompilationTypeOK'
  <2>1. job' \in [Decisions -> JobStates]
    BY <1>2, <1>3 DEF CompilationInv, CompilationTypeOK, JobStates
  <2>2. source' \in {"authorized", "revoked", "expired"} /\ elapsed' \in BOOLEAN
    BY DEF Transition
  <2>3. invalid' \subseteq Decisions /\ ready' \subseteq Decisions /\ lapsed' = lapsed
        /\ answer' = answer
    BY <1>2 DEF CompilationInv, CompilationTypeOK, Transition, Invalidated
  <2>4. thread' \in [Threads -> ThreadStates] /\ spent' = spent
    BY DEF CompilationInv, CompilationTypeOK
  <2>5. version' \in 0 .. MaxDecisions BY <1>2 DEF Decisions
  <2> QED BY <1>2, <2>1, <2>2, <2>3, <2>4, <2>5 DEF CompilationInv, CompilationTypeOK
<1>5. Made' BY <1>2, <1>3 DEF CompilationInv, CompilationTypeOK, Made, Decisions
<1>6. Placed'
  <2>1. \A u \in Threads : thread[u].key \in Nat /\ thread[u].saw \in Nat
    BY DEF CompilationInv, CompilationTypeOK, ThreadStates
  <2>2. q.key \in Nat /\ q.saw \in Nat BY DEF ThreadStates
  <2> QED BY <1>1, <1>2, <2>1, <2>2 DEF CompilationInv, Placed, Open, OpenAt
<1>7. Alone' BY <1>1 DEF CompilationInv, Alone, Open, OpenAt
<1>8. Fresh'
  <2>1. \A e \in Decisions : compiled[e] # {} => e <= version
    BY <1>2 DEF CompilationInv, Made, Decisions
  <2> QED BY <1>1, <1>2, <2>1 DEF CompilationInv, Fresh, Open, OpenAt, Decisions
<1>9. Told' BY <1>1, <1>2 DEF CompilationInv, Told
<1>10. Done' BY <1>2, <1>3 DEF CompilationInv, CompilationTypeOK, Done
<1> QED BY <1>4, <1>5, <1>6, <1>7, <1>8, <1>9, <1>10 DEF CompilationInv

\* A step that makes job d the row j and leaves thread t, outside a transaction,
\* as q.
Records(d, j, t, q) ==
  /\ d \in Decisions /\ j \in JobStates
  /\ job' = [job EXCEPT ![d] = j] /\ job[d].status # "none"
  /\ j.status = "completed" => compiled[d] # {}
  /\ ready' \subseteq Decisions /\ lapsed' \subseteq Decisions
  /\ answer' \in [Decisions -> {"none", "compiled", "error"}]
  /\ q \in ThreadStates /\ thread' = [thread EXCEPT ![t] = q]
  /\ spent' \in [Kinds -> Nat] /\ UNCHANGED <<sourceVars, wikiVars>>
  /\ q.key <= version /\ q.saw <= version
  /\ q.at = "decide" => q.want # "none"
  /\ q.at \notin OpenAt \cup {"persist"}

LEMMA JobStep ==
  ASSUME CompilationInv, NEW d, NEW j, NEW t \in Threads, NEW q, Records(d, j, t, q)
  PROVE  CompilationInv'
<1> USE DEF Records
<1> USE CompilationAssumption
<1>1. /\ thread'[t] = q
      /\ \A u \in Threads : u # t => thread'[u] = thread[u]
  BY DEF CompilationInv, CompilationTypeOK
<1>2. CompilationTypeOK'
  BY DEF CompilationInv, CompilationTypeOK, sourceVars, wikiVars
<1>3. Made'
  <2>1. d <= version
    BY DEF CompilationInv, CompilationTypeOK, Made, Decisions
  <2> QED BY <2>1 DEF CompilationInv, CompilationTypeOK, Made, Decisions, sourceVars, wikiVars
<1>4. Placed' BY <1>1 DEF CompilationInv, Placed, Open, OpenAt, sourceVars
<1>5. Alone' BY <1>1 DEF CompilationInv, Alone, Open, OpenAt
<1>6. Fresh' BY <1>1 DEF CompilationInv, Fresh, Open, OpenAt, sourceVars, wikiVars
<1>7. Told' BY <1>1 DEF CompilationInv, Told, wikiVars
<1>8. Done' BY DEF CompilationInv, CompilationTypeOK, Done, wikiVars
<1> QED BY <1>2, <1>3, <1>4, <1>5, <1>6, <1>7, <1>8 DEF CompilationInv

\* A thread's record, its updates, and what the invariant says of it.
LEMMA ThreadFacts ==
  ASSUME CompilationInv, NEW t \in Threads
  PROVE  /\ thread[t] \in ThreadStates /\ thread[t].key \in Nat /\ thread[t].saw \in Nat
         /\ thread[t].key <= version /\ thread[t].saw <= version
         /\ version \in Nat /\ version \in 0 .. MaxDecisions
         /\ thread[t].key # 0 => thread[t].key \in Decisions
         /\ thread[t].at = "decide" => thread[t].want # "none"
<1> USE CompilationAssumption
<1> QED BY DEF CompilationInv, CompilationTypeOK, Placed, ThreadStates, Decisions

LEMMA EndedState ==
  ASSUME CompilationInv, NEW t \in Threads, NEW o \in {"snapshot", "error"}
  PROVE  /\ Ended(thread[t], o) \in ThreadStates
         /\ Ended(thread[t], o).key \in {0, thread[t].key} /\ Ended(thread[t], o).saw = 0
         /\ Ended(thread[t], o).at \in {"idle", "persist"}
         /\ Ended(thread[t], o).at = "persist" =>
              /\ Ended(thread[t], o).key \in Decisions
              /\ Ended(thread[t], o).key = thread[t].key
              /\ Ended(thread[t], o).outcome = o
<1>1. thread[t] \in ThreadStates /\ (thread[t].key # 0 => thread[t].key \in Decisions)
  BY ThreadFacts
<1> QED BY <1>1, IdleState DEF Ended, Idle, ThreadStates

LEMMA InitInv == CompilationInit => CompilationInv
<1> USE CompilationAssumption
<1> SUFFICES ASSUME CompilationInit PROVE CompilationInv OBVIOUS
<1>1. CompilationTypeOK
  <2>1. thread \in [Threads -> ThreadStates] BY IdleState DEF CompilationInit
  <2>2. job \in [Decisions -> JobStates] BY DEF CompilationInit, JobStates
  <2>3. spent \in [Kinds -> Nat] BY DEF CompilationInit
  <2>4. compiled \in [Decisions -> SUBSET Snapshots] BY DEF CompilationInit
  <2>5. answer \in [Decisions -> {"none", "compiled", "error"}] BY DEF CompilationInit
  <2>6. version \in 0 .. MaxDecisions BY DEF CompilationInit
  <2> QED BY <2>1, <2>2, <2>3, <2>4, <2>5, <2>6 DEF CompilationInit, CompilationTypeOK
<1>2. Made /\ Done BY DEF CompilationInit, Made, Done
<1>3. Placed /\ Alone /\ Fresh /\ Told
  BY DEF CompilationInit, Placed, Alone, Fresh, Told, Open, Idle
<1> QED BY <1>1, <1>2, <1>3 DEF CompilationInv

\* A step that leaves a thread idle.
LEMMA IdleStep ==
  ASSUME CompilationInv, NEW t \in Threads, thread' = [thread EXCEPT ![t] = Idle],
         UNCHANGED <<sourceVars, jobVars, wikiVars>>, spent' \in [Kinds -> Nat]
  PROVE  CompilationInv'
<1>1. /\ Idle \in ThreadStates /\ Idle.key = 0 /\ Idle.saw = 0 /\ Idle.at = "idle"
      /\ version \in Nat
  BY IdleState, ThreadFacts DEF Idle
<1>2. Steps(t, Idle) BY <1>1 DEF Steps, OpenAt
<1> QED BY <1>2, ThreadStep

-------------------------------------------------------------------------------
(* Decisions.                                                              *)

LEMMA ElapseInv == ASSUME CompilationInv, Elapse PROVE CompilationInv'
BY DEF Elapse, CompilationInv, CompilationTypeOK, Made, Placed, Alone, Fresh, Told, Done,
       Open, jobVars, wikiVars

LEMMA SweepInv == ASSUME CompilationInv, Sweep, Threads # {} PROVE CompilationInv'
<1> PICK t \in Threads : TRUE OBVIOUS
<1>1. thread' = [thread EXCEPT ![t] = thread[t]] BY DEF Sweep, CompilationInv, CompilationTypeOK
<1>2. Transition("expire") /\ UNCHANGED spent BY DEF Sweep
<1>3. Decides("expire", t, thread[t]) BY <1>1, <1>2, ThreadFacts DEF Decides
<1> QED BY <1>3, TransitionStep

LEMMA RequestInv ==
  ASSUME CompilationInv, NEW r \in Requests, NEW want \in {"revoke", "restore"}, Request(r, want)
  PROVE  CompilationInv'
<1> DEFINE q == [Idle EXCEPT !.at = IF source = "authorized" /\ elapsed THEN "expire" ELSE "decide",
                             !.want = want, !.saw = version]
<1>1. r \in Threads BY DEF Threads
<1>2. version \in 0 .. MaxDecisions /\ version \in Nat BY <1>1, ThreadFacts
<1>3. q \in ThreadStates /\ q.key = 0 /\ q.saw = version /\ q.at \in {"expire", "decide"}
      /\ q.want # "none"
  BY <1>2, IdleState DEF Idle, ThreadStates
<1>4. spent' \in [Kinds -> Nat] BY DEF Request, CompilationInv, CompilationTypeOK
<1>5. thread' = [thread EXCEPT ![r] = q] /\ UNCHANGED <<sourceVars, jobVars, wikiVars>>
  BY DEF Request
<1> HIDE DEF q
<1>6. Steps(r, q) BY <1>2, <1>3, <1>4, <1>5 DEF Steps, OpenAt
<1> QED BY <1>1, <1>6, ThreadStep

LEMMA ExpireFirstInv ==
  ASSUME CompilationInv, NEW r \in Requests, ExpireFirst(r) PROVE CompilationInv'
<1> USE CompilationAssumption
<1> DEFINE q == [thread[r] EXCEPT !.at = "compile", !.key = thread[r].saw + 1]
<1>1. r \in Threads BY DEF Threads
<1>2. /\ thread[r] \in ThreadStates /\ thread[r].saw \in Nat /\ thread[r].saw <= version
      /\ version \in Nat /\ version \in 0 .. MaxDecisions
  BY <1>1, ThreadFacts
<1>3. ASSUME thread[r].saw < MaxDecisions PROVE q \in ThreadStates
  <2>1. thread[r].saw + 1 \in 0 .. MaxDecisions BY <1>2, <1>3
  <2> QED BY <1>2, <2>1, CompileState
<1>4. q.key = thread[r].saw + 1 /\ q.saw = thread[r].saw /\ q.at = "compile"
  BY <1>2 DEF ThreadStates
<1>5. [thread EXCEPT ![r].at = "compile", ![r].key = thread[r].saw + 1] = [thread EXCEPT ![r] = q]
  BY <1>1 DEF CompilationInv, CompilationTypeOK
<1> HIDE DEF q
<1>6. CASE thread[r].saw = version /\ Transition("expire") /\ thread' = [thread EXCEPT ![r] = q]
  <2>1. thread[r].saw < MaxDecisions BY <1>6 DEF Transition
  <2>2. UNCHANGED spent BY DEF ExpireFirst
  <2>3. Decides("expire", r, q) BY <1>2, <1>3, <1>4, <1>6, <2>1, <2>2 DEF Decides, OpenAt
  <2> QED BY <1>1, <2>3, TransitionStep
<1>7. CASE /\ thread[r].saw # version /\ UNCHANGED <<sourceVars, jobVars, wikiVars>>
           /\ \/ thread' = [thread EXCEPT ![r] = Idle]
              \/ thread' = [thread EXCEPT ![r] = q]
  <2>1. thread[r].saw + 1 <= version /\ thread[r].saw < MaxDecisions BY <1>2, <1>7
  <2>2. spent' \in [Kinds -> Nat] BY DEF ExpireFirst, CompilationInv, CompilationTypeOK
  <2>4. CASE thread' = [thread EXCEPT ![r] = Idle]
    BY <1>1, <1>7, <2>2, <2>4, IdleStep
  <2>5. CASE thread' = [thread EXCEPT ![r] = q]
    <3>1. Steps(r, q) BY <1>2, <1>3, <1>4, <1>7, <2>1, <2>2, <2>5 DEF Steps, OpenAt
    <3> QED BY <1>1, <3>1, ThreadStep
  <2> QED BY <1>7, <2>4, <2>5
<1> QED BY <1>5, <1>6, <1>7 DEF ExpireFirst

LEMMA DecideInv ==
  ASSUME CompilationInv, NEW r \in Requests, Decide(r) PROVE CompilationInv'
<1> USE CompilationAssumption
<1> DEFINE q == [Idle EXCEPT !.at = "compile", !.key = version + 1]
<1>1. r \in Threads BY DEF Threads
<1>2. /\ version \in Nat /\ version \in 0 .. MaxDecisions
      /\ thread[r] \in ThreadStates
  BY <1>1, ThreadFacts
<1>4. spent' = spent /\ spent' \in [Kinds -> Nat] BY DEF Decide, CompilationInv, CompilationTypeOK
<1>5. CASE thread' = [thread EXCEPT ![r] = q] /\ Transition(thread[r].want)
           /\ source # Target(thread[r].want) /\ thread[r].at = "decide"
  <2>1. version < MaxDecisions BY <1>5 DEF Transition
  <2>2. q \in ThreadStates /\ q.key = version + 1 /\ q.saw = 0 /\ q.at = "compile"
    <3>1. version + 1 \in 0 .. MaxDecisions BY <1>2, <2>1
    <3> QED BY <3>1, IdleState, CompileState DEF Idle
  <2>3. thread[r].want \in {"none", "revoke", "restore"} BY <1>2 DEF ThreadStates
  <2>4. thread[r].want # "none" => thread[r].want \in {"revoke", "restore", "expire"} BY <2>3
  <2>5. thread[r].want # "none" BY <1>1, <1>5 DEF CompilationInv, Placed
  <2> HIDE DEF q
  <2>6. Decides(thread[r].want, r, q) BY <1>2, <1>4, <1>5, <2>2, <2>4, <2>5 DEF Decides, OpenAt
  <2> QED BY <1>1, <2>6, TransitionStep
<1>6. CASE thread' = [thread EXCEPT ![r] = Idle] /\ UNCHANGED <<sourceVars, jobVars, wikiVars>>
  BY <1>1, <1>4, <1>6, IdleStep
<1> QED BY <1>5, <1>6 DEF Decide

LEMMA RetryInv ==
  ASSUME CompilationInv, NEW r \in Requests, NEW d \in Decisions, Retry(r, d)
  PROVE  CompilationInv'
<1> USE CompilationAssumption
<1> DEFINE q == [Idle EXCEPT !.at = "compile", !.key = d]
<1>1. r \in Threads BY DEF Threads
<1>2. version \in Nat BY <1>1, ThreadFacts
<1>3. q \in ThreadStates /\ q.key = d /\ q.saw = 0 /\ q.at = "compile"
  <2>1. d \in 0 .. MaxDecisions BY DEF Decisions
  <2> QED BY <2>1, IdleState, CompileState DEF Idle
<1>4. d <= version
  BY <1>2 DEF Retry, CompilationInv, Made, Decisions
<1>5. spent' \in [Kinds -> Nat] BY SpendType DEF Retry, CompilationInv, Kinds
<1>6. thread' = [thread EXCEPT ![r] = q] /\ UNCHANGED <<sourceVars, jobVars, wikiVars>>
  BY DEF Retry
<1> HIDE DEF q
<1>7. Steps(r, q) BY <1>2, <1>3, <1>4, <1>5, <1>6 DEF Steps, OpenAt
<1> QED BY <1>1, <1>7, ThreadStep

LEMMA CompileInv ==
  ASSUME CompilationInv, NEW r \in Requests, Compile(r) PROVE CompilationInv'
<1> USE CompilationAssumption
<1> DEFINE q == [Idle EXCEPT !.at = "compile"]
<1>1. r \in Threads BY DEF Threads
<1>2. version \in Nat BY <1>1, ThreadFacts
<1>3. q \in ThreadStates /\ q.key = 0 /\ q.saw = 0 /\ q.at = "compile"
  BY IdleState DEF Idle, ThreadStates
<1>4. spent' \in [Kinds -> Nat] BY SpendType DEF Compile, CompilationInv, Kinds
<1>5. thread' = [thread EXCEPT ![r] = q] /\ UNCHANGED <<sourceVars, jobVars, wikiVars>>
  BY DEF Compile
<1> HIDE DEF q
<1>6. Steps(r, q) BY <1>2, <1>3, <1>4, <1>5 DEF Steps, OpenAt
<1> QED BY <1>1, <1>6, ThreadStep

-------------------------------------------------------------------------------
(* Jobs.                                                                   *)

LEMMA ClaimInv ==
  ASSUME CompilationInv, NEW w \in Workers, NEW d \in Decisions, Claim(w, d)
  PROVE  CompilationInv'
<1> USE CompilationAssumption
<1> DEFINE q == [Idle EXCEPT !.at = "compile", !.key = d]
           j == [job[d] EXCEPT !.status = "running", !.owner = w]
<1>1. w \in Threads BY DEF Threads
<1>2. version \in Nat BY <1>1, ThreadFacts
<1>3. q \in ThreadStates /\ q.key = d /\ q.saw = 0 /\ q.at = "compile"
  <2>1. d \in 0 .. MaxDecisions BY DEF Decisions
  <2> QED BY <2>1, IdleState, CompileState DEF Idle
<1>4. job[d] \in JobStates BY DEF CompilationInv, CompilationTypeOK
<1>5. j \in JobStates /\ j.status = "running" BY <1>4 DEF JobStates
<1>6. job[d].status # "none" BY DEF Claim, Claimable
<1>7. d <= version BY <1>2, <1>6 DEF CompilationInv, Made, Decisions
<1>8. job' = [job EXCEPT ![d] = j] BY DEF Claim, CompilationInv, CompilationTypeOK
<1>9. /\ thread' = [thread EXCEPT ![w] = q] /\ UNCHANGED <<sourceVars, wikiVars>>
      /\ ready' \subseteq Decisions /\ lapsed' \subseteq Decisions
      /\ answer' \in [Decisions -> {"none", "compiled", "error"}] /\ spent' \in [Kinds -> Nat]
  BY DEF Claim, CompilationInv, CompilationTypeOK
<1> HIDE DEF q, j
<1>10. Records(d, j, w, q)
  BY <1>2, <1>3, <1>5, <1>6, <1>7, <1>8, <1>9 DEF Records, OpenAt
<1> QED BY <1>1, <1>10, JobStep

LEMMA ReadyInv ==
  ASSUME CompilationInv, NEW d \in Decisions, Ready(d) PROVE CompilationInv'
BY DEF Ready, CompilationInv, CompilationTypeOK, Made, Placed, Alone, Fresh, Told, Done,
       Open, sourceVars, wikiVars

LEMMA LapseInv ==
  ASSUME CompilationInv, NEW d \in Decisions, Lapse(d) PROVE CompilationInv'
<1>1. spent' \in [Kinds -> Nat]
  BY SpendType DEF Lapse, CompilationInv, CompilationTypeOK, Kinds
<1> QED BY <1>1 DEF Lapse, CompilationInv, CompilationTypeOK, Made, Placed, Alone, Fresh, Told,
       Done, Open, sourceVars, wikiVars

LEMMA PersistInv ==
  ASSUME CompilationInv, NEW t \in Threads, Persist(t) PROVE CompilationInv'
<1> USE CompilationAssumption
<1> DEFINE p == thread[t]
           q == After(p)
           d == p.key
<1>1. /\ p \in ThreadStates /\ p.key \in Nat /\ p.key <= version /\ version \in Nat
      /\ version \in 0 .. MaxDecisions
  BY ThreadFacts
<1>2. d \in Decisions /\ (p.outcome = "snapshot" => compiled[d] # {})
  BY DEF Persist, CompilationInv, Told
<1>3. /\ q \in ThreadStates /\ q.key <= version /\ q.saw <= version
      /\ q.at = "decide" => q.want # "none"
      /\ q.at \in {"idle", "decide"}
  <2>1. /\ Idle \in ThreadStates /\ Idle.key = 0 /\ Idle.saw = 0 /\ Idle.at = "idle"
    BY IdleState DEF Idle
  <2> DEFINE m == [Idle EXCEPT !.at = "decide", !.want = "restore", !.saw = p.key]
  <2>2. /\ m \in ThreadStates /\ m.key = 0 /\ m.saw = p.key /\ m.at = "decide"
        /\ m.want = "restore"
    <3>1. p.key \in 0 .. MaxDecisions BY <1>1
    <3> QED BY <2>1, <3>1 DEF ThreadStates
  <2>3. q = m \/ q = Idle BY DEF After
  <2> HIDE DEF m, q
  <2> QED BY <1>1, <2>1, <2>2, <2>3
<1>4. /\ thread' = [thread EXCEPT ![t] = q] /\ UNCHANGED <<sourceVars, wikiVars>>
      /\ spent' \in [Kinds -> Nat] /\ Persisted(t, d, p.outcome)
  BY DEF Persist, CompilationInv, CompilationTypeOK
<1> HIDE DEF q
<1>5. CASE UNCHANGED jobVars
  <2>1. Steps(t, q) BY <1>3, <1>4, <1>5 DEF Steps, OpenAt
  <2> QED BY <2>1, ThreadStep
<1>6. ASSUME NEW s \in {"completed", "retry"}, NEW a \in {"compiled", "error"},
             job[d].status \in {"running", "pending", "retry"},
             s = "completed" => p.outcome = "snapshot",
             job' = [job EXCEPT ![d].status = s, ![d].owner = "none"],
             answer' = [answer EXCEPT ![d] = a],
             ready' = ready \ {d}, lapsed' = lapsed \ {d}
      PROVE  CompilationInv'
  <2> DEFINE j == [job[d] EXCEPT !.status = s, !.owner = "none"]
  <2>1. job[d] \in JobStates BY <1>2 DEF CompilationInv, CompilationTypeOK
  <2>2. j \in JobStates /\ j.status = s BY <2>1 DEF JobStates
  <2>3. job' = [job EXCEPT ![d] = j] BY <1>2, <1>6 DEF CompilationInv, CompilationTypeOK
  <2>4. /\ ready' \subseteq Decisions /\ lapsed' \subseteq Decisions
        /\ answer' \in [Decisions -> {"none", "compiled", "error"}]
    BY <1>2, <1>6 DEF CompilationInv, CompilationTypeOK
  <2> HIDE DEF j
  <2>5. Records(d, j, t, q)
    BY <1>2, <1>3, <1>4, <1>6, <2>2, <2>3, <2>4 DEF Records, OpenAt
  <2> QED BY <2>5, JobStep
<1>7. \/ UNCHANGED jobVars
      \/ \E s \in {"completed", "retry"}, a \in {"compiled", "error"} :
           /\ job[d].status \in {"running", "pending", "retry"}
           /\ s = "completed" => p.outcome = "snapshot"
           /\ job' = [job EXCEPT ![d].status = s, ![d].owner = "none"]
           /\ answer' = [answer EXCEPT ![d] = a]
           /\ ready' = ready \ {d} /\ lapsed' = lapsed \ {d}
  BY <1>4 DEF Persisted
<1> QED BY <1>5, <1>6, <1>7

LEMMA LosePersistInv ==
  ASSUME CompilationInv, NEW t \in Threads, LosePersist(t) PROVE CompilationInv'
<1> USE CompilationAssumption
<1> DEFINE q == [thread[t] EXCEPT !.outcome = "error"]
<1>1. /\ thread[t] \in ThreadStates /\ thread[t].key <= version /\ thread[t].saw <= version
  BY ThreadFacts
<1>2. q \in ThreadStates /\ q.key = thread[t].key /\ q.saw = thread[t].saw
      /\ q.at = thread[t].at /\ q.outcome = "error"
  BY <1>1 DEF ThreadStates
<1>3. thread[t].at = "persist" /\ thread[t].key \in Decisions
  BY DEF LosePersist, CompilationInv, Told
<1>4. spent' \in [Kinds -> Nat] BY SpendType DEF LosePersist, CompilationInv, Kinds
<1>5. /\ UNCHANGED <<sourceVars, jobVars, wikiVars>>
      /\ thread' = [thread EXCEPT ![t] = q] \/ thread' = [thread EXCEPT ![t] = Idle]
  BY DEF LosePersist
<1> HIDE DEF q
<1>6. CASE thread' = [thread EXCEPT ![t] = q]
  <2>1. Steps(t, q) BY <1>1, <1>2, <1>3, <1>4, <1>5, <1>6 DEF Steps, OpenAt
  <2> QED BY <2>1, ThreadStep
<1>7. CASE thread' = [thread EXCEPT ![t] = Idle] BY <1>4, <1>5, <1>7, IdleStep
<1> QED BY <1>5, <1>6, <1>7

-------------------------------------------------------------------------------
(* compileRelationshipWiki.                                                *)

LEMMA BeginInv ==
  ASSUME CompilationInv, NEW t \in Threads, Begin(t) PROVE CompilationInv'
<1> USE CompilationAssumption
<1> DEFINE q == [thread[t] EXCEPT !.at = "read", !.saw = version, !.rests = Usable, !.late = elapsed]
<1>1. /\ thread[t] \in ThreadStates /\ thread[t].key <= version /\ version \in 0 .. MaxDecisions
      /\ version \in Nat
  BY ThreadFacts
<1>2. q \in ThreadStates /\ q.key = thread[t].key /\ q.saw = version /\ q.at = "read"
  <2>1. elapsed \in BOOLEAN /\ Usable \in BOOLEAN
    BY DEF CompilationInv, CompilationTypeOK, Usable
  <2> QED BY <1>1, <2>1 DEF ThreadStates
<1>3. \A d \in Decisions : compiled[d] # {} => version >= d
  BY <1>1 DEF CompilationInv, Made, Decisions
<1>4. /\ UNCHANGED <<sourceVars, jobVars, wikiVars>> /\ spent' \in [Kinds -> Nat]
      /\ thread' = [thread EXCEPT ![t] = q] /\ LockFree
  BY DEF Begin, CompilationInv, CompilationTypeOK
<1> HIDE DEF q
<1>5. Steps(t, q) BY <1>1, <1>2, <1>3, <1>4 DEF Steps, OpenAt
<1> QED BY <1>5, ThreadStep

LEMMA ReadMoreInv ==
  ASSUME CompilationInv, NEW t \in Threads, ReadMore(t) PROVE CompilationInv'
<1> USE CompilationAssumption
<1> DEFINE b == thread[t].rests \/ Sees(thread[t])
           q == [thread[t] EXCEPT !.at = "check", !.rests = b]
<1>1. /\ thread[t] \in ThreadStates /\ thread[t].key <= version /\ thread[t].saw <= version
  BY ThreadFacts
<1>2. q \in ThreadStates /\ q.key = thread[t].key /\ q.saw = thread[t].saw /\ q.at = "check"
  <2>1. b \in BOOLEAN BY <1>1 DEF ThreadStates, Sees
  <2> HIDE DEF b
  <2> QED BY <1>1, <2>1 DEF ThreadStates
<1>3. Open(t) /\ thread[t].key <= thread[t].saw
      /\ \A d \in Decisions : compiled[d] # {} => thread[t].saw >= d
  BY DEF ReadMore, Open, CompilationInv, Placed, Fresh
<1>4. /\ UNCHANGED <<sourceVars, jobVars, wikiVars>> /\ spent' \in [Kinds -> Nat]
      /\ thread' = [thread EXCEPT ![t] = q]
  BY DEF ReadMore, CompilationInv, CompilationTypeOK
<1> HIDE DEF q
<1>5. Steps(t, q) BY <1>1, <1>2, <1>3, <1>4 DEF Steps, OpenAt
<1> QED BY <1>5, ThreadStep

LEMMA EndedStep ==
  ASSUME CompilationInv, NEW t \in Threads, NEW o \in {"snapshot", "error"},
         thread' = [thread EXCEPT ![t] = Ended(thread[t], o)],
         o = "snapshot" => (thread[t].key \in Decisions => compiled[thread[t].key] # {}),
         UNCHANGED <<sourceVars, jobVars, wikiVars>>, spent' \in [Kinds -> Nat]
  PROVE  CompilationInv'
<1> DEFINE q == Ended(thread[t], o)
<1>1. /\ q \in ThreadStates /\ q.key \in {0, thread[t].key} /\ q.saw = 0
      /\ q.at \in {"idle", "persist"}
      /\ q.at = "persist" => q.key \in Decisions /\ q.key = thread[t].key /\ q.outcome = o
  BY EndedState
<1>2. thread[t].key <= version /\ version \in Nat BY ThreadFacts
<1> HIDE DEF q
<1>3. Steps(t, q) BY <1>1, <1>2 DEF Steps, OpenAt, q
<1> QED BY <1>3, ThreadStep

LEMMA CheckInv ==
  ASSUME CompilationInv, NEW t \in Threads, Check(t) PROVE CompilationInv'
<1> USE CompilationAssumption
<1> DEFINE q == [thread[t] EXCEPT !.at = "commit"]
<1>1. /\ thread[t] \in ThreadStates /\ thread[t].key <= version /\ thread[t].saw <= version
  BY ThreadFacts
<1>2. q \in ThreadStates /\ q.key = thread[t].key /\ q.saw = thread[t].saw /\ q.at = "commit"
  BY <1>1 DEF ThreadStates
<1>3. Open(t) /\ thread[t].key <= thread[t].saw
      /\ \A d \in Decisions : compiled[d] # {} => thread[t].saw >= d
  BY DEF Check, Open, CompilationInv, Placed, Fresh
<1>4. /\ UNCHANGED <<sourceVars, jobVars, wikiVars>> /\ spent' \in [Kinds -> Nat]
      /\ \/ thread' = [thread EXCEPT ![t] = q]
         \/ thread' = [thread EXCEPT ![t] = Ended(thread[t], "error")]
  BY DEF Check, CompilationInv, CompilationTypeOK
<1> HIDE DEF q
<1>5. CASE thread' = [thread EXCEPT ![t] = q]
  <2>1. Steps(t, q) BY <1>1, <1>2, <1>3, <1>4, <1>5 DEF Steps, OpenAt
  <2> QED BY <2>1, ThreadStep
<1>6. CASE thread' = [thread EXCEPT ![t] = Ended(thread[t], "error")]
  BY <1>4, <1>6, EndedStep
<1> QED BY <1>4, <1>5, <1>6

LEMMA FailInv ==
  ASSUME CompilationInv, NEW t \in Threads, Fail(t) PROVE CompilationInv'
<1>1. spent' \in [Kinds -> Nat] BY SpendType DEF Fail, CompilationInv, Kinds
<1>2. thread' = [thread EXCEPT ![t] = Ended(thread[t], "error")] BY DEF Fail
<1>3. UNCHANGED <<sourceVars, jobVars, wikiVars>> BY DEF Fail
<1> QED BY <1>1, <1>2, <1>3, EndedStep

LEMMA ReplayInv ==
  ASSUME CompilationInv, NEW t \in Threads, Replay(t) PROVE CompilationInv'
<1>1. PICK o \in {"snapshot", "error"} : thread' = [thread EXCEPT ![t] = Ended(thread[t], o)]
  BY DEF Replay
<1>2. /\ UNCHANGED <<sourceVars, jobVars, wikiVars>> /\ spent' \in [Kinds -> Nat]
      /\ compiled[thread[t].key] # {}
  BY DEF Replay, CompilationInv, CompilationTypeOK
<1> QED BY <1>1, <1>2, EndedStep

LEMMA CrashInv ==
  ASSUME CompilationInv, NEW t \in Threads, Crash(t) PROVE CompilationInv'
<1>1. spent' \in [Kinds -> Nat] BY SpendType DEF Crash, CompilationInv, Kinds
<1> QED BY <1>1, IdleStep DEF Crash

\* The step that publishes: the one compilation that is open read at least what
\* every committed one did, and its own decision.
LEMMA CommitInv ==
  ASSUME CompilationInv, NEW t \in Threads, Commit(t) PROVE CompilationInv'
<1> USE CompilationAssumption
<1> DEFINE new == [key |-> thread[t].key, saw |-> thread[t].saw, rests |-> thread[t].rests]
           q == Ended(thread[t], "snapshot")
<1>1. /\ thread[t] \in ThreadStates /\ thread[t].key <= version /\ thread[t].saw <= version
      /\ thread[t].key \in Nat /\ thread[t].saw \in Nat /\ version \in Nat
  BY ThreadFacts
<1>2. /\ q \in ThreadStates /\ q.key \in {0, thread[t].key} /\ q.saw = 0
      /\ q.at \in {"idle", "persist"}
      /\ q.at = "persist" => q.key \in Decisions /\ q.key = thread[t].key
  BY EndedState
<1>3. /\ Open(t) /\ thread[t].key <= thread[t].saw
      /\ \A d \in Decisions : compiled[d] # {} => thread[t].saw >= d
      /\ \A u \in Threads : u # t => ~Open(u)
  BY DEF Commit, Open, CompilationInv, Placed, Fresh, Alone
<1>4. new \in Snapshots /\ new.saw = thread[t].saw BY <1>1 DEF Snapshots, ThreadStates
<1> HIDE DEF new, q
<1>5. /\ published' = {new} /\ thread' = [thread EXCEPT ![t] = q]
      /\ compiled' = [d \in Decisions |-> IF d = thread[t].key THEN {new} ELSE compiled[d]]
      /\ UNCHANGED <<sourceVars, jobVars, invalid, spent>>
  BY DEF Commit, new, q
<1>6. /\ thread'[t] = q
      /\ \A u \in Threads : u # t => thread'[u] = thread[u]
  BY <1>5 DEF CompilationInv, CompilationTypeOK
<1>7. \A u \in Threads : ~Open(u)' BY <1>2, <1>3, <1>6 DEF Open
<1>8. CompilationTypeOK'
  <2>1. compiled' \in [Decisions -> SUBSET Snapshots]
    BY <1>4, <1>5 DEF CompilationInv, CompilationTypeOK
  <2>2. thread' \in [Threads -> ThreadStates]
    BY <1>2, <1>5 DEF CompilationInv, CompilationTypeOK
  <2> QED BY <1>4, <1>5, <2>1, <2>2 DEF CompilationInv, CompilationTypeOK, sourceVars, jobVars
<1>9. Made'
  BY <1>1, <1>5 DEF CompilationInv, Made, Decisions, sourceVars, jobVars
<1>10. Placed'
  BY <1>1, <1>2, <1>5, <1>6, <1>7 DEF CompilationInv, Placed, sourceVars
<1>11. Alone' BY <1>7 DEF Alone
<1>12. Fresh'
  <2> SUFFICES ASSUME NEW d \in Decisions, compiled'[d] # {} PROVE thread[t].saw >= d
    BY <1>4, <1>5, <1>7 DEF Fresh
  <2>1. d = thread[t].key \/ compiled[d] # {} BY <1>5
  <2> QED BY <1>1, <1>3, <2>1 DEF Decisions
<1>13. \A d \in Decisions : compiled[d] # {} => compiled'[d] # {} BY <1>5
<1>14. Told'
  <2>1. q.at = "persist" => compiled'[q.key] # {} BY <1>2, <1>5
  <2> QED BY <1>2, <1>6, <1>13, <2>1 DEF CompilationInv, Told
<1>15. Done' BY <1>5, <1>13 DEF CompilationInv, Done, jobVars
<1> QED BY <1>8, <1>9, <1>10, <1>11, <1>12, <1>14, <1>15 DEF CompilationInv

-------------------------------------------------------------------------------
LEMMA NextInv ==
  ASSUME CompilationInv, [CompilationNext]_vars PROVE CompilationInv'
<1>1. CASE UNCHANGED vars
  BY <1>1 DEF vars, sourceVars, jobVars, wikiVars, CompilationInv, CompilationTypeOK, Made,
     Placed, Alone, Fresh, Told, Done, Open
<1>2. CASE Elapse BY <1>2, ElapseInv
<1>3. CASE Sweep
  BY <1>3, SweepInv, CompilationAssumption DEF Threads
<1>4. CASE \E r \in Requests :
             \/ \E want \in {"revoke", "restore"} : Request(r, want)
             \/ ExpireFirst(r) \/ Decide(r) \/ Compile(r)
             \/ \E d \in Decisions : Retry(r, d)
  BY <1>4, RequestInv, ExpireFirstInv, DecideInv, CompileInv, RetryInv
<1>5. CASE \E w \in Workers, d \in Decisions : Claim(w, d) BY <1>5, ClaimInv
<1>6. CASE \E d \in Decisions : Ready(d) \/ Lapse(d) BY <1>6, ReadyInv, LapseInv
<1>7. CASE \E t \in Threads : Work(t) \/ Enter(t) \/ LosePersist(t) \/ Fail(t) \/ Crash(t)
  BY <1>7, PersistInv, ReadMoreInv, CheckInv, CommitInv, BeginInv, ReplayInv, LosePersistInv,
     FailInv, CrashInv DEF Work, Enter
<1> QED BY <1>1, <1>2, <1>3, <1>4, <1>5, <1>6, <1>7 DEF CompilationNext

LEMMA InvHolds == CompilationSafety => []CompilationInv
<1>1. CompilationInv /\ [CompilationNext]_vars => CompilationInv' BY NextInv
<1> QED BY InitInv, <1>1, PTL DEF CompilationSafety

LEMMA InvRecompiled == CompilationInv => RecompiledAfterDecision
BY DEF CompilationInv, Done, Fresh, RecompiledAfterDecision

\* Every reachable state has the declared types: no job, key or thread refers to
\* a decision that was not made, whatever is claimed, lost or repeated.
THEOREM CompilationTypes == CompilationSafety => []CompilationTypeOK
<1>1. CompilationInv => CompilationTypeOK BY DEF CompilationInv
<1> QED BY InvHolds, <1>1, PTL

\* Whatever workers and requests compile at the same time, lose or repeat, the
\* published Wiki was read after every decision whose job is completed, and once
\* the last decision's job is, there is one.
THEOREM WikiIsRecompiled == CompilationSafety => []RecompiledAfterDecision
BY InvHolds, InvRecompiled, PTL

===============================================================================
