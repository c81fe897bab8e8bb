------------------------- MODULE ConversationQueue -------------------------
(***************************************************************************)
(* The durable conversation queue of one chat Session: the rows of         *)
(* conversation_queue_entries and conversation_queue_state, the operations *)
(* a user performs on them (admit, continue, stop, edit, prioritize,       *)
(* withdraw, retry) and the lease-fenced operations a run performs.        *)
(*                                                                         *)
(* Here the run is any program: whoever was ever handed a lease may call   *)
(* any fenced operation at any later time.  What holds of this module is   *)
(* therefore guaranteed by the SQL alone.  ConversationQueueRunner adds    *)
(* the program that the backend really runs.                               *)
(*                                                                         *)
(* Postgres runs at READ COMMITTED.  Operations that take the Session      *)
(* advisory lock exclude one another, but finalize, markPersistencePending *)
(* and recordResult do not take it.  A locked operation that reads a row   *)
(* which one of those three can change, and writes in a later statement,   *)
(* is two actions here with tx holding the lock in between; every other    *)
(* operation is one atomic step.                                           *)
(*                                                                         *)
(* Time is abstracted to whether a lease is current (field live).  The     *)
(* state revision and the receipts of replayed requests are not variables: *)
(* they reject requests of a stale client and change no row.               *)
(***************************************************************************)
EXTENDS Naturals, FiniteSets

CONSTANTS
  Messages,    \* admission requests: one message id under one request key
  Owners,      \* lease owners: a worker's job loop or its recovery loop
  MaxEntries,  \* CONVERSATION_QUEUE_MAX_ENTRIES
  Limit,       \* bound: how often each kind of user action or fault happens
  MaxKinds,    \* bound: how many of these kinds happen in one behaviour
  NoMessage, NoOwner, NoResult  \* SQL NULL in the respective column

ASSUME QueueAssumption ==
  /\ IsFiniteSet(Messages)
  /\ NoMessage \notin Messages
  /\ NoOwner \notin Owners
  /\ MaxEntries \in Nat
  /\ NoResult \notin [run : Nat, text : Nat]
  /\ \A k \in DOMAIN Limit : Limit[k] \in Nat
  /\ MaxKinds \in Nat

VARIABLES
  row,      \* the entry of each message, or its absence
  paused,   \* conversation_queue_state.paused
  nextSeq,  \* conversation_queue_state.next_sequence
  open,     \* the Session exists and its sources are authorized
  tx,       \* the locked transaction that is between two of its statements
  fences,   \* every lease ever handed out
  spent     \* how much of Limit is used

queueVars == <<row, paused, nextSeq, open, tx, fences, spent>>

----------------------------------------------------------------------------
(* Rows. *)

Statuses == {"queued", "running", "completed", "failed", "cancelled", "interrupted"}
Active == {"queued", "running", "failed", "interrupted"}
Unfinished == {"failed", "interrupted"}

Row == [status : Statuses \cup {"absent", "deleted"},
        seq : Nat, text : Nat,
        group : Messages \cup {NoMessage},
        steer : {"awaiting", "dispatching", "delivered", "unsupported"},
        closed : BOOLEAN,
        run : Nat, gen : Nat, owner : Owners \cup {NoOwner}, live : BOOLEAN,
        cancel : BOOLEAN, auto : BOOLEAN,
        result : [run : Nat, text : Nat] \cup {NoResult},
        lineage : BOOLEAN]

\* A freshly inserted row.  Version 1 of text is the admitted objective, an edit
\* makes the next version, 0 is the scrubbed objective.  run 0 is no run: the
\* random run ids are numbered by attempt.
Inserted(s, leader) ==
  [status |-> "queued", seq |-> s, text |-> 1, group |-> leader,
   steer |-> "awaiting", closed |-> FALSE,
   run |-> 0, gen |-> 0, owner |-> NoOwner, live |-> FALSE,
   cancel |-> FALSE, auto |-> FALSE, result |-> NoResult, lineage |-> FALSE]

Absent == [Inserted(0, NoMessage) EXCEPT !.status = "absent"]
Deleted == [Inserted(0, NoMessage) EXCEPT !.status = "deleted"]

WithStatus(S) == {m \in Messages : row[m].status \in S}
Members(l) == {m \in Messages : row[m].group = l}
Consumed(m) == row[m].steer \in {"dispatching", "delivered"}

Tx == [op : {"none", "admit", "continue", "prioritize", "claim"},
       msg : Messages \cup {NoMessage}, leader : Messages \cup {NoMessage},
       owner : Owners \cup {NoOwner}]
NoTx == [op |-> "none", msg |-> NoMessage, leader |-> NoMessage, owner |-> NoOwner]
Unlocked == tx = NoTx

Fence == [msg : Messages, run : Nat, owner : Owners, gen : Nat]

Spend(k) ==
  /\ spent[k] < Limit[k]
  /\ Cardinality({j \in DOMAIN Limit : j = k \/ spent[j] > 0}) <= MaxKinds
  /\ spent' = [spent EXCEPT ![k] = @ + 1]

Init0 ==
  /\ row = [m \in Messages |-> Absent]
  /\ paused = FALSE
  /\ nextSeq = 1
  /\ open = TRUE
  /\ tx = NoTx
  /\ fences = {}
  /\ spent = [k \in DOMAIN Limit |-> 0]

----------------------------------------------------------------------------
(* User operations.  Each one starts by checking that the Session is open. *)

\* The live run that still accepts supplementary messages.
SteeringLeaders ==
  {m \in Messages : /\ row[m].status = "running" /\ ~row[m].cancel
                    /\ row[m].result = NoResult /\ ~row[m].closed}

\* A repeated request returns its receipt and is not a step: a message is
\* inserted once, whatever became of its row.
BeginAdmit(m) ==
  /\ Unlocked /\ open
  /\ row[m].status = "absent"
  /\ Cardinality(WithStatus(Active)) < MaxEntries
  /\ \E l \in IF SteeringLeaders = {} THEN {NoMessage} ELSE SteeringLeaders :
       tx' = [NoTx EXCEPT !.op = "admit", !.msg = m, !.leader = l]
  /\ UNCHANGED <<row, paused, nextSeq, open, fences, spent>>

\* The foreign key to the leader row aborts the insert when a sweep removed it.
CommitAdmit ==
  /\ tx.op = "admit"
  /\ IF tx.leader # NoMessage /\ row[tx.leader].status = "deleted"
     THEN UNCHANGED <<row, nextSeq>>
     ELSE /\ row' = [row EXCEPT ![tx.msg] = Inserted(nextSeq, tx.leader)]
          /\ nextSeq' = nextSeq + 1
  /\ tx' = NoTx
  /\ UNCHANGED <<paused, open, fences, spent>>

\* Continue and prioritize read the gate (no failed or interrupted entry) in
\* one statement and unpause the queue in a later one.
BeginContinue ==
  /\ Unlocked /\ open
  /\ WithStatus(Unfinished) = {}
  /\ Spend("continue")
  /\ tx' = [NoTx EXCEPT !.op = "continue"]
  /\ UNCHANGED <<row, paused, nextSeq, open, fences>>

CommitContinue ==
  /\ tx.op = "continue"
  /\ paused' = FALSE
  /\ tx' = NoTx
  /\ UNCHANGED <<row, nextSeq, open, fences, spent>>

\* Only the running row carries a run that a stop can name.
Stop(m) ==
  /\ Unlocked /\ open
  /\ row[m].status = "running"
  /\ Spend("stop")
  /\ row' = [row EXCEPT ![m].cancel = TRUE, ![m].auto = FALSE]
  /\ UNCHANGED <<paused, nextSeq, open, tx, fences>>

Edit(m) ==
  /\ Unlocked /\ open
  /\ row[m].status = "queued" /\ ~Consumed(m)
  /\ Spend("edit")
  /\ row' = [row EXCEPT ![m].text = @ + 1]
  /\ UNCHANGED <<paused, nextSeq, open, tx, fences>>

BeginPrioritize(m) ==
  /\ Unlocked /\ open
  /\ row[m].status = "queued" /\ row[m].group = NoMessage
  /\ WithStatus(Unfinished) = {}
  /\ Spend("prioritize")
  /\ tx' = [NoTx EXCEPT !.op = "prioritize", !.msg = m]
  /\ UNCHANGED <<row, paused, nextSeq, open, fences>>

\* Mutant: the others keep their sequence.
RankAlone(m, x) == IF x = m THEN 1 ELSE row[x].seq

\* row_number() over the waiting entries, the chosen one first.
Rank(m, x) ==
  IF x = m THEN 1
  ELSE 1 + Cardinality({y \in WithStatus({"queued"} \cup Unfinished) :
                          y = m \/ row[y].seq <= row[x].seq} \ {x})

CommitPrioritize ==
  /\ tx.op = "prioritize"
  /\ row' = [x \in Messages |->
       CASE row[x].status = "running" ->
              [row[x] EXCEPT !.cancel = TRUE, !.auto = TRUE]
         [] row[x].status \in {"queued"} \cup Unfinished ->
              [row[x] EXCEPT !.seq = Rank(tx.msg, x)]
         [] OTHER -> row[x]]
  /\ paused' = FALSE
  /\ tx' = NoTx
  /\ UNCHANGED <<nextSeq, open, fences, spent>>

\* Withdrawing a task message removes the messages that steer it as well.
Withdraw(m) ==
  /\ Unlocked /\ open
  /\ row[m].status \in {"queued"} \cup Unfinished /\ ~Consumed(m)
  /\ Spend("withdraw")
  /\ row' = [x \in Messages |->
               IF x = m \/ row[x].group = m THEN Deleted ELSE row[x]]
  /\ UNCHANGED <<paused, nextSeq, open, tx, fences>>

Requeued(r, steer, closed) ==
  [r EXCEPT !.status = "queued", !.owner = NoOwner, !.live = FALSE,
            !.cancel = FALSE, !.auto = FALSE, !.steer = steer, !.closed = closed]

\* A steering group is retried as one intention.  A kept result keeps what was
\* delivered with it; otherwise a fresh run re-delivers everything.
Retry(m) ==
  LET leader == IF row[m].group = NoMessage THEN m ELSE row[m].group
      again == {x \in Messages : /\ x = leader \/ row[x].group = leader
                                 /\ row[x].status \in {"queued"} \cup Unfinished}
      replays == row[leader].result # NoResult
  IN
  /\ Unlocked /\ open
  /\ row[m].status \in Unfinished
  /\ Spend("retry")
  /\ row' = [x \in Messages |->
       IF x \notin again THEN row[x]
       ELSE Requeued(row[x], IF replays THEN row[x].steer ELSE "awaiting",
                             replays /\ row[x].closed)]
  /\ UNCHANGED <<paused, nextSeq, open, tx, fences>>

\* The connection of the transaction that holds the lock is lost.
AbortTx ==
  /\ ~Unlocked
  /\ Spend("abort")
  /\ tx' = NoTx
  /\ UNCHANGED <<row, paused, nextSeq, open, fences>>

----------------------------------------------------------------------------
(* The Session ends: it is deleted, it expires or its source is withdrawn.  *)

CloseSession ==
  /\ open
  /\ Spend("close")
  /\ open' = FALSE
  /\ UNCHANGED <<row, paused, nextSeq, tx, fences>>

Sweep ==
  /\ ~open
  /\ WithStatus(Statuses) # {}
  /\ row' = [m \in Messages |-> IF row[m].status = "absent" THEN row[m] ELSE Deleted]
  /\ paused' \in BOOLEAN  \* paused for a withdrawn source, reset with the Session
  /\ UNCHANGED <<nextSeq, open, tx, fences, spent>>

----------------------------------------------------------------------------
(* Leases.  A claim reads paused, then the running entry and the next one.  *)

\* Mutant: a steering message is claimed like a task message.
AnyQueued == WithStatus({"queued"})

Claimable == {m \in WithStatus({"queued"}) : row[m].group = NoMessage}

FirstOf(S) == {m \in S : \A x \in S : row[m].seq <= row[x].seq}

BeginClaim(o) ==
  /\ Unlocked
  /\ ~paused
  /\ tx' = [NoTx EXCEPT !.op = "claim", !.owner = o]
  /\ UNCHANGED <<row, paused, nextSeq, open, fences, spent>>

\* Mutant: the lease is read before the claim writes its owner.
StaleLease(m, o) ==
  [msg |-> m, run |-> row[m].run + 1, owner |-> row[m].owner, gen |-> row[m].gen + 1]

Lease(m, o) == [msg |-> m, run |-> row[m].run + 1, owner |-> o, gen |-> row[m].gen + 1]

\* A claim clears a stop that an earlier run left behind, and opens or closes
\* the intake of supplementary messages.
Taken(r, o, accepts) ==
  [r EXCEPT !.status = "running", !.run = @ + 1, !.gen = @ + 1, !.owner = o, !.live = TRUE,
            !.cancel = FALSE, !.auto = FALSE, !.closed = ~accepts]

\* Mutant: a claim does not look for a running entry.
TakeAnother(m, accepts) ==
  /\ m \in FirstOf(Claimable)
  /\ row' = [row EXCEPT ![m] = Taken(@, tx.owner, accepts)]
  /\ fences' = fences \cup {Lease(m, tx.owner)}

\* The row a claim hands out, and the lease that goes with it.
TakeNext(m, accepts) ==
  /\ WithStatus({"running"}) = {}
  /\ m \in FirstOf(Claimable)
  /\ row' = [row EXCEPT ![m] = Taken(@, tx.owner, accepts)]
  /\ fences' = fences \cup {Lease(m, tx.owner)}

CommitClaim(m, accepts) ==
  /\ tx.op = "claim"
  /\ TakeNext(m, accepts)
  /\ tx' = NoTx
  /\ UNCHANGED <<paused, nextSeq, open, spent>>

\* A run is active, or nothing is waiting: claimNext returns null.
NothingToClaim ==
  /\ tx.op = "claim"
  /\ WithStatus({"running"}) # {} \/ Claimable = {}
  /\ tx' = NoTx
  /\ UNCHANGED <<row, paused, nextSeq, open, fences, spent>>

\* A heartbeat renews the lease only while it is current, so a lease that has
\* lapsed never becomes current again for its holder.
LeaseLapses(m) ==
  /\ row[m].status = "running" /\ row[m].live
  /\ row' = [row EXCEPT ![m].live = FALSE]
  /\ UNCHANGED <<paused, nextSeq, open, tx, fences>>

Expire(m) == LeaseLapses(m) /\ Spend("expire")

\* Mutant: recovery keeps the lease generation.
ReclaimedAsIs(r, o) == [r EXCEPT !.owner = o, !.live = TRUE]

Reclaimed(r, o) == [r EXCEPT !.owner = o, !.gen = @ + 1, !.live = TRUE]

\* Mutant: recovery passes over a run that a user stopped.
ReclaimUnstopped(m, o) ==
  /\ Unlocked
  /\ row[m].status = "running" /\ ~row[m].live /\ ~row[m].cancel
  /\ row' = [row EXCEPT ![m] = Reclaimed(@, o)]
  /\ fences' = fences \cup {[Lease(m, o) EXCEPT !.run = row[m].run]}
  /\ UNCHANGED <<paused, nextSeq, open, tx, spent>>

\* Recovery keeps the run, its stored result and a pending stop.
Reclaim(m, o) ==
  /\ Unlocked
  /\ row[m].status = "running" /\ ~row[m].live
  /\ row' = [row EXCEPT ![m] = Reclaimed(@, o)]
  /\ fences' = fences \cup {[Lease(m, o) EXCEPT !.run = row[m].run]}
  /\ UNCHANGED <<paused, nextSeq, open, tx, spent>>

----------------------------------------------------------------------------
(* Fenced operations of a run. *)

Owned(f) ==
  /\ row[f.msg].status = "running" /\ row[f.msg].live
  /\ row[f.msg].run = f.run
  /\ row[f.msg].owner = f.owner
  /\ row[f.msg].gen = f.gen

\* Mutant: the fence of completion and failure ignores a committed stop.
FencedOnly(f) == Owned(f)

Fenced(f) == Owned(f) /\ ~row[f.msg].cancel

OpenIntake(f) ==
  /\ Unlocked /\ Fenced(f)
  /\ row[f.msg].result = NoResult
  /\ row' = [row EXCEPT ![f.msg].closed = FALSE]
  /\ UNCHANGED <<paused, nextSeq, open, tx, fences, spent>>

Waiting(l) == {x \in Members(l) : row[x].steer = "awaiting"}

\* Mutant: closure does not wait.
CloseIntakeNow(f) ==
  /\ Unlocked /\ Fenced(f)
  /\ row' = [row EXCEPT ![f.msg].closed = TRUE]
  /\ UNCHANGED <<paused, nextSeq, open, tx, fences, spent>>

\* Normal closure waits for every message it admitted.
CloseIntake(f) ==
  /\ Unlocked /\ Fenced(f)
  /\ \A x \in Members(f.msg) : row[x].steer \notin {"awaiting", "dispatching"}
  /\ row' = [row EXCEPT ![f.msg].closed = TRUE]
  /\ UNCHANGED <<paused, nextSeq, open, tx, fences, spent>>

\* A provider without steering closes at once and lets go of what waits.
ForceCloseIntake(f) ==
  /\ Unlocked /\ Fenced(f)
  /\ row' = [x \in Messages |->
       IF x = f.msg THEN [row[x] EXCEPT !.closed = TRUE]
       ELSE IF x \in Waiting(f.msg) THEN [row[x] EXCEPT !.group = NoMessage] ELSE row[x]]
  /\ UNCHANGED <<paused, nextSeq, open, tx, fences, spent>>

\* The three moves of a member: into a batch, consumed by the model, refused.
SteerMembers(f, S, from, to) ==
  /\ Unlocked /\ Fenced(f)
  /\ S # {}
  /\ \A x \in S : row[x].group = f.msg /\ row[x].steer = from
  /\ row' = [x \in Messages |-> IF x \in S THEN [row[x] EXCEPT !.steer = to] ELSE row[x]]
  /\ UNCHANGED <<paused, nextSeq, open, tx, fences, spent>>

ClaimMembers(f, S) == SteerMembers(f, S, "awaiting", "dispatching")
Acknowledge(f, S) == SteerMembers(f, S, "dispatching", "delivered")
MarkUnsupported(f, S) == SteerMembers(f, S, "awaiting", "unsupported")

\* The answer of this run to the text the run was claimed with.
RecordResult(f) ==
  /\ Fenced(f)
  /\ row' = [row EXCEPT ![f.msg].result = [run |-> f.run, text |-> row[f.msg].text]]
  /\ UNCHANGED <<paused, nextSeq, open, tx, fences, spent>>

\* Mutant: lineage is recorded by every run.
RecordLineageAgain(f) ==
  /\ Fenced(f)
  /\ row' = [row EXCEPT ![f.msg].lineage = TRUE]
  /\ UNCHANGED <<paused, nextSeq, open, tx, fences, spent>>

\* Once per message: the column is never cleared.
RecordLineage(f) ==
  /\ Fenced(f)
  /\ ~row[f.msg].lineage
  /\ row' = [row EXCEPT ![f.msg].lineage = TRUE]
  /\ UNCHANGED <<paused, nextSeq, open, tx, fences, spent>>

Released(r, s) ==
  [r EXCEPT !.status = s, !.owner = NoOwner, !.live = FALSE,
            !.cancel = FALSE, !.auto = FALSE,
            !.text = IF s \in Unfinished THEN @ ELSE 0]

\* Mutant: a member that leaves its group keeps its steering state.
DetachedAsIs(r) == [r EXCEPT !.group = NoMessage]

Detached(r) == [r EXCEPT !.group = NoMessage, !.steer = "awaiting"]

\* Mutant: every member is settled with the run, delivered or not.
MemberSwept(r, s) ==
  IF s \in Unfinished THEN [r EXCEPT !.status = s] ELSE Detached(Released(r, s))

\* Mutant: members are only moved when the run is unfinished.
MemberLeft(r, s) == IF s \in Unfinished THEN [r EXCEPT !.status = s] ELSE r

MemberSettled(r, s) ==
  IF s \in Unfinished THEN [r EXCEPT !.status = s]
  ELSE Detached(IF r.steer = "delivered" THEN Released(r, s) ELSE r)

\* Completed and cancelled settle the delivered members with the run and let
\* the others go; failed and interrupted keep the whole group and pause.
Settle(f, s) ==
  /\ IF s = "cancelled" THEN Owned(f) ELSE Fenced(f)
  /\ row' = [x \in Messages |->
       IF x = f.msg THEN [Released(row[x], s) EXCEPT !.result = NoResult]
       ELSE IF row[x].group = f.msg THEN MemberSettled(row[x], s) ELSE row[x]]
  /\ paused' = IF s = "completed" \/ (s = "cancelled" /\ row[f.msg].auto)
               THEN paused ELSE TRUE
  /\ UNCHANGED <<nextSeq, open, tx, fences, spent>>

\* The result is kept, the members stay where they are.
MarkPersistencePending(f) ==
  /\ Fenced(f)
  /\ row[f.msg].result # NoResult
  /\ row' = [row EXCEPT ![f.msg] = Released(@, "failed")]
  /\ paused' = TRUE
  /\ UNCHANGED <<nextSeq, open, tx, fences, spent>>

----------------------------------------------------------------------------
UserStep ==
  \/ CommitAdmit \/ BeginContinue \/ CommitContinue \/ CommitPrioritize
  \/ AbortTx \/ CloseSession \/ Sweep
  \/ \E m \in Messages :
       \/ BeginAdmit(m) \/ Stop(m) \/ Edit(m) \/ BeginPrioritize(m)
       \/ Withdraw(m) \/ Retry(m)

LeaseStep ==
  \/ NothingToClaim
  \/ \E o \in Owners : BeginClaim(o)
  \/ \E m \in Messages, accepts \in BOOLEAN : CommitClaim(m, accepts)
  \/ \E m \in Messages : Expire(m)
  \/ \E m \in Messages, o \in Owners : Reclaim(m, o)

RunStep(f) ==
  \/ OpenIntake(f) \/ CloseIntake(f) \/ ForceCloseIntake(f)
  \/ \E S \in SUBSET Members(f.msg) :
       ClaimMembers(f, S) \/ Acknowledge(f, S) \/ MarkUnsupported(f, S)
  \/ RecordResult(f) \/ RecordLineage(f)
  \/ \E s \in {"completed", "failed", "cancelled", "interrupted"} : Settle(f, s)
  \/ MarkPersistencePending(f)

QueueNext == UserStep \/ LeaseStep \/ \E f \in fences : RunStep(f)

QueueSpec == Init0 /\ [][QueueNext]_queueVars

\* The same storage without a bound on how often leases lapse: what the
\* theorems are about and what ConversationQueueRunner implements.
StorageNext == QueueNext \/ \E m \in Messages : LeaseLapses(m) /\ UNCHANGED spent

StorageSpec == Init0 /\ [][StorageNext]_queueVars

----------------------------------------------------------------------------
(* What the storage guarantees, whatever the runs do. *)

\* Every variable has its type.
TypeOK ==
  /\ row \in [Messages -> Row]
  /\ paused \in BOOLEAN
  /\ nextSeq \in Nat
  /\ open \in BOOLEAN
  /\ tx \in Tx
  /\ fences \subseteq Fence
  /\ spent \in [DOMAIN Limit -> Nat]

\* No operation ever writes a row that a CHECK constraint of migrations 073
\* and 085 refuses (the refusal would roll the operation back).
TableChecks ==
  \A m \in Messages :
    /\ row[m].owner # NoOwner => row[m].status = "running" /\ row[m].group = NoMessage
    /\ row[m].cancel => row[m].status = "running"
    /\ row[m].group = NoMessage => row[m].steer = "awaiting"
    /\ row[m].closed => row[m].group = NoMessage
    /\ row[m].status \in {"completed", "cancelled"} => row[m].text = 0 /\ row[m].result = NoResult
    /\ row[m].status \in Active => row[m].text > 0

\* However many claims, lapses and recoveries there were, at most one lease
\* holder of the Session can pass the fence at any time.
SingleAuthority ==
  \A f, g \in fences : Owned(f) /\ Owned(g) => f = g

\* A holder that lost its lease never passes the fence again: neither a late
\* heartbeat nor a retry of the same message revives it.
AuthorityNeverRegained ==
  [][\A f \in fences : ~Owned(f) => ~Owned(f)']_queueVars

\* A committed stop wins against completion, failure, shutdown and recovery:
\* the run can only go on to be cancelled (or vanish with its Session).
StopIsFinal ==
  [][\A m \in Messages :
       row[m].status = "running" /\ row[m].cancel =>
         \/ row'[m].status = "running" /\ row'[m].cancel
         \/ row'[m].status \in {"cancelled", "deleted"}]_queueVars

\* Groups are one level deep and have a task message: a steering message never
\* steers another steering message, never runs and never outlives its leader.
GroupShape ==
  \A m \in Messages :
    row[m].group # NoMessage =>
      /\ row[m].status \in {"queued"} \cup Unfinished
      /\ row[row[m].group].group = NoMessage
      /\ row[row[m].group].status \notin {"absent", "deleted"}

\* The order of waiting messages is total, also while a prioritize re-ranks
\* them and admission allocates past them: the next message is unambiguous.
WaitingOrderTotal ==
  \A x, y \in WithStatus({"queued"} \cup Unfinished) :
    row[x].seq = row[y].seq => x = y
=============================================================================
