----------------------- MODULE ConversationQueueProofs -----------------------
(***************************************************************************)
(* What the storage of the queue guarantees for any number of messages,    *)
(* lease owners and lapses, and for any program that holds the leases: the *)
(* types, the CHECK constraints, the groups and the order of messages,     *)
(* the exclusive authority of a lease and the finality of a stop.          *)
(***************************************************************************)
EXTENDS ConversationQueue, FiniteSetTheorems, TLAPS

\* A claim transaction was begun by a lease owner, an admission by a message
\* that has no row yet.
TxKnown ==
  /\ tx.op = "claim" => tx.owner \in Owners
  /\ tx.op = "admit" => tx.msg \in Messages /\ row[tx.msg].status = "absent"

\* A message without a row steers nothing.
NoRow == {"absent", "deleted"}
Unborn == \A m \in Messages : row[m].status \in NoRow => row[m].group = NoMessage

TypeInv == TypeOK /\ TxKnown /\ Unborn

\* A re-ranked message gets a number.
LEMMA RankType ==
  ASSUME TypeOK, NEW m, NEW x PROVE Rank(m, x) \in Nat
<1> DEFINE S == {y \in WithStatus({"queued"} \cup Unfinished) :
                   y = m \/ row[y].seq <= row[x].seq} \ {x}
<1>1. S \subseteq Messages BY DEF WithStatus
<1>2. IsFiniteSet(S) BY <1>1, QueueAssumption, FS_Subset
<1>3. Cardinality(S) \in Nat BY <1>2, FS_CardinalityType
<1> QED BY <1>3 DEF Rank

LEMMA InitTypeInv == Init0 => TypeInv
<1> SUFFICES ASSUME Init0 PROVE TypeInv OBVIOUS
<1>1. Absent \in Row BY DEF Absent, Inserted, Row, Statuses
<1>2. TypeOK BY <1>1, QueueAssumption DEF Init0, TypeOK, Tx, NoTx
<1>3. TxKnown BY DEF Init0, TxKnown, NoTx
<1>4. Unborn BY DEF Init0, Unborn, NoRow, Absent, Inserted
<1> QED BY <1>2, <1>3, <1>4 DEF TypeInv

\* The bound of TLC's runs never matters for a type.
LEMMA SpendType ==
  ASSUME TypeOK, NEW k, Spend(k) PROVE spent' \in [DOMAIN Limit -> Nat]
<1>1. \A i \in DOMAIN Limit : spent[i] \in Nat /\ spent[i] + 1 \in Nat BY DEF TypeOK
<1>2. spent' = [i \in DOMAIN Limit |-> IF i = k THEN spent[k] + 1 ELSE spent[i]]
  BY DEF TypeOK, Spend
<1> QED BY <1>1, <1>2

\* The updates of a row keep it a row.
LEMMA RowReranked ==
  ASSUME NEW r \in Row, NEW s \in Nat PROVE [r EXCEPT !.seq = s] \in Row
BY DEF Row

LEMMA RowStopped ==
  ASSUME NEW r \in Row, NEW a \in BOOLEAN
  PROVE  [r EXCEPT !.cancel = TRUE, !.auto = a] \in Row
BY DEF Row

LEMMA RowRetried ==
  ASSUME NEW r \in Row, NEW closed \in BOOLEAN,
         NEW steer \in {"awaiting", "dispatching", "delivered", "unsupported"}
  PROVE  Requeued(r, steer, closed) \in Row
BY DEF Row, Statuses, Requeued

LEMMA RowClaimed ==
  ASSUME NEW r \in Row, NEW o \in Owners, NEW c \in BOOLEAN
  PROVE  Taken(r, o, c) \in Row
<1>1. ASSUME NEW s \in Statuses, NEW n \in Nat, NEW g \in Nat
      PROVE  [r EXCEPT !.status = s, !.run = n, !.gen = g, !.owner = o, !.live = TRUE,
                       !.cancel = FALSE, !.auto = FALSE, !.closed = ~c] \in Row
  BY DEF Row
<1>2. "running" \in Statuses /\ r.run + 1 \in Nat /\ r.gen + 1 \in Nat BY DEF Row, Statuses
<1> QED BY <1>1, <1>2 DEF Taken

LEMMA RowReclaimed ==
  ASSUME NEW r \in Row, NEW o \in Owners
  PROVE  Reclaimed(r, o) \in Row
<1>1. \A g \in Nat : [r EXCEPT !.owner = o, !.gen = g, !.live = TRUE] \in Row
  BY DEF Row
<1>2. r.gen + 1 \in Nat BY DEF Row
<1> QED BY <1>1, <1>2 DEF Reclaimed

LEMMA RowReleased ==
  ASSUME NEW r \in Row, NEW s \in Statuses PROVE Released(r, s) \in Row
<1>1. \A t \in Nat : [r EXCEPT !.status = s, !.owner = NoOwner, !.live = FALSE,
                               !.cancel = FALSE, !.auto = FALSE, !.text = t] \in Row
  BY DEF Row
<1>2. (IF s \in Unfinished THEN r.text ELSE 0) \in Nat BY DEF Row
<1> QED BY <1>1, <1>2 DEF Released

LEMMA ReleasedFields ==
  ASSUME NEW r \in Row, NEW s
  PROVE  LET q == Released(r, s) IN
         /\ q.status = s /\ q.live = FALSE /\ q.cancel = FALSE
         /\ q.run = r.run /\ q.gen = r.gen /\ q.group = r.group
BY DEF Released, Row

\* A member that is settled with its leader, or let go, or kept with it.
LEMMA RowDetached ==
  ASSUME NEW r \in Row
  PROVE  /\ [r EXCEPT !.result = NoResult] \in Row
         /\ [r EXCEPT !.group = NoMessage] \in Row
         /\ Detached(r) \in Row
BY DEF Row, Detached

LEMMA RowKept ==
  ASSUME NEW r \in Row, NEW s \in Statuses PROVE [r EXCEPT !.status = s] \in Row
BY DEF Row

\* The updates of a run that keeps going.
LEMMA RowFlagged ==
  ASSUME NEW r \in Row, NEW b \in BOOLEAN
  PROVE  /\ [r EXCEPT !.closed = b] \in Row
         /\ [r EXCEPT !.lineage = b] \in Row
         /\ [r EXCEPT !.live = b] \in Row
BY DEF Row

LEMMA RowSteered ==
  ASSUME NEW r \in Row, NEW s \in {"awaiting", "dispatching", "delivered", "unsupported"}
  PROVE  [r EXCEPT !.steer = s] \in Row
BY DEF Row

\* A lease of a row is a fence.
LEMMA LeaseType ==
  ASSUME TypeOK, NEW m \in Messages, NEW o \in Owners
  PROVE  /\ Lease(m, o) \in Fence
         /\ [Lease(m, o) EXCEPT !.run = row[m].run] \in Fence
BY DEF TypeOK, Lease, Fence, Row

\* A step that changes existing rows only, and leaves them rows.
BornOnly == \A x \in Messages :
  row[x].status \in NoRow \/ row'[x].status \in NoRow => row'[x] = row[x]

LEMMA RowsOnly ==
  ASSUME TypeInv, row' \in [Messages -> Row], BornOnly,
         paused' \in BOOLEAN \/ UNCHANGED paused,
         spent' \in [DOMAIN Limit -> Nat] \/ UNCHANGED spent,
         UNCHANGED <<nextSeq, open, tx, fences>>
  PROVE  TypeInv'
<1>1. TypeOK' BY DEF TypeInv, TypeOK
<1>2. TxKnown' BY DEF TypeInv, TxKnown, BornOnly, NoRow
<1>3. Unborn' BY DEF TypeInv, Unborn, BornOnly
<1> QED BY <1>1, <1>2, <1>3 DEF TypeInv

\* A lapse leaves everything but the lease.
LEMMA LapseTypeInv ==
  ASSUME TypeInv, NEW m \in Messages, LeaseLapses(m),
         spent' \in [DOMAIN Limit -> Nat] \/ UNCHANGED spent
  PROVE  TypeInv'
<1>1. [row[m] EXCEPT !.live = FALSE] \in Row BY RowFlagged DEF TypeInv, TypeOK
<1>2. row' \in [Messages -> Row] BY <1>1 DEF LeaseLapses, TypeInv, TypeOK
<1>3. BornOnly BY DEF LeaseLapses, BornOnly, NoRow, TypeInv, TypeOK, Row
<1> QED BY <1>2, <1>3, RowsOnly DEF LeaseLapses

LEMMA UserTypeInv == TypeInv /\ UserStep => TypeInv'
<1> SUFFICES ASSUME TypeInv, UserStep PROVE TypeInv' OBVIOUS
<1> USE DEF TypeInv, TypeOK, TxKnown, Unborn, NoRow
<1>1. CASE CommitAdmit
  <2>1. Inserted(nextSeq, tx.leader) \in Row
    BY DEF Inserted, Row, Statuses, Tx
  <2>2. Unborn' BY <1>1 DEF CommitAdmit, Inserted, Row
  <2> QED BY <1>1, <2>1, <2>2 DEF CommitAdmit, Tx, NoTx
<1>2. CASE BeginContinue
  BY <1>2, SpendType DEF BeginContinue, Tx, NoTx
<1>3. CASE CommitContinue
  BY <1>3 DEF CommitContinue, Tx, NoTx
<1>4. CASE CommitPrioritize
  <2>1. \A x \in Messages : Rank(tx.msg, x) \in Nat BY RankType
  <2>2. \A x \in Messages : row[x] \in Row OBVIOUS
  <2>3. ASSUME NEW x \in Messages
        PROVE  /\ [row[x] EXCEPT !.cancel = TRUE, !.auto = TRUE] \in Row
               /\ [row[x] EXCEPT !.seq = Rank(tx.msg, x)] \in Row
    BY <2>1, <2>2, RowStopped, RowReranked
  <2>4. row' \in [Messages -> Row]
    BY <1>4, <2>2, <2>3 DEF CommitPrioritize
  <2>5. Unborn' BY <1>4 DEF CommitPrioritize, Row, Unfinished
  <2> QED BY <1>4, <2>4, <2>5 DEF CommitPrioritize, Tx, NoTx
<1>5. CASE AbortTx
  BY <1>5, SpendType DEF AbortTx, Tx, NoTx
<1>6. CASE CloseSession
  BY <1>6, SpendType DEF CloseSession
<1>7. CASE Sweep
  <2>1. Deleted \in Row BY DEF Deleted, Inserted, Row, Statuses
  <2>2. Unborn' /\ TxKnown' BY <1>7 DEF Sweep, Deleted, Inserted
  <2>3. row' \in [Messages -> Row] BY <1>7, <2>1 DEF Sweep
  <2> QED BY <1>7, <2>2, <2>3 DEF Sweep
<1>8. ASSUME NEW m \in Messages, BeginAdmit(m) PROVE TypeInv'
  BY <1>8 DEF BeginAdmit, Tx, NoTx, SteeringLeaders
<1>9. ASSUME NEW m \in Messages, Stop(m) PROVE TypeInv'
  <2>1. [row[m] EXCEPT !.cancel = TRUE, !.auto = FALSE] \in Row BY RowStopped
  <2>2. row' \in [Messages -> Row] BY <1>9, <2>1 DEF Stop
  <2> QED BY <1>9, <2>2, SpendType DEF Stop, Unlocked, NoTx
<1>10. ASSUME NEW m \in Messages, Edit(m) PROVE TypeInv'
  BY <1>10, SpendType DEF Edit, Row, Unlocked, NoTx
<1>11. ASSUME NEW m \in Messages, BeginPrioritize(m) PROVE TypeInv'
  BY <1>11, SpendType DEF BeginPrioritize, Tx, NoTx
<1>12. ASSUME NEW m \in Messages, Withdraw(m) PROVE TypeInv'
  <2>1. Deleted \in Row BY DEF Deleted, Inserted, Row, Statuses
  <2>2. Unborn' BY <1>12 DEF Withdraw, Deleted, Inserted
  <2>3. row' \in [Messages -> Row] BY <1>12, <2>1 DEF Withdraw
  <2> QED BY <1>12, <2>2, <2>3, SpendType DEF Withdraw, Unlocked, NoTx
<1>13. ASSUME NEW m \in Messages, Retry(m) PROVE TypeInv'
  <2>1. ASSUME NEW x \in Messages, NEW b \in BOOLEAN
        PROVE  /\ row[x] \in Row
               /\ Requeued(row[x], IF b THEN row[x].steer ELSE "awaiting",
                           b /\ row[x].closed) \in Row
    <3>1. /\ row[x] \in Row /\ (b /\ row[x].closed) \in BOOLEAN
          /\ row[x].steer \in {"awaiting", "dispatching", "delivered", "unsupported"}
      BY DEF Row
    <3> QED BY <3>1, RowRetried
  <2>2. row' \in [Messages -> Row] BY <1>13, <2>1 DEF Retry
  <2>3. Unborn'
    <3>1. \A r \in Row : \A steer, closed : Requeued(r, steer, closed).status = "queued"
      BY DEF Requeued, Row
    <3>2. ASSUME NEW x \in Messages, row'[x] # row[x]
          PROVE  \E steer, closed : row'[x] = Requeued(row[x], steer, closed)
      BY <1>13, <3>2 DEF Retry
    <3> QED BY <3>1, <3>2
  <2> QED BY <1>13, <2>2, <2>3, SpendType DEF Retry, Unlocked, NoTx
<1> QED BY <1>1, <1>2, <1>3, <1>4, <1>5, <1>6, <1>7, <1>8, <1>9, <1>10, <1>11,
           <1>12, <1>13 DEF UserStep

LEMMA LeaseTypeInv == TypeInv /\ LeaseStep => TypeInv'
<1> SUFFICES ASSUME TypeInv, LeaseStep PROVE TypeInv' OBVIOUS
<1> USE DEF TypeInv, TypeOK, TxKnown, Unborn, NoRow
<1>1. CASE NothingToClaim
  BY <1>1 DEF NothingToClaim, Tx, NoTx
<1>2. ASSUME NEW o \in Owners, BeginClaim(o) PROVE TypeInv'
  BY <1>2 DEF BeginClaim, Tx, NoTx
<1>3. ASSUME NEW m \in Messages, NEW accepts \in BOOLEAN, CommitClaim(m, accepts)
      PROVE  TypeInv'
  <2>1. tx.owner \in Owners /\ row[m] \in Row BY <1>3 DEF CommitClaim
  <2>2. Taken(row[m], tx.owner, accepts) \in Row BY <2>1, RowClaimed
  <2>3. row' \in [Messages -> Row] BY <1>3, <2>2 DEF CommitClaim, TakeNext
  <2>4. Lease(m, tx.owner) \in Fence BY <2>1, LeaseType
  <2>5. fences' \subseteq Fence BY <1>3, <2>4 DEF CommitClaim, TakeNext
  <2>6. Unborn' BY <1>3, <2>1 DEF CommitClaim, TakeNext, Taken, Row
  <2> QED BY <1>3, <2>3, <2>5, <2>6 DEF CommitClaim, Tx, NoTx
<1>4. ASSUME NEW m \in Messages, Expire(m) PROVE TypeInv'
  BY <1>4, LapseTypeInv, SpendType DEF Expire, LeaseLapses
<1>5. ASSUME NEW m \in Messages, NEW o \in Owners, Reclaim(m, o) PROVE TypeInv'
  <2>1. Reclaimed(row[m], o) \in Row BY RowReclaimed
  <2>2. row' \in [Messages -> Row] BY <1>5, <2>1 DEF Reclaim
  <2>3. fences' \subseteq Fence BY <1>5, LeaseType DEF Reclaim
  <2>4. Unborn' BY <1>5 DEF Reclaim, Reclaimed, Row
  <2> QED BY <1>5, <2>2, <2>3, <2>4 DEF Reclaim, Unlocked, NoTx
<1> QED BY <1>1, <1>2, <1>3, <1>4, <1>5 DEF LeaseStep

\* The members of a settled run.
LEMMA SettleRows ==
  ASSUME TypeInv, NEW f \in Fence, NEW s \in {"completed", "failed", "cancelled", "interrupted"},
         Settle(f, s)
  PROVE  row' \in [Messages -> Row]
<1>1. ASSUME NEW x \in Messages PROVE row'[x] \in Row
  <2>1. row[x] \in Row /\ s \in Statuses BY DEF TypeInv, TypeOK, Statuses
  <2>2. Released(row[x], s) \in Row BY <2>1, RowReleased
  <2>3. MemberSettled(row[x], s) \in Row
    BY <2>1, <2>2, RowKept, RowDetached DEF MemberSettled
  <2>4. [Released(row[x], s) EXCEPT !.result = NoResult] \in Row BY <2>2, RowDetached
  <2> QED BY <2>1, <2>3, <2>4 DEF Settle
<1> QED BY <1>1 DEF Settle

LEMMA RunTypeInv ==
  ASSUME TypeInv, NEW f \in fences, RunStep(f) PROVE TypeInv'
<1>f. f \in Fence /\ f.msg \in Messages /\ f.run \in Nat BY DEF TypeInv, TypeOK, Fence
<1>r. row \in [Messages -> Row] /\ paused \in BOOLEAN BY DEF TypeInv, TypeOK
<1>u. \A x \in Messages : row[x].group = f.msg => row[x].status \notin NoRow
  BY <1>f, QueueAssumption DEF TypeInv, Unborn
<1>1. CASE OpenIntake(f)
  <2>1. row' \in [Messages -> Row] BY <1>1, <1>f, <1>r, RowFlagged DEF OpenIntake
  <2>2. BornOnly BY <1>1, <1>f, <1>r, <1>u DEF BornOnly, NoRow, OpenIntake, Row, Owned, Fenced
  <2> QED BY <1>1, <2>1, <2>2, RowsOnly DEF OpenIntake
<1>2. CASE CloseIntake(f)
  <2>1. row' \in [Messages -> Row] BY <1>2, <1>f, <1>r, RowFlagged DEF CloseIntake
  <2>2. BornOnly BY <1>2, <1>f, <1>r, <1>u DEF BornOnly, NoRow, CloseIntake, Row, Owned, Fenced
  <2> QED BY <1>2, <2>1, <2>2, RowsOnly DEF CloseIntake
<1>3. CASE ForceCloseIntake(f)
  <2>1. row' \in [Messages -> Row]
    BY <1>3, <1>f, <1>r, RowFlagged, RowDetached DEF ForceCloseIntake
  <2>2. BornOnly BY <1>3, <1>f, <1>r, <1>u DEF BornOnly, NoRow, ForceCloseIntake, Waiting, Members, Row, Owned, Fenced
  <2> QED BY <1>3, <2>1, <2>2, RowsOnly DEF ForceCloseIntake
<1>4. ASSUME NEW S, NEW from,
             NEW to \in {"awaiting", "dispatching", "delivered", "unsupported"},
             SteerMembers(f, S, from, to)
      PROVE  TypeInv'
  <2>1. row' \in [Messages -> Row] BY <1>4, <1>f, <1>r, RowSteered DEF SteerMembers
  <2>2. BornOnly BY <1>4, <1>f, <1>r, <1>u DEF BornOnly, NoRow, SteerMembers, Row, Owned, Fenced
  <2> QED BY <1>4, <2>1, <2>2, RowsOnly DEF SteerMembers
<1>5. CASE RecordResult(f)
  <2>1. row' \in [Messages -> Row] BY <1>5, <1>f, <1>r DEF RecordResult, Row
  <2>2. BornOnly BY <1>5, <1>f, <1>r, <1>u DEF BornOnly, NoRow, RecordResult, Row, Owned, Fenced
  <2> QED BY <1>5, <2>1, <2>2, RowsOnly DEF RecordResult
<1>6. CASE RecordLineage(f)
  <2>1. row' \in [Messages -> Row] BY <1>6, <1>f, <1>r, RowFlagged DEF RecordLineage
  <2>2. BornOnly BY <1>6, <1>f, <1>r, <1>u DEF BornOnly, NoRow, RecordLineage, Row, Owned, Fenced
  <2> QED BY <1>6, <2>1, <2>2, RowsOnly DEF RecordLineage
<1>7. ASSUME NEW s \in {"completed", "failed", "cancelled", "interrupted"}, Settle(f, s)
      PROVE  TypeInv'
  <2>1. row' \in [Messages -> Row] BY <1>7, <1>f, SettleRows
  <2>2. \A x \in Messages : row'[x] # row[x] =>
          /\ row[x].status \notin NoRow
          /\ row'[x].status \in {s, row[x].status}
    <3>1. ASSUME NEW x \in Messages
          PROVE  /\ [Released(row[x], s) EXCEPT !.result = NoResult].status = s
                 /\ MemberSettled(row[x], s).status \in {s, row[x].status}
      <4>1. row[x] \in Row /\ s \in Statuses BY <1>r DEF Statuses
      <4>2. Released(row[x], s) \in Row BY <4>1, RowReleased
      <4>3. \A r \in Row : /\ [r EXCEPT !.result = NoResult].status = r.status
                           /\ [r EXCEPT !.status = s].status = s
                           /\ Detached(r).status = r.status
        BY DEF Row, Detached
      <4>4. Released(row[x], s).status = s BY <4>1, ReleasedFields
      <4>5. [Released(row[x], s) EXCEPT !.result = NoResult].status = s BY <4>2, <4>3, <4>4
      <4>6. MemberSettled(row[x], s).status \in {s, row[x].status}
        <5>1. CASE s \in Unfinished BY <4>1, <4>3, <5>1 DEF MemberSettled
        <5>2. CASE s \notin Unfinished BY <4>1, <4>2, <4>3, <4>4, <5>2 DEF MemberSettled
        <5> QED BY <5>1, <5>2
      <4> QED BY <4>5, <4>6
    <3>2. row[f.msg].status \notin NoRow BY <1>7 DEF Settle, Fenced, Owned, NoRow
    <3> QED BY <1>7, <1>r, <1>u, <3>1, <3>2 DEF Settle
  <2>3. BornOnly BY <2>2 DEF BornOnly, NoRow
  <2> QED BY <1>7, <2>1, <2>3, RowsOnly DEF Settle
<1>8. CASE MarkPersistencePending(f)
  <2>1. Released(row[f.msg], "failed") \in Row BY <1>f, <1>r, RowReleased DEF Statuses
  <2>2. row' \in [Messages -> Row] BY <1>8, <1>f, <1>r, <2>1 DEF MarkPersistencePending
  <2>3. BornOnly
    BY <1>8, <1>f, <1>r DEF BornOnly, NoRow, MarkPersistencePending, Released, Row, Owned, Fenced
  <2> QED BY <1>8, <2>2, <2>3, RowsOnly DEF MarkPersistencePending
<1> QED BY <1>1, <1>2, <1>3, <1>4, <1>5, <1>6, <1>7, <1>8
        DEF RunStep, ClaimMembers, Acknowledge, MarkUnsupported

LEMMA StepTypeInv == TypeInv /\ [StorageNext]_queueVars => TypeInv'
<1> SUFFICES ASSUME TypeInv, [StorageNext]_queueVars PROVE TypeInv' OBVIOUS
<1>1. CASE UserStep BY <1>1, UserTypeInv
<1>2. CASE LeaseStep BY <1>2, LeaseTypeInv
<1>3. ASSUME NEW f \in fences, RunStep(f) PROVE TypeInv' BY <1>3, RunTypeInv
<1>4. ASSUME NEW m \in Messages, LeaseLapses(m), UNCHANGED spent PROVE TypeInv'
  BY <1>4, LapseTypeInv
<1>5. CASE UNCHANGED queueVars
  BY <1>5 DEF queueVars, TypeInv, TypeOK, TxKnown, Unborn
<1> QED BY <1>1, <1>2, <1>3, <1>4, <1>5 DEF StorageNext, QueueNext

\* Every state of the storage has the declared types, whoever calls it and
\* whenever leases lapse.
THEOREM TypeCorrect == StorageSpec => []TypeOK
<1>1. TypeInv => TypeOK BY DEF TypeInv
<1> QED BY <1>1, InitTypeInv, StepTypeInv, PTL DEF StorageSpec

----------------------------------------------------------------------------
(* The shape of rows and groups and the order of the line.  Every step but *)
(* an admission, a prioritize and a removal keeps every row: its shape,    *)
(* its place among the rows that wait or can come to wait again, and its   *)
(* leader or none.                                                         *)

Waits == {"queued"} \cup Unfinished

\* What the CHECK constraints and the groups ask of one row.
RowShape(r) ==
  /\ r.owner # NoOwner => r.status = "running"
  /\ r.cancel => r.status = "running"
  /\ r.group = NoMessage => r.steer = "awaiting"
  /\ r.group # NoMessage => r.status \in Waits /\ ~r.closed /\ r.result = NoResult
  /\ r.status \in {"completed", "cancelled"} => r.text = 0 /\ r.result = NoResult
  /\ r.status \in Active => r.text > 0

\* A row that others may steer: a task message with a row.
Heads(l) == row[l].group = NoMessage /\ row[l].status # "absent"

Led ==
  /\ \A m \in Messages : row[m].group # NoMessage =>
       Heads(row[m].group) /\ row[row[m].group].status # "deleted"
  /\ tx.op = "admit" /\ tx.leader # NoMessage => Heads(tx.leader)

\* A row whose place in the order matters: it waits, or runs and can fail.
Contends(r) == r.status \in Waits \/ (r.status = "running" /\ ~r.cancel)

Line ==
  /\ nextSeq > 0
  /\ \A x \in Messages : Contends(row[x]) => row[x].seq > 0 /\ row[x].seq < nextSeq
  /\ \A x, y \in Messages :
       Contends(row[x]) /\ Contends(row[y]) /\ row[x].seq = row[y].seq => x = y

ShapeInv == TypeInv /\ (\A m \in Messages : RowShape(row[m])) /\ Led /\ Line

\* Row q is a later version of r that kept its shape, its group or none, and its place.
Kept(r, q) ==
  /\ RowShape(q)
  /\ q.group \in {r.group, NoMessage}
  /\ r.status \notin NoRow => q.status \notin NoRow
  /\ r.status # "absent" => q.status # "absent"
  /\ Contends(q) => Contends(r) /\ q.seq = r.seq

KeptOrGone(r, q) == Kept(r, q) \/ (r.status # "absent" /\ q = Deleted)

LEMMA ShapeDeleted == RowShape(Deleted) /\ ~Contends(Deleted) /\ Deleted.group = NoMessage
                      /\ Deleted.status = "deleted"
BY QueueAssumption DEF RowShape, Deleted, Inserted, Contends, Waits, Unfinished, Active

LEMMA KeptSame == ASSUME NEW r, RowShape(r) PROVE Kept(r, r)
BY DEF Kept

LEMMA KeptStopped ==
  ASSUME NEW r \in Row, RowShape(r), r.status = "running", NEW a \in BOOLEAN
  PROVE  Kept(r, [r EXCEPT !.cancel = TRUE, !.auto = a])
BY DEF Kept, RowShape, Contends, Row, Waits, Unfinished, NoRow

LEMMA KeptEdited ==
  ASSUME NEW r \in Row, RowShape(r), r.status = "queued"
  PROVE  Kept(r, [r EXCEPT !.text = @ + 1])
<1>1. r.text \in Nat /\ r.text + 1 > 0 BY DEF Row
<1> DEFINE q == [r EXCEPT !.text = r.text + 1]
<1>2. /\ q.text = r.text + 1
      /\ q.status = r.status /\ q.owner = r.owner /\ q.cancel = r.cancel /\ q.group = r.group
      /\ q.steer = r.steer /\ q.closed = r.closed /\ q.result = r.result /\ q.seq = r.seq
  BY DEF Row
<1>3. q = [r EXCEPT !.text = @ + 1] OBVIOUS
<1> HIDE DEF q
<1>4. Kept(r, q) BY <1>1, <1>2 DEF Kept, RowShape, Contends, NoRow
<1> QED BY <1>3, <1>4

LEMMA KeptRequeued ==
  ASSUME NEW r \in Row, RowShape(r), r.status \in Waits, NEW b \in BOOLEAN
  PROVE  Kept(r, Requeued(r, IF b THEN r.steer ELSE "awaiting", b /\ r.closed))
<1> DEFINE q == Requeued(r, IF b THEN r.steer ELSE "awaiting", b /\ r.closed)
<1>1. /\ q.status = "queued" /\ q.owner = NoOwner /\ q.cancel = FALSE /\ q.group = r.group
      /\ q.steer = (IF b THEN r.steer ELSE "awaiting") /\ q.closed = (b /\ r.closed)
      /\ q.result = r.result /\ q.seq = r.seq /\ q.text = r.text
  BY DEF Requeued, Row
<1> HIDE DEF q
<1>2. Kept(r, q) BY <1>1 DEF Kept, RowShape, Contends, Waits, Unfinished, Active, NoRow
<1> QED BY <1>2 DEF q

\* A claim, a recovery, a lapse.
LEMMA KeptTaken ==
  ASSUME NEW r \in Row, RowShape(r), r.status = "queued", r.group = NoMessage,
         NEW o \in Owners, NEW c \in BOOLEAN
  PROVE  Kept(r, Taken(r, o, c))
<1> DEFINE q == Taken(r, o, c)
<1>1. /\ q.status = "running" /\ q.owner = o /\ q.cancel = FALSE /\ q.group = r.group
      /\ q.steer = r.steer /\ q.result = r.result /\ q.seq = r.seq /\ q.text = r.text
  BY DEF Taken, Row
<1> HIDE DEF q
<1>2. Kept(r, q) BY <1>1 DEF Kept, RowShape, Contends, Waits, Unfinished, Active, NoRow
<1> QED BY <1>2 DEF q

LEMMA KeptReclaimed ==
  ASSUME NEW r \in Row, RowShape(r), r.status = "running", NEW o \in Owners
  PROVE  Kept(r, Reclaimed(r, o))
<1> DEFINE q == Reclaimed(r, o)
<1>1. /\ q.status = "running" /\ q.owner = o /\ q.cancel = r.cancel /\ q.group = r.group
      /\ q.steer = r.steer /\ q.result = r.result /\ q.seq = r.seq /\ q.text = r.text
  BY DEF Reclaimed, Row
<1> HIDE DEF q
<1>2. Kept(r, q) BY <1>1 DEF Kept, RowShape, Contends, Waits, Unfinished, Active, NoRow
<1> QED BY <1>2 DEF q

\* A run that keeps going.
LEMMA KeptRunning ==
  ASSUME NEW r \in Row, RowShape(r), r.status = "running", NEW b \in BOOLEAN, NEW v
  PROVE  /\ Kept(r, [r EXCEPT !.closed = b])
         /\ Kept(r, [r EXCEPT !.lineage = b])
         /\ Kept(r, [r EXCEPT !.live = b])
         /\ Kept(r, [r EXCEPT !.result = v])
BY DEF Kept, RowShape, Contends, Row, Waits, Unfinished, Active, NoRow

\* A member is moved along, let go, or settled with its run.
LEMMA KeptMember ==
  ASSUME NEW r \in Row, RowShape(r), r.group # NoMessage
  PROVE  /\ \A v : Kept(r, [r EXCEPT !.steer = v])
         /\ r.steer = "awaiting" => Kept(r, [r EXCEPT !.group = NoMessage])
         /\ \A s \in Unfinished : Kept(r, [r EXCEPT !.status = s])
         /\ Kept(r, Detached(r))
BY DEF Kept, RowShape, Contends, Detached, Row, Waits, Unfinished, Active, NoRow

LEMMA KeptReleased ==
  ASSUME NEW r \in Row, RowShape(r), r.group = NoMessage, r.status = "running",
         NEW s \in {"completed", "failed", "cancelled", "interrupted"},
         s = "cancelled" \/ ~r.cancel
  PROVE  /\ Kept(r, [Released(r, s) EXCEPT !.result = NoResult])
         /\ s \in Unfinished => Kept(r, Released(r, s))
<1> DEFINE p == Released(r, s)
           q == [p EXCEPT !.result = NoResult]
<1>1. /\ p.status = s /\ p.owner = NoOwner /\ p.cancel = FALSE /\ p.group = r.group
      /\ p.steer = r.steer /\ p.result = r.result /\ p.seq = r.seq /\ p.closed = r.closed
      /\ p.text = IF s \in Unfinished THEN r.text ELSE 0
  BY DEF Released, Row
<1>2. p \in Row BY RowReleased DEF Statuses
<1>3. /\ q.status = s /\ q.owner = NoOwner /\ q.cancel = FALSE /\ q.group = r.group
      /\ q.steer = r.steer /\ q.result = NoResult /\ q.seq = r.seq /\ q.closed = r.closed
      /\ q.text = IF s \in Unfinished THEN r.text ELSE 0
  <2> HIDE DEF p
  <2> QED BY <1>1, <1>2 DEF Row
<1> HIDE DEF p, q
<1>4. Kept(r, q)
  BY <1>3 DEF Kept, RowShape, Contends, Waits, Unfinished, Active, NoRow
<1>5. s \in Unfinished => Kept(r, p)
  BY <1>1 DEF Kept, RowShape, Contends, Waits, Unfinished, Active, NoRow
<1> QED BY <1>4, <1>5 DEF p, q

\* A delivered member ends with its run.
LEMMA KeptDelivered ==
  ASSUME NEW r \in Row, RowShape(r), r.group # NoMessage, NEW s \in {"completed", "cancelled"}
  PROVE  Kept(r, Detached(Released(r, s)))
<1> DEFINE p == Released(r, s)
           q == Detached(p)
<1>1. /\ p.status = s /\ p.owner = NoOwner /\ p.cancel = FALSE /\ p.result = r.result
      /\ p.closed = r.closed /\ p.text = 0
  BY DEF Released, Row, Unfinished
<1>2. p \in Row BY RowReleased DEF Statuses
<1>3. /\ q.status = s /\ q.owner = NoOwner /\ q.cancel = FALSE /\ q.group = NoMessage
      /\ q.steer = "awaiting" /\ q.result = r.result /\ q.closed = r.closed /\ q.text = 0
  <2> HIDE DEF p
  <2> QED BY <1>1, <1>2 DEF Row, Detached
<1> HIDE DEF p, q
<1>4. Kept(r, q) BY <1>3 DEF Kept, RowShape, Contends, Waits, Unfinished, Active, NoRow
<1> QED BY <1>4 DEF p, q

LEMMA KeptSettled ==
  ASSUME NEW r \in Row, RowShape(r), r.group # NoMessage,
         NEW s \in {"completed", "failed", "cancelled", "interrupted"}
  PROVE  Kept(r, MemberSettled(r, s))
BY KeptMember, KeptDelivered DEF MemberSettled, Unfinished

LEMMA KeptReranked ==
  ASSUME NEW r \in Row, RowShape(r), NEW n \in Nat
  PROVE  LET q == [r EXCEPT !.seq = n] IN
         /\ RowShape(q) /\ q.group = r.group /\ q.status = r.status /\ q.seq = n
BY DEF RowShape, Row

\* A step under which every row is kept or removed keeps the invariant, when no
\* leader is removed without its members.
LEMMA KeptShape ==
  ASSUME ShapeInv, TypeInv', \A x \in Messages : KeptOrGone(row[x], row'[x]),
         \A m \in Messages : row'[m].group # NoMessage => row'[row[m].group].status # "deleted",
         UNCHANGED nextSeq,
         tx'.op = "admit" /\ tx'.leader # NoMessage => tx' = tx \/ Heads(tx'.leader)
  PROVE  ShapeInv'
<1>r. /\ row \in [Messages -> Row] /\ row' \in [Messages -> Row] /\ tx \in Tx /\ tx' \in Tx
  BY DEF ShapeInv, TypeInv, TypeOK
<1>g. \A x \in Messages : row[x].group \in Messages \cup {NoMessage} BY <1>r DEF Row
<1>1. ASSUME NEW x \in Messages PROVE RowShape(row'[x])
  BY ShapeDeleted DEF KeptOrGone, Kept
<1>2. ASSUME NEW l \in Messages, Heads(l)
      PROVE  row'[l].group = NoMessage /\ row'[l].status # "absent"
  BY <1>2, ShapeDeleted DEF Heads, KeptOrGone, Kept
<1>3. ASSUME NEW m \in Messages, row'[m].group # NoMessage
      PROVE  /\ row'[m].group = row[m].group /\ row[m].group # NoMessage
             /\ row'[row[m].group].group = NoMessage /\ row'[row[m].group].status # "absent"
  <2>1. row'[m].group = row[m].group BY <1>3, ShapeDeleted DEF KeptOrGone, Kept
  <2>2. row[m].group \in Messages /\ Heads(row[m].group)
    BY <1>3, <1>g, <2>1 DEF ShapeInv, Led
  <2> QED BY <1>2, <1>3, <2>1, <2>2
<1>4. ASSUME tx'.op = "admit", tx'.leader # NoMessage
      PROVE  row'[tx'.leader].group = NoMessage /\ row'[tx'.leader].status # "absent"
  <2>1. tx'.leader \in Messages BY <1>r, <1>4 DEF Tx
  <2>2. Heads(tx'.leader) BY <1>4 DEF ShapeInv, Led
  <2> QED BY <1>2, <2>1, <2>2
<1>5. Led' BY <1>3, <1>4 DEF Led, Heads
<1>6. \A x \in Messages : Contends(row'[x]) => Contends(row[x]) /\ row'[x].seq = row[x].seq
  BY ShapeDeleted DEF KeptOrGone, Kept
<1>7. Line' BY <1>6 DEF ShapeInv, Line
<1> QED BY <1>1, <1>5, <1>7 DEF ShapeInv

LEMMA KeptAll ==
  ASSUME ShapeInv, TypeInv', \A x \in Messages : Kept(row[x], row'[x]), UNCHANGED nextSeq,
         tx'.op = "admit" /\ tx'.leader # NoMessage => tx' = tx \/ Heads(tx'.leader)
  PROVE  ShapeInv'
<1>1. \A x \in Messages : KeptOrGone(row[x], row'[x]) BY DEF KeptOrGone
<1>2. ASSUME NEW m \in Messages, row'[m].group # NoMessage
      PROVE  row'[row[m].group].status # "deleted"
  <2>1. row[m].group # NoMessage BY <1>2 DEF Kept
  <2>2. row[m].group \in Messages BY <2>1 DEF ShapeInv, TypeInv, TypeOK, Row
  <2>3. row[row[m].group].status \notin NoRow BY <2>1 DEF ShapeInv, Led, Heads, NoRow
  <2> QED BY <2>2, <2>3 DEF Kept, NoRow
<1> HIDE DEF Kept
<1> QED BY <1>1, <1>2, KeptShape

\* Among the waiting rows of a line the ranks are distinct, from 1 on, and
\* below the next sequence number.
WaitingRows == WithStatus({"queued"} \cup Unfinished)
UpTo(m, x) == {y \in WaitingRows : y = m \/ row[y].seq <= row[x].seq}

LEMMA RankCounts ==
  ASSUME TypeOK, NEW m, NEW x \in WaitingRows
  PROVE  /\ IsFiniteSet(WaitingRows) /\ IsFiniteSet(UpTo(m, x))
         /\ Cardinality(UpTo(m, x)) \in Nat \ {0}
         /\ x # m => Rank(m, x) = Cardinality(UpTo(m, x))
<1>1. IsFiniteSet(WaitingRows) BY QueueAssumption, FS_Subset DEF WaitingRows, WithStatus
<1>2. UpTo(m, x) \subseteq WaitingRows BY DEF UpTo
<1>3. IsFiniteSet(UpTo(m, x)) BY <1>1, <1>2, FS_Subset
<1>4. x \in UpTo(m, x)
  <2>1. row[x].seq \in Nat BY DEF TypeOK, Row, WaitingRows, WithStatus
  <2> QED BY <2>1 DEF UpTo
<1>5. Cardinality(UpTo(m, x)) \in Nat \ {0}
  BY <1>3, <1>4, FS_CardinalityType, FS_EmptySet
<1>6. Cardinality(UpTo(m, x) \ {x}) = Cardinality(UpTo(m, x)) - 1
  BY <1>3, <1>4, FS_RemoveElement
<1>7. x # m => Rank(m, x) = 1 + Cardinality(UpTo(m, x) \ {x})
  BY DEF Rank, UpTo, WaitingRows
<1>8. x # m => Rank(m, x) = Cardinality(UpTo(m, x))
  <2> HIDE DEF UpTo
  <2> QED BY <1>5, <1>6, <1>7
<1> QED BY <1>1, <1>3, <1>5, <1>8

LEMMA RankBounds ==
  ASSUME ShapeInv, NEW m, NEW x \in WaitingRows
  PROVE  Rank(m, x) > 0 /\ Rank(m, x) < nextSeq
<1>t. TypeOK /\ nextSeq \in Nat BY DEF ShapeInv, TypeInv, TypeOK
<1> DEFINE f == [y \in WaitingRows |-> row[y].seq]
<1>1. f \in Injection(WaitingRows, 1..(nextSeq - 1))
  <2>1. \A y \in WaitingRows : y \in Messages /\ Contends(row[y]) /\ row[y].seq \in Nat
    BY <1>t DEF WaitingRows, WithStatus, Contends, Waits, TypeOK, Row
  <2>2. \A y \in WaitingRows : row[y].seq \in 1..(nextSeq - 1)
    BY <1>t, <2>1 DEF ShapeInv, Line
  <2>3. \A y, z \in WaitingRows : f[y] = f[z] => y = z BY <2>1 DEF ShapeInv, Line
  <2> QED BY <2>2, <2>3 DEF Injection, IsInjective
<1>2. IsFiniteSet(1..(nextSeq - 1)) /\ Cardinality(1..(nextSeq - 1)) = nextSeq - 1
  <2>1. nextSeq > 0 BY DEF ShapeInv, Line
  <2> QED BY <1>t, <2>1, FS_Interval
<1>3. IsFiniteSet(WaitingRows) BY <1>t, RankCounts
<1>4. Cardinality(WaitingRows) <= nextSeq - 1
  <2> HIDE DEF f
  <2> QED BY <1>1, <1>2, FS_Injection
<1>5. UpTo(m, x) \subseteq WaitingRows BY DEF UpTo
<1>6. Cardinality(UpTo(m, x)) <= Cardinality(WaitingRows) BY <1>3, <1>5, FS_Subset
<1>7. Cardinality(WaitingRows) \in Nat BY <1>3, FS_CardinalityType
<1>8. Cardinality(UpTo(m, x)) \in Nat \ {0} /\ (x # m => Rank(m, x) = Cardinality(UpTo(m, x)))
  BY <1>t, RankCounts
<1>9. x = m => Rank(m, x) = 1 BY DEF Rank
<1> QED BY <1>t, <1>4, <1>6, <1>7, <1>8, <1>9

LEMMA RankDistinct ==
  ASSUME ShapeInv, NEW m, NEW x \in WaitingRows, NEW y \in WaitingRows,
         Rank(m, x) = Rank(m, y)
  PROVE  x = y
<1>t. TypeOK BY DEF ShapeInv, TypeInv
<1>s. /\ row[x].seq \in Nat /\ row[y].seq \in Nat
      /\ row[x].seq = row[y].seq => x = y
  BY <1>t DEF ShapeInv, Line, TypeOK, Row, WaitingRows, WithStatus, Contends, Waits
\* Of two rows other than the chosen one, the earlier has the lower rank.
<1>1. ASSUME NEW a \in WaitingRows, NEW b \in WaitingRows, a # m, b # m,
             row[a].seq \in Nat, row[b].seq \in Nat, row[a].seq < row[b].seq
      PROVE  Rank(m, a) # Rank(m, b)
  <2>1. UpTo(m, a) \subseteq UpTo(m, b)
    <3>1. \A z \in WaitingRows : row[z].seq \in Nat
      BY <1>t DEF TypeOK, Row, WaitingRows, WithStatus
    <3> QED BY <1>1, <3>1 DEF UpTo
  <2>2. b \in UpTo(m, b) /\ b \notin UpTo(m, a) BY <1>1 DEF UpTo
  <2>3. UpTo(m, a) # UpTo(m, b) BY <2>2
  <2>4. Cardinality(UpTo(m, a)) # Cardinality(UpTo(m, b))
    BY <1>t, <2>1, <2>3, RankCounts, FS_Subset
  <2> QED BY <1>t, <1>1, <2>4, RankCounts
\* The chosen one is first.
<1>2. ASSUME NEW a \in WaitingRows, a # m, m \in WaitingRows PROVE Rank(m, a) # Rank(m, m)
  <2>1. {a} \subseteq UpTo(m, a) /\ m \in UpTo(m, a) \ {a}
    <3>1. row[a].seq \in Nat BY <1>t DEF TypeOK, Row, WaitingRows, WithStatus
    <3> QED BY <1>2, <3>1 DEF UpTo
  <2>2. IsFiniteSet(UpTo(m, a)) /\ Rank(m, a) = Cardinality(UpTo(m, a)) BY <1>t, <1>2, RankCounts
  <2>3. Cardinality({a}) # Cardinality(UpTo(m, a)) BY <2>1, <2>2, FS_Subset
  <2>4. Cardinality({a}) = 1 BY FS_Singleton
  <2> QED BY <2>2, <2>3, <2>4 DEF Rank
<1>3. CASE x = m BY <1>2, <1>3
<1>4. CASE y = m BY <1>2, <1>4
<1>5. CASE x # m /\ y # m
  <2>1. ASSUME x # y PROVE FALSE
    <3>1. row[x].seq < row[y].seq \/ row[y].seq < row[x].seq BY <1>s, <2>1
    <3> QED BY <1>1, <1>5, <1>s, <3>1
  <2> QED BY <2>1
<1> QED BY <1>3, <1>4, <1>5

\* Prioritize: the waiting rows get new distinct places, the running row leaves
\* the order.
LEMMA RerankShape ==
  ASSUME ShapeInv, TypeInv', CommitPrioritize PROVE ShapeInv'
<1>r. row \in [Messages -> Row] BY DEF ShapeInv, TypeInv, TypeOK
<1>1. ASSUME NEW x \in Messages
      PROVE  /\ RowShape(row'[x]) /\ row'[x].group = row[x].group
             /\ row'[x].status = row[x].status
             /\ Contends(row'[x]) => x \in WaitingRows /\ row'[x].seq = Rank(tx.msg, x)
  <2>0. row[x] \in Row /\ RowShape(row[x]) /\ Rank(tx.msg, x) \in Nat
    BY <1>r, RankType DEF ShapeInv, TypeInv
  <2>1. CASE row[x].status = "running"
    <3>1. row'[x] = [row[x] EXCEPT !.cancel = TRUE, !.auto = TRUE]
      BY <2>1 DEF CommitPrioritize, Unfinished
    <3>2. Kept(row[x], row'[x]) BY <2>0, <2>1, <3>1, KeptStopped
    <3>3. /\ row'[x].status = "running" /\ row'[x].group = row[x].group /\ row'[x].cancel
      BY <2>0, <2>1, <3>1 DEF Row
    <3> QED BY <2>1, <3>2, <3>3 DEF Kept, Contends, Waits, Unfinished
  <2>2. CASE row[x].status \in Waits
    <3>1. row'[x] = [row[x] EXCEPT !.seq = Rank(tx.msg, x)]
      BY <2>2 DEF CommitPrioritize, Waits, Unfinished
    <3>2. x \in WaitingRows BY <2>2 DEF WaitingRows, WithStatus, Waits
    <3> QED BY <2>0, <3>1, <3>2, KeptReranked
  <2>3. CASE row[x].status \notin Waits \cup {"running"}
    <3>1. row'[x] = row[x] BY <2>3 DEF CommitPrioritize, Waits
    <3> QED BY <2>0, <2>3, <3>1 DEF Contends
  <2> QED BY <2>1, <2>2, <2>3
<1>2. nextSeq' = nextSeq /\ tx'.op # "admit" BY DEF CommitPrioritize, NoTx
<1>3. Led'
  <2>1. ASSUME NEW m \in Messages, row'[m].group # NoMessage
        PROVE  Heads(row[m].group) /\ row[m].group \in Messages
               /\ row[row[m].group].status # "deleted"
    BY <1>1, <1>r, <2>1 DEF ShapeInv, Led, Row
  <2> QED BY <1>1, <1>2, <2>1 DEF Led, Heads
<1>4. Line'
  <2>1. \A x \in WaitingRows : Rank(tx.msg, x) > 0 /\ Rank(tx.msg, x) < nextSeq BY RankBounds
  <2>2. \A x, y \in WaitingRows : Rank(tx.msg, x) = Rank(tx.msg, y) => x = y BY RankDistinct
  <2> QED BY <1>1, <1>2, <2>1, <2>2 DEF ShapeInv, Line
<1> QED BY <1>1, <1>3, <1>4 DEF ShapeInv

LEMMA InsertShape ==
  ASSUME ShapeInv, TypeInv', CommitAdmit PROVE ShapeInv'
<1>r. /\ row \in [Messages -> Row] /\ tx.msg \in Messages /\ row[tx.msg].status = "absent"
      /\ row[tx.msg].group = NoMessage /\ nextSeq \in Nat /\ tx'.op # "admit"
  BY DEF ShapeInv, TypeInv, TypeOK, TxKnown, CommitAdmit, NoTx, Unborn, NoRow
<1>1. CASE tx.leader # NoMessage /\ row[tx.leader].status = "deleted"
  <2>1. row' = row /\ nextSeq' = nextSeq BY <1>1 DEF CommitAdmit
  <2>2. \A x \in Messages : Kept(row[x], row'[x]) BY <2>1, KeptSame DEF ShapeInv
  <2> QED BY <1>r, <2>1, <2>2, KeptAll
<1>2. CASE ~(tx.leader # NoMessage /\ row[tx.leader].status = "deleted")
  <2> DEFINE q == Inserted(nextSeq, tx.leader)
  <2>1. row' = [row EXCEPT ![tx.msg] = q] /\ nextSeq' = nextSeq + 1
    BY <1>2 DEF CommitAdmit
  <2>2. /\ row'[tx.msg] = q /\ \A x \in Messages \ {tx.msg} : row'[x] = row[x]
    BY <1>r, <2>1
  <2>3. q.seq = nextSeq /\ q.group = tx.leader /\ q.status = "queued" BY DEF Inserted
  <2>4. RowShape(q)
    BY DEF RowShape, Inserted, Waits, Unfinished, Active
  <2> HIDE DEF q
  <2>5. ASSUME NEW l \in Messages, Heads(l), row[l].status # "deleted"
        PROVE  row'[l].group = NoMessage /\ row'[l].status \notin NoRow
    BY <1>r, <2>2, <2>5 DEF Heads, NoRow
  <2>6. ASSUME NEW m \in Messages, row'[m].group # NoMessage
        PROVE  row'[row'[m].group].group = NoMessage /\ row'[row'[m].group].status \notin NoRow
    <3>1. CASE m = tx.msg
      <4>1. tx.leader \in Messages /\ Heads(tx.leader)
        BY <2>2, <2>3, <2>6, <3>1 DEF ShapeInv, Led, TypeInv, TypeOK, Tx, CommitAdmit
      <4> QED BY <1>2, <2>2, <2>3, <2>5, <2>6, <3>1, <4>1
    <3>2. CASE m # tx.msg
      <4>1. /\ row'[m] = row[m] /\ row[m].group \in Messages
            /\ Heads(row[m].group) /\ row[row[m].group].status # "deleted"
        BY <1>r, <2>2, <2>6, <3>2 DEF ShapeInv, Led, Row
      <4> QED BY <2>5, <4>1
    <3> QED BY <3>1, <3>2
  <2>7. Led' BY <1>r, <2>6 DEF Led, Heads, NoRow
  <2>8. Line'
    <3>1. \A x \in Messages : row[x].seq \in Nat BY <1>r DEF Row
    <3> QED BY <1>r, <2>1, <2>2, <2>3, <3>1 DEF ShapeInv, Line
  <2>9. \A x \in Messages : RowShape(row'[x]) BY <2>2, <2>4 DEF ShapeInv
  <2> QED BY <2>7, <2>8, <2>9 DEF ShapeInv
<1> QED BY <1>1, <1>2

LEMMA UserShape == ShapeInv /\ UserStep => ShapeInv'
<1> SUFFICES ASSUME ShapeInv, UserStep PROVE ShapeInv' OBVIOUS
<1>t. TypeInv' BY UserTypeInv DEF ShapeInv
<1>r. /\ row \in [Messages -> Row] /\ \A x \in Messages : RowShape(row[x])
      /\ \A x \in Messages : Kept(row[x], row[x])
  BY KeptSame DEF ShapeInv, TypeInv, TypeOK
<1>1. CASE CommitAdmit BY <1>1, <1>t, InsertShape
<1>2. CASE CommitPrioritize BY <1>2, <1>t, RerankShape
<1>3. CASE Sweep
  <2>1. \A x \in Messages : KeptOrGone(row[x], row'[x])
    BY <1>3, <1>r DEF Sweep, KeptOrGone
  <2>2. \A m \in Messages : row'[m].group = NoMessage
    BY <1>3, ShapeDeleted DEF Sweep, ShapeInv, TypeInv, Unborn, NoRow
  <2>3. UNCHANGED <<nextSeq, tx>> BY <1>3 DEF Sweep
  <2> QED BY <1>t, <2>1, <2>2, <2>3, KeptShape
<1>4. ASSUME NEW m \in Messages, BeginAdmit(m) PROVE ShapeInv'
  <2>1. ASSUME tx'.leader # NoMessage PROVE Heads(tx'.leader)
    <3>1. tx'.leader \in SteeringLeaders BY <1>4, <2>1 DEF BeginAdmit, NoTx
    <3>2. tx'.leader \in Messages /\ row[tx'.leader].status = "running"
      BY <3>1 DEF SteeringLeaders
    <3> QED BY <1>r, <3>2 DEF Heads, RowShape, Waits, Unfinished
  <2>2. UNCHANGED <<row, nextSeq>> BY <1>4 DEF BeginAdmit
  <2>3. \A x \in Messages : Kept(row[x], row'[x]) BY <1>r, <2>2
  <2> QED BY <1>t, <2>1, <2>2, <2>3, KeptAll
<1>5. ASSUME NEW m \in Messages, Stop(m) PROVE ShapeInv'
  <2>1. Kept(row[m], [row[m] EXCEPT !.cancel = TRUE, !.auto = FALSE])
    BY <1>5, <1>r, KeptStopped DEF Stop
  <2>2. \A x \in Messages : Kept(row[x], row'[x]) BY <1>5, <1>r, <2>1 DEF Stop
  <2>3. UNCHANGED <<nextSeq, tx>> BY <1>5 DEF Stop
  <2> QED BY <1>t, <2>2, <2>3, KeptAll
<1>6. ASSUME NEW m \in Messages, Edit(m) PROVE ShapeInv'
  <2>1. Kept(row[m], [row[m] EXCEPT !.text = @ + 1]) BY <1>6, <1>r, KeptEdited DEF Edit
  <2>2. row' = [row EXCEPT ![m] = [row[m] EXCEPT !.text = @ + 1]] BY <1>6 DEF Edit
  <2>3. \A x \in Messages : Kept(row[x], row'[x]) BY <1>r, <2>1, <2>2
  <2>4. UNCHANGED <<nextSeq, tx>> BY <1>6 DEF Edit
  <2> QED BY <1>t, <2>3, <2>4, KeptAll
<1>7. ASSUME NEW m \in Messages, Withdraw(m) PROVE ShapeInv'
  <2>0. row[m].status # "absent"
    BY <1>7 DEF Withdraw, Unfinished
  <2>1. ASSUME NEW x \in Messages PROVE KeptOrGone(row[x], row'[x])
    <3>1. row[x].group = m => row[x].status # "absent"
      BY <1>r, QueueAssumption DEF RowShape, Waits, Unfinished
    <3> QED BY <1>7, <1>r, <2>0, <3>1 DEF Withdraw, KeptOrGone
  <2>2. ASSUME NEW x \in Messages, row'[x].group # NoMessage
        PROVE  row'[row[x].group].status # "deleted"
    <3>1. row'[x] = row[x] /\ x # m /\ row[x].group # m
      BY <1>7, <2>2, ShapeDeleted DEF Withdraw
    <3>2. /\ row[x].group \in Messages /\ Heads(row[x].group)
          /\ row[row[x].group].status # "deleted"
      BY <1>r, <2>2, <3>1 DEF ShapeInv, Led, Row
    <3>3. row'[row[x].group] = row[row[x].group]
      BY <1>7, <3>1, <3>2, QueueAssumption DEF Withdraw, Heads
    <3> QED BY <3>2, <3>3
  <2>3. UNCHANGED <<nextSeq, tx>> BY <1>7 DEF Withdraw
  <2> QED BY <1>t, <2>1, <2>2, <2>3, KeptShape
<1>8. ASSUME NEW m \in Messages, Retry(m) PROVE ShapeInv'
  <2>1. ASSUME NEW x \in Messages PROVE Kept(row[x], row'[x])
    <3> DEFINE l == IF row[m].group = NoMessage THEN m ELSE row[m].group
               b == row[l].result # NoResult
    <3>1. \/ row'[x] = row[x]
          \/ /\ row[x].status \in Waits
             /\ row'[x] = Requeued(row[x], IF b THEN row[x].steer ELSE "awaiting",
                                   b /\ row[x].closed)
      BY <1>8 DEF Retry, Waits
    <3>2. b \in BOOLEAN OBVIOUS
    <3> HIDE DEF l, b
    <3> QED BY <1>r, <3>1, <3>2, KeptRequeued
  <2>2. UNCHANGED <<nextSeq, tx>> BY <1>8 DEF Retry
  <2> QED BY <1>t, <2>1, <2>2, KeptAll
<1>9. CASE UNCHANGED <<row, nextSeq>> /\ tx'.op # "admit"
  <2>1. \A x \in Messages : Kept(row[x], row'[x]) BY <1>9, <1>r
  <2> QED BY <1>9, <1>t, <2>1, KeptAll
<1>10. CASE UNCHANGED <<row, nextSeq, tx>>
  <2>1. \A x \in Messages : Kept(row[x], row'[x]) BY <1>10, <1>r
  <2> QED BY <1>10, <1>t, <2>1, KeptAll
<1>11. CASE BeginContinue
  BY <1>9, <1>11 DEF BeginContinue, NoTx
<1>12. ASSUME NEW m \in Messages, BeginPrioritize(m) PROVE ShapeInv'
  BY <1>9, <1>12 DEF BeginPrioritize, NoTx
<1>13. CASE CommitContinue \/ AbortTx
  BY <1>9, <1>13 DEF CommitContinue, AbortTx, NoTx
<1>14. CASE CloseSession
  BY <1>10, <1>14 DEF CloseSession
<1> QED BY <1>1, <1>2, <1>3, <1>4, <1>5, <1>6, <1>7, <1>8, <1>11, <1>12, <1>13, <1>14
        DEF UserStep

LEMMA LeaseShape ==
  ShapeInv /\ (LeaseStep \/ \E m \in Messages : LeaseLapses(m) /\ UNCHANGED spent) => ShapeInv'
<1> SUFFICES ASSUME ShapeInv, LeaseStep \/ \E m \in Messages : LeaseLapses(m) /\ UNCHANGED spent
             PROVE  ShapeInv'
  OBVIOUS
<1>t. TypeInv' BY LeaseTypeInv, LapseTypeInv DEF ShapeInv
<1>r. /\ row \in [Messages -> Row] /\ \A x \in Messages : RowShape(row[x])
      /\ \A x \in Messages : Kept(row[x], row[x])
  BY KeptSame DEF ShapeInv, TypeInv, TypeOK
<1>1. ASSUME NEW m \in Messages, LeaseLapses(m) PROVE ShapeInv'
  <2>1. Kept(row[m], [row[m] EXCEPT !.live = FALSE])
    BY <1>1, <1>r, KeptRunning DEF LeaseLapses
  <2>2. \A x \in Messages : Kept(row[x], row'[x]) BY <1>1, <1>r, <2>1 DEF LeaseLapses
  <2>3. UNCHANGED <<nextSeq, tx>> BY <1>1 DEF LeaseLapses
  <2> QED BY <1>t, <2>2, <2>3, KeptAll
<1>2. ASSUME NEW m \in Messages, NEW accepts \in BOOLEAN, CommitClaim(m, accepts)
      PROVE  ShapeInv'
  <2>0. row[m].status = "queued" /\ row[m].group = NoMessage /\ tx.owner \in Owners
    BY <1>2 DEF CommitClaim, TakeNext, FirstOf, Claimable, WithStatus, ShapeInv, TypeInv, TxKnown
  <2>1. Kept(row[m], Taken(row[m], tx.owner, accepts)) BY <1>r, <2>0, KeptTaken
  <2>2. \A x \in Messages : Kept(row[x], row'[x])
    BY <1>2, <1>r, <2>1 DEF CommitClaim, TakeNext
  <2>3. nextSeq' = nextSeq /\ tx'.op # "admit" BY <1>2 DEF CommitClaim, NoTx
  <2> QED BY <1>t, <2>2, <2>3, KeptAll
<1>3. ASSUME NEW m \in Messages, NEW o \in Owners, Reclaim(m, o) PROVE ShapeInv'
  <2>1. Kept(row[m], Reclaimed(row[m], o)) BY <1>3, <1>r, KeptReclaimed DEF Reclaim
  <2>2. \A x \in Messages : Kept(row[x], row'[x]) BY <1>3, <1>r, <2>1 DEF Reclaim
  <2>3. UNCHANGED <<nextSeq, tx>> BY <1>3 DEF Reclaim
  <2> QED BY <1>t, <2>2, <2>3, KeptAll
<1>4. CASE UNCHANGED <<row, nextSeq>> /\ tx'.op # "admit"
  <2>1. \A x \in Messages : Kept(row[x], row'[x]) BY <1>4, <1>r
  <2> QED BY <1>4, <1>t, <2>1, KeptAll
<1>5. ASSUME NEW o \in Owners, BeginClaim(o) PROVE ShapeInv'
  BY <1>4, <1>5 DEF BeginClaim, NoTx
<1>6. CASE NothingToClaim
  BY <1>4, <1>6 DEF NothingToClaim, NoTx
<1>7. ASSUME NEW m \in Messages, Expire(m) PROVE ShapeInv'
  BY <1>1, <1>7 DEF Expire
<1> QED BY <1>1, <1>2, <1>3, <1>5, <1>6, <1>7 DEF LeaseStep

LEMMA RunShape ==
  ASSUME ShapeInv, NEW f \in fences, RunStep(f) PROVE ShapeInv'
<1>t. TypeInv' BY RunTypeInv DEF ShapeInv
<1>r. /\ row \in [Messages -> Row] /\ \A x \in Messages : RowShape(row[x])
      /\ \A x \in Messages : Kept(row[x], row[x])
  BY KeptSame DEF ShapeInv, TypeInv, TypeOK
<1>f. f.msg \in Messages /\ f.msg # NoMessage
  BY QueueAssumption DEF ShapeInv, TypeInv, TypeOK, Fence
<1>k. ASSUME \A x \in Messages : Kept(row[x], row'[x]), UNCHANGED <<nextSeq, tx>> PROVE ShapeInv'
  BY <1>t, <1>k, KeptAll
<1>1. CASE OpenIntake(f)
  <2>1. row[f.msg].status = "running" BY <1>1 DEF OpenIntake, Fenced, Owned
  <2>2. Kept(row[f.msg], [row[f.msg] EXCEPT !.closed = FALSE]) BY <1>f, <1>r, <2>1, KeptRunning
  <2> QED BY <1>1, <1>f, <1>r, <1>k, <2>2 DEF OpenIntake
<1>2. CASE CloseIntake(f)
  <2>1. row[f.msg].status = "running" BY <1>2 DEF CloseIntake, Fenced, Owned
  <2>2. Kept(row[f.msg], [row[f.msg] EXCEPT !.closed = TRUE]) BY <1>f, <1>r, <2>1, KeptRunning
  <2> QED BY <1>2, <1>f, <1>r, <1>k, <2>2 DEF CloseIntake
<1>3. CASE ForceCloseIntake(f)
  <2>1. row[f.msg].status = "running" BY <1>3 DEF ForceCloseIntake, Fenced, Owned
  <2>2. Kept(row[f.msg], [row[f.msg] EXCEPT !.closed = TRUE]) BY <1>f, <1>r, <2>1, KeptRunning
  <2>3. ASSUME NEW x \in Waiting(f.msg) PROVE Kept(row[x], [row[x] EXCEPT !.group = NoMessage])
    BY <1>f, <1>r, KeptMember DEF Waiting, Members
  <2>4. \A x \in Messages : Kept(row[x], row'[x])
    BY <1>3, <1>r, <2>2, <2>3 DEF ForceCloseIntake
  <2> QED BY <1>3, <1>k, <2>4 DEF ForceCloseIntake
<1>4. ASSUME NEW S, NEW from, NEW to, SteerMembers(f, S, from, to) PROVE ShapeInv'
  <2>1. ASSUME NEW x \in Messages, x \in S PROVE Kept(row[x], [row[x] EXCEPT !.steer = to])
    <3>1. row[x].group # NoMessage BY <1>4, <1>f, <2>1 DEF SteerMembers
    <3> QED BY <1>r, <3>1, KeptMember
  <2>2. \A x \in Messages : Kept(row[x], row'[x]) BY <1>4, <1>r, <2>1 DEF SteerMembers
  <2> QED BY <1>4, <1>k, <2>2 DEF SteerMembers
<1>5. CASE RecordResult(f)
  <2>1. row[f.msg].status = "running" BY <1>5 DEF RecordResult, Fenced, Owned
  <2>2. Kept(row[f.msg], [row[f.msg] EXCEPT !.result = [run |-> f.run, text |-> row[f.msg].text]])
    BY <1>f, <1>r, <2>1, KeptRunning
  <2> QED BY <1>5, <1>f, <1>r, <1>k, <2>2 DEF RecordResult
<1>6. CASE RecordLineage(f)
  <2>1. row[f.msg].status = "running" BY <1>6 DEF RecordLineage, Fenced, Owned
  <2>2. Kept(row[f.msg], [row[f.msg] EXCEPT !.lineage = TRUE]) BY <1>f, <1>r, <2>1, KeptRunning
  <2> QED BY <1>6, <1>f, <1>r, <1>k, <2>2 DEF RecordLineage
<1>7. ASSUME NEW s \in {"completed", "failed", "cancelled", "interrupted"}, Settle(f, s)
      PROVE  ShapeInv'
  <2>1. row[f.msg].status = "running" /\ (s = "cancelled" \/ ~row[f.msg].cancel)
    BY <1>7 DEF Settle, Fenced, Owned
  <2>2. row[f.msg].group = NoMessage BY <1>f, <1>r, <2>1 DEF RowShape, Waits, Unfinished
  <2>3. Kept(row[f.msg], [Released(row[f.msg], s) EXCEPT !.result = NoResult])
    BY <1>f, <1>r, <2>1, <2>2, KeptReleased
  <2>4. ASSUME NEW x \in Messages, row[x].group = f.msg
        PROVE  Kept(row[x], MemberSettled(row[x], s))
    BY <1>f, <1>r, <2>4, KeptSettled
  <2>5. \A x \in Messages : Kept(row[x], row'[x]) BY <1>7, <1>r, <2>3, <2>4 DEF Settle
  <2> QED BY <1>7, <1>k, <2>5 DEF Settle
<1>8. CASE MarkPersistencePending(f)
  <2>1. row[f.msg].status = "running" /\ ~row[f.msg].cancel
    BY <1>8 DEF MarkPersistencePending, Fenced, Owned
  <2>2. row[f.msg].group = NoMessage BY <1>f, <1>r, <2>1 DEF RowShape, Waits, Unfinished
  <2>3. Kept(row[f.msg], Released(row[f.msg], "failed"))
    BY <1>f, <1>r, <2>1, <2>2, KeptReleased DEF Unfinished
  <2>4. \A x \in Messages : Kept(row[x], row'[x])
    BY <1>8, <1>f, <1>r, <2>3 DEF MarkPersistencePending
  <2> QED BY <1>8, <1>k, <2>4 DEF MarkPersistencePending
<1> QED BY <1>1, <1>2, <1>3, <1>4, <1>5, <1>6, <1>7, <1>8
        DEF RunStep, ClaimMembers, Acknowledge, MarkUnsupported

LEMMA StepShapeInv == ShapeInv /\ [StorageNext]_queueVars => ShapeInv'
<1> SUFFICES ASSUME ShapeInv, [StorageNext]_queueVars PROVE ShapeInv' OBVIOUS
<1>1. CASE UNCHANGED queueVars
  <2>1. \A x \in Messages : Kept(row[x], row'[x]) BY <1>1, KeptSame DEF ShapeInv, queueVars
  <2>2. TypeInv' BY <1>1, StepTypeInv DEF ShapeInv
  <2> QED BY <1>1, <2>1, <2>2, KeptAll DEF queueVars
<1> QED BY <1>1, UserShape, LeaseShape, RunShape DEF StorageNext, QueueNext

LEMMA InitShapeInv == Init0 => ShapeInv
<1> SUFFICES ASSUME Init0 PROVE ShapeInv OBVIOUS
<1>1. \A x \in Messages : row[x] = Absent BY DEF Init0
<1>2. /\ RowShape(Absent) /\ ~Contends(Absent) /\ Absent.group = NoMessage
  BY DEF RowShape, Contends, Absent, Inserted, Waits, Unfinished, Active
<1>3. Led BY <1>1, <1>2 DEF Init0, Led, NoTx
<1>4. Line BY <1>1, <1>2 DEF Init0, Line
<1> QED BY <1>1, <1>2, <1>3, <1>4, InitTypeInv DEF ShapeInv

LEMMA ShapeInvariant == StorageSpec => []ShapeInv
<1> QED BY InitShapeInv, StepShapeInv, PTL DEF StorageSpec

\* No write of the queue is refused by the CHECK constraints of its tables.
THEOREM ChecksHold == StorageSpec => []TableChecks
<1>1. ShapeInv => TableChecks
  BY DEF ShapeInv, RowShape, TableChecks, Waits, Unfinished
<1> QED BY <1>1, ShapeInvariant, PTL

\* A steering message waits under a task message that has a row, however the
\* admission, the withdrawal, the retry and the end of the run interleave.
THEOREM GroupsAreFlat == StorageSpec => []GroupShape
<1>1. ShapeInv => GroupShape
  BY DEF ShapeInv, RowShape, Led, Heads, GroupShape, Waits
<1> QED BY <1>1, ShapeInvariant, PTL

\* No two waiting messages ever have the same place, however often a prioritize
\* re-ranks them while admission allocates past them.
THEOREM OrderIsTotal == StorageSpec => []WaitingOrderTotal
<1>1. ShapeInv => WaitingOrderTotal
  BY DEF ShapeInv, Line, Contends, Waits, WaitingOrderTotal, WithStatus
<1> QED BY <1>1, ShapeInvariant, PTL

-------------------------------------------------------------------------------
(* The lease of a run is an exclusive authority, it is never regained once lost, and  *)
(* a stop cannot be undone.  Every step but a claim and a recovery is calm: it gives  *)
(* no row a lease and changes no lease generation.  A claim happens when nothing      *)
(* runs, and both kinds of lease get a generation that no earlier fence of the row    *)
(* has.                                                                               *)

OneRunning == \A m, n \in WithStatus({"running"}) : m = n

\* No fence is ahead of its row; a removed row never comes back.
LeaseOrder ==
  \A f \in fences :
    /\ row[f.msg].status # "absent"
    /\ row[f.msg].status = "deleted" \/ f.gen <= row[f.msg].gen

LeaseInv == TypeInv /\ OneRunning /\ LeaseOrder

\* Row q is a later version of row r that got no new lease.
Calm(r, q) ==
  /\ q.status = "running" => /\ r.status = "running" /\ (q.live => r.live)
                             /\ q.run = r.run /\ q.owner = r.owner /\ q.gen = r.gen
  /\ r.status # "absent" => \/ q.status = "deleted"
                            \/ r.status # "deleted" /\ q.status # "absent" /\ q.gen = r.gen
  /\ r.status = "running" /\ r.cancel =>
       \/ q.status = "running" /\ q.cancel
       \/ q.status \in {"cancelled", "deleted"}

CalmStep == fences' = fences /\ \A x \in Messages : Calm(row[x], row'[x])

\* The kinds of rows that the steps make.
LEMMA CalmSame == \A r : Calm(r, r) /\ Calm(r, Deleted)
BY DEF Calm, Deleted, Inserted

LEMMA CalmInserted ==
  ASSUME NEW r, r.status = "absent", NEW s, NEW l PROVE Calm(r, Inserted(s, l))
BY DEF Calm, Inserted

LEMMA CalmReleased ==
  ASSUME NEW r \in Row, r.status \in Statuses, NEW s \in Statuses \ {"running"},
         r.status = "running" => s = "cancelled" \/ ~r.cancel
  PROVE  /\ Calm(r, Released(r, s))
         /\ Calm(r, [Released(r, s) EXCEPT !.result = NoResult])
         /\ Calm(r, [r EXCEPT !.status = s])
         /\ Calm(r, Detached(Released(r, s)))
BY DEF Calm, Released, Detached, Statuses, Row

LEMMA CalmRequeued ==
  ASSUME NEW r \in Row, r.status \in {"queued"} \cup Unfinished, NEW steer, NEW closed
  PROVE  Calm(r, Requeued(r, steer, closed))
BY DEF Calm, Requeued, Unfinished, Row

\* What a user step changes in a row: a stop, its text or its rank.
LEMMA CalmUser ==
  ASSUME NEW r \in Row, NEW a \in BOOLEAN, NEW n \in Nat
  PROVE  /\ Calm(r, [r EXCEPT !.cancel = TRUE, !.auto = a])
         /\ Calm(r, [r EXCEPT !.seq = n])
         /\ Calm(r, [r EXCEPT !.text = n])
BY DEF Calm, Row

\* What a run changes in a row while it keeps going.
LEMMA CalmRun ==
  ASSUME NEW r \in Row, NEW b \in BOOLEAN, NEW v
  PROVE  /\ Calm(r, [r EXCEPT !.closed = b])
         /\ Calm(r, [r EXCEPT !.lineage = b])
         /\ Calm(r, [r EXCEPT !.live = FALSE])
         /\ Calm(r, [r EXCEPT !.result = v])
         /\ Calm(r, [r EXCEPT !.steer = v])
         /\ Calm(r, [r EXCEPT !.group = NoMessage])
         /\ Calm(r, Detached(r))
BY DEF Calm, Detached, Row

LEMMA UserCalm == TypeInv /\ UserStep => CalmStep
<1> SUFFICES ASSUME TypeInv, UserStep PROVE CalmStep OBVIOUS
<1>r. row \in [Messages -> Row] BY DEF TypeInv, TypeOK
<1>1. CASE CommitAdmit
  <2>1. tx.msg \in Messages /\ row[tx.msg].status = "absent"
    BY <1>1 DEF CommitAdmit, TypeInv, TxKnown
  <2>2. Calm(row[tx.msg], Inserted(nextSeq, tx.leader)) BY <2>1, CalmInserted
  <2> QED BY <1>1, <1>r, <2>1, <2>2, CalmSame DEF CommitAdmit, CalmStep
<1>2. CASE CommitPrioritize
  <2>1. ASSUME NEW x \in Messages PROVE Calm(row[x], row'[x])
    <3>1. row[x] \in Row /\ Rank(tx.msg, x) \in Nat BY <1>r, RankType DEF TypeInv
    <3>2. row'[x] \in {[row[x] EXCEPT !.cancel = TRUE, !.auto = TRUE],
                       [row[x] EXCEPT !.seq = Rank(tx.msg, x)], row[x]}
      BY <1>2 DEF CommitPrioritize, Unfinished
    <3> QED BY <3>1, <3>2, CalmUser, CalmSame
  <2> QED BY <1>2, <2>1 DEF CommitPrioritize, CalmStep
<1>3. CASE Sweep
  BY <1>3, <1>r, CalmSame DEF Sweep, CalmStep
<1>4. ASSUME NEW m \in Messages, Stop(m) PROVE CalmStep
  BY <1>4, <1>r, CalmUser, CalmSame DEF Stop, CalmStep
<1>5. ASSUME NEW m \in Messages, Edit(m) PROVE CalmStep
  <2>1. row[m].text + 1 \in Nat BY <1>r DEF Row
  <2> QED BY <1>5, <1>r, <2>1, CalmUser, CalmSame DEF Edit, CalmStep
<1>6. ASSUME NEW m \in Messages, Withdraw(m) PROVE CalmStep
  BY <1>6, <1>r, CalmSame DEF Withdraw, CalmStep
<1>7. ASSUME NEW m \in Messages, Retry(m) PROVE CalmStep
  <2>1. ASSUME NEW x \in Messages PROVE Calm(row[x], row'[x])
    <3>1. \/ row'[x] = row[x]
          \/ /\ row[x].status \in {"queued"} \cup Unfinished
             /\ \E steer, closed : row'[x] = Requeued(row[x], steer, closed)
      BY <1>7 DEF Retry
    <3> QED BY <1>r, <3>1, CalmRequeued, CalmSame
  <2> QED BY <1>7, <2>1 DEF Retry, CalmStep
<1>8. CASE UNCHANGED <<row, fences>>
  BY <1>8, CalmSame DEF CalmStep
<1> QED BY <1>1, <1>2, <1>3, <1>4, <1>5, <1>6, <1>7, <1>8
        DEF UserStep, BeginContinue, CommitContinue, AbortTx, CloseSession, BeginAdmit, BeginPrioritize

LEMMA RunCalm ==
  ASSUME TypeInv, OneRunning, NEW f \in fences, RunStep(f) PROVE CalmStep
<1>r. row \in [Messages -> Row] BY DEF TypeInv, TypeOK
<1>f. f.msg \in Messages BY DEF TypeInv, TypeOK, Fence
<1>1. CASE OpenIntake(f)
  BY <1>1, <1>f, <1>r, CalmRun, CalmSame DEF OpenIntake, CalmStep
<1>2. CASE CloseIntake(f)
  BY <1>2, <1>f, <1>r, CalmRun, CalmSame DEF CloseIntake, CalmStep
<1>3. CASE ForceCloseIntake(f)
  BY <1>3, <1>f, <1>r, CalmRun, CalmSame DEF ForceCloseIntake, CalmStep
<1>4. ASSUME NEW S, NEW from, NEW to, SteerMembers(f, S, from, to) PROVE CalmStep
  BY <1>4, <1>f, <1>r, CalmRun, CalmSame DEF SteerMembers, CalmStep
<1>5. CASE RecordResult(f)
  BY <1>5, <1>f, <1>r, CalmRun, CalmSame DEF RecordResult, CalmStep
<1>6. CASE RecordLineage(f)
  BY <1>6, <1>f, <1>r, CalmRun, CalmSame DEF RecordLineage, CalmStep
<1>7. ASSUME NEW s \in {"completed", "failed", "cancelled", "interrupted"}, Settle(f, s)
      PROVE  CalmStep
  <2>1. ASSUME NEW x \in Messages PROVE Calm(row[x], row'[x])
    <3>s. row[x] \in Row /\ s \in Statuses \ {"running"} BY <1>r DEF Statuses
    <3>1. CASE x = f.msg
      <4>1. row[x].status = "running" /\ (s = "cancelled" \/ ~row[x].cancel)
        BY <1>7, <3>1 DEF Settle, Fenced, Owned
      <4>2. Calm(row[x], [Released(row[x], s) EXCEPT !.result = NoResult])
        BY <3>s, <4>1, CalmReleased DEF Statuses
      <4> QED BY <1>7, <3>1, <4>2 DEF Settle
    <3>2. CASE x # f.msg /\ row[x].group = f.msg
      <4>1. row[f.msg].status = "running" BY <1>7 DEF Settle, Fenced, Owned
      <4>2. row[x].status # "running" BY <1>f, <3>2, <4>1 DEF OneRunning, WithStatus
      <4>3. row[x].status \in Statuses
        BY <1>f, <3>s, <3>2, QueueAssumption DEF TypeInv, Unborn, NoRow, Row
      <4>4. Calm(row[x], MemberSettled(row[x], s))
        BY <3>s, <4>2, <4>3, CalmReleased, CalmRun DEF MemberSettled
      <4> QED BY <1>7, <3>2, <4>4 DEF Settle
    <3>3. CASE x # f.msg /\ row[x].group # f.msg
      BY <1>7, <3>3, CalmSame DEF Settle
    <3> QED BY <3>1, <3>2, <3>3
  <2> QED BY <1>7, <2>1 DEF Settle, CalmStep
<1>8. CASE MarkPersistencePending(f)
  <2>1. Calm(row[f.msg], Released(row[f.msg], "failed"))
    BY <1>8, <1>f, <1>r, CalmReleased DEF MarkPersistencePending, Fenced, Owned, Statuses
  <2> QED BY <1>8, <1>f, <1>r, <2>1, CalmSame DEF MarkPersistencePending, CalmStep
<1> QED BY <1>1, <1>2, <1>3, <1>4, <1>5, <1>6, <1>7, <1>8
        DEF RunStep, ClaimMembers, Acknowledge, MarkUnsupported

\* A step that hands out lease g of row g.msg, which becomes q.
Leases(g, q) ==
  /\ row[g.msg].status \in {"queued", "running"}
  /\ q.status = "running" /\ (row[g.msg].cancel => row[g.msg].status = "queued" \/ q.cancel)
  /\ q.gen = row[g.msg].gen + 1 /\ g.gen = q.gen
  /\ \A x \in WithStatus({"running"}) : x = g.msg
  /\ row' = [row EXCEPT ![g.msg] = q]
  /\ fences' = fences \cup {g}

LeaseHanded == \E g \in Fence, q \in Row : Leases(g, q)

LEMMA ClaimLeases ==
  ASSUME TypeInv, NEW m \in Messages, NEW accepts \in BOOLEAN, CommitClaim(m, accepts)
  PROVE  LeaseHanded
<1> DEFINE g == Lease(m, tx.owner)
           q == Taken(row[m], tx.owner, accepts)
<1>1. row[m] \in Row /\ tx.owner \in Owners
  BY DEF CommitClaim, TypeInv, TypeOK, TxKnown
<1>2. g \in Fence /\ q \in Row
  BY <1>1, LeaseType, RowClaimed DEF TypeInv
<1>3. g.msg = m /\ g.gen = row[m].gen + 1 BY DEF Lease
<1>4. q.status = "running" /\ q.gen = row[m].gen + 1 BY <1>1 DEF Taken, Row
<1>5. row[m].status = "queued" /\ WithStatus({"running"}) = {}
  BY DEF CommitClaim, TakeNext, FirstOf, Claimable, WithStatus
<1>6. row' = [row EXCEPT ![m] = q] /\ fences' = fences \cup {g}
  BY DEF CommitClaim, TakeNext
<1> HIDE DEF g, q
<1> QED BY <1>2, <1>3, <1>4, <1>5, <1>6 DEF LeaseHanded, Leases

LEMMA ReclaimLeases ==
  ASSUME TypeInv, OneRunning, NEW m \in Messages, NEW o \in Owners, Reclaim(m, o)
  PROVE  LeaseHanded
<1> DEFINE g == [Lease(m, o) EXCEPT !.run = row[m].run]
           q == Reclaimed(row[m], o)
<1>1. row[m] \in Row BY DEF TypeInv, TypeOK
<1>2. g \in Fence /\ q \in Row BY <1>1, LeaseType, RowReclaimed DEF TypeInv
<1>3. g.msg = m /\ g.gen = row[m].gen + 1 BY DEF Lease
<1>4. row[m].status = "running" BY DEF Reclaim
<1>5. q.status = "running" /\ q.gen = row[m].gen + 1 /\ q.cancel = row[m].cancel
  BY <1>1, <1>4 DEF Reclaimed, Row
<1>6. \A x \in WithStatus({"running"}) : x = m BY <1>4 DEF OneRunning, WithStatus
<1>7. row' = [row EXCEPT ![m] = q] /\ fences' = fences \cup {g} BY DEF Reclaim
<1> HIDE DEF g, q
<1> QED BY <1>2, <1>3, <1>4, <1>5, <1>6, <1>7 DEF LeaseHanded, Leases

\* Every step is calm or hands out one lease.
LEMMA StepKinds ==
  TypeInv /\ OneRunning /\ [StorageNext]_queueVars => CalmStep \/ LeaseHanded
<1> SUFFICES ASSUME TypeInv, OneRunning, [StorageNext]_queueVars
             PROVE  CalmStep \/ LeaseHanded
  OBVIOUS
<1>1. CASE UserStep BY <1>1, UserCalm
<1>2. CASE LeaseStep
  <2>1. ASSUME NEW m \in Messages, LeaseLapses(m) PROVE CalmStep
    BY <2>1, CalmRun, CalmSame DEF LeaseLapses, CalmStep, TypeInv, TypeOK
  <2>2. CASE UNCHANGED <<row, fences>> BY <2>2, CalmSame DEF CalmStep
  <2> QED BY <1>2, <2>1, <2>2, ClaimLeases, ReclaimLeases
          DEF LeaseStep, NothingToClaim, BeginClaim, Expire
<1>3. ASSUME NEW f \in fences, RunStep(f) PROVE CalmStep BY <1>3, RunCalm
<1>4. ASSUME NEW m \in Messages, LeaseLapses(m) PROVE CalmStep
  BY <1>4, CalmRun, CalmSame DEF LeaseLapses, CalmStep, TypeInv, TypeOK
<1>5. CASE UNCHANGED queueVars BY <1>5, CalmSame DEF queueVars, CalmStep
<1> QED BY <1>1, <1>2, <1>3, <1>4, <1>5 DEF StorageNext, QueueNext

LEMMA StepLeaseInv == LeaseInv /\ [StorageNext]_queueVars => LeaseInv'
<1> SUFFICES ASSUME LeaseInv, [StorageNext]_queueVars PROVE LeaseInv' OBVIOUS
<1>t. TypeInv' BY StepTypeInv DEF LeaseInv
<1>f. /\ \A f \in fences : f.msg \in Messages /\ f.gen \in Nat
      /\ \A x \in Messages : row[x].gen \in Nat
  BY DEF LeaseInv, TypeInv, TypeOK, Fence, Row
<1>1. CASE CalmStep
  <2>1. OneRunning' BY <1>1 DEF CalmStep, Calm, LeaseInv, OneRunning, WithStatus
  <2>2. LeaseOrder' BY <1>1, <1>f DEF CalmStep, Calm, LeaseInv, LeaseOrder
  <2> QED BY <1>t, <2>1, <2>2 DEF LeaseInv
<1>2. ASSUME NEW g \in Fence, NEW q \in Row, Leases(g, q) PROVE LeaseInv'
  <2>r. /\ row \in [Messages -> Row] /\ g.msg \in Messages
        /\ row'[g.msg] = q /\ \A x \in Messages \ {g.msg} : row'[x] = row[x]
    BY <1>2 DEF Leases, LeaseInv, TypeInv, TypeOK, Fence
  <2>1. OneRunning' BY <1>2, <2>r DEF Leases, OneRunning, WithStatus
  <2>2. LeaseOrder' BY <1>2, <1>f, <2>r DEF Leases, LeaseInv, LeaseOrder
  <2> QED BY <1>t, <2>1, <2>2 DEF LeaseInv
<1> QED BY <1>1, <1>2, StepKinds DEF LeaseInv, LeaseHanded

LEMMA InitLeaseInv == Init0 => LeaseInv
<1>1. Init0 => OneRunning /\ LeaseOrder
  BY DEF Init0, OneRunning, LeaseOrder, WithStatus, Absent, Inserted
<1> QED BY <1>1, InitTypeInv DEF LeaseInv

LEMMA LeaseInvariant == StorageSpec => []LeaseInv
<1> QED BY InitLeaseInv, StepLeaseInv, PTL DEF StorageSpec

LEMMA OneHolder == LeaseInv => SingleAuthority
<1> SUFFICES ASSUME LeaseInv, NEW f \in fences, NEW g \in fences, Owned(f), Owned(g)
             PROVE  f = g
  BY DEF SingleAuthority
<1>1. f \in Fence /\ g \in Fence BY DEF LeaseInv, TypeInv, TypeOK
<1>2. f.msg = g.msg BY <1>1 DEF LeaseInv, OneRunning, WithStatus, Owned, Fence
<1> QED BY <1>1, <1>2 DEF Owned, Fence

LEMMA NotRegained ==
  ASSUME LeaseInv, [StorageNext]_queueVars, NEW f \in fences, Owned(f)' PROVE Owned(f)
<1>f. f.msg \in Messages /\ f.gen \in Nat /\ row[f.msg] \in Row /\ row[f.msg].gen \in Nat
  BY DEF LeaseInv, TypeInv, TypeOK, Fence, Row
<1>1. CASE CalmStep BY <1>1, <1>f DEF CalmStep, Calm, Owned
<1>2. ASSUME NEW g \in Fence, NEW q \in Row, Leases(g, q) PROVE Owned(f)
  <2>1. CASE f.msg = g.msg
    BY <1>2, <1>f, <2>1 DEF Leases, LeaseInv, LeaseOrder, TypeInv, TypeOK, Owned
  <2>2. CASE f.msg # g.msg
    BY <1>2, <1>f, <2>2 DEF Leases, LeaseInv, TypeInv, TypeOK, Owned
  <2> QED BY <2>1, <2>2
<1> QED BY <1>1, <1>2, StepKinds DEF LeaseInv, LeaseHanded

\* At most one holder of a lease passes the fence of finalize, of the result,
\* of the lineage and of the Session history at any time.
THEOREM AuthorityIsExclusive == StorageSpec => []SingleAuthority
BY OneHolder, LeaseInvariant, PTL

\* A worker that lost its lease can do nothing under it any more.
THEOREM AuthorityIsLostForGood == StorageSpec => AuthorityNeverRegained
<1>1. LeaseInv /\ [StorageNext]_queueVars =>
        [\A f \in fences : ~Owned(f) => ~Owned(f)']_queueVars
  BY NotRegained
<1> QED BY <1>1, LeaseInvariant, PTL DEF StorageSpec, AuthorityNeverRegained

\* A stop that was committed wins against every other end of the run.
THEOREM StopWins == StorageSpec => StopIsFinal
<1> DEFINE Final == \A m \in Messages :
             row[m].status = "running" /\ row[m].cancel =>
               \/ row'[m].status = "running" /\ row'[m].cancel
               \/ row'[m].status \in {"cancelled", "deleted"}
<1>1. LeaseInv /\ [StorageNext]_queueVars => [Final]_queueVars
  <2> SUFFICES ASSUME LeaseInv, [StorageNext]_queueVars PROVE Final OBVIOUS
  <2>1. CASE CalmStep BY <2>1 DEF CalmStep, Calm
  <2>2. ASSUME NEW g \in Fence, NEW q \in Row, Leases(g, q) PROVE Final
    <3>1. row \in [Messages -> Row] /\ g.msg \in Messages
      BY DEF LeaseInv, TypeInv, TypeOK, Fence
    <3> QED BY <2>2, <3>1 DEF Leases
  <2> QED BY <2>1, <2>2, StepKinds DEF LeaseInv, LeaseHanded
<1> QED BY <1>1, LeaseInvariant, PTL DEF StorageSpec, StopIsFinal
=============================================================================
