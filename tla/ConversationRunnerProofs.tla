---------------------- MODULE ConversationRunnerProofs ----------------------
(***************************************************************************)
(* The program that runs the queue, for any number of workers, messages    *)
(* and failures: it uses the storage as its operations allow, writes       *)
(* lineage once and before any answer shows, never loses the text of a     *)
(* settled message, leaves no message to a task that cannot read it, and   *)
(* keeps the promise of ConversationPromise.                               *)
(*                                                                         *)
(* The argument: RunnerInv adds to what the storage guarantees what each   *)
(* thread knows of the run whose fence it holds, as long as the fence is   *)
(* in force (Knows).  A step of a user or a lease is benign: it leaves     *)
(* the result and the intake of a run alone, adds members only while the   *)
(* intake is open and settles nothing.  A step of a thread is fenced, and  *)
(* only one fence is in force, so that no other thread knows anything the  *)
(* step could make false.                                                  *)
(***************************************************************************)
EXTENDS ConversationQueueRunner, ConversationQueueProofs

\* Where a thread holds a fence.
Holding == Pcs \ {"idle", "polled", "claiming"}

Traced(m) == evidence[m] # 0

\* What a thread at pc knows of the run of its fence f, while f is in force.
Knows(pc, f) ==
  /\ pc \in {"lineage", "save", "finish"} => row[f.msg].result # NoResult
  /\ pc \in {"finish", "finishCancelled", "cancelFinal"} =>
       turns[f.msg].text > 0 /\ Delivered(f.msg) \subseteq turns[f.msg].steered
  /\ pc \in {"finishCancelled", "cancelFinal"} => row[f.msg].cancel
  /\ pc = "working" /\ row[f.msg].closed => Waiting(f.msg) = {}

HeldBy(o) ==
  /\ At(o, Holding) =>
       /\ Mine(o) \in fences /\ Mine(o).owner = o
       /\ At(o, {"save"}) => Traced(Mine(o).msg)
       /\ Owned(Mine(o)) => Knows(thread[o].pc, Mine(o))
  /\ At(o, {"claiming"}) => tx.op = "claim" /\ tx.owner = o

Threads == \A o \in Owners : HeldBy(o)

\* Lineage, its audit rows and the turns that wait for it.
Traces ==
  /\ \A m \in Messages :
       Traced(m) => row[m].status = "deleted" \/ (row[m].status # "absent" /\ row[m].lineage)
  /\ EvidenceOnce
  /\ \A m \in Messages : row[m].lineage \/ turns[m].task # 0 => Traced(m)
  /\ \A m \in Messages : turns[m] = NoTurn \/ turns[m].text > 0

\* A run that an admission in progress may join.
MayLead(l) ==
  \/ row[l].status = "deleted"
  \/ /\ row[l].status \in {"running"} \cup Unfinished
     /\ ~row[l].cancel /\ row[l].result = NoResult
     /\ row[l].status = "running" => ~row[l].closed

Fate ==
  /\ NoDeafLeader
  /\ \A m \in Messages : row[m].group # NoMessage /\ row[m].status \in Unfinished =>
       row[row[m].group].status \in Unfinished
  /\ tx.op = "admit" /\ tx.leader # NoMessage => MayLead(tx.leader)

RunnerInv ==
  LeaseInv /\ ShapeInv /\ RunnerTypeOK /\ Threads /\ Traces /\ Fate /\ ScrubbedIsSaved

Thread == [pc : Pcs, fence : Fence \cup {NoFence}, batch : SUBSET Messages]

LEMMA GotoThread ==
  ASSUME RunnerTypeOK, NEW o \in Owners, NEW p \in Pcs, Goto(o, p)
  PROVE  /\ thread' \in [Owners -> Thread]
         /\ \A q \in Owners \ {o} : thread'[q] = thread[q]
         /\ thread'[o].pc = p
         /\ p # "idle" => thread'[o].fence = thread[o].fence
<1>1. thread \in [Owners -> Thread] BY DEF RunnerTypeOK, Thread
<1>2. Idle \in Thread /\ Idle.pc = "idle" BY DEF Idle, Thread, Pcs, NoFence
<1>3. [thread[o] EXCEPT !.pc = p] \in Thread BY <1>1 DEF Thread
<1>4. thread' = [thread EXCEPT ![o] = IF p = "idle" THEN Idle ELSE [thread[o] EXCEPT !.pc = p]]
  BY <1>1 DEF Goto
<1>5. /\ [thread[o] EXCEPT !.pc = p].pc = p
      /\ [thread[o] EXCEPT !.pc = p].fence = thread[o].fence
  BY <1>1 DEF Thread
<1> QED BY <1>1, <1>2, <1>3, <1>4, <1>5

\* The fence of a thread that holds one.
LEMMA MineType ==
  ASSUME RunnerInv, NEW o \in Owners, At(o, Holding)
  PROVE  /\ Mine(o) \in fences /\ Mine(o) \in Fence /\ Mine(o).msg \in Messages
         /\ Mine(o).run \in Nat /\ Mine(o).owner = o
BY DEF RunnerInv, Threads, HeldBy, ShapeInv, TypeInv, TypeOK, Fence

\* Every step of a thread, of a user and of a failure is one step of the storage or none.
LEMMA RunnerStepsStorage == RunnerInv /\ [RunnerNext]_runnerVars => [StorageNext]_queueVars
<1> SUFFICES ASSUME RunnerInv, [RunnerNext]_runnerVars PROVE [StorageNext]_queueVars
  OBVIOUS
<1> USE DEF StorageNext, QueueNext
<1>1. CASE User
  BY <1>1 DEF User, UserStep, LeaseStep
<1>2. ASSUME NEW o \in Owners, RunThread(o) PROVE [StorageNext]_queueVars
  <2> DEFINE f == Mine(o)
  <2>1. ASSUME At(o, Holding), RunStep(f) PROVE StorageNext
    BY <2>1, MineType
  <2>m. ASSUME At(o, Holding), NEW S \in SUBSET Messages,
               ClaimMembers(f, S) \/ Acknowledge(f, S) \/ MarkUnsupported(f, S)
        PROVE  StorageNext
    <3>1. S \subseteq Members(f.msg)
      BY <2>m DEF ClaimMembers, Acknowledge, MarkUnsupported, SteerMembers, Members
    <3> QED BY <2>1, <2>m, <3>1 DEF RunStep
  <2>b. thread[o].batch \in SUBSET Messages /\ Waiting(f.msg) \in SUBSET Messages
        /\ Waiting(f.msg) \ Deliverable(f.msg) \in SUBSET Messages
    BY DEF RunnerInv, RunnerTypeOK, Waiting, Members
  <2>h. \A P \in SUBSET Holding : At(o, P) => At(o, Holding) BY DEF At
  <2>2. CASE Pull(o)
    <3>1. At(o, Holding) BY <2>2 DEF Pull, At, Holding, Pcs
    <3> QED BY <2>2, <2>m, <2>b, <3>1 DEF Pull
  <2>3. CASE Consume(o)
    <3>1. At(o, Holding) BY <2>3 DEF Consume, At, Holding, Pcs
    <3> QED BY <2>3, <2>m, <2>b, <3>1 DEF Consume
  <2>4. CASE FinalCheckpoint(o)
    BY <2>4, <2>1 DEF FinalCheckpoint, RunStep, At, Holding, Pcs
  <2>5. CASE Answer(o)
    BY <2>5, <2>1 DEF Answer, RunStep, At, Holding, Pcs
  <2>6. CASE Unwind(o) \/ Withdrawn(o)
    BY <2>6 DEF Unwind, Withdrawn, OnlyGoto
  <2>7. CASE Lineage(o)
    BY <2>7, <2>1 DEF Lineage, NotPersisted, OnlyGoto, RunStep, At, Holding, Pcs, Persisting
  <2>8. CASE Save(o)
    BY <2>8 DEF Save, NotPersisted, OnlyGoto
  <2>9. CASE Finish(o)
    BY <2>9, <2>1 DEF Finish, NotPersisted, OnlyGoto, RunStep, At, Holding, Pcs, Persisting
  <2>10. CASE FinishCancelled(o)
    BY <2>10, <2>1 DEF FinishCancelled, NotPersisted, OnlyGoto, RunStep, At, Holding, Pcs, Persisting
  <2>11. CASE Pending(o)
    BY <2>11, <2>1 DEF Pending, OnlyGoto, RunStep, At, Holding, Pcs
  <2>12. CASE Retain(o)
    BY <2>12, <2>1 DEF Retain, OnlyGoto, RunStep, At, Holding, Pcs, Retaining
  <2>13. CASE SaveCancelled(o)
    BY <2>13 DEF SaveCancelled, OnlyGoto
  <2>14. CASE FinalizeCancelled(o)
    BY <2>14, <2>1 DEF FinalizeCancelled, OnlyGoto, RunStep, At, Holding, Pcs, Stopping
  <2> QED BY <1>2, <2>2, <2>3, <2>4, <2>5, <2>6, <2>7, <2>8, <2>9, <2>10, <2>11, <2>12,
             <2>13, <2>14 DEF RunThread
<1>3. ASSUME NEW o \in Owners, Poll(o) \/ Replay(o) PROVE [StorageNext]_queueVars
  BY <1>3 DEF Poll, Replay, OnlyGoto
<1>4. ASSUME NEW o \in Owners, StartClaim(o) \/ Claim(o) PROVE [StorageNext]_queueVars
  <2>1. AcceptsSteering \in BOOLEAN BY RunnerAssumption
  <2>2. CASE StartClaim(o) BY <2>2 DEF StartClaim, OnlyGoto, LeaseStep
  <2>3. CASE Claim(o) BY <2>1, <2>3 DEF Claim, LeaseStep
  <2> QED BY <1>4, <2>2, <2>3
<1>5. ASSUME NEW o \in Owners, Select(o) PROVE [StorageNext]_queueVars
  <2>1. At(o, Holding) BY <1>5 DEF Select, At, Holding, Pcs
  <2>2. Mine(o) \in fences BY <2>1, MineType
  <2> QED BY <1>5, <2>2 DEF Select, RunStep
<1>6. ASSUME NEW o \in Owners, Recover(o) PROVE [StorageNext]_queueVars
  BY <1>6 DEF Recover, LeaseStep
<1>7. ASSUME NEW o \in Owners, SourcesChanged(o) \/ Fault(o) \/ Shutdown(o)
      PROVE  [StorageNext]_queueVars
  BY <1>7 DEF SourcesChanged, Fault, Shutdown, Fail
<1>8. ASSUME NEW w \in Workers, Crash(w) PROVE [StorageNext]_queueVars
  BY <1>8 DEF Crash, Fail
<1>9. ASSUME NEW m \in Messages, Orphaned(m) PROVE [StorageNext]_queueVars
  BY <1>9 DEF Orphaned
<1>10. CASE Abort BY <1>10 DEF Abort, UserStep
<1>11. CASE UNCHANGED runnerVars BY <1>11 DEF runnerVars, queueVars
<1>w. \A w \in Workers : Job(w) \in Owners /\ Recovery(w) \in Owners
  BY RunnerAssumption DEF Job, Recovery
<1>12. ASSUME NEW w \in Workers, JobThread(w) PROVE [StorageNext]_queueVars
  <2>1. Job(w) \in Owners BY <1>w
  <2> HIDE DEF StorageNext, QueueNext
  <2> QED BY <1>2, <1>3, <1>4, <1>5, <1>12, <2>1 DEF JobThread
<1>13. ASSUME NEW w \in Workers, RecoveryThread(w) PROVE [StorageNext]_queueVars
  <2>1. Recovery(w) \in Owners BY <1>w
  <2> HIDE DEF StorageNext, QueueNext
  <2> QED BY <1>2, <1>6, <1>13, <2>1 DEF RecoveryThread
<1> HIDE DEF StorageNext, QueueNext
<1> QED BY <1>1, <1>7, <1>8, <1>9, <1>10, <1>11, <1>12, <1>13 DEF RunnerNext

-----------------------------------------------------------------------------
(* What users and leases do to a run that goes on.                          *)

Settled == {"completed", "cancelled"}

\* Row q is a later version of r that no lineage was recorded for ...
Unmarked(r, q) ==
  /\ r.status # "absent" =>
       \/ q.status = "deleted"
       \/ r.status # "deleted" /\ q.status # "absent" /\ q.lineage = r.lineage
  /\ q.lineage => r.lineage

\* ... and that no run settled.
Mild(r, q) == Unmarked(r, q) /\ (q.status \in Settled => r.status \in Settled)

\* The run of l keeps its result and its intake, and its group only gets members
\* while the intake is open.
Undisturbed(l) ==
  /\ row'[l].result = row[l].result /\ row'[l].closed = row[l].closed
  /\ row[l].cancel => row'[l].cancel
  /\ \A x \in Messages : row'[x].group = l =>
       \/ row[x].group = l /\ row'[x].steer = row[x].steer
       \/ ~row[l].closed /\ row'[x].steer = "awaiting"

Benign ==
  /\ \A x \in Messages : Mild(row[x], row'[x])
  /\ \A l \in Messages : row[l].status = "running" /\ row'[l].status = "running" => Undisturbed(l)
  /\ Fate'

\* A version that differs from r at most in text, order, lease and an added stop.
Plain(r, q) ==
  /\ q.status = r.status /\ q.group = r.group /\ q.steer = r.steer
  /\ q.result = r.result /\ q.lineage = r.lineage /\ q.closed = r.closed
  /\ r.cancel => q.cancel

LEMMA PlainBenign ==
  ASSUME RunnerInv, \A x \in Messages : Plain(row[x], row'[x]),
         \/ tx'.op # "admit"
         \/ tx' = tx /\ \A x \in Messages : row'[x].cancel = row[x].cancel
         \/ UNCHANGED row /\ (tx'.leader # NoMessage => MayLead(tx'.leader))
  PROVE  Benign
<1>g. \A m \in Messages : row[m].group # NoMessage => row[m].group \in Messages
  BY DEF RunnerInv, ShapeInv, TypeInv, TypeOK, Row
<1>t. tx.leader # NoMessage => tx.leader \in Messages
  BY DEF RunnerInv, ShapeInv, TypeInv, TypeOK, Tx
<1>1. \A x \in Messages : Mild(row[x], row'[x]) BY DEF Plain, Mild, Unmarked
<1>2. \A l \in Messages : Undisturbed(l) BY DEF Plain, Undisturbed
<1>3. NoDeafLeader' BY <1>g DEF Plain, RunnerInv, Fate, NoDeafLeader
<1>4. ASSUME NEW m \in Messages, row'[m].group # NoMessage, row'[m].status \in Unfinished
      PROVE  row'[row'[m].group].status \in Unfinished
  BY <1>g, <1>4 DEF Plain, RunnerInv, Fate
<1>5. ASSUME tx'.op = "admit", tx'.leader # NoMessage
      PROVE  \/ row'[tx'.leader].status = "deleted"
             \/ /\ row'[tx'.leader].status \in {"running"} \cup Unfinished
                /\ ~row'[tx'.leader].cancel /\ row'[tx'.leader].result = NoResult
                /\ row'[tx'.leader].status = "running" => ~row'[tx'.leader].closed
  <2>1. CASE tx' = tx /\ \A x \in Messages : row'[x].cancel = row[x].cancel
    BY <1>t, <1>5, <2>1 DEF Plain, RunnerInv, Fate, MayLead
  <2>2. CASE UNCHANGED row /\ (tx'.leader # NoMessage => MayLead(tx'.leader))
    BY <1>5, <2>2 DEF MayLead
  <2> QED BY <1>5, <2>1, <2>2
<1>6. Fate' BY <1>3, <1>4, <1>5 DEF Fate, MayLead
<1> QED BY <1>1, <1>2, <1>6 DEF Benign

LEMMA PlainRows ==
  ASSUME NEW r \in Row, NEW a \in BOOLEAN, NEW n, NEW o
  PROVE  /\ Plain(r, r)
         /\ Plain(r, [r EXCEPT !.cancel = TRUE, !.auto = a])
         /\ Plain(r, [r EXCEPT !.text = n])
         /\ Plain(r, [r EXCEPT !.seq = n])
         /\ Plain(r, [r EXCEPT !.live = FALSE])
         /\ Plain(r, Reclaimed(r, o))
BY DEF Plain, Reclaimed, Row

\* The facts about rows that the steps below use.
LEMMA RowFacts ==
  ASSUME RunnerInv, NEW m \in Messages
  PROVE  /\ row[m] \in Row /\ RowShape(row[m]) /\ Plain(row[m], row[m])
         /\ row[m].group # NoMessage =>
              /\ row[m].group \in Messages /\ row[row[m].group].group = NoMessage
              /\ row[row[m].group].status \in Active
              /\ row[m].status \in Waits
              /\ row[m].status \in Unfinished => row[row[m].group].status \in Unfinished
              /\ row[m].steer = "awaiting" => row[row[m].group].result = NoResult
<1>1. row[m] \in Row /\ RowShape(row[m]) BY DEF RunnerInv, ShapeInv, TypeInv, TypeOK
<1>2. row[m].group # NoMessage => row[m].group \in Messages BY <1>1 DEF Row
<1> QED BY <1>1, <1>2, PlainRows
        DEF RunnerInv, ShapeInv, Led, Heads, Fate, NoDeafLeader, RowShape

LEMMA InsertBenign == ASSUME RunnerInv, CommitAdmit PROVE Benign
<1>r. /\ row \in [Messages -> Row] /\ tx.msg \in Messages /\ row[tx.msg].status = "absent"
      /\ tx'.op # "admit" /\ tx.leader \in Messages \cup {NoMessage}
  BY DEF RunnerInv, ShapeInv, TypeInv, TypeOK, TxKnown, CommitAdmit, NoTx, Tx
<1>1. CASE tx.leader # NoMessage /\ row[tx.leader].status = "deleted"
  BY <1>1, <1>r, RowFacts, PlainBenign DEF CommitAdmit
<1>2. CASE ~(tx.leader # NoMessage /\ row[tx.leader].status = "deleted")
  <2> DEFINE q == Inserted(nextSeq, tx.leader)
             l == tx.leader
  <2>1. row'[tx.msg] = q /\ \A x \in Messages \ {tx.msg} : row'[x] = row[x]
    BY <1>2, <1>r DEF CommitAdmit
  <2>2. q.status = "queued" /\ q.group = l /\ q.steer = "awaiting" /\ q.lineage = FALSE
    BY DEF Inserted
  <2>3. l # NoMessage =>
          /\ l \in Messages /\ l # tx.msg /\ row[l].result = NoResult
          /\ row[l].status \in Active /\ (row[l].status = "running" => ~row[l].closed)
    BY <1>2, <1>r DEF RunnerInv, Fate, MayLead, CommitAdmit, Active, Unfinished
  <2> HIDE DEF q
  <2>4. ASSUME NEW x \in Messages PROVE Mild(row[x], row'[x])
    BY <1>r, <2>1, <2>2 DEF Mild, Unmarked, Settled
  <2>5. ASSUME NEW h \in Messages, row[h].status = "running", row'[h].status = "running"
        PROVE  Undisturbed(h)
    <3>1. h # tx.msg BY <1>r, <2>5
    <3>2. row'[h] = row[h] BY <2>1, <3>1
    <3>3. h = l => ~row[h].closed BY <2>3, <2>5, QueueAssumption
    <3> QED BY <2>1, <2>2, <3>2, <3>3 DEF Undisturbed
  <2>6. ASSUME NEW m \in Messages, row'[m].group # NoMessage
        PROVE  /\ row'[row'[m].group].status \in Active
               /\ row'[m].steer = "awaiting" => row'[row'[m].group].result = NoResult
               /\ row'[m].status \in Unfinished => row'[row'[m].group].status \in Unfinished
    <3>1. CASE m = tx.msg
      <4>1. row'[m].group = l /\ row'[l] = row[l] BY <2>1, <2>2, <2>3, <2>6, <3>1
      <4> QED BY <2>1, <2>2, <2>3, <2>6, <3>1, <4>1 DEF Unfinished
    <3>2. CASE m # tx.msg
      <4>1. row'[m] = row[m] BY <2>1, <3>2
      <4>2. row[m].group \in Messages /\ row[m].group # tx.msg
        BY <1>r, <2>6, <4>1, RowFacts DEF Active
      <4>3. row'[row[m].group] = row[row[m].group] BY <2>1, <4>2
      <4> QED BY <2>6, <4>1, <4>3, RowFacts
    <3> QED BY <3>1, <3>2
  <2>7. Fate' BY <1>r, <2>6 DEF Fate, NoDeafLeader
  <2> QED BY <2>4, <2>5, <2>7 DEF Benign
<1> QED BY <1>1, <1>2

LEMMA WithdrawBenign == ASSUME RunnerInv, NEW m \in Messages, Withdraw(m) PROVE Benign
<1>0. row[m].status \in Waits /\ tx' = NoTx /\ m # NoMessage
  BY QueueAssumption DEF Withdraw, Unlocked, Waits
<1>1. \A x \in Messages : row'[x] = IF x = m \/ row[x].group = m THEN Deleted ELSE row[x]
  BY DEF Withdraw
<1>2. \A x \in Messages : Mild(row[x], row'[x])
  BY <1>1 DEF Mild, Unmarked, Deleted, Inserted, Settled
<1>3. ASSUME NEW l \in Messages, row[l].status = "running" PROVE Undisturbed(l)
  <2>1. row'[l] = row[l]
    BY <1>0, <1>1, <1>3, RowFacts DEF Waits, Unfinished
  <2> QED BY <1>1, <2>1, ShapeDeleted, QueueAssumption DEF Undisturbed
<1>4. ASSUME NEW x \in Messages, row'[x].group # NoMessage
      PROVE  /\ row'[row'[x].group].status \in Active
             /\ row'[x].steer = "awaiting" => row'[row'[x].group].result = NoResult
             /\ row'[x].status \in Unfinished => row'[row'[x].group].status \in Unfinished
  <2>1. row'[x] = row[x] /\ row[x].group # m BY <1>1, <1>4, ShapeDeleted
  <2>2. row[x].group \in Messages /\ row[row[x].group].group = NoMessage BY <1>4, <2>1, RowFacts
  <2>3. row'[row[x].group] = row[row[x].group] BY <1>0, <1>1, <2>1, <2>2
  <2> QED BY <1>4, <2>1, <2>3, RowFacts
<1>5. Fate' BY <1>0, <1>4 DEF Fate, NoDeafLeader, NoTx
<1> QED BY <1>2, <1>3, <1>5 DEF Benign

LEMMA SweepBenign == ASSUME RunnerInv, Sweep PROVE Benign
<1>1. \A x \in Messages : row'[x] = IF row[x].status = "absent" THEN row[x] ELSE Deleted
  BY DEF Sweep
<1>2. \A x \in Messages : Mild(row[x], row'[x]) /\ row'[x].status # "running"
  BY <1>1 DEF Mild, Unmarked, Deleted, Inserted, Settled
<1>3. \A x \in Messages : row'[x].group = NoMessage
  BY <1>1, ShapeDeleted DEF RunnerInv, ShapeInv, TypeInv, Unborn, NoRow
<1>4. ASSUME tx'.op = "admit", tx'.leader # NoMessage PROVE row'[tx'.leader].status = "deleted"
  <2>1. tx' = tx /\ tx.leader \in Messages /\ Heads(tx.leader)
    BY <1>4 DEF Sweep, RunnerInv, ShapeInv, Led, TypeInv, TypeOK, Tx
  <2> QED BY <1>1, <2>1, ShapeDeleted DEF Heads
<1>5. Fate' BY <1>3, <1>4 DEF Fate, NoDeafLeader, MayLead
<1> QED BY <1>2, <1>5 DEF Benign

LEMMA RetryBenign == ASSUME RunnerInv, NEW m \in Messages, Retry(m) PROVE Benign
<1> DEFINE l == IF row[m].group = NoMessage THEN m ELSE row[m].group
           b == row[l].result # NoResult
           again == {x \in Messages : /\ x = l \/ row[x].group = l
                                      /\ row[x].status \in {"queued"} \cup Unfinished}
           Q(x) == Requeued(row[x], IF b THEN row[x].steer ELSE "awaiting", b /\ row[x].closed)
<1>0. /\ l \in Messages /\ row[l].status \in Unfinished /\ row[l].group = NoMessage
      /\ tx' = NoTx
  BY RowFacts DEF Retry, Unlocked
<1>1. \A x \in Messages : row'[x] = IF x \in again THEN Q(x) ELSE row[x]
  BY DEF Retry
<1>2. ASSUME NEW x \in Messages
      PROVE  /\ Q(x).status = "queued" /\ Q(x).group = row[x].group
             /\ Q(x).steer = (IF b THEN row[x].steer ELSE "awaiting")
             /\ Q(x).result = row[x].result /\ Q(x).lineage = row[x].lineage
  BY RowFacts DEF Requeued, Row
<1>3. \A x \in again : x = l \/ row[x].group = l
  OBVIOUS
<1>4. l \in again BY <1>0
<1>5. ASSUME NEW x \in Messages, row[x].group = l PROVE x \in again
  <2>1. row[x].group # NoMessage BY <1>0, <1>5, QueueAssumption
  <2> QED BY <1>5, <2>1, RowFacts DEF Waits
<1>6. \A x \in again : x \in Messages /\ row[x].status \in Waits BY DEF Waits
<1> HIDE DEF again, Q, l
<1>7. \A x \in Messages : Mild(row[x], row'[x])
  BY <1>1, <1>2, <1>6 DEF Mild, Unmarked, Settled, Waits, Unfinished
<1>8. ASSUME NEW h \in Messages, row[h].status = "running" PROVE Undisturbed(h)
  <2>1. row'[h] = row[h] /\ h # l BY <1>0, <1>1, <1>6, <1>8 DEF Waits, Unfinished
  <2>2. ASSUME NEW x \in Messages, row'[x].group = h
        PROVE  row[x].group = h /\ row'[x].steer = row[x].steer
    <3>1. row[x].group = h BY <1>1, <1>2, <2>2
    <3>2. row[x].group # NoMessage BY <3>1, QueueAssumption
    <3>3. x # l
      BY <1>0, <1>8, <3>1, <3>2, RowFacts DEF Unfinished
    <3>4. x \notin again BY <1>3, <2>1, <3>1, <3>3
    <3> QED BY <1>1, <3>1, <3>4
  <2> QED BY <2>1, <2>2 DEF Undisturbed
<1>9. ASSUME NEW x \in Messages, row'[x].group # NoMessage
      PROVE  /\ row'[row'[x].group].status \in Active
             /\ row'[x].steer = "awaiting" => row'[row'[x].group].result = NoResult
             /\ row'[x].status \in Unfinished => row'[row'[x].group].status \in Unfinished
  <2>1. row'[x].group = row[x].group BY <1>1, <1>2
  <2>2. /\ row[x].group \in Messages /\ row[row[x].group].group = NoMessage
        /\ row[row[x].group].status \in Active
    BY <1>9, <2>1, RowFacts
  <2>3. CASE row[x].group = l
    <3>1. row'[l] = Q(l) /\ row'[x] = Q(x) BY <1>0, <1>1, <1>4, <1>5, <2>3
    <3>2. row[x].steer = "awaiting" => row[l].result = NoResult BY <1>9, <2>1, <2>3, RowFacts
    <3> QED BY <1>0, <1>2, <2>1, <2>3, <3>1, <3>2 DEF Active, Unfinished
  <2>4. CASE row[x].group # l
    <3>1. x # l BY <1>0, <1>9, <2>1
    <3>2. row[x].group \notin again
      BY <1>3, <1>0, <2>2, <2>4, QueueAssumption
    <3>3. row'[row[x].group] = row[row[x].group] BY <1>1, <2>2, <3>2
    <3>4. x \notin again BY <1>3, <2>4, <3>1
    <3>5. row'[x] = row[x] BY <1>1, <3>4
    <3> QED BY <1>9, <2>1, <3>3, <3>5, RowFacts
  <2> QED BY <2>3, <2>4
<1>10. Fate' BY <1>0, <1>9 DEF Fate, NoDeafLeader, NoTx
<1> QED BY <1>7, <1>8, <1>10 DEF Benign

LEMMA ClaimBenign ==
  ASSUME RunnerInv, NEW m \in Messages, NEW accepts \in BOOLEAN, CommitClaim(m, accepts)
  PROVE  Benign
<1> DEFINE q == Taken(row[m], tx.owner, accepts)
<1>0. /\ WithStatus({"running"}) = {} /\ row[m].status = "queued" /\ tx' = NoTx
      /\ row' = [row EXCEPT ![m] = q] /\ row \in [Messages -> Row]
  BY DEF CommitClaim, TakeNext, FirstOf, Claimable, WithStatus, RunnerInv, ShapeInv, TypeInv, TypeOK
<1>1. /\ q.status = "running" /\ q.group = row[m].group /\ q.steer = row[m].steer
      /\ q.result = row[m].result /\ q.lineage = row[m].lineage
  BY <1>0 DEF Taken, Row
<1> HIDE DEF q
<1>2. row'[m] = q /\ \A x \in Messages \ {m} : row'[x] = row[x] BY <1>0
<1>3. \A x \in Messages : Mild(row[x], row'[x]) BY <1>0, <1>1, <1>2 DEF Mild, Unmarked, Settled
<1>4. \A l \in Messages : row[l].status # "running" BY <1>0 DEF WithStatus
<1>5. ASSUME NEW x \in Messages, row'[x].group # NoMessage
      PROVE  /\ row'[row'[x].group].status \in Active
             /\ row'[x].steer = "awaiting" => row'[row'[x].group].result = NoResult
             /\ row'[x].status \in Unfinished => row'[row'[x].group].status \in Unfinished
  <2>1. /\ row'[x].group = row[x].group /\ row'[x].steer = row[x].steer
        /\ row'[x].status \in Unfinished => row[x].status \in Unfinished
    BY <1>1, <1>2 DEF Unfinished
  <2>2. row[x].group \in Messages BY <1>5, <2>1, RowFacts
  <2>3. CASE row[x].group = m
    BY <1>0, <1>1, <1>2, <1>5, <2>1, <2>3, RowFacts DEF Unfinished, Active
  <2>4. CASE row[x].group # m
    BY <1>2, <1>5, <2>1, <2>2, <2>4, RowFacts
  <2> QED BY <2>3, <2>4
<1>6. Fate' BY <1>0, <1>5 DEF Fate, NoDeafLeader, NoTx
<1> QED BY <1>3, <1>4, <1>6 DEF Benign

LEMMA LapseBenign == ASSUME RunnerInv, NEW m \in Messages, LeaseLapses(m) PROVE Benign
<1>r. row \in [Messages -> Row] BY DEF RunnerInv, ShapeInv, TypeInv, TypeOK
<1>1. row' = [row EXCEPT ![m] = [row[m] EXCEPT !.live = FALSE]] BY DEF LeaseLapses
<1>2. \A x \in Messages : Plain(row[x], row'[x]) BY <1>1, <1>r, PlainRows
<1>3. \A x \in Messages : row'[x].cancel = row[x].cancel BY <1>1, <1>r DEF Row
<1>4. tx' = tx BY DEF LeaseLapses
<1> QED BY <1>2, <1>3, <1>4, PlainBenign

\* Whatever a user or a lease does, it is benign to the runs.
LEMMA QueueBenign ==
  ASSUME RunnerInv, UserStep \/ LeaseStep PROVE Benign
<1>r. row \in [Messages -> Row] /\ \A x \in Messages : Plain(row[x], row[x])
  BY RowFacts DEF RunnerInv, ShapeInv, TypeInv, TypeOK
<1>s. ASSUME UNCHANGED row, tx'.op # "admit" \/ tx' = tx PROVE Benign
  <2>1. \A x \in Messages : Plain(row[x], row'[x]) BY <1>r, <1>s
  <2> QED BY <1>s, <2>1, PlainBenign
<1>p. ASSUME \A x \in Messages : Plain(row[x], row'[x]), tx'.op # "admit" PROVE Benign
  BY <1>p, PlainBenign
<1>1. CASE CommitAdmit BY <1>1, InsertBenign
<1>2. CASE CommitPrioritize
  <2>1. ASSUME NEW x \in Messages PROVE Plain(row[x], row'[x])
    <3>1. row'[x] \in {[row[x] EXCEPT !.cancel = TRUE, !.auto = TRUE],
                       [row[x] EXCEPT !.seq = Rank(tx.msg, x)], row[x]}
      BY <1>2 DEF CommitPrioritize, Unfinished
    <3>2. Plain(row[x], [row[x] EXCEPT !.cancel = TRUE, !.auto = TRUE]) BY <1>r, PlainRows
    <3>3. Plain(row[x], [row[x] EXCEPT !.seq = Rank(tx.msg, x)]) BY <1>r, PlainRows
    <3> QED BY <1>r, <3>1, <3>2, <3>3
  <2>2. tx' = NoTx BY <1>2 DEF CommitPrioritize
  <2> QED BY <1>p, <2>1, <2>2 DEF NoTx
<1>3. CASE Sweep BY <1>3, SweepBenign
<1>4. ASSUME NEW m \in Messages, BeginAdmit(m) PROVE Benign
  <2>1. ASSUME tx'.leader # NoMessage PROVE MayLead(tx'.leader)
    <3>1. tx'.leader \in SteeringLeaders BY <1>4, <2>1 DEF BeginAdmit, NoTx
    <3> QED BY <3>1 DEF SteeringLeaders, MayLead
  <2>2. UNCHANGED row BY <1>4 DEF BeginAdmit
  <2>3. \A x \in Messages : Plain(row[x], row'[x]) BY <1>r, <2>2
  <2> QED BY <2>1, <2>2, <2>3, PlainBenign
<1>5. ASSUME NEW m \in Messages, Stop(m) PROVE Benign
  <2>1. row' = [row EXCEPT ![m] = [row[m] EXCEPT !.cancel = TRUE, !.auto = FALSE]] /\ tx' = NoTx
    BY <1>5 DEF Stop, Unlocked
  <2>2. \A x \in Messages : Plain(row[x], row'[x]) BY <1>r, <2>1, PlainRows
  <2> QED BY <1>p, <2>1, <2>2 DEF NoTx
<1>6. ASSUME NEW m \in Messages, Edit(m) PROVE Benign
  <2>1. row' = [row EXCEPT ![m] = [row[m] EXCEPT !.text = row[m].text + 1]] /\ tx' = NoTx
    BY <1>6 DEF Edit, Unlocked
  <2>2. \A x \in Messages : Plain(row[x], row'[x]) BY <1>r, <2>1, PlainRows
  <2> QED BY <1>p, <2>1, <2>2 DEF NoTx
<1>7. ASSUME NEW m \in Messages, Withdraw(m) PROVE Benign BY <1>7, WithdrawBenign
<1>8. ASSUME NEW m \in Messages, Retry(m) PROVE Benign BY <1>8, RetryBenign
<1>9. ASSUME NEW m \in Messages, BeginPrioritize(m) PROVE Benign
  BY <1>9, <1>s DEF BeginPrioritize, NoTx
<1>10. CASE BeginContinue \/ CommitContinue
  BY <1>10, <1>s DEF BeginContinue, CommitContinue, NoTx
<1>11. CASE AbortTx \/ CloseSession
  BY <1>11, <1>s DEF AbortTx, CloseSession, NoTx
<1>12. ASSUME NEW o \in Owners, BeginClaim(o) PROVE Benign
  BY <1>12, <1>s DEF BeginClaim, NoTx
<1>13. CASE NothingToClaim BY <1>13, <1>s DEF NothingToClaim, NoTx
<1>14. ASSUME NEW m \in Messages, NEW accepts \in BOOLEAN, CommitClaim(m, accepts) PROVE Benign
  BY <1>14, ClaimBenign
<1>15. ASSUME NEW m \in Messages, Expire(m) PROVE Benign
  BY <1>15, LapseBenign DEF Expire
<1>16. ASSUME NEW m \in Messages, NEW o \in Owners, Reclaim(m, o) PROVE Benign
  <2>1. row' = [row EXCEPT ![m] = Reclaimed(row[m], o)] /\ tx' = NoTx
    BY <1>16 DEF Reclaim, Unlocked
  <2>2. \A x \in Messages : Plain(row[x], row'[x]) BY <1>r, <2>1, PlainRows
  <2> QED BY <1>p, <2>1, <2>2 DEF NoTx
<1>17. UserStep => Benign
  BY <1>1, <1>2, <1>3, <1>4, <1>5, <1>6, <1>7, <1>8, <1>9, <1>10, <1>11 DEF UserStep
<1>18. LeaseStep => Benign
  BY <1>12, <1>13, <1>14, <1>15, <1>16 DEF LeaseStep
<1> QED BY <1>17, <1>18

-----------------------------------------------------------------------------
(* Threads.                                                                 *)

\* What a step leaves to a thread that does not take it.
Grows ==
  /\ fences \subseteq fences'
  /\ \A m \in Messages : evidence[m] # 0 => evidence'[m] # 0
  /\ \A m \in Messages : turns[m].text > 0 => turns'[m] = turns[m]

LEMMA KnowsKept ==
  ASSUME RunnerInv, [StorageNext]_queueVars, Grows, NEW f \in fences, NEW pc,
         Owned(f) => Knows(pc, f), Owned(f) => ~Owned(f)' \/ Undisturbed(f.msg)
  PROVE  Owned(f)' => Knows(pc, f)'
<1> DEFINE l == f.msg
<1> SUFFICES ASSUME Owned(f)' PROVE Knows(pc, f)' OBVIOUS
<1>0. l \in Messages BY DEF RunnerInv, ShapeInv, TypeInv, TypeOK, Fence
<1>1. Owned(f) BY NotRegained DEF RunnerInv
<1>2. Undisturbed(l) /\ Knows(pc, f) BY <1>1
<1>3. row'[l].result = row[l].result /\ row'[l].closed = row[l].closed
      /\ (row[l].cancel => row'[l].cancel)
  BY <1>2 DEF Undisturbed
<1>4. turns[l].text > 0 => turns'[l] = turns[l] BY <1>0 DEF Grows
<1>5. \A x \in Messages : row'[x].group = l =>
        \/ row[x].group = l /\ row'[x].steer = row[x].steer
        \/ ~row[l].closed /\ row'[x].steer = "awaiting"
  BY <1>2 DEF Undisturbed
<1>6. Delivered(l)' \subseteq Delivered(l) BY <1>5 DEF Delivered, Members
<1>7. row[l].closed => Waiting(l)' \subseteq Waiting(l) BY <1>5 DEF Waiting, Members
<1> QED BY <1>2, <1>3, <1>4, <1>6, <1>7 DEF Knows

LEMMA BystanderKept ==
  ASSUME RunnerInv, [StorageNext]_queueVars, Grows, NEW o \in Owners, thread'[o] = thread[o],
         At(o, Holding) /\ Owned(Mine(o)) =>
           (row'[Mine(o).msg].status # "running" \/ Undisturbed(Mine(o).msg)),
         At(o, {"claiming"}) => tx' = tx
  PROVE  HeldBy(o)'
<1>1. CASE At(o, Holding)
  <2>0. /\ Mine(o) \in fences /\ Mine(o).owner = o
        /\ At(o, {"save"}) => Traced(Mine(o).msg)
        /\ Owned(Mine(o)) => Knows(thread[o].pc, Mine(o))
    BY <1>1 DEF RunnerInv, Threads, HeldBy
  <2>1. PICK f \in fences : f = Mine(o) BY <2>0
  <2>2. PICK pc : pc = thread[o].pc OBVIOUS
  <2>3. Owned(f) => ~Owned(f)' \/ Undisturbed(f.msg) BY <1>1, <2>1 DEF Owned
  <2>4. Owned(f)' => Knows(pc, f)' BY <2>0, <2>1, <2>2, <2>3, KnowsKept
  <2>5. Mine(o)' = f /\ thread'[o].pc = pc BY <2>1, <2>2 DEF Mine
  <2>6. f \in fences' /\ f.owner = o BY <2>0, <2>1 DEF Grows
  <2>7. pc = "save" => Traced(f.msg)' BY <1>1, <2>0, <2>1, <2>2, MineType DEF At, Traced, Grows
  <2>8. pc # "claiming" BY <1>1, <2>2 DEF At, Holding
  <2> QED BY <2>4, <2>5, <2>6, <2>7, <2>8 DEF HeldBy, At, Owned, Knows, Traced, Delivered, Waiting, Members
<1>2. CASE ~At(o, Holding)
  BY <1>2 DEF RunnerInv, Threads, HeldBy, At
<1> QED BY <1>1, <1>2

LEMMA FencesGrow == ASSUME [StorageNext]_queueVars PROVE fences \subseteq fences'
BY DEF StorageNext, QueueNext, UserStep, LeaseStep, RunStep, queueVars, CommitAdmit,
       BeginContinue, CommitContinue, CommitPrioritize, AbortTx, CloseSession, Sweep,
       BeginAdmit, Stop, Edit, BeginPrioritize, Withdraw, Retry, NothingToClaim, BeginClaim,
       CommitClaim, TakeNext, Expire, LeaseLapses, Reclaim, OpenIntake, CloseIntake,
       ForceCloseIntake, ClaimMembers, Acknowledge, MarkUnsupported, SteerMembers,
       RecordResult, RecordLineage, Settle, MarkPersistencePending

LEMMA Assembled ==
  ASSUME RunnerInv, [StorageNext]_queueVars, RunnerTypeOK', Threads', Traces', Fate',
         ScrubbedIsSaved'
  PROVE  RunnerInv'
BY StepLeaseInv, StepShapeInv DEF RunnerInv

LEMMA TracesKept ==
  ASSUME RunnerInv, evidence' = evidence,
         \A x \in Messages : Unmarked(row[x], row'[x]),
         \A m \in Messages : \/ turns'[m] = turns[m]
                             \/ turns'[m].text > 0 /\ (turns'[m].task # 0 => Traced(m))
  PROVE  Traces'
<1>2. \A m \in Messages : row[m] \in Row /\ (Traced(m)' <=> Traced(m))
  BY DEF RunnerInv, ShapeInv, TypeInv, TypeOK, Traced
<1>3. ASSUME NEW m \in Messages, Traced(m)'
      PROVE  row'[m].status = "deleted" \/ (row'[m].status # "absent" /\ row'[m].lineage)
  <2>1. \/ row[m].status = "deleted"
        \/ row[m].status # "absent" /\ row[m].lineage
    BY <1>2, <1>3 DEF RunnerInv, Traces
  <2> QED BY <1>2, <2>1 DEF Unmarked
<1>4. EvidenceOnce' BY DEF RunnerInv, Traces, EvidenceOnce
<1>5. \A m \in Messages : row'[m].lineage \/ turns'[m].task # 0 => Traced(m)'
  BY DEF RunnerInv, Traces, Traced, Unmarked
<1>6. \A m \in Messages : turns'[m] = NoTurn \/ turns'[m].text > 0
  BY DEF RunnerInv, Traces
<1> QED BY <1>3, <1>4, <1>5, <1>6 DEF Traces

LEMMA ScrubbedKept ==
  ASSUME RunnerInv, Grows,
         \A x \in Messages : row'[x].status \in Settled =>
            \/ row[x].status \in Settled
            \/ turns'[x].text > 0
            \/ \E l \in Messages : turns'[l].text > 0 /\ x \in turns'[l].steered
  PROVE  ScrubbedIsSaved'
<1> SUFFICES ASSUME NEW x \in Messages, row'[x].status \in Settled
             PROVE  turns'[x] # NoTurn \/ \E l \in Messages : x \in turns'[l].steered
  BY DEF ScrubbedIsSaved, WithStatus, Settled, Shown
<1>1. \A m \in Messages : turns[m] # NoTurn => turns[m].text > 0 /\ turns'[m] = turns[m]
  BY DEF RunnerInv, Traces, Grows
<1>2. NoTurn.text = 0 /\ NoTurn.steered = {} BY DEF NoTurn
<1>3. CASE row[x].status \in Settled
  <2>1. turns[x] # NoTurn \/ \E l \in Messages : x \in turns[l].steered
    BY <1>3 DEF RunnerInv, ScrubbedIsSaved, WithStatus, Settled, Shown
  <2> QED BY <1>1, <1>2, <2>1
<1> QED BY <1>2, <1>3

\* A step of a user or of a lease.
LEMMA BenignStep ==
  ASSUME RunnerInv, [StorageNext]_queueVars, Benign, UNCHANGED <<turns, evidence, failed>>,
         thread' \in [Owners -> Thread],
         \A o \in Owners : \/ HeldBy(o)'
                           \/ thread'[o] = thread[o] /\ (At(o, {"claiming"}) => tx' = tx)
  PROVE  RunnerInv'
<1>1. Grows BY FencesGrow DEF Grows
<1>2. ASSUME NEW o \in Owners, thread'[o] = thread[o], At(o, {"claiming"}) => tx' = tx
      PROVE  HeldBy(o)'
  <2>1. ASSUME At(o, Holding), Owned(Mine(o))
        PROVE  row'[Mine(o).msg].status # "running" \/ Undisturbed(Mine(o).msg)
    BY <2>1, MineType DEF Benign, Owned
  <2> QED BY <1>1, <1>2, <2>1, BystanderKept
<1>3. Threads' BY <1>2 DEF Threads
<1>4. Traces' BY TracesKept DEF Benign, Mild
<1>5. ScrubbedIsSaved' BY <1>1, ScrubbedKept DEF Benign, Mild
<1>6. RunnerTypeOK' BY DEF RunnerInv, RunnerTypeOK, Thread
<1> QED BY <1>3, <1>4, <1>5, <1>6, Assembled DEF Benign

\* A step of threads that leaves the database alone.
LEMMA QuietStep ==
  ASSUME RunnerInv, UNCHANGED queueVars, UNCHANGED <<turns, evidence>>,
         failed' = failed \/ failed' \in [DOMAIN Risk -> Nat],
         thread' \in [Owners -> Thread],
         \A q \in Owners : thread'[q] = thread[q] \/ HeldBy(q)'
  PROVE  RunnerInv'
<1>u. /\ row' = row /\ tx' = tx /\ fences' = fences /\ turns' = turns /\ evidence' = evidence
  BY DEF queueVars
<1>k. [StorageNext]_queueVars /\ Grows /\ \A l \in Messages : Undisturbed(l)
  BY <1>u DEF Grows, Undisturbed
<1>1. ASSUME NEW q \in Owners, thread'[q] = thread[q] PROVE HeldBy(q)'
  BY <1>u, <1>k, <1>1, MineType, BystanderKept
<1>2. Threads' BY <1>1 DEF Threads
<1>3. Traces' BY <1>u DEF RunnerInv, Traces, Traced, EvidenceOnce
<1>4. Fate' BY <1>u DEF RunnerInv, Fate, NoDeafLeader, MayLead
<1>5. ScrubbedIsSaved' BY <1>u DEF RunnerInv, ScrubbedIsSaved, WithStatus, Shown
<1>6. RunnerTypeOK' BY DEF RunnerInv, RunnerTypeOK, Thread
<1> QED BY <1>k, <1>2, <1>3, <1>4, <1>5, <1>6, Assembled

LEMMA MoveStep ==
  ASSUME RunnerInv, UNCHANGED queueVars, UNCHANGED <<turns, evidence>>,
         failed' = failed \/ failed' \in [DOMAIN Risk -> Nat],
         NEW o \in Owners, NEW p \in Pcs, Goto(o, p),
         \/ p \in {"idle", "polled"}
         \/ /\ p \in Holding /\ At(o, Holding)
            /\ p = "save" => Traced(Mine(o).msg)
            /\ Owned(Mine(o)) => Knows(p, Mine(o))
  PROVE  RunnerInv'
<1>u. /\ row' = row /\ tx' = tx /\ fences' = fences /\ turns' = turns /\ evidence' = evidence
  BY DEF queueVars
<1>g. /\ thread' \in [Owners -> Thread]
      /\ \A q \in Owners \ {o} : thread'[q] = thread[q]
      /\ thread'[o].pc = p /\ (p # "idle" => thread'[o].fence = thread[o].fence)
  BY GotoThread DEF RunnerInv
<1>k. [StorageNext]_queueVars /\ Grows /\ \A l \in Messages : Undisturbed(l)
  BY <1>u DEF Grows, Undisturbed
<1>1. HeldBy(o)'
  <2>1. CASE p \in {"idle", "polled"} BY <1>g, <2>1 DEF HeldBy, At, Holding
  <2>2. CASE /\ p \in Holding /\ At(o, Holding)
             /\ p = "save" => Traced(Mine(o).msg)
             /\ Owned(Mine(o)) => Knows(p, Mine(o))
    <3>1. PICK f \in fences : f = Mine(o) BY <2>2, MineType
    <3>2. f.msg \in Messages /\ f.owner = o BY <2>2, <3>1, MineType
    <3>3. Owned(f)' => Knows(p, f)' BY <1>k, <2>2, <3>1, <3>2, KnowsKept
    <3>4. Mine(o)' = f BY <1>g, <2>2, <3>1 DEF Mine, Holding
    <3>5. p = "save" => Traced(f.msg)' BY <1>u, <2>2, <3>1 DEF Traced
    <3>6. p # "claiming" /\ f \in fences' BY <1>u, <2>2 DEF Holding
    <3> QED BY <1>g, <3>2, <3>3, <3>4, <3>5, <3>6
            DEF HeldBy, At, Owned, Knows, Traced, Delivered, Waiting, Members
  <2> QED BY <2>1, <2>2
<1> QED BY <1>g, <1>1, QuietStep

\* A fenced operation of one thread.
LEMMA FencedStep ==
  ASSUME RunnerInv, NEW o \in Owners, At(o, Holding), RunStep(Mine(o)), Owned(Mine(o)),
         thread' \in [Owners -> Thread], \A q \in Owners \ {o} : thread'[q] = thread[q],
         HeldBy(o)', UNCHANGED <<turns, failed>>, evidence' \in [Messages -> Nat],
         \A m \in Messages : evidence[m] # 0 => evidence'[m] # 0, Traces',
         \A x \in Messages : row'[x].status \in Settled =>
            \/ row[x].status \in Settled
            \/ turns[x].text > 0
            \/ \E l \in Messages : turns[l].text > 0 /\ x \in turns[l].steered,
         Fate'
  PROVE  RunnerInv'
<1>n. Mine(o) \in fences BY MineType
<1>s. [StorageNext]_queueVars BY <1>n DEF StorageNext, QueueNext
<1>1. Grows BY <1>s, FencesGrow DEF Grows
<1>2. ASSUME NEW q \in Owners \ {o} PROVE HeldBy(q)'
  <2>1. ~(At(q, Holding) /\ Owned(Mine(q)))
    BY MineType, OneHolder DEF RunnerInv, SingleAuthority
  <2>2. tx' = tx
    BY DEF RunStep, OpenIntake, CloseIntake, ForceCloseIntake, ClaimMembers, Acknowledge,
           MarkUnsupported, SteerMembers, RecordResult, RecordLineage, Settle,
           MarkPersistencePending
  <2> QED BY <1>s, <1>1, <2>1, <2>2, BystanderKept
<1>3. Threads' BY <1>2 DEF Threads
<1>5. ScrubbedIsSaved' BY <1>1, ScrubbedKept
<1>6. RunnerTypeOK' BY DEF RunnerInv, RunnerTypeOK, Thread
<1> QED BY <1>s, <1>3, <1>5, <1>6, Assembled

\* The turn of a run is written, or found written.
LEMMA TurnStep ==
  ASSUME RunnerInv, UNCHANGED queueVars, UNCHANGED <<evidence, failed>>,
         NEW o \in Owners, At(o, Holding), Owned(Mine(o)),
         NEW turn \in [task : Nat, text : Nat, reads : Nat, steered : SUBSET Messages],
         turn.text > 0, turn.task # 0 => Traced(Mine(o).msg),
         turn.steered = Delivered(Mine(o).msg), SaveTurn(Mine(o), turn),
         turns[Mine(o).msg] = NoTurn \/ turns[Mine(o).msg].steered = turn.steered,
         NEW p \in {"finish", "cancelFinal"}, Goto(o, p),
         p = "finish" => row[Mine(o).msg].result # NoResult,
         p = "cancelFinal" => row[Mine(o).msg].cancel
  PROVE  RunnerInv'
<1>u. /\ row' = row /\ tx' = tx /\ fences' = fences /\ evidence' = evidence
  BY DEF queueVars
<1>g. /\ thread' \in [Owners -> Thread]
      /\ \A q \in Owners \ {o} : thread'[q] = thread[q]
      /\ thread'[o].pc = p /\ thread'[o].fence = thread[o].fence
  BY GotoThread DEF RunnerInv, Pcs, Persisting, Stopping
<1>p. PICK f \in fences : f = Mine(o) BY MineType
<1>m. f.msg \in Messages /\ f.owner = o BY <1>p, MineType
<1>t. /\ turns'[f.msg].text > 0 /\ turns'[f.msg].steered = Delivered(f.msg)
      /\ turns' \in [Messages -> [task : Nat, text : Nat, reads : Nat, steered : SUBSET Messages]]
      /\ \A m \in Messages : \/ turns'[m] = turns[m]
                             \/ turns'[m].text > 0 /\ (turns'[m].task # 0 => Traced(m))
      /\ \A m \in Messages : turns[m].text > 0 => turns'[m] = turns[m]
  <2>1. /\ turns' = [turns EXCEPT ![f.msg] = IF turns[f.msg] = NoTurn THEN turn ELSE turns[f.msg]]
        /\ turns \in [Messages -> [task : Nat, text : Nat, reads : Nat, steered : SUBSET Messages]]
    BY <1>p DEF SaveTurn, RunnerInv, RunnerTypeOK
  <2>2. turns[f.msg] = NoTurn \/ turns[f.msg].text > 0 BY <1>m DEF RunnerInv, Traces
  <2>3. NoTurn.text = 0 BY DEF NoTurn
  <2> QED BY <1>p, <1>m, <2>1, <2>2, <2>3
<1>k. [StorageNext]_queueVars /\ Grows /\ \A l \in Messages : Undisturbed(l)
  BY <1>u, <1>t DEF Grows, Undisturbed
<1>1. ASSUME NEW q \in Owners \ {o} PROVE HeldBy(q)'
  BY <1>u, <1>g, <1>k, MineType, BystanderKept
<1>2. HeldBy(o)'
  <2>1. Mine(o)' = f BY <1>g, <1>p DEF Mine
  <2>2. Knows(p, f)'
    BY <1>u, <1>p, <1>t DEF Knows, Delivered, Members
  <2> QED BY <1>u, <1>g, <1>m, <2>1, <2>2
          DEF HeldBy, At, Owned, Knows, Traced, Delivered, Waiting, Members
<1>3. Threads' BY <1>1, <1>2 DEF Threads
<1>4. Traces' BY <1>u, <1>t, TracesKept DEF Unmarked
<1>5. Fate' BY <1>u DEF RunnerInv, Fate, NoDeafLeader, MayLead
<1>6. ScrubbedIsSaved' BY <1>u, <1>k, ScrubbedKept
<1>7. RunnerTypeOK' BY <1>g, <1>t, <1>u DEF RunnerInv, RunnerTypeOK, Thread
<1> QED BY <1>k, <1>3, <1>4, <1>5, <1>6, <1>7, Assembled

-----------------------------------------------------------------------------
(* The steps.                                                               *)

LEMMA UserRuns == RunnerInv /\ User => RunnerInv'
<1> SUFFICES ASSUME RunnerInv, User PROVE RunnerInv' OBVIOUS
<1>1. UserStep \/ LeaseStep BY DEF User, UserStep, LeaseStep
<1>2. UNCHANGED <<thread, turns, evidence, failed>> BY DEF User, History
<1>3. ASSUME NEW o \in Owners, At(o, {"claiming"}) PROVE tx' = tx
  <2>1. tx.op = "claim" BY <1>3 DEF RunnerInv, Threads, HeldBy
  <2>2. ~Unlocked BY <2>1 DEF Unlocked, NoTx
  <2> QED BY <2>1, <2>2
          DEF User, CommitAdmit, BeginContinue, CommitContinue, CommitPrioritize, CloseSession,
              Sweep, BeginAdmit, Stop, Edit, BeginPrioritize, Withdraw, Retry, Expire, LeaseLapses
<1>4. [StorageNext]_queueVars BY <1>1 DEF StorageNext, QueueNext
<1>5. thread' \in [Owners -> Thread] BY <1>2 DEF RunnerInv, RunnerTypeOK, Thread
<1> QED BY <1>1, <1>2, <1>3, <1>4, <1>5, QueueBenign, BenignStep

LEMMA OrphanRuns == ASSUME RunnerInv, NEW m \in Messages, Orphaned(m) PROVE RunnerInv'
<1>1. LeaseLapses(m) /\ UNCHANGED <<spent, thread, turns, evidence, failed>>
  BY DEF Orphaned, History
<1>2. [StorageNext]_queueVars BY <1>1 DEF StorageNext
<1>3. thread' \in [Owners -> Thread] BY <1>1 DEF RunnerInv, RunnerTypeOK, Thread
<1>4. tx' = tx BY <1>1 DEF LeaseLapses
<1> QED BY <1>1, <1>2, <1>3, <1>4, LapseBenign, BenignStep

LEMMA AbortRuns == RunnerInv /\ Abort => RunnerInv'
<1> SUFFICES ASSUME RunnerInv, Abort PROVE RunnerInv' OBVIOUS
<1>1. UserStep /\ UNCHANGED <<turns, evidence, failed>> /\ tx' = NoTx
  BY DEF Abort, UserStep, AbortTx, History
<1>2. [StorageNext]_queueVars BY <1>1 DEF StorageNext, QueueNext
<1>3. CASE tx.op = "claim"
  <2>1. PICK o \in Owners : o = tx.owner BY <1>3 DEF RunnerInv, ShapeInv, TypeInv, TxKnown
  <2>2. Goto(o, "idle") BY <1>3, <2>1 DEF Abort
  <2>3. "idle" \in Pcs BY DEF Pcs
  <2>4. /\ thread' \in [Owners -> Thread] /\ thread'[o].pc = "idle"
        /\ \A q \in Owners \ {o} : thread'[q] = thread[q]
    BY <2>2, <2>3, GotoThread DEF RunnerInv
  <2>6. ASSUME NEW q \in Owners, q # o
        PROVE  thread'[q] = thread[q] /\ (At(q, {"claiming"}) => tx' = tx)
    BY <2>1, <2>4, <2>6 DEF RunnerInv, Threads, HeldBy
  <2>7. ASSUME NEW q \in Owners
        PROVE  HeldBy(q)' \/ (thread'[q] = thread[q] /\ (At(q, {"claiming"}) => tx' = tx))
    <3>1. CASE q = o
      <4>1. thread'[q].pc = "idle" BY <2>4, <3>1
      <4> QED BY <4>1 DEF HeldBy, At, Holding
    <3> QED BY <2>6, <3>1
  <2>8. Benign BY <1>1, QueueBenign
  <2> QED BY <1>1, <1>2, <2>4, <2>7, <2>8, BenignStep
<1>4. CASE tx.op # "claim"
  <2>1. thread' = thread BY <1>4 DEF Abort
  <2>2. \A q \in Owners : ~At(q, {"claiming"}) BY <1>4 DEF RunnerInv, Threads, HeldBy
  <2>3. thread' \in [Owners -> Thread] BY <2>1 DEF RunnerInv, RunnerTypeOK, Thread
  <2> QED BY <1>1, <1>2, <2>1, <2>2, <2>3, QueueBenign, BenignStep
<1> QED BY <1>3, <1>4

\* A thread goes where it needs to know nothing.
LEMMA LeaveStep ==
  ASSUME RunnerInv, UNCHANGED queueVars, UNCHANGED <<turns, evidence>>,
         failed' = failed \/ failed' \in [DOMAIN Risk -> Nat],
         NEW o \in Owners, NEW p, Goto(o, p),
         p \in {"idle", "polled"} \/ (p \in Retaining \cup {"pending", "cancelSave"} /\ At(o, Holding))
  PROVE  RunnerInv'
<1>1. p \in Pcs BY DEF Pcs, Stopping
<1>2. CASE p \in {"idle", "polled"} BY <1>1, <1>2, MoveStep
<1>3. CASE p \in Retaining \cup {"pending", "cancelSave"} /\ At(o, Holding)
  <2>1. p \in Holding /\ p # "save" BY <1>1, <1>3 DEF Holding, Retaining
  <2>2. Knows(p, Mine(o)) BY <1>3 DEF Knows, Retaining
  <2> QED BY <1>1, <1>3, <2>1, <2>2, MoveStep
<1> QED BY <1>2, <1>3

LEMMA FailType ==
  ASSUME RunnerInv, NEW k, Fail(k)
  PROVE  failed' \in [DOMAIN Risk -> Nat] /\ UNCHANGED queueVars /\ UNCHANGED <<turns, evidence>>
<1>1. failed \in [DOMAIN Risk -> Nat] BY DEF RunnerInv, RunnerTypeOK
<1>2. failed' = [failed EXCEPT ![k] = failed[k] + 1] BY DEF Fail
<1>3. failed' = [j \in DOMAIN Risk |-> IF j = k THEN failed[j] + 1 ELSE failed[j]]
  BY <1>1, <1>2, Zenon
<1>4. failed' \in [DOMAIN Risk -> Nat] BY <1>1, <1>3
<1> QED BY <1>4 DEF Fail

LEMMA NoneClaims ==
  ASSUME RunnerInv, Unlocked, NEW o \in Owners PROVE ~At(o, {"claiming"})
BY DEF RunnerInv, Threads, HeldBy, Unlocked, NoTx

LEMMA PollRuns == ASSUME RunnerInv, NEW o \in Owners, Poll(o) PROVE RunnerInv'
BY LeaveStep DEF Poll, OnlyGoto

LEMMA StartClaimRuns == ASSUME RunnerInv, NEW o \in Owners, StartClaim(o) PROVE RunnerInv'
<1>1. CASE BeginClaim(o) /\ Goto(o, "claiming") /\ History
  <2>1. /\ thread' \in [Owners -> Thread] /\ thread'[o].pc = "claiming"
        /\ \A q \in Owners \ {o} : thread'[q] = thread[q]
    BY <1>1, GotoThread DEF RunnerInv, Pcs
  <2>2. tx'.op = "claim" /\ tx'.owner = o BY <1>1 DEF BeginClaim, NoTx
  <2>3. HeldBy(o)' BY <2>1, <2>2 DEF HeldBy, At, Holding
  <2>4. ASSUME NEW q \in Owners
        PROVE  HeldBy(q)' \/ (thread'[q] = thread[q] /\ (At(q, {"claiming"}) => tx' = tx))
    BY <1>1, <2>1, <2>3, NoneClaims DEF BeginClaim
  <2>5. LeaseStep BY <1>1 DEF LeaseStep
  <2>6. [StorageNext]_queueVars /\ Benign BY <2>5, QueueBenign DEF StorageNext, QueueNext
  <2> QED BY <1>1, <2>1, <2>4, <2>6, BenignStep DEF History
<1>2. CASE OnlyGoto(o, "idle") BY <1>2, LeaveStep DEF OnlyGoto
<1> QED BY <1>1, <1>2 DEF StartClaim

LEMMA ClaimRuns == ASSUME RunnerInv, NEW o \in Owners, Claim(o) PROVE RunnerInv'
<1>1. At(o, {"claiming"}) /\ History BY DEF Claim
<1>2. tx.op = "claim" /\ tx.owner = o BY <1>1 DEF RunnerInv, Threads, HeldBy
<1>3. ASSUME LeaseStep, thread' \in [Owners -> Thread], HeldBy(o)',
             \A q \in Owners \ {o} : thread'[q] = thread[q]
      PROVE  RunnerInv'
  <2>1. [StorageNext]_queueVars /\ Benign BY <1>3, QueueBenign DEF StorageNext, QueueNext
  <2>2. ASSUME NEW q \in Owners
        PROVE  HeldBy(q)' \/ (thread'[q] = thread[q] /\ (At(q, {"claiming"}) => tx' = tx))
    BY <1>2, <1>3 DEF RunnerInv, Threads, HeldBy
  <2> QED BY <1>1, <1>3, <2>1, <2>2, BenignStep DEF History
<1>4. ASSUME NEW m \in Messages, CommitClaim(m, AcceptsSteering),
             thread' = [thread EXCEPT ![o] = [pc |-> "claimed", fence |-> Lease(m, o), batch |-> {}]]
      PROVE  RunnerInv'
  <2>1. LeaseStep BY <1>4, RunnerAssumption DEF LeaseStep
  <2>2. PICK f \in fences' : f = Lease(m, o) BY <1>2, <1>4 DEF CommitClaim, TakeNext
  <2>3. [pc |-> "claimed", fence |-> f, batch |-> {}] \in Thread /\ f.owner = o
    BY <2>2, LeaseType DEF Thread, Pcs, Lease, RunnerInv, ShapeInv, TypeInv
  <2>4. /\ thread' \in [Owners -> Thread] /\ thread'[o].pc = "claimed" /\ thread'[o].fence = f
        /\ \A q \in Owners \ {o} : thread'[q] = thread[q]
    BY <1>4, <2>2, <2>3 DEF RunnerInv, RunnerTypeOK, Thread
  <2>5. HeldBy(o)'
    <3>1. Mine(o)' = f BY <2>4 DEF Mine
    <3> QED BY <2>3, <2>4, <3>1 DEF HeldBy, At, Knows
  <2> QED BY <1>3, <2>1, <2>4, <2>5
<1>5. CASE NothingToClaim /\ Goto(o, "idle")
  <2>1. /\ thread' \in [Owners -> Thread] /\ thread'[o].pc = "idle"
        /\ \A q \in Owners \ {o} : thread'[q] = thread[q]
    BY <1>5, GotoThread DEF RunnerInv, Pcs
  <2>2. HeldBy(o)' BY <2>1 DEF HeldBy, At, Holding
  <2> QED BY <1>3, <1>5, <2>1, <2>2 DEF LeaseStep
<1> QED BY <1>4, <1>5 DEF Claim

LEMMA RecoverRuns == ASSUME RunnerInv, NEW o \in Owners, Recover(o) PROVE RunnerInv'
<1>1. PICK m \in Messages :
        /\ Reclaim(m, o)
        /\ thread' = [thread EXCEPT ![o] =
             [pc |-> IF row[m].result # NoResult THEN "lineage" ELSE "interrupting",
              fence |-> [Lease(m, o) EXCEPT !.run = row[m].run], batch |-> {}]]
  BY DEF Recover
<1> DEFINE p == IF row[m].result # NoResult THEN "lineage" ELSE "interrupting"
<1>2. PICK f \in fences' : f = [Lease(m, o) EXCEPT !.run = row[m].run] BY <1>1 DEF Reclaim
<1>3. [pc |-> p, fence |-> f, batch |-> {}] \in Thread /\ f.owner = o /\ f.msg = m
  BY <1>2, LeaseType DEF Thread, Pcs, Persisting, Retaining, Lease, RunnerInv, ShapeInv, TypeInv
<1>4. /\ thread' \in [Owners -> Thread] /\ thread'[o].pc = p /\ thread'[o].fence = f
      /\ \A q \in Owners \ {o} : thread'[q] = thread[q]
  BY <1>1, <1>2, <1>3 DEF RunnerInv, RunnerTypeOK, Thread
<1>5. row'[m].result = row[m].result BY <1>1 DEF Reclaim, Reclaimed, RunnerInv, ShapeInv, TypeInv, TypeOK, Row
<1>6. HeldBy(o)'
  <2>1. Mine(o)' = f BY <1>4 DEF Mine
  <2>2. p = "lineage" => row'[f.msg].result # NoResult BY <1>3, <1>5
  <2>3. p \in {"lineage", "interrupting"} OBVIOUS
  <2> HIDE DEF p
  <2> QED BY <1>3, <1>4, <2>1, <2>2, <2>3 DEF HeldBy, At, Knows
<1>7. ASSUME NEW q \in Owners
      PROVE  HeldBy(q)' \/ (thread'[q] = thread[q] /\ (At(q, {"claiming"}) => tx' = tx))
  BY <1>1, <1>4, <1>6, NoneClaims DEF Reclaim
<1>8. LeaseStep BY <1>1 DEF LeaseStep
<1>9. [StorageNext]_queueVars /\ Benign BY <1>8, QueueBenign DEF StorageNext, QueueNext
<1>10. UNCHANGED <<turns, evidence, failed>> BY DEF Recover, History
<1> QED BY <1>4, <1>7, <1>9, <1>10, BenignStep

LEMMA ReplayRuns == ASSUME RunnerInv, NEW o \in Owners, Replay(o) PROVE RunnerInv'
<1>1. At(o, Holding) /\ "lineage" \in Holding /\ "lineage" \in Pcs
  BY DEF Replay, At, Holding, Pcs, Persisting
<1>2. Knows("lineage", Mine(o)) BY DEF Replay, Knows
<1>3. UNCHANGED queueVars /\ UNCHANGED <<turns, evidence>> /\ failed' = failed /\ Goto(o, "lineage")
  BY DEF Replay, OnlyGoto
<1> QED BY <1>1, <1>2, <1>3, MoveStep

LEMMA UnwindRuns ==
  ASSUME RunnerInv, NEW o \in Owners, Unwind(o) \/ Withdrawn(o) PROVE RunnerInv'
<1>1. At(o, Holding) BY DEF Unwind, Withdrawn, At, Holding, Pcs
<1> QED BY <1>1, LeaveStep DEF Unwind, Withdrawn, OnlyGoto, Retaining

LEMMA FailureRuns ==
  ASSUME RunnerInv, NEW o \in Owners, SourcesChanged(o) \/ Fault(o) \/ Shutdown(o)
  PROVE  RunnerInv'
<1>f. /\ UNCHANGED queueVars /\ UNCHANGED <<turns, evidence>>
      /\ failed' \in [DOMAIN Risk -> Nat]
  BY FailType DEF SourcesChanged, Fault, Shutdown
<1>1. ASSUME NEW p, Goto(o, p),
             p = "idle" \/ (p \in Retaining \cup {"pending"} /\ At(o, Holding))
      PROVE  RunnerInv'
  BY <1>1, <1>f, LeaveStep
<1>2. CASE SourcesChanged(o)
  <2>1. At(o, Holding) /\ "failing" \in Retaining
    BY <1>2 DEF SourcesChanged, At, Holding, Pcs, Persisting, Retaining
  <2> QED BY <1>1, <1>2, <2>1 DEF SourcesChanged
<1>3. CASE Shutdown(o)
  <2>1. At(o, Holding) /\ {"interrupting", "interruptingBare"} \subseteq Retaining
    BY <1>3 DEF Shutdown, At, Holding, Pcs, Retaining
  <2> QED BY <1>1, <1>3, <2>1 DEF Shutdown
<1>4. CASE Fault(o)
  <2>1. PICK p : /\ Goto(o, p)
                 /\ \/ p = "idle"
                    \/ /\ p \in {"failing", "failingBare", "pending"}
                       /\ At(o, {"claimed", "working", "pending"} \cup Persisting)
    BY <1>4 DEF Fault, At
  <2>2. p # "idle" => p \in Retaining \cup {"pending"} /\ At(o, Holding)
    BY <2>1 DEF Retaining, At, Holding, Pcs, Persisting
  <2> QED BY <1>1, <2>1, <2>2
<1> QED BY <1>2, <1>3, <1>4

LEMMA CrashRuns == ASSUME RunnerInv, NEW w \in Workers, Crash(w) PROVE RunnerInv'
<1>1. /\ UNCHANGED queueVars /\ UNCHANGED <<turns, evidence>>
      /\ failed' \in [DOMAIN Risk -> Nat]
  BY FailType DEF Crash
<1>2. thread' = [thread EXCEPT ![Job(w)] = Idle, ![Recovery(w)] = Idle] BY DEF Crash
<1>3. thread \in [Owners -> Thread] /\ Idle \in Thread /\ Idle.pc = "idle"
  BY DEF RunnerInv, RunnerTypeOK, Thread, Idle, Pcs
<1>4. thread' \in [Owners -> Thread] /\ \A q \in Owners : thread'[q] = thread[q] \/ thread'[q] = Idle
  BY <1>2, <1>3
<1>5. ASSUME NEW q \in Owners, thread'[q] = Idle PROVE HeldBy(q)'
  <2>1. thread'[q].pc = "idle" BY <1>3, <1>5
  <2> QED BY <2>1 DEF HeldBy, At, Holding
<1> QED BY <1>1, <1>4, <1>5, QuietStep

\* A row of which a run changed only the intake, or that a run let go or moved on.
Level(r, q) ==
  /\ q.status = r.status /\ q.result = r.result /\ q.lineage = r.lineage
  /\ q.group \in {r.group, NoMessage}
  /\ q.steer = r.steer \/ q.steer # "awaiting"

LEMMA LevelRows ==
  ASSUME NEW r \in Row
  PROVE  /\ Level(r, r) /\ Level(r, [r EXCEPT !.group = NoMessage])
         /\ \A b : Level(r, [r EXCEPT !.closed = b])
         /\ \A s : s # "awaiting" => Level(r, [r EXCEPT !.steer = s])
BY DEF Level, Row

LEMMA LevelStep ==
  ASSUME RunnerInv, NEW o \in Owners, At(o, Holding), RunStep(Mine(o)), Owned(Mine(o)), Unlocked,
         tx' = tx, thread' \in [Owners -> Thread], \A q \in Owners \ {o} : thread'[q] = thread[q],
         HeldBy(o)', History, \A x \in Messages : Level(row[x], row'[x])
  PROVE  RunnerInv'
<1>1. ASSUME NEW m \in Messages, row'[m].group # NoMessage
      PROVE  /\ row'[row'[m].group].status \in Active
             /\ row'[m].steer = "awaiting" => row'[row'[m].group].result = NoResult
             /\ row'[m].status \in Unfinished => row'[row'[m].group].status \in Unfinished
  <2>1. /\ row'[m].group = row[m].group /\ row'[m].status = row[m].status
        /\ row'[m].steer = "awaiting" => row[m].steer = "awaiting"
    BY <1>1 DEF Level
  <2> QED BY <1>1, <2>1, RowFacts DEF Level
<1>2. Fate' BY <1>1 DEF Fate, NoDeafLeader, Unlocked, NoTx
<1>3. UNCHANGED <<turns, failed, evidence>> /\ evidence' \in [Messages -> Nat]
  BY DEF History, RunnerInv, RunnerTypeOK
<1>4. \A x \in Messages : Unmarked(row[x], row'[x]) BY DEF Level, Unmarked
<1>5. Traces' BY <1>3, <1>4, TracesKept
<1>6. \A x \in Messages : row'[x].status \in Settled => row[x].status \in Settled BY DEF Level
<1> QED BY <1>2, <1>3, <1>5, <1>6, FencedStep

\* A fence in force is on a task message of its own.
LEMMA RunFacts ==
  ASSUME RunnerInv, NEW o \in Owners, At(o, Holding), Owned(Mine(o))
  PROVE  /\ row[Mine(o).msg].group = NoMessage /\ row[Mine(o).msg].text > 0
         /\ row[Mine(o).msg].status = "running"
         /\ row \in [Messages -> Row] /\ Mine(o).msg \in Messages
         /\ Knows(thread[o].pc, Mine(o))
<1>1. Mine(o).msg \in Messages /\ row[Mine(o).msg].status = "running" BY MineType DEF Owned
<1>2. RowShape(row[Mine(o).msg]) BY <1>1, RowFacts
<1> QED BY <1>1, <1>2 DEF RowShape, Waits, Unfinished, Active, RunnerInv, ShapeInv, TypeInv, TypeOK,
        Threads, HeldBy

LEMMA SelectRuns == ASSUME RunnerInv, NEW o \in Owners, Select(o) PROVE RunnerInv'
<1> DEFINE f == Mine(o)
<1>1. At(o, Holding) BY DEF Select, At, Holding, Pcs
<1>2. Owned(f) /\ Unlocked /\ tx' = tx /\ History /\ fences' = fences
  BY DEF Select, OpenIntake, ForceCloseIntake, Fenced
<1>3. RunStep(f) BY DEF Select, RunStep
<1>4. /\ thread' \in [Owners -> Thread] /\ thread'[o].pc = "working"
      /\ thread'[o].fence = thread[o].fence
      /\ \A q \in Owners \ {o} : thread'[q] = thread[q]
  BY GotoThread DEF Select, RunnerInv, Pcs
<1>f. f \in fences /\ f.owner = o /\ f.msg \in Messages BY <1>1, MineType
<1>r. row[f.msg].group = NoMessage /\ row \in [Messages -> Row] BY <1>1, <1>2, RunFacts
<1>5. CASE OpenIntake(f)
  <2>1. row' = [row EXCEPT ![f.msg] = [row[f.msg] EXCEPT !.closed = FALSE]]
    BY <1>5 DEF OpenIntake
  <2>2. \A x \in Messages : Level(row[x], row'[x]) BY <1>r, <1>f, <2>1, LevelRows
  <2>3. ~row'[f.msg].closed BY <1>r, <1>f, <2>1 DEF Row
  <2>4. HeldBy(o)'
    <3>1. Mine(o)' = f BY <1>4 DEF Mine
    <3> QED BY <1>2, <1>4, <1>f, <2>3, <3>1 DEF HeldBy, At, Knows
  <2> QED BY <1>1, <1>2, <1>3, <1>4, <2>2, <2>4, LevelStep
<1>6. CASE ForceCloseIntake(f)
  <2>1. \A x \in Messages : row'[x] =
           IF x = f.msg THEN [row[x] EXCEPT !.closed = TRUE]
           ELSE IF x \in Waiting(f.msg) THEN [row[x] EXCEPT !.group = NoMessage] ELSE row[x]
    BY <1>6 DEF ForceCloseIntake
  <2>2. ASSUME NEW x \in Messages PROVE Level(row[x], row'[x])
    <3>1. row[x] \in Row BY <1>r
    <3>2. /\ Level(row[x], row[x]) /\ Level(row[x], [row[x] EXCEPT !.closed = TRUE])
          /\ Level(row[x], [row[x] EXCEPT !.group = NoMessage])
      BY <3>1, LevelRows
    <3> QED BY <2>1, <3>2
  <2>3. ASSUME NEW x \in Messages, row'[x].group = f.msg PROVE row'[x].steer # "awaiting"
    <3>1. /\ [row[x] EXCEPT !.closed = TRUE].group = row[x].group
          /\ [row[x] EXCEPT !.group = NoMessage].group = NoMessage
      BY <1>r DEF Row
    <3>2. f.msg # NoMessage BY <1>f, QueueAssumption
    <3>3. x # f.msg /\ x \notin Waiting(f.msg) BY <1>r, <2>1, <2>3, <3>1, <3>2
    <3>4. row'[x] = row[x] BY <2>1, <3>3
    <3> QED BY <2>3, <3>3, <3>4 DEF Waiting, Members
  <2>4. HeldBy(o)'
    <3>1. Mine(o)' = f BY <1>4 DEF Mine
    <3> QED BY <1>2, <1>4, <1>f, <2>3, <3>1 DEF HeldBy, At, Knows, Waiting, Members
  <2> QED BY <1>1, <1>2, <1>3, <1>4, <2>2, <2>4, LevelStep
<1> QED BY <1>5, <1>6 DEF Select

\* One of the three moves of members, by a run that goes on working.
LEMMA SteerRuns ==
  ASSUME RunnerInv, NEW o \in Owners, At(o, {"working"}), NEW S \in SUBSET Messages, NEW a,
         NEW s \in {"dispatching", "delivered", "unsupported"},
         SteerMembers(Mine(o), S, a, s), RunStep(Mine(o)), History,
         thread' \in [Owners -> Thread], thread'[o].pc = "working",
         thread'[o].fence = thread[o].fence, \A q \in Owners \ {o} : thread'[q] = thread[q]
  PROVE  RunnerInv'
<1> DEFINE f == Mine(o)
<1>1. At(o, Holding) BY DEF At, Holding, Pcs
<1>2. Owned(f) /\ Unlocked /\ tx' = tx /\ fences' = fences
  BY DEF SteerMembers, Fenced
<1>f. f \in fences /\ f.owner = o /\ f.msg \in Messages BY <1>1, MineType
<1>r. row[f.msg].group = NoMessage /\ row \in [Messages -> Row] /\ Knows("working", f)
  BY <1>1, <1>2, RunFacts DEF At
<1>3. \A x \in Messages : row'[x] = IF x \in S THEN [row[x] EXCEPT !.steer = s] ELSE row[x]
  BY DEF SteerMembers
<1>4. ASSUME NEW x \in Messages PROVE Level(row[x], row'[x])
  <2>1. row[x] \in Row BY <1>r
  <2>2. Level(row[x], row[x]) /\ Level(row[x], [row[x] EXCEPT !.steer = s]) BY <2>1, LevelRows
  <2> QED BY <1>3, <2>2
<1>5. f.msg \notin S BY <1>f, <1>r, QueueAssumption DEF SteerMembers
<1>6. row'[f.msg] = row[f.msg] BY <1>f, <1>3, <1>5
<1>7. ASSUME NEW x \in Messages, row'[x].group = f.msg, row'[x].steer = "awaiting"
      PROVE  row[x].group = f.msg /\ row[x].steer = "awaiting"
  <2>1. [row[x] EXCEPT !.steer = s].steer = s BY <1>r DEF Row
  <2> QED BY <1>3, <1>7, <2>1
<1>8. HeldBy(o)'
  <2>1. Mine(o)' = f BY DEF Mine
  <2>2. row'[f.msg].closed => Waiting(f.msg) = {} BY <1>r, <1>6 DEF Knows
  <2>3. ASSUME row'[f.msg].closed, NEW x \in Messages, row'[x].group = f.msg
        PROVE  row'[x].steer # "awaiting"
    BY <1>7, <2>2, <2>3 DEF Waiting, Members
  <2> QED BY <1>2, <1>f, <2>1, <2>3 DEF HeldBy, At, Knows, Waiting, Members
<1> QED BY <1>1, <1>2, <1>4, <1>8, LevelStep

LEMMA PullRuns ==
  ASSUME RunnerInv, NEW o \in Owners, Pull(o) \/ Consume(o) PROVE RunnerInv'
<1> DEFINE f == Mine(o)
<1>t. thread \in [Owners -> Thread] BY DEF RunnerInv, RunnerTypeOK, Thread
<1>w. At(o, {"working"}) /\ thread[o].pc = "working" /\ History BY DEF Pull, Consume, At
<1>1. ASSUME NEW S \in SUBSET Messages, thread' = [thread EXCEPT ![o].batch = S]
      PROVE  /\ thread' \in [Owners -> Thread] /\ thread'[o].pc = "working"
             /\ thread'[o].fence = thread[o].fence
             /\ \A q \in Owners \ {o} : thread'[q] = thread[q]
  <2>1. thread' = [thread EXCEPT ![o] = [thread[o] EXCEPT !.batch = S]] BY <1>1
  <2>2. /\ [thread[o] EXCEPT !.batch = S] \in Thread
        /\ [thread[o] EXCEPT !.batch = S].pc = thread[o].pc
        /\ [thread[o] EXCEPT !.batch = S].fence = thread[o].fence
    BY <1>t DEF Thread
  <2> QED BY <1>t, <1>w, <2>1, <2>2
<1>2. ASSUME NEW S \in SUBSET Messages,
             ClaimMembers(f, S) \/ Acknowledge(f, S) \/ MarkUnsupported(f, S)
      PROVE  RunStep(f)
  <2>1. S \subseteq Members(f.msg)
    BY <1>2 DEF ClaimMembers, Acknowledge, MarkUnsupported, SteerMembers, Members
  <2> QED BY <1>2, <2>1 DEF RunStep
<1>b. /\ thread[o].batch \in SUBSET Messages /\ Waiting(f.msg) \in SUBSET Messages
      /\ Waiting(f.msg) \ Deliverable(f.msg) \in SUBSET Messages
  BY <1>t DEF Thread, Waiting, Members
<1>3. CASE Pull(o)
  <2>1. CASE MarkUnsupported(f, Waiting(f.msg) \ Deliverable(f.msg)) /\ UNCHANGED thread
    <3>1. RunStep(f) BY <1>2, <1>b, <2>1
    <3> QED BY <1>b, <1>w, <1>t, <2>1, <3>1, SteerRuns DEF MarkUnsupported
  <2>2. CASE ClaimMembers(f, Waiting(f.msg)) /\ thread' = [thread EXCEPT ![o].batch = Waiting(f.msg)]
    <3>1. RunStep(f) BY <1>2, <1>b, <2>2
    <3> QED BY <1>b, <1>w, <1>1, <2>2, <3>1, SteerRuns DEF ClaimMembers
  <2> QED BY <1>3, <2>1, <2>2 DEF Pull
<1>4. CASE Consume(o)
  <2>1. Acknowledge(f, thread[o].batch) /\ thread' = [thread EXCEPT ![o].batch = {}]
    BY <1>4 DEF Consume
  <2>2. RunStep(f) BY <1>2, <1>b, <2>1
  <2>3. /\ thread' \in [Owners -> Thread] /\ thread'[o].pc = "working"
        /\ thread'[o].fence = thread[o].fence
        /\ \A q \in Owners \ {o} : thread'[q] = thread[q]
    <3>1. {} \in SUBSET Messages OBVIOUS
    <3> QED BY <1>1, <2>1, <3>1
  <2>4. SteerMembers(f, thread[o].batch, "dispatching", "delivered") BY <2>1 DEF Acknowledge
  <2> QED BY <1>b, <1>w, <2>2, <2>3, <2>4, SteerRuns
<1> QED BY <1>3, <1>4

LEMMA FinalCheckpointRuns ==
  ASSUME RunnerInv, NEW o \in Owners, FinalCheckpoint(o) PROVE RunnerInv'
<1> DEFINE f == Mine(o)
<1>1. At(o, Holding) /\ thread[o].pc = "working" BY DEF FinalCheckpoint, At, Holding, Pcs
<1>2. Owned(f) /\ Unlocked /\ tx' = tx /\ History /\ fences' = fences
  BY DEF FinalCheckpoint, CloseIntake, Fenced
<1>3. RunStep(f) BY DEF FinalCheckpoint, RunStep
<1>4. thread' = thread /\ thread' \in [Owners -> Thread]
  BY DEF FinalCheckpoint, RunnerInv, RunnerTypeOK, Thread
<1>f. f \in fences /\ f.owner = o /\ f.msg \in Messages BY <1>1, MineType
<1>r. row \in [Messages -> Row] BY <1>1, <1>2, RunFacts
<1>5. /\ row' = [row EXCEPT ![f.msg] = [row[f.msg] EXCEPT !.closed = TRUE]]
      /\ \A x \in Members(f.msg) : row[x].steer # "awaiting"
  BY DEF FinalCheckpoint, CloseIntake
<1>6. \A x \in Messages : Level(row[x], row'[x]) BY <1>r, <1>f, <1>5, LevelRows
<1>7. \A x \in Messages : row'[x].group = row[x].group /\ row'[x].steer = row[x].steer
  BY <1>r, <1>f, <1>5 DEF Row
<1>8. HeldBy(o)'
  <2>1. Mine(o)' = f BY <1>4 DEF Mine
  <2>2. \A x \in Messages : row'[x].group = f.msg => row'[x].steer # "awaiting"
    BY <1>5, <1>7 DEF Members
  <2> QED BY <1>1, <1>2, <1>4, <1>f, <2>1, <2>2 DEF HeldBy, At, Knows, Waiting, Members
<1> QED BY <1>1, <1>2, <1>3, <1>4, <1>6, <1>8, LevelStep


\* A step on the row of a task message that leaves every group and every other
\* row alone: the groups and the admission in progress keep their promises if
\* those about this row are kept.
LEMMA FateOfOne ==
  ASSUME RunnerInv, NEW l \in Messages, row[l].group = NoMessage, tx' = tx,
         row'[l].group = NoMessage, \A x \in Messages \ {l} : row'[x] = row[x],
         row'[l].status \in {"running", "failed"}, row[l].status = "running",
         row'[l].result # NoResult => \A x \in Messages : row[x].group = l => row[x].steer # "awaiting",
         tx.op = "admit" /\ tx.leader = l => MayLead(l)'
  PROVE  Fate'
<1>g. l # NoMessage BY QueueAssumption
<1>1. ASSUME NEW m \in Messages, row'[m].group # NoMessage
      PROVE  /\ row'[row'[m].group].status \in Active
             /\ row'[m].steer = "awaiting" => row'[row'[m].group].result = NoResult
             /\ row'[m].status \in Unfinished => row'[row'[m].group].status \in Unfinished
  <2>1. m # l /\ row'[m] = row[m] BY <1>1
  <2>2. row[m].group \in Messages BY <1>1, <2>1, RowFacts
  <2>3. CASE row[m].group = l
    BY <1>1, <2>1, <2>3, RowFacts DEF Active, Unfinished
  <2>4. CASE row[m].group # l
    BY <1>1, <2>1, <2>2, <2>4, RowFacts
  <2> QED BY <2>3, <2>4
<1>2. ASSUME tx'.op = "admit", tx'.leader # NoMessage, tx.leader # l
      PROVE  \/ row'[tx'.leader].status = "deleted"
             \/ /\ row'[tx'.leader].status \in {"running"} \cup Unfinished
                /\ ~row'[tx'.leader].cancel /\ row'[tx'.leader].result = NoResult
                /\ row'[tx'.leader].status = "running" => ~row'[tx'.leader].closed
  <2>1. tx.leader \in Messages BY <1>2 DEF RunnerInv, ShapeInv, TypeInv, TypeOK, Tx
  <2>2. row'[tx.leader] = row[tx.leader] BY <1>2, <2>1
  <2> QED BY <1>2, <2>2 DEF RunnerInv, Fate, MayLead
<1>3. ASSUME tx'.op = "admit", tx.leader = l
      PROVE  \/ row'[tx'.leader].status = "deleted"
             \/ /\ row'[tx'.leader].status \in {"running"} \cup Unfinished
                /\ ~row'[tx'.leader].cancel /\ row'[tx'.leader].result = NoResult
                /\ row'[tx'.leader].status = "running" => ~row'[tx'.leader].closed
  BY <1>3 DEF MayLead
<1> QED BY <1>1, <1>2, <1>3 DEF Fate, NoDeafLeader, MayLead

\* Whoever may lead an admission in progress is a live run without an answer.
LEMMA LeaderFacts ==
  ASSUME RunnerInv, NEW l \in Messages, row[l].status = "running",
         row[l].closed \/ row[l].cancel \/ row[l].result # NoResult
  PROVE  ~(tx.op = "admit" /\ tx.leader = l)
BY QueueAssumption DEF RunnerInv, Fate, MayLead

LEMMA AnswerRuns == ASSUME RunnerInv, NEW o \in Owners, Answer(o) PROVE RunnerInv'
<1> DEFINE f == Mine(o)
           l == f.msg
           v == [run |-> f.run, text |-> row[l].text]
<1>1. At(o, Holding) /\ thread[o].pc = "working" BY DEF Answer, At, Holding, Pcs
<1>2. Owned(f) /\ tx' = tx /\ fences' = fences /\ History /\ RunStep(f) /\ row[l].closed
  BY DEF Answer, RecordResult, Fenced, RunStep
<1>3. /\ thread' \in [Owners -> Thread] /\ thread'[o].pc = "lineage"
      /\ thread'[o].fence = thread[o].fence
      /\ \A q \in Owners \ {o} : thread'[q] = thread[q]
  BY GotoThread DEF Answer, RunnerInv, Pcs, Persisting
<1>f. f \in fences /\ f.owner = o /\ l \in Messages /\ f.run \in Nat BY <1>1, MineType
<1>r. /\ row[l].group = NoMessage /\ row[l].status = "running" /\ row \in [Messages -> Row]
      /\ Waiting(l) = {}
  BY <1>1, <1>2, RunFacts DEF Knows
<1>4. row' = [row EXCEPT ![l] = [row[l] EXCEPT !.result = v]] BY DEF Answer, RecordResult
<1>5. v # NoResult
  <2>1. row[l].text \in Nat BY <1>f, <1>r DEF Row
  <2> QED BY <1>f, <2>1, QueueAssumption
<1> HIDE DEF v
<1>6. /\ row'[l].result # NoResult /\ row'[l].status = "running" /\ row'[l].group = NoMessage
      /\ row'[l].lineage = row[l].lineage
      /\ \A x \in Messages \ {l} : row'[x] = row[x]
  BY <1>4, <1>5, <1>r, <1>f DEF Row
<1>7. ~(tx.op = "admit" /\ tx.leader = l) BY <1>2, <1>f, <1>r, LeaderFacts
<1>8. Fate'
  <2>1. PICK k \in Messages : k = l BY <1>f
  <2>2. \A x \in Messages : row[x].group = k => row[x].steer # "awaiting"
    BY <1>r, <2>1 DEF Waiting, Members
  <2> QED BY <1>2, <1>6, <1>7, <1>r, <2>1, <2>2, FateOfOne
<1>9. UNCHANGED <<turns, failed, evidence>> /\ evidence' \in [Messages -> Nat]
  BY <1>2 DEF History, RunnerInv, RunnerTypeOK
<1>10. \A x \in Messages : Unmarked(row[x], row'[x]) BY <1>6, <1>r DEF Unmarked
<1>11. Traces' BY <1>9, <1>10, TracesKept
<1>12. HeldBy(o)'
  <2>1. Mine(o)' = f BY <1>3 DEF Mine
  <2> QED BY <1>2, <1>3, <1>6, <1>f, <2>1 DEF HeldBy, At, Knows
<1>13. \A x \in Messages : row'[x].status \in Settled => row[x].status \in Settled
  BY <1>6 DEF Settled
<1> QED BY <1>1, <1>2, <1>3, <1>8, <1>9, <1>11, <1>12, <1>13, FencedStep

LEMMA RecordLineageRuns ==
  ASSUME RunnerInv, NEW o \in Owners, At(o, {"lineage"}), RecordLineage(Mine(o)),
         evidence' = [evidence EXCEPT ![Mine(o).msg] = @ + 1],
         Goto(o, "save"), UNCHANGED <<turns, failed>>
  PROVE  RunnerInv'
<1> DEFINE f == Mine(o)
           l == f.msg
<1>1. At(o, Holding) /\ thread[o].pc = "lineage" BY DEF At, Holding, Pcs, Persisting
<1>2. Owned(f) /\ tx' = tx /\ fences' = fences /\ RunStep(f) /\ ~row[l].lineage
  BY DEF RecordLineage, Fenced, RunStep
<1>3. /\ thread' \in [Owners -> Thread] /\ thread'[o].pc = "save"
      /\ thread'[o].fence = thread[o].fence
      /\ \A q \in Owners \ {o} : thread'[q] = thread[q]
  BY GotoThread DEF RunnerInv, Pcs, Persisting
<1>f. f \in fences /\ f.owner = o /\ l \in Messages BY <1>1, MineType
<1>r. /\ row[l].group = NoMessage /\ row[l].status = "running" /\ row \in [Messages -> Row]
      /\ row[l].result # NoResult
  BY <1>1, <1>2, RunFacts DEF Knows
<1>4. row' = [row EXCEPT ![l] = [row[l] EXCEPT !.lineage = TRUE]] BY DEF RecordLineage
<1>6. /\ row'[l].result = row[l].result /\ row'[l].status = "running" /\ row'[l].group = NoMessage
      /\ row'[l].lineage
      /\ \A x \in Messages \ {l} : row'[x] = row[x]
  BY <1>4, <1>r, <1>f DEF Row
<1>7. ~(tx.op = "admit" /\ tx.leader = l) BY <1>f, <1>r, LeaderFacts
<1>8. Fate'
  <2>1. PICK k \in Messages : k = l BY <1>f
  <2>2. \A x \in Messages : row[x].group = k => row[x].steer # "awaiting"
    BY <1>r, <2>1, RowFacts, QueueAssumption
  <2> QED BY <1>2, <1>6, <1>7, <1>r, <2>1, <2>2, FateOfOne
<1>9. evidence \in [Messages -> Nat] BY DEF RunnerInv, RunnerTypeOK
<1>10. evidence[l] = 0 BY <1>2, <1>f, <1>r DEF RunnerInv, Traces, Traced
<1>11. /\ evidence' \in [Messages -> Nat] /\ evidence'[l] = 1
       /\ \A m \in Messages \ {l} : evidence'[m] = evidence[m]
  BY <1>9, <1>10, <1>f
<1>12. Traces'
  <2>1. ASSUME NEW m \in Messages, Traced(m)'
        PROVE  row'[m].status = "deleted" \/ (row'[m].status # "absent" /\ row'[m].lineage)
    <3>1. CASE m = l BY <1>6, <3>1
    <3>2. CASE m # l BY <1>6, <1>11, <2>1, <3>2 DEF RunnerInv, Traces, Traced
    <3> QED BY <3>1, <3>2
  <2>2. ASSUME NEW m \in Messages PROVE evidence'[m] <= 1
    BY <1>11 DEF RunnerInv, Traces, EvidenceOnce
  <2>3. ASSUME NEW m \in Messages, row'[m].lineage \/ turns'[m].task # 0
        PROVE  Traced(m)'
    <3>1. CASE m = l BY <1>11, <3>1 DEF Traced
    <3>2. CASE m # l BY <1>6, <1>11, <2>3, <3>2 DEF RunnerInv, Traces, Traced
    <3> QED BY <3>1, <3>2
  <2>4. \A m \in Messages : turns'[m] = NoTurn \/ turns'[m].text > 0 BY DEF RunnerInv, Traces
  <2> QED BY <2>1, <2>2, <2>3, <2>4 DEF Traces, EvidenceOnce
<1>13. HeldBy(o)'
  <2>1. Mine(o)' = f BY <1>3 DEF Mine
  <2> QED BY <1>2, <1>3, <1>6, <1>11, <1>f, <1>r, <2>1 DEF HeldBy, At, Knows, Traced
<1>14. \A x \in Messages : row'[x].status \in Settled => row[x].status \in Settled
  BY <1>6 DEF Settled
<1>15. \A m \in Messages : evidence[m] # 0 => evidence'[m] # 0 BY <1>11
<1> QED BY <1>1, <1>2, <1>3, <1>8, <1>11, <1>12, <1>13, <1>14, <1>15, FencedStep

LEMMA LineageRuns == ASSUME RunnerInv, NEW o \in Owners, Lineage(o) PROVE RunnerInv'
<1> DEFINE f == Mine(o)
<1>1. At(o, Holding) BY DEF Lineage, At, Holding, Pcs, Persisting
<1>2. CASE NotPersisted(o) \/ OnlyGoto(o, "failing")
  BY <1>1, <1>2, LeaveStep DEF NotPersisted, OnlyGoto, Retaining
<1>3. CASE Fenced(f) /\ row[f.msg].lineage /\ OnlyGoto(o, "save")
  <2>1. Traced(f.msg) BY <1>1, <1>3, MineType DEF RunnerInv, Traces
  <2>2. Owned(f) => Knows("save", f)
    BY <1>1, RunFacts DEF Lineage, At, Knows
  <2>3. "save" \in Pcs /\ "save" \in Holding BY DEF Holding, Pcs, Persisting
  <2> QED BY <1>1, <1>3, <2>1, <2>2, <2>3, MoveStep DEF OnlyGoto
<1>4. CASE /\ RecordLineage(f)
           /\ evidence' = [evidence EXCEPT ![f.msg] = @ + 1]
           /\ Goto(o, "save") /\ UNCHANGED <<turns, failed>>
  BY <1>4, RecordLineageRuns DEF Lineage
<1> QED BY <1>2, <1>3, <1>4 DEF Lineage

LEMMA SaveRuns == ASSUME RunnerInv, NEW o \in Owners, Save(o) PROVE RunnerInv'
<1> DEFINE f == Mine(o)
           r == row[f.msg]
           turn == [task |-> r.result.run, text |-> r.text, reads |-> r.result.text,
                    steered |-> Delivered(f.msg)]
<1>1. At(o, Holding) /\ thread[o].pc = "save" BY DEF Save, At, Holding, Pcs, Persisting
<1>2. CASE NotPersisted(o) \/ OnlyGoto(o, "failing") \/ OnlyGoto(o, "pending")
  BY <1>1, <1>2, LeaveStep DEF NotPersisted, OnlyGoto, Retaining
<1>3. CASE /\ Fenced(f) /\ Canonical(f, turn, {turn.task})
           /\ SaveTurn(f, turn) /\ Goto(o, "finish")
           /\ UNCHANGED queueVars /\ UNCHANGED <<evidence, failed>>
  <2>1. Owned(f) BY <1>3 DEF Fenced
  <2>2. r \in Row /\ r.text > 0 /\ r.result # NoResult
    BY <1>1, <2>1, RunFacts DEF Knows
  <2>3. r.result \in [run : Nat, text : Nat] BY <2>2 DEF Row
  <2>4. turn \in [task : Nat, text : Nat, reads : Nat, steered : SUBSET Messages]
    BY <2>2, <2>3 DEF Row, Delivered, Members
  <2>5. Traced(f.msg) BY <1>1 DEF RunnerInv, Threads, HeldBy, At
  <2>6. turns[f.msg] = NoTurn \/ turns[f.msg].steered = turn.steered BY <1>3 DEF Canonical
  <2>7. turn.steered = Delivered(f.msg) /\ turn.text > 0 BY <2>2
  <2> HIDE DEF turn
  <2> QED BY <1>1, <1>3, <2>1, <2>2, <2>4, <2>5, <2>6, <2>7, TurnStep
<1> QED BY <1>2, <1>3 DEF Save

LEMMA SaveCancelledRuns ==
  ASSUME RunnerInv, NEW o \in Owners, SaveCancelled(o) PROVE RunnerInv'
<1> DEFINE f == Mine(o)
           turn == [task |-> 0, text |-> row[f.msg].text, reads |-> 0,
                    steered |-> Delivered(f.msg)]
<1>1. At(o, Holding) BY DEF SaveCancelled, At, Holding, Pcs, Stopping
<1>2. CASE OnlyGoto(o, "idle") BY <1>1, <1>2, LeaveStep DEF OnlyGoto
<1>3. CASE /\ Owned(f) /\ row[f.msg].cancel /\ Canonical(f, turn, {0, f.run})
           /\ SaveTurn(f, turn) /\ Goto(o, "cancelFinal")
           /\ UNCHANGED queueVars /\ UNCHANGED <<evidence, failed>>
  <2>2. row[f.msg] \in Row /\ row[f.msg].text > 0 BY <1>1, <1>3, RunFacts
  <2>4. turn \in [task : Nat, text : Nat, reads : Nat, steered : SUBSET Messages]
    BY <2>2 DEF Row, Delivered, Members
  <2>6. turns[f.msg] = NoTurn \/ turns[f.msg].steered = turn.steered BY <1>3 DEF Canonical
  <2>7. turn.steered = Delivered(f.msg) /\ turn.text > 0 /\ turn.task = 0 BY <2>2
  <2> HIDE DEF turn
  <2> QED BY <1>1, <1>3, <2>4, <2>6, <2>7, TurnStep
<1> QED BY <1>2, <1>3 DEF SaveCancelled

LEMMA PendingRuns == ASSUME RunnerInv, NEW o \in Owners, Pending(o) PROVE RunnerInv'
<1> DEFINE f == Mine(o)
           l == f.msg
<1>1. At(o, Holding) BY DEF Pending, At, Holding, Pcs
<1>2. CASE OnlyGoto(o, "idle") BY <1>1, <1>2, LeaveStep DEF OnlyGoto
<1>3. CASE MarkPersistencePending(f) /\ Goto(o, "idle") /\ History
  <2>2. Owned(f) /\ tx' = tx /\ RunStep(f) /\ row[l].result # NoResult
    BY <1>3 DEF MarkPersistencePending, Fenced, RunStep
  <2>3. /\ thread' \in [Owners -> Thread] /\ thread'[o].pc = "idle"
        /\ \A q \in Owners \ {o} : thread'[q] = thread[q]
    BY <1>3, GotoThread DEF RunnerInv, Pcs
  <2>f. l \in Messages BY <1>1, MineType
  <2>r. row[l].group = NoMessage /\ row[l].status = "running" /\ row \in [Messages -> Row]
    BY <1>1, <2>2, RunFacts
  <2>4. row' = [row EXCEPT ![l] = Released(row[l], "failed")] BY <1>3 DEF MarkPersistencePending
  <2>5. /\ Released(row[l], "failed").status = "failed"
        /\ Released(row[l], "failed").group = row[l].group
        /\ Released(row[l], "failed").lineage = row[l].lineage
    BY <2>f, <2>r DEF Released, Row, Unfinished
  <2>6. /\ row'[l].status = "failed" /\ row'[l].group = NoMessage
        /\ row'[l].lineage = row[l].lineage
        /\ \A x \in Messages \ {l} : row'[x] = row[x]
    BY <2>4, <2>5, <2>r, <2>f
  <2>7. ~(tx.op = "admit" /\ tx.leader = l) BY <2>2, <2>f, <2>r, LeaderFacts
  <2>8. Fate'
    <3>1. PICK k \in Messages : k = l BY <2>f
    <3>2. \A x \in Messages : row[x].group = k => row[x].steer # "awaiting"
      BY <2>2, <3>1, RowFacts, QueueAssumption
    <3> QED BY <2>2, <2>6, <2>7, <2>r, <3>1, <3>2, FateOfOne
  <2>9. UNCHANGED <<turns, failed, evidence>> /\ evidence' \in [Messages -> Nat]
    BY <1>3 DEF History, RunnerInv, RunnerTypeOK
  <2>10. \A x \in Messages : Unmarked(row[x], row'[x]) BY <2>6, <2>r DEF Unmarked
  <2>11. Traces' BY <2>9, <2>10, TracesKept
  <2>12. HeldBy(o)' BY <2>3 DEF HeldBy, At, Holding
  <2>13. \A x \in Messages : row'[x].status \in Settled => row[x].status \in Settled
    BY <2>6 DEF Settled
  <2> QED BY <1>1, <2>2, <2>3, <2>8, <2>9, <2>11, <2>12, <2>13, FencedStep
<1> QED BY <1>2, <1>3 DEF Pending

LEMMA SettledRows ==
  ASSUME NEW r \in Row, NEW s \in {"completed", "failed", "cancelled", "interrupted"}
  PROVE  /\ [Released(r, s) EXCEPT !.result = NoResult].status = s
         /\ [Released(r, s) EXCEPT !.result = NoResult].group = r.group
         /\ [Released(r, s) EXCEPT !.result = NoResult].lineage = r.lineage
         /\ [Released(r, s) EXCEPT !.result = NoResult].result = NoResult
         /\ ~[Released(r, s) EXCEPT !.result = NoResult].cancel
         /\ s \in Unfinished =>
              /\ MemberSettled(r, s).status = s /\ MemberSettled(r, s).group = r.group
              /\ MemberSettled(r, s).lineage = r.lineage
         /\ s \notin Unfinished =>
              /\ MemberSettled(r, s).group = NoMessage
              /\ MemberSettled(r, s).lineage = r.lineage
              /\ MemberSettled(r, s).status = IF r.steer = "delivered" THEN s ELSE r.status
<1> DEFINE q == Released(r, s)
<1>1. /\ q.status = s /\ q.group = r.group /\ q.lineage = r.lineage /\ q.steer = r.steer
      /\ q.cancel = FALSE
  BY DEF Released, Row
<1>2. q \in Row BY RowReleased DEF Statuses
<1> HIDE DEF q
<1>3. /\ [q EXCEPT !.result = NoResult].status = s
      /\ [q EXCEPT !.result = NoResult].group = r.group
      /\ [q EXCEPT !.result = NoResult].lineage = r.lineage
      /\ [q EXCEPT !.result = NoResult].result = NoResult
      /\ ~[q EXCEPT !.result = NoResult].cancel
  BY <1>1, <1>2 DEF Row
<1>4. /\ [r EXCEPT !.status = s].status = s /\ [r EXCEPT !.status = s].group = r.group
      /\ [r EXCEPT !.status = s].lineage = r.lineage
  BY DEF Row
<1>5. \A p \in Row : /\ Detached(p).group = NoMessage /\ Detached(p).lineage = p.lineage
                     /\ Detached(p).status = p.status
  BY DEF Detached, Row
<1>6. MemberSettled(r, s) = IF s \in Unfinished THEN [r EXCEPT !.status = s]
                            ELSE Detached(IF r.steer = "delivered" THEN q ELSE r)
  BY DEF MemberSettled, q
<1>7. CASE s \in Unfinished BY <1>3, <1>4, <1>6, <1>7 DEF q
<1>8. CASE s \notin Unfinished BY <1>1, <1>2, <1>3, <1>5, <1>6, <1>8 DEF q
<1> QED BY <1>7, <1>8

\* A run is settled: with an answer or a stop that its turn shows, or unfinished.
LEMMA SettleRuns ==
  ASSUME RunnerInv, NEW o \in Owners, At(o, Holding),
         NEW s \in {"completed", "failed", "cancelled", "interrupted"},
         Settle(Mine(o), s), Goto(o, "idle"), History,
         s \in Settled => /\ Knows("finish", Mine(o)) \/ Knows("cancelFinal", Mine(o))
  PROVE  RunnerInv'
<1> DEFINE f == Mine(o)
<1>p. PICK l \in Messages : l = f.msg BY MineType
<1>1. Owned(f) /\ tx' = tx /\ RunStep(f)
  BY DEF Settle, Fenced, RunStep
<1>2. /\ thread' \in [Owners -> Thread] /\ thread'[o].pc = "idle"
      /\ \A q \in Owners \ {o} : thread'[q] = thread[q]
  BY GotoThread DEF RunnerInv, Pcs
<1>r. /\ row[l].group = NoMessage /\ row[l].status = "running" /\ row \in [Messages -> Row]
      /\ l # NoMessage
  BY <1>p, <1>1, RunFacts, QueueAssumption
<1>k. s \in Settled => /\ turns[l].text > 0 /\ Delivered(l) \subseteq turns[l].steered
                       /\ row[l].cancel \/ row[l].result # NoResult
  BY <1>p DEF Knows
<1>3. \A x \in Messages : row'[x] =
        IF x = l THEN [Released(row[x], s) EXCEPT !.result = NoResult]
        ELSE IF row[x].group = l THEN MemberSettled(row[x], s) ELSE row[x]
  BY <1>p DEF Settle
<1>4. /\ row'[l].status = s /\ row'[l].group = NoMessage /\ row'[l].lineage = row[l].lineage
      /\ row'[l].result = NoResult /\ ~row'[l].cancel
  <2>1. row'[l] = [Released(row[l], s) EXCEPT !.result = NoResult] /\ row[l] \in Row
    BY <1>3, <1>r
  <2> QED BY <1>r, <2>1, SettledRows
<1>5. ASSUME NEW x \in Messages, row[x].group = l
      PROVE  /\ row'[x].lineage = row[x].lineage
             /\ s \in Unfinished => row'[x].status = s /\ row'[x].group = l
             /\ s \notin Unfinished =>
                  /\ row'[x].group = NoMessage
                  /\ row'[x].status = IF row[x].steer = "delivered" THEN s ELSE row[x].status
             /\ row[x].status \in Waits
  <2>1. x # l /\ row[x].group # NoMessage BY <1>r, <1>5
  <2>2. row'[x] = MemberSettled(row[x], s) /\ row[x] \in Row BY <1>3, <1>5, <1>r, <2>1
  <2>3. row[x].status \in Waits BY <2>1, RowFacts
  <2> QED BY <1>5, <2>2, <2>3, SettledRows
<1>6. \A x \in Messages \ {l} : row[x].group # l => row'[x] = row[x] BY <1>3
<1>7. \A x \in Messages : Unmarked(row[x], row'[x])
  BY <1>4, <1>5, <1>6, <1>r DEF Unmarked, Waits, Unfinished
<1>8. UNCHANGED <<turns, failed, evidence>> /\ evidence' \in [Messages -> Nat]
  BY DEF History, RunnerInv, RunnerTypeOK
<1>9. Traces' BY <1>7, <1>8, TracesKept
<1>10. ASSUME NEW x \in Messages, row'[x].status \in Settled
       PROVE  \/ row[x].status \in Settled
              \/ turns[x].text > 0
              \/ \E h \in Messages : turns[h].text > 0 /\ x \in turns[h].steered
  <2>1. CASE x = l
    <3>1. s \in Settled BY <1>4, <1>10, <2>1
    <3> QED BY <1>k, <2>1, <3>1
  <2>2. CASE row[x].group = l
    <3>1. s \in Settled \/ row[x].status \in Settled
      BY <1>5, <1>10, <2>2 DEF Settled, Unfinished
    <3>2. CASE s \in Settled /\ row[x].status \notin Settled
      <4>1. row[x].steer = "delivered" BY <1>5, <1>10, <2>2, <3>2 DEF Settled, Unfinished
      <4>2. x \in Delivered(l) BY <2>2, <4>1 DEF Delivered, Members
      <4> QED BY <1>k, <3>2, <4>2
    <3> QED BY <3>1, <3>2
  <2>3. CASE x # l /\ row[x].group # l BY <1>6, <1>10, <2>3
  <2> QED BY <2>1, <2>2, <2>3
<1>11. ASSUME NEW m \in Messages, row'[m].group # NoMessage
       PROVE  /\ row'[row'[m].group].status \in Active
              /\ row'[m].steer = "awaiting" => row'[row'[m].group].result = NoResult
              /\ row'[m].status \in Unfinished => row'[row'[m].group].status \in Unfinished
  <2>1. m # l BY <1>4, <1>11
  <2>2. CASE row[m].group = l
    <3>1. s \in Unfinished /\ row'[m].group = l BY <1>5, <1>11, <2>2
    <3> QED BY <1>4, <3>1 DEF Active, Unfinished
  <2>3. CASE row[m].group # l
    <3>1. row'[m] = row[m] BY <1>6, <2>1, <2>3
    <3>2. row[m].group \in Messages /\ row[row[m].group].group = NoMessage
      BY <1>11, <3>1, RowFacts
    <3>3. row'[row[m].group] = row[row[m].group] BY <1>6, <1>r, <2>3, <3>2
    <3> QED BY <1>11, <3>1, <3>3, RowFacts
  <2> QED BY <2>2, <2>3
<1>12. ASSUME tx.op = "admit", tx.leader # NoMessage
       PROVE  \/ row'[tx.leader].status = "deleted"
              \/ /\ row'[tx.leader].status \in {"running"} \cup Unfinished
                 /\ ~row'[tx.leader].cancel /\ row'[tx.leader].result = NoResult
                 /\ row'[tx.leader].status = "running" => ~row'[tx.leader].closed
  <2>1. tx.leader \in Messages /\ row[tx.leader].group = NoMessage /\ MayLead(tx.leader)
    BY <1>12 DEF RunnerInv, ShapeInv, TypeInv, TypeOK, Tx, Led, Heads, Fate
  <2>2. CASE tx.leader = l
    <3>1. s \notin Settled BY <1>12, <1>k, <1>r, <2>2, LeaderFacts
    <3>2. s \in Unfinished /\ s # "running" BY <3>1 DEF Settled, Unfinished
    <3> QED BY <1>4, <2>2, <3>2
  <2>3. CASE tx.leader # l
    <3>1. row'[tx.leader] = row[tx.leader] BY <1>6, <1>r, <2>1, <2>3
    <3> QED BY <2>1, <3>1 DEF MayLead
  <2> QED BY <2>2, <2>3
<1>13. Fate' BY <1>1, <1>11, <1>12 DEF Fate, NoDeafLeader, MayLead
<1>14. HeldBy(o)' BY <1>2 DEF HeldBy, At, Holding
<1> QED BY <1>1, <1>2, <1>8, <1>9, <1>10, <1>13, <1>14, FencedStep

LEMMA FinishRuns == ASSUME RunnerInv, NEW o \in Owners, Finish(o) PROVE RunnerInv'
<1> DEFINE f == Mine(o)
<1>1. At(o, Holding) /\ thread[o].pc = "finish" BY DEF Finish, At, Holding, Pcs, Persisting
<1>2. CASE Settle(f, "completed") /\ Goto(o, "idle") /\ History
  <2>1. Owned(f) BY <1>2 DEF Settle, Fenced
  <2>2. Knows("finish", f) BY <1>1, <2>1, RunFacts
  <2> QED BY <1>1, <1>2, <2>2, SettleRuns
<1>3. CASE ~Fenced(f) /\ OnlyGoto(o, "finishCancelled")
  <2>1. Owned(f) => Knows("finishCancelled", f) BY <1>1, <1>3, RunFacts DEF Knows, Fenced
  <2>2. "finishCancelled" \in Pcs /\ "finishCancelled" \in Holding
    BY DEF Holding, Pcs, Persisting
  <2> QED BY <1>1, <1>3, <2>1, <2>2, MoveStep DEF OnlyGoto
<1>4. CASE NotPersisted(o) \/ OnlyGoto(o, "idle")
  BY <1>1, <1>4, LeaveStep DEF NotPersisted, OnlyGoto, Retaining
<1> QED BY <1>2, <1>3, <1>4 DEF Finish

LEMMA FinishCancelledRuns ==
  ASSUME RunnerInv, NEW o \in Owners, FinishCancelled(o) \/ FinalizeCancelled(o) PROVE RunnerInv'
<1> DEFINE f == Mine(o)
<1>1. At(o, Holding) /\ thread[o].pc \in {"finishCancelled", "cancelFinal"}
  BY DEF FinishCancelled, FinalizeCancelled, At, Holding, Pcs, Persisting, Stopping
<1>2. CASE Settle(f, "cancelled") /\ Goto(o, "idle") /\ History
  <2>1. Owned(f) BY <1>2 DEF Settle
  <2>2. Knows("cancelFinal", f) BY <1>1, <2>1, RunFacts DEF Knows
  <2> QED BY <1>1, <1>2, <2>2, SettleRuns
<1>3. CASE NotPersisted(o) \/ OnlyGoto(o, "idle")
  BY <1>1, <1>3, LeaveStep DEF NotPersisted, OnlyGoto, Retaining
<1> QED BY <1>2, <1>3 DEF FinishCancelled, FinalizeCancelled

LEMMA RetainRuns == ASSUME RunnerInv, NEW o \in Owners, Retain(o) PROVE RunnerInv'
<1> DEFINE f == Mine(o)
           s == IF At(o, {"failing", "failingBare"}) THEN "failed" ELSE "interrupted"
<1>1. At(o, Holding) BY DEF Retain, At, Holding, Pcs, Retaining
<1>2. s \in {"failed", "interrupted"} OBVIOUS
<1>3. CASE Settle(f, s) /\ Goto(o, "idle") /\ History
  BY <1>1, <1>2, <1>3, SettleRuns DEF Settled
<1>4. CASE OnlyGoto(o, "cancelSave") \/ OnlyGoto(o, "idle")
  BY <1>1, <1>4, LeaveStep DEF OnlyGoto
<1> QED BY <1>3, <1>4 DEF Retain

LEMMA InitRunnerInv == RunnerInit => RunnerInv
<1> SUFFICES ASSUME RunnerInit PROVE RunnerInv OBVIOUS
<1>1. ShapeInv /\ LeaseInv BY InitShapeInv, InitLeaseInv DEF RunnerInit
<1>2. /\ tx = NoTx /\ \A m \in Messages : row[m] = Absent /\ evidence[m] = 0
  BY DEF RunnerInit, Init0
<1>3. /\ Absent.status = "absent" /\ Absent.group = NoMessage /\ ~Absent.lineage
  BY DEF Absent, Inserted
<1>4. RunnerTypeOK
  BY RunnerAssumption DEF RunnerInit, RunnerTypeOK, Idle, NoFence, NoTurn, Pcs
<1>5. Threads
  BY DEF RunnerInit, Threads, HeldBy, At, Idle, Holding
<1>6. Traces
  <2>1. \A m \in Messages : turns[m] = NoTurn /\ turns[m].task = 0 BY DEF RunnerInit, NoTurn
  <2> QED BY <1>2, <1>3, <2>1 DEF Traces, EvidenceOnce, Traced
<1>7. Fate BY <1>2, <1>3 DEF Fate, NoDeafLeader, NoTx
<1>8. ScrubbedIsSaved BY <1>2, <1>3 DEF ScrubbedIsSaved, WithStatus
<1> QED BY <1>1, <1>4, <1>5, <1>6, <1>7, <1>8 DEF RunnerInv

LEMMA ThreadRuns == ASSUME RunnerInv, NEW o \in Owners, RunThread(o) PROVE RunnerInv'
BY PullRuns, FinalCheckpointRuns, AnswerRuns, UnwindRuns, LineageRuns, SaveRuns, FinishRuns,
   FinishCancelledRuns, PendingRuns, RetainRuns, SaveCancelledRuns DEF RunThread

LEMMA StepRunnerInv == RunnerInv /\ [RunnerNext]_runnerVars => RunnerInv'
<1> SUFFICES ASSUME RunnerInv, [RunnerNext]_runnerVars PROVE RunnerInv' OBVIOUS
<1>w. \A w \in Workers : Job(w) \in Owners /\ Recovery(w) \in Owners
  BY RunnerAssumption DEF Job, Recovery
<1>1. ASSUME NEW w \in Workers, JobThread(w) PROVE RunnerInv'
  <2>1. Job(w) \in Owners BY <1>w
  <2> QED BY <1>1, <2>1, PollRuns, StartClaimRuns, ClaimRuns, ReplayRuns, SelectRuns, ThreadRuns
          DEF JobThread
<1>2. ASSUME NEW w \in Workers, RecoveryThread(w) PROVE RunnerInv'
  <2>1. Recovery(w) \in Owners BY <1>w
  <2> QED BY <1>2, <2>1, RecoverRuns, ThreadRuns DEF RecoveryThread
<1>3. CASE UNCHANGED runnerVars
  <2>1. /\ UNCHANGED queueVars /\ UNCHANGED <<turns, evidence>> /\ failed' = failed
        /\ thread' = thread
    BY <1>3 DEF runnerVars, queueVars
  <2>2. thread' \in [Owners -> Thread] BY <2>1 DEF RunnerInv, RunnerTypeOK, Thread
  <2> QED BY <2>1, <2>2, QuietStep
<1> QED BY <1>1, <1>2, <1>3, UserRuns, CrashRuns, FailureRuns, OrphanRuns, AbortRuns DEF RunnerNext

LEMMA RunnerInvariant == RunnerSafety => []RunnerInv
<1> QED BY InitRunnerInv, StepRunnerInv, PTL DEF RunnerSafety

-----------------------------------------------------------------------------
(* What the runner guarantees.                                              *)

\* Every state of the runner has the declared types, whatever fails and
\* however often threads are resumed.
THEOREM RunnerTypeCorrect == RunnerSafety => []RunnerTypeOK
<1>1. RunnerInv => RunnerTypeOK BY DEF RunnerInv
<1> QED BY <1>1, RunnerInvariant, PTL

\* Lineage and its audit rows are written once per message, for any number of
\* replays, retries and recoveries: one that persists the same stored result again
\* finds lineage_recorded_at set (conversationQueueCompletion.ts) and writes none.
THEOREM LineageIsOnce == RunnerSafety => []EvidenceOnce
<1>1. RunnerInv => EvidenceOnce BY DEF RunnerInv, Traces
<1> QED BY <1>1, RunnerInvariant, PTL

\* An answer that shows in the Session history has durable lineage.
THEOREM LineageComesFirst == RunnerSafety => []LineageBeforeTurn
<1>1. RunnerInv => LineageBeforeTurn BY DEF RunnerInv, Traces, Traced, LineageBeforeTurn
<1> QED BY <1>1, RunnerInvariant, PTL

\* A message whose text the queue has scrubbed has its text in the history.
THEOREM ScrubbedIsShown == RunnerSafety => []ScrubbedIsSaved
<1>1. RunnerInv => ScrubbedIsSaved BY DEF RunnerInv
<1> QED BY <1>1, RunnerInvariant, PTL

\* A message that waits to steer a task has a task that can still read it.
THEOREM LeadersListen == RunnerSafety => []NoDeafLeader
<1>1. RunnerInv => NoDeafLeader BY DEF RunnerInv, Fate
<1> QED BY <1>1, RunnerInvariant, PTL

\* The program only uses the storage as its operations allow, so that all the
\* guarantees of the storage hold of the program.
THEOREM RunnerImplementsStorage == RunnerSafety => StorageSpec
<1>1. RunnerInit => Init0 BY DEF RunnerInit
<1> QED BY <1>1, RunnerInvariant, RunnerStepsStorage, PTL DEF RunnerSafety, StorageSpec

-----------------------------------------------------------------------------
(* The promise: every step is one step of it, or changes nothing in it.     *)

PromiseStep == [Promise!Next]_(Promise!promiseVars)

\* No message changes its phase and no turn is written.
LEMMA StillPromise ==
  ASSUME \A x \in Messages : Phase(row'[x].status) = Phase(row[x].status), turns' = turns
  PROVE  PromiseStep
<1>1. [m \in Messages |-> Phase(row'[m].status)] = [m \in Messages |-> Phase(row[m].status)]
  OBVIOUS
<1> QED BY <1>1 DEF PromiseStep, Promise!promiseVars, Shown

\* Only the messages of S change, and all of them to phase p.
LEMMA BecomePhase ==
  ASSUME NEW S, NEW p,
         \A x \in Messages : Phase(row'[x].status) = IF x \in S THEN p ELSE Phase(row[x].status)
  PROVE  Promise!Become(S, p)
BY DEF Promise!Become

LEMMA Phases ==
  /\ Phase("absent") = "unknown" /\ Phase("queued") = "waiting" /\ Phase("running") = "working"
  /\ Phase("failed") = "unfinished" /\ Phase("interrupted") = "unfinished"
  /\ Phase("completed") = "done" /\ Phase("cancelled") = "done" /\ Phase("deleted") = "removed"
BY DEF Phase, Unfinished

\* The steps of users and leases.
LEMMA UserPromise ==
  ASSUME RunnerInv, UserStep \/ LeaseStep, turns' = turns PROVE PromiseStep
<1>h. UNCHANGED {m \in Messages : Shown(m) \/ \E l \in Messages : m \in turns[l].steered}
  BY DEF Shown
<1>r. row \in [Messages -> Row] BY DEF RunnerInv, ShapeInv, TypeInv, TypeOK
<1>s. ASSUME \A x \in Messages : row'[x].status = row[x].status PROVE PromiseStep
  BY <1>s, StillPromise
<1>1. CASE CommitAdmit
  <2>1. tx.msg \in Messages /\ row[tx.msg].status = "absent"
    BY <1>1 DEF CommitAdmit, RunnerInv, ShapeInv, TypeInv, TxKnown
  <2>2. CASE row' = row BY <1>s, <2>2
  <2>3. CASE row' = [row EXCEPT ![tx.msg] = Inserted(nextSeq, tx.leader)]
    <3>1. PICK m \in Messages : m = tx.msg BY <2>1
    <3>2. row'[m].status = "queued" /\ \A x \in Messages \ {m} : row'[x] = row[x]
      BY <1>r, <2>3, <3>1 DEF Inserted
    <3>3. \A x \in Messages : Phase(row'[x].status) = IF x \in {m} THEN "waiting" ELSE Phase(row[x].status)
      BY <3>2, Phases
    <3>4. Promise!Become({m}, "waiting") BY <3>3, BecomePhase
    <3>5. Promise!Accept(m) BY <1>h, <2>1, <3>1, <3>4, Phases DEF Promise!Accept
    <3> QED BY <3>5 DEF PromiseStep, Promise!Next
  <2> QED BY <1>1, <2>2, <2>3 DEF CommitAdmit
<1>2. CASE CommitPrioritize
  <2>1. ASSUME NEW x \in Messages PROVE row'[x].status = row[x].status
    <3>1. row'[x] \in {[row[x] EXCEPT !.cancel = TRUE, !.auto = TRUE],
                       [row[x] EXCEPT !.seq = Rank(tx.msg, x)], row[x]}
      BY <1>2 DEF CommitPrioritize, Unfinished
    <3> QED BY <1>r, <3>1 DEF Row
  <2> QED BY <1>s, <2>1
<1>3. CASE Sweep
  <2>1. \A x \in Messages : row'[x].status = IF row[x].status = "absent" THEN "absent" ELSE "deleted"
    BY <1>3, ShapeDeleted DEF Sweep
  <2>2. \A x \in Messages : Phase(row[x].status) = "unknown" <=> row[x].status = "absent"
    BY <1>r, Phases DEF Row, Statuses
  <2>3. \A x \in Messages : Phase(row'[x].status) =
           IF x \in Messages \ Promise!In("unknown") THEN "removed" ELSE Phase(row[x].status)
    BY <2>1, <2>2, Phases DEF Promise!In
  <2>4. Promise!EndSession BY <1>h, <2>3, BecomePhase DEF Promise!EndSession
  <2> QED BY <2>4 DEF PromiseStep, Promise!Next
<1>4. ASSUME NEW m \in Messages, Withdraw(m) PROVE PromiseStep
  <2> DEFINE S == {x \in Messages : x = m \/ row[x].group = m}
  <2>1. \A x \in Messages : row'[x] = IF x \in S THEN Deleted ELSE row[x] BY <1>4 DEF Withdraw
  <2>2. ASSUME NEW x \in S PROVE row[x].status \in Waits
    BY <1>4, RowFacts, QueueAssumption DEF Withdraw, Waits
  <2>3. \A x \in Messages : Phase(row'[x].status) = IF x \in S THEN "removed" ELSE Phase(row[x].status)
    BY <2>1, ShapeDeleted, Phases
  <2>4. S \subseteq Promise!In("waiting") \cup Promise!In("unfinished")
    BY <2>2, Phases DEF Promise!In, Waits, Unfinished
  <2>5. m \in S /\ S \in SUBSET Messages OBVIOUS
  <2>6. Promise!Withdraw(S) BY <1>h, <2>3, <2>4, <2>5, BecomePhase DEF Promise!Withdraw
  <2> HIDE DEF S
  <2> QED BY <2>5, <2>6 DEF PromiseStep, Promise!Next
<1>5. ASSUME NEW m \in Messages, Retry(m) PROVE PromiseStep
  <2> DEFINE l == IF row[m].group = NoMessage THEN m ELSE row[m].group
             again == {x \in Messages : /\ x = l \/ row[x].group = l
                                        /\ row[x].status \in {"queued"} \cup Unfinished}
             S == {x \in again : row[x].status \in Unfinished}
  <2>1. ASSUME NEW x \in Messages
        PROVE  row'[x].status = IF x \in again THEN "queued" ELSE row[x].status
    BY <1>5, <1>r DEF Retry, Requeued, Row
  <2>2. m \in S BY <1>5 DEF Retry
  <2>3. S \in SUBSET Messages OBVIOUS
  <2>4. \A x \in S : Phase(row[x].status) = "unfinished" BY Phases DEF Unfinished
  <2>5. ASSUME NEW x \in Messages
        PROVE  Phase(row'[x].status) = IF x \in S THEN "waiting" ELSE Phase(row[x].status)
    <3>1. CASE x \in again BY <2>1, <3>1, Phases
    <3>2. CASE x \notin again BY <2>1, <3>2
    <3> QED BY <3>1, <3>2
  <2> HIDE DEF S
  <2>6. S \subseteq Promise!In("unfinished") BY <2>3, <2>4 DEF Promise!In
  <2>7. Promise!Resume(S) BY <1>h, <2>2, <2>5, <2>6, BecomePhase DEF Promise!Resume
  <2> QED BY <2>3, <2>7 DEF PromiseStep, Promise!Next
<1>6. ASSUME NEW m \in Messages, NEW accepts \in BOOLEAN, CommitClaim(m, accepts)
      PROVE  PromiseStep
  <2>1. /\ row' = [row EXCEPT ![m] = Taken(row[m], tx.owner, accepts)]
        /\ row[m].status = "queued" /\ \A x \in Messages : row[x].status # "running"
    BY <1>6 DEF CommitClaim, TakeNext, FirstOf, Claimable, WithStatus
  <2>2. row'[m].status = "running" /\ \A x \in Messages \ {m} : row'[x] = row[x]
    BY <1>r, <2>1 DEF Taken, Row
  <2>3. \A x \in Messages : Phase(row'[x].status) = IF x \in {m} THEN "working" ELSE Phase(row[x].status)
    BY <2>2, Phases
  <2>4. \A x \in Messages : Phase(row[x].status) # "working"
    BY <1>r, <2>1, Phases DEF Row, Statuses
  <2>5. Promise!Start(m)
    <3>1. Promise!Become({m}, "working") BY <2>3, BecomePhase
    <3>2. Promise!In("working") = {} BY <2>4 DEF Promise!In
    <3> QED BY <1>h, <2>1, <3>1, <3>2, Phases DEF Promise!Start
  <2> QED BY <2>5 DEF PromiseStep, Promise!Next
<1>7. ASSUME NEW m \in Messages, Stop(m) PROVE PromiseStep
  <2>1. row' = [row EXCEPT ![m] = [row[m] EXCEPT !.cancel = TRUE, !.auto = FALSE]]
    BY <1>7 DEF Stop
  <2> QED BY <1>r, <1>s, <2>1 DEF Row
<1>8. ASSUME NEW m \in Messages, Edit(m) PROVE PromiseStep
  <2>1. row' = [row EXCEPT ![m] = [row[m] EXCEPT !.text = row[m].text + 1]] BY <1>8 DEF Edit
  <2> QED BY <1>r, <1>s, <2>1 DEF Row
<1>9. ASSUME NEW m \in Messages, Expire(m) PROVE PromiseStep
  <2>1. row' = [row EXCEPT ![m] = [row[m] EXCEPT !.live = FALSE]]
    BY <1>9 DEF Expire, LeaseLapses
  <2> QED BY <1>r, <1>s, <2>1 DEF Row
<1>10. ASSUME NEW m \in Messages, NEW o \in Owners, Reclaim(m, o) PROVE PromiseStep
  <2>1. row' = [row EXCEPT ![m] = Reclaimed(row[m], o)] BY <1>10 DEF Reclaim
  <2> QED BY <1>r, <1>s, <2>1 DEF Row, Reclaimed
<1>11. CASE row' = row BY <1>s, <1>11
<1>12. UserStep => PromiseStep
  BY <1>1, <1>2, <1>3, <1>4, <1>5, <1>7, <1>8, <1>11
     DEF UserStep, BeginContinue, CommitContinue, AbortTx, CloseSession, BeginAdmit, BeginPrioritize
<1>13. LeaseStep => PromiseStep
  BY <1>6, <1>9, <1>10, <1>11 DEF LeaseStep, NothingToClaim, BeginClaim
<1> QED BY <1>12, <1>13

\* The members of a live run wait with it.
LEMMA MembersWait ==
  ASSUME RunnerInv, NEW l \in Messages, row[l].status = "running", NEW x \in Members(l)
  PROVE  x \in Messages /\ x # l /\ row[x].status = "queued"
BY RowFacts, QueueAssumption DEF Members, Waits, Unfinished

\* A run is settled.
LEMMA SettlePromise ==
  ASSUME RunnerInv, NEW o \in Owners, At(o, Holding),
         NEW s \in {"completed", "failed", "cancelled", "interrupted"},
         Settle(Mine(o), s), turns' = turns,
         s \in Settled => Knows("finish", Mine(o)) \/ Knows("cancelFinal", Mine(o))
  PROVE  PromiseStep
<1> DEFINE H == {m \in Messages : Shown(m) \/ \E h \in Messages : m \in turns[h].steered}
<1>h. UNCHANGED {m \in Messages : Shown(m) \/ \E l \in Messages : m \in turns[l].steered}
  BY DEF Shown
<1>p. PICK l \in Messages : l = Mine(o).msg BY MineType
<1>1. Owned(Mine(o)) BY DEF Settle, Fenced
<1>r. row[l].group = NoMessage /\ row[l].status = "running" /\ row \in [Messages -> Row]
  BY <1>p, <1>1, RunFacts
<1>3. \A x \in Messages : row'[x] =
        IF x = l THEN [Released(row[x], s) EXCEPT !.result = NoResult]
        ELSE IF x \in Members(l) THEN MemberSettled(row[x], s) ELSE row[x]
  BY <1>p DEF Settle, Members
<1>4. row'[l].status = s
  <2>1. row'[l] = [Released(row[l], s) EXCEPT !.result = NoResult] /\ row[l] \in Row
    BY <1>3, <1>r
  <2> QED BY <2>1, SettledRows
<1>5. ASSUME NEW x \in Members(l)
      PROVE  /\ x \in Messages /\ row[x].status = "queued"
             /\ row'[x].status = IF s \in Unfinished \/ row[x].steer = "delivered" THEN s ELSE "queued"
  <2>1. x \in Messages /\ x # l /\ row[x].status = "queued" BY <1>r, MembersWait
  <2>2. row'[x] = MemberSettled(row[x], s) /\ row[x] \in Row BY <1>3, <1>r, <2>1
  <2> QED BY <2>1, <2>2, SettledRows
<1>6. \A x \in Messages : x # l /\ x \notin Members(l) => row'[x] = row[x] BY <1>3
<1>7. CASE s \in Unfinished
  <2> DEFINE S == Members(l)
  <2>1. S \in SUBSET Messages BY DEF Members
  <2>2. Phase(s) = "unfinished" BY <1>7, Phases DEF Unfinished
  <2>3. \A x \in Messages : Phase(row'[x].status) =
           IF x \in {l} \cup S THEN "unfinished" ELSE Phase(row[x].status)
    BY <1>4, <1>5, <1>6, <1>7, <2>2
  <2>4. S \subseteq Promise!In("waiting") BY <1>5, Phases DEF Promise!In
  <2>5. Promise!Become({l} \cup S, "unfinished") BY <2>3, BecomePhase
  <2>6. Promise!Suspend(l, S) BY <1>h, <1>r, <2>4, <2>5, Phases DEF Promise!Suspend
  <2> HIDE DEF S
  <2> QED BY <2>1, <2>6 DEF PromiseStep, Promise!Next
<1>8. CASE s \notin Unfinished
  <2> DEFINE S == Delivered(l)
  <2>1. S \in SUBSET Messages /\ S \subseteq Members(l) BY DEF Members, Delivered
  <2>2. Phase(s) = "done" /\ s \in Settled BY <1>8, Phases DEF Unfinished, Settled
  <2>3. ASSUME NEW x \in Messages
        PROVE  Phase(row'[x].status) = IF x \in {l} \cup S THEN "done" ELSE Phase(row[x].status)
    <3>1. CASE x = l BY <1>4, <2>2, <3>1
    <3>2. CASE x \in Members(l)
      <4>1. x \in S <=> row[x].steer = "delivered" BY <3>2 DEF Delivered
      <4>2. x # l BY <1>r, <3>2, MembersWait
      <4> HIDE DEF S
      <4> QED BY <1>5, <1>8, <2>2, <3>2, <4>1, <4>2
    <3>3. CASE x # l /\ x \notin Members(l) BY <1>6, <2>1, <3>3
    <3> QED BY <3>1, <3>2, <3>3
  <2>4. S \subseteq Promise!In("waiting") BY <1>5, <2>1, Phases DEF Promise!In
  <2>5. Promise!Become({l} \cup S, "done") BY <2>3, BecomePhase
  <2>6. turns[l].text > 0 /\ S \subseteq turns[l].steered BY <1>p, <2>2 DEF Knows
  <2>7. {l} \cup S \subseteq H
    <3>1. turns[l] # NoTurn BY <2>6 DEF NoTurn
    <3> QED BY <2>1, <2>6, <3>1 DEF Shown
  <2>8. Promise!Finish(l, S)
    BY <1>h, <1>r, <2>4, <2>5, <2>7, Phases DEF Promise!Finish
  <2> HIDE DEF S
  <2> QED BY <2>1, <2>8 DEF PromiseStep, Promise!Next
<1> QED BY <1>7, <1>8

\* The turn of a live run is written: its message and what was delivered to it
\* enter the history together.
LEMMA TurnPromise ==
  ASSUME RunnerInv, row' = row, NEW o \in Owners, At(o, Holding), Owned(Mine(o)), NEW turn,
         turn.text > 0, turn.steered = Delivered(Mine(o).msg), SaveTurn(Mine(o), turn)
  PROVE  PromiseStep
<1>p. PICK l \in Messages : l = Mine(o).msg BY MineType
<1>r. row[l].status = "running" BY <1>p, RunFacts
<1>t. /\ turns' = [turns EXCEPT ![l] = IF turns[l] = NoTurn THEN turn ELSE turns[l]]
      /\ turns \in [Messages -> [task : Nat, text : Nat, reads : Nat, steered : SUBSET Messages]]
  BY <1>p DEF SaveTurn, RunnerInv, RunnerTypeOK
<1>1. CASE turns[l] # NoTurn
  <2>1. turns' = turns BY <1>1, <1>t
  <2> QED BY <2>1, StillPromise
<1>2. CASE turns[l] = NoTurn
  <2>0. PICK S : S = Delivered(l) OBVIOUS
  <2> DEFINE H == {m \in Messages : Shown(m) \/ \E h \in Messages : m \in turns[h].steered}
             HNew == {m \in Messages : turns'[m] # NoTurn \/ \E h \in Messages : m \in turns'[h].steered}
  <2>1. S \in SUBSET Messages /\ S \subseteq Members(l) BY <2>0 DEF Members, Delivered
  <2>2. turns'[l] = turn /\ \A m \in Messages \ {l} : turns'[m] = turns[m] BY <1>2, <1>t
  <2>3. turn # NoTurn BY DEF NoTurn
  <2>4. turns[l].steered = {} /\ turn.steered = S BY <1>2, <1>p, <2>0 DEF NoTurn
  <2>5. HNew = H \cup {l} \cup S
    <3>1. ASSUME NEW m \in HNew PROVE m \in H \cup {l} \cup S
      <4>1. CASE turns'[m] # NoTurn BY <2>2, <4>1 DEF Shown
      <4>2. CASE \E h \in Messages : m \in turns'[h].steered
        <5>1. PICK h \in Messages : m \in turns'[h].steered BY <4>2
        <5>2. CASE h = l BY <2>2, <2>4, <5>1, <5>2
        <5>3. CASE h # l BY <2>2, <5>1, <5>3
        <5> QED BY <5>2, <5>3
      <4> QED BY <4>1, <4>2
    <3>2. ASSUME NEW m \in H PROVE m \in HNew
      <4>1. CASE Shown(m) BY <1>2, <2>2, <4>1 DEF Shown
      <4>2. CASE \E h \in Messages : m \in turns[h].steered
        <5>1. PICK h \in Messages : m \in turns[h].steered BY <4>2
        <5>2. h # l BY <2>4, <5>1
        <5> QED BY <2>2, <5>1, <5>2
      <4> QED BY <4>1, <4>2
    <3>3. l \in HNew BY <2>2, <2>3
    <3>4. S \subseteq HNew BY <2>1, <2>2, <2>4
    <3> QED BY <3>1, <3>2, <3>3, <3>4
  <2>6. S \subseteq Promise!In("waiting")
    <3>1. \A x \in S : x \in Messages /\ row[x].status = "queued" BY <1>r, <2>1, MembersWait
    <3> QED BY <3>1, Phases DEF Promise!In
  <2>7. Promise!Write(l, S)
    <3>1. H' = HNew BY DEF Shown
    <3>2. H' = H \cup {l} \cup S BY <2>5, <3>1
    <3>3. Phase(row[l].status) = "working" BY <1>r, Phases
    <3> HIDE DEF HNew, H
    <3> QED BY <2>6, <3>2, <3>3 DEF Promise!Write, H
  <2> QED BY <2>1, <2>7 DEF PromiseStep, Promise!Next
<1> QED BY <1>1, <1>2

LEMMA ThreadPromise == ASSUME RunnerInv, NEW o \in Owners, RunThread(o) PROVE PromiseStep
<1> DEFINE f == Mine(o)
<1>s. ASSUME row' = row, turns' = turns PROVE PromiseStep BY <1>s, StillPromise
<1>l. ASSUME \A x \in Messages : row'[x].status = row[x].status, turns' = turns PROVE PromiseStep
  BY <1>l, StillPromise
<1>f. At(o, Holding) => f.msg \in Messages BY MineType
<1>r. row \in [Messages -> Row] BY DEF RunnerInv, ShapeInv, TypeInv, TypeOK
<1>1. ASSUME NEW S, NEW a, NEW b, SteerMembers(f, S, a, b), History PROVE PromiseStep
  <2>1. ASSUME NEW x \in Messages PROVE row'[x].status = row[x].status
    <3>1. row'[x] = row[x] \/ row'[x] = [row[x] EXCEPT !.steer = b] BY <1>1 DEF SteerMembers
    <3> QED BY <1>r, <3>1 DEF Row
  <2> QED BY <1>1, <1>l, <2>1 DEF History
<1>2. CASE Pull(o) \/ Consume(o)
  BY <1>1, <1>2 DEF Pull, Consume, ClaimMembers, Acknowledge, MarkUnsupported
<1>3. CASE FinalCheckpoint(o)
  <2>1. f.msg \in Messages BY <1>3, <1>f DEF FinalCheckpoint, At, Holding, Pcs
  <2>2. row' = [row EXCEPT ![f.msg] = [row[f.msg] EXCEPT !.closed = TRUE]]
    BY <1>3 DEF FinalCheckpoint, CloseIntake
  <2>3. \A x \in Messages : row'[x].status = row[x].status BY <1>r, <2>1, <2>2 DEF Row
  <2> QED BY <1>3, <1>l, <2>3 DEF FinalCheckpoint, History
<1>4. CASE Answer(o)
  <2>1. f.msg \in Messages BY <1>4, <1>f DEF Answer, At, Holding, Pcs
  <2>2. row' = [row EXCEPT ![f.msg] = [row[f.msg] EXCEPT
                  !.result = [run |-> f.run, text |-> row[f.msg].text]]]
    BY <1>4 DEF Answer, RecordResult
  <2>3. \A x \in Messages : row'[x].status = row[x].status BY <1>r, <2>1, <2>2 DEF Row
  <2> QED BY <1>4, <1>l, <2>3 DEF Answer, History
<1>5. CASE Lineage(o)
  <2>1. CASE RecordLineage(f) /\ turns' = turns
    <3>1. f.msg \in Messages BY <1>5, <1>f DEF Lineage, At, Holding, Pcs, Persisting
    <3>2. row' = [row EXCEPT ![f.msg] = [row[f.msg] EXCEPT !.lineage = TRUE]]
      BY <2>1 DEF RecordLineage
    <3>3. \A x \in Messages : row'[x].status = row[x].status BY <1>r, <3>1, <3>2 DEF Row
    <3> QED BY <1>l, <2>1, <3>3
  <2> QED BY <1>5, <1>s, <2>1 DEF Lineage, NotPersisted, OnlyGoto, queueVars
<1>6. CASE Save(o)
  <2> DEFINE turn == [task |-> row[f.msg].result.run, text |-> row[f.msg].text,
                      reads |-> row[f.msg].result.text, steered |-> Delivered(f.msg)]
  <2>1. CASE Fenced(f) /\ SaveTurn(f, turn) /\ row' = row
    <3>1. At(o, Holding) /\ Owned(f) BY <1>6, <2>1 DEF Save, At, Holding, Pcs, Persisting, Fenced
    <3>2. turn.text > 0 /\ turn.steered = Delivered(f.msg) BY <3>1, RunFacts
    <3> HIDE DEF turn
    <3> QED BY <2>1, <3>1, <3>2, TurnPromise
  <2> QED BY <1>6, <1>s, <2>1 DEF Save, NotPersisted, OnlyGoto, queueVars
<1>7. CASE SaveCancelled(o)
  <2> DEFINE turn == [task |-> 0, text |-> row[f.msg].text, reads |-> 0, steered |-> Delivered(f.msg)]
  <2>1. CASE Owned(f) /\ SaveTurn(f, turn) /\ row' = row
    <3>1. At(o, Holding) BY <1>7 DEF SaveCancelled, At, Holding, Pcs, Stopping
    <3>2. turn.text > 0 /\ turn.steered = Delivered(f.msg) BY <2>1, <3>1, RunFacts
    <3> HIDE DEF turn
    <3> QED BY <2>1, <3>1, <3>2, TurnPromise
  <2> QED BY <1>7, <1>s, <2>1 DEF SaveCancelled, OnlyGoto, queueVars
<1>8. CASE Finish(o)
  <2>1. At(o, Holding) /\ thread[o].pc = "finish" BY <1>8 DEF Finish, At, Holding, Pcs, Persisting
  <2>2. CASE Settle(f, "completed") /\ History
    <3>1. Owned(f) BY <2>2 DEF Settle, Fenced
    <3>2. Knows("finish", f) BY <2>1, <3>1, RunFacts
    <3> QED BY <2>1, <2>2, <3>2, SettlePromise DEF History
  <2> QED BY <1>8, <1>s, <2>2 DEF Finish, NotPersisted, OnlyGoto, queueVars
<1>9. CASE FinishCancelled(o) \/ FinalizeCancelled(o)
  <2>1. At(o, Holding) /\ thread[o].pc \in {"finishCancelled", "cancelFinal"}
    BY <1>9 DEF FinishCancelled, FinalizeCancelled, At, Holding, Pcs, Persisting, Stopping
  <2>2. CASE Settle(f, "cancelled") /\ History
    <3>1. Owned(f) BY <2>2 DEF Settle
    <3>2. Knows("cancelFinal", f) BY <2>1, <3>1, RunFacts DEF Knows
    <3> QED BY <2>1, <2>2, <3>2, SettlePromise DEF History
  <2> QED BY <1>9, <1>s, <2>2 DEF FinishCancelled, FinalizeCancelled, NotPersisted, OnlyGoto, queueVars
<1>10. CASE Retain(o)
  <2>1. At(o, Holding) BY <1>10 DEF Retain, At, Holding, Pcs, Retaining
  <2>2. ASSUME NEW s \in {"failed", "interrupted"}, Settle(f, s), History PROVE PromiseStep
    BY <2>1, <2>2, SettlePromise DEF History, Settled
  <2> QED BY <1>10, <1>s, <2>2 DEF Retain, OnlyGoto, queueVars
<1>11. CASE Pending(o)
  <2>1. CASE MarkPersistencePending(f) /\ History
    <3>1. At(o, Holding) BY <1>11 DEF Pending, At, Holding, Pcs
    <3>2. PICK l \in Messages : l = f.msg BY <1>f, <3>1
    <3>3. row[l].status = "running" BY <2>1, <3>2 DEF MarkPersistencePending, Fenced, Owned
    <3>4. row' = [row EXCEPT ![l] = Released(row[l], "failed")]
      BY <2>1, <3>2 DEF MarkPersistencePending
    <3>5. row'[l].status = "failed" /\ \A x \in Messages \ {l} : row'[x] = row[x]
      BY <1>r, <3>4 DEF Released, Row
    <3>6. \A x \in Messages : Phase(row'[x].status) =
            IF x \in {l} \cup {} THEN "unfinished" ELSE Phase(row[x].status)
      BY <3>5, Phases
    <3>7. Promise!Become({l} \cup {}, "unfinished") BY <3>6, BecomePhase
    <3>8. UNCHANGED {m \in Messages : Shown(m) \/ \E h \in Messages : m \in turns[h].steered}
      BY <2>1 DEF Shown, History
    <3>9. Promise!Suspend(l, {}) BY <3>3, <3>7, <3>8, Phases DEF Promise!Suspend
    <3>10. {} \in SUBSET Messages OBVIOUS
    <3> QED BY <3>9, <3>10 DEF PromiseStep, Promise!Next
  <2> QED BY <1>11, <1>s, <2>1 DEF Pending, OnlyGoto, queueVars
<1>12. CASE Unwind(o) \/ Withdrawn(o)
  BY <1>12, <1>s DEF Unwind, Withdrawn, OnlyGoto, queueVars
<1> QED BY <1>2, <1>3, <1>4, <1>5, <1>6, <1>7, <1>8, <1>9, <1>10, <1>11, <1>12 DEF RunThread

\* An intake that opens, or is closed by force, settles nothing.
LEMMA SelectPromise == ASSUME RunnerInv, NEW o \in Owners, Select(o) PROVE PromiseStep
<1> DEFINE f == Mine(o)
<1>f. f.msg \in Messages BY MineType DEF Select, At, Holding, Pcs
<1>r. row \in [Messages -> Row] BY DEF RunnerInv, ShapeInv, TypeInv, TypeOK
<1>1. ASSUME NEW x \in Messages PROVE row'[x].status = row[x].status
  <2>1. CASE OpenIntake(f)
    <3>1. row' = [row EXCEPT ![f.msg] = [row[f.msg] EXCEPT !.closed = FALSE]]
      BY <2>1 DEF OpenIntake
    <3> QED BY <1>f, <1>r, <3>1 DEF Row
  <2>2. CASE ForceCloseIntake(f)
    <3>1. row'[x] \in {[row[x] EXCEPT !.closed = TRUE], [row[x] EXCEPT !.group = NoMessage], row[x]}
      BY <2>2 DEF ForceCloseIntake
    <3> QED BY <1>r, <3>1 DEF Row
  <2> QED BY <2>1, <2>2 DEF Select
<1> QED BY <1>1, StillPromise DEF Select, History

LEMMA StepPromise == RunnerInv /\ [RunnerNext]_runnerVars => PromiseStep
<1> SUFFICES ASSUME RunnerInv, [RunnerNext]_runnerVars PROVE PromiseStep OBVIOUS
<1>s. ASSUME row' = row, turns' = turns PROVE PromiseStep BY <1>s, StillPromise
<1>u. ASSUME UserStep \/ LeaseStep, turns' = turns PROVE PromiseStep BY <1>u, UserPromise
<1>w. \A w \in Workers : Job(w) \in Owners /\ Recovery(w) \in Owners
  BY RunnerAssumption DEF Job, Recovery
<1>1. CASE User
  <2>1. UserStep \/ LeaseStep BY <1>1 DEF User, UserStep, LeaseStep
  <2> QED BY <1>1, <1>u, <2>1 DEF User, History
<1>2. ASSUME NEW w \in Workers, JobThread(w) PROVE PromiseStep
  <2>1. PICK o \in Owners : o = Job(w) BY <1>w
  <2>2. CASE Poll(o) \/ Replay(o) BY <1>s, <2>2 DEF Poll, Replay, OnlyGoto, queueVars
  <2>3. CASE StartClaim(o)
    <3>1. CASE BeginClaim(o) /\ History BY <1>u, <2>1, <3>1 DEF LeaseStep, History
    <3> QED BY <1>s, <2>3, <3>1 DEF StartClaim, OnlyGoto, queueVars
  <2>4. CASE Claim(o)
    <3>1. LeaseStep BY <2>4, RunnerAssumption DEF Claim, LeaseStep
    <3> QED BY <1>u, <2>4, <3>1 DEF Claim, History
  <2> QED BY <1>2, <2>1, <2>2, <2>3, <2>4, SelectPromise, ThreadPromise DEF JobThread
<1>3. ASSUME NEW w \in Workers, RecoveryThread(w) PROVE PromiseStep
  <2>1. PICK o \in Owners : o = Recovery(w) BY <1>w
  <2>2. CASE Recover(o)
    <3>1. LeaseStep BY <2>2 DEF Recover, LeaseStep
    <3> QED BY <1>u, <2>2, <3>1 DEF Recover, History
  <2> QED BY <1>3, <2>1, <2>2, ThreadPromise DEF RecoveryThread
<1>4. ASSUME NEW w \in Workers, Crash(w) PROVE PromiseStep
  BY <1>4, <1>s DEF Crash, Fail, queueVars
<1>5. ASSUME NEW o \in Owners, SourcesChanged(o) \/ Fault(o) \/ Shutdown(o) PROVE PromiseStep
  BY <1>5, <1>s DEF SourcesChanged, Fault, Shutdown, Fail, queueVars
<1>6. ASSUME NEW m \in Messages, Orphaned(m) PROVE PromiseStep
  <2>1. row' = [row EXCEPT ![m] = [row[m] EXCEPT !.live = FALSE]] BY <1>6 DEF Orphaned, LeaseLapses
  <2>2. \A x \in Messages : row'[x].status = row[x].status
    BY <2>1 DEF RunnerInv, ShapeInv, TypeInv, TypeOK, Row
  <2> QED BY <1>6, <2>2, StillPromise DEF Orphaned, History
<1>7. CASE Abort BY <1>7, <1>s DEF Abort, AbortTx, History
<1>8. CASE UNCHANGED runnerVars BY <1>8, <1>s DEF runnerVars
<1> QED BY <1>1, <1>2, <1>3, <1>4, <1>5, <1>6, <1>7, <1>8 DEF RunnerNext

\* The queue keeps its promise to its users: with every interleaving of its
\* users, threads, recoveries, crashes and failures, accepted messages are worked
\* on one at a time and none is done before the history shows it.
THEOREM PromiseKept == RunnerSafety => KeepsPromise
<1>1. RunnerInit => Promise!Init
  <2> SUFFICES ASSUME RunnerInit PROVE Promise!Init OBVIOUS
  <2>1. \A m \in Messages : row[m].status = "absent" /\ turns[m] = NoTurn
    BY DEF RunnerInit, Init0, Absent, Inserted
  <2>2. NoTurn.steered = {} BY DEF NoTurn
  <2> QED BY <2>1, <2>2, Phases DEF Promise!Init, Shown
<1>2. RunnerInv /\ [RunnerNext]_runnerVars => [Promise!Next]_(Promise!promiseVars)
  BY StepPromise DEF PromiseStep
<1> QED BY <1>1, <1>2, RunnerInvariant, PTL DEF RunnerSafety, KeepsPromise, Promise!Spec
=============================================================================
