---------------------- MODULE ConversationQueueRunner ----------------------
(***************************************************************************)
(* The program that runs the queue: ConversationQueueRunner, the steering  *)
(* feed a run is given, the persistence of its answer and of a stopped     *)
(* run, and the recovery loop.                                             *)
(*                                                                         *)
(* A worker process has two threads in a Session, each with a lease owner  *)
(* of its own: the job (sessionsInFlight admits one) and the recovery      *)
(* loop.  Every await of the source that another actor can slip into is a  *)
(* boundary between two actions.                                           *)
(*                                                                         *)
(* Session history is what the queue writes to it: one turn per message.   *)
(* Answers are abstracted to the run that produced them and the version of *)
(* the message they answer.                                                *)
(***************************************************************************)
EXTENDS ConversationQueue

CONSTANTS
  Workers,          \* backend processes with a queue runner
  AcceptsSteering,  \* the deployment may select a provider that is steered
  ImageMessages,    \* messages that carry images
  MaxFolded,        \* CONVERSATION_STEER_MAX_FOLDED
  Risk,             \* bound: how often each kind of failure happens
  MaxLeases         \* bound: leases of one message after which none is orphaned

Job(w) == <<w, "job">>
Recovery(w) == <<w, "recovery">>

ASSUME RunnerAssumption ==
  /\ Owners = Workers \X {"job", "recovery"}
  /\ AcceptsSteering \in BOOLEAN
  /\ ImageMessages \subseteq Messages
  /\ MaxFolded \in Nat
  /\ \A k \in DOMAIN Risk : Risk[k] \in Nat
  /\ MaxLeases \in Nat

VARIABLES
  thread,   \* where each thread is, the fence it holds, its pulled batch
  turns,    \* the canonical turn of each message in the Session history
  evidence, \* ghost: how often lineage and audit rows of each message were written
  failed    \* how much of Risk is used

runnerVars == <<row, paused, nextSeq, open, tx, fences, spent, thread, turns, evidence, failed>>

----------------------------------------------------------------------------
NoFence == [msg |-> NoMessage, run |-> 0, owner |-> NoOwner, gen |-> 0]
Idle == [pc |-> "idle", fence |-> NoFence, batch |-> {}]

\* task 0 is the marker of a stopped run, text 0 is no turn at all.
NoTurn == [task |-> 0, text |-> 0, reads |-> 0, steered |-> {}]

Persisting == {"lineage", "save", "finish", "finishCancelled"}
Retaining == {"failing", "interrupting", "failingBare", "interruptingBare"}
Stopping == {"cancelSave", "cancelFinal"}
Pcs == {"idle", "polled", "claiming", "claimed", "working", "pending"}
         \cup Persisting \cup Retaining \cup Stopping

At(o, S) == thread[o].pc \in S
Mine(o) == thread[o].fence

Goto(o, p) ==
  thread' = [thread EXCEPT ![o] = IF p = "idle" THEN Idle ELSE [@ EXCEPT !.pc = p]]

\* A step of a thread that changes nothing in the database.
OnlyGoto(o, p) == Goto(o, p) /\ UNCHANGED queueVars /\ UNCHANGED <<turns, evidence, failed>>

\* The rest of a step that is one operation on the queue.
History == UNCHANGED <<turns, evidence, failed>>

\* A failure: it changes threads, and nothing that is stored.
Fail(k) ==
  /\ failed[k] < Risk[k]
  /\ failed' = [failed EXCEPT ![k] = @ + 1]
  /\ UNCHANGED queueVars /\ UNCHANGED <<turns, evidence>>

RunnerInit ==
  /\ Init0
  /\ thread = [o \in Owners |-> Idle]
  /\ turns = [m \in Messages |-> NoTurn]
  /\ evidence = [m \in Messages |-> 0]
  /\ failed = [k \in DOMAIN Risk |-> 0]

----------------------------------------------------------------------------
(* The job: poll, claim, select a provider. *)

Runnable == ~paused /\ Claimable # {} /\ WithStatus({"running"}) = {}

Poll(o) == At(o, {"idle"}) /\ Runnable /\ OnlyGoto(o, "polled")

StartClaim(o) ==
  /\ At(o, {"polled"})
  /\ \/ BeginClaim(o) /\ Goto(o, "claiming") /\ History
     \/ Unlocked /\ paused /\ OnlyGoto(o, "idle")

Claim(o) ==
  /\ At(o, {"claiming"})
  /\ \/ \E m \in Messages :
          /\ CommitClaim(m, AcceptsSteering)
          /\ thread' = [thread EXCEPT ![o] = [pc |-> "claimed", fence |-> Lease(m, o), batch |-> {}]]
     \/ NothingToClaim /\ Goto(o, "idle")
  /\ History

\* A stored result is persisted without a model call.
Replay(o) ==
  /\ At(o, {"claimed"})
  /\ row[Mine(o).msg].result # NoResult
  /\ OnlyGoto(o, "lineage")

\* The selected provider is steered or it is not, which decides the intake.
Select(o) ==
  /\ At(o, {"claimed"})
  /\ row[Mine(o).msg].result = NoResult
  /\ \/ AcceptsSteering /\ OpenIntake(Mine(o))
     \/ ForceCloseIntake(Mine(o))
  /\ Goto(o, "working") /\ History

----------------------------------------------------------------------------
(* The model runs.  The harness pulls a batch at a tool-safe point and      *)
(* acknowledges it before it pulls the next one; it asks for the final      *)
(* checkpoint, which closes intake, before it accepts an answer.            *)

Folded(l) == {x \in Members(l) : Consumed(x)}

\* The waiting texts that still fit, oldest first; images never do.
Deliverable(l) ==
  {x \in Waiting(l) \ ImageMessages :
     Cardinality({y \in Waiting(l) \ ImageMessages : row[y].seq <= row[x].seq})
       <= MaxFolded - Cardinality(Folded(l))}

Pull(o) ==
  LET f == Mine(o)
      refused == Waiting(f.msg) \ Deliverable(f.msg)
  IN
  /\ At(o, {"working"}) /\ thread[o].batch = {} /\ ~row[f.msg].closed /\ open
  /\ IF refused # {}
     THEN MarkUnsupported(f, refused) /\ UNCHANGED thread
     ELSE /\ ClaimMembers(f, Waiting(f.msg))
          /\ thread' = [thread EXCEPT ![o].batch = Waiting(f.msg)]
  /\ History

Consume(o) ==
  /\ At(o, {"working"}) /\ open
  /\ Acknowledge(Mine(o), thread[o].batch)
  /\ thread' = [thread EXCEPT ![o].batch = {}]
  /\ History

FinalCheckpoint(o) ==
  /\ At(o, {"working"}) /\ thread[o].batch = {} /\ open
  /\ ~row[Mine(o).msg].closed
  /\ CloseIntake(Mine(o))
  /\ UNCHANGED thread /\ History

\* Mutant: the answer is stored without the fence.
AnswerUnfenced(o) ==
  /\ At(o, {"working"}) /\ thread[o].batch = {}
  /\ row[Mine(o).msg].closed
  /\ row' = [row EXCEPT ![Mine(o).msg].result = 
       [run |-> Mine(o).run, text |-> row[Mine(o).msg].text]]
  /\ UNCHANGED <<paused, nextSeq, open, tx, fences, spent>>
  /\ Goto(o, "lineage") /\ History

Answer(o) ==
  /\ At(o, {"working"}) /\ thread[o].batch = {}
  /\ row[Mine(o).msg].closed
  /\ RecordResult(Mine(o))
  /\ Goto(o, "lineage") /\ History

\* Mutant: a stopped run is finalized without its turn.
UnwindUnsaved(o) ==
  /\ At(o, {"claimed", "working"})
  /\ ~Fenced(Mine(o))
  /\ OnlyGoto(o, IF Owned(Mine(o)) THEN "cancelFinal" ELSE "idle")

\* A heartbeat, a preview, a steering check or a refused write shows that the
\* lease is gone or a stop was committed.
Unwind(o) ==
  /\ At(o, {"claimed", "working"})
  /\ ~Fenced(Mine(o))
  /\ OnlyGoto(o, IF Owned(Mine(o)) THEN "cancelSave" ELSE "idle")

\* The Session or its sources are gone.
Withdrawn(o) ==
  /\ At(o, {"working"}) /\ ~open
  /\ OnlyGoto(o, "failing")

----------------------------------------------------------------------------
(* persistConversationQueueCompletion and the finalization after it.        *)

\* What replayPersistence's false means to its caller: the job just ends, the
\* recovery loop goes on to interrupt the run.
NotPersisted(o) == OnlyGoto(o, IF o[2] = "recovery" THEN "interrupting" ELSE "idle")

\* Mutant: the turn does not wait for the lineage.
LineageLater(o) == At(o, {"lineage"}) /\ OnlyGoto(o, "save")

Lineage(o) ==
  LET f == Mine(o) IN
  /\ At(o, {"lineage"})
  /\ \/ ~Fenced(f) /\ NotPersisted(o)
     \/ Fenced(f) /\ ~open /\ OnlyGoto(o, "failing")
     \/ /\ Fenced(f) /\ open /\ row[f.msg].lineage
        /\ OnlyGoto(o, "save")
     \/ /\ open /\ RecordLineage(f)
        /\ evidence' = [evidence EXCEPT ![f.msg] = @ + 1]
        /\ Goto(o, "save") /\ UNCHANGED <<turns, failed>>

Delivered(l) == {x \in Members(l) : row[x].steer = "delivered"}

\* saveConversationQueueTurn: the first turn stays, a matching one is a
\* success, any other one is a conflict.
Canonical(f, turn, tasks) ==
  LET kept == turns[f.msg] IN
  \/ kept = NoTurn
  \/ kept.text = turn.text /\ kept.steered = turn.steered /\ kept.task \in tasks

SaveTurn(f, turn) ==
  turns' = [turns EXCEPT ![f.msg] = IF @ = NoTurn THEN turn ELSE @]

Save(o) ==
  LET f == Mine(o)
      r == row[f.msg]
      turn == [task |-> r.result.run, text |-> r.text, reads |-> r.result.text,
               steered |-> Delivered(f.msg)]
  IN
  /\ At(o, {"save"})
  /\ \/ ~Fenced(f) /\ NotPersisted(o)
     \/ ~open /\ OnlyGoto(o, "failing")
     \/ /\ Fenced(f) /\ open /\ Canonical(f, turn, {turn.task})
        /\ SaveTurn(f, turn) /\ Goto(o, "finish")
        /\ UNCHANGED queueVars /\ UNCHANGED <<evidence, failed>>
     \/ /\ Fenced(f) /\ open /\ ~Canonical(f, turn, {turn.task})
        /\ OnlyGoto(o, "pending")

\* The sources of the answer are checked against their state at the run.
SourcesChanged(o) ==
  /\ At(o, {"save"})
  /\ Fail("revoke")
  /\ Goto(o, "failing")

Finish(o) ==
  LET f == Mine(o) IN
  /\ At(o, {"finish"})
  /\ \/ Settle(f, "completed") /\ Goto(o, "idle") /\ History
     \/ ~Fenced(f) /\ row[f.msg].status = "running" /\ OnlyGoto(o, "finishCancelled")
     \/ row[f.msg].status = "completed" /\ OnlyGoto(o, "idle")
     \/ row[f.msg].status \notin {"running", "completed"} /\ NotPersisted(o)

\* A stop raced completion: the turn was saved with the whole answer.
FinishCancelled(o) ==
  /\ At(o, {"finishCancelled"})
  /\ \/ Settle(Mine(o), "cancelled") /\ Goto(o, "idle") /\ History
     \/ ~Owned(Mine(o)) /\ NotPersisted(o)

Pending(o) ==
  /\ At(o, {"pending"})
  /\ \/ MarkPersistencePending(Mine(o)) /\ Goto(o, "idle") /\ History
     \/ ~Fenced(Mine(o)) /\ OnlyGoto(o, "idle")

----------------------------------------------------------------------------
(* Runs that end without an answer. *)

\* finalizeRetained, and the interruption by the recovery loop.  A stop that
\* won goes the way of a stopped run, if the caller passed what that takes.
Retain(o) ==
  LET f == Mine(o)
      bare == At(o, {"failingBare", "interruptingBare"})
      s == IF At(o, {"failing", "failingBare"}) THEN "failed" ELSE "interrupted"
  IN
  /\ At(o, Retaining)
  /\ \/ Settle(f, s) /\ Goto(o, "idle") /\ History
     \/ /\ ~Fenced(f) /\ row[f.msg].status = "running" /\ ~bare
        /\ OnlyGoto(o, "cancelSave")
     \/ /\ ~Fenced(f) /\ (row[f.msg].status # "running" \/ bare)
        /\ OnlyGoto(o, "idle")

\* A stopped run is never scrubbed before its message is in the history.
SaveCancelled(o) ==
  LET f == Mine(o)
      turn == [task |-> 0, text |-> row[f.msg].text, reads |-> 0,
               steered |-> Delivered(f.msg)]
      saves == /\ Owned(f) /\ row[f.msg].cancel /\ open
               /\ Canonical(f, turn, {0, f.run})
  IN
  /\ At(o, {"cancelSave"})
  /\ \/ /\ saves
        /\ SaveTurn(f, turn) /\ Goto(o, "cancelFinal")
        /\ UNCHANGED queueVars /\ UNCHANGED <<evidence, failed>>
     \/ ~saves /\ OnlyGoto(o, "idle")

FinalizeCancelled(o) ==
  /\ At(o, {"cancelFinal"})
  /\ \/ Settle(Mine(o), "cancelled") /\ Goto(o, "idle") /\ History
     \/ ~Owned(Mine(o)) /\ OnlyGoto(o, "idle")

----------------------------------------------------------------------------
(* The recovery loop takes over a lapsed run: it persists a stored result,  *)
(* else it interrupts the run.                                              *)

Recover(o) ==
  /\ At(o, {"idle"})
  /\ \E m \in Messages :
       /\ Reclaim(m, o)
       /\ thread' = [thread EXCEPT ![o] =
            [pc |-> IF row[m].result # NoResult THEN "lineage" ELSE "interrupting",
             fence |-> [Lease(m, o) EXCEPT !.run = row[m].run], batch |-> {}]]
  /\ History

----------------------------------------------------------------------------
(* What can go wrong in a process, each kind bounded by Risk. *)

\* A database or provider call throws.
Fault(o) ==
  LET kept == row[Mine(o).msg].result
      fresh == o[2] = "job" /\ kept # NoResult /\ kept.run = Mine(o).run
      to == CASE At(o, {"claimed"}) ->
                   {"failingBare", IF kept = NoResult THEN "failing" ELSE "idle"}
              [] At(o, {"working"}) -> {"failing"}
              [] At(o, Persisting) -> {"pending", IF At(o, {"lineage"}) /\ o[2] = "recovery"
                                                  THEN "idle" ELSE "pending"}
              [] At(o, {"pending"}) -> {IF fresh THEN "failing" ELSE "idle"}
              [] OTHER -> {"idle"}
  IN
  /\ ~At(o, {"idle", "claiming"})
  /\ Fail("fault")
  /\ \E p \in to : Goto(o, p)

\* close(): a run that works is interrupted, one that was just claimed does
\* not start.  Persistence is not aborted.
Shutdown(o) ==
  /\ At(o, {"claimed", "working"})
  /\ Fail("shutdown")
  /\ \E p \in IF At(o, {"claimed"}) THEN {"interrupting", "interruptingBare"}
                                     ELSE {"interrupting"} : Goto(o, p)

\* Inside the claim transaction a crash is Abort: the claim rolls back.
Crash(w) ==
  /\ \A o \in {Job(w), Recovery(w)} : ~At(o, {"claiming"})
  /\ \E o \in {Job(w), Recovery(w)} : ~At(o, {"idle"})
  /\ Fail("crash")
  /\ thread' = [thread EXCEPT ![Job(w)] = Idle, ![Recovery(w)] = Idle]

Abort ==
  /\ AbortTx
  /\ IF tx.op = "claim" THEN Goto(tx.owner, "idle") ELSE UNCHANGED thread
  /\ History

\* Nobody renews a lease whose holder is gone.  Expire is the other case: the
\* process stalls past its lease and goes on.
Orphaned(m) ==
  /\ row[m].gen < MaxLeases
  /\ \A o \in Owners : Mine(o).msg = m => ~Owned(Mine(o))
  /\ LeaseLapses(m)
  /\ UNCHANGED <<spent, thread>> /\ History

----------------------------------------------------------------------------
User ==
  /\ \/ CommitAdmit \/ BeginContinue \/ CommitContinue \/ CommitPrioritize
     \/ CloseSession \/ Sweep
     \/ \E m \in Messages :
          \/ BeginAdmit(m) \/ Stop(m) \/ Edit(m) \/ BeginPrioritize(m)
          \/ Withdraw(m) \/ Retry(m) \/ Expire(m)
  /\ UNCHANGED thread /\ History

RunThread(o) ==
  \/ Pull(o) \/ Consume(o) \/ FinalCheckpoint(o) \/ Answer(o)
  \/ Unwind(o) \/ Withdrawn(o)
  \/ Lineage(o) \/ Save(o) \/ Finish(o) \/ FinishCancelled(o) \/ Pending(o)
  \/ Retain(o) \/ SaveCancelled(o) \/ FinalizeCancelled(o)

JobThread(w) ==
  LET o == Job(w) IN
  Poll(o) \/ StartClaim(o) \/ Claim(o) \/ Replay(o) \/ Select(o) \/ RunThread(o)

RecoveryThread(w) == Recover(Recovery(w)) \/ RunThread(Recovery(w))

RunnerNext ==
  \/ User
  \/ \E w \in Workers : JobThread(w) \/ RecoveryThread(w) \/ Crash(w)
  \/ \E o \in Owners : SourcesChanged(o) \/ Fault(o) \/ Shutdown(o)
  \/ \E m \in Messages : Orphaned(m)
  \/ Abort

RunnerSafety == RunnerInit /\ [][RunnerNext]_runnerVars

\* A live process makes progress: its timers fire, its awaits return (a provider
\* call is bounded by the harness), an orphaned lease lapses and an open
\* transaction ends.  Users owe nothing.
Commit == (CommitAdmit \/ CommitContinue \/ CommitPrioritize) /\ UNCHANGED thread /\ History

RunnerSpec ==
  /\ RunnerSafety
  /\ \A w \in Workers : WF_runnerVars(JobThread(w)) /\ WF_runnerVars(RecoveryThread(w))
  /\ \A m \in Messages : WF_runnerVars(Orphaned(m))
  /\ WF_runnerVars(Commit)
  /\ WF_runnerVars(Sweep /\ UNCHANGED thread /\ History)

----------------------------------------------------------------------------
\* Every variable of the runner has its type.
RunnerTypeOK ==
  /\ thread \in [Owners -> [pc : Pcs, fence : Fence \cup {NoFence}, batch : SUBSET Messages]]
  /\ turns \in [Messages -> [task : Nat, text : Nat, reads : Nat, steered : SUBSET Messages]]
  /\ evidence \in [Messages -> Nat]
  /\ failed \in [DOMAIN Risk -> Nat]

Shown(m) == turns[m] # NoTurn

\* A settled message has lost its text in the queue, so its text is in the
\* Session history: in its own turn or folded into the turn it steered.
ScrubbedIsSaved ==
  \A m \in WithStatus({"completed", "cancelled"}) :
    Shown(m) \/ \E l \in Messages : m \in turns[l].steered

\* The promise of the queue to its users, with the rows as its phases and the
\* messages that have or share a turn as its history.
Phase(s) ==
  CASE s = "absent" -> "unknown"
    [] s = "queued" -> "waiting"
    [] s = "running" -> "working"
    [] s \in Unfinished -> "unfinished"
    [] s \in {"completed", "cancelled"} -> "done"
    [] s = "deleted" -> "removed"

Promise == INSTANCE ConversationPromise WITH
  phase <- [m \in Messages |-> Phase(row[m].status)],
  history <- {m \in Messages : Shown(m) \/ \E l \in Messages : m \in turns[l].steered}

\* Every step of the queue, its runner and its failures is a step of the
\* promise or changes nothing in it.
KeepsPromise == Promise!Spec

\* A message that waits to steer a task still has somebody to read it: its
\* task has no answer yet, or waits for a retry that delivers it again.
NoDeafLeader ==
  \A m \in Messages :
    row[m].group # NoMessage =>
      LET l == row[row[m].group] IN
      /\ l.status \in Active
      /\ row[m].steer = "awaiting" => l.result = NoResult

\* No answer shows in the history before lineage of its message is durable,
\* whichever thread or recovery saves it.
LineageBeforeTurn ==
  \A m \in Messages : turns[m].task # 0 => evidence[m] # 0

\* Lineage and its audit rows are written once per message: neither a retry with
\* a fresh run nor a replay or a recovery of the same stored result, after a crash
\* or a stall between the transactions of a completion, writes them again.
EvidenceOnce ==
  \A m \in Messages : evidence[m] <= 1

\* Whoever dies, stalls or fails, a run is settled: by its own job or by a
\* recovery, after finitely many leases.
RunSettles ==
  \A m \in Messages : row[m].status = "running" ~> row[m].status # "running"

\* A waiting message is run, folded into a run, withdrawn or swept, unless the
\* queue pauses for its user.
QueueProgress ==
  \A m \in Messages : row[m].status = "queued" ~> row[m].status # "queued" \/ paused

----------------------------------------------------------------------------
(* What comments and tests of the code claim and the code does not keep. *)

\* No message starts while an earlier one is failed or interrupted: the gate of
\* continue and prioritize.
NoRunPastHole ==
  [][\A m \in Messages :
       row[m].status # "running" /\ row'[m].status = "running"
         => WithStatus(Unfinished) = {}]_runnerVars

\* The answer in a turn was given to the text of that turn.
AnswersItsText ==
  \A m \in Messages : turns[m].task # 0 => turns[m].reads = turns[m].text

\* A stopped run can be settled: if the history has a turn for the message,
\* it is one that the cancellation of the current run accepts.
StopCanSettle ==
  \A m \in WithStatus({"running"}) :
    row[m].cancel /\ Shown(m) => turns[m].task \in {0, row[m].run}
=============================================================================
