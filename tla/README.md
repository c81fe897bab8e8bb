# Talent Signal: models of the concurrent core

This directory holds TLA+ models of the parts of the product where several
processes, devices or transactions meet: the durable conversation queue of a chat
Session with its runner and its recovery, the saves of a Session from several
devices, the draft a person types into it, the Lab's batches of paid model calls,
the task that turns screenshots into a contact, the recompilation of what rests on
a source, and the governed actions that have an effect outside. TLC checks them on
small instances; TLAPS proves the guarantees of six of the seven, and that the queue
and the saves keep their promises, for every number of messages, batches, decisions,
actions, images and failures.

Paths are relative to the repository's `src/apps/backend/src/` unless they say
otherwise.

## 1. Inventory

### The system

The product keeps people, evidence and conversations of an account in Postgres
behind a Fastify server (`app.ts`, `server.ts`); web, iOS, macOS and browser
clients only call it. Several server processes may run at once and share nothing
but the database. Anything that outlives a request is a row with a status and,
when a process works on it, a lease: a random owner, a generation and an expiry.

| Component | State it keeps | Operations | Interacts through | Hard part | Correct when |
| --- | --- | --- | --- | --- | --- |
| Conversation queue storage (`modules/conversationQueueState.ts`, `database/073_…sql`, `085_…sql`) | one row per message, one per queue (paused, next sequence, revision) | claim, renew, reclaim, record result and lineage, finalize, intake of supplements | advisory lock per Session, row locks, fenced updates | some writers take the Session lock, others only row locks | one run at a time, a lost lease writes nothing, a stop wins |
| Admission and user mutations (`conversationQueueAdmission.ts`) | the same rows, receipts of requests | admit, edit, prioritize, withdraw, retry, stop, continue | as above | a gate is read in one statement and used in a later one | order stays total, groups stay well formed, nothing runs past a failure |
| Runner (`conversationQueueRunner.ts`) | per process: active runs, Sessions in flight, timers | tick, run, replay, retain, cancel, recover, close | claims and fences; calls the model | crash or stall between any two awaits | every run is settled once, a stored answer is replayed |
| Completion (`conversationQueueCompletion.ts`) | the turn in the Session, lineage and audit rows | persist a completion, persist a cancellation | fence checked in each transaction | four transactions that must look like one | lineage before turn, turn before finalize, each idempotent |
| Steering (`conversationQueueSteering.ts`) | steering state of a message, intake flag of its leader | pull, acknowledge, final checkpoint | the harness (`apps/agent/src/claudeHarness.ts`) | a supplement arrives while its task ends | each is folded once or runs on its own |
| Sweep (`conversationQueueSweep.ts`) | – | removes the rows of an ended Session | Session and source state | runs beside a live worker | nothing of an ended Session is kept or run |
| Live transport and stream (`conversationQueueLive.ts`, `…Routes.ts`) | previews per run, dirty and last revision per stream | publish, pump | in-process events, database reads | a change that is coalesced away | an observer catches up |
| Agent Sessions (`agentSessions.ts`, `agentSessionSources.ts`) | turns, revision, tombstones, operation receipts | save, delete, sweep, cascade of sources | revision check, lock timeout and retry | saves from several devices and the runner, lost answers | no turn is lost unseen, a tombstone is final, a retry has one outcome |
| Session workbench of the web client (`src/apps/web/components/session-workbench`, `lib/server/workspaceSessions.ts`) | editor state, a durable slot per device, requests in flight | type, save, refresh, reload, delete, send, clean up | HTTP, local storage | answers that come late, twice edited or never | what was typed survives, the shown status is true |
| Idempotency (`lib/idempotency.ts`) | one record per key | claim, complete | unique index, row lock | retry of a request that still runs | one effect per key |
| Source authorization (`sourceAuthorization.ts`, `sourceRetention.ts`, `sourceLifecycle.ts`, `wiki.ts`) | decisions, compilation jobs, published knowledge | revoke, expire, restore, lease a job, compile, retry | lease, idempotency key, relationship lock | a compilation overlaps the next decision | what is published was read after every handled decision |
| Governed actions (`actions.ts`), with decisions, proposals, captures | versioned actions, approvals, grants, receipts, effects | propose, decide, approve, execute, reconcile, reverse | row locks in two different orders | authority ends while an execution waits; an outcome is unknown | no write without its approval, no effect forgotten or repeated |
| Lab jobs (`labExperimentJobs.ts`, `labJobRunner.ts`) | job, attempts, call budget | start, claim, reserve, dispatch, finish, cancel, recover | lease, row locks | worker lost after a reservation | budget kept, no call repeated |
| Screenshot contact tasks (`screenshotContactTasks.ts`, `contactTask….ts`) | task, lease epoch, checkpoints, notes of calls in flight | run, resume, confirm, cancel, delete, expire | lease epoch, row revision | a run, a resume, a cancellation and a deletion overlap | a paid call is never silently repeated, one chat filed, a deletion is complete |
| Memory review, pursuits, identity, accounts, research, meetings, telemetry, MCP | records | mostly one transaction each | row locks | – | see `PROJECT.json` |

`PROJECT.json` lists every component with its files and says of each one that is
not modelled why. Its `hazards` are the places that are hard to test, at their
line; the properties below were written for them.

### How the queue works

A user admits messages to a Session. A *task message* waits for its turn; a
message that arrives while a run accepts supplements joins that run's *steering
group*. A worker polls for Sessions with work, claims the next task message
(`running`, a fresh run id and lease), lets the model work, stores the answer in
the row, writes lineage, saves the turn in the Session and finalizes the row,
which scrubs its text. Every write of a run carries a fence (message, run, owner,
generation, lease current, no stop). When a worker is lost the lease lapses and a
recovery loop of any process takes the row over under the next generation: it
persists a stored answer or interrupts the run. A failed or interrupted message
pauses the queue until its user retries or withdraws it.

### How a Session is saved and edited

A Session row carries its turns and a revision. A save names the revision it
started from and an idempotency key; the server sweeps first (a due Session
becomes a tombstone, blocks of withdrawn sources are redacted, either of which
advances the revision), locks the sources, checks the revision, and then the row.
Decisions about a source lock in the opposite order, so a save waits at most 100
ms, gives up its transaction and tries again. The runner saves its turn by reading
the Session, merging and saving, and repeats on a conflict. The web workbench
edits a draft on top: each key press goes to a durable slot of the device, a drain
sends one save at a time, and a refresh, a reload, a deletion or a send of the
message may meet any of its answers.

### How knowledge follows its sources

Every decision about a source (revoke, expire, restore) takes back, in its own
transaction, the published knowledge that rests on it and leaves a compilation
job. The request that decided compiles at once; workers with a lease do what it
left undone. A compilation runs under a key of its decision, reads the source,
checks that it was not overtaken, and publishes.

### How a governed action has its effect

An action is proposed with an exact preview and rests on reviewed facts of its
source. A person approves one version of it; the execution locks the action and
then its approval, re-reads what it needs, writes to the destination and records
the outcome, which may be *unknown*. A readback reconciles an unknown outcome; a
reversal removes a verified effect under an approval of its own. Withdrawals,
corrections, decisions about the source and its deletion lock the approval first
and the action second.

### How a contact task works

A request of the owner – the task is created, resumed, or found running by a GET – starts
a run on the server that answers it; nothing else does. The run claims the task under a
lease epoch, sends each screenshot to a paid
preprocessing provider, lets the model search the directory and the public web,
and files one chat for the contact, at once or after its owner confirmed the
profile. Before each paid call the row notes that it is in flight; when the run is
lost in between, the outcome is unknown and only the owner may go on. The owner
may cancel, resume, confirm and delete from any device; a deletion is three
transactions.

### How a Lab batch works

`start` freezes a matrix of attempts, a call limit and the backend revision in a
job row. An execution slot (two per process) claims a queued job under a lease of
90 seconds and then repeats: reserve the next pending attempt (one transaction,
which counts it against the limit of the batch and the budget of the account's
day), let it be dispatched (the authority of the attempt is checked again, under
locks that keep a withdrawal of the source out), wait for the provider without
locks, and store the result if the attempt is still authorized. When nothing is
left it derives the job's verdict from its attempts. A job whose lease lapsed is
recovered by the maintenance of any process: if an attempt was being dispatched,
nobody knows whether it was paid, so the job ends as unknown; otherwise it is
queued again. The owner may cancel, the removal of a regression ends the jobs
started from it, and after seven days a job expires and is scrubbed.

## 2. Modules

| Module | Models | Code |
| --- | --- | --- |
| `ConversationQueue` | the rows and every operation on them; the run is *any* holder of *any* lease ever handed out | State, Admission, Sweep, SQL |
| `ConversationQueueRunner` | extends it with the program that really runs: job and recovery threads of each process, steering feed, persistence, failures | Runner, Completion, Steering |
| `ConversationPromise` | abstract: what a user of a Session may rely on | – |
| `SessionSaves` | one Session saved by devices and the runner, its sweep and the transitions of its sources | `agentSessions.ts`, `agentSessionSources.ts`, `agentHistory.ts` |
| `SessionHistory` | abstract: what the history promises about the messages of the queue | – |
| `SessionDrafts` | the draft of a Session in the workbenches of several devices and the route that stores it | `src/apps/web/components/session-workbench`, `src/apps/web/lib/server/workspaceSessions.ts` |
| `SourceCompilation` | decisions about a source, their jobs and the compilation of a relationship | `sourceAuthorization.ts`, `wiki.ts`, `lib/idempotency.ts` |
| `GovernedActions` | the actions that name one destination, and what ends their authority | `actions.ts`, `decisions.ts`, `captures.ts`, `identityCorrections.ts` |
| `ContactTasks` | one screenshot task on several servers, its owner's requests, its source and its contact | `screenshotContactTasks.ts`, `contactTask….ts`, `captures.ts`, the poll of `contact-agent-workspace.tsx` |
| `LabExperimentJobs` | batches of paid calls: the owner's operations, the execution slots, maintenance and the circumstances | `labExperimentJobs.ts`, `labJobRunner.ts`, `labRegressions.ts` |
| `ConversationQueueProofs` | the queue's storage: types, table checks, groups, order; leases are exclusive and lost for good, a stop wins | – |
| `ConversationRunnerProofs` | the runner: lineage, scrubbing, steering; it implements the storage and the promise | – |
| `SessionSavesProofs`, `LabExperimentProofs`, `SourceCompilationProofs`, `GovernedProofs`, `ContactTasksProofs`, `SessionDraftsProofs` | theorems of those modules (section 4) | – |
| `MC…` | constants of the TLC instances | – |

### ConversationQueue

State: `row[m]` is the entry of message `m` (`absent` before its admission,
`deleted` after a withdrawal or sweep); `paused` and `nextSeq` are
`conversation_queue_state`; `open` says that the Session and its sources are
available; `tx` is the transaction that holds the Session's advisory lock between
two of its statements; `fences` is every lease ever handed out; `spent` counts
bounded user actions.

*Atomicity.* Postgres runs at READ COMMITTED, so each statement sees what is
committed at its start. An operation is one action when its locks make its
statements indivisible. Finalize, markPersistencePending and recordResult do not
take the advisory lock, so a locked operation which reads a row that they can
change, and writes in a later statement, is two actions: `BeginAdmit` and
`CommitAdmit` (the leader is read before the insert), `BeginContinue` and
`CommitContinue`, `BeginPrioritize` and `CommitPrioritize` (the gate is read
before the queue is unpaused), `BeginClaim` and `CommitClaim` (paused is read
before the row is taken).

*Data.* A text is a version number (1 admitted, +1 per edit, 0 scrubbed). A
random run id is the number of the attempt. An answer is the run that gave it and
the version it read. A lease is `live` or has lapsed: `lease_expires_at > now()`
is evaluated in the database, and a heartbeat renews only a lease that is
current, so renewal needs no action. The revision of the queue and the receipts
of repeated requests only refuse or repeat; they are left out.

### ConversationQueueRunner

Each process has two threads, `Job(w)` and `Recovery(w)`, each with a lease owner
of its own. `thread[o].pc` names the await the thread stands at; every await that
another actor can slip into is a boundary between two actions.

| pc | stands at | code |
| --- | --- | --- |
| idle, polled, claiming, claimed | tick, claimNext, runOne | Runner 290–370 |
| working | the model runs; `batch` is the pulled, unacknowledged supplements | Runner 521–581, Steering 94–167 |
| lineage, save, finish, finishCancelled | persistConversationQueueCompletion, finalize after it | Completion 219–321, Runner 373–410 |
| failing, interrupting (and …Bare) | finalizeRetained; Bare is a caller that cannot save a stopped message | Runner 745–797 |
| cancelSave, cancelFinal | a stopped run: first its message into the history, then the scrub | Completion 335–395, Runner 707–743 |
| pending | markPersistencePending | Runner 799–806 |

`turns[m]` is the turn of a message in the Session history, `evidence[m]` how often
its lineage and audit rows were written: a replay or a recovery that wrote those of
the same stored result again would count twice. Failures are actions of their own: `Fault` (a database or
provider call throws, where the code catches it), `Shutdown` (`close()`), `Crash`
(a process dies), `Expire` (a process stalls past its lease and goes on),
`Orphaned` (the lease of a dead process lapses), `Abort` (an open transaction is
rolled back), `SourcesChanged` (a source of the answer was revoked meanwhile).

### ConversationPromise

Phases of a message (unknown, waiting, working, unfinished, done, removed) and the
history that the Session shows. One message is worked on at a time; it is done
only when it is in the history; supplements share the fate of their task or wait
on. There are no leases, faults or recoveries in it: `KeepsPromise` says that all
of them are invisible.

### LabExperimentJobs

State: `job[j]` is a row of `lab_experiment_jobs` (the lease id is the number of
its claim, `live` says that `lease_expires_at` is in the future, `expired` that
`expires_at` is past, `calls` is `calls_reserved`); `attempt[j][i]` is the status of
an attempt, `none` without a row; `daily` is today's counter of the account;
`current[j]` says that the source a job was started from is available;
`worker[w]` is where an execution stands; `sent[j][i]` counts provider calls and
exists only in the model.

Each transaction of the code is one action: `Claim`, `Reserve` or `NoneLeft`
(reserveAttempt), `Dispatch` or `DispatchRefused` (withCurrentAttempt around the
call), `Outcome` (the provider answers, fails, or the frozen input cannot be
verified), `Store`, `StopReserved`, `Finish`. `scrubExpired` is two statements
without a transaction and hence two actions. What an attempt asks and answers,
the hashes of its definition and the review of a stopped job are left out. A job
that was not started from a regression is one whose `current` stays true.

### SessionSaves and SessionHistory

State: `session` is the row (live, revision, turns, shown blocks, whether its
retention is due); `source`, `retracted` and `change` are the sources of its turns,
the ledger of retracted tasks and the open transaction of a transition; `save[w]`
is where the transaction of a writer stands, `receipt[w]` the operation it
committed under its key; `copy[d]` is what a device was last handed; `status[m]`
and `rounds[m]` are the run that saves the turn of a queued message.

A save is the actions between its lock waits (`Begin` with the sweep and the
receipt, `LockSources`, `Commit` with the check of the revision and the write);
`Answer` and `Busy` are its ways out, `Crash` a lost connection. A source transition is `BeginChange`
(source row locked) and `Transition` (Session row locked, blocks redacted). `Read`
is the sweep and GET; `Compose` is a device that starts its next update from its
copy; `Claim`, `SaveTurn` and `Retry` are the runner. A turn is its message and
rests on one source of its own; the turns of queued messages rest on a screenshot
that the Session lists. The claim fence of the runner is that of
`ConversationQueueRunner`; here a run is simply one writer.

`SessionHistory` is the promise: a queued message enters the history once, a
removed one never returns, a closed Session stays closed and empty.

### SessionDrafts

State: `server` (revision, draft, its time, alive, may be asked), `applied` (keys
already stored), `wire` (PUT requests: sent, heard or lost), and per device `tab`:
the page (open or not), the durable slot, the loaded detail, the editor's text,
the status line, the drain's call and attempt, the send and its phase. Everything
typed is new: draft `n` is the n-th that anybody made. `Serve` is the server's
handling of a request, `PageStep` every handler of the workbench (typing, timers,
the drain and its follow-up, refresh, reload, deletion, sending, clean-up, closing
and reopening the page), `Turn` and `Expire` the Agent's answer and the end of the
Session.

### ContactTasks

State: `task` is the row of `screenshot_contact_tasks`; epochs and revisions are only
ever compared with the current one, so `holder` is the server whose run has the
row's epoch and `view` the clients that hold its revision; `run[s]` is the run of a
server, `ask[c]` a request between two of its transactions, `watching` the clients
whose page polls the task; `source`, `observed` and
`known` are the capture, the profile observations and the contact. `billed`, `allowed`,
`asked`, `heard` and `filed` are ghosts that count provider calls, what their owner
authorized, and captures. Each transaction locks the row first and is one action;
calls of providers lie between two of them. A run is "starting" (`Started`) from the
request that began it until it asks the row for an epoch (`Claim`), which it gets only
when no lease is in force. `Poll` is the GET of a page that watches: while the task is
running it starts a run on the server it reaches, and it is the only step that takes up
a run that was lost. `source` is "gone" after this task's own request deleted the
capture and "erased" after another one did, which answers the request with 410.

### SourceCompilation

State: `version`, `source`, `elapsed` are the source; `job[d]`, `ready`, `lapsed` the
job that decision `d` left; `answer[d]` what the decision's own record says;
`compiled[d]` and `invalid` the record under the compilation's idempotency key;
`published` the snapshot the relationship shows; `thread[t]` a worker or a
request. `Decide` and `Sweep` are the transactions that decide, `Enter` is a
compilation that got its key and the relationship's lock and made its first read,
`Work` its further steps, `LosePersist`, `Fail`, `Crash` what may go wrong. Of a
snapshot only its key, the version it read and whether it found the source's
evidence matter.

### GovernedActions

State: `source[a]` and `fact[a]` are what action `a` rests on, `action`, `approval`,
`grants`, `reversal` the governed rows, `dest` the destination with ghosts for the
action and version that wrote it, `seen` and `undone` the observation and reversal
of an effect; `exec`, `revoking` and `change` are open transactions. An operation
that holds every row it uses from its first statement is one action (approve,
revise, reconcile, reverse, decide about a fact); the execution, the withdrawal of
an approval and the changes of a source (decision, correction, deletion) are one
action per statement that takes a lock. `Abort` is a deadlock victim or a lost
connection.

## 3. Runs

| Run | Instance | Shows |
| --- | --- | --- |
| `queue_storage` | 3 messages, a holder of any lease it ever had, any 2 kinds of user action, stall or rollback | `TableChecks` (no CHECK of 073/085 is ever hit), `SingleAuthority`, `AuthorityNeverRegained`, `StopIsFinal`, `GroupShape`, `WaitingOrderTotal`: the SQL fences alone suffice |
| `runner_recovery` | 1 process with both threads, 2 messages of which one may have an image, any 2 kinds of user action, any of the failures once | `EvidenceOnce`, `LineageBeforeTurn`, `ScrubbedIsSaved`, `NoDeafLeader`, refinement `KeepsPromise` |
| `runner_progress` | 2 processes, 2 messages; a crash, a stall, a stop or the end of the Session; with fairness | `RunSettles`, `QueueProgress`, and the refinement `StorageSpec`: the runner uses the tables only as `ConversationQueue` allows, so what is proved there holds of it |
| `sessions` | 1 message of the queue, 1 of the devices, 2 devices, 2 lock attempts, 2 rounds, any 2 kinds of event; with fairness | `SavesTypeOK`, `WithdrawnStaysHidden`, `KnownOutcome`, `NothingLostUnseen`, refinement `KeepsHistory`, `SaveEnds` |
| `drafts` | 2 devices, any one kind of unusual event beside visiting, typing, sending and the Agent's answer | `DraftsTypeOK`, `TypedSurvives`, `StatusIsTrue`, `CleanupOnlySent` |
| `contact_tasks` | 1 image, 2 servers, 1 client, any one kind of failure or a page that is closed, beside resume, research and delete; with fairness | `TasksTypeOK`, `NoSilentRepeat`, `FiledOnce`, `DeletionLeavesNothing`, `TaskSettles` |
| `compilation` | 2 workers, 1 request, 2 decisions, any one kind of failure; with fairness | `RecompiledAfterDecision`, `CompilationEnds` |
| `governed` | 2 actions on one destination, approve twice, any 2 other kinds of event | `StandingEffectIsKnown`, `EffectIsApproved` |
| `lab` | 2 batches of 2 attempts, 2 calls each, 3 a day, 2 slots of which one is of another build, any one kind of failure (stalls and lost slots twice); with fairness | `PaidOnce`, `CancelledWasNotCalled`, `HonestVerdict`, `PaidWithinDay`, `OutcomeIsFinal`, `NoCallAfterRevocation`, `JobEnds` |

Three runs end in a counterexample: the code does not do what a comment or a
document of the repository says. Each is in `PROJECT.json` "findings" with the
quoted line.

| Run | Property | What happens |
| --- | --- | --- |
| `queue_hole` | `NoRunPastHole` | prioritize reads its gate; a running message fails and pauses the queue; prioritize unpauses it; the next message runs past the failed one |
| `draft_overwrite` | `NeverOverwritesUnseen` | a refresh of an open Session takes over the revision of another device's newer draft but keeps the own text; the next save overwrites a draft that nobody here saw |
| `stuck_compilation` | `EveryJobCompletes` | a decision takes back the stored answer of a compilation whose job has not recorded it yet; that job replays a key without an answer for ever |

### Further configurations

These instances are kept beside the runs: each ends in the counterexample named,
which is why the property is not among the checked ones, or is a wider instance of
a run.

| Configuration (module) | Property | What it shows |
| --- | --- | --- |
| `MCRunnerSteering` (`MCConversationQueueRunner`) | `ScrubbedIsSaved`, `NoDeafLeader` | pass with three messages, so that two supplements wait for one leader |
| `MCEditAfterAnswer` (same) | `AnswersItsText` | persistence fails, the user retries (the answer is kept, `conversationQueueAdmission.ts:336`) and edits before the replay (`:340`); the old answer is saved under the new text |
| `MCStuckStop` (same) | `StopCanSettle` | the turn was saved, finalize failed, the user retried and stopped the replay: its cancellation conflicts with the turn, in every recovery again (`conversationQueueCompletion.ts:432`) |
| `MCLabLostCall` (`MCLabExperimentJobs`) | `LostIsUnknown` | a slot stalls past its lease while the provider answers: its result is refused, but it may finish the job, and its attempt stays in dispatch for ever (`labExperimentJobs.ts:252` against `docs/decisions/0012…`, line 43) |
| `MCContactDeletion` (`MCContactTasks`) | `ToldDeletedIsGone` | a deletion commits its intent and then fails in `deleteCapture`: from then on the task loads as deleted and the client offers no further deletion (`contact-agent-workspace.tsx:481–488`), while the capture is active |
| `MCStuckSaving` (`MCSessionDrafts`) | `SavingHasASave` | a failing DELETE while a save is in flight leaves the editor in "saving" although nothing is sent any more (`session-detail-state.ts:97–98` says a failed save always exposes a retry) |
| `MCEffectAfterLoss` (`MCGovernedActions`) | `NoEffectAfterLoss` | see below |

With the property of `MCEffectAfterLoss.cfg` exchanged, the same instance finds
three more statements about governed actions violated:

* `NoEffectAfterLoss` (`docs/architecture.md:203`: loss of authorization makes every
  dependent action unavailable). An approval is withdrawn, so the action is
  "revoked"; the decision about the source updates the actions and skips this one
  without a lock; it is revised, approved and executed on facts whose retraction is
  not committed yet; the decision commits, then the write.
* `DeletedLeavesNothing` (`architecture.md:271`). An execution can be approved and
  commit between two statements of `deleteCapture`; and the deletion never touches
  the reversal approvals, which keep the exact text of the effect.
* `AdmittedInTime` (`architecture.md:208`: the deadline is enforced when evidence is
  used). `executeAction` does not look at the deadline.
* `RevokedIsResolved` (`sourceAuthorization.ts:416`). The check for unresolved effects
  (line 402) takes no lock.

### What the counterexamples and the modelling also showed

No document or test contradicts these, but a reader of the code should know them.

* *Queue.* Lineage is recorded once per message: when an answer is discarded after
  its lineage was written and the message is retried, the turn of the second run
  has no lineage of that run, which is why `LineageBeforeTurn` speaks of the
  message. A process that closes between the claim of a replay and the replay
  (`conversationQueueRunner.ts:353`) discards the stored answer.
* *Sessions.* When a turn was saved but its run not finalized and a device removes
  that turn, the retry under the same key is refused for good
  (`agentSessions.ts:985`).
* *Drafts.* The end of a repeated send clears the slot although the editor may hold
  a later unsaved draft; a second tab of the device shares the slot. And the clean-up
  of a message compares the *text* of the stored draft, so it can empty a draft that
  another device stored: a first save is lost to its page but still under way and is
  repeated under the same key; one of the two is stored; another device reloads that
  draft, saves another and then the same text again; the repetition is answered with
  that row, and the message that the first device sends then cleans it up. The proof
  found this, as the step it could not take; it needs more events than the run
  allows. What is emptied is text this device saved itself, which is what
  `CleanupOnlySent` states.
* *Compilation.* A compilation that read the source before a revocation and commits
  after revocation and restoration publishes retracted conclusions until the
  restoration's own compilation supersedes them. One diverged due source ends
  every pass of the sweep (`sourceAuthorization.ts:983`).
* *Governed actions.* An adapter that times out before its write to an absent
  destination leaves the action unknown for ever, because the readback finds
  nothing to compare, and its source can then never be revoked. A readback takes
  identical text for its own effect whoever wrote it. When two sources name one
  destination, deleting one erases the other's verified effect. Because the lock
  orders differ, a withdrawal and an execution can deadlock; the victim answers 500.
* *Contact tasks.* A refused cancellation has already aborted the run. Nothing in the
  backend takes up a run that was lost: a task whose process died, or whose stop
  was refused, stays "running" until somebody opens it again or the retention sweep, the
  only recurring job over these tasks (`app.ts:3173–3177`), ends it after 30 days. A candidate
  that is archived after another contact's chat was filed makes the task
  unavailable.

### Bounds and why they are enough

* Every module counts its unusual events by kind. `Limit` and `Risk` bound how often
  each *kind* happens, `MaxKinds` how many kinds happen in one behaviour: all pairs
  (or, with 1, every kind alone) are covered without their product. Events in
  `Usual`, without which nothing happens, are not counted by `MaxKinds`. Every
  hazard of the list needs at most two kinds, most need one; the counterexamples
  need no more.
* `Messages`: two are a running and a waiting one, three a task and two
  supplements or three to reorder. A fourth would add another waiting row.
* `Owners`, `Workers`, slots, servers: two are a late holder and its successor. In
  `queue_storage` one owner may use *any* lease ever handed out, so it plays both.
* `MaxLeases` stops `Orphaned` after that many leases of one message. It is above
  what the failures of the instance can consume, and in `runner_progress` it does
  not help liveness: it only ever leaves a run unsettled.
* `MaxEntries` (the code's limit of active entries) and `MaxFolded` (supplements
  per run) are small, so that the limit is reached. So are `Attempts` and `Rounds`
  of a save (5 and 5 in the code) and the Lab's `Plan`, `CallLimit` and
  `DailyLimit`: each is the one that ends something in some behaviour.
* `MaxDecisions` = 2: a decision and the one that overtakes it. Larger instances
  were checked once: 2 requests (776 000 states), 3 decisions (3.4 million).
* `governed`: two actions because the destination is shared, one text because a
  second version of the same text is what a readback confuses. Larger instances
  checked once: two texts with three kinds of event, and one action with every kind
  (5.6 million states).
* Two devices in `sessions` and `drafts`: an author and the one it does not see.

Messages of the storage and actions are interchangeable, and `queue_storage` and
`governed` use that symmetry; runs with liveness use none.
Deadlock is not checked: when no user acts and nothing waits, the system stops.

### Fairness

`RunnerSpec` asks weak fairness of each job and each recovery thread (the tick
and recovery timers fire, awaits return, a model call is bounded by the harness
budget and its abort signal), of `Orphaned` (time passes, so the lease of a dead
owner lapses), of `Commit` (an open transaction ends) and of `Sweep` (a recurring
job). Users, faults, crashes and stalls have none. A crashed process has no
state: its threads start again from idle, as a restarted process does.

`LabSpec` asks weak fairness of each slot's execution (its tick recurs every five
seconds, a provider call ends), of `Restart` (the services are deployed with
`restart: unless-stopped`), of the maintenance of each job, and of the lapse of a
lease that nobody renews. A stall of a live slot has none.

`SavesSpec` asks weak fairness of the server's handling of each save and of the
runner, and strong fairness of `Transition`: Postgres grants a row lock in the order
it was asked for, and a save that meets it backs off.

`CompilationSpec` asks strong fairness of `Enter` (the relationship's lock, for the
same reason) and of a worker's `Claim` of each job (the oldest available one comes
first), weak fairness of the sweep, of leases and back-offs that end, and of a
running thread. Failures and crashes have none and are bounded.

`TasksSpec` asks weak fairness of each run that was started, of its end after five
minutes, of the lapse of a lease, of the transaction of a cancellation that already
aborted the local run, and of the poll of a page that watches a running task
(`contact-agent-workspace.tsx:884–925` asks again every few seconds, after an error
too). No server is fair in starting runs: none does by itself. The user may close the page
(`Unwatch`), and `TaskSettles` promises nothing of a task that nobody watches. `SessionDrafts` and `GovernedActions` have no liveness
properties: what moves there is a person.

`RunSettles` and `QueueProgress` are stated with the pauses the code makes: a
paused queue waits for its user, as it is meant to.

## 4. Theorems

Each holds for every value of the constants that satisfies the module's assumption:
any finite number of messages, batches, decisions, actions, workers, owners and any
number of failures.

| Theorem | Module | States |
| --- | --- | --- |
| `TypeCorrect` | `ConversationQueueProofs` | `StorageSpec => []TypeOK` |
| `ChecksHold` | `ConversationQueueProofs` | `StorageSpec => []TableChecks` |
| `GroupsAreFlat` | `ConversationQueueProofs` | `StorageSpec => []GroupShape` |
| `OrderIsTotal` | `ConversationQueueProofs` | `StorageSpec => []WaitingOrderTotal` |
| `AuthorityIsExclusive` | `ConversationQueueProofs` | `StorageSpec => []SingleAuthority` |
| `AuthorityIsLostForGood` | `ConversationQueueProofs` | `StorageSpec => AuthorityNeverRegained` |
| `StopWins` | `ConversationQueueProofs` | `StorageSpec => StopIsFinal` |
| `RunnerTypeCorrect` | `ConversationRunnerProofs` | `RunnerSafety => []RunnerTypeOK` |
| `LineageIsOnce` | `ConversationRunnerProofs` | `RunnerSafety => []EvidenceOnce`: written at most once per message, replays and recoveries of one stored result included |
| `LineageComesFirst` | `ConversationRunnerProofs` | `RunnerSafety => []LineageBeforeTurn` |
| `ScrubbedIsShown` | `ConversationRunnerProofs` | `RunnerSafety => []ScrubbedIsSaved` |
| `LeadersListen` | `ConversationRunnerProofs` | `RunnerSafety => []NoDeafLeader` |
| `RunnerImplementsStorage` | `ConversationRunnerProofs` | `RunnerSafety => StorageSpec` |
| `PromiseKept` | `ConversationRunnerProofs` | `RunnerSafety => KeepsPromise` |
| `SavesTypes` | `SessionSavesProofs` | `SavesSafety => []SavesTypeOK` |
| `WithdrawnStaysHiddenHolds` | `SessionSavesProofs` | `SavesSafety => []WithdrawnStaysHidden` |
| `KnownOutcomeHolds` | `SessionSavesProofs` | `SavesSafety => []KnownOutcome` |
| `NothingLostHolds` | `SessionSavesProofs` | `SavesSafety => NothingLostUnseen` |
| `HistoryIsKept` | `SessionSavesProofs` | `SavesSafety => KeepsHistory` |
| `LabTypeCorrect` | `LabExperimentProofs` | `LabSafety => []LabTypeOK` |
| `PaidOnceHolds` | `LabExperimentProofs` | `LabSafety => []PaidOnce` |
| `RevocationHolds` | `LabExperimentProofs` | `LabSafety => NoCallAfterRevocation` |
| `OutcomeHolds` | `LabExperimentProofs` | `LabSafety => OutcomeIsFinal` |
| `CancelledHolds` | `LabExperimentProofs` | `LabSafety => []CancelledWasNotCalled` |
| `PaidWithinDayHolds` | `LabExperimentProofs` | `LabSafety => []PaidWithinDay` |
| `HonestVerdictHolds` | `LabExperimentProofs` | `LabSafety => []HonestVerdict` |
| `CompilationTypes` | `SourceCompilationProofs` | `CompilationSafety => []CompilationTypeOK` |
| `WikiIsRecompiled` | `SourceCompilationProofs` | `CompilationSafety => []RecompiledAfterDecision` |
| `GovernedTypeCorrect` | `GovernedProofs` | `GovernedSpec => []GovernedTypeOK` |
| `EffectIsApprovedHolds` | `GovernedProofs` | `GovernedSpec => EffectIsApproved` |
| `StandingHolds` | `GovernedProofs` | `GovernedSpec => []StandingEffectIsKnown` |
| `TasksTypeCorrect` | `ContactTasksProofs` | `TasksSafety => []TasksTypeOK` |
| `CallsAreAccounted` | `ContactTasksProofs` | `TasksSafety => []NoSilentRepeat` |
| `OneCapture` | `ContactTasksProofs` | `TasksSafety => []FiledOnce` |
| `DeletionIsFinal` | `ContactTasksProofs` | `TasksSafety => []DeletionLeavesNothing` |
| `DraftsTypeCorrect` | `SessionDraftsProofs` | `DraftsSpec => []DraftsTypeOK` |
| `TypedSurvivesHolds` | `SessionDraftsProofs` | `DraftsSpec => []TypedSurvives` |
| `StatusIsTrueHolds` | `SessionDraftsProofs` | `DraftsSpec => []StatusIsTrue`, which excepts a save that the user's own reload or deletion silenced (`MCStuckSaving`) |
| `CleanupOnlySentHolds` | `SessionDraftsProofs` | `DraftsSpec => CleanupOnlySent` |

Assumptions: `QueueAssumption` (a finite set of messages, NULL markers are no
values), `RunnerAssumption` (each process has two lease owners, limits are numbers),
`SavesAssumption` (queued messages are no turns of a device, devices are no
messages, at least one attempt and one round), `LabAssumption` (a finite set of slots, limits are numbers),
`CompilationAssumption` (workers and requests are different threads, and there is a
worker), `GovernedAssumption` (there is a text, "none" is no action),
`TasksAssumption` ("none" is no image and no server) and `DraftsAssumption` (a finite
set of devices, "none" is no request, no pending draft and no identity of a draft). TLC evaluates each in every run
of its module. The safety formulas (`RunnerSafety`, `SavesSafety`, …) are the
specifications of the runs without their fairness.

*The queue.* Type correctness needs two facts beside it (`TypeInv`): an open
transaction was begun by a real owner or for a message without a row, and a
message without a row steers nothing. `ShapeInv` carries the table checks, the
groups and the order together, because each needs the others: what a settled,
waiting or running row looks like (`RowShape`), that a group is led by a task
message that still has a row, also the one that an open admission is about to join
(`Led`), and that everything that waits *or may still fail back into the line* has a
place of its own below the next number (`Line`). Most operations only keep rows
(`Kept`: no new group, no new place); the exceptions are admission, which takes the
next number, and prioritize, whose ranks are distinct because each rank is the size
of a set that strictly contains that of its predecessor. The invariant behind the
other three theorems is `LeaseInv`: at most one row is running (`OneRunning`), and no fence is
ahead of its row, nor does a removed row come back (`LeaseOrder`). Neither says
that authority is exclusive, but both together do: a fence passes only on a
running row and only with that row's run, owner and generation. Every step is one
of two kinds. A *calm* step gives no row a lease, changes no generation, and takes
a stopped run nowhere but to cancelled or removed. Any other step hands out
exactly one lease, under a generation larger than every earlier fence of its row,
when no other row runs. So a fence that no longer passes never passes again,
because the row can only move away from it, and a stop wins, because only calm
steps act on a stopped run.

*The runner.* `RunnerInv` adds to the invariants of the storage what each thread
knows (`Knows`): having answered, that the answer is in the row; about to finalize,
that the turn shows everything it is about to scrub; having taken the stop path, that
the run is stopped; working after the intake closed, that no message waits. A thread
knows this only *while its fence is in force* – a thread that stalled past its lease
holds knowledge that became false, and the fence is what keeps it from acting. So
steps fall in two kinds. What users, leases and time do is `Benign`: it leaves the
result and the intake of a run alone and settles nothing, so it takes nothing away
from anybody's knowledge. What a thread does is fenced, and since only one fence is in force
(`SingleAuthority`), no other thread knows anything that the step could make false.
`Traces` carries lineage (written at most once, and kept by the row until it is
removed), `Fate` that whoever waits for a task has one that can still read it, also
the one an open admission is about to choose (`MayLead`). From this follow
that every step is one of the storage (`RunnerImplementsStorage`), hence all
theorems of the storage hold of the program, and that leases, faults and recoveries
are invisible to a user (`PromiseKept`): only a claim starts work, only a finalize
ends it, and each maps to the promise's own step because the turn is there by then.

*The Session saves.* That no save loses an unseen turn rests on the revision: who
read a revision read its turns. The code has one exception. A
refused save hands its device the row as the sweep would leave it, although that
sweep rolls back with the refusal: the device holds a revision that is one too
high. `Known` admits this case only while a sweep is due (`Pending`), which stays so
until one commits: then the
row really gets that revision and those turns, and until then nobody can save at
it. A row that is locked by a sweeping save is due as well, and keeps every other
writer of the row out (`Alone`, `Shape`), so none of them is at its revision when it
commits. For withdrawn turns, `Hidden` says that a withdrawn source is in the
ledger of retractions and that a checked save holds the locks of the sources of its
turns, so no transition is under way for them. For outcomes, `Told` says that the
receipt a device can meet is that of the update that it sends.

The refinement of `SessionHistory` rests on two further facts. `Authored`: the run of
a message asks to add exactly its own turn to what it saw, and a device adds no turn
of the queue. `Once`: the receipt of a run outlives its turn, so a message that
is or was in the history cannot be saved again under its key. Then a write is `Add`,
`Remove` or `Close` of the history, and everything else – sweeps, redactions,
transitions, refusals, crashes – leaves the history alone or closes it.

*The batches.* That no attempt is called twice is not inductive: between
reservation and dispatch a slot holds the right to a call that nothing records as
made. `PaidInv` counts both as *bought*: what is bought stays within
`calls_reserved` (`Counted`); a pending attempt was not called, and a reserved one
was not called yet, is not pending and is held by one slot (`CallOnce`). A
reservation buys one attempt and counts it in the same transaction; a dispatch
turns a reservation into a call and buys nothing; every other step is *quiet*: it
reserves nothing, calls nothing and makes nothing pending again. Notably the
proof uses neither the lease nor its expiry: a slot that lost its job may still
hold a reservation, and a call cannot be repeated all the same.

For cancelled attempts, `NotCalled` adds that an attempt which its slot is about to
cancel is held by no other slot. For the account's budget, `WithinDays` counts what
all batches bought against today's counter and a full limit for each day that
passed: a reservation adds one to both sides, and the day that turns resets the
counter but adds a limit. For the verdict, `BooksInv` relates the status of a job to
those of its attempts, for a slot that lost its lease too, because every end of a job
first closes the attempts that are open.

*The compilations.* The invariant says of every job and thread when its
compilation began: a decision's key cannot be used before the decision is made
(`Made`); compilations run one at a time under the relationship's lock (`Alone`);
so one that begins later reads at least as much as any earlier one, and once the
compilation of a decision is committed nothing older is published or still being
compiled (`Fresh`). A job is completed only by who was told that its key has a
snapshot (`Told`, `Done`). The argument does not need leases to be exclusive: two workers may hold
one job.

*The governed actions.* `Checked` says what a checked execution holds: it has the
action and its approval locked, so the approval, the grant it read and the action's
version stay until it ends; whoever ends an approval or an action must have it
locked (`Locked`). `OpenIsUndone` says that an execution that is under way has no
effect yet, and `Standing` that an effect belongs to the version that wrote it.
One lemma (`StepHolds`) covers a step that concerns one action, so that each kind
of step is examined once. Facts are not held by these locks, and therefore nothing
is claimed of them: that is where `NoEffectAfterLoss` fails.

*The contact tasks.* That no paid call is silently repeated is a matter of counting. A
run that has marked an image sends it long before it is billed, and it may have lost
its epoch meanwhile while a successor marks the image again. `Paid` bounds, per image,
the calls billed plus the runs that are about to send, with or without the epoch, plus
the run with the epoch that is about to become one of them, by what the owner
allowed plus one if the row covers the image (it is marked, or its part is stored).
Every step is `Calm` or moves one unit from one place to another. `Searched` does the
same for the public searches. Servers may be infinitely many: that the runs about to
send are finitely many is part of the invariant. `Prepared` says what a run with
the epoch may rely on, `Row` what a row may look like, and `Gone` what each phase of
the three-transaction deletion left behind.

*The drafts.* A page acts on answers and copies that are old when they arrive. The
invariant says what remains true of them. `Past`: whatever a page has seen of the
Session is a former row or the present one, so a save at the present revision was
made from the present draft. `Marks`: a stamp, drawn when a draft is first saved,
stands for one draft of one device, in the requests on the wire, the attempt that
will be repeated, the pending draft and the slot alike. So an answer, also that to a
repeated request, says that this device's own draft was stored, whatever row it
carries (`Wire`). `Slot`: the slot of an open page is the send under way or the
pending draft, hence what a settled save clears is never a newer text (`Survives`).
`Phase` follows a send: it asks the Agent only after its own save ended well, and
what it asked is its slot, so the save that cleans up afterwards (`Clean`) can
replace only the draft that was sent, or one that this device has itself saved.
Every handler of a page leaves the server and the other devices alone, draws at most
one new stamp, and is examined once for its own page (`PageKeeps`); every step of
the server only moves it on (`Later`), which keeps whatever is true of former rows.

Each invariant was model-checked on the instance of its run before it was proved.

Every invariant and every action property of a passing run is a theorem, and so are
the refinements. Only model-checked, by their nature: the liveness properties
(fairness and ENABLED are outside the prover).

## 5. Not modelled

What the modules leave out of the code they model:

* *Queue.* Several Sessions: each has its own lock, rows and queue; what they share
  is the capacity of the runner. The revision of the queue and replays of the same
  request key: they refuse or repeat. `markConversationQueueEntryInterrupted` has no
  caller.
* *Sessions.* One source per turn, one transition at a time; titles, listing, the
  content of a turn; the retention of the queue.
* *Drafts.* One tab per device (the shared slot of a second tab is not modelled),
  expiry and failures of local storage, refusals other than a revision conflict;
  HTTP answers are lost but never duplicated.
* *Contact tasks.* One task and one contact; the model runs on the SDK path, not on
  the chat-completions loop nor from a text; the storage of image files and its purge,
  so that `DeletionLeavesNothing` speaks of the capture and its observations only.
  An aborted transaction is the event "fault".
* *Compilation.* One source and one relationship; what else can invalidate a Wiki.
  A failing compilation is the event "fail" whatever its cause. `Retry` allows a
  repetition that the code refuses (a restore that met a deadline), which only adds
  behaviours; the branch `sourceAuthorization.ts:1284–1307` is unreachable.
* *Governed actions.* One destination; one action and one fact per source; a
  revision keeps the destination; a dismissed fact is a pending one; receipts are
  their status; replays of an idempotency key repeat an answer. After it waited for
  another deletion, `EraseDestination` may see a newer row than the code would.
* *Lab.* What an attempt asks and answers, the hashes of its definition, the review
  of a stopped job.

Components without a module:

* The live transport of the queue: what an observer sees depends on the revision
  that the queue's modules leave out, and on coalescing inside one process.
* Memory review, pursuits, commitments, identity handles and cases, proposals,
  meetings, time, accounts, grants of the MCP server: versioned records, each
  operation one transaction under row locks that compares what it was shown. A model
  would restate each guard once.
* Agent tasks, gateway, providers, prompts, tools, research: calls of the outside;
  the modules above contain the outcomes that matter to them.
* The HTTP layer, schemas, telemetry, health, deployment, the native clients and the
  rest of the web client: input, output and wiring.

The largest files of the repository are schemas, routes and user interface, so the
models translate a small share of its lines; they are chosen by where two actors
meet.

## 6. What is left

1. `ConversationQueueRunner` composed with `SessionSaves` in place of its `turns`.
2. Runner capacity and shutdown over several Sessions; the stream of a queue to its
   observers.
