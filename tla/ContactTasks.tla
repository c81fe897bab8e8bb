----------------------------- MODULE ContactTasks -----------------------------
(***************************************************************************)
(* One screenshot-contact task (screenshotContactTasks.ts, migrations 047  *)
(* to 065): the runs that servers start for it, each under an epoch of the *)
(* row, the requests of its owner, and what takes its source or the        *)
(* contact it names away from under both.                                  *)
(*                                                                         *)
(* Every transaction locks the row first, so each is one action.  Epochs   *)
(* and revisions are only ever compared with the current one: holder is    *)
(* the run whose epoch is the row's, view the clients that hold its        *)
(* revision.                                                               *)
(***************************************************************************)
EXTENDS Naturals, FiniteSets

CONSTANTS
  Images,     \* the screenshots of the task
  Servers,    \* server processes, each with at most one run of the task
  Clients,    \* the owner's devices
  Risk,       \* the kinds of event that may happen, and how often each
  MaxKinds    \* how many kinds happen in one behaviour, Usual ones not counted

Usual == {"resume", "research", "delete"}

ASSUME TasksAssumption ==
  /\ "none" \notin Images \cup Servers
  /\ MaxKinds \in Nat
  /\ \A k \in DOMAIN Risk : Risk[k] \in Nat

VARIABLES
  task,       \* the row of screenshot_contact_tasks
  holder,     \* the server whose run has the row's lease epoch
  lease,      \* lease_until is in the future
  run,        \* the run of each server (active, controllers)
  view,       \* clients whose expected_revision would match
  ask,        \* the request of each client that is between two transactions
  watching,   \* clients whose page shows the task as running and polls it
  source,     \* the canonical capture: never filed, active, gone (not authorized,
              \* or deleted by this task's own request) or erased in another way
  observed,   \* contact_profile_observations has rows of the task
  known,      \* the one contact the directory search can find
  billed,     \* ghost: provider calls made for each image
  allowed,    \* ghost: retries of an image its owner authorized
  asked,      \* ghost: public searches sent
  heard,      \* ghost: public searches whose outcome the model was told
  filed,      \* ghost: captures created for the task
  wanted,     \* ghost: clients that asked to delete the capture
  told,       \* ghost: those of them that last saw the task as "deleted"
  done,       \* ghost: a deletion of the capture was answered as finished
  spent       \* events that happened, by kind

rowVars == <<task, holder, lease, view>>
ghostVars == <<billed, allowed, asked, heard, filed, wanted, told, done>>
vars == <<rowVars, run, ask, watching, source, observed, known, ghostVars, spent>>

Idle == [pc |-> "idle", image |-> "none", stop |-> "none"]

Starting == [Idle EXCEPT !.pc = "starting"]

\* The request that created the task started a run, and its page polls.
TasksInit ==
  /\ \E only \in BOOLEAN :
       task = [status |-> "running", only |-> only, marked |-> "none", parts |-> {},
               merged |-> FALSE, named |-> "none", draft |-> FALSE,
               research |-> FALSE, capture |-> FALSE, doomed |-> FALSE]
  /\ holder = "none" /\ lease = FALSE
  /\ \E s \in Servers : run = [t \in Servers |-> IF t = s THEN Starting ELSE Idle]
  /\ \E c \in Clients : view = {c} /\ watching = {c}
  /\ ask = [c \in Clients |-> "none"]
  /\ source = "none" /\ observed = FALSE /\ known = "active"
  /\ billed = [i \in Images |-> 0] /\ allowed = [i \in Images |-> 0]
  /\ asked = 0 /\ heard = 0 /\ filed = 0
  /\ wanted = {} /\ told = {} /\ done = FALSE
  /\ spent = [k \in DOMAIN Risk |-> 0]

Spend(kind) ==
  /\ kind \in DOMAIN Risk
  /\ spent[kind] < Risk[kind]
  /\ Cardinality(({k \in DOMAIN Risk : spent[k] > 0} \cup {kind}) \ Usual) <= MaxKinds
  /\ spent' = [spent EXCEPT ![kind] = @ + 1]

\* What a task may still be worked on: not deleted or about to be, every
\* contact its state names in the directory, its capture still authorized.
SourceCurrent ==
  /\ task.status # "deleted" /\ ~task.doomed
  /\ task.named # "none" => known = "active"
  /\ task.capture => source = "active"

\* A write of the row that ends every run and makes every revision but the
\* answered ones stale.
Fenced(t, answered) ==
  /\ task' = t /\ holder' = "none" /\ lease' = FALSE /\ view' = answered

Deleted(t) == [t EXCEPT !.status = "deleted", !.marked = "none", !.parts = {},
                 !.merged = FALSE, !.named = "none", !.draft = FALSE,
                 !.research = FALSE, !.doomed = FALSE]

-------------------------------------------------------------------------------
(* A run *)

MayWrite(s) == holder = s /\ task.status = "running" /\ SourceCurrent

Goto(s, pc) == run' = [run EXCEPT ![s].pc = pc]

\* A checkpoint of the run of s: it writes t and renews the lease.
Checkpoint(s, t) ==
  /\ MayWrite(s)
  /\ task' = t /\ lease' = (t.status = "running") /\ view' = {}
  /\ UNCHANGED holder

RunRest == <<ask, watching, source, observed, known, ghostVars, spent>>

\* ScreenshotContactTaskRunner.start on the server of a request, the only place
\* where runs begin: a server that has a run of the task keeps that one.
Started(s) == run' = IF run[s].pc = "idle" THEN [run EXCEPT ![s] = Starting] ELSE run

Claimable == task.status = "running" /\ ~lease

\* The row grants a run an epoch only when no lease is in force; else it ends.
Claim(s) ==
  /\ run[s].pc = "starting"
  /\ IF Claimable
     THEN holder' = s /\ lease' = TRUE /\ Goto(s, "look")
     ELSE UNCHANGED <<holder, lease>> /\ run' = [run EXCEPT ![s] = Idle]
  /\ UNCHANGED <<task, view, RunRest>>

\* Mutant: an image that was marked is sent again.
LookIgnoring(s) ==
  /\ run[s].pc = "look" /\ ~task.merged /\ SourceCurrent /\ task.status = "running"
  /\ \E i \in Images \ task.parts :
       run' = [run EXCEPT ![s].pc = "mark", ![s].image = i]
  /\ UNCHANGED <<rowVars, RunRest>>

\* The image to preprocess next, read outside any transaction.  A call of an
\* earlier run that may have been billed ends this one.
Look(s) ==
  /\ run[s].pc = "look" /\ ~task.merged /\ SourceCurrent /\ task.status = "running"
  /\ \E i \in Images \ task.parts :
       run' = [run EXCEPT ![s].pc = IF task.marked = "none" THEN "mark" ELSE "failing",
                          ![s].image = i]
  /\ UNCHANGED <<rowVars, RunRest>>

Mark(s) ==
  /\ run[s].pc = "mark"
  /\ Checkpoint(s, [task EXCEPT !.marked = run[s].image])
  /\ Goto(s, "authorize")
  /\ UNCHANGED RunRest

\* The authority to send is checked under the row lock, then the call goes out.
Authorize(s) ==
  /\ run[s].pc = "authorize" /\ run[s].stop = "none" /\ MayWrite(s)
  /\ Goto(s, "send")
  /\ UNCHANGED <<rowVars, RunRest>>

Send(s) ==
  /\ run[s].pc = "send" /\ run[s].stop = "none"
  /\ billed' = [billed EXCEPT ![run[s].image] = @ + 1]
  /\ \E pc \in {"answered", "failing"} : Goto(s, pc)
  /\ UNCHANGED <<rowVars, ask, watching, source, observed, known, allowed, asked, heard, filed,
                 wanted, told, done, spent>>

RecordPart(s) ==
  /\ run[s].pc = "answered"
  /\ Checkpoint(s, [task EXCEPT !.parts = @ \cup {run[s].image}, !.marked = "none"])
  /\ run' = [run EXCEPT ![s].pc = "look", ![s].image = "none"]
  /\ UNCHANGED RunRest

\* All parts are in: the packet is merged, and either the agent goes on or the
\* task has an outcome already (nothing found, a question, a profile to review).
Merge(s) ==
  /\ run[s].pc = "look" /\ ~task.merged /\ task.parts = Images
  /\ \E to \in {"running", "waiting", "completed"} : \E draft \in BOOLEAN :
       /\ draft => to = "waiting" /\ ~task.only
       /\ to = "running" => ~task.only
       /\ Checkpoint(s, [task EXCEPT !.merged = TRUE, !.status = to, !.draft = draft])
       /\ Goto(s, IF to = "running" THEN "begin" ELSE "idle")
  /\ UNCHANGED RunRest

\* A later run finds the packet merged; a task that was to be preprocessed only
\* is complete.
Skip(s) ==
  /\ run[s].pc = "look" /\ task.merged /\ task.status = "running"
  /\ IF task.only
     THEN Checkpoint(s, [task EXCEPT !.status = "completed"]) /\ Goto(s, "idle")
     ELSE UNCHANGED rowVars /\ Goto(s, "begin")
  /\ UNCHANGED RunRest

\* The agent starts by hearing of a public search no run recorded the outcome of.
Begin(s) ==
  /\ run[s].pc = "begin"
  /\ Checkpoint(s, [task EXCEPT !.research = FALSE])
  /\ heard' = IF task.research THEN heard + 1 ELSE heard
  /\ Goto(s, "agent")
  /\ UNCHANGED <<ask, watching, source, observed, known, billed, allowed, asked, filed, wanted,
                 told, done, spent>>

\* A tool of the directory: a search, then reading the contact it found.
Search(s) ==
  /\ run[s].pc = "agent" /\ ~task.capture /\ known = "active"
  /\ \/ task.named = "none" /\ Checkpoint(s, [task EXCEPT !.named = "found"])
     \/ task.named = "found" /\ Checkpoint(s, [task EXCEPT !.named = "adopted"])
  /\ UNCHANGED <<run, RunRest>>

\* create_contact or save_contact_chat: the capture and the row, in one commit.
File(s) ==
  /\ run[s].pc = "agent" /\ ~task.capture
  /\ Checkpoint(s, [task EXCEPT !.capture = TRUE])
  /\ source' = "active" /\ filed' = filed + 1
  /\ UNCHANGED <<run, ask, watching, observed, known, billed, allowed, asked, heard, wanted, told,
                 done, spent>>

UpdateContact(s) ==
  /\ run[s].pc = "agent" /\ task.capture
  /\ Checkpoint(s, task)
  /\ observed' = TRUE
  /\ UNCHANGED <<run, ask, watching, source, known, ghostVars, spent>>

\* A public search: noted in the row, sent, its outcome told to the model.
NoteResearch(s) ==
  /\ run[s].pc = "agent" /\ task.capture
  /\ Spend("research")
  /\ Checkpoint(s, [task EXCEPT !.research = TRUE])
  /\ Goto(s, "search")
  /\ UNCHANGED <<ask, watching, source, observed, known, ghostVars>>

SendResearch(s) ==
  /\ run[s].pc = "search" /\ run[s].stop = "none"
  /\ asked' = asked + 1
  /\ Goto(s, "found")
  /\ UNCHANGED <<rowVars, ask, watching, source, observed, known, billed, allowed, heard, filed,
                 wanted, told, done, spent>>

\* The outcome is recorded; a failed search is told without clearing the note.
HearResearch(s) ==
  /\ run[s].pc = "found"
  /\ \E note \in BOOLEAN : Checkpoint(s, [task EXCEPT !.research = note])
  /\ heard' = heard + 1
  /\ Goto(s, "agent")
  /\ UNCHANGED <<ask, watching, source, observed, known, billed, allowed, asked, filed, wanted,
                 told, done, spent>>

\* finish_contact_task or ask_contact_clarification, or the model just stops.
FinishTool(s) ==
  /\ run[s].pc = "agent"
  /\ \/ task.capture /\ Checkpoint(s, [task EXCEPT !.status = "completed"])
     \/ Checkpoint(s, [task EXCEPT !.status = "waiting"])
     \/ UNCHANGED rowVars
  /\ Goto(s, "final")
  /\ UNCHANGED RunRest

Failed(t) == [t EXCEPT !.status = IF t.capture THEN "partial" ELSE "failed"]

\* The last write of a run only asks for its epoch.
Final(s) ==
  /\ run[s].pc = "final" /\ run[s].stop = "none" /\ holder = s /\ SourceCurrent
  /\ task' = IF task.status = "running" THEN Failed(task) ELSE task
  /\ lease' = FALSE /\ view' = {}
  /\ Goto(s, "idle")
  /\ UNCHANGED <<holder, RunRest>>

Working == {"look", "mark", "authorize", "send", "answered", "begin", "agent",
            "search", "found", "final"}

\* An error, the five minutes of a run, or a shutdown.
GiveUp(s) ==
  /\ run[s].pc \in Working /\ run[s].stop # "cancelled"
  /\ Goto(s, "failing")
  /\ UNCHANGED <<rowVars, RunRest>>

\* The bookkeeping of a failed run; its own failure is swallowed.
Fail(s) ==
  /\ run[s].pc = "failing"
  /\ \/ Checkpoint(s, Failed(task)) /\ UNCHANGED spent
     \/ Spend("fault") /\ UNCHANGED rowVars
  /\ run' = [run EXCEPT ![s] = Idle]
  /\ UNCHANGED <<ask, watching, source, observed, known, ghostVars>>

\* A refused checkpoint ends the run; so does, without bookkeeping, the
\* cancellation its owner asked for.
Leave(s) ==
  /\ \/ run[s].pc \in (Working \cup {"failing"}) \ {"send", "search", "final"}
        /\ ~MayWrite(s)
     \/ run[s].pc = "final" /\ ~(holder = s /\ SourceCurrent)
     \/ run[s].pc \notin {"idle", "starting"} /\ run[s].stop = "cancelled"
  /\ run' = [run EXCEPT ![s] = Idle]
  /\ UNCHANGED <<rowVars, RunRest>>

Crash(s) ==
  /\ run[s].pc # "idle" /\ Spend("crash")
  /\ run' = [run EXCEPT ![s] = Idle]
  /\ UNCHANGED <<rowVars, ask, watching, source, observed, known, ghostVars>>

\* 90 seconds pass: over the lease of a run that is gone, or of a slow one.
Lapse ==
  /\ task.status = "running" /\ lease
  /\ IF holder \in Servers /\ run[holder].pc \notin {"idle", "starting"}
     THEN Spend("lapse") ELSE UNCHANGED spent
  /\ lease' = FALSE
  /\ UNCHANGED <<task, holder, view, run, ask, watching, source, observed, known, ghostVars>>

RunStep(s) ==
  \/ Claim(s) \/ Look(s) \/ Mark(s) \/ Authorize(s) \/ Send(s) \/ RecordPart(s)
  \/ Merge(s) \/ Skip(s) \/ Begin(s) \/ Search(s) \/ File(s) \/ UpdateContact(s)
  \/ NoteResearch(s) \/ SendResearch(s) \/ HearResearch(s) \/ FinishTool(s) \/ Final(s)
  \/ Fail(s) \/ Leave(s)

-------------------------------------------------------------------------------
(* The owner, and what happens to the source and to the contact *)

\* A GET.  A task that may not be worked on is answered as "deleted".
Answered(c) ==
  /\ ask[c] = "none"
  /\ view' = view \cup {c}
  /\ told' = IF SourceCurrent THEN told \ {c} ELSE told \cup ({c} \cap wanted)
  /\ watching' = IF SourceCurrent /\ task.status = "running" THEN watching \cup {c}
                                                            ELSE watching \ {c}
  /\ UNCHANGED <<task, holder, lease, ask, source, observed, known, billed, allowed,
                 asked, heard, filed, wanted, done, spent>>

\* Mutant: a GET only reads.
PollQuietly(c, s) == Answered(c) /\ UNCHANGED run

\* A GET of a running task starts a run.
Poll(c, s) ==
  /\ Answered(c)
  /\ IF SourceCurrent /\ task.status = "running" THEN Started(s) ELSE UNCHANGED run

\* The page is closed.
Unwatch(c) ==
  /\ c \in watching /\ Spend("close")
  /\ watching' = watching \ {c}
  /\ UNCHANGED <<rowVars, run, ask, source, observed, known, ghostVars>>

Resumable == {"waiting", "partial", "failed", "cancelled"}

MayResume(c) ==
  /\ ask[c] = "none" /\ c \in view /\ SourceCurrent
  /\ task.status \in Resumable
  /\ Spend("resume")

ResumeEffects(c, s) ==
  /\ Fenced([task EXCEPT !.status = "running", !.marked = "none"], {c})
  /\ allowed' = IF task.marked = "none" THEN allowed
                ELSE [allowed EXCEPT ![task.marked] = @ + 1]
  /\ Started(s) /\ watching' = watching \cup {c}
  /\ UNCHANGED <<ask, source, observed, known, billed, asked, heard, filed, wanted,
                 told, done>>

\* Mutant: a task whose profile waits for review is resumed too.
ResumeUnreviewed(c, s) == MayResume(c) /\ ResumeEffects(c, s)

\* The owner continues a stopped task; that also authorizes to send an image
\* again whose first call has an unknown outcome.
Resume(c, s) == MayResume(c) /\ ~task.draft /\ ResumeEffects(c, s)

\* The owner reviewed the profile: it is filed, or found to match several
\* contacts.
Confirm(c) ==
  /\ ask[c] = "none" /\ c \in view /\ SourceCurrent /\ Spend("confirm")
  /\ ~task.only /\ task.status = "waiting" /\ task.draft
  /\ \/ /\ Fenced([task EXCEPT !.status = "completed", !.draft = FALSE,
                               !.capture = TRUE], {c})
        /\ source' = "active" /\ filed' = filed + 1
     \/ Fenced(task, {c}) /\ UNCHANGED <<source, filed>>
  /\ UNCHANGED <<run, ask, watching, observed, known, billed, allowed, asked, heard, wanted,
                 told, done>>

\* A stop looks at the revision, aborts the run of its own server, and only then
\* looks again under the lock.
AskCancel(c, s) ==
  /\ ask[c] = "none" /\ c \in view /\ Spend("cancel")
  /\ ask' = [ask EXCEPT ![c] = "cancel"]
  /\ run' = IF run[s].pc = "idle" THEN run ELSE [run EXCEPT ![s].stop = "cancelled"]
  /\ UNCHANGED <<rowVars, watching, source, observed, known, ghostVars>>

Cancel(c) ==
  /\ ask[c] = "cancel"
  /\ IF c \in view /\ SourceCurrent
     THEN Fenced([task EXCEPT !.status = "cancelled"], {c}) /\ watching' = watching \ {c}
     ELSE UNCHANGED <<rowVars, watching>>
  /\ ask' = [ask EXCEPT ![c] = "none"]
  /\ UNCHANGED <<run, source, observed, known, ghostVars, spent>>

\* The run of the server that fences a deletion or an archive is aborted; one that
\* has not claimed yet still does.
Abort(s) ==
  run' = CASE run[s].pc = "idle" -> run
           [] run[s].pc = "starting" -> [run EXCEPT ![s].stop = "stopped"]
           [] OTHER -> [run EXCEPT ![s].pc = "failing", ![s].stop = "stopped"]

DoomedBy(c) == Fenced([task EXCEPT !.doomed = TRUE, !.status = "cancelled"], {})

\* Deleting the capture: the intent, which a repeated request finds and need not
\* match a revision for, then deleteCapture, then the scrub.
AskDelete(c, s, phase) ==
  /\ ask[c] = "none" /\ Spend("delete")
  /\ IF task.status = "deleted" \/ task.doomed
     THEN UNCHANGED rowVars
     ELSE c \in view /\ DoomedBy(c)
  /\ Abort(s)
  /\ ask' = [ask EXCEPT ![c] = phase]
  /\ wanted' = wanted \cup {c}
  /\ UNCHANGED <<watching, source, observed, known, billed, allowed, asked, heard, filed,
                 told, done>>

\* Mutant: the source of a task that was deleted already is left to itself.
DeleteForgetful(c, s) ==
  AskDelete(c, s, IF task.capture /\ task.status # "deleted" THEN "capture" ELSE "scrub")

Delete(c, s) == AskDelete(c, s, IF task.capture THEN "capture" ELSE "scrub")

\* Deleting only the copy that was preprocessed.
DeleteCopy(c, s) ==
  /\ ask[c] = "none" /\ task.only /\ task.status # "deleted" /\ Spend("delete")
  /\ IF task.doomed THEN UNCHANGED rowVars ELSE c \in view /\ DoomedBy(c)
  /\ Abort(s)
  /\ ask' = [ask EXCEPT ![c] = "copy"]
  /\ UNCHANGED <<watching, source, observed, known, ghostVars>>

\* The capture goes, and the triggers on it take the observations and the task.
SourceGone(how) ==
  /\ source' = how /\ observed' = (observed /\ ~task.capture)
  /\ IF task.capture /\ task.status # "deleted" THEN Fenced(Deleted(task), {})
                                                 ELSE UNCHANGED rowVars

\* A capture that was deleted in another way answers 410, which ends the request;
\* one that this task's own request deleted answers as before.
DeleteCapture(c) ==
  /\ ask[c] = "capture"
  /\ IF source = "active" THEN SourceGone("gone") ELSE UNCHANGED <<source, observed, rowVars>>
  /\ ask' = [ask EXCEPT ![c] = IF source = "erased" THEN "none" ELSE "scrub"]
  /\ UNCHANGED <<run, watching, known, ghostVars, spent>>

Scrub(c) ==
  /\ ask[c] \in {"scrub", "copy"}
  /\ IF task.status = "deleted" THEN UNCHANGED <<rowVars, observed>>
     ELSE Fenced(Deleted(task), {c}) /\ observed' = FALSE
  /\ ask' = [ask EXCEPT ![c] = "none"]
  /\ told' = told \cup ({c} \cap wanted)
  /\ done' = (done \/ ask[c] = "scrub")
  /\ watching' = watching \ {c}
  /\ UNCHANGED <<run, source, known, billed, allowed, asked, heard, filed, wanted, spent>>

\* A request fails between its transactions.
LoseRequest(c) ==
  /\ ask[c] # "none" /\ Spend("lost")
  /\ ask' = [ask EXCEPT ![c] = "none"]
  /\ UNCHANGED <<rowVars, run, watching, source, observed, known, ghostVars>>

\* The reviewed capture of a preprocessing task, filed elsewhere, is linked.
Link(c) ==
  /\ ask[c] = "none" /\ SourceCurrent /\ task.only /\ ~task.capture
  /\ c \in view /\ task.status \in {"completed", "waiting"} /\ Spend("link")
  /\ task' = [task EXCEPT !.capture = TRUE] /\ view' = {c}
  /\ source' = "active"
  /\ UNCHANGED <<holder, lease, run, ask, watching, observed, known, ghostVars>>

\* The capture is withdrawn or deleted elsewhere in the product.
Withdraw ==
  /\ source = "active" /\ Spend("source")
  /\ \E how \in {"gone", "erased"} : SourceGone(how)
  /\ UNCHANGED <<run, ask, watching, known, ghostVars>>

Expire ==
  /\ task.status # "deleted" /\ Spend("expire")
  /\ Fenced(Deleted(task), {}) /\ observed' = FALSE
  /\ UNCHANGED <<run, ask, watching, source, known, ghostVars>>

\* The directory changed: a task that has filed nothing must search again.
SearchAgain ==
  IF ~task.capture /\ task.named # "none" /\ task.status \notin {"deleted", "cancelled"}
  THEN Fenced([task EXCEPT !.status = "waiting", !.named = "none", !.draft = FALSE,
                           !.research = FALSE], {})
  ELSE UNCHANGED rowVars

\* A contact is archived: its running tasks are cancelled first.
Archive(s) ==
  /\ known = "active" /\ Spend("archive")
  /\ known' = "archived"
  /\ IF task.status = "running" /\ task.named = "adopted"
     THEN Fenced([task EXCEPT !.status = "cancelled"], {}) /\ Abort(s)
     ELSE SearchAgain /\ UNCHANGED run
  /\ UNCHANGED <<ask, watching, source, observed, ghostVars>>

Restore ==
  /\ known = "archived" /\ known' = "active"
  /\ SearchAgain
  /\ UNCHANGED <<run, ask, watching, source, observed, ghostVars, spent>>

OwnerStep(c) ==
  \/ Unwatch(c) \/ Confirm(c) \/ Cancel(c) \/ DeleteCapture(c) \/ Scrub(c)
  \/ LoseRequest(c) \/ Link(c)
  \/ \E s \in Servers :
       Poll(c, s) \/ Resume(c, s) \/ AskCancel(c, s) \/ Delete(c, s) \/ DeleteCopy(c, s)

TasksNext ==
  \/ \E s \in Servers : RunStep(s) \/ GiveUp(s) \/ Crash(s) \/ Archive(s)
  \/ \E c \in Clients : OwnerStep(c)
  \/ Lapse \/ Withdraw \/ Expire \/ Restore

\* A run that was started goes on, and is ended after five minutes at the latest; a
\* cancellation that aborted a run comes to its transaction, and time passes over
\* every lease.  Nothing in the backend takes up a run that was lost: only the page
\* of a client that goes on watching polls, every few seconds
\* (contact-agent-workspace.tsx), and nothing says that one does go on.
TasksFairness ==
  /\ \A s \in Servers : WF_vars(RunStep(s)) /\ WF_vars(GiveUp(s) \/ Leave(s))
  /\ WF_vars(Lapse)
  /\ \A c \in Clients :
       WF_vars(Cancel(c)) /\ WF_vars(c \in watching /\ \E s \in Servers : Poll(c, s))

TasksSafety == TasksInit /\ [][TasksNext]_vars

TasksSpec == TasksSafety /\ TasksFairness

-------------------------------------------------------------------------------
(* Properties *)

\* The shape of the state, and what holds of every row: only a running task has a
\* lease, a draft waits for review and has filed nothing.
TasksTypeOK ==
  /\ task.status \in {"running", "waiting", "completed", "partial", "failed",
                      "cancelled", "deleted"}
  /\ task.marked \in Images \cup {"none"} /\ task.parts \subseteq Images
  /\ task.named \in {"none", "found", "adopted"}
  /\ {task.only, task.merged, task.draft, task.research, task.capture, task.doomed}
       \subseteq BOOLEAN
  /\ holder \in Servers \cup {"none"} /\ lease \in BOOLEAN
  /\ \A s \in Servers :
       /\ run[s].pc \in Working \cup {"idle", "starting", "failing"}
       /\ run[s].image \in Images \cup {"none"}
       /\ run[s].stop \in {"none", "cancelled", "stopped"}
  /\ view \subseteq Clients /\ watching \subseteq Clients
  /\ \A c \in Clients : ask[c] \in {"none", "cancel", "capture", "scrub", "copy"}
  /\ source \in {"none", "active", "gone", "erased"} /\ known \in {"active", "archived"}
  /\ lease => task.status = "running"
  /\ task.draft => ~task.capture
  /\ task.capture => source # "none"

\* No paid call is silently repeated, whichever runs crashed, lost their lease or
\* were resumed in between: an image is sent once, and once more for every retry
\* its owner authorized; and of every public search but the one noted in the row
\* the model was told what became of it.
NoSilentRepeat ==
  /\ \A i \in Images : billed[i] <= 1 + allowed[i]
  /\ task.status # "deleted" => asked <= heard + (IF task.research THEN 1 ELSE 0)

\* A task files at most one capture, whether its run files it or its owner
\* confirms the profile.
FiledOnce == filed <= 1

\* What a finished deletion answered stays true: nothing of the capture is left,
\* and no run that was under way brings any of it back.
DeletionLeavesNothing ==
  done => task.status = "deleted" /\ source # "active" /\ ~observed

\* A task does not stay running as long as some page of its owner watches it: it
\* ends, or is taken from under its runs, although runs are lost with their lease
\* and stops are refused after they aborted a run.
TaskSettles ==
  task.status = "running" ~> (task.status # "running" \/ ~SourceCurrent \/ watching = {})

\* A client that asked to delete the capture and is shown the task as deleted can
\* rely on it (contact-agent-workspace.tsx offers to delete only what is not).
ToldDeletedIsGone == wanted \cap told # {} => source # "active"

===============================================================================
