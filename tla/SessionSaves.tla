----------------------------- MODULE SessionSaves -----------------------------
(***************************************************************************)
(* How a Session is saved (agentSessions.ts, migrations 051-056): devices  *)
(* and the queue's runner save with an expected revision and an            *)
(* idempotency key, every transaction starts with a sweep, sources are     *)
(* locked before the Session row, and a source transition locks the two in *)
(* the opposite order.                                                     *)
(*                                                                         *)
(* A turn is its message, and rests on one source of its own.  Of a turn   *)
(* only two things matter here: it is in the history, and its blocks are   *)
(* shown or were redacted.                                                 *)
(***************************************************************************)
EXTENDS Naturals, FiniteSets

CONSTANTS
  Queued,     \* messages admitted to the queue: the runner saves their turns
  Own,        \* messages whose turns devices save themselves
  Devices,    \* the clients of the one owner of the Session
  Attempts,   \* attempts of mutateAgentSession at a busy database (5)
  Rounds,     \* rounds of saveConversationQueueTurn (5)
  Risk,       \* the kinds of event that may happen, and how often each
  MaxKinds    \* how many kinds happen in one behaviour, saves not counted

Messages == Queued \cup Own
Writers == Devices \cup Queued

ASSUME SavesAssumption ==
  /\ Queued \cap Own = {} /\ Devices \cap Messages = {}
  /\ Attempts \in Nat \ {0} /\ Rounds \in Nat \ {0}
  /\ MaxKinds \in Nat
  /\ \A k \in DOMAIN Risk : Risk[k] \in Nat

VARIABLES
  session,    \* the row of agent_sessions
  source,     \* the committed state of the source of each turn
  retracted,  \* agent_session_retracted_tasks: never shown again
  receipt,    \* agent_session_operations: the request committed under the key each
              \* writer may use again (a device that got its answer does not)
  change,     \* the open transaction of a source transition
  save,       \* the save of each writer
  copy,       \* what each device was last handed of the Session
  denied,     \* devices whose last update was answered by a refusal
  status,     \* of the run of each queued message
  rounds,     \* conflicts met by the run since it was claimed
  gone,       \* ghost: messages whose turn a device removed
  withdrawn,  \* ghost: messages whose source was ever withdrawn
  spent       \* events that happened, by kind

vars == <<session, source, retracted, receipt, change, save, copy, denied,
          status, rounds, gone, withdrawn, spent>>

NoRequest == [rev |-> 0, del |-> FALSE, base |-> {}, turns |-> {}, shown |-> {}]
NoSave == [pc |-> "idle", req |-> NoRequest, row |-> NoRequest, held |-> FALSE,
           led |-> {}, tries |-> 0]
NoChange == [pc |-> "idle", m |-> "none", to |-> "up", held |-> FALSE, led |-> {}]

NewSession == [live |-> TRUE, rev |-> 1, turns |-> {}, shown |-> {}, due |-> FALSE]

SavesInit ==
  /\ session = NewSession
  /\ source = [m \in Messages |-> "up"]
  /\ retracted = {}
  /\ receipt = [w \in Writers |-> NoRequest]
  /\ change = NoChange
  /\ save = [w \in Writers |-> NoSave]
  /\ copy = [d \in Devices |-> NewSession]
  /\ denied = {}
  /\ status = [m \in Queued |-> "queued"]
  /\ rounds = [m \in Queued |-> 0]
  /\ gone = {} /\ withdrawn = {}
  /\ spent = [k \in DOMAIN Risk |-> 0]

Spend(kind) ==
  /\ kind \in DOMAIN Risk
  /\ spent[kind] < Risk[kind]
  /\ kind = "save" \/ spent[kind] > 0
     \/ Cardinality({k \in DOMAIN Risk \ {"save"} : spent[k] > 0}) < MaxKinds
  /\ spent' = [spent EXCEPT ![kind] = @ + 1]

----------------------------------------------------------------------------
(* Availability and the sweep every request starts with. *)

Unavailable(src, ledger) == {m \in Messages : src[m] # "up"} \cup ledger

Tombstone(row) == [row EXCEPT !.live = FALSE, !.rev = @ + 1, !.turns = {}, !.shown = {}]

Redacted(shown, src, ledger) == shown \ Unavailable(src, ledger)

\* The row after sweepAgentSessions: an expired Session becomes a tombstone, a
\* turn without a source loses its blocks.
Swept(row) ==
  IF ~row.live THEN row
  ELSE IF row.due THEN Tombstone(row)
  ELSE LET shown == Redacted(row.shown, source, retracted) IN
       IF shown = row.shown THEN row ELSE [row EXCEPT !.rev = @ + 1, !.shown = shown]

SweptLedger == Unavailable(source, retracted)

RowHeld == change.held \/ \E w \in Writers : save[w].held

\* A sweep outside a save commits statement by statement and waits for the row.
CommitSweep ==
  /\ RowHeld => Swept(session) = session
  /\ session' = Swept(session)
  /\ retracted' = SweptLedger

Sweep ==
  /\ CommitSweep
  /\ UNCHANGED <<source, receipt, change, save, copy, denied, status, rounds, gone,
                 withdrawn, spent>>

Expires ==
  /\ session.live /\ ~session.due
  /\ Spend("expire")
  /\ session' = [session EXCEPT !.due = TRUE]
  /\ UNCHANGED <<source, retracted, receipt, change, save, copy, denied, status, rounds,
                 gone, withdrawn>>

\* The deadline of an authorization passes: no transaction, no trigger.
Lapses(m) ==
  /\ source[m] = "up" /\ change.m # m
  /\ Spend("lapse")
  /\ source' = [source EXCEPT ![m] = "lapsed"]
  /\ UNCHANGED <<session, retracted, receipt, change, save, copy, denied, status, rounds,
                 gone, withdrawn>>

----------------------------------------------------------------------------
(* A source transition: its own rows first, then the triggers' statements.  *)

Shared(m) == \E w \in Writers : save[w].pc = "checked" /\ m \in save[w].req.turns

\* An authorization that has lapsed is first recorded as expired, so only a
\* withdrawn one is restored.
BeginChange(m, to) ==
  /\ change.pc = "idle" /\ ~Shared(m)
  /\ to \in {"withdrawn", "up"} /\ (to = "up") = (source[m] = "withdrawn")
  /\ Spend(IF to = "up" THEN "restore" ELSE "withdraw")
  /\ change' = [NoChange EXCEPT !.pc = "changed", !.m = m, !.to = to]
  /\ UNCHANGED <<session, source, retracted, receipt, save, copy, denied, status, rounds,
                 gone, withdrawn>>

\* invalidate_agent_session_derivatives: every unavailable turn is retracted,
\* uploaded or not, and the Session row is redacted, which waits for the row.
Invalidate ==
  LET after == [source EXCEPT ![change.m] = change.to]
      ledger == Unavailable(after, retracted)
      touches == session.live /\ session.shown \cap ledger # {}
  IN
  /\ change.pc = "changed"
  /\ touches => ~RowHeld
  /\ change' = [change EXCEPT !.pc = "redacted", !.held = touches, !.led = ledger]
  /\ UNCHANGED <<session, source, retracted, receipt, save, copy, denied, status, rounds,
                 gone, withdrawn, spent>>

CommitChange ==
  /\ change.pc = "redacted"
  /\ source' = [source EXCEPT ![change.m] = change.to]
  /\ retracted' = retracted \cup change.led
  /\ session' = IF change.held
                THEN [session EXCEPT !.rev = @ + 1, !.shown = @ \ change.led]
                ELSE session
  /\ withdrawn' = IF change.to = "withdrawn" THEN withdrawn \cup {change.m} ELSE withdrawn
  /\ change' = NoChange
  /\ UNCHANGED <<receipt, save, copy, denied, status, rounds, gone, spent>>

----------------------------------------------------------------------------
(* What a save ends with, for a device and for the run of a message. *)

Record(row) == [row EXCEPT !.due = FALSE]

Settled(m, s) == [status EXCEPT ![m] = s]

\* A device takes the record it is handed, whatever the answer.
Answer(w, answer, row) ==
  /\ save' = [save EXCEPT ![w] = NoSave]
  /\ IF w \in Devices
     THEN /\ denied' = IF answer = "done" THEN denied ELSE denied \cup {w}
          /\ copy' = [copy EXCEPT ![w] = Record(row)]
          /\ UNCHANGED <<status, rounds>>
     ELSE /\ UNCHANGED <<denied, copy>>
          /\ CASE answer = "done" -> status' = Settled(w, "settled") /\ UNCHANGED rounds
               [] answer = "gone" -> status' = Settled(w, "failed") /\ UNCHANGED rounds
               [] answer = "conflict" ->
                    IF rounds[w] + 1 < Rounds
                    THEN rounds' = [rounds EXCEPT ![w] = @ + 1] /\ UNCHANGED status
                    ELSE status' = Settled(w, "pending") /\ UNCHANGED rounds
               [] OTHER -> status' = Settled(w, "pending") /\ UNCHANGED rounds

\* Mutant: one attempt too many.
BusyAgain(w) ==
  IF save[w].tries < Attempts \/ w \in Devices
  THEN /\ save' = [save EXCEPT ![w] = [NoSave EXCEPT !.pc = "sent", !.req = save[w].req,
                    !.tries = IF w \in Devices THEN 0 ELSE save[w].tries + 1]]
       /\ UNCHANGED <<denied, copy, status, rounds>>
  ELSE Answer(w, "busy", session)

\* 55P03 and 40P01: everything rolls back, a later attempt starts over.  The
\* client told SOURCE_BUSY sends the same update again.
Busy(w) ==
  IF save[w].tries + 1 < Attempts \/ w \in Devices
  THEN /\ save' = [save EXCEPT ![w] = [NoSave EXCEPT !.pc = "sent", !.req = save[w].req,
                    !.tries = IF w \in Devices THEN 0 ELSE save[w].tries + 1]]
       /\ UNCHANGED <<denied, copy, status, rounds>>
  ELSE Answer(w, "busy", session)

RolledBack == UNCHANGED <<session, source, retracted, receipt, change, gone, withdrawn, spent>>

----------------------------------------------------------------------------
(* mutateAgentSession. *)

Open(w) == save[w].pc \in {"swept", "checked"}

\* preserveExecutionProvenance and the reserved messages: a device neither adds
\* the turn of a queued message nor rewrites its blocks.
Refused(w, req, row) ==
  /\ w \in Devices /\ ~req.del
  /\ \/ (req.turns \cap Queued) \ row.turns # {}
     \/ (req.shown \cap Queued) \ row.shown # {}

\* Blocks of a stored execution that the request leaves out are restored.
Preserved(req, row) == req.shown \cup (row.shown \cap req.turns \cap Queued)

\* Mutant: a retry is looked up after the revision.
VerdictLate(w, req, row) ==
  IF ~row.live THEN "gone"
  ELSE IF row.rev # req.rev THEN "conflict"
  ELSE IF receipt[w] = req THEN "done"
  ELSE IF receipt[w] # NoRequest \/ Refused(w, req, row) THEN "refused"
  ELSE "go"

\* Mutant: the expected revision is not compared.
VerdictUnchecked(w, req, row) ==
  IF receipt[w] = req THEN "done"
  ELSE IF receipt[w] # NoRequest THEN "refused"
  ELSE IF ~row.live THEN "gone"
  ELSE IF Refused(w, req, row) THEN "refused"
  ELSE "go"

\* Mutant: the run saves each attempt under a fresh key.
VerdictFresh(w, req, row) ==
  IF receipt[w] = req THEN "done"
  ELSE IF receipt[w] # NoRequest /\ w \in Devices THEN "refused"
  ELSE IF ~row.live THEN "gone"
  ELSE IF row.rev # req.rev THEN "conflict"
  ELSE IF Refused(w, req, row) THEN "refused"
  ELSE "go"

Verdict(w, req, row) ==
  IF receipt[w] = req THEN "done"
  ELSE IF receipt[w] # NoRequest THEN "refused"
  ELSE IF ~row.live THEN "gone"
  ELSE IF row.rev # req.rev THEN "conflict"
  ELSE IF Refused(w, req, row) THEN "refused"
  ELSE "go"

\* One writer per owner; the sweep, the receipt, the state and the revision.
\* A refusal hands the swept record although its sweep rolls back.
Begin(w) ==
  LET req == save[w].req
      row == Swept(session)
      verdict == Verdict(w, req, row)
  IN
  /\ save[w].pc = "sent" /\ \A v \in Writers : ~Open(v)
  /\ \/ row # session /\ RowHeld /\ Busy(w) /\ RolledBack
     \/ /\ row # session => ~RowHeld
        /\ \/ /\ verdict = "done" /\ Answer(w, "done", row)
              /\ session' = row /\ retracted' = SweptLedger
              /\ UNCHANGED <<source, receipt, change, gone, withdrawn, spent>>
           \/ /\ verdict \in {"gone", "conflict", "refused"}
              /\ Answer(w, verdict, row) /\ RolledBack
           \/ /\ verdict = "go"
              /\ save' = [save EXCEPT ![w] = [@ EXCEPT !.pc = "swept",
                   !.row = [req EXCEPT !.shown = Preserved(req, row)],
                   !.held = row # session, !.led = SweptLedger]]
              /\ UNCHANGED <<denied, copy, status, rounds>> /\ RolledBack

\* The sources are locked, and then read for the redaction.
Check(w) ==
  LET shown == Redacted(save[w].row.shown, source, retracted) IN
  /\ save' = [save EXCEPT ![w].pc = "checked", ![w].row.shown = shown,
                           ![w].led = @ \cup SweptLedger]
  /\ UNCHANGED <<denied, copy, status, rounds>> /\ RolledBack

\* Mutant: the sources are not locked.
LockSourcesNot(w) == save[w].pc = "swept" /\ Check(w)

\* Mutant: the locks of the sources are waited for.
LockSourcesWaiting(w) ==
  /\ save[w].pc = "swept"
  /\ change.m \in save[w].req.turns => save[w].req.del
  /\ Check(w)

\* lockAgentSessionSources: FOR SHARE NOWAIT.  A deletion carries no turns.
LockSources(w) ==
  /\ save[w].pc = "swept"
  /\ \/ change.m \in save[w].req.turns /\ Busy(w) /\ RolledBack
     \/ change.m \notin save[w].req.turns /\ Check(w)

\* The upsert: the row as it was swept or nothing.
Write(w) ==
  LET req == save[w].req
      next == [session EXCEPT !.rev = req.rev + 1, !.live = ~req.del,
                 !.turns = req.turns, !.shown = save[w].row.shown]
  IN
  /\ session' = next
  /\ retracted' = retracted \cup save[w].led
  /\ gone' = IF req.del THEN gone ELSE gone \cup (req.base \ req.turns)
  /\ UNCHANGED <<source, change, withdrawn>>
  /\ \/ /\ Answer(w, "done", next) /\ UNCHANGED spent
        /\ receipt' = IF w \in Devices THEN receipt ELSE [receipt EXCEPT ![w] = req]
     \/ /\ Spend("lost")
        /\ receipt' = [receipt EXCEPT ![w] = req]
        /\ IF w \in Devices
           THEN /\ save' = [save EXCEPT ![w] = [NoSave EXCEPT !.pc = "sent", !.req = req]]
                /\ UNCHANGED <<denied, copy, status, rounds>>
           ELSE Answer(w, "busy", next)

Commit(w) ==
  /\ save[w].pc = "checked"
  /\ \/ change.held /\ Busy(w) /\ RolledBack
     \/ /\ ~change.held /\ ~save[w].held
        /\ ~session.live \/ session.rev # save[w].req.rev
        /\ Answer(w, IF session.live THEN "conflict" ELSE "gone", session) /\ RolledBack
     \/ /\ ~change.held
        /\ save[w].held \/ (session.live /\ session.rev = save[w].req.rev)
        /\ Write(w)
----------------------------------------------------------------------------
(* Devices. *)

Request(d, turns) ==
  [rev |-> copy[d].rev, del |-> FALSE, base |-> copy[d].turns, turns |-> turns,
   shown |-> (copy[d].shown \cap turns) \cup (turns \ copy[d].turns)]

Deletion(d) == [NoRequest EXCEPT !.rev = copy[d].rev, !.del = TRUE, !.base = copy[d].turns]

\* A device saves what it was last handed, with a turn of its own added or a
\* turn removed, or deletes the Session, each under a fresh key.
Compose(d) ==
  /\ save[d].pc = "idle" /\ copy[d].live
  /\ \E req \in {Request(d, copy[d].turns \cup {m}) : m \in Own \ copy[d].turns}
               \cup {Request(d, copy[d].turns \ {m}) : m \in copy[d].turns}
               \cup {Deletion(d)} :
       /\ Spend(IF req.del THEN "delete" ELSE "save")
       /\ save' = [save EXCEPT ![d] = [NoSave EXCEPT !.pc = "sent", !.req = req]]
  /\ receipt' = [receipt EXCEPT ![d] = NoRequest]
  /\ denied' = denied \ {d}
  /\ UNCHANGED <<session, source, retracted, change, copy, status, rounds, gone, withdrawn>>

\* getAgentSession.
Read(d) ==
  /\ save[d].pc = "idle"
  /\ CommitSweep
  /\ copy' = [copy EXCEPT ![d] = Record(Swept(session))]
  /\ UNCHANGED <<source, receipt, change, save, denied, status, rounds, gone, withdrawn, spent>>

----------------------------------------------------------------------------
(* The runner: one message of the Session runs at a time, its claim is held. *)

Claim(m) ==
  /\ status[m] = "queued" /\ \A x \in Queued : status[x] \notin {"saving", "pending"}
  /\ status' = Settled(m, "saving")
  /\ UNCHANGED <<session, source, retracted, receipt, change, save, copy, denied, rounds,
                 gone, withdrawn, spent>>

\* A user retries a message whose answer is retained.
Retry(m) ==
  /\ status[m] = "pending"
  /\ Spend("retry")
  /\ status' = Settled(m, "saving") /\ rounds' = [rounds EXCEPT ![m] = 0]
  /\ UNCHANGED <<session, source, retracted, receipt, change, save, copy, denied, gone,
                 withdrawn>>

\* One round of saveConversationQueueTurn: the Session as it is, with the turn.
SaveTurn(m) ==
  LET row == Swept(session)
      req == [rev |-> row.rev, del |-> FALSE, base |-> row.turns,
              turns |-> row.turns \cup {m}, shown |-> row.shown \cup {m}]
  IN
  /\ status[m] = "saving" /\ save[m].pc = "idle"
  /\ CommitSweep
  /\ \/ ~row.live /\ status' = Settled(m, "failed") /\ UNCHANGED save
     \/ row.live /\ m \in row.turns /\ status' = Settled(m, "settled") /\ UNCHANGED save
     \/ /\ row.live /\ m \notin row.turns
        /\ save' = [save EXCEPT ![m] = [NoSave EXCEPT !.pc = "sent", !.req = req]]
        /\ UNCHANGED status
  /\ UNCHANGED <<source, receipt, change, copy, denied, rounds, gone, withdrawn, spent>>

\* A process or its connection is lost: the transaction rolls back.  A device
\* sends its update again, a run is recovered from its start.
Crash(w) ==
  /\ Open(w)
  /\ Spend("crash")
  /\ save' = [save EXCEPT ![w] = IF w \in Queued THEN NoSave
               ELSE [NoSave EXCEPT !.pc = "sent", !.req = save[w].req]]
  /\ UNCHANGED <<session, source, retracted, receipt, change, copy, denied, status, rounds,
                 gone, withdrawn>>

----------------------------------------------------------------------------
Serve(w) == Begin(w) \/ LockSources(w) \/ Commit(w)

Transition == Invalidate \/ CommitChange

SavesNext ==
  \/ \E w \in Writers : Serve(w) \/ Crash(w)
  \/ \E d \in Devices : Compose(d) \/ Read(d)
  \/ \E m \in Queued : Claim(m) \/ Retry(m) \/ SaveTurn(m)
  \/ \E m \in Messages : Lapses(m) \/ \E to \in {"withdrawn", "up"} : BeginChange(m, to)
  \/ Transition \/ Sweep \/ Expires

SavesSafety == SavesInit /\ [][SavesNext]_vars

\* The server answers what it was sent, the runner goes on, and a transition that
\* waits for the row gets it at last: the locks of a row are granted in the order
\* they were asked for, and a save that was refused backs off.  Users owe nothing.
SavesSpec ==
  /\ SavesSafety
  /\ \A w \in Writers : WF_vars(Serve(w))
  /\ SF_vars(Transition)
  /\ \A m \in Queued : WF_vars(Claim(m)) /\ WF_vars(SaveTurn(m))

----------------------------------------------------------------------------
Row == [live : BOOLEAN, rev : Nat, turns : SUBSET Messages, shown : SUBSET Messages,
        due : BOOLEAN]
Requests == [rev : Nat, del : BOOLEAN, base : SUBSET Messages, turns : SUBSET Messages,
             shown : SUBSET Messages]

\* Every variable of the Session's saves has its type.
SavesTypeOK ==
  /\ session \in Row /\ copy \in [Devices -> Row]
  /\ source \in [Messages -> {"up", "lapsed", "withdrawn"}]
  /\ retracted \subseteq Messages /\ gone \subseteq Messages /\ withdrawn \subseteq Messages
  /\ receipt \in [Writers -> Requests]
  /\ change \in [pc : {"idle", "changed", "redacted"}, m : Messages \cup {"none"},
                 to : {"up", "withdrawn"}, held : BOOLEAN, led : SUBSET Messages]
  /\ save \in [Writers -> [pc : {"idle", "sent", "swept", "checked"}, req : Requests,
                           row : Requests, held : BOOLEAN, led : SUBSET Messages,
                           tries : 0 .. Attempts - 1]]
  /\ denied \subseteq Devices
  /\ status \in [Queued -> {"queued", "saving", "settled", "pending", "failed"}]
  /\ rounds \in [Queued -> 0 .. Rounds - 1]
  /\ spent \in [DOMAIN Risk -> Nat]

\* A turn whose source was withdrawn shows no blocks in any committed Session,
\* however the save that wrote it overlapped the withdrawal, and stays so when
\* the source is restored.
WithdrawnStaysHidden == session.shown \cap withdrawn = {}

\* A device is not told that its save was refused when the save was committed,
\* whatever was lost, retried or saved by others in between.
KnownOutcome ==
  \A d \in denied : receipt[d] = NoRequest

\* A turn leaves a live Session only through a save that was composed with the
\* turn in view: no save overwrites what its author has not seen.
NothingLostUnseen ==
  [][\A m \in session.turns \ session'.turns : session'.live => m \in gone']_vars

History == INSTANCE SessionHistory WITH
  Messages <- Queued,
  open <- session.live,
  kept <- session.turns \cap Queued,
  removed <- gone \cap Queued

\* Each queued message enters the history once and never returns.
KeepsHistory == History!Spec

\* Every update a device sent and every answer the runner saves comes to an end.
SaveEnds ==
  /\ \A d \in Devices : save[d].pc # "idle" ~> save[d].pc = "idle"
  /\ \A m \in Queued : status[m] = "saving" ~> status[m] # "saving"
=============================================================================
