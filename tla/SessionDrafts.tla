----------------------------- MODULE SessionDrafts -----------------------------
(***************************************************************************)
(* The composer draft of one Session, edited in the Session workbench of   *)
(* several devices (LegacySessionWorkbench, session-detail-state.ts,       *)
(* session-draft-pending.ts, session-save-drain.ts, session-open-          *)
(* refresh.ts, session-send-cleanup.ts) and saved through the web server   *)
(* (workspaceSessions.ts) under the revision each editor last loaded.      *)
(*                                                                         *)
(* A device has one tab and one slot in its local storage.  Everything the *)
(* user types is new: draft n is the n-th that anybody made, and n is also *)
(* its timestamp and its idempotency key.  Draft 0 is the empty one.       *)
(***************************************************************************)
EXTENDS Naturals, Sequences, FiniteSets

CONSTANTS
  Devices,
  Risk,       \* the kinds of event that may happen, and how often each
  MaxKinds,   \* how many kinds happen in one behaviour, Usual ones not counted
  None

Usual == {"visit", "type", "send", "ended"}

\* A save of the draft, with two ghosts; what is kept of unsaved or unsent work;
\* what a send knows the stored draft by.
Requests == [text : Nat, exp : Nat, at : Nat, over : Nat, cleanup : BOOLEAN]
Identities == [text : Nat, at : Nat]
Pendings == [kind : {"draft", "send"}, text : Nat, at : Nat, base : Nat,
             pred : Requests \cup {None}, ident : Identities \cup {None}]

ASSUME DraftsAssumption ==
  /\ IsFiniteSet(Devices) /\ MaxKinds \in Nat
  /\ None \notin Requests \cup Identities \cup Pendings
  /\ \A k \in DOMAIN Risk : Risk[k] \in Nat

VARIABLES
  server,     \* the Session row: revision, draft, its timestamp, not deleted,
              \* and whether its scope lets a workbench send a message
  applied,    \* keys with a row in agent_session_operations
  wire,       \* PUT requests of the tabs: sent, read, answered
  tab,        \* the workbench open on each device, and the device's slot
  typed,      \* ghost: the device that made each draft
  kept,       \* ghost: drafts the server has stored, with the device that saved each
  newest,     \* ghost: what each user last typed and neither took back
              \* nor stopped sending
  asked,      \* ghost: drafts the Agent was asked, now turns of the Session
  spent       \* events that happened, by kind

ghostVars == <<typed, kept, newest, asked>>
vars == <<server, applied, wire, tab, ghostVars, spent>>

\* initialDetailState, with the refs of a workbench that has just mounted.
Mounted(d, held) ==
  [pc |-> "open", slot |-> held, det |-> d, draft |-> d.text, saved |-> d.text,
   status |-> "idle", conflict |-> FALSE, attempt |-> None, pend |-> None,
   send |-> None, phase |-> "no", call |-> None, current |-> TRUE, more |-> "no",
   reads |-> {}]

Unmounted(d, held) == [Mounted(d, held) EXCEPT !.pc = "closed"]

PendingDraft(n, base, pred) ==
  [kind |-> "draft", text |-> n, at |-> n, base |-> base, pred |-> pred, ident |-> None]

\* Of a Session that can be asked in, this workbench opens only what an earlier
\* visit left unsaved (SessionComposerMode), so the devices come with a draft.
DraftsInit ==
  /\ \E asks \in BOOLEAN :
       server = [rev |-> 1, text |-> 0, at |-> 0, live |-> TRUE, asks |-> asks]
  /\ typed \in IF server.asks THEN {s \in [1 .. Cardinality(Devices) -> Devices] :
                                      \A i, j \in DOMAIN s : s[i] = s[j] => i = j}
              ELSE {<<>>}
  /\ newest = [d \in Devices |-> IF server.asks THEN CHOOSE i \in DOMAIN typed : typed[i] = d
                                 ELSE 0]
  /\ tab = [d \in Devices |-> Unmounted(server, IF server.asks THEN PendingDraft(newest[d], 1, None)
                                                ELSE None)]
  /\ applied = {} /\ wire = {} /\ kept = {} /\ asked = {}
  /\ spent = [k \in DOMAIN Risk |-> 0]

Spend(kind) ==
  /\ kind \in DOMAIN Risk
  /\ spent[kind] < Risk[kind]
  /\ Cardinality(({k \in DOMAIN Risk : spent[k] > 0} \cup {kind}) \ Usual) <= MaxKinds
  /\ spent' = [spent EXCEPT ![kind] = @ + 1]

Open(d) == tab[d].pc = "open"
Live(d) == Open(d) /\ tab[d].det.live
Sending(d) == tab[d].phase # "no"

SetTab(d, t) == tab' = [tab EXCEPT ![d] = t]

-------------------------------------------------------------------------------
(* Editor states *)

Typed(t, n) ==
  [t EXCEPT !.draft = n,
            !.status = IF t.conflict THEN "conflict"
                       ELSE IF n = t.saved THEN "saved" ELSE "pending"]

Conflicted(t) == [t EXCEPT !.conflict = TRUE, !.status = "conflict"]

Dead(t, d) ==
  [t EXCEPT !.det = d, !.draft = 0, !.saved = 0, !.status = "idle", !.conflict = FALSE]

Dropped(t) == [t EXCEPT !.attempt = None, !.pend = None, !.slot = None]

\* clearPendingSessionDraft: a record under another key stays.
Cleared(t, key) == [t EXCEPT !.slot = IF @ # None /\ @.at = key THEN None ELSE @]

SameDraft(d, text, at) == d.text = text /\ d.at = at

\* resolvePendingSessionDraft
Resolution(p, d) ==
  IF ~d.live THEN "unavailable"
  ELSE IF d.rev > p.base /\ SameDraft(d, p.text, p.at) THEN "settled"
  ELSE IF \/ d.rev = p.base
          \/ p.pred # None /\ d.rev = p.pred.exp + 1 /\ SameDraft(d, p.pred.text, p.pred.at)
       THEN "continue"
  ELSE "conflict"

Rebased(p, rev) == [p EXCEPT !.base = rev, !.pred = None]

-------------------------------------------------------------------------------
(* Saving: executePersist under SessionSaveDrain *)

MaySave(t) == t.send = None /\ t.det.live /\ ~t.conflict

Owned(t) == t.pend # None /\ t.pend.text = t.draft

NewStamp(t) == t.attempt = None /\ t.draft # t.saved /\ ~Owned(t)

\* The request of a save; over and cleanup (ghosts) say what the editor takes
\* the stored draft to be, and whether an answered message is what empties it.
Request(t) ==
  IF t.attempt # None THEN t.attempt
  ELSE [text |-> t.draft, exp |-> t.det.rev,
        at |-> IF Owned(t) THEN t.pend.at ELSE Len(typed) + 1,
        over |-> t.saved, cleanup |-> t.phase = "clearing"]

Begun(t) ==
  IF t.attempt = None /\ Owned(t)
  THEN LET p == Rebased(t.pend, t.det.rev) IN [t EXCEPT !.pend = p, !.slot = p]
  ELSE t

\* One run of the drain from t, with w on the wire.
Save(d, t, w, force) ==
  \/ /\ MaySave(t) /\ (t.attempt # None \/ t.draft # t.saved)
     /\ LET req == Request(t) IN
          /\ SetTab(d, [Begun(t) EXCEPT !.attempt = req, !.status = "saving",
                                        !.call = req, !.current = TRUE])
          /\ wire' = w \cup {[by |-> d, req |-> req, stage |-> "sent", det |-> None,
                              heard |-> TRUE]}
     /\ typed' = IF NewStamp(t) THEN Append(typed, d) ELSE typed
  \/ /\ MaySave(t) /\ t.attempt = None /\ t.draft = t.saved
     /\ SetTab(d, IF force /\ t.pend # None
                  THEN [Cleared(t, t.pend.at) EXCEPT !.pend = None] ELSE t)
     /\ wire' = w /\ UNCHANGED typed
  \/ /\ ~MaySave(t)
     /\ SetTab(d, t)
     /\ wire' = w /\ UNCHANGED typed

\* SessionSaveDrain.run: one save at a time and one more after it.
Run(d, t, force) ==
  IF t.call = None THEN Save(d, t, wire, force)
  ELSE /\ SetTab(d, [t EXCEPT !.more = IF force \/ @ = "force" THEN "force" ELSE "yes"])
       /\ UNCHANGED <<wire, typed>>

Invalidated(t) == [t EXCEPT !.current = FALSE, !.more = "no"]

Rest == <<server, applied, kept, newest, asked>>

\* The debounce timer of a draft that changed.
Debounce(d) ==
  /\ Live(d) /\ tab[d].status = "pending" /\ ~Sending(d) /\ tab[d].send = None
  /\ tab[d].more = "no"
  /\ Run(d, tab[d], FALSE)
  /\ UNCHANGED <<Rest, spent>>

\* The button, for a draft that could not be saved or was not yet.
SaveNow(d) ==
  /\ Live(d) /\ MaySave(tab[d]) /\ tab[d].status # "saving" /\ ~Sending(d)
  /\ tab[d].attempt # None \/ tab[d].pend # None \/ tab[d].draft # tab[d].saved
  /\ Spend("save")
  /\ Run(d, tab[d], TRUE)
  /\ UNCHANGED Rest

Answers == {"done", "refused"}

\* Mutant: the slot is cleared whatever it holds.
SettledClearing(t, req, d) ==
  [t EXCEPT !.attempt = None, !.pend = None, !.slot = None, !.det = d, !.conflict = FALSE,
            !.saved = req.text, !.status = IF t.draft = req.text THEN "saved" ELSE "pending"]

\* Mutant: the draft is saved whatever it is by now.
SettledAll(t, req, d) ==
  LET u == IF t.pend # None /\ t.pend.at = req.at
           THEN Cleared([t EXCEPT !.pend = None], req.at) ELSE t
  IN  [u EXCEPT !.attempt = None, !.det = d, !.conflict = FALSE,
                !.saved = req.text, !.status = "saved"]

\* What a stored draft makes of the workbench.
Settled(t, req, d) ==
  LET u == IF t.pend = None THEN [t EXCEPT !.attempt = None]
           ELSE IF t.pend.at = req.at
                THEN Cleared([t EXCEPT !.attempt = None, !.pend = None], req.at)
                ELSE LET p == Rebased(t.pend, d.rev) IN
                     [t EXCEPT !.attempt = None, !.pend = p, !.slot = p]
  IN  [u EXCEPT !.det = d, !.conflict = FALSE, !.saved = req.text,
                !.status = IF u.draft = req.text THEN "saved" ELSE "pending"]

Answered(t, e) ==
  IF e.stage = "refused" THEN Conflicted([t EXCEPT !.attempt = None])
  ELSE IF e.det.live THEN Settled(t, e.req, e.det)
  ELSE Dead(Dropped(t), e.det)

\* The active save ends: its answer counts unless the drain was invalidated,
\* then the coalesced follow-up runs.
EndSave(d, settled, w) ==
  LET t == [(IF tab[d].current THEN settled ELSE tab[d]) EXCEPT
              !.call = None, !.more = "no",
              !.phase = IF @ = "clearing" THEN "no" ELSE @]
  IN IF tab[d].more = "no"
     THEN SetTab(d, t) /\ wire' = w /\ UNCHANGED typed
     ELSE Save(d, t, w, tab[d].more = "force")

Receive(d) ==
  /\ Open(d)
  /\ \E e \in wire :
       /\ e.by = d /\ e.heard /\ e.stage \in Answers
       /\ EndSave(d, Answered(tab[d], e), wire \ {e})
  /\ UNCHANGED <<Rest, spent>>

\* The tab never gets the answer; the server may still work on the request.
Lose(d) ==
  /\ Open(d)
  /\ \E e \in wire :
       /\ e.by = d /\ e.heard
       /\ Spend("lost")
       /\ EndSave(d, [tab[d] EXCEPT !.status = "error"],
                  (wire \ {e}) \cup (IF e.stage \in Answers THEN {}
                                     ELSE {[e EXCEPT !.heard = FALSE]}))
  /\ UNCHANGED Rest

-------------------------------------------------------------------------------
(* The server: saveWorkspaceSessionDraft reads, then writes under the revision *)

Reply(e, stage, det) ==
  wire' = (wire \ {e}) \cup
            (IF e.heard THEN {[e EXCEPT !.stage = stage, !.det = det]} ELSE {})

ServerRest == <<tab, typed, newest, asked, spent>>

ReadForSave(e) ==
  /\ e.stage = "sent"
  /\ \/ /\ server.live /\ server.rev = e.req.exp
        /\ wire' = (wire \ {e}) \cup {[e EXCEPT !.stage = "read"]}
     \/ /\ server.live /\ server.rev # e.req.exp
        /\ IF server.rev > e.req.exp /\ SameDraft(server, e.req.text, e.req.at)
           THEN Reply(e, "done", server) ELSE Reply(e, "refused", None)
     \/ ~server.live /\ Reply(e, "done", server)
  /\ UNCHANGED <<server, applied, kept, ServerRest>>

\* mutateAgentSession: a known key is answered with the Session as it is now.
Commit(e) ==
  /\ e.stage = "read" /\ server.live /\ e.req.at \notin applied /\ server.rev = e.req.exp
  /\ server' = [server EXCEPT !.rev = @ + 1, !.text = e.req.text, !.at = e.req.at]
  /\ applied' = applied \cup {e.req.at}
  /\ kept' = kept \cup {<<e.req.text, e.by>>}
  /\ Reply(e, "done", server')

Refuse(e) ==
  /\ e.stage = "read" /\ e.req.at \notin applied
  /\ \/ ~server.live /\ Reply(e, "done", server)
     \/ server.live /\ server.rev # e.req.exp /\ Reply(e, "refused", None)
  /\ UNCHANGED <<server, applied, kept>>

Replay(e) ==
  /\ e.stage = "read" /\ e.req.at \in applied
  /\ Reply(e, "done", server)
  /\ UNCHANGED <<server, applied, kept>>

Serve ==
  \E e \in wire :
    \/ ReadForSave(e)
    \/ (Commit(e) \/ Refuse(e) \/ Replay(e)) /\ UNCHANGED ServerRest

\* The queue's runner or another surface adds a turn; the draft stays.
Turn ==
  /\ server.live
  /\ Spend("turn")
  /\ server' = [server EXCEPT !.rev = @ + 1]
  /\ UNCHANGED <<applied, wire, tab, ghostVars>>

Expire ==
  /\ server.live
  /\ Spend("expire")
  /\ server' = [server EXCEPT !.rev = @ + 1, !.text = 0, !.at = 0, !.live = FALSE]
  /\ UNCHANGED <<applied, wire, tab, ghostVars>>

-------------------------------------------------------------------------------
(* The page *)

\* Mounting reads the Session and settles what the slot holds against it.
Recovered(d) ==
  LET p == tab[d].slot
      t == Mounted(server, p)
  IN IF p = None THEN t
     ELSE IF p.kind = "send" THEN [t EXCEPT !.send = p, !.draft = p.text]
     ELSE CASE Resolution(p, server) \in {"settled", "unavailable"} -> Cleared(t, p.at)
            [] Resolution(p, server) = "continue" ->
                 LET q == Rebased(p, server.rev) IN
                 Typed([t EXCEPT !.pend = q, !.slot = q], p.text)
            [] OTHER -> Conflicted(Typed([t EXCEPT !.pend = p], p.text))

Visit(d) ==
  /\ ~Open(d) /\ (server.asks => tab[d].slot # None)
  /\ Spend("visit")
  /\ SetTab(d, Recovered(d))
  /\ UNCHANGED <<server, applied, wire, typed, kept, newest, asked>>

\* The tab crashes, or closes: pagehide flushes a draft, keepalive carries it.
Flushes(t) ==
  t.send = None /\ t.det.live /\ t.draft # t.saved /\ t.status \notin {"saving", "conflict"}

Abandoned(w, d) == {[e EXCEPT !.heard = FALSE] : e \in {x \in w : x.by = d /\ x.stage \notin Answers}}
                     \cup {e \in w : e.by # d}

Leave(d) ==
  /\ Open(d)
  /\ Spend("leave")
  /\ \/ /\ SetTab(d, Unmounted(tab[d].det, tab[d].slot))
        /\ wire' = Abandoned(wire, d)
        /\ UNCHANGED typed
     \/ /\ Flushes(tab[d]) /\ tab[d].call = None /\ MaySave(tab[d])
        /\ SetTab(d, Unmounted(tab[d].det, Begun(tab[d]).slot))
        /\ wire' = Abandoned(wire, d)
                     \cup {[by |-> d, req |-> Request(tab[d]), stage |-> "sent", det |-> None,
                            heard |-> FALSE]}
        /\ typed' = IF NewStamp(tab[d]) THEN Append(typed, d) ELSE typed
  /\ UNCHANGED Rest

\* Mutant: the editor is writable while a send is to be retried.
TypeWhileSending(d) ==
  /\ Live(d) /\ ~Sending(d)
  /\ Spend("type")
  /\ LET n == Len(typed) + 1
         p == PendingDraft(n, tab[d].det.rev, tab[d].attempt)
     IN /\ SetTab(d, Typed([tab[d] EXCEPT !.pend = p, !.slot = p], n))
        /\ newest' = [newest EXCEPT ![d] = n]
  /\ typed' = Append(typed, d)
  /\ UNCHANGED <<server, applied, wire, kept, asked>>

\* Typing anything, or typing the stored draft again.
Type(d) ==
  /\ Live(d) /\ ~Sending(d) /\ tab[d].send = None
  /\ Spend("type")
  /\ LET n == Len(typed) + 1
         p == PendingDraft(n, tab[d].det.rev, tab[d].attempt)
     IN /\ SetTab(d, Typed([tab[d] EXCEPT !.pend = p, !.slot = p], n))
        /\ newest' = [newest EXCEPT ![d] = n]
  /\ typed' = Append(typed, d)
  /\ UNCHANGED <<server, applied, wire, kept, asked>>

Revert(d) ==
  /\ Live(d) /\ ~Sending(d) /\ tab[d].send = None /\ tab[d].draft # tab[d].saved
  /\ Spend("revert")
  /\ SetTab(d, Typed([tab[d] EXCEPT !.pend = None, !.slot = None], tab[d].saved))
  /\ newest' = [newest EXCEPT ![d] = 0]
  /\ UNCHANGED <<server, applied, wire, typed, kept, asked>>

\* The page reads the Session again, in the background or at the user's word,
\* and uses the answer some time later.
Refresh(d) ==
  /\ Live(d)
  /\ Spend("refresh")
  /\ SetTab(d, [tab[d] EXCEPT !.reads = @ \cup {[what |-> "refresh", det |-> server]}])
  /\ UNCHANGED <<server, applied, wire, ghostVars>>

ApplyRefresh(d) ==
  /\ Live(d)
  /\ \E r \in tab[d].reads :
       /\ r.what = "refresh"
       /\ LET t == [tab[d] EXCEPT !.reads = @ \ {r}] IN
          SetTab(d, IF ~r.det.live THEN Dead(t, r.det)
                    ELSE IF r.det.rev < t.det.rev THEN Conflicted(t)
                    ELSE [t EXCEPT !.det = r.det])
  /\ UNCHANGED <<server, applied, wire, ghostVars, spent>>

Reload(d) ==
  /\ Live(d) /\ tab[d].conflict
  /\ \A r \in tab[d].reads : r.what # "reload"
  /\ Spend("reload")
  /\ SetTab(d, [Invalidated(tab[d]) EXCEPT !.reads = @ \cup {[what |-> "reload", det |-> server]}])
  /\ UNCHANGED <<server, applied, wire, ghostVars>>

ApplyReload(d) ==
  /\ Open(d)
  /\ \E r \in tab[d].reads :
       /\ r.what = "reload"
       /\ LET same == tab[d].draft = r.det.text IN
          SetTab(d, [tab[d] EXCEPT
                       !.reads = @ \ {r}, !.attempt = None, !.det = r.det,
                       !.saved = r.det.text, !.conflict = ~same,
                       !.status = IF same THEN "saved" ELSE "conflict"])
  /\ UNCHANGED <<server, applied, wire, typed, kept, newest, asked, spent>>

\* The user deletes the Session from this workbench.
Remove(d) ==
  /\ Live(d) /\ ~tab[d].conflict /\ ~Sending(d) /\ tab[d].send = None
  /\ Spend("remove")
  /\ LET t == Invalidated(tab[d]) IN
     \/ /\ server.live /\ server.rev = tab[d].det.rev
        /\ server' = [server EXCEPT !.rev = @ + 1, !.text = 0, !.at = 0, !.live = FALSE]
        /\ SetTab(d, Dead([t EXCEPT !.pend = None, !.slot = None], server'))
     \/ /\ server.live /\ server.rev # tab[d].det.rev
        /\ SetTab(d, Conflicted(t)) /\ UNCHANGED server
     \/ ~server.live /\ SetTab(d, t) /\ UNCHANGED server
  /\ UNCHANGED <<applied, wire, ghostVars>>

\* The request to delete fails, after it silenced the drain.
FailRemove(d) ==
  /\ Live(d) /\ ~tab[d].conflict /\ ~Sending(d) /\ tab[d].send = None
  /\ Spend("unremoved")
  /\ SetTab(d, Invalidated(tab[d]))
  /\ UNCHANGED <<server, applied, wire, ghostVars>>

-------------------------------------------------------------------------------
(* Sending: sendMessage, and what it may empty when the answer is there *)

Send(d) ==
  /\ server.asks /\ Live(d) /\ ~Sending(d) /\ ~tab[d].conflict /\ tab[d].draft # 0
  /\ IF tab[d].send = None
     THEN Spend("send") /\ Run(d, [tab[d] EXCEPT !.phase = "saving"], TRUE)
     ELSE SetTab(d, [tab[d] EXCEPT !.phase = "ask"]) /\ UNCHANGED <<wire, typed, spent>>
  /\ UNCHANGED Rest

\* captureSessionSendCleanupIdentity
Identity(t) == IF t.det.at # 0 /\ t.det.text = t.saved
               THEN [text |-> t.saved, at |-> t.det.at] ELSE None

\* The save is over: the send takes the slot, under a key of its own.
Capture(d) ==
  /\ Open(d) /\ tab[d].phase = "saving" /\ tab[d].call = None
  /\ IF tab[d].conflict \/ tab[d].status = "error" \/ ~tab[d].det.live
     THEN SetTab(d, [tab[d] EXCEPT !.phase = "no"]) /\ UNCHANGED typed
     ELSE /\ LET p == [kind |-> "send", text |-> tab[d].draft, at |-> Len(typed) + 1,
                       base |-> tab[d].det.rev, pred |-> None, ident |-> Identity(tab[d])]
             IN SetTab(d, [tab[d] EXCEPT !.send = p, !.slot = p, !.phase = "ask"])
          /\ typed' = Append(typed, d)
  /\ UNCHANGED <<wire, Rest, spent>>

\* The Agent answers the message once (its request id) and its turn is saved;
\* the tab hears of it or not.
Ask(d) ==
  /\ Open(d) /\ tab[d].phase = "ask"
  /\ \/ /\ server.live
        /\ LET k == tab[d].send.at IN
             /\ server' = IF k \in applied THEN server ELSE [server EXCEPT !.rev = @ + 1]
             /\ applied' = applied \cup {k}
        /\ asked' = asked \cup {tab[d].send.text}
        /\ \/ SetTab(d, [tab[d] EXCEPT !.phase = "asked"]) /\ UNCHANGED spent
           \/ SetTab(d, [tab[d] EXCEPT !.phase = "no"]) /\ Spend("lost")
     \/ /\ ~server.live
        /\ SetTab(d, [tab[d] EXCEPT !.phase = "no"])
        /\ UNCHANGED <<server, applied, asked, spent>>
  /\ UNCHANGED <<wire, typed, kept, newest>>

ReadBack(d) ==
  /\ Open(d) /\ tab[d].phase = "asked"
  /\ \/ /\ SetTab(d, [tab[d] EXCEPT !.phase = "reading",
                                    !.reads = @ \cup {[what |-> "send", det |-> server]}])
        /\ UNCHANGED spent
     \/ SetTab(d, [tab[d] EXCEPT !.phase = "no"]) /\ Spend("lost")
  /\ UNCHANGED <<server, applied, wire, ghostVars>>

\* Mutant: any draft read back is taken for the one sent.
MatchesAny(ident, d) == ident # None

Matches(ident, d) == ident # None /\ SameDraft(d, ident.text, ident.at)

\* resolveSessionSendCompletion: the draft is emptied, under the revision that
\* was read, only when it is still the one that was sent.
Complete(d) ==
  /\ Open(d)
  /\ \E r \in tab[d].reads :
       /\ r.what = "send"
       /\ LET t == [Mounted(r.det, Cleared(tab[d], tab[d].send.at).slot) EXCEPT
                      !.reads = tab[d].reads \ {r}]
          IN IF r.det.live /\ Matches(tab[d].send.ident, r.det)
             THEN Save(d, [Typed(t, 0) EXCEPT !.phase = IF r.det.text = 0 THEN "no" ELSE "clearing"],
                       wire, TRUE)
             ELSE SetTab(d, t) /\ UNCHANGED <<wire, typed>>
  /\ UNCHANGED <<server, applied, kept, newest, asked, spent>>

EndRetry(d) ==
  /\ Open(d) /\ tab[d].send # None /\ ~Sending(d)
  /\ Spend("ended")
  /\ SetTab(d, [Cleared(tab[d], tab[d].send.at) EXCEPT !.send = None])
  /\ newest' = [newest EXCEPT ![d] = 0]
  /\ UNCHANGED <<server, applied, wire, typed, kept, asked>>

-------------------------------------------------------------------------------

PageStep(d) ==
  \/ Visit(d) \/ Leave(d) \/ Type(d) \/ Revert(d)
  \/ Debounce(d) \/ SaveNow(d) \/ Receive(d) \/ Lose(d)
  \/ Refresh(d) \/ ApplyRefresh(d) \/ Reload(d) \/ ApplyReload(d)
  \/ Remove(d) \/ FailRemove(d)
  \/ Send(d) \/ Capture(d) \/ Ask(d) \/ ReadBack(d) \/ Complete(d) \/ EndRetry(d)

DraftsNext == Serve \/ Turn \/ Expire \/ \E d \in Devices : PageStep(d)

DraftsSpec == DraftsInit /\ [][DraftsNext]_vars

-------------------------------------------------------------------------------
(* Properties *)

\* The server has stored draft n, or it is the empty one.
Stored(n) == n = 0 \/ \E d \in Devices : <<n, d>> \in kept

\* Beside the types: no editor is ahead of the server, a status of conflict is
\* a conflict, the save the drain runs is on the wire, a send has the slot.
DraftsTypeOK ==
  /\ Stored(server.text)
  /\ server.at \in 0 .. Len(typed)
  /\ \A d \in Devices :
       LET t == tab[d] IN
       /\ t.status \in {"idle", "pending", "saving", "saved", "error", "conflict"}
       /\ t.det.rev <= server.rev
       /\ t.status = "conflict" => t.conflict
       /\ t.call # None => \E e \in wire : e.by = d /\ e.heard /\ e.req = t.call
       /\ t.send # None => t.slot = t.send
       /\ t.pend # None => t.pend.kind = "draft"

\* What a user last typed survives a crash of the page at any moment: it is in
\* the slot of the device, or the server has stored it, as a draft or as the
\* message it was sent as, unless the Session itself is gone.
TypedSurvives ==
  \A d \in Devices :
    newest[d] # 0 /\ server.live =>
      \/ Stored(newest[d]) \/ newest[d] \in asked
      \/ tab[d].slot # None /\ tab[d].slot.text = newest[d]

\* Sending a message empties the stored draft only if that was sent, or if this
\* device has itself saved the same draft: none of which only another device knows.
CleanupOnlySent ==
  [][\A e \in wire :
       e.req.cleanup /\ Commit(e) =>
         server.text \in asked \/ <<server.text, e.by>> \in kept]_vars

\* What the status line says of the draft is so: a draft it calls saved is what
\* the server has stored, a draft it calls unsaved differs from that, and while
\* it says "saving" an answer is awaited, unless the user's own deletion or
\* reload silenced the save.
StatusIsTrue ==
  \A d \in Devices :
    LET t == tab[d] IN
    /\ t.status = "saved" => t.draft = t.saved /\ Stored(t.saved)
    /\ t.status = "pending" => t.draft # t.saved
    /\ t.status = "saving" => t.call # None \/ ~t.current

\* What the label "saving" tells the user, and the rule that a failed save
\* exposes a retry, with no exception.
SavingHasASave ==
  \A d \in Devices : Live(d) /\ tab[d].status = "saving" => tab[d].call # None

\* What the comments promise of two devices: a save never replaces a stored
\* draft that its editor did not know of.
NeverOverwritesUnseen ==
  [][\A e \in wire : Commit(e) => server.text = e.req.over]_vars
===============================================================================
