---------------------------- MODULE GovernedActions ----------------------------
(***************************************************************************)
(* Approval, execution, reconciliation and reversal of the governed        *)
(* actions that name one destination (actions.ts), and what ends their     *)
(* authority beside them: a decision about the source an action rests on   *)
(* (sourceAuthorization.ts, identityCorrections.ts) and the deletion of    *)
(* that source (captures.ts).                                              *)
(*                                                                         *)
(* The transactions run at READ COMMITTED and take the rows in different   *)
(* orders: an execution locks the action and then its approval, the others *)
(* the approval and then the action.  An operation that holds every row it *)
(* uses from its first statement is one action here; the execution, the    *)
(* withdrawal of an approval and the changes of a source are one action    *)
(* per statement that takes a lock.  What they write is seen by others     *)
(* when they commit, what they lock at once.                               *)
(*                                                                         *)
(* Each action rests on a source of its own, and each source on one fact.  *)
(***************************************************************************)
EXTENDS Naturals, FiniteSets

CONSTANTS
  Actions,
  Texts,      \* what a preview may want to write
  Risk,       \* the kinds of event that may happen, and how often each
  MaxKinds    \* how many kinds happen in one behaviour, Usual ones not counted

Usual == {"approve"}
Behaviors == {"success", "failure", "timeout_before_write", "timeout_after_write"}
Capabilities == {"attention", "removal"}

ASSUME GovernedAssumption ==
  /\ Texts # {} /\ MaxKinds \in Nat
  /\ "none" \notin Actions
  /\ \A k \in DOMAIN Risk : Risk[k] \in Nat

VARIABLES
  source,     \* state of each source, and whether its deadline has passed
  fact,       \* review_status of what the action requires
  action,     \* action_proposals: status, version and exact preview
  approval,   \* the latest row of action_approvals: its number, the action
              \* version it is for, its status
  grants,     \* capability_grants that are active
  dest,       \* simulated_destinations: version 0 is no row; by and of are
              \* ghosts: the action and the version of it that wrote the state
  seen,       \* the destination version observed by the verified attempt, or 0
  reversal,   \* the latest row of effect_reversal_approvals
  undone,     \* actions with a verified reversal
  exec,       \* the open executeAction of each action
  revoking,   \* actions whose approval is locked by an open revokeApproval
  change,     \* the open change of each source
  spent       \* events that happened, by kind

actionVars == <<action, approval, grants>>
effectVars == <<dest, seen, reversal, undone>>
sourceVars == <<source, fact>>
openVars == <<exec, revoking, change>>
vars == <<sourceVars, actionVars, effectVars, openVars, spent>>

NoChange == [pc |-> "idle", kind |-> "none", target |-> 0,
             ended |-> FALSE, erased |-> FALSE, acted |-> FALSE]
NoRow == [ver |-> 0, text |-> "none", by |-> "none", of |-> 0]

GovernedInit ==
  /\ source = [a \in Actions |-> [state |-> "authorized", due |-> FALSE]]
  /\ fact = [a \in Actions |-> "pending"]
  /\ action \in [Actions -> [status : {"proposed"}, ver : {1}, expects : {0},
                             does : Behaviors, text : Texts]]
  /\ approval = [a \in Actions |-> [n |-> 0, ver |-> 0, status |-> "none"]]
  /\ grants = Capabilities
  /\ dest = NoRow
  /\ seen = [a \in Actions |-> 0]
  /\ reversal = [a \in Actions |-> [status |-> "none", ver |-> 0, text |-> "none"]]
  /\ undone = {}
  /\ exec = [a \in Actions |-> "idle"]
  /\ revoking = {}
  /\ change = [a \in Actions |-> NoChange]
  /\ spent = [k \in DOMAIN Risk |-> 0]

Spend(kind) ==
  /\ kind \in DOMAIN Risk
  /\ spent[kind] < Risk[kind]
  /\ Cardinality(({k \in DOMAIN Risk : spent[k] > 0} \cup {kind}) \ Usual) <= MaxKinds
  /\ spent' = [spent EXCEPT ![kind] = @ + 1]

\* status = 'active'; its expires_at may have passed.
Live(a) == approval[a].status \in {"active", "late"}

\* Rows that an open transaction has locked or written.
ActionLocked(a) == exec[a] # "idle" \/ change[a].acted
ApprovalLocked(a) == exec[a] = "checked" \/ a \in revoking \/ change[a].ended
DestinationLocked == \E a \in Actions : change[a].erased

Ended(a) == [approval EXCEPT ![a].status = "ended"]

-------------------------------------------------------------------------------
(* Review, approval and revision *)

\* The person confirms the fact; the decision locks the source's rows.
Review(a) ==
  /\ change[a].pc = "idle"
  /\ source[a] = [state |-> "authorized", due |-> FALSE]
  /\ fact[a] = "pending"
  /\ fact' = [fact EXCEPT ![a] = "confirmed"]
  /\ UNCHANGED <<source, actionVars, effectVars, openVars, spent>>

\* The action is locked, and with it every approval that could be active.
Held(a) == ~ActionLocked(a) /\ (Live(a) => ~ApprovalLocked(a))

Approve(a) ==
  /\ Held(a)
  /\ action[a].status \in {"proposed", "failed", "approved"}
  /\ fact[a] = "confirmed"
  /\ Spend("approve")
  /\ approval' = [approval EXCEPT ![a] = [n |-> @.n + 1, ver |-> action[a].ver,
                                          status |-> "active"]]
  /\ action' = [action EXCEPT ![a].status = "approved"]
  /\ UNCHANGED <<sourceVars, grants, effectVars, openVars>>

\* A revision shows the destination as it is or as it was.
Revise(a) ==
  /\ Held(a)
  /\ action[a].status \notin {"completed", "unknown", "deleted"}
  /\ Spend("revise")
  /\ \E does \in Behaviors, text \in Texts, expects \in {action[a].expects, dest.ver} :
       action' = [action EXCEPT ![a] = [status |-> "proposed", ver |-> @.ver + 1,
                                        expects |-> expects, does |-> does, text |-> text]]
  /\ approval' = IF Live(a) THEN Ended(a) ELSE approval
  /\ UNCHANGED <<sourceVars, grants, effectVars, openVars>>

\* The hour of an approval is over.
Lapse(a) ==
  /\ approval[a].status = "active"
  /\ Spend("lapse")
  /\ approval' = [approval EXCEPT ![a].status = "late"]
  /\ UNCHANGED <<sourceVars, action, grants, effectVars, openVars>>

\* revokeApproval locks the approval first.
RevokeApproval(a) ==
  /\ Live(a) /\ ~ApprovalLocked(a)
  /\ Spend("unapprove")
  /\ revoking' = revoking \cup {a}
  /\ UNCHANGED <<sourceVars, actionVars, effectVars, exec, change>>

CommitRevocation(a) ==
  /\ a \in revoking
  /\ action[a].status = "approved" => ~ActionLocked(a)
  /\ revoking' = revoking \ {a}
  /\ approval' = Ended(a)
  /\ action' = IF action[a].status = "approved"
               THEN [action EXCEPT ![a].status = "revoked"] ELSE action
  /\ UNCHANGED <<sourceVars, grants, effectVars, exec, change, spent>>

\* An execution that uses the grant keeps its row.
RevokeCapability(c) ==
  /\ c \in grants
  /\ c = "attention" => \A a \in Actions : exec[a] # "checked"
  /\ Spend("ungrant")
  /\ grants' = grants \ {c}
  /\ UNCHANGED <<sourceVars, action, approval, effectVars, openVars>>

-------------------------------------------------------------------------------
(* Execution *)

\* executeAction locks the action.  A completed one answers with its effect, an
\* unknown one is refused.
Begin(a) ==
  /\ ~ActionLocked(a)
  /\ action[a].status \notin {"completed", "unknown", "deleted"}
  /\ exec' = [exec EXCEPT ![a] = "begun"]
  /\ UNCHANGED <<sourceVars, actionVars, effectVars, revoking, change, spent>>

\* Mutant: the approval need not be for the current version.
MayExecuteStale(a) ==
  approval[a].status = "active" /\ fact[a] = "confirmed" /\ "attention" \in grants

MayExecute(a) ==
  /\ approval[a].status = "active" /\ approval[a].ver = action[a].ver
  /\ fact[a] = "confirmed"
  /\ "attention" \in grants

CheckRest == <<sourceVars, actionVars, effectVars, revoking, change, spent>>

\* It waits for the approval, then reads the facts and locks the grant.
Check(a) ==
  /\ exec[a] = "begun"
  /\ ~ApprovalLocked(a)
  /\ exec' = [exec EXCEPT ![a] = IF MayExecute(a) THEN "checked" ELSE "idle"]
  /\ UNCHANGED CheckRest

Executed(a, status) ==
  /\ exec' = [exec EXCEPT ![a] = "idle"]
  /\ action' = [action EXCEPT ![a].status = status]
  /\ UNCHANGED <<sourceVars, grants, reversal, undone, revoking, change, spent>>

\* The adapter ends before it reaches the destination.
EndUnwritten(a) ==
  /\ exec[a] = "checked"
  /\ \/ action[a].does = "failure" /\ Executed(a, "failed")
     \/ action[a].does = "timeout_before_write" /\ Executed(a, "unknown")
  /\ UNCHANGED <<approval, dest, seen>>

Reaches(a) ==
  /\ exec[a] = "checked"
  /\ action[a].does \in {"success", "timeout_after_write"}
  /\ ~DestinationLocked

\* The destination is not as the preview showed it.
Conflict(a) ==
  /\ Reaches(a)
  /\ dest.ver # action[a].expects
  /\ Executed(a, "failed")
  /\ UNCHANGED <<approval, dest, seen>>

WriteEffect(a) ==
  /\ dest' = [ver |-> dest.ver + 1, text |-> action[a].text, by |-> a, of |-> action[a].ver]
  /\ IF action[a].does = "timeout_after_write"
     THEN Executed(a, "unknown") /\ UNCHANGED <<approval, seen>>
     ELSE /\ Executed(a, "completed")
          /\ approval' = Ended(a)
          /\ seen' = [seen EXCEPT ![a] = dest'.ver]

\* writeDestination, and the readback unless the adapter times out after it.
Write(a) ==
  /\ Reaches(a)
  /\ dest.ver = action[a].expects
  /\ WriteEffect(a)

\* A rollback: the victim of a deadlock, a lost connection, a lost process.
Abort(a) ==
  \/ /\ exec[a] # "idle"
     /\ exec' = [exec EXCEPT ![a] = "idle"]
     /\ UNCHANGED <<revoking, change>>
     /\ UNCHANGED <<sourceVars, actionVars, effectVars, spent>>
  \/ /\ a \in revoking
     /\ revoking' = revoking \ {a}
     /\ UNCHANGED <<exec, change>>
     /\ UNCHANGED <<sourceVars, actionVars, effectVars, spent>>
  \/ /\ change[a].pc # "idle"
     /\ change' = [change EXCEPT ![a] = NoChange]
     /\ UNCHANGED <<exec, revoking>>
     /\ UNCHANGED <<sourceVars, actionVars, effectVars, spent>>

Shows(a) == dest.ver > 0 /\ dest.text = action[a].text

\* reconcileEffect believes the destination, whoever wrote it.  Where there is
\* none the result stays unknown.
Reconcile(a) ==
  /\ ~ActionLocked(a)
  /\ action[a].status = "unknown"
  /\ \/ /\ Shows(a)
        /\ Live(a) => ~ApprovalLocked(a)
        /\ action' = [action EXCEPT ![a].status = "completed"]
        /\ approval' = IF Live(a) THEN Ended(a) ELSE approval
        /\ seen' = [seen EXCEPT ![a] = dest.ver]
     \/ /\ dest.ver > 0 /\ ~Shows(a)
        /\ action' = [action EXCEPT ![a].status = "failed"]
        /\ UNCHANGED <<approval, seen>>
  /\ UNCHANGED <<sourceVars, grants, dest, reversal, undone, openVars, spent>>

-------------------------------------------------------------------------------
(* Reversal *)

\* approveEffectReversal, while the preview has no blocker; a lapsed approval is
\* made stale first.
ApproveReversal(a) ==
  /\ action[a].status = "completed" /\ action[a].expects = 0
  /\ a \notin undone /\ reversal[a].status # "active"
  /\ dest.ver = seen[a] /\ Shows(a)
  /\ Spend("reverse")
  /\ reversal' = [reversal EXCEPT ![a] = [status |-> "active", ver |-> dest.ver,
                                          text |-> dest.text]]
  /\ UNCHANGED <<sourceVars, actionVars, dest, seen, undone, openVars>>

\* executeEffectReversal asks for the verified attempt and the approval's own
\* copy of the preview, not for the action.
ExecuteReversal(a) ==
  /\ seen[a] > 0 /\ a \notin undone
  /\ reversal[a].status = "active" /\ "removal" \in grants
  /\ ~DestinationLocked
  /\ reversal' = [reversal EXCEPT ![a].status = "ended"]
  /\ IF dest.ver = reversal[a].ver /\ dest.text = reversal[a].text
     THEN dest' = NoRow /\ undone' = undone \cup {a}
     ELSE UNCHANGED <<dest, undone>>
  /\ UNCHANGED <<sourceVars, actionVars, seen, openVars, spent>>

\* revokeEffectReversalApproval, or the end of its quarter of an hour.
EndReversal(a) ==
  /\ reversal[a].status = "active"
  /\ reversal' = [reversal EXCEPT ![a].status = "ended"]
  /\ UNCHANGED <<sourceVars, actionVars, dest, seen, undone, openVars, spent>>

-------------------------------------------------------------------------------
(* Changes of a source *)

Elapse(a) ==
  /\ source[a] = [state |-> "authorized", due |-> FALSE]
  /\ Spend("elapse")
  /\ source' = [source EXCEPT ![a].due = TRUE]
  /\ UNCHANGED <<fact, actionVars, effectVars, openVars>>

\* Whether the change of this kind may begin: it locks the source first.
Admissible(a, kind) ==
  CASE kind = "revoke"  -> /\ source[a].state \in {"authorized", "expired"}
                           /\ action[a].status # "unknown"
    [] kind = "correct" -> source[a].state # "deleted" /\ action[a].status # "unknown"
    [] kind = "expire"  -> source[a].state = "authorized" /\ source[a].due
    [] kind = "restore" -> source[a].state \in {"revoked", "expired"}
    [] kind = "delete"  -> source[a].state # "deleted"

ChangeKinds == {"revoke", "expire", "restore", "correct", "delete"}

BeginChange(a, kind) ==
  /\ change[a].pc = "idle"
  /\ Admissible(a, kind)
  /\ Spend(kind)
  /\ change' = [change EXCEPT ![a].pc = "locked", ![a].kind = kind]
  /\ UNCHANGED <<sourceVars, actionVars, effectVars, exec, revoking>>

ChangeRest == <<sourceVars, actionVars, effectVars, exec, revoking, spent>>

\* The statement that ends the active approval finds it free, or finds none.
EndApprovals(a) ==
  /\ change[a].pc = "locked" /\ change[a].kind # "restore"
  /\ Live(a) => ~ApprovalLocked(a)
  /\ change' = [change EXCEPT ![a].pc = "approvals", ![a].ended = Live(a)]
  /\ UNCHANGED ChangeRest

\* It finds one that is locked and waits for that one.
AwaitApproval(a) ==
  /\ change[a].pc = "locked" /\ change[a].kind # "restore"
  /\ Live(a) /\ ApprovalLocked(a)
  /\ change' = [change EXCEPT ![a].pc = "waits", ![a].target = approval[a].n]
  /\ UNCHANGED ChangeRest

EndAwaited(a) ==
  /\ change[a].pc = "waits"
  /\ ~ApprovalLocked(a)
  /\ change' = [change EXCEPT ![a].pc = "approvals", ![a].target = 0,
                  ![a].ended = (Live(a) /\ approval[a].n = change[a].target)]
  /\ UNCHANGED ChangeRest

\* A deletion erases the destination that the action's preview names.
EraseDestination(a) ==
  /\ change[a].pc = "approvals" /\ change[a].kind = "delete"
  /\ ~DestinationLocked
  /\ change' = [change EXCEPT ![a].pc = "destination", ![a].erased = (dest.ver > 0)]
  /\ UNCHANGED ChangeRest

\* Mutant: the decision also revokes an action whose effect is unknown.
TouchesUnknown(a) ==
  change[a].kind = "delete" \/ action[a].status \notin {"completed", "revoked"}

Touches(a) ==
  change[a].kind = "delete" \/ action[a].status \in {"proposed", "approved", "failed"}

\* The statement that ends the action skips it, or waits until it is free.
EndActions(a) ==
  /\ change[a].pc = IF change[a].kind = "delete" THEN "destination" ELSE "approvals"
  /\ Touches(a) => ~ActionLocked(a)
  /\ change' = [change EXCEPT ![a].pc = "actions", ![a].acted = Touches(a)]
  /\ UNCHANGED ChangeRest

SourceAfter(a) ==
  CASE change[a].kind = "revoke"  -> [source[a] EXCEPT !.state = "revoked"]
    [] change[a].kind = "expire"  -> [source[a] EXCEPT !.state = "expired"]
    [] change[a].kind = "restore" -> [state |-> "authorized", due |-> FALSE]
    [] change[a].kind = "delete"  -> [source[a] EXCEPT !.state = "deleted"]
    [] OTHER -> source[a]

ActionAfter(a) ==
  IF change[a].kind = "delete" THEN [action[a] EXCEPT !.status = "deleted"]
  ELSE [action[a] EXCEPT !.status = "revoked", !.ver = @ + 1]

\* Every claim of the source is to be reviewed again, or is gone.
CommitChange(a) ==
  /\ change[a].pc = IF change[a].kind = "restore" THEN "locked" ELSE "actions"
  /\ source' = [source EXCEPT ![a] = SourceAfter(a)]
  /\ fact' = [fact EXCEPT ![a] = IF change[a].kind = "delete" THEN "deleted" ELSE "pending"]
  /\ approval' = IF change[a].ended THEN Ended(a) ELSE approval
  /\ action' = IF change[a].acted THEN [action EXCEPT ![a] = ActionAfter(a)] ELSE action
  /\ dest' = IF change[a].erased THEN NoRow ELSE dest
  /\ change' = [change EXCEPT ![a] = NoChange]
  /\ UNCHANGED <<grants, seen, reversal, undone, exec, revoking, spent>>

-------------------------------------------------------------------------------
Decide(a) == Review(a) \/ Approve(a) \/ Revise(a) \/ Lapse(a)
             \/ RevokeApproval(a) \/ CommitRevocation(a)

Execute(a) == Begin(a) \/ Check(a) \/ EndUnwritten(a) \/ Conflict(a) \/ Write(a) \/ Reconcile(a)

Reverse(a) == ApproveReversal(a) \/ ExecuteReversal(a) \/ EndReversal(a)

Change(a) == Elapse(a) \/ (\E kind \in ChangeKinds : BeginChange(a, kind))
             \/ EndApprovals(a) \/ AwaitApproval(a) \/ EndAwaited(a)
             \/ EraseDestination(a) \/ EndActions(a) \/ CommitChange(a)

GovernedNext ==
  \/ \E a \in Actions : Decide(a) \/ Execute(a) \/ Reverse(a) \/ Change(a) \/ Abort(a)
  \/ \E c \in Capabilities : RevokeCapability(c)

GovernedSpec == GovernedInit /\ [][GovernedNext]_vars

-------------------------------------------------------------------------------
(* Properties *)

GovernedTypeOK ==
  /\ source \in [Actions -> [state : {"authorized", "revoked", "expired", "deleted"},
                             due : BOOLEAN]]
  /\ fact \in [Actions -> {"pending", "confirmed", "deleted"}]
  /\ action \in [Actions -> [status : {"proposed", "approved", "unknown", "completed",
                                       "failed", "revoked", "deleted"},
                             ver : Nat, expects : Nat, does : Behaviors, text : Texts]]
  /\ approval \in [Actions -> [n : Nat, ver : Nat,
                               status : {"none", "active", "late", "ended"}]]
  /\ grants \subseteq Capabilities
  /\ dest \in [ver : Nat, text : Texts \cup {"none"}, by : Actions \cup {"none"}, of : Nat]
  /\ seen \in [Actions -> Nat]
  /\ reversal \in [Actions -> [status : {"none", "active", "ended"}, ver : Nat,
                               text : Texts \cup {"none"}]]
  /\ undone \subseteq Actions
  /\ spent \in [DOMAIN Risk -> Nat]
  /\ exec \in [Actions -> {"idle", "begun", "checked"}]
  /\ revoking \subseteq Actions
  /\ change \in [Actions -> [pc : {"idle", "locked", "waits", "approvals", "destination",
                                   "actions"},
                             kind : ChangeKinds \cup {"none"}, target : Nat,
                             ended : BOOLEAN, erased : BOOLEAN, acted : BOOLEAN]]

Writes(a) == exec[a] = "checked" /\ dest'.ver > dest.ver /\ dest'.by = a

\* When a write commits, the person's authority for it is still committed: the
\* approval was not withdrawn, it is for the version of the action that is
\* written, and the capability stands, whatever was revised, withdrawn or decided
\* about the source while the execution was open (executeAction's locks against
\* revokeApproval, reviseAction, revokeCapability and the changes of a source).
EffectIsApproved ==
  [][\A a \in Actions : Writes(a) =>
       /\ Live(a) /\ approval[a].ver = action[a].ver
       /\ "attention" \in grants]_vars

\* An effect that stands in the destination is never forgotten: the action that
\* wrote it is completed or unknown, in the version that wrote it, so that no
\* revision, decision, failed attempt or new approval lets it be repeated
\* (actions.ts:197, 690, 1076; sourceAuthorization.ts:478).
StandingEffectIsKnown ==
  \A a \in Actions : dest.by = a =>
    /\ action[a].status \in {"completed", "unknown", "deleted"}
    /\ dest.of = action[a].ver

\* Of an action whose source was deleted nothing is left: no effect in the
\* destination, and no approval to reverse one, which holds a copy of it
\* (docs/architecture.md:271).
DeletedLeavesNothing ==
  \A a \in Actions : source[a].state = "deleted" =>
    dest.by # a /\ reversal[a].status # "active"

\* No execution is admitted after the deadline of its source
\* (docs/architecture.md:208).
AdmittedInTime ==
  [][\A a \in Actions : exec[a] = "begun" /\ exec'[a] = "checked" => ~source[a].due]_vars

\* No effect is written after the loss of its source was committed
\* (docs/architecture.md:203).
NoEffectAfterLoss ==
  [][\A a \in Actions : Writes(a) => fact[a] = "confirmed" /\ source[a].state = "authorized"]_vars

\* A source is revoked only when no effect of it is unresolved
\* (sourceAuthorization.ts:416).
RevokedIsResolved ==
  [][\A a \in Actions : source[a].state # "revoked" /\ source'[a].state = "revoked"
       => action'[a].status # "unknown"]_vars
================================================================================
