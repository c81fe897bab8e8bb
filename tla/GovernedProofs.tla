---------------------------- MODULE GovernedProofs ----------------------------
(***************************************************************************)
(* That every write was approved when it commits, and that an effect which *)
(* stands is never forgotten, for any number of actions, texts and events. *)
(*                                                                         *)
(* The argument is about locks: an execution that passed its checks keeps  *)
(* the approval, the grant and the action until it ends, so nothing it     *)
(* checked changes (Checked); whoever is about to end an approval or an    *)
(* action has it locked, so no execution is past its check then (Locked).  *)
(* The fact is not among what it keeps, and the theorem says nothing of it.*)
(***************************************************************************)
EXTENDS GovernedActions, TLAPS

SourceRows == [state : {"authorized", "revoked", "expired", "deleted"}, due : BOOLEAN]
FactRows == {"pending", "confirmed", "deleted"}
ActionRows == [status : {"proposed", "approved", "unknown", "completed", "failed",
                         "revoked", "deleted"},
               ver : Nat, expects : Nat, does : Behaviors, text : Texts]
ApprovalRows == [n : Nat, ver : Nat, status : {"none", "active", "late", "ended"}]
DestRows == [ver : Nat, text : Texts \cup {"none"}, by : Actions \cup {"none"}, of : Nat]
ReversalRows == [status : {"none", "active", "ended"}, ver : Nat, text : Texts \cup {"none"}]
ExecRows == {"idle", "begun", "checked"}
ChangeRows == [pc : {"idle", "locked", "waits", "approvals", "destination", "actions"},
               kind : ChangeKinds \cup {"none"}, target : Nat,
               ended : BOOLEAN, erased : BOOLEAN, acted : BOOLEAN]

\* What an execution checked still holds, and its approval is not being ended.
Checked(a) ==
  exec[a] = "checked" =>
    /\ Live(a) /\ approval[a].ver = action[a].ver
    /\ "attention" \in grants
    /\ a \notin revoking /\ ~change[a].ended

\* An open execution is of an action without an effect.
OpenIsUndone(a) ==
  exec[a] # "idle" => action[a].status \notin {"completed", "unknown", "deleted"}

\* The change of a source that is about to end an action has it alone, and the
\* action is one that may be ended.
Locked(a) ==
  change[a].acted =>
    /\ change[a].pc = "actions" /\ exec[a] = "idle"
    /\ change[a].kind # "delete" => action[a].status \in {"proposed", "approved", "failed"}

\* What stands is what its action says, and the action knows.
Standing(a) ==
  dest.by = a =>
    /\ action[a].status \in {"completed", "unknown", "deleted"}
    /\ dest.of = action[a].ver /\ dest.text = action[a].text

Holds(a) == Checked(a) /\ OpenIsUndone(a) /\ Locked(a) /\ Standing(a)

GovernedInv == GovernedTypeOK /\ \A a \in Actions : Holds(a)

LEMMA Types ==
  GovernedTypeOK <=>
    /\ source \in [Actions -> SourceRows] /\ fact \in [Actions -> FactRows]
    /\ action \in [Actions -> ActionRows] /\ approval \in [Actions -> ApprovalRows]
    /\ grants \subseteq Capabilities /\ dest \in DestRows
    /\ seen \in [Actions -> Nat] /\ reversal \in [Actions -> ReversalRows]
    /\ undone \subseteq Actions /\ spent \in [DOMAIN Risk -> Nat]
    /\ exec \in [Actions -> ExecRows] /\ revoking \subseteq Actions
    /\ change \in [Actions -> ChangeRows]
BY DEF GovernedTypeOK, SourceRows, FactRows, ActionRows, ApprovalRows, DestRows,
  ReversalRows, ExecRows, ChangeRows

\* g is f, except for its value at a.
Only(a, f, g, S) == g \in [Actions -> S] /\ \A b \in Actions \ {a} : g[b] = f[b]

LEMMA OnlyRow ==
  ASSUME NEW S, NEW f \in [Actions -> S], NEW a \in Actions, NEW v \in S
  PROVE  /\ Only(a, f, [f EXCEPT ![a] = v], S)
         /\ [f EXCEPT ![a] = v][a] = v
BY DEF Only

LEMMA OnlySame ==
  ASSUME NEW S, NEW f \in [Actions -> S], NEW a \in Actions
  PROVE  Only(a, f, f, S)
BY DEF Only

\* A step about one action.
Step(a) ==
  /\ Only(a, source, source', SourceRows) /\ Only(a, fact, fact', FactRows)
  /\ Only(a, action, action', ActionRows) /\ Only(a, approval, approval', ApprovalRows)
  /\ Only(a, seen, seen', Nat) /\ Only(a, reversal, reversal', ReversalRows)
  /\ Only(a, exec, exec', ExecRows) /\ Only(a, change, change', ChangeRows)
  /\ grants' = grants /\ undone' \subseteq Actions /\ spent' \in [DOMAIN Risk -> Nat]
  /\ revoking' \subseteq Actions /\ revoking' \ {a} = revoking \ {a}
  /\ dest' \in DestRows /\ (dest' = dest \/ dest'.by \in {a, "none"})
  /\ Holds(a)'

LEMMA StepHolds ==
  ASSUME GovernedInv, NEW a \in Actions, Step(a) PROVE GovernedInv'
<1>1. GovernedTypeOK'
  BY DEF GovernedInv, Step, Only, GovernedTypeOK, SourceRows, FactRows, ActionRows, ApprovalRows,
    DestRows, ReversalRows, ExecRows, ChangeRows
<1>2. ASSUME NEW b \in Actions PROVE Holds(b)'
  <2>1. CASE b = a BY <2>1 DEF Step
  <2>2. CASE b # a
    <3>1. /\ action'[b] = action[b] /\ approval'[b] = approval[b]
          /\ exec'[b] = exec[b] /\ change'[b] = change[b]
          /\ grants' = grants /\ (b \in revoking' <=> b \in revoking)
      BY <2>2 DEF Step, Only
    <3>2. Holds(b) BY DEF GovernedInv
    <3>3. Checked(b)' BY <3>1, <3>2 DEF Holds, Checked, Live
    <3>4. OpenIsUndone(b)' /\ Locked(b)' BY <3>1, <3>2 DEF Holds, OpenIsUndone, Locked
    <3>5. dest' = dest \/ dest'.by # b
      BY <2>2, GovernedAssumption DEF Step
    <3>6. Standing(b)' BY <3>1, <3>2, <3>5 DEF Holds, Standing
    <3> QED BY <3>3, <3>4, <3>6 DEF Holds
  <2> QED BY <2>1, <2>2
<1> QED BY <1>1, <1>2 DEF GovernedInv

LEMMA SpendType ==
  ASSUME GovernedInv, NEW k, Spend(k) PROVE spent' \in [DOMAIN Risk -> Nat]
BY Types DEF GovernedInv, Spend

LEMMA InitHolds == GovernedInit => GovernedInv
BY GovernedAssumption DEF GovernedInit, GovernedInv, GovernedTypeOK, Holds, Checked,
  OpenIsUndone, Locked, Standing, NoChange, NoRow, Capabilities, ChangeKinds

\* What every step starts from.
LEMMA Rows ==
  ASSUME GovernedInv, NEW a \in Actions
  PROVE  /\ source[a] \in SourceRows /\ fact[a] \in FactRows /\ action[a] \in ActionRows
         /\ approval[a] \in ApprovalRows /\ seen[a] \in Nat
         /\ reversal[a] \in ReversalRows /\ exec[a] \in ExecRows
         /\ change[a] \in ChangeRows /\ dest \in DestRows /\ Holds(a)
BY Types DEF GovernedInv

LEMMA EndedRow ==
  ASSUME GovernedInv, NEW a \in Actions
  PROVE  Only(a, approval, Ended(a), ApprovalRows)
<1> DEFINE p == [approval[a] EXCEPT !.status = "ended"]
<1>1. p \in ApprovalRows BY Rows DEF ApprovalRows
<1>2. Ended(a) = [approval EXCEPT ![a] = p] BY DEF Ended
<1> HIDE DEF p
<1>3. approval \in [Actions -> ApprovalRows] BY Types DEF GovernedInv
<1>4. Only(a, approval, [approval EXCEPT ![a] = p], ApprovalRows) BY <1>1, <1>3, OnlyRow
<1> QED BY <1>2, <1>4

\* A step that gives the action status s and leaves the rest of its row.
Becomes(a, s) == action' = [action EXCEPT ![a].status = s]

Statuses == {"proposed", "approved", "unknown", "completed", "failed", "revoked", "deleted"}

LEMMA StatusRow ==
  ASSUME GovernedInv, NEW a \in Actions, NEW s \in Statuses, Becomes(a, s)
  PROVE  /\ Only(a, action, action', ActionRows)
         /\ action'[a].status = s /\ action'[a].ver = action[a].ver
         /\ action'[a].text = action[a].text
<1> DEFINE r == [action[a] EXCEPT !.status = s]
<1>1. /\ r \in ActionRows /\ r.status = s /\ r.ver = action[a].ver
      /\ r.text = action[a].text
  BY Rows DEF ActionRows, Statuses
<1>2. action' = [action EXCEPT ![a] = r] BY DEF Becomes
<1> HIDE DEF r
<1>3. Only(a, action, action', ActionRows) /\ action'[a] = r
  BY <1>1, <1>2, Types, OnlyRow DEF GovernedInv
<1> QED BY <1>1, <1>3

LEMMA DecideHolds ==
  ASSUME GovernedInv, NEW a \in Actions, Decide(a) PROVE Step(a)
<1> USE DEF actionVars, effectVars, sourceVars, openVars, Step
<1>0. GovernedTypeOK /\ Holds(a) BY Rows DEF GovernedInv
<1>1. CASE Review(a)
  BY <1>0, <1>1, Types, OnlySame, OnlyRow DEF Review, Holds, Checked, OpenIsUndone, Locked,
    Standing, Live, FactRows
<1>2. CASE Approve(a)
  <2> DEFINE p == [n |-> approval[a].n + 1, ver |-> action[a].ver, status |-> "active"]
  <2>1. p \in ApprovalRows BY Rows DEF ApprovalRows, ActionRows
  <2>a. approval' = [approval EXCEPT ![a] = p] BY <1>2 DEF Approve
  <2> HIDE DEF p
  <2>2. Only(a, approval, approval', ApprovalRows)
    BY <1>0, <2>1, <2>a, Types, OnlyRow
  <2>3. /\ Only(a, action, action', ActionRows)
        /\ action'[a].status = "approved" /\ action'[a].ver = action[a].ver
    BY <1>2, StatusRow DEF Approve, Becomes, Statuses
  <2>4. Holds(a)'
    BY <1>0, <1>2, <2>3 DEF Approve, Held, ActionLocked, Holds, Checked, OpenIsUndone,
      Locked, Standing
  <2> QED BY <1>0, <1>2, <2>2, <2>3, <2>4, Types, OnlySame, SpendType DEF Approve
<1>3. CASE Revise(a)
  <2>1. PICK does \in Behaviors, text \in Texts, expects \in {action[a].expects, dest.ver} :
          action' = [action EXCEPT ![a] = [status |-> "proposed", ver |-> @.ver + 1,
                       expects |-> expects, does |-> does, text |-> text]]
    BY <1>3 DEF Revise
  <2> DEFINE r == [status |-> "proposed", ver |-> action[a].ver + 1, expects |-> expects,
                   does |-> does, text |-> text]
  <2>2. r \in ActionRows BY Rows DEF ActionRows, DestRows
  <2>a. action' = [action EXCEPT ![a] = r] BY <2>1
  <2> HIDE DEF r
  <2>3. Only(a, action, action', ActionRows) BY <1>0, <2>2, <2>a, Types, OnlyRow
  <2>4. Only(a, approval, approval', ApprovalRows)
    BY <1>0, <1>3, Types, OnlySame, EndedRow DEF Revise
  <2>5. Holds(a)'
    BY <1>0, <1>3 DEF Revise, Held, ActionLocked, Holds, Checked, OpenIsUndone, Locked, Standing
  <2> QED BY <1>0, <1>3, <2>3, <2>4, <2>5, Types, OnlySame, SpendType DEF Revise
<1>4. CASE Lapse(a)
  <2> DEFINE p == [approval[a] EXCEPT !.status = "late"]
  <2>1. p \in ApprovalRows /\ p.status = "late" /\ p.ver = approval[a].ver
    BY Rows DEF ApprovalRows
  <2>2. approval' = [approval EXCEPT ![a] = p] BY <1>4 DEF Lapse
  <2> HIDE DEF p
  <2>3. Only(a, approval, approval', ApprovalRows) /\ approval'[a] = p
    BY <1>0, <2>1, <2>2, Types, OnlyRow
  <2>4. Holds(a)'
    BY <1>0, <1>4, <2>1, <2>3 DEF Lapse, Live, Holds, Checked, OpenIsUndone, Locked, Standing
  <2> QED BY <1>0, <1>4, <2>3, <2>4, Types, OnlySame, SpendType DEF Lapse
<1>5. CASE RevokeApproval(a)
  <2>1. Holds(a)'
    BY <1>0, <1>5 DEF RevokeApproval, ApprovalLocked, Live, Holds, Checked, OpenIsUndone,
      Locked, Standing
  <2>2. revoking' \subseteq Actions /\ revoking' \ {a} = revoking \ {a}
    BY <1>0, <1>5, Types DEF RevokeApproval
  <2> QED BY <1>0, <1>5, <2>1, <2>2, Types, OnlySame, SpendType DEF RevokeApproval
<1>6. CASE CommitRevocation(a)
  <2>1. Only(a, approval, approval', ApprovalRows) BY <1>6, EndedRow DEF CommitRevocation
  <2>2. /\ Only(a, action, action', ActionRows)
        /\ action'[a].ver = action[a].ver /\ action'[a].text = action[a].text
        /\ action'[a].status # action[a].status =>
             action[a].status = "approved" /\ ~ActionLocked(a)
    BY <1>0, <1>6, Types, StatusRow, OnlySame DEF CommitRevocation, Becomes, Statuses
  <2>3. exec[a] # "checked" BY <1>0, <1>6 DEF CommitRevocation, Holds, Checked
  <2>4. Holds(a)'
    BY <1>0, <1>6, <2>2, <2>3 DEF CommitRevocation, ActionLocked, Holds, Checked, OpenIsUndone,
      Locked, Standing
  <2>5. revoking' \subseteq Actions /\ revoking' \ {a} = revoking \ {a}
    BY <1>0, <1>6, Types DEF CommitRevocation
  <2> QED BY <1>0, <1>6, <2>1, <2>2, <2>4, <2>5, Types, OnlySame DEF CommitRevocation
<1> QED BY <1>1, <1>2, <1>3, <1>4, <1>5, <1>6 DEF Decide

LEMMA ExecuteHolds ==
  ASSUME GovernedInv, NEW a \in Actions, Execute(a) PROVE Step(a)
<1> USE DEF actionVars, effectVars, sourceVars, openVars, Step
<1>0. GovernedTypeOK /\ Holds(a) BY Rows DEF GovernedInv
<1>e. ASSUME NEW e \in ExecRows, exec' = [exec EXCEPT ![a] = e]
      PROVE  Only(a, exec, exec', ExecRows) /\ exec'[a] = e
  BY <1>e, <1>0, Types, OnlyRow
<1>1. CASE Begin(a)
  <2>1. Only(a, exec, exec', ExecRows) /\ exec'[a] = "begun"
    BY <1>1, <1>e DEF Begin, ExecRows
  <2>2. Holds(a)'
    BY <1>0, <1>1, <2>1 DEF Begin, ActionLocked, Holds, Checked, OpenIsUndone, Locked, Standing
  <2> QED BY <1>0, <1>1, <2>1, <2>2, Types, OnlySame DEF Begin
<1>2. CASE Check(a)
  <2>1. /\ Only(a, exec, exec', ExecRows)
        /\ exec'[a] = IF MayExecute(a) THEN "checked" ELSE "idle"
    BY <1>2, <1>e DEF Check, ExecRows
  <2>2. Holds(a)'
    BY <1>0, <1>2, <2>1 DEF Check, CheckRest, MayExecute, Live, ApprovalLocked, Holds, Checked,
      OpenIsUndone, Locked, Standing
  <2> QED BY <1>0, <1>2, <2>1, <2>2, Types, OnlySame DEF Check, CheckRest
<1>f. ASSUME NEW s \in Statuses, Executed(a, s), exec[a] = "checked"
      PROVE  /\ Only(a, exec, exec', ExecRows) /\ exec'[a] = "idle"
             /\ Only(a, action, action', ActionRows) /\ action'[a].status = s
             /\ action'[a].ver = action[a].ver /\ action'[a].text = action[a].text
             /\ dest.by # a /\ ~change[a].acted
  BY <1>f, <1>e, <1>0, StatusRow DEF Executed, Becomes, ExecRows, Holds, OpenIsUndone, Standing,
    Locked
<1>3. CASE EndUnwritten(a)
  <2>1. PICK s \in {"failed", "unknown"} : Executed(a, s) BY <1>3 DEF EndUnwritten
  <2>2. Holds(a)'
    BY <1>3, <1>f, <2>1 DEF EndUnwritten, Executed, Statuses, Holds, Checked, OpenIsUndone,
      Locked, Standing
  <2> QED BY <1>0, <1>3, <1>f, <2>1, <2>2, Types, OnlySame DEF EndUnwritten, Executed, Statuses
<1>4. CASE Conflict(a)
  <2>1. Holds(a)'
    BY <1>4, <1>f DEF Conflict, Reaches, Executed, Statuses, Holds, Checked, OpenIsUndone,
      Locked, Standing
  <2> QED BY <1>0, <1>4, <1>f, <2>1, Types, OnlySame DEF Conflict, Reaches, Executed, Statuses
<1>5. CASE Write(a)
  <2> DEFINE d == [ver |-> dest.ver + 1, text |-> action[a].text, by |-> a, of |-> action[a].ver]
  <2>1. dest' = d /\ d \in DestRows BY <1>5, Rows DEF Write, WriteEffect, DestRows, ActionRows
  <2>2. PICK s \in {"completed", "unknown"} : Executed(a, s) BY <1>5 DEF Write, WriteEffect
  <2>3. Only(a, approval, approval', ApprovalRows)
    BY <1>0, <1>5, Types, OnlySame, EndedRow DEF Write, WriteEffect
  <2>4. Only(a, seen, seen', Nat)
    <3>1. CASE seen' = seen BY <1>0, <3>1, Types, OnlySame
    <3>2. CASE seen' = [seen EXCEPT ![a] = dest'.ver]
      BY <1>0, <2>1, <3>2, Types, OnlyRow DEF DestRows
    <3> QED BY <1>5, <3>1, <3>2 DEF Write, WriteEffect
  <2>5. Holds(a)'
    BY <1>5, <1>f, <2>1, <2>2 DEF Write, Reaches, Executed, Statuses, Holds, Checked,
      OpenIsUndone, Locked, Standing
  <2> QED
    BY <1>0, <1>5, <1>f, <2>1, <2>2, <2>3, <2>4, <2>5, Types, OnlySame
      DEF Write, Reaches, Executed, Statuses
<1>6. CASE Reconcile(a)
  <2>1. PICK s \in {"completed", "failed"} :
          Becomes(a, s) /\ (s = "failed" => ~Shows(a) /\ dest.ver > 0)
    BY <1>6 DEF Reconcile, Becomes
  <2>2. /\ Only(a, action, action', ActionRows) /\ action'[a].status = s
        /\ action'[a].ver = action[a].ver /\ action'[a].text = action[a].text
    BY <2>1, StatusRow DEF Statuses
  <2>3. Only(a, approval, approval', ApprovalRows)
    BY <1>0, <1>6, Types, OnlySame, EndedRow DEF Reconcile
  <2>4. Only(a, seen, seen', Nat)
    <3>1. CASE seen' = seen BY <1>0, <3>1, Types, OnlySame
    <3>2. CASE seen' = [seen EXCEPT ![a] = dest.ver]
      BY <1>0, <3>2, Rows, Types, OnlyRow DEF DestRows
    <3> QED BY <1>6, <3>1, <3>2 DEF Reconcile
  <2>5. Holds(a)'
    BY <1>0, <1>6, <2>1, <2>2 DEF Reconcile, Shows, ActionLocked, Holds, Checked, OpenIsUndone,
      Locked, Standing
  <2> QED BY <1>0, <1>6, <2>2, <2>3, <2>4, <2>5, Types, OnlySame DEF Reconcile
<1> QED BY <1>1, <1>2, <1>3, <1>4, <1>5, <1>6 DEF Execute

LEMMA ReverseHolds ==
  ASSUME GovernedInv, NEW a \in Actions, Reverse(a) PROVE Step(a)
<1> USE DEF actionVars, sourceVars, openVars, Step
<1>0. GovernedTypeOK /\ Holds(a) BY Rows DEF GovernedInv
<1>e. ASSUME reversal' = [reversal EXCEPT ![a].status = "ended"]
      PROVE  Only(a, reversal, reversal', ReversalRows)
  <2> DEFINE r == [reversal[a] EXCEPT !.status = "ended"]
  <2>1. r \in ReversalRows BY Rows DEF ReversalRows
  <2>2. reversal' = [reversal EXCEPT ![a] = r] BY <1>e
  <2> HIDE DEF r
  <2> QED BY <1>0, <2>1, <2>2, Types, OnlyRow
<1>1. CASE ApproveReversal(a)
  <2> DEFINE r == [status |-> "active", ver |-> dest.ver, text |-> dest.text]
  <2>1. r \in ReversalRows BY Rows DEF ReversalRows, DestRows
  <2>2. reversal' = [reversal EXCEPT ![a] = r] BY <1>1 DEF ApproveReversal
  <2> HIDE DEF r
  <2>3. Only(a, reversal, reversal', ReversalRows) BY <1>0, <2>1, <2>2, Types, OnlyRow
  <2>4. Holds(a)'
    BY <1>0, <1>1 DEF ApproveReversal, Live, Holds, Checked, OpenIsUndone, Locked, Standing
  <2> QED BY <1>0, <1>1, <2>3, <2>4, Types, OnlySame, SpendType DEF ApproveReversal
<1>2. CASE ExecuteReversal(a)
  <2>1. Only(a, reversal, reversal', ReversalRows) BY <1>2, <1>e DEF ExecuteReversal
  <2>2. /\ dest' \in DestRows /\ (dest' = dest \/ dest'.by = "none")
        /\ undone' \subseteq Actions
    BY <1>0, <1>2, Types DEF ExecuteReversal, NoRow, DestRows
  <2>3. Holds(a)'
    BY <1>0, <1>2, <2>2, GovernedAssumption DEF ExecuteReversal, Live, Holds, Checked,
      OpenIsUndone, Locked, Standing
  <2> QED BY <1>0, <1>2, <2>1, <2>2, <2>3, Types, OnlySame DEF ExecuteReversal
<1>3. CASE EndReversal(a)
  <2>1. Only(a, reversal, reversal', ReversalRows) BY <1>3, <1>e DEF EndReversal
  <2>2. Holds(a)'
    BY <1>0, <1>3 DEF EndReversal, Live, Holds, Checked, OpenIsUndone, Locked, Standing
  <2> QED BY <1>0, <1>3, <2>1, <2>2, Types, OnlySame DEF EndReversal
<1> QED BY <1>1, <1>2, <1>3 DEF Reverse

\* A step that leaves all but the change of the source.
LEMMA ChangeStep ==
  ASSUME GovernedInv, NEW a \in Actions, NEW c \in ChangeRows,
         change' = [change EXCEPT ![a] = c],
         UNCHANGED <<sourceVars, actionVars, effectVars, exec, revoking>>,
         spent' \in [DOMAIN Risk -> Nat],
         c.ended => exec[a] # "checked",
         c.acted => /\ c.pc = "actions" /\ exec[a] = "idle"
                    /\ c.kind # "delete" =>
                         action[a].status \in {"proposed", "approved", "failed"}
  PROVE  Step(a)
<1> USE DEF actionVars, effectVars, sourceVars
<1>0. GovernedTypeOK /\ Holds(a) BY Rows DEF GovernedInv
<1>1. Only(a, change, change', ChangeRows) /\ change'[a] = c BY <1>0, Types, OnlyRow
<1>2. Holds(a)' BY <1>0, <1>1 DEF Holds, Checked, OpenIsUndone, Locked, Standing, Live
<1> QED BY <1>0, <1>1, <1>2, Types, OnlySame DEF Step

LEMMA CommitHolds ==
  ASSUME GovernedInv, NEW a \in Actions, CommitChange(a) PROVE Step(a)
<1>0. GovernedTypeOK /\ Holds(a) BY Rows DEF GovernedInv
<1>1. Only(a, source, source', SourceRows)
  <2>1. SourceAfter(a) \in SourceRows BY Rows DEF SourceAfter, SourceRows
  <2> QED BY <1>0, <2>1, Types, OnlyRow DEF CommitChange
<1>2. Only(a, fact, fact', FactRows)
  <2>1. PICK f \in FactRows : fact' = [fact EXCEPT ![a] = f] BY DEF CommitChange, FactRows
  <2> QED BY <1>0, <2>1, Types, OnlyRow
<1>3. Only(a, approval, approval', ApprovalRows)
  BY <1>0, Types, OnlySame, EndedRow DEF CommitChange
<1>4. /\ Only(a, action, action', ActionRows)
      /\ ~change[a].acted => action' = action
      /\ action[a].status = "completed" /\ change[a].kind # "delete" => action' = action
  <2>1. CASE ~change[a].acted
    BY <1>0, <2>1, Types, OnlySame DEF CommitChange
  <2>2. CASE change[a].acted
    <3> DEFINE r == [action[a] EXCEPT !.status = "deleted"]
               q == [action[a] EXCEPT !.status = "revoked", !.ver = action[a].ver + 1]
    <3>a. r \in ActionRows BY Rows DEF ActionRows
    <3>c. action[a] \in ActionRows /\ action[a].ver + 1 \in Nat BY Rows DEF ActionRows
    <3>d. q \in ActionRows BY <3>c DEF ActionRows
    <3>b. ActionAfter(a) = r \/ ActionAfter(a) = q BY DEF ActionAfter
    <3> HIDE DEF r, q
    <3>1. ActionAfter(a) \in ActionRows BY <3>a, <3>b, <3>d
    <3>2. action' = [action EXCEPT ![a] = ActionAfter(a)] BY <2>2 DEF CommitChange
    <3> QED BY <1>0, <2>2, <3>1, <3>2, Types, OnlyRow DEF Holds, Locked
  <2> QED BY <2>1, <2>2
<1>5. Only(a, change, change', ChangeRows) /\ change'[a] = NoChange
  <2>1. NoChange \in ChangeRows BY DEF NoChange, ChangeRows
  <2> QED BY <1>0, <2>1, Types, OnlyRow DEF CommitChange
<1>6. dest' \in DestRows /\ (dest' = dest \/ dest'.by = "none")
  BY Rows DEF CommitChange, NoRow, DestRows
<1>7. exec'[a] = exec[a] /\ (exec[a] = "checked" => approval' = approval)
  BY <1>0 DEF CommitChange, Holds, Checked
<1>8. Checked(a)' /\ OpenIsUndone(a)' /\ Locked(a)'
  BY <1>0, <1>4, <1>5, <1>7 DEF CommitChange, Holds, Checked, OpenIsUndone, Locked, Live, NoChange
<1>9. Standing(a)'
  <2>1. CASE ~change[a].acted
    BY <1>0, <1>4, <1>6, <2>1, GovernedAssumption DEF Holds, Standing
  <2>2. CASE change[a].acted
    <3>1. action'[a] = ActionAfter(a) BY <1>0, <2>2, Types DEF CommitChange
    <3>2. change[a].kind # "delete" => dest.by # a
      BY <1>0, <2>2 DEF Holds, Locked, Standing
    <3>3. change[a].kind = "delete" =>
            /\ ActionAfter(a).status = "deleted" /\ ActionAfter(a).ver = action[a].ver
            /\ ActionAfter(a).text = action[a].text
      BY Rows DEF ActionAfter, ActionRows
    <3> QED BY <1>0, <1>6, <3>1, <3>2, <3>3, GovernedAssumption DEF Holds, Standing
  <2> QED BY <2>1, <2>2
<1> QED
  BY <1>0, <1>1, <1>2, <1>3, <1>4, <1>5, <1>6, <1>8, <1>9, Types, OnlySame
    DEF CommitChange, Step, Holds

LEMMA ChangeHolds ==
  ASSUME GovernedInv, NEW a \in Actions, Change(a) PROVE Step(a)
<1> USE DEF actionVars, effectVars, sourceVars, openVars
<1>0. /\ GovernedTypeOK /\ Holds(a) /\ change[a] \in ChangeRows
  BY Rows DEF GovernedInv
<1>1. CASE Elapse(a)
  <2> DEFINE s == [source[a] EXCEPT !.due = TRUE]
  <2>1. s \in SourceRows BY Rows DEF SourceRows
  <2>2. source' = [source EXCEPT ![a] = s] BY <1>1 DEF Elapse
  <2> HIDE DEF s
  <2>3. Only(a, source, source', SourceRows) BY <1>0, <2>1, <2>2, Types, OnlyRow
  <2>4. Holds(a)'
    BY <1>0, <1>1 DEF Elapse, Live, Holds, Checked, OpenIsUndone, Locked, Standing
  <2> QED BY <1>0, <1>1, <2>3, <2>4, Types, OnlySame, SpendType DEF Elapse, Step
<1>2. ASSUME NEW kind \in ChangeKinds, BeginChange(a, kind) PROVE Step(a)
  <2> DEFINE c == [change[a] EXCEPT !.pc = "locked", !.kind = kind]
  <2>1. /\ c \in ChangeRows /\ c.ended = change[a].ended /\ ~c.acted
    BY <1>0, <1>2 DEF ChangeRows, BeginChange, Holds, Locked
  <2>2. change' = [change EXCEPT ![a] = c] BY <1>2 DEF BeginChange
  <2> HIDE DEF c
  <2> QED BY <1>0, <1>2, <2>1, <2>2, ChangeStep, SpendType DEF BeginChange, Holds, Checked
<1>p. ASSUME NEW c \in ChangeRows, change' = [change EXCEPT ![a] = c], UNCHANGED ChangeRest,
             ~c.acted, c.ended => exec[a] # "checked"
      PROVE  Step(a)
  BY <1>0, <1>p, Types, ChangeStep DEF ChangeRest
<1>3. CASE EndApprovals(a)
  <2> DEFINE e == Live(a)
             c == [change[a] EXCEPT !.pc = "approvals", !.ended = e]
  <2>0. e \in BOOLEAN BY DEF Live
  <2>2. change' = [change EXCEPT ![a] = c] BY <1>3 DEF EndApprovals
  <2>3. ~change[a].acted BY <1>0, <1>3 DEF EndApprovals, Holds, Locked
  <2> HIDE DEF e
  <2>1. c \in ChangeRows /\ c.ended = e /\ ~c.acted
    BY <1>0, <2>0, <2>3 DEF ChangeRows
  <2> HIDE DEF c
  <2> USE DEF e
  <2> QED BY <1>3, <1>p, <2>1, <2>2 DEF EndApprovals, ApprovalLocked
<1>4. CASE AwaitApproval(a)
  <2> DEFINE c == [change[a] EXCEPT !.pc = "waits", !.target = approval[a].n]
  <2>1. c \in ChangeRows /\ c.ended = change[a].ended /\ ~c.acted
    BY <1>0, <1>4, Rows DEF AwaitApproval, ChangeRows, ApprovalRows, Holds, Locked
  <2>2. change' = [change EXCEPT ![a] = c] BY <1>4 DEF AwaitApproval
  <2> HIDE DEF c
  <2> QED BY <1>0, <1>4, <1>p, <2>1, <2>2 DEF AwaitApproval, Holds, Checked
<1>5. CASE EndAwaited(a)
  <2> DEFINE e == Live(a) /\ approval[a].n = change[a].target
             c == [change[a] EXCEPT !.pc = "approvals", !.target = 0, !.ended = e]
  <2>1. c \in ChangeRows /\ ~c.acted
    BY <1>0, <1>5 DEF EndAwaited, ChangeRows, Holds, Locked, Live
  <2>2. change' = [change EXCEPT ![a] = c] BY <1>5 DEF EndAwaited
  <2>3. exec[a] # "checked" BY <1>5 DEF EndAwaited, ApprovalLocked
  <2> HIDE DEF c
  <2> QED BY <1>5, <1>p, <2>1, <2>2, <2>3 DEF EndAwaited
<1>6. CASE EraseDestination(a)
  <2> DEFINE e == dest.ver > 0
             c == [change[a] EXCEPT !.pc = "destination", !.erased = e]
  <2>0. e \in BOOLEAN OBVIOUS
  <2>2. change' = [change EXCEPT ![a] = c] BY <1>6 DEF EraseDestination
  <2>3. ~change[a].acted BY <1>0, <1>6 DEF EraseDestination, Holds, Locked
  <2> HIDE DEF e
  <2>1. c \in ChangeRows /\ c.ended = change[a].ended /\ ~c.acted
    BY <1>0, <2>0, <2>3 DEF ChangeRows
  <2> HIDE DEF c
  <2> QED BY <1>0, <1>6, <1>p, <2>1, <2>2 DEF EraseDestination, Holds, Checked
<1>7. CASE EndActions(a)
  <2> DEFINE c == [change[a] EXCEPT !.pc = "actions", !.acted = Touches(a)]
  <2>1. /\ c \in ChangeRows /\ c.ended = change[a].ended /\ c.acted = Touches(a)
        /\ c.pc = "actions" /\ c.kind = change[a].kind
    BY <1>0 DEF ChangeRows, Touches
  <2>2. change' = [change EXCEPT ![a] = c] BY <1>7 DEF EndActions
  <2> HIDE DEF c
  <2>3. c.acted => exec[a] = "idle" /\ (c.kind # "delete" =>
          action[a].status \in {"proposed", "approved", "failed"})
    BY <1>7, <2>1 DEF EndActions, Touches, ActionLocked
  <2> QED
    BY <1>0, <1>7, <2>1, <2>2, <2>3, Types, ChangeStep DEF EndActions, ChangeRest, Holds, Checked
<1>8. CASE CommitChange(a) BY <1>8, CommitHolds
<1> QED BY <1>1, <1>2, <1>3, <1>4, <1>5, <1>6, <1>7, <1>8 DEF Change

LEMMA AbortHolds ==
  ASSUME GovernedInv, NEW a \in Actions, Abort(a) PROVE Step(a)
<1> USE DEF actionVars, effectVars, sourceVars
<1>0. GovernedTypeOK /\ Holds(a) BY Rows DEF GovernedInv
<1>1. CASE exec[a] # "idle" /\ exec' = [exec EXCEPT ![a] = "idle"] /\ UNCHANGED <<revoking, change>>
            /\ UNCHANGED <<sourceVars, actionVars, effectVars, spent>>
  <2>1. Only(a, exec, exec', ExecRows) /\ exec'[a] = "idle"
    BY <1>0, <1>1, Types, OnlyRow DEF ExecRows
  <2>2. Holds(a)' BY <1>0, <1>1, <2>1 DEF Live, Holds, Checked, OpenIsUndone, Locked, Standing
  <2> QED BY <1>0, <1>1, <2>1, <2>2, Types, OnlySame DEF Step
<1>2. CASE a \in revoking /\ revoking' = revoking \ {a} /\ UNCHANGED <<exec, change>>
            /\ UNCHANGED <<sourceVars, actionVars, effectVars, spent>>
  <2>1. Holds(a)' BY <1>0, <1>2 DEF Live, Holds, Checked, OpenIsUndone, Locked, Standing
  <2> QED BY <1>0, <1>2, <2>1, Types, OnlySame DEF Step
<1>3. CASE change' = [change EXCEPT ![a] = NoChange] /\ UNCHANGED <<exec, revoking>>
            /\ UNCHANGED <<sourceVars, actionVars, effectVars, spent>>
  <2>1. NoChange \in ChangeRows /\ ~NoChange.ended /\ ~NoChange.acted
    BY DEF NoChange, ChangeRows
  <2> QED BY <1>0, <1>3, <2>1, Types, ChangeStep
<1> QED BY <1>1, <1>2, <1>3 DEF Abort

LEMMA NextHolds == GovernedInv /\ [GovernedNext]_vars => GovernedInv'
<1> SUFFICES ASSUME GovernedInv, [GovernedNext]_vars PROVE GovernedInv'
  OBVIOUS
<1>1. CASE \E a \in Actions : Decide(a) \/ Execute(a) \/ Reverse(a) \/ Change(a) \/ Abort(a)
  BY <1>1, StepHolds, DecideHolds, ExecuteHolds, ReverseHolds, ChangeHolds, AbortHolds
<1>2. ASSUME NEW c \in Capabilities, RevokeCapability(c) PROVE GovernedInv'
  <2>1. /\ UNCHANGED <<source, fact, action, approval, dest, seen, reversal, undone, exec,
                       revoking, change>>
        /\ grants' \subseteq Capabilities /\ spent' \in [DOMAIN Risk -> Nat]
    BY <1>2, Types, SpendType
      DEF RevokeCapability, GovernedInv, sourceVars, effectVars, openVars
  <2>2. GovernedTypeOK' BY <2>1 DEF GovernedInv, GovernedTypeOK
  <2>3. ASSUME NEW a \in Actions PROVE Holds(a)'
    BY <1>2, <2>1, Rows DEF RevokeCapability, Live, Holds, Checked, OpenIsUndone, Locked, Standing
  <2> QED BY <2>2, <2>3 DEF GovernedInv
<1>3. CASE UNCHANGED vars
  BY <1>3 DEF vars, sourceVars, actionVars, effectVars, openVars, GovernedInv, GovernedTypeOK,
    Live, Holds, Checked, OpenIsUndone, Locked, Standing
<1> QED BY <1>1, <1>2, <1>3 DEF GovernedNext

\* The rows of the tables and of the open transactions have the fields and
\* values that the model gives them.
THEOREM GovernedTypeCorrect == GovernedSpec => []GovernedTypeOK
<1>1. GovernedInv => GovernedTypeOK BY DEF GovernedInv
<1> QED BY <1>1, InitHolds, NextHolds, PTL DEF GovernedSpec

\* However executions, withdrawals, revisions, decisions about sources and
\* deletions interleave, a write commits only while its approval, for that
\* version of the action, and the capability stand.
THEOREM EffectIsApprovedHolds == GovernedSpec => EffectIsApproved
<1> DEFINE Approved == \A a \in Actions : Writes(a) =>
             /\ Live(a) /\ approval[a].ver = action[a].ver
             /\ "attention" \in grants
<1>1. GovernedInv => Approved BY DEF GovernedInv, Holds, Checked, Writes
<1>2. GovernedInv /\ [GovernedNext]_vars => [Approved]_vars BY <1>1
<1> QED BY <1>2, InitHolds, NextHolds, PTL DEF GovernedSpec, EffectIsApproved

\* An effect that stands in the destination is one of a completed, unknown or
\* deleted action, in the version that wrote it, whatever happened since.
THEOREM StandingHolds == GovernedSpec => []StandingEffectIsKnown
<1>1. GovernedInv => StandingEffectIsKnown
  BY DEF GovernedInv, Holds, Standing, StandingEffectIsKnown
<1> QED BY <1>1, InitHolds, NextHolds, PTL DEF GovernedSpec
================================================================================
