-------------------------- MODULE ContactTasksProofs --------------------------
(***************************************************************************)
(* The safety of one screenshot-contact task, for any number of images,    *)
(* servers and clients and any budget of events.                           *)
(*                                                                         *)
(* The invariant counts.  An image is paid for by a run that is about to   *)
(* send it long before it is billed, and such a run may have lost its      *)
(* epoch since: what the row's mark, its parts and its owner authorize     *)
(* covers the calls made, those runs, and the run with the epoch that is   *)
(* about to become one of them.  The public searches are counted alike.    *)
(***************************************************************************)
EXTENDS ContactTasks, FiniteSetTheorems, TLAPS

\* Where a run has an image in hand.
Imaging == {"mark", "authorize", "send", "answered"}

Statuses == {"running", "waiting", "completed", "partial", "failed", "cancelled", "deleted"}

Task == [status : Statuses, only : BOOLEAN, marked : Images \cup {"none"},
         parts : SUBSET Images, merged : BOOLEAN, named : {"none", "found", "adopted"},
         draft : BOOLEAN, research : BOOLEAN, capture : BOOLEAN, doomed : BOOLEAN]

Run == [pc : Working \cup {"idle", "starting", "failing"}, image : Images \cup {"none"},
        stop : {"none", "cancelled", "stopped"}]

Types ==
  /\ task \in Task
  /\ holder \in Servers \cup {"none"} /\ lease \in BOOLEAN
  /\ run \in [Servers -> Run]
  /\ view \subseteq Clients
  /\ ask \in [Clients -> {"none", "cancel", "capture", "scrub", "copy"}]
  /\ source \in {"none", "active", "gone", "erased"} /\ known \in {"active", "archived"}
  /\ observed \in BOOLEAN /\ done \in BOOLEAN
  /\ billed \in [Images -> Nat] /\ allowed \in [Images -> Nat]
  /\ asked \in Nat /\ heard \in Nat /\ filed \in Nat

\* A deletion is under way or over: nothing may be worked on or filed any more.
Frozen == task.doomed \/ task.status = "deleted"

\* What holds of the row, and of the capture it names.
Row ==
  /\ lease => task.status = "running"
  /\ holder # "none" => task.status # "deleted"
  /\ task.draft => task.status \in {"waiting", "cancelled"} /\ ~task.only /\ ~task.capture
  /\ task.draft => task.merged
  /\ task.capture => task.merged \/ task.only \/ task.status = "deleted"
  /\ task.research => task.capture
  /\ task.capture => source # "none"
  /\ filed <= IF task.capture THEN 1 ELSE 0

\* The run with the epoch calls its agent only about a merged packet, and searches
\* the public sources only for a filed contact.
Prepared ==
  \A s \in Servers :
    /\ holder = s /\ run[s].pc \in {"begin", "agent", "search", "found"} => task.merged
    /\ holder = s /\ run[s].pc \in {"search", "found"} => task.capture

\* What each phase of a deletion can rely on.
Gone ==
  /\ source = "active" => task.capture
  /\ observed => task.capture /\ task.status # "deleted"
  /\ \A c \in Clients : ask[c] \in {"capture", "scrub", "copy"} => Frozen
  /\ \A c \in Clients : ask[c] = "scrub" => source # "active"
  /\ done => task.status = "deleted" /\ source # "active"

\* What the run that has the epoch knows of the image in its hand.
InHand ==
  \A s \in Servers :
    /\ run[s].pc \in Imaging => run[s].image \in Images
    /\ holder = s /\ run[s].pc = "mark"
         => task.marked = "none" /\ run[s].image \notin task.parts
    /\ holder = s /\ run[s].pc \in Imaging \ {"mark"} => task.marked = run[s].image

\* Runs that are about to send image i, whatever became of their epoch.
Senders(i) == {s \in Servers : run[s].pc = "send" /\ run[s].image = i}

\* The run with the epoch is about to be allowed to send image i.
Due(i) == holder # "none" /\ run[holder].pc = "authorize" /\ run[holder].image = i

Covered(i) == task.status = "deleted" \/ i \in task.parts \/ task.marked = i

\* Every call made or under way is covered by the row or by the owner.
Paid ==
  \A i \in Images :
    /\ IsFiniteSet(Senders(i))
    /\ billed[i] + Cardinality(Senders(i)) + (IF Due(i) THEN 1 ELSE 0)
         <= allowed[i] + (IF Covered(i) THEN 1 ELSE 0)

Searchers == {s \in Servers : run[s].pc = "search"}

\* Every public search sent or under way is known to the model, or noted in the
\* row; one the agent may add is neither.
Searched ==
  /\ IsFiniteSet(Searchers)
  /\ task.status # "deleted" =>
       asked + Cardinality(Searchers) <= heard + (IF task.research THEN 1 ELSE 0)
  /\ holder # "none" /\ run[holder].pc = "agent" => asked + Cardinality(Searchers) <= heard

TasksInv == Types /\ Row /\ Prepared /\ Gone /\ InHand /\ Paid /\ Searched

-------------------------------------------------------------------------------
(* The steps that leave the two counts alone *)

\* No run takes an image in hand or moves on with one, and the row keeps its mark
\* and its parts unless it is deleted.
Calm ==
  /\ billed' = billed /\ allowed' = allowed
  /\ \/ task'.status = "deleted"
     \/ task.status # "deleted" /\ task'.marked = task.marked /\ task'.parts = task.parts
  /\ \A t \in Servers : run'[t].pc \in Imaging
       => run[t].pc = run'[t].pc /\ run[t].image = run'[t].image
  /\ \A t \in Servers : holder' = t /\ run'[t].pc \in Imaging => holder = t

\* No run starts a public search or comes back to its agent.
Silent ==
  /\ asked' = asked /\ heard' = heard
  /\ \/ task'.status = "deleted"
     \/ task.status # "deleted" /\ task'.research = task.research
  /\ \A t \in Servers : run'[t].pc = "search" => run[t].pc = "search"
  /\ \A t \in Servers : holder' = t /\ run'[t].pc = "agent"
       => holder = t /\ run[t].pc = "agent"

\* A set of runs that lost some is finite, and no larger.
LEMMA Fewer ==
  ASSUME NEW A, NEW B, IsFiniteSet(A), B \subseteq A
  PROVE  /\ IsFiniteSet(B)
         /\ Cardinality(A) \in Nat /\ Cardinality(B) \in Nat
         /\ Cardinality(B) <= Cardinality(A)
BY FS_Subset, FS_CardinalityType

\* The bound on image i survives a step that adds no sender and covers no less.
LEMMA StillPaid ==
  ASSUME TasksInv, Types', NEW i \in Images,
         Senders(i)' \subseteq Senders(i), Due(i)' => Due(i),
         billed' = billed,
         \/ allowed'[i] = allowed[i] /\ (Covered(i) => Covered(i)')
         \/ allowed'[i] = allowed[i] + 1
  PROVE  /\ IsFiniteSet(Senders(i)')
         /\ billed'[i] + Cardinality(Senders(i)') + (IF Due(i)' THEN 1 ELSE 0)
              <= allowed'[i] + (IF Covered(i)' THEN 1 ELSE 0)
<1>1. IsFiniteSet(Senders(i))
      /\ billed[i] + Cardinality(Senders(i)) + (IF Due(i) THEN 1 ELSE 0)
           <= allowed[i] + (IF Covered(i) THEN 1 ELSE 0)
  BY DEF TasksInv, Paid
<1>2. billed[i] \in Nat /\ allowed[i] \in Nat /\ billed'[i] = billed[i]
      /\ allowed'[i] \in Nat
  BY DEF TasksInv, Types
<1>3. /\ IsFiniteSet(Senders(i)')
      /\ Cardinality(Senders(i)) \in Nat /\ Cardinality(Senders(i)') \in Nat
      /\ Cardinality(Senders(i)') <= Cardinality(Senders(i))
  BY <1>1, Fewer
<1> HIDE DEF Senders, Due, Covered
<1> DEFINE n == Cardinality(Senders(i))
           m == Cardinality(Senders(i)')
           d == IF Due(i) THEN 1 ELSE 0
           e == IF Due(i)' THEN 1 ELSE 0
           p == IF Covered(i) THEN 1 ELSE 0
           q == IF Covered(i)' THEN 1 ELSE 0
<1>4. d \in 0 .. 1 /\ e \in 0 .. 1 /\ p \in 0 .. 1 /\ q \in 0 .. 1 /\ e <= d
  OBVIOUS
<1>5. allowed[i] + p <= allowed'[i] + q
  BY <1>2
<1>6. billed[i] + n + d <= allowed[i] + p /\ n \in Nat /\ m \in Nat /\ m <= n
  BY <1>1, <1>3
<1> HIDE DEF n, m, d, e, p, q
<1>7. billed'[i] + m + e <= allowed'[i] + q
  BY <1>2, <1>4, <1>5, <1>6
<1> QED BY <1>3, <1>7 DEF m, e, q

LEMMA CalmKeeps ==
  ASSUME TasksInv, Types', Row', Calm
  PROVE  InHand' /\ Paid'
<1>1. InHand'
  <2> SUFFICES ASSUME NEW s \in Servers
      PROVE  /\ run'[s].pc \in Imaging => run'[s].image \in Images
             /\ holder' = s /\ run'[s].pc = "mark"
                  => task'.marked = "none" /\ run'[s].image \notin task'.parts
             /\ holder' = s /\ run'[s].pc \in Imaging \ {"mark"}
                  => task'.marked = run'[s].image
    BY DEF InHand
  <2>1. run'[s].pc \in Imaging => run'[s].image \in Images
    BY DEF Calm, TasksInv, InHand
  <2>2. ASSUME holder' = s, run'[s].pc \in Imaging
        PROVE  task'.marked = task.marked /\ task'.parts = task.parts /\ holder = s
               /\ run[s].pc = run'[s].pc /\ run[s].image = run'[s].image
    <3>1. task'.status # "deleted"
      BY <2>2, TasksAssumption DEF Row
    <3> QED BY <2>2, <3>1 DEF Calm
  <2>3. "mark" \in Imaging
    BY DEF Imaging
  <2> QED BY <2>1, <2>2, <2>3 DEF TasksInv, InHand
<1>2. Paid'
  <2> SUFFICES ASSUME NEW i \in Images
      PROVE  /\ IsFiniteSet(Senders(i)')
             /\ billed'[i] + Cardinality(Senders(i)') + (IF Due(i)' THEN 1 ELSE 0)
                  <= allowed'[i] + (IF Covered(i)' THEN 1 ELSE 0)
    BY DEF Paid
  <2>1. Senders(i)' \subseteq Senders(i)
    BY DEF Calm, Senders, Imaging
  <2>2. Due(i)' => Due(i)
    BY DEF Calm, Due, Imaging, Types
  <2>3. billed' = billed /\ allowed'[i] = allowed[i] /\ (Covered(i) => Covered(i)')
    BY DEF Calm, Covered
  <2> QED BY <2>1, <2>2, <2>3, StillPaid
<1> QED BY <1>1, <1>2

LEMMA SilentKeeps ==
  ASSUME TasksInv, Types', Silent
  PROVE  Searched'
<1>1. Searchers' \subseteq Searchers
  BY DEF Silent, Searchers
<1>2. /\ IsFiniteSet(Searchers')
      /\ Cardinality(Searchers) \in Nat /\ Cardinality(Searchers') \in Nat
      /\ Cardinality(Searchers') <= Cardinality(Searchers)
  BY <1>1, Fewer DEF TasksInv, Searched
<1>3. asked \in Nat /\ heard \in Nat /\ asked' = asked /\ heard' = heard
  BY DEF TasksInv, Types, Silent
<1>4. task'.status # "deleted" =>
        asked' + Cardinality(Searchers') <= heard' + (IF task'.research THEN 1 ELSE 0)
  <2> SUFFICES ASSUME task'.status # "deleted"
      PROVE asked' + Cardinality(Searchers') <= heard' + (IF task'.research THEN 1 ELSE 0)
    OBVIOUS
  <2>1. task.status # "deleted" /\ task'.research = task.research
    BY DEF Silent
  <2>2. asked + Cardinality(Searchers) <= heard + (IF task.research THEN 1 ELSE 0)
    BY <2>1 DEF TasksInv, Searched
  <2> QED BY <1>2, <1>3, <2>1, <2>2
<1>5. holder' # "none" /\ run'[holder'].pc = "agent"
        => asked' + Cardinality(Searchers') <= heard'
  <2> SUFFICES ASSUME holder' # "none", run'[holder'].pc = "agent"
      PROVE asked' + Cardinality(Searchers') <= heard'
    OBVIOUS
  <2>1. holder' \in Servers
    BY DEF Types
  <2>2. holder # "none" /\ run[holder].pc = "agent"
    BY <2>1 DEF Silent
  <2>3. asked + Cardinality(Searchers) <= heard
    BY <2>2 DEF TasksInv, Searched
  <2> QED BY <1>2, <1>3, <2>3
<1> QED BY <1>2, <1>4, <1>5 DEF Searched

-------------------------------------------------------------------------------
(* The steps of a run *)

PCs == Working \cup {"idle", "starting", "failing"}

\* A step of one run leaves the others where they are.
LEMMA Moved ==
  ASSUME run \in [Servers -> Run], NEW s \in Servers, NEW p \in PCs,
         run' = [run EXCEPT ![s].pc = p]
  PROVE  /\ run' \in [Servers -> Run]
         /\ run'[s].pc = p /\ run'[s].image = run[s].image
         /\ \A t \in Servers : t # s => run'[t] = run[t]
<1>1. run[s] \in Run /\ run' = [t \in Servers |-> IF t = s THEN [run[s] EXCEPT !.pc = p]
                                                  ELSE run[t]]
  OBVIOUS
<1>2. DEFINE q == [run[s] EXCEPT !.pc = p]
<1>3. q \in Run /\ q.pc = p /\ q.image = run[s].image
  BY <1>1 DEF Run, PCs
<1> HIDE DEF q
<1>4. run' = [t \in Servers |-> IF t = s THEN q ELSE run[t]]
  BY <1>1 DEF q
<1> QED BY <1>3, <1>4

LEMMA Ended ==
  ASSUME run \in [Servers -> Run], NEW s \in Servers, run' = [run EXCEPT ![s] = Idle]
  PROVE  /\ run' \in [Servers -> Run]
         /\ run'[s].pc = "idle" /\ run'[s].image = "none"
         /\ \A t \in Servers : t # s => run'[t] = run[t]
<1>1. Idle \in Run /\ Idle.pc = "idle" /\ Idle.image = "none"
  BY DEF Idle, Run
<1> HIDE DEF Idle
<1> QED BY <1>1

\* A run that is granted the epoch has nothing in hand yet.
LEMMA ClaimKeeps ==
  ASSUME TasksInv, NEW s \in Servers, Claim(s)
  PROVE  TasksInv'
<1> USE DEF RunRest, ghostVars
<1>1. /\ run' \in [Servers -> Run] /\ run'[s].pc \in {"look", "idle"}
      /\ \A t \in Servers : t # s => run'[t] = run[t]
  <2>1. CASE Claimable
    BY <2>1, Moved, "look" \in PCs DEF Claim, Goto, TasksInv, Types, PCs, Working
  <2>2. CASE ~Claimable
    BY <2>2, Ended DEF Claim, TasksInv, Types
  <2> QED BY <2>1, <2>2
<1>2. Types'
  BY <1>1 DEF Claim, TasksInv, Types
<1>3. /\ UNCHANGED <<task, view, ask, source, observed, known, ghostVars>>
      /\ \/ task.status = "running" /\ holder' = s
         \/ UNCHANGED <<holder, lease>>
  BY DEF Claim, Claimable
<1>4. Row' /\ Gone' /\ Prepared'
  BY <1>1, <1>3 DEF Claim, Claimable, TasksInv, Row, Gone, Frozen, Prepared
<1>5. Calm
  BY <1>1, <1>3 DEF Calm, Imaging
<1>6. Silent
  BY <1>1, <1>3 DEF Silent
<1> QED BY <1>2, <1>4, <1>5, <1>6, CalmKeeps, SilentKeeps DEF TasksInv

\* The image taken in hand was not recorded, and no earlier call of it is marked.
LEMMA LookKeeps ==
  ASSUME TasksInv, NEW s \in Servers, Look(s)
  PROVE  TasksInv'
<1> USE DEF RunRest, ghostVars, rowVars
<1>0. PICK i \in Images \ task.parts :
        run' = [run EXCEPT ![s].pc = IF task.marked = "none" THEN "mark" ELSE "failing",
                           ![s].image = i]
  BY DEF Look
<1>1. /\ run' \in [Servers -> Run]
      /\ run'[s].pc = (IF task.marked = "none" THEN "mark" ELSE "failing")
      /\ run'[s].image = i
      /\ \A t \in Servers : t # s => run'[t] = run[t]
  <2> DEFINE p == IF task.marked = "none" THEN "mark" ELSE "failing"
             q == [run[s] EXCEPT !.pc = p, !.image = i]
  <2>1. p \in PCs
    BY DEF PCs, Working
  <2>2. run \in [Servers -> Run] /\ run[s] \in Run
    BY DEF TasksInv, Types
  <2>3. run' = [t \in Servers |-> IF t = s THEN q ELSE run[t]]
    BY <1>0, <2>2
  <2> HIDE DEF p
  <2>4. q \in Run /\ q.pc = p /\ q.image = i
    BY <2>1, <2>2 DEF Run, PCs
  <2> HIDE DEF q
  <2> QED BY <2>2, <2>3, <2>4 DEF p
<1>2. Types'
  BY <1>1 DEF Look, TasksInv, Types
<1>3. Row' /\ Gone' /\ Prepared'
  BY <1>1 DEF Look, TasksInv, Row, Gone, Frozen, Prepared
<1>4. InHand'
  BY <1>1 DEF Look, TasksInv, InHand, Imaging
<1>5. Paid'
  <2> SUFFICES ASSUME NEW j \in Images
      PROVE  /\ IsFiniteSet(Senders(j)')
             /\ billed'[j] + Cardinality(Senders(j)') + (IF Due(j)' THEN 1 ELSE 0)
                  <= allowed'[j] + (IF Covered(j)' THEN 1 ELSE 0)
    BY DEF Paid
  <2>1. Senders(j)' \subseteq Senders(j)
    BY <1>1 DEF Senders
  <2>2. Due(j)' => Due(j)
    BY <1>1 DEF Due, Look, TasksInv, Types
  <2>3. billed' = billed /\ allowed'[j] = allowed[j] /\ (Covered(j) => Covered(j)')
    BY DEF Look, Covered
  <2> QED BY <1>2, <2>1, <2>2, <2>3, StillPaid
<1>6. Silent
  BY <1>1 DEF Look, Silent
<1> QED BY <1>2, <1>3, <1>4, <1>5, <1>6, SilentKeeps DEF TasksInv

\* Marking the image in hand covers the one call it may become.
LEMMA MarkKeeps ==
  ASSUME TasksInv, NEW s \in Servers, Mark(s)
  PROVE  TasksInv'
<1> USE DEF RunRest, ghostVars
<1> DEFINE x == run[s].image
<1>0. /\ holder = s /\ holder' = s /\ task.status = "running" /\ SourceCurrent
      /\ run[s].pc = "mark" /\ x \in Images /\ x \notin task.parts
      /\ task.marked = "none" /\ s # "none" /\ run[s] \in Run
  BY TasksAssumption DEF Mark, Checkpoint, MayWrite, TasksInv, InHand, Imaging, Types
<1>1. /\ run' \in [Servers -> Run] /\ run'[s].pc = "authorize" /\ run'[s].image = x
      /\ \A t \in Servers : t # s => run'[t] = run[t]
  BY Moved, "authorize" \in PCs DEF Mark, Goto, TasksInv, Types, PCs, Working
<1>2. /\ task' = [task EXCEPT !.marked = x] /\ task' \in Task
      /\ task'.marked = x /\ task'.parts = task.parts /\ task'.status = task.status
      /\ task'.capture = task.capture /\ task'.doomed = task.doomed
      /\ task'.research = task.research /\ task'.draft = task.draft
  BY <1>0 DEF Mark, Checkpoint, TasksInv, Types, Task
<1>3. Types'
  BY <1>0, <1>1, <1>2 DEF Mark, Checkpoint, TasksInv, Types
<1>4. Row' /\ Gone' /\ Prepared'
  BY <1>0, <1>1, <1>2 DEF Mark, Checkpoint, TasksInv, Row, Gone, Frozen, Prepared
<1>5. InHand'
  BY <1>0, <1>1, <1>2 DEF TasksInv, InHand, Imaging
<1>6. Paid'
  <2> SUFFICES ASSUME NEW j \in Images
      PROVE  /\ IsFiniteSet(Senders(j)')
             /\ billed'[j] + Cardinality(Senders(j)') + (IF Due(j)' THEN 1 ELSE 0)
                  <= allowed'[j] + (IF Covered(j)' THEN 1 ELSE 0)
    BY DEF Paid
  <2>1. Senders(j)' = Senders(j)
    BY <1>0, <1>1 DEF Senders
  <2>2. billed' = billed /\ allowed' = allowed
    BY DEF Mark
  <2>3. CASE j = x
    <3>1. ~Due(j) /\ ~Covered(j) /\ Covered(j)'
      BY <1>0, <1>2, <2>3, TasksAssumption DEF Due, Covered
    <3>2. /\ IsFiniteSet(Senders(j))
          /\ billed[j] + Cardinality(Senders(j)) <= allowed[j]
      BY <3>1, FS_CardinalityType DEF TasksInv, Paid, Types
    <3>3. billed[j] \in Nat /\ allowed[j] \in Nat /\ Cardinality(Senders(j)) \in Nat
      BY <3>2, FS_CardinalityType DEF TasksInv, Types
    <3> HIDE DEF Senders, Covered, Due
    <3> QED BY <2>1, <2>2, <3>1, <3>2, <3>3
  <2>4. CASE j # x
    <3>1. (Due(j)' => Due(j)) /\ (Covered(j) => Covered(j)')
      BY <1>0, <1>1, <1>2, <2>4, TasksAssumption DEF Due, Covered
    <3> QED BY <1>3, <2>1, <2>2, <3>1, StillPaid
  <2> QED BY <2>3, <2>4
<1>7. Silent
  BY <1>0, <1>1, <1>2 DEF Mark, Silent
<1> QED BY <1>3, <1>4, <1>5, <1>6, <1>7, SilentKeeps DEF TasksInv

\* A run that is allowed to send no longer needs the epoch for it.
LEMMA AuthorizeKeeps ==
  ASSUME TasksInv, NEW s \in Servers, Authorize(s)
  PROVE  TasksInv'
<1> USE DEF RunRest, ghostVars, rowVars
<1> DEFINE x == run[s].image
<1>0. /\ holder = s /\ task.status = "running" /\ run[s].pc = "authorize"
      /\ x \in Images /\ task.marked = x /\ s # "none"
  BY TasksAssumption DEF Authorize, MayWrite, TasksInv, InHand, Imaging
<1>1. /\ run' \in [Servers -> Run] /\ run'[s].pc = "send" /\ run'[s].image = x
      /\ \A t \in Servers : t # s => run'[t] = run[t]
  BY Moved, "send" \in PCs DEF Authorize, Goto, TasksInv, Types, PCs, Working
<1>2. Types'
  BY <1>1 DEF Authorize, TasksInv, Types
<1>3. Row' /\ Gone' /\ Prepared'
  BY <1>1 DEF Authorize, TasksInv, Row, Gone, Frozen, Prepared
<1>4. InHand'
  BY <1>0, <1>1 DEF Authorize, TasksInv, InHand, Imaging
<1>5. Paid'
  <2> SUFFICES ASSUME NEW j \in Images
      PROVE  /\ IsFiniteSet(Senders(j)')
             /\ billed'[j] + Cardinality(Senders(j)') + (IF Due(j)' THEN 1 ELSE 0)
                  <= allowed'[j] + (IF Covered(j)' THEN 1 ELSE 0)
    BY DEF Paid
  <2>1. /\ IsFiniteSet(Senders(j))
        /\ billed[j] + Cardinality(Senders(j)) + (IF Due(j) THEN 1 ELSE 0)
             <= allowed[j] + (IF Covered(j) THEN 1 ELSE 0)
    BY DEF TasksInv, Paid
  <2>2. billed' = billed /\ allowed' = allowed /\ (Covered(j) <=> Covered(j)')
    BY DEF Authorize, Covered
  <2>3. CASE j = x
    <3>1. Due(j) /\ ~Due(j)'
      BY <1>0, <1>1, <2>3 DEF Due, Authorize
    <3>2. s \notin Senders(j) /\ Senders(j)' = Senders(j) \cup {s}
      BY <1>0, <1>1, <2>3 DEF Senders
    <3>3. /\ IsFiniteSet(Senders(j)') /\ Cardinality(Senders(j)) \in Nat
          /\ Cardinality(Senders(j)') = Cardinality(Senders(j)) + 1
      BY <2>1, <3>2, FS_AddElement, FS_CardinalityType
    <3>4. billed[j] \in Nat /\ allowed[j] \in Nat
      BY DEF TasksInv, Types
    <3> HIDE DEF Senders, Covered, Due
    <3> QED BY <2>1, <2>2, <3>1, <3>3, <3>4
  <2>4. CASE j # x
    <3>1. Senders(j)' = Senders(j) /\ (Due(j)' => Due(j))
      BY <1>0, <1>1, <2>4 DEF Due, Senders, Authorize
    <3> QED BY <1>2, <2>2, <3>1, StillPaid
  <2> QED BY <2>3, <2>4
<1>6. Silent
  BY <1>0, <1>1 DEF Authorize, Silent
<1> QED BY <1>2, <1>3, <1>4, <1>5, <1>6, SilentKeeps DEF TasksInv

\* The call is made: one sender less, one call more.
LEMMA SendKeeps ==
  ASSUME TasksInv, NEW s \in Servers, Send(s)
  PROVE  TasksInv'
<1> USE DEF ghostVars, rowVars
<1> DEFINE x == run[s].image
<1>0. run[s].pc = "send" /\ x \in Images
  BY DEF Send, TasksInv, InHand, Imaging
<1>1. /\ run' \in [Servers -> Run] /\ run'[s].pc \in {"answered", "failing"}
      /\ run'[s].image = x
      /\ \A t \in Servers : t # s => run'[t] = run[t]
  <2>1. PICK p \in {"answered", "failing"} : Goto(s, p)
    BY DEF Send
  <2>2. p \in PCs
    BY DEF PCs, Working
  <2> QED BY <2>1, <2>2, Moved DEF Goto, TasksInv, Types
<1>2. /\ billed' \in [Images -> Nat] /\ billed'[x] = billed[x] + 1
      /\ \A j \in Images : j # x => billed'[j] = billed[j]
  BY <1>0 DEF Send, TasksInv, Types
<1>3. Types'
  BY <1>1, <1>2 DEF Send, TasksInv, Types
<1>4. Row' /\ Gone' /\ Prepared'
  BY <1>1 DEF Send, TasksInv, Row, Gone, Frozen, Prepared
<1>5. InHand'
  BY <1>0, <1>1 DEF Send, TasksInv, InHand, Imaging
<1>6. Paid'
  <2> SUFFICES ASSUME NEW j \in Images
      PROVE  /\ IsFiniteSet(Senders(j)')
             /\ billed'[j] + Cardinality(Senders(j)') + (IF Due(j)' THEN 1 ELSE 0)
                  <= allowed'[j] + (IF Covered(j)' THEN 1 ELSE 0)
    BY DEF Paid
  <2>1. /\ IsFiniteSet(Senders(j))
        /\ billed[j] + Cardinality(Senders(j)) + (IF Due(j) THEN 1 ELSE 0)
             <= allowed[j] + (IF Covered(j) THEN 1 ELSE 0)
    BY DEF TasksInv, Paid
  <2>2. allowed' = allowed /\ (Covered(j) <=> Covered(j)')
    BY DEF Send, Covered
  <2>3. Due(j)' => Due(j)
    BY <1>0, <1>1 DEF Due, Send, TasksInv, Types
  <2>4. billed[j] \in Nat /\ allowed[j] \in Nat
    BY DEF TasksInv, Types
  <2>5. CASE j = x
    <3>1. s \in Senders(j) /\ Senders(j)' = Senders(j) \ {s}
      BY <1>0, <1>1, <2>5 DEF Senders
    <3>2. /\ IsFiniteSet(Senders(j)') /\ Cardinality(Senders(j)) \in Nat
          /\ Cardinality(Senders(j)') = Cardinality(Senders(j)) - 1
          /\ Cardinality(Senders(j)') \in Nat
      BY <2>1, <3>1, FS_RemoveElement, FS_CardinalityType
    <3> HIDE DEF Senders, Covered, Due
    <3> QED BY <1>2, <2>1, <2>2, <2>3, <2>4, <2>5, <3>2
  <2>6. CASE j # x
    <3>1. Senders(j)' = Senders(j) /\ billed'[j] = billed[j]
      BY <1>0, <1>1, <1>2, <2>6 DEF Senders
    <3>2. Cardinality(Senders(j)) \in Nat
      BY <2>1, FS_CardinalityType
    <3> HIDE DEF Senders, Covered, Due
    <3> QED BY <2>1, <2>2, <2>3, <2>4, <3>1, <3>2
  <2> QED BY <2>5, <2>6
<1>7. Silent
  BY <1>0, <1>1 DEF Send, Silent
<1> QED BY <1>3, <1>4, <1>5, <1>6, <1>7, SilentKeeps DEF TasksInv

\* The part takes the place of the mark.
LEMMA RecordPartKeeps ==
  ASSUME TasksInv, NEW s \in Servers, RecordPart(s)
  PROVE  TasksInv'
<1> USE DEF RunRest, ghostVars
<1> DEFINE x == run[s].image
<1>0. /\ holder = s /\ holder' = s /\ task.status = "running" /\ SourceCurrent
      /\ run[s].pc = "answered" /\ x \in Images /\ task.marked = x
      /\ s # "none" /\ run[s] \in Run
  BY TasksAssumption DEF RecordPart, Checkpoint, MayWrite, TasksInv, InHand, Imaging, Types
<1>1. /\ run' \in [Servers -> Run] /\ run'[s].pc = "look"
      /\ \A t \in Servers : t # s => run'[t] = run[t]
  <2> DEFINE q == [run[s] EXCEPT !.pc = "look", !.image = "none"]
  <2>1. q \in Run /\ q.pc = "look"
    BY <1>0 DEF Run, Working
  <2>2. run \in [Servers -> Run] /\ run' = [t \in Servers |-> IF t = s THEN q ELSE run[t]]
    BY DEF RecordPart, TasksInv, Types
  <2> HIDE DEF q
  <2> QED BY <2>1, <2>2
<1>2. /\ task' \in Task
      /\ task'.marked = "none" /\ task'.parts = task.parts \cup {x}
      /\ task'.status = task.status
      /\ task'.capture = task.capture /\ task'.doomed = task.doomed
      /\ task'.research = task.research /\ task'.draft = task.draft
  BY <1>0 DEF RecordPart, Checkpoint, TasksInv, Types, Task
<1>3. Types'
  BY <1>0, <1>1, <1>2 DEF RecordPart, Checkpoint, TasksInv, Types
<1>4. Row' /\ Gone' /\ Prepared'
  BY <1>0, <1>1, <1>2 DEF RecordPart, Checkpoint, TasksInv, Row, Gone, Frozen, Prepared
<1>5. InHand'
  BY <1>0, <1>1, <1>2 DEF TasksInv, InHand, Imaging
<1>6. Paid'
  <2> SUFFICES ASSUME NEW j \in Images
      PROVE  /\ IsFiniteSet(Senders(j)')
             /\ billed'[j] + Cardinality(Senders(j)') + (IF Due(j)' THEN 1 ELSE 0)
                  <= allowed'[j] + (IF Covered(j)' THEN 1 ELSE 0)
    BY DEF Paid
  <2>1. Senders(j)' \subseteq Senders(j)
    BY <1>1 DEF Senders
  <2>2. Due(j)' => Due(j)
    BY <1>0, <1>1 DEF Due
  <2>3. billed' = billed /\ allowed'[j] = allowed[j] /\ (Covered(j) => Covered(j)')
    BY <1>0, <1>2 DEF RecordPart, Covered
  <2> QED BY <1>3, <2>1, <2>2, <2>3, StillPaid
<1>7. Silent
  BY <1>0, <1>1, <1>2 DEF RecordPart, Silent
<1> QED BY <1>3, <1>4, <1>5, <1>6, <1>7, SilentKeeps DEF TasksInv

\* The merged packet, and what the run does next.
LEMMA MergeKeeps ==
  ASSUME TasksInv, NEW s \in Servers, Merge(s)
  PROVE  TasksInv'
<1> USE DEF RunRest, ghostVars
<1>0. PICK to \in {"running", "waiting", "completed"}, draft \in BOOLEAN :
        /\ draft => to = "waiting" /\ ~task.only
        /\ Checkpoint(s, [task EXCEPT !.merged = TRUE, !.status = to, !.draft = draft])
        /\ Goto(s, IF to = "running" THEN "begin" ELSE "idle")
  BY DEF Merge
<1>1. /\ run' \in [Servers -> Run] /\ run'[s].pc \in {"begin", "idle"}
      /\ \A t \in Servers : t # s => run'[t] = run[t]
  <2> DEFINE p == IF to = "running" THEN "begin" ELSE "idle"
  <2>1. p \in PCs /\ p \in {"begin", "idle"}
    BY DEF PCs, Working
  <2>2. Goto(s, p)
    BY <1>0
  <2> HIDE DEF p
  <2> QED BY <2>1, <2>2, Moved DEF Goto, TasksInv, Types
<1>2. /\ holder = s /\ holder' = s /\ s # "none" /\ task.status = "running" /\ SourceCurrent
      /\ run[s].pc = "look" /\ ~task.merged /\ lease' = (to = "running") /\ view' = {}
  BY <1>0, TasksAssumption DEF Merge, Checkpoint, MayWrite, TasksInv, Types, Task
<1>3. /\ task' \in Task /\ task'.merged = TRUE /\ task'.status = to /\ task'.draft = draft
      /\ task'.marked = task.marked /\ task'.parts = task.parts /\ task'.only = task.only
      /\ task'.capture = task.capture /\ task'.doomed = task.doomed
      /\ task'.research = task.research
  BY <1>0 DEF Checkpoint, TasksInv, Types, Task, Statuses
<1>4. Types'
  BY <1>1, <1>2, <1>3 DEF Merge, TasksInv, Types
<1>5. Row' /\ Gone' /\ Prepared'
  BY <1>0, <1>1, <1>2, <1>3 DEF Merge, TasksInv, Row, Gone, Frozen, Prepared
<1>6. Calm
  BY <1>1, <1>2, <1>3 DEF Merge, Calm, Imaging
<1>7. Silent
  BY <1>1, <1>2, <1>3 DEF Merge, Silent
<1> QED BY <1>4, <1>5, <1>6, <1>7, CalmKeeps, SilentKeeps DEF TasksInv

LEMMA SkipKeeps ==
  ASSUME TasksInv, NEW s \in Servers, Skip(s)
  PROVE  TasksInv'
<1> USE DEF RunRest, ghostVars, rowVars
<1>1. /\ run' \in [Servers -> Run] /\ run'[s].pc \in {"begin", "idle"}
      /\ \A t \in Servers : t # s => run'[t] = run[t]
  <2>1. PICK p \in {"begin", "idle"} : Goto(s, p)
    BY DEF Skip
  <2>2. p \in PCs
    BY DEF PCs, Working
  <2> QED BY <2>1, <2>2, Moved DEF Goto, TasksInv, Types
<1>2. run[s].pc = "look" /\ task.merged /\ task.status = "running" /\ holder' = holder
  BY DEF Skip, Checkpoint
<1>3. CASE task.only
  <2>1. /\ task' \in Task /\ task'.status = "completed" /\ task'.draft = task.draft
        /\ task'.marked = task.marked /\ task'.parts = task.parts /\ task'.only = task.only
        /\ task'.capture = task.capture /\ task'.doomed = task.doomed
        /\ task'.research = task.research /\ task'.merged = task.merged
        /\ lease' = FALSE /\ view' = {}
    BY <1>3 DEF Skip, Checkpoint, TasksInv, Types, Task, Statuses
  <2>2. Types'
    BY <1>1, <1>2, <2>1 DEF Skip, TasksInv, Types
  <2>3. Row' /\ Gone' /\ Prepared'
    BY <1>1, <1>2, <2>1 DEF Skip, TasksInv, Row, Gone, Frozen, Prepared
  <2>4. Calm /\ Silent
    BY <1>1, <1>2, <2>1 DEF Skip, Calm, Silent, Imaging
  <2> QED BY <2>2, <2>3, <2>4, CalmKeeps, SilentKeeps DEF TasksInv
<1>4. CASE ~task.only
  <2>1. UNCHANGED rowVars
    BY <1>4 DEF Skip
  <2>2. Types'
    BY <1>1, <2>1 DEF Skip, TasksInv, Types
  <2>3. Row' /\ Gone' /\ Prepared'
    BY <1>1, <1>2, <2>1 DEF Skip, TasksInv, Row, Gone, Frozen, Prepared
  <2>4. Calm /\ Silent
    BY <1>1, <1>2, <2>1 DEF Skip, Calm, Silent, Imaging
  <2> QED BY <2>2, <2>3, <2>4, CalmKeeps, SilentKeeps DEF TasksInv
<1> QED BY <1>3, <1>4

\* Hearing of the noted search makes up for it.
LEMMA BeginKeeps ==
  ASSUME TasksInv, NEW s \in Servers, Begin(s)
  PROVE  TasksInv'
<1> USE DEF ghostVars
<1>1. /\ run' \in [Servers -> Run] /\ run'[s].pc = "agent"
      /\ \A t \in Servers : t # s => run'[t] = run[t]
  BY Moved, "agent" \in PCs DEF Begin, Goto, TasksInv, Types, PCs, Working
<1>2. /\ holder = s /\ holder' = s /\ s # "none" /\ task.status = "running" /\ SourceCurrent
      /\ run[s].pc = "begin" /\ lease' \in BOOLEAN /\ view' = {}
  BY TasksAssumption DEF Begin, Checkpoint, MayWrite
<1>3. /\ task' \in Task /\ task'.research = FALSE /\ task'.merged = task.merged
      /\ task'.status = task.status /\ task'.draft = task.draft
      /\ task'.marked = task.marked /\ task'.parts = task.parts /\ task'.only = task.only
      /\ task'.capture = task.capture /\ task'.doomed = task.doomed
  BY <1>2 DEF Begin, Checkpoint, TasksInv, Types, Task
<1>4. Types'
  BY <1>1, <1>2, <1>3 DEF Begin, TasksInv, Types
<1>5. Row' /\ Gone' /\ Prepared'
  BY <1>1, <1>2, <1>3 DEF Begin, TasksInv, Row, Gone, Frozen, Prepared
<1>6. Calm
  BY <1>1, <1>2, <1>3 DEF Begin, Calm, Imaging
<1>7. Searched'
  <2>1. Searchers' = Searchers
    BY <1>1, <1>2 DEF Searchers
  <2>2. IsFiniteSet(Searchers) /\ Cardinality(Searchers) \in Nat
        /\ asked + Cardinality(Searchers) <= heard + (IF task.research THEN 1 ELSE 0)
    BY <1>2, FS_CardinalityType DEF TasksInv, Searched
  <2>3. asked' = asked /\ heard' = (IF task.research THEN heard + 1 ELSE heard)
        /\ asked \in Nat /\ heard \in Nat /\ heard' \in Nat
    BY DEF Begin, TasksInv, Types
  <2> HIDE DEF Searchers
  <2>4. asked' + Cardinality(Searchers') <= heard'
    BY <2>1, <2>2, <2>3
  <2> QED BY <1>3, <2>1, <2>2, <2>3, <2>4 DEF Searched
<1> QED BY <1>4, <1>5, <1>6, <1>7, CalmKeeps DEF TasksInv

LEMMA SearchKeeps ==
  ASSUME TasksInv, NEW s \in Servers, Search(s)
  PROVE  TasksInv'
<1> USE DEF RunRest, ghostVars
<1>1. PICK how \in {"found", "adopted"} : Checkpoint(s, [task EXCEPT !.named = how])
  BY DEF Search
<1>2. /\ holder = s /\ holder' = s /\ s # "none" /\ task.status = "running" /\ SourceCurrent
      /\ run[s].pc = "agent" /\ lease' \in BOOLEAN /\ view' = {}
  BY <1>1, TasksAssumption DEF Search, Checkpoint, MayWrite
<1>3. /\ task' \in Task /\ task'.research = task.research /\ task'.merged = task.merged
      /\ task'.status = task.status /\ task'.draft = task.draft
      /\ task'.marked = task.marked /\ task'.parts = task.parts /\ task'.only = task.only
      /\ task'.capture = task.capture /\ task'.doomed = task.doomed
  BY <1>1, <1>2 DEF Checkpoint, TasksInv, Types, Task
<1>4. Types'
  BY <1>2, <1>3 DEF Search, TasksInv, Types
<1>5. Row' /\ Gone' /\ Prepared'
  BY <1>2, <1>3 DEF Search, TasksInv, Row, Gone, Frozen, Prepared
<1>6. Calm /\ Silent
  BY <1>2, <1>3 DEF Search, Calm, Silent
<1> QED BY <1>4, <1>5, <1>6, CalmKeeps, SilentKeeps DEF TasksInv

\* A capture is filed only when the task has none.
LEMMA FileKeeps ==
  ASSUME TasksInv, NEW s \in Servers, File(s)
  PROVE  TasksInv'
<1> USE DEF ghostVars
<1>1. /\ holder = s /\ holder' = s /\ s # "none" /\ task.status = "running" /\ SourceCurrent
      /\ run[s].pc = "agent" /\ lease' \in BOOLEAN /\ view' = {} /\ ~task.capture
  BY TasksAssumption DEF File, Checkpoint, MayWrite
<1>2. /\ task' \in Task /\ task'.research = task.research /\ task'.merged = task.merged
      /\ task'.status = task.status /\ task'.draft = task.draft
      /\ task'.marked = task.marked /\ task'.parts = task.parts /\ task'.only = task.only
      /\ task'.capture = TRUE /\ task'.doomed = task.doomed
  BY <1>1 DEF File, Checkpoint, TasksInv, Types, Task
<1>3. Types'
  BY <1>1, <1>2 DEF File, TasksInv, Types
<1>4. filed' = filed + 1 /\ filed <= 0
  BY <1>1 DEF File, TasksInv, Row
<1>5. Row' /\ Gone' /\ Prepared'
  BY <1>1, <1>2, <1>4 DEF File, TasksInv, Types, Row, Gone, Frozen, Prepared, SourceCurrent
<1>6. Calm /\ Silent
  BY <1>1, <1>2 DEF File, Calm, Silent
<1> QED BY <1>3, <1>5, <1>6, CalmKeeps, SilentKeeps DEF TasksInv

LEMMA UpdateContactKeeps ==
  ASSUME TasksInv, NEW s \in Servers, UpdateContact(s)
  PROVE  TasksInv'
<1> USE DEF ghostVars
<1>1. /\ holder = s /\ holder' = s /\ task.status = "running" /\ task' = task
      /\ lease' \in BOOLEAN /\ view' = {} /\ task.capture
  BY DEF UpdateContact, Checkpoint, MayWrite
<1>2. Types'
  BY <1>1 DEF UpdateContact, TasksInv, Types
<1>3. Row' /\ Gone' /\ Prepared'
  BY <1>1 DEF UpdateContact, TasksInv, Row, Gone, Frozen, Prepared
<1>4. Calm /\ Silent
  BY <1>1 DEF UpdateContact, Calm, Silent
<1> QED BY <1>2, <1>3, <1>4, CalmKeeps, SilentKeeps DEF TasksInv

\* The search the agent may still add is noted before it is one of those to send.
LEMMA NoteResearchKeeps ==
  ASSUME TasksInv, NEW s \in Servers, NoteResearch(s)
  PROVE  TasksInv'
<1> USE DEF ghostVars
<1>1. /\ run' \in [Servers -> Run] /\ run'[s].pc = "search"
      /\ \A t \in Servers : t # s => run'[t] = run[t]
  BY Moved, "search" \in PCs DEF NoteResearch, Goto, TasksInv, Types, PCs, Working
<1>2. /\ holder = s /\ holder' = s /\ s # "none" /\ task.status = "running" /\ SourceCurrent
      /\ run[s].pc = "agent" /\ lease' \in BOOLEAN /\ view' = {} /\ task.capture
  BY TasksAssumption DEF NoteResearch, Checkpoint, MayWrite
<1>3. /\ task' \in Task /\ task'.research = TRUE /\ task'.merged = task.merged
      /\ task'.status = task.status /\ task'.draft = task.draft
      /\ task'.marked = task.marked /\ task'.parts = task.parts /\ task'.only = task.only
      /\ task'.capture = task.capture /\ task'.doomed = task.doomed
  BY <1>2 DEF NoteResearch, Checkpoint, TasksInv, Types, Task
<1>4. Types'
  BY <1>1, <1>2, <1>3 DEF NoteResearch, TasksInv, Types
<1>5. Row' /\ Gone' /\ Prepared'
  BY <1>1, <1>2, <1>3 DEF NoteResearch, TasksInv, Row, Gone, Frozen, Prepared
<1>6. Calm
  BY <1>1, <1>2, <1>3 DEF NoteResearch, Calm, Imaging
<1>7. Searched'
  <2>1. s \notin Searchers /\ Searchers' = Searchers \cup {s}
    BY <1>1, <1>2 DEF Searchers
  <2>2. IsFiniteSet(Searchers) /\ Cardinality(Searchers) \in Nat
        /\ asked + Cardinality(Searchers) <= heard
    BY <1>2, FS_CardinalityType DEF TasksInv, Searched
  <2>3. asked' = asked /\ heard' = heard /\ asked \in Nat /\ heard \in Nat
    BY DEF NoteResearch, TasksInv, Types
  <2> HIDE DEF Searchers
  <2>4. IsFiniteSet(Searchers') /\ Cardinality(Searchers') = Cardinality(Searchers) + 1
    BY <2>1, <2>2, FS_AddElement
  <2>5. asked' + Cardinality(Searchers') <= heard' + 1
    BY <2>2, <2>3, <2>4
  <2> QED BY <1>1, <1>2, <1>3, <2>4, <2>5 DEF Searched
<1> QED BY <1>4, <1>5, <1>6, <1>7, CalmKeeps DEF TasksInv

LEMMA SendResearchKeeps ==
  ASSUME TasksInv, NEW s \in Servers, SendResearch(s)
  PROVE  TasksInv'
<1> USE DEF ghostVars, rowVars
<1>1. /\ run' \in [Servers -> Run] /\ run'[s].pc = "found" /\ run[s].pc = "search"
      /\ \A t \in Servers : t # s => run'[t] = run[t]
  BY Moved, "found" \in PCs DEF SendResearch, Goto, TasksInv, Types, PCs, Working
<1>2. Types'
  BY <1>1 DEF SendResearch, TasksInv, Types
<1>3. Row' /\ Gone' /\ Prepared'
  BY <1>1 DEF SendResearch, TasksInv, Row, Gone, Frozen, Prepared
<1>4. Calm
  BY <1>1 DEF SendResearch, Calm, Imaging
<1>5. Searched'
  <2>1. s \in Searchers /\ Searchers' = Searchers \ {s}
    BY <1>1 DEF Searchers
  <2>2. IsFiniteSet(Searchers) /\ Cardinality(Searchers) \in Nat
    BY FS_CardinalityType DEF TasksInv, Searched
  <2>3. /\ asked' = asked + 1 /\ heard' = heard /\ asked \in Nat /\ heard \in Nat
        /\ task' = task /\ holder' = holder
    BY DEF SendResearch, TasksInv, Types
  <2> HIDE DEF Searchers
  <2>4. /\ IsFiniteSet(Searchers') /\ Cardinality(Searchers') \in Nat
        /\ Cardinality(Searchers') = Cardinality(Searchers) - 1
    BY <2>1, <2>2, FS_RemoveElement, FS_CardinalityType
  <2>5. asked' + Cardinality(Searchers') = asked + Cardinality(Searchers)
    BY <2>2, <2>3, <2>4
  <2>6. holder # "none" /\ run'[holder].pc = "agent" => run[holder].pc = "agent"
    BY <1>1 DEF TasksInv, Types
  <2> QED BY <2>3, <2>4, <2>5, <2>6 DEF TasksInv, Searched
<1> QED BY <1>2, <1>3, <1>4, <1>5, CalmKeeps DEF TasksInv

LEMMA HearResearchKeeps ==
  ASSUME TasksInv, NEW s \in Servers, HearResearch(s)
  PROVE  TasksInv'
<1> USE DEF ghostVars
<1>0. PICK note \in BOOLEAN : Checkpoint(s, [task EXCEPT !.research = note])
  BY DEF HearResearch
<1>1. /\ run' \in [Servers -> Run] /\ run'[s].pc = "agent"
      /\ \A t \in Servers : t # s => run'[t] = run[t]
  BY Moved, "agent" \in PCs DEF HearResearch, Goto, TasksInv, Types, PCs, Working
<1>2. /\ holder = s /\ holder' = s /\ s # "none" /\ task.status = "running" /\ SourceCurrent
      /\ run[s].pc = "found" /\ lease' \in BOOLEAN /\ view' = {}
  BY <1>0, TasksAssumption DEF HearResearch, Checkpoint, MayWrite
<1>3. /\ task' \in Task /\ task'.research = note /\ task'.merged = task.merged
      /\ task'.status = task.status /\ task'.draft = task.draft
      /\ task'.marked = task.marked /\ task'.parts = task.parts /\ task'.only = task.only
      /\ task'.capture = task.capture /\ task'.doomed = task.doomed
  BY <1>0, <1>2 DEF Checkpoint, TasksInv, Types, Task
<1>4. Types'
  BY <1>1, <1>2, <1>3 DEF HearResearch, TasksInv, Types
<1>5. Row' /\ Gone' /\ Prepared'
  BY <1>1, <1>2, <1>3 DEF HearResearch, TasksInv, Row, Gone, Frozen, Prepared
<1>6. Calm
  BY <1>1, <1>2, <1>3 DEF HearResearch, Calm, Imaging
<1>7. Searched'
  <2>1. Searchers' = Searchers
    BY <1>1, <1>2 DEF Searchers
  <2>2. IsFiniteSet(Searchers) /\ Cardinality(Searchers) \in Nat
        /\ asked + Cardinality(Searchers) <= heard + (IF task.research THEN 1 ELSE 0)
    BY <1>2, FS_CardinalityType DEF TasksInv, Searched
  <2>3. asked' = asked /\ heard' = heard + 1 /\ asked \in Nat /\ heard \in Nat
    BY DEF HearResearch, TasksInv, Types
  <2> HIDE DEF Searchers
  <2>4. asked' + Cardinality(Searchers') <= heard'
    BY <2>1, <2>2, <2>3
  <2>5. heard' <= heard' + (IF task'.research THEN 1 ELSE 0)
        /\ asked' + Cardinality(Searchers') \in Nat
        /\ heard' + (IF task'.research THEN 1 ELSE 0) \in Nat
    BY <2>1, <2>2, <2>3
  <2>6. asked' + Cardinality(Searchers') <= heard' + (IF task'.research THEN 1 ELSE 0)
    BY <2>1, <2>2, <2>3, <2>4, <2>5
  <2> QED BY <2>1, <2>2, <2>4, <2>6 DEF Searched
<1> QED BY <1>4, <1>5, <1>6, <1>7, CalmKeeps DEF TasksInv

\* The row of a running task, with its outcome.
Outcome ==
  /\ task' \in Task /\ task.status = "running" /\ task'.status # "deleted"
  /\ task'.research = task.research /\ task'.merged = task.merged
  /\ task'.draft = task.draft /\ task'.only = task.only
  /\ task'.marked = task.marked /\ task'.parts = task.parts
  /\ task'.capture = task.capture /\ task'.doomed = task.doomed

LEMMA OutcomeWritten ==
  ASSUME task \in Task, NEW st \in Statuses \ {"deleted"}, task.status = "running",
         task' = [task EXCEPT !.status = st]
  PROVE  Outcome /\ task'.status = st
BY DEF Outcome, Task, Statuses

\* A step of the run with the epoch that ends where nothing is counted, and writes
\* at most the outcome of the task.
LEMMA OutcomeKeeps ==
  ASSUME TasksInv, NEW s \in Servers, holder = s, task' = task \/ Outcome,
         run' \in [Servers -> Run], run'[s].pc \in {"idle", "final"},
         \A t \in Servers : t # s => run'[t] = run[t],
         holder' = holder, lease' = FALSE, view' = {},
         UNCHANGED <<ask, source, observed, known, ghostVars>>
  PROVE  TasksInv'
<1> USE DEF ghostVars
<1>1. s # "none" /\ task.status # "deleted" /\ task'.status # "deleted"
  BY TasksAssumption DEF TasksInv, Row, Outcome
<1>2. Types'
  BY DEF TasksInv, Types, Outcome
<1>3. Row' /\ Gone' /\ Prepared'
  <2>1. task.draft => task' = task
    BY DEF TasksInv, Row, Outcome
  <2> QED BY <1>1, <2>1 DEF TasksInv, Row, Gone, Frozen, Prepared, Outcome
<1>4. Calm /\ Silent
  BY <1>1 DEF Calm, Silent, Imaging, Outcome
<1> QED BY <1>2, <1>3, <1>4, CalmKeeps, SilentKeeps DEF TasksInv

LEMMA FinishToolKeeps ==
  ASSUME TasksInv, NEW s \in Servers, FinishTool(s)
  PROVE  TasksInv'
<1> USE DEF RunRest, ghostVars, rowVars
<1>1. /\ run' \in [Servers -> Run] /\ run'[s].pc = "final"
      /\ \A t \in Servers : t # s => run'[t] = run[t]
  BY Moved, "final" \in PCs DEF FinishTool, Goto, TasksInv, Types, PCs, Working
<1>2. CASE UNCHANGED rowVars
  <2>1. Types'
    BY <1>1, <1>2 DEF FinishTool, TasksInv, Types
  <2>2. Row' /\ Gone' /\ Prepared'
    BY <1>1, <1>2 DEF FinishTool, TasksInv, Row, Gone, Frozen, Prepared
  <2>3. Calm /\ Silent
    BY <1>1, <1>2 DEF FinishTool, Calm, Silent, Imaging
  <2> QED BY <2>1, <2>2, <2>3, CalmKeeps, SilentKeeps DEF TasksInv
<1>3. ASSUME NEW st \in {"completed", "waiting"},
             Checkpoint(s, [task EXCEPT !.status = st])
      PROVE  TasksInv'
  <2>1. st \in Statuses \ {"deleted"}
    BY DEF Statuses
  <2>2. /\ holder = s /\ holder' = holder /\ view' = {} /\ task.status = "running"
        /\ task' = [task EXCEPT !.status = st] /\ lease' = (task'.status = "running")
    BY <1>3 DEF Checkpoint, MayWrite
  <2>3. Outcome /\ lease' = FALSE
    BY <2>1, <2>2, OutcomeWritten DEF TasksInv, Types
  <2>4. UNCHANGED <<ask, source, observed, known, ghostVars>>
    BY DEF FinishTool
  <2> HIDE DEF Outcome, ghostVars
  <2> QED BY <1>1, <2>2, <2>3, <2>4, OutcomeKeeps
<1> QED BY <1>2, <1>3 DEF FinishTool

LEMMA FinalKeeps ==
  ASSUME TasksInv, NEW s \in Servers, Final(s)
  PROVE  TasksInv'
<1> USE DEF RunRest, ghostVars
<1>1. /\ run' \in [Servers -> Run] /\ run'[s].pc = "idle"
      /\ \A t \in Servers : t # s => run'[t] = run[t]
  BY Moved, "idle" \in PCs DEF Final, Goto, TasksInv, Types, PCs
<1> DEFINE st == IF task.capture THEN "partial" ELSE "failed"
<1>2. st \in Statuses \ {"deleted"}
  BY DEF Statuses
<1>3. task' = task \/ Outcome
  <2>1. CASE task.status = "running"
    <3>1. task' = [task EXCEPT !.status = st] /\ task \in Task
      BY <2>1 DEF Final, Failed, TasksInv, Types
    <3> HIDE DEF st
    <3> QED BY <1>2, <2>1, <3>1, OutcomeWritten
  <2>2. CASE task.status # "running"
    BY <2>2 DEF Final
  <2> QED BY <2>1, <2>2
<1>4. /\ holder = s /\ holder' = holder /\ lease' = FALSE /\ view' = {}
      /\ UNCHANGED <<ask, source, observed, known, ghostVars>>
  BY DEF Final
<1> HIDE DEF Outcome, ghostVars
<1> QED BY <1>1, <1>3, <1>4, OutcomeKeeps

\* A run that is ended loses what it had in hand, and the row stays as it is.
LEMMA LeftKeeps ==
  ASSUME TasksInv, NEW s \in Servers,
         run' \in [Servers -> Run], run'[s].pc \in {"idle", "failing"},
         \A t \in Servers : t # s => run'[t] = run[t],
         UNCHANGED <<rowVars, ask, source, observed, known, ghostVars>>
  PROVE  TasksInv'
<1> USE DEF ghostVars, rowVars
<1>1. Types'
  BY DEF TasksInv, Types
<1>2. Row' /\ Gone' /\ Prepared'
  BY DEF TasksInv, Row, Gone, Frozen, Prepared
<1>3. Calm /\ Silent
  BY DEF Calm, Silent, Imaging
<1> QED BY <1>1, <1>2, <1>3, CalmKeeps, SilentKeeps DEF TasksInv

LEMMA FailKeeps ==
  ASSUME TasksInv, NEW s \in Servers, Fail(s)
  PROVE  TasksInv'
<1> USE DEF ghostVars
<1>1. /\ run' \in [Servers -> Run] /\ run'[s].pc = "idle"
      /\ \A t \in Servers : t # s => run'[t] = run[t]
  BY Ended DEF Fail, TasksInv, Types
<1>2. CASE UNCHANGED rowVars
  BY <1>1, <1>2, LeftKeeps DEF Fail
<1>3. CASE Checkpoint(s, Failed(task))
  <2> DEFINE st == IF task.capture THEN "partial" ELSE "failed"
  <2>1. st \in Statuses \ {"deleted"} /\ st # "running"
    BY DEF Statuses
  <2>2. /\ holder = s /\ holder' = holder /\ view' = {} /\ task.status = "running"
        /\ task' = [task EXCEPT !.status = st] /\ lease' = (task'.status = "running")
    BY <1>3 DEF Checkpoint, MayWrite, Failed
  <2> HIDE DEF st
  <2>3. Outcome /\ lease' = FALSE
    BY <2>1, <2>2, OutcomeWritten DEF TasksInv, Types
  <2>4. UNCHANGED <<ask, source, observed, known, ghostVars>>
    BY DEF Fail
  <2> HIDE DEF Outcome, ghostVars
  <2> QED BY <1>1, <2>2, <2>3, <2>4, OutcomeKeeps
<1> QED BY <1>2, <1>3 DEF Fail

LEMMA LeaveKeeps ==
  ASSUME TasksInv, NEW s \in Servers,
         Leave(s) \/ Crash(s) \/ GiveUp(s)
  PROVE  TasksInv'
<1> USE DEF RunRest
<1>1. /\ run' \in [Servers -> Run] /\ run'[s].pc \in {"idle", "failing"}
      /\ \A t \in Servers : t # s => run'[t] = run[t]
  <2>1. CASE Leave(s) \/ Crash(s)
    BY <2>1, Ended DEF Leave, Crash, TasksInv, Types
  <2>2. CASE GiveUp(s)
    BY <2>2, Moved, "failing" \in PCs DEF GiveUp, Goto, TasksInv, Types, PCs
  <2> QED BY <2>1, <2>2
<1> QED BY <1>1, LeftKeeps DEF Leave, Crash, GiveUp

LEMMA LapseKeeps ==
  ASSUME TasksInv, Lapse
  PROVE  TasksInv'
<1> USE DEF ghostVars
<1>1. Types'
  BY DEF Lapse, TasksInv, Types
<1>2. Row' /\ Gone' /\ Prepared'
  BY DEF Lapse, TasksInv, Row, Gone, Frozen, Prepared
<1>3. Calm /\ Silent
  BY DEF Lapse, Calm, Silent
<1> QED BY <1>1, <1>2, <1>3, CalmKeeps, SilentKeeps DEF TasksInv

-------------------------------------------------------------------------------
(* The requests of the owner, and what happens to the source and the contact *)

\* What a request may do to the runs: start one, mark it to be stopped, or end it.
Quieter ==
  /\ run' \in [Servers -> Run]
  /\ \A t \in Servers : \/ run'[t].pc \in {"starting", "failing"}
                        \/ run'[t].pc = run[t].pc /\ run'[t].image = run[t].image

LEMMA UntouchedIsQuieter ==
  ASSUME TasksInv, run' = run
  PROVE  Quieter
BY DEF Quieter, TasksInv, Types

LEMMA StoppedIsQuieter ==
  ASSUME TasksInv, NEW s \in Servers,
         run' = IF run[s].pc = "idle" THEN run ELSE [run EXCEPT ![s].stop = "cancelled"]
  PROVE  Quieter
<1> DEFINE q == [run[s] EXCEPT !.stop = "cancelled"]
<1>1. run \in [Servers -> Run] /\ run[s] \in Run
  BY DEF TasksInv, Types
<1>2. q \in Run /\ q.pc = run[s].pc /\ q.image = run[s].image
  BY <1>1 DEF Run
<1>3. run' = run \/ run' = [t \in Servers |-> IF t = s THEN q ELSE run[t]]
  BY <1>1
<1> HIDE DEF q
<1> QED BY <1>1, <1>2, <1>3 DEF Quieter

LEMMA AbortedIsQuieter ==
  ASSUME TasksInv, NEW s \in Servers, Abort(s)
  PROVE  Quieter
<1> DEFINE q == IF run[s].pc = "starting" THEN [run[s] EXCEPT !.stop = "stopped"]
                ELSE [run[s] EXCEPT !.pc = "failing", !.stop = "stopped"]
<1>1. run \in [Servers -> Run] /\ run[s] \in Run
  BY DEF TasksInv, Types
<1>2. q \in Run /\ q.pc \in {"starting", "failing"}
  BY <1>1 DEF Run
<1>3. run' = run \/ run' = [t \in Servers |-> IF t = s THEN q ELSE run[t]]
  BY <1>1 DEF Abort
<1> HIDE DEF q
<1> QED BY <1>1, <1>2, <1>3 DEF Quieter

LEMMA StartedIsQuieter ==
  ASSUME TasksInv, NEW s \in Servers, Started(s)
  PROVE  Quieter
<1>1. run \in [Servers -> Run]
  BY DEF TasksInv, Types
<1>2. Starting \in Run /\ Starting.pc = "starting"
  BY DEF Starting, Idle, Run
<1>3. run' = run \/ run' = [t \in Servers |-> IF t = s THEN Starting ELSE run[t]]
  BY <1>1 DEF Started
<1> HIDE DEF Starting
<1> QED BY <1>1, <1>2, <1>3 DEF Quieter

\* Such a step keeps the counts, unless it touches what they are compared with.
LEMMA QuieterKeeps ==
  ASSUME TasksInv, Types', Row', Gone', Prepared', Quieter,
         holder' = "none" \/ holder' = holder,
         \/ task'.status = "deleted"
         \/ /\ task.status # "deleted" /\ task'.research = task.research
            /\ task'.marked = task.marked /\ task'.parts = task.parts,
         UNCHANGED <<billed, allowed, asked, heard>>
  PROVE  TasksInv'
<1>1. Calm
  BY TasksAssumption DEF Calm, Quieter, Imaging
<1>2. Silent
  BY TasksAssumption DEF Silent, Quieter
<1> QED BY <1>1, <1>2, CalmKeeps, SilentKeeps DEF TasksInv

\* A request that leaves the row alone, but for who holds its revision.
LEMMA RowAloneKeeps ==
  ASSUME TasksInv, Quieter, UNCHANGED <<task, holder, lease>>,
         view' \subseteq Clients, known' \in {"active", "archived"},
         ask' \in [Clients -> {"none", "cancel", "capture", "scrub", "copy"}],
         \A c \in Clients : ask'[c] \in {ask[c], "none", "cancel"},
         UNCHANGED <<source, observed, done, billed, allowed, asked, heard, filed>>
  PROVE  TasksInv'
<1>1. Types'
  BY DEF Quieter, TasksInv, Types
<1>2. Row' /\ Gone' /\ Prepared'
  <2>1. \A c \in Clients : ask'[c] \in {"capture", "scrub", "copy"} => ask[c] = ask'[c]
    OBVIOUS
  <2> QED BY <2>1, TasksAssumption
          DEF Quieter, TasksInv, Row, Gone, Frozen, Prepared
<1>3. task'.status = "deleted" \/ task.status # "deleted"
  OBVIOUS
<1> QED BY <1>1, <1>2, <1>3, QuieterKeeps

LEMMA PollKeeps ==
  ASSUME TasksInv, NEW c \in Clients, NEW s \in Servers, Poll(c, s)
  PROVE  TasksInv'
<1>1. Quieter
  BY UntouchedIsQuieter, StartedIsQuieter DEF Poll
<1> QED BY <1>1, RowAloneKeeps DEF Poll, Answered, TasksInv, Types

LEMMA UnwatchKeeps ==
  ASSUME TasksInv, NEW c \in Clients, Unwatch(c)
  PROVE  TasksInv'
BY UntouchedIsQuieter, RowAloneKeeps DEF Unwatch, rowVars, ghostVars, TasksInv, Types

LEMMA LoseRequestKeeps ==
  ASSUME TasksInv, NEW c \in Clients, LoseRequest(c)
  PROVE  TasksInv'
<1>1. /\ ask' \in [Clients -> {"none", "cancel", "capture", "scrub", "copy"}]
      /\ \A d \in Clients : ask'[d] \in {ask[d], "none", "cancel"}
  BY DEF LoseRequest, TasksInv, Types
<1> QED BY <1>1, UntouchedIsQuieter, RowAloneKeeps
        DEF LoseRequest, rowVars, ghostVars, TasksInv, Types

LEMMA AskCancelKeeps ==
  ASSUME TasksInv, NEW c \in Clients, NEW s \in Servers, AskCancel(c, s)
  PROVE  TasksInv'
<1>1. /\ ask' \in [Clients -> {"none", "cancel", "capture", "scrub", "copy"}]
      /\ \A d \in Clients : ask'[d] \in {ask[d], "none", "cancel"}
  BY DEF AskCancel, TasksInv, Types
<1>2. Quieter
  BY StoppedIsQuieter DEF AskCancel
<1> QED BY <1>1, <1>2, RowAloneKeeps DEF AskCancel, rowVars, ghostVars, TasksInv, Types

\* Continuing a task takes its mark away, and pays for that with a retry.
LEMMA ResumeKeeps ==
  ASSUME TasksInv, NEW c \in Clients, NEW s \in Servers, Resume(c, s)
  PROVE  TasksInv'
<1>1. /\ holder' = "none" /\ lease' = FALSE /\ view' = {c} /\ Started(s)
      /\ task.status \in Resumable /\ SourceCurrent /\ ~task.draft
      /\ UNCHANGED <<ask, source, observed, known, billed, asked, heard, filed, done>>
  BY DEF Resume, MayResume, ResumeEffects, Fenced
<1>2. /\ task' \in Task /\ task'.status = "running" /\ task'.marked = "none"
      /\ task'.research = task.research /\ task'.merged = task.merged
      /\ task'.draft = task.draft /\ task'.only = task.only /\ task'.parts = task.parts
      /\ task'.capture = task.capture /\ task'.doomed = task.doomed
  BY DEF Resume, ResumeEffects, Fenced, TasksInv, Types, Task, Statuses
<1>3. /\ allowed' \in [Images -> Nat]
      /\ \A i \in Images : allowed'[i] = IF task.marked = i THEN allowed[i] + 1
                                                            ELSE allowed[i]
  BY TasksAssumption DEF Resume, ResumeEffects, TasksInv, Types, Task
<1>0. Quieter
  BY <1>1, StartedIsQuieter
<1>4. Types'
  BY <1>0, <1>1, <1>2, <1>3 DEF TasksInv, Types, Quieter
<1>5. Row' /\ Gone' /\ Prepared'
  BY <1>1, <1>2, TasksAssumption DEF TasksInv, Row, Gone, Frozen, Prepared, SourceCurrent
<1>6. InHand'
  BY <1>0, <1>1, TasksAssumption DEF TasksInv, InHand, Quieter, Imaging
<1>7. Paid'
  <2> SUFFICES ASSUME NEW i \in Images
      PROVE  /\ IsFiniteSet(Senders(i)')
             /\ billed'[i] + Cardinality(Senders(i)') + (IF Due(i)' THEN 1 ELSE 0)
                  <= allowed'[i] + (IF Covered(i)' THEN 1 ELSE 0)
    BY DEF Paid
  <2>1. Senders(i)' \subseteq Senders(i) /\ ~Due(i)'
    BY <1>0, <1>1 DEF Senders, Due, Quieter
  <2>2. \/ allowed'[i] = allowed[i] /\ (Covered(i) => Covered(i)')
        \/ allowed'[i] = allowed[i] + 1
    BY <1>1, <1>2, <1>3 DEF Covered, SourceCurrent
  <2> QED BY <1>1, <1>4, <2>1, <2>2, StillPaid
<1>8. Silent
  BY <1>0, <1>1, <1>2, TasksAssumption DEF Silent, Quieter, SourceCurrent
<1> QED BY <1>4, <1>5, <1>6, <1>7, <1>8, SilentKeeps DEF TasksInv

\* The reviewed profile is filed once: a draft has filed nothing.
LEMMA ConfirmKeeps ==
  ASSUME TasksInv, NEW c \in Clients, Confirm(c)
  PROVE  TasksInv'
<1>1. /\ holder' = "none" /\ lease' = FALSE /\ view' = {c} /\ run' = run
      /\ task.status = "waiting" /\ SourceCurrent /\ task.draft /\ ~task.only
      /\ UNCHANGED <<ask, observed, known, billed, allowed, asked, heard, done>>
  BY DEF Confirm, Fenced
<1>2. Quieter
  BY <1>1, UntouchedIsQuieter
<1>3. CASE task' = task /\ UNCHANGED <<source, filed>>
  <2>1. Types'
    BY <1>1, <1>3 DEF TasksInv, Types
  <2>2. Row' /\ Gone' /\ Prepared'
    BY <1>1, <1>3, TasksAssumption DEF TasksInv, Row, Gone, Frozen, Prepared
  <2> QED BY <1>1, <1>2, <1>3, <2>1, <2>2, QuieterKeeps
<1>4. CASE /\ task' = [task EXCEPT !.status = "completed", !.draft = FALSE,
                                   !.capture = TRUE]
           /\ source' = "active" /\ filed' = filed + 1
  <2>1. /\ task' \in Task /\ task'.status = "completed" /\ task'.marked = task.marked
        /\ task'.research = task.research /\ task'.merged = task.merged
        /\ task'.draft = FALSE /\ task'.only = task.only /\ task'.parts = task.parts
        /\ task'.capture = TRUE /\ task'.doomed = task.doomed
    BY <1>4 DEF TasksInv, Types, Task, Statuses
  <2>2. Types'
    <3>1. source' \in {"none", "active", "gone", "erased"} /\ filed' \in Nat
      BY <1>4 DEF TasksInv, Types
    <3>2. task' \in Task
      BY <2>1
    <3> QED BY <1>1, <3>1, <3>2 DEF TasksInv, Types
  <2>3. task.merged /\ ~task.capture /\ filed <= 0
    BY <1>1 DEF TasksInv, Row
  <2>4. Row' /\ Gone' /\ Prepared'
    BY <1>1, <1>4, <2>1, <2>3, TasksAssumption
       DEF TasksInv, Types, Row, Gone, Frozen, Prepared, SourceCurrent
  <2>5. task.status # "deleted"
    BY <1>1
  <2> QED BY <1>1, <1>2, <2>1, <2>2, <2>4, <2>5, QuieterKeeps
<1> QED BY <1>3, <1>4 DEF Confirm, Fenced

LEMMA LinkKeeps ==
  ASSUME TasksInv, NEW c \in Clients, Link(c)
  PROVE  TasksInv'
<1> USE DEF ghostVars
<1>1. Quieter
  BY UntouchedIsQuieter DEF Link
<1>2. /\ task' \in Task /\ task'.status = task.status /\ task'.marked = task.marked
      /\ task'.research = task.research /\ task'.merged = task.merged
      /\ task'.draft = task.draft /\ task'.only = task.only /\ task'.parts = task.parts
      /\ task'.capture = TRUE /\ task'.doomed = task.doomed
  BY DEF Link, TasksInv, Types, Task
<1>3. Types'
  BY <1>2 DEF Link, TasksInv, Types
<1>4. task.status # "deleted" /\ task.only /\ ~task.capture /\ filed <= 0
  BY DEF Link, SourceCurrent, TasksInv, Row
<1>5. Row' /\ Gone' /\ Prepared'
  BY <1>2, <1>4 DEF Link, TasksInv, Types, Row, Gone, Frozen, Prepared, SourceCurrent
<1> QED BY <1>1, <1>2, <1>3, <1>4, <1>5, QuieterKeeps DEF Link

LEMMA CancelKeeps ==
  ASSUME TasksInv, NEW c \in Clients, Cancel(c)
  PROVE  TasksInv'
<1> USE DEF ghostVars
<1>1. /\ ask' \in [Clients -> {"none", "cancel", "capture", "scrub", "copy"}]
      /\ \A d \in Clients : ask'[d] \in {ask[d], "none"}
  BY DEF Cancel, TasksInv, Types
<1>2. Quieter
  BY UntouchedIsQuieter DEF Cancel
<1>3. CASE c \in view /\ SourceCurrent
  <2>1. /\ task' \in Task /\ task'.status = "cancelled" /\ task'.marked = task.marked
        /\ task'.research = task.research /\ task'.merged = task.merged
        /\ task'.draft = task.draft /\ task'.only = task.only /\ task'.parts = task.parts
        /\ task'.capture = task.capture /\ task'.doomed = task.doomed
        /\ holder' = "none" /\ lease' = FALSE /\ view' = {c}
    BY <1>3 DEF Cancel, Fenced, TasksInv, Types, Task, Statuses
  <2>2. task.status # "deleted" /\ ~task.doomed
    BY <1>3 DEF SourceCurrent
  <2>3. Types'
    BY <1>1, <2>1 DEF Cancel, TasksInv, Types
  <2>4. \A d \in Clients : ask[d] \notin {"capture", "scrub", "copy"}
    BY <2>2 DEF TasksInv, Gone, Frozen
  <2>5. \A d \in Clients : ask'[d] \notin {"capture", "scrub", "copy"}
    BY <1>1, <2>4
  <2>6. Row' /\ Gone' /\ Prepared'
    BY <2>1, <2>2, <2>5, TasksAssumption DEF Cancel, TasksInv, Row, Gone, Frozen, Prepared
  <2> QED BY <1>2, <2>1, <2>2, <2>3, <2>6, QuieterKeeps DEF Cancel
<1>4. CASE ~(c \in view /\ SourceCurrent)
  BY <1>1, <1>2, <1>4, RowAloneKeeps DEF Cancel, rowVars, TasksInv, Types
<1> QED BY <1>3, <1>4

\* What is left of the row of a deleted task.
LEMMA DeletedIs ==
  ASSUME TasksInv, task' = Deleted(task)
  PROVE  /\ task' \in Task /\ task'.status = "deleted" /\ task'.draft = FALSE
         /\ task'.research = FALSE /\ task'.capture = task.capture
BY DEF Deleted, TasksInv, Types, Task, Statuses

\* A row that is deleted, with the observations made for it.
LEMMA DeletedKeeps ==
  ASSUME TasksInv, Quieter, NEW answered \in SUBSET Clients, Fenced(Deleted(task), answered),
         observed' = FALSE, done' \in BOOLEAN, done' => source' # "active",
         source' \in {source, "gone", "erased"},
         ask' \in [Clients -> {"none", "cancel", "capture", "scrub", "copy"}],
         \A d \in Clients : ask'[d] = "scrub" => source' # "active",
         UNCHANGED <<known, billed, allowed, asked, heard, filed>>
  PROVE  TasksInv'
<1>1. /\ task' \in Task /\ task'.status = "deleted" /\ task'.draft = FALSE
      /\ task'.research = FALSE /\ task'.capture = task.capture
      /\ holder' = "none" /\ lease' = FALSE /\ view' \subseteq Clients
  BY DeletedIs DEF Fenced
<1>2. Types'
  BY <1>1 DEF Quieter, TasksInv, Types
<1>3. Row' /\ Gone' /\ Prepared'
  BY <1>1, TasksAssumption DEF TasksInv, Row, Gone, Frozen, Prepared
<1> QED BY <1>1, <1>2, <1>3, QuieterKeeps

\* The capture goes while nobody relies on it: with the row, or after it.
LEMMA SourceGoneKeeps ==
  ASSUME TasksInv, run' = run, source = "active",
         NEW how \in {"gone", "erased"}, SourceGone(how),
         ask' \in [Clients -> {"none", "cancel", "capture", "scrub", "copy"}],
         \A d \in Clients : ask'[d] \in {"capture", "scrub", "copy"}
           => ask[d] \in {"capture", "scrub", "copy"},
         UNCHANGED <<known, ghostVars>>
  PROVE  TasksInv'
<1> USE DEF ghostVars
<1>1. Quieter /\ source' = how /\ task.capture /\ observed' = FALSE /\ done \in BOOLEAN
  BY UntouchedIsQuieter DEF SourceGone, TasksInv, Gone, Types
<1>2. CASE task.status # "deleted"
  BY <1>1, <1>2, DeletedKeeps DEF SourceGone
<1>3. CASE task.status = "deleted"
  <2>1. UNCHANGED rowVars
    BY <1>3 DEF SourceGone
  <2>2. Types'
    BY <1>1, <2>1 DEF rowVars, TasksInv, Types
  <2>3. Row' /\ Gone' /\ Prepared'
    BY <1>1, <1>3, <2>1 DEF rowVars, TasksInv, Row, Gone, Frozen, Prepared
  <2> QED BY <1>1, <1>3, <2>1, <2>2, <2>3, QuieterKeeps DEF rowVars
<1> QED BY <1>2, <1>3

LEMMA DeleteCaptureKeeps ==
  ASSUME TasksInv, NEW c \in Clients, DeleteCapture(c)
  PROVE  TasksInv'
<1>1. /\ ask' \in [Clients -> {"none", "cancel", "capture", "scrub", "copy"}]
      /\ ask[c] = "capture" /\ ask'[c] \in {"none", "scrub"}
      /\ \A d \in Clients : d # c => ask'[d] = ask[d]
  BY DEF DeleteCapture, TasksInv, Types
<1>2. CASE source = "active"
  BY <1>1, <1>2, SourceGoneKeeps DEF DeleteCapture
<1>3. CASE source # "active"
  <2>1. /\ UNCHANGED <<source, observed, rowVars, run, known, ghostVars>>
    BY <1>3 DEF DeleteCapture
  <2>2. Types'
    BY <1>1, <2>1 DEF rowVars, ghostVars, TasksInv, Types
  <2>3. Row' /\ Gone' /\ Prepared'
    BY <1>1, <1>3, <2>1 DEF rowVars, ghostVars, TasksInv, Row, Gone, Frozen, Prepared
  <2> QED BY <2>1, <2>2, <2>3, UntouchedIsQuieter, QuieterKeeps DEF rowVars, ghostVars
<1> QED BY <1>2, <1>3

LEMMA ScrubKeeps ==
  ASSUME TasksInv, NEW c \in Clients, Scrub(c)
  PROVE  TasksInv'
<1>1. /\ ask' \in [Clients -> {"none", "cancel", "capture", "scrub", "copy"}]
      /\ ask[c] \in {"scrub", "copy"} /\ ask'[c] = "none"
      /\ \A d \in Clients : d # c => ask'[d] = ask[d]
  BY DEF Scrub, TasksInv, Types
<1>2. done' \in BOOLEAN /\ (done' => done \/ ask[c] = "scrub") /\ (done' => source # "active")
  BY DEF Scrub, TasksInv, Types, Gone
<1>3. /\ Quieter /\ source' = source
      /\ UNCHANGED <<known, billed, allowed, asked, heard, filed>>
  BY UntouchedIsQuieter DEF Scrub
<1>4. \A d \in Clients : ask'[d] = "scrub" => source' # "active"
  BY <1>1, <1>3 DEF TasksInv, Gone
<1>5. CASE task.status # "deleted"
  <2>1. Fenced(Deleted(task), {c}) /\ observed' = FALSE
    BY <1>5 DEF Scrub
  <2> HIDE DEF Fenced, Deleted, Quieter
  <2> QED BY <1>1, <1>2, <1>3, <1>4, <2>1, DeletedKeeps DEF TasksInv, Types
<1>6. CASE task.status = "deleted"
  <2>1. UNCHANGED <<rowVars, observed>>
    BY <1>6 DEF Scrub
  <2>2. Types'
    BY <1>1, <1>2, <1>3, <2>1 DEF rowVars, TasksInv, Types, Quieter
  <2>3. Row' /\ Gone' /\ Prepared'
    BY <1>1, <1>2, <1>3, <1>4, <1>6, <2>1, TasksAssumption
       DEF rowVars, TasksInv, Row, Gone, Frozen, Prepared
  <2> QED BY <1>3, <1>6, <2>1, <2>2, <2>3, QuieterKeeps DEF rowVars
<1> QED BY <1>5, <1>6

LEMMA WithdrawKeeps ==
  ASSUME TasksInv, Withdraw
  PROVE  TasksInv'
<1>1. PICK how \in {"gone", "erased"} : SourceGone(how)
  BY DEF Withdraw
<1> QED BY <1>1, SourceGoneKeeps DEF Withdraw, TasksInv, Types

LEMMA ExpireKeeps ==
  ASSUME TasksInv, Expire
  PROVE  TasksInv'
<1>1. /\ Quieter /\ Fenced(Deleted(task), {}) /\ observed' = FALSE /\ source' = source
      /\ UNCHANGED <<known, billed, allowed, asked, heard, filed, done, ask>>
  BY UntouchedIsQuieter DEF Expire, ghostVars
<1>2. /\ done \in BOOLEAN /\ (done => source # "active")
      /\ ask \in [Clients -> {"none", "cancel", "capture", "scrub", "copy"}]
      /\ \A d \in Clients : ask[d] = "scrub" => source # "active"
  BY DEF Expire, TasksInv, Types, Gone
<1> HIDE DEF Fenced, Deleted, Quieter
<1> QED BY <1>1, <1>2, DeletedKeeps

\* A deletion that begins, or is asked for again.
LEMMA DoomedKeeps ==
  ASSUME TasksInv, Quieter, NEW c \in Clients, NEW phase \in {"capture", "scrub", "copy"},
         ask' = [ask EXCEPT ![c] = phase],
         phase = "scrub" => source # "active",
         \/ UNCHANGED rowVars /\ Frozen
         \/ DoomedBy(c) /\ task.status # "deleted",
         UNCHANGED <<source, observed, known, billed, allowed, asked, heard, filed, done>>
  PROVE  TasksInv'
<1>1. /\ ask' \in [Clients -> {"none", "cancel", "capture", "scrub", "copy"}]
      /\ ask'[c] = phase
      /\ \A d \in Clients : d # c => ask'[d] = ask[d]
  BY DEF TasksInv, Types
<1>2. CASE UNCHANGED rowVars /\ Frozen
  <2>1. Types'
    BY <1>1, <1>2 DEF rowVars, TasksInv, Types, Quieter
  <2>2. Row' /\ Gone' /\ Prepared'
    BY <1>1, <1>2, TasksAssumption
       DEF rowVars, Quieter, TasksInv, Row, Gone, Frozen, Prepared
  <2> QED BY <1>2, <2>1, <2>2, QuieterKeeps DEF rowVars
<1>3. CASE DoomedBy(c) /\ task.status # "deleted"
  <2>1. /\ task' \in Task /\ task'.status = "cancelled" /\ task'.marked = task.marked
        /\ task'.research = task.research /\ task'.merged = task.merged
        /\ task'.draft = task.draft /\ task'.only = task.only /\ task'.parts = task.parts
        /\ task'.capture = task.capture /\ task'.doomed = TRUE
        /\ holder' = "none" /\ lease' = FALSE /\ view' = {}
    BY <1>3 DEF DoomedBy, Fenced, TasksInv, Types, Task, Statuses
  <2>2. Types'
    BY <1>1, <2>1 DEF TasksInv, Types, Quieter
  <2>3. Row' /\ Gone' /\ Prepared'
    BY <1>1, <1>3, <2>1, TasksAssumption DEF TasksInv, Row, Gone, Frozen, Prepared
  <2> QED BY <1>3, <2>1, <2>2, <2>3, QuieterKeeps
<1> QED BY <1>2, <1>3

LEMMA DeleteKeeps ==
  ASSUME TasksInv, NEW c \in Clients, NEW s \in Servers, Delete(c, s)
  PROVE  TasksInv'
<1> DEFINE phase == IF task.capture THEN "capture" ELSE "scrub"
<1>1. AskDelete(c, s, phase)
  BY DEF Delete
<1>2. phase \in {"capture", "scrub", "copy"} /\ (phase = "scrub" => source # "active")
  BY DEF TasksInv, Gone
<1> HIDE DEF phase
<1>3. Quieter
  BY <1>1, AbortedIsQuieter DEF AskDelete
<1>4. \/ UNCHANGED rowVars /\ Frozen
      \/ DoomedBy(c) /\ task.status # "deleted"
  BY <1>1 DEF AskDelete, Frozen
<1>5. /\ ask' = [ask EXCEPT ![c] = phase]
      /\ UNCHANGED <<source, observed, known, billed, allowed, asked, heard, filed, done>>
  BY <1>1 DEF AskDelete
<1> QED BY <1>2, <1>3, <1>4, <1>5, DoomedKeeps

LEMMA DeleteCopyKeeps ==
  ASSUME TasksInv, NEW c \in Clients, NEW s \in Servers, DeleteCopy(c, s)
  PROVE  TasksInv'
<1>1. Quieter
  BY AbortedIsQuieter DEF DeleteCopy
<1>2. \/ UNCHANGED rowVars /\ Frozen
      \/ DoomedBy(c) /\ task.status # "deleted"
  BY DEF DeleteCopy, Frozen
<1>3. /\ ask' = [ask EXCEPT ![c] = "copy"]
      /\ UNCHANGED <<source, observed, known, billed, allowed, asked, heard, filed, done>>
  BY DEF DeleteCopy, ghostVars
<1> QED BY <1>1, <1>2, <1>3, DoomedKeeps

\* The directory changed: the row is stopped, sent back to search, or left alone.
LEMMA DirectoryKeeps ==
  ASSUME TasksInv, Quieter, known' \in {"active", "archived"},
         \/ SearchAgain
         \/ task.status = "running" /\ Fenced([task EXCEPT !.status = "cancelled"], {}),
         UNCHANGED <<ask, source, observed, ghostVars>>
  PROVE  TasksInv'
<1> USE DEF ghostVars
<1>1. CASE UNCHANGED rowVars
  BY <1>1, RowAloneKeeps DEF rowVars, TasksInv, Types
<1>2. CASE task.status = "running" /\ Fenced([task EXCEPT !.status = "cancelled"], {})
  <2>1. /\ task' \in Task /\ task'.status = "cancelled" /\ task'.marked = task.marked
        /\ task'.research = task.research /\ task'.merged = task.merged
        /\ task'.draft = task.draft /\ task'.only = task.only /\ task'.parts = task.parts
        /\ task'.capture = task.capture /\ task'.doomed = task.doomed
        /\ holder' = "none" /\ lease' = FALSE /\ view' = {}
    BY <1>2 DEF Fenced, TasksInv, Types, Task, Statuses
  <2>2. Types'
    BY <2>1 DEF TasksInv, Types, Quieter
  <2>3. Row' /\ Gone' /\ Prepared'
    BY <1>2, <2>1, TasksAssumption DEF TasksInv, Row, Gone, Frozen, Prepared
  <2>4. task.status # "deleted"
    BY <1>2
  <2> QED BY <2>1, <2>2, <2>3, <2>4, QuieterKeeps
<1>3. CASE SearchAgain /\ ~UNCHANGED rowVars
  <2>1. /\ task' = [task EXCEPT !.status = "waiting", !.named = "none", !.draft = FALSE,
                                !.research = FALSE]
        /\ holder' = "none" /\ lease' = FALSE /\ view' = {}
        /\ ~task.capture /\ task.status # "deleted"
    BY <1>3 DEF SearchAgain, Fenced
  <2>2. /\ task' \in Task /\ task'.status = "waiting" /\ task'.marked = task.marked
        /\ task'.research = FALSE /\ task'.merged = task.merged
        /\ task'.draft = FALSE /\ task'.only = task.only /\ task'.parts = task.parts
        /\ task'.capture = task.capture /\ task'.doomed = task.doomed
    BY <2>1 DEF TasksInv, Types, Task, Statuses
  <2>3. task.research = FALSE
    BY <2>1 DEF TasksInv, Types, Task, Row
  <2>4. Types'
    BY <2>1, <2>2 DEF TasksInv, Types, Quieter
  <2>5. Row' /\ Gone' /\ Prepared'
    BY <2>1, <2>2, TasksAssumption DEF TasksInv, Row, Gone, Frozen, Prepared
  <2> QED BY <2>1, <2>2, <2>3, <2>4, <2>5, QuieterKeeps
<1> QED BY <1>1, <1>2, <1>3

LEMMA ArchiveKeeps ==
  ASSUME TasksInv, NEW s \in Servers, Archive(s)
  PROVE  TasksInv'
<1>1. Quieter
  BY AbortedIsQuieter, UntouchedIsQuieter DEF Archive
<1> QED BY <1>1, DirectoryKeeps DEF Archive

LEMMA RestoreKeeps ==
  ASSUME TasksInv, Restore
  PROVE  TasksInv'
BY UntouchedIsQuieter, DirectoryKeeps DEF Restore

-------------------------------------------------------------------------------
(* The theorems *)

LEMMA InitTasksInv == TasksInit => TasksInv
<1> SUFFICES ASSUME TasksInit PROVE TasksInv
  OBVIOUS
<1>1. Types
  <2>1. PICK only \in BOOLEAN :
          task = [status |-> "running", only |-> only, marked |-> "none", parts |-> {},
                  merged |-> FALSE, named |-> "none", draft |-> FALSE,
                  research |-> FALSE, capture |-> FALSE, doomed |-> FALSE]
    BY DEF TasksInit
  <2>2. {} \in SUBSET Images
    OBVIOUS
  <2>3. task \in Task
    BY <2>1, <2>2 DEF Task, Statuses
  <2>4. Idle \in Run /\ Starting \in Run
    BY DEF Idle, Starting, Run
  <2>5. run \in [Servers -> Run]
    BY <2>4 DEF TasksInit
  <2> QED BY <2>3, <2>5 DEF TasksInit, Types
<1>2. /\ task.status = "running" /\ ~task.draft /\ ~task.research /\ ~task.capture
      /\ ~task.doomed
  BY DEF TasksInit
<1>3. \A s \in Servers : run[s].pc \in {"idle", "starting"}
  BY DEF TasksInit, Idle, Starting
<1>4. Row /\ Gone /\ Prepared
  BY <1>2, TasksAssumption DEF TasksInit, Row, Gone, Prepared, Frozen
<1>5. InHand
  BY <1>3 DEF InHand, Imaging
<1>6. Paid
  <2> SUFFICES ASSUME NEW i \in Images
      PROVE  /\ IsFiniteSet(Senders(i))
             /\ billed[i] + Cardinality(Senders(i)) + (IF Due(i) THEN 1 ELSE 0)
                  <= allowed[i] + (IF Covered(i) THEN 1 ELSE 0)
    BY DEF Paid
  <2>1. Senders(i) = {} /\ ~Due(i) /\ billed[i] = 0 /\ allowed[i] = 0
    BY <1>3 DEF Senders, Due, TasksInit
  <2> QED BY <2>1, FS_EmptySet
<1>7. Searched
  <2>1. Searchers = {} /\ asked = 0 /\ heard = 0
    BY <1>3 DEF Searchers, TasksInit
  <2> HIDE DEF Searchers
  <2> QED BY <1>2, <2>1, FS_EmptySet DEF Searched
<1> QED BY <1>1, <1>4, <1>5, <1>6, <1>7 DEF TasksInv

LEMMA StepTasksInv == TasksInv /\ [TasksNext]_vars => TasksInv'
<1> SUFFICES ASSUME TasksInv, [TasksNext]_vars PROVE TasksInv'
  OBVIOUS
<1>1. CASE UNCHANGED vars
  BY <1>1, UntouchedIsQuieter, RowAloneKeeps DEF vars, rowVars, ghostVars, TasksInv, Types
<1>2. ASSUME NEW s \in Servers, RunStep(s)
      PROVE  TasksInv'
  BY <1>2, ClaimKeeps, LookKeeps, MarkKeeps, AuthorizeKeeps, SendKeeps, RecordPartKeeps,
     MergeKeeps, SkipKeeps, BeginKeeps, SearchKeeps, FileKeeps, UpdateContactKeeps,
     NoteResearchKeeps, SendResearchKeeps, HearResearchKeeps, FinishToolKeeps,
     FinalKeeps, FailKeeps, LeaveKeeps
     DEF RunStep
<1>3. ASSUME NEW s \in Servers, GiveUp(s) \/ Crash(s) \/ Archive(s)
      PROVE  TasksInv'
  BY <1>3, LeaveKeeps, ArchiveKeeps
<1>4. ASSUME NEW c \in Clients, OwnerStep(c)
      PROVE  TasksInv'
  BY <1>4, PollKeeps, UnwatchKeeps, ResumeKeeps, ConfirmKeeps, CancelKeeps, DeleteCaptureKeeps,
     ScrubKeeps, LoseRequestKeeps, LinkKeeps, AskCancelKeeps, DeleteKeeps, DeleteCopyKeeps
     DEF OwnerStep
<1>5. CASE Lapse \/ Withdraw \/ Expire \/ Restore
  BY <1>5, LapseKeeps, WithdrawKeeps, ExpireKeeps, RestoreKeeps
<1> QED BY <1>1, <1>2, <1>3, <1>4, <1>5 DEF TasksNext

LEMMA TasksInvHolds == TasksSafety => []TasksInv
BY InitTasksInv, StepTasksInv, PTL DEF TasksSafety

Watched == watching \subseteq Clients

\* Only pages of clients watch the task.
LEMMA WatchedHolds == TasksSafety => []Watched
<1>1. TasksInit => Watched
  BY DEF TasksInit, Watched
<1>2. Watched /\ [TasksNext]_vars => Watched'
  <2> SUFFICES ASSUME Watched, [TasksNext]_vars PROVE Watched'
    OBVIOUS
  <2>1. CASE UNCHANGED watching
    BY <2>1 DEF Watched
  <2>2. ASSUME NEW s \in Servers, RunStep(s) \/ GiveUp(s) \/ Crash(s) \/ Archive(s)
        PROVE  UNCHANGED watching
    BY <2>2 DEF RunStep, RunRest, Claim, Look, Mark, Authorize, Send, RecordPart, Merge, Skip,
       Begin, Search, File, UpdateContact, NoteResearch, SendResearch, HearResearch,
       FinishTool, Final, Fail, Leave, GiveUp, Crash, Archive
  <2>3. ASSUME NEW c \in Clients, OwnerStep(c)
        PROVE  Watched'
    BY <2>3 DEF Watched, OwnerStep, Poll, Answered, Unwatch, Resume, ResumeEffects, Confirm,
       AskCancel, Cancel, Delete, AskDelete, DeleteCopy, DeleteCapture, Scrub,
       LoseRequest, Link
  <2>4. CASE Lapse \/ Withdraw \/ Expire \/ Restore
    BY <2>1, <2>4 DEF Lapse, Withdraw, Expire, Restore
  <2> QED BY <2>1, <2>2, <2>3, <2>4 DEF TasksNext, vars
<1> QED BY <1>1, <1>2, PTL DEF TasksSafety

\* The row keeps its shape, only a running task has a lease, a draft has filed
\* nothing, and a task that names a capture has filed it.
THEOREM TasksTypeCorrect == TasksSafety => []TasksTypeOK
<1>1. TasksInv /\ Watched => TasksTypeOK
  <2> SUFFICES ASSUME TasksInv, Watched PROVE TasksTypeOK
    OBVIOUS
  <2>1. /\ task.status \in Statuses /\ task.marked \in Images \cup {"none"}
        /\ task.parts \subseteq Images /\ task.named \in {"none", "found", "adopted"}
        /\ task.only \in BOOLEAN /\ task.merged \in BOOLEAN /\ task.draft \in BOOLEAN
        /\ task.research \in BOOLEAN /\ task.capture \in BOOLEAN /\ task.doomed \in BOOLEAN
    BY DEF TasksInv, Types, Task
  <2>2. \A s \in Servers :
          /\ run[s].pc \in Working \cup {"idle", "starting", "failing"}
          /\ run[s].image \in Images \cup {"none"}
          /\ run[s].stop \in {"none", "cancelled", "stopped"}
    BY DEF TasksInv, Types, Run
  <2>3. /\ lease => task.status = "running"
        /\ task.draft => ~task.capture
        /\ task.capture => source # "none"
    BY DEF TasksInv, Row
  <2> QED BY <2>1, <2>2, <2>3 DEF TasksInv, Types, Watched, TasksTypeOK, Statuses
<1> QED BY <1>1, TasksInvHolds, WatchedHolds, PTL

\* No paid call is silently repeated, whichever runs crash, lose their lease or are
\* resumed: screenshotContactTasks.ts marks an image before it sends it, and a run
\* that is about to send it is counted even when its epoch is gone.
THEOREM CallsAreAccounted == TasksSafety => []NoSilentRepeat
<1>1. TasksInv => NoSilentRepeat
  <2> SUFFICES ASSUME TasksInv PROVE NoSilentRepeat
    OBVIOUS
  <2>1. ASSUME NEW i \in Images
        PROVE  billed[i] <= 1 + allowed[i]
    <3>1. /\ IsFiniteSet(Senders(i))
          /\ billed[i] + Cardinality(Senders(i)) + (IF Due(i) THEN 1 ELSE 0)
               <= allowed[i] + (IF Covered(i) THEN 1 ELSE 0)
      BY DEF TasksInv, Paid
    <3>2. billed[i] \in Nat /\ allowed[i] \in Nat /\ Cardinality(Senders(i)) \in Nat
      BY <3>1, FS_CardinalityType DEF TasksInv, Types
    <3> HIDE DEF Senders, Due, Covered
    <3> QED BY <3>1, <3>2
  <2>2. ASSUME task.status # "deleted"
        PROVE  asked <= heard + (IF task.research THEN 1 ELSE 0)
    <3>1. /\ IsFiniteSet(Searchers)
          /\ asked + Cardinality(Searchers) <= heard + (IF task.research THEN 1 ELSE 0)
      BY <2>2 DEF TasksInv, Searched
    <3>2. asked \in Nat /\ heard \in Nat /\ Cardinality(Searchers) \in Nat
      BY <3>1, FS_CardinalityType DEF TasksInv, Types
    <3> HIDE DEF Searchers
    <3> QED BY <3>1, <3>2
  <2> QED BY <2>1, <2>2 DEF NoSilentRepeat
<1> QED BY <1>1, TasksInvHolds, PTL

\* A task files at most one capture, whether its run files it or its owner confirms
\* the profile it prepared; one that is linked to a capture files none.
THEOREM OneCapture == TasksSafety => []FiledOnce
<1>1. TasksInv => FiledOnce
  BY DEF TasksInv, Types, Row, FiledOnce
<1> QED BY <1>1, TasksInvHolds, PTL

\* What a finished deletion answered stays true: no later step of a run that was
\* under way, of another request or of a trigger brings any of the capture back.
THEOREM DeletionIsFinal == TasksSafety => []DeletionLeavesNothing
<1>1. TasksInv => DeletionLeavesNothing
  BY DEF TasksInv, Gone, DeletionLeavesNothing
<1> QED BY <1>1, TasksInvHolds, PTL

===============================================================================
