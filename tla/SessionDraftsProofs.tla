------------------------- MODULE SessionDraftsProofs -------------------------
(***************************************************************************)
(* The draft of a Session, for any number of devices and any budget of     *)
(* events: what a user typed survives, the status line says what is so,    *)
(* and a message that was sent cleans up no draft that only another device *)
(* knows.                                                                  *)
(*                                                                         *)
(* The argument: a stamp stands for one draft of one device, so an answer  *)
(* settles what it was asked for (Marks); the slot of an open page is the  *)
(* send under way or the pending draft (Slot); whatever a page has seen of *)
(* the Session is a former row of the server, or the present one (Past);   *)
(* and a send begins only after its own save ended well (Phase).           *)
(***************************************************************************)
EXTENDS SessionDrafts, FiniteSetTheorems, SequenceTheorems, TLAPS

Details == [rev : Nat, text : Nat, at : Nat, live : BOOLEAN, asks : BOOLEAN]
Reads == [what : {"refresh", "reload", "send"}, det : Details]
Statuses == {"idle", "pending", "saving", "saved", "error", "conflict"}
Phases == {"no", "saving", "ask", "asked", "reading", "clearing"}

Tabs == [pc : {"open", "closed"}, slot : Pendings \cup {None}, det : Details, draft : Nat,
         saved : Nat, status : Statuses, conflict : BOOLEAN, attempt : Requests \cup {None},
         pend : Pendings \cup {None}, send : Pendings \cup {None}, phase : Phases,
         call : Requests \cup {None}, current : BOOLEAN, more : {"no", "yes", "force"},
         reads : SUBSET Reads]

Entries == [by : Devices, req : Requests, stage : {"sent", "read", "done", "refused"},
            det : Details \cup {None}, heard : BOOLEAN]

Types ==
  /\ server \in Details /\ applied \subseteq Nat /\ wire \subseteq Entries
  /\ tab \in [Devices -> Tabs] /\ typed \in Seq(Devices)
  /\ kept \subseteq Nat \X Devices /\ newest \in [Devices -> Nat] /\ asked \subseteq Nat

\* A detail that the server has handed out.
Past(x) ==
  /\ x.rev <= server.rev
  /\ server.live => x.live
  /\ server.live /\ x.rev = server.rev => x.text = server.text
  /\ Stored(x.text)

Status(t) ==
  /\ Stored(t.saved)
  /\ t.status = "conflict" => t.conflict
  /\ t.status = "saved" => t.draft = t.saved
  /\ t.status = "pending" => t.draft # t.saved
  /\ t.status = "saving" => t.call # None \/ ~t.current

\* A draft this device has itself saved.
Own(n, d) == <<n, d>> \in kept

\* The slot of an open page, and what a send knows of the draft it found stored.
Slot(t, d) ==
  /\ t.send # None => /\ t.slot = t.send /\ t.send.kind = "send" /\ t.call = None
                      /\ t.pc = "open"
  /\ t.pc = "open" /\ t.send = None => t.slot \in {None, t.pend}
  /\ t.pc = "closed" => t.call = None
  /\ t.pend # None => t.pend.kind = "draft" /\ (server.live => t.pend.text = t.draft)
  /\ t.slot # None /\ t.slot.kind = "send" /\ t.slot.ident # None /\ server.live =>
       t.slot.ident.text = t.slot.text \/ Own(t.slot.ident.text, d)

\* The copies a page is about to use; one of a send waits for its completion.
Copies(t) ==
  /\ \A r \in t.reads : Past(r.det) /\ (r.what = "send" => t.phase = "reading")
  /\ \A r, q \in t.reads : r.what = "send" /\ q.what = "send" => r = q

\* How far a send is.
Phase(t, d) ==
  /\ t.phase \in {"ask", "asked", "reading"} => t.send # None
  /\ t.phase \in {"asked", "reading"} => t.send.text \in asked
  /\ t.phase \in {"saving", "clearing"} => t.send = None
  /\ t.phase = "clearing" => t.call # None
  /\ t.phase = "saving" /\ server.live /\ ~t.conflict =>
       \/ t.call # None /\ (t.current \/ t.more = "force")
       \/ t.draft = t.saved \/ t.status = "error" \/ Own(t.saved, d)

\* A save that cleans up can only replace the draft that was sent.
Clean(q, d) ==
  /\ q.exp <= server.rev
  /\ q.cleanup /\ server.live /\ q.exp = server.rev =>
       server.text \in asked \/ Own(server.text, d)

Tab(t, d) ==
  /\ Past(t.det) /\ (t.attempt # None => Clean(t.attempt, d))
  /\ Status(t) /\ Slot(t, d) /\ Copies(t) /\ Phase(t, d)

\* Draft n of the device is safe.
Survives(t, n) ==
  n # 0 /\ server.live =>
    Stored(n) \/ n \in asked \/ (t.slot # None /\ t.slot.text = n)

\* What the requests w of device d are, and which of them its page awaits.
Wire(w, t, d) ==
  /\ \A e \in w : e.by = d =>
       /\ Clean(e.req, d)
       /\ e.stage = "done" =>
            e.det \in Details /\ Past(e.det) /\ (e.det.live => Own(e.req.text, d))
       /\ e.heard => t.call = e.req
  /\ \A e, f \in w : e.by = d /\ f.by = d /\ e.heard /\ f.heard => e = f
  /\ t.call # None => \E e \in w : e.by = d /\ e.heard /\ e.req = t.call

\* Stamp a of device d stands for draft x, or for a send.
Marked(w, t, d, a, x) ==
  \/ \E e \in w : e.by = d /\ e.req.at = a /\ e.req.text = x
  \/ t.attempt # None /\ t.attempt.at = a /\ t.attempt.text = x
  \/ t.pend # None /\ t.pend.at = a /\ t.pend.text = x
  \/ t.slot # None /\ t.slot.kind = "draft" /\ t.slot.at = a /\ t.slot.text = x

Keyed(t, a) == t.slot # None /\ t.slot.kind = "send" /\ t.slot.at = a

Marks(w, t, d) ==
  /\ \A a, x \in Nat : Marked(w, t, d, a, x) =>
       /\ a \in 1 .. Len(typed) /\ typed[a] = d /\ ~Keyed(t, a)
       /\ a \in applied => Own(x, d)
  /\ \A a, x, y \in Nat : Marked(w, t, d, a, x) /\ Marked(w, t, d, a, y) => x = y
  /\ \A a \in Nat : Keyed(t, a) => a \in 1 .. Len(typed) /\ typed[a] = d

Row ==
  /\ applied \subseteq 1 .. Len(typed)
  /\ server.at # 0 => server.at \in 1 .. Len(typed) /\ Own(server.text, typed[server.at])
  /\ Stored(server.text)

Page(d) ==
  /\ Tab(tab[d], d) /\ Survives(tab[d], newest[d])
  /\ Wire(wire, tab[d], d) /\ Marks(wire, tab[d], d)

DraftsInv == Types /\ Row /\ \A d \in Devices : Page(d)

-------------------------------------------------------------------------------
(* A step of one page *)

\* Marks and keys of device d that are there now were there, but for a new stamp.
Draws(d) ==
  \/ /\ typed' = typed
     /\ \A a, x \in Nat : Marked(wire', tab'[d], d, a, x) => Marked(wire, tab[d], d, a, x)
     /\ \A a \in Nat : Keyed(tab'[d], a) => Keyed(tab[d], a)
  \/ /\ typed' = Append(typed, d)
     /\ \A a \in Nat : Keyed(tab'[d], a) => Keyed(tab[d], a)
     /\ \E y \in Nat : \A a, x \in Nat : Marked(wire', tab'[d], d, a, x) =>
          Marked(wire, tab[d], d, a, x) \/ (a = Len(typed) + 1 /\ x = y)
  \/ /\ typed' = Append(typed, d)
     /\ \A a \in Nat : Keyed(tab'[d], a) => Keyed(tab[d], a) \/ a = Len(typed) + 1
     /\ \A a, x \in Nat : Marked(wire', tab'[d], d, a, x) => Marked(wire, tab[d], d, a, x)

\* A step of device d that leaves the server and the other devices alone.
Local(d) ==
  /\ server' = server /\ applied' = applied /\ kept' = kept /\ asked' = asked
  /\ tab' \in [Devices -> Tabs] /\ wire' \subseteq Entries /\ newest' \in [Devices -> Nat]
  /\ \A x \in Devices \ {d} : tab'[x] = tab[x] /\ newest'[x] = newest[x]
  /\ \A e \in wire' : e.by # d => e \in wire
  /\ \A e \in wire : e.by # d => e \in wire'

LEMMA Appended ==
  ASSUME NEW s \in Seq(Devices), NEW d \in Devices
  PROVE  /\ Append(s, d) \in Seq(Devices) /\ Len(Append(s, d)) = Len(s) + 1
         /\ \A a \in 1 .. Len(s) : Append(s, d)[a] = s[a]
         /\ Append(s, d)[Len(s) + 1] = d
         /\ Len(s) \in Nat
OBVIOUS

LEMMA DrawnTyped ==
  ASSUME Types, NEW d \in Devices, Draws(d)
  PROVE  /\ typed' \in Seq(Devices) /\ Len(typed) \in Nat /\ Len(typed') \in Nat
         /\ Len(typed) <= Len(typed')
         /\ \A a \in 1 .. Len(typed) : typed'[a] = typed[a]
<1>1. typed \in Seq(Devices) /\ Len(typed) \in Nat
  BY DEF Types
<1>2. typed' = typed \/ typed' = Append(typed, d)
  BY DEF Draws
<1>3. CASE typed' = typed
  BY <1>1, <1>3
<1>4. CASE typed' = Append(typed, d)
  <2>1. /\ Append(typed, d) \in Seq(Devices) /\ Len(Append(typed, d)) = Len(typed) + 1
        /\ \A a \in 1 .. Len(typed) : Append(typed, d)[a] = typed[a]
    BY <1>1, Appended
  <2> QED BY <1>1, <1>4, <2>1
<1> QED BY <1>2, <1>3, <1>4

\* The other devices notice nothing.
LEMMA OtherPages ==
  ASSUME DraftsInv, NEW d \in Devices, Local(d), Draws(d), NEW x \in Devices, x # d
  PROVE  Page(x)'
<1>1. tab'[x] = tab[x] /\ newest'[x] = newest[x]
  BY DEF Local
<1>2. server' = server /\ applied' = applied /\ kept' = kept /\ asked' = asked
  BY DEF Local
<1>3. Tab(tab[x], x)' /\ Survives(tab[x], newest[x])'
  <2>1. Tab(tab[x], x) /\ Survives(tab[x], newest[x])
    BY DEF DraftsInv, Page
  <2>2. Past(tab[x].det)' /\ (tab[x].attempt # None => Clean(tab[x].attempt, x))'
    BY <1>1, <1>2, <2>1 DEF Tab, Past, Clean, Own, Stored
  <2>3. Status(tab[x])'
    BY <1>1, <1>2, <2>1 DEF Tab, Status, Stored
  <2>4. Slot(tab[x], x)'
    BY <1>1, <1>2, <2>1 DEF Tab, Slot, Own
  <2>5. Copies(tab[x])'
    BY <1>1, <1>2, <2>1 DEF Tab, Copies, Past, Stored
  <2>6. Phase(tab[x], x)'
    BY <1>1, <1>2, <2>1 DEF Tab, Phase, Own
  <2>7. Survives(tab[x], newest[x])'
    BY <1>1, <1>2, <2>1 DEF Survives, Stored
  <2> QED BY <2>2, <2>3, <2>4, <2>5, <2>6, <2>7 DEF Tab
<1>4. \A e : e.by = x => (e \in wire' <=> e \in wire)
  BY DEF Local
<1>5. Wire(wire, tab[x], x)'
  BY <1>1, <1>2, <1>4 DEF DraftsInv, Page, Wire, Past, Clean, Own, Stored
<1>6. \A a, y \in Nat : Marked(wire, tab[x], x, a, y)' <=> Marked(wire, tab[x], x, a, y)
  BY <1>1, <1>4 DEF Marked
<1>7. Marks(wire, tab[x], x)'
  <2>1. \A a \in Nat : Keyed(tab[x], a)' <=> Keyed(tab[x], a)
    BY <1>1 DEF Keyed
  <2>2. /\ \A a \in 1 .. Len(typed) : a \in 1 .. Len(typed') /\ typed'[a] = typed[a]
    BY DrawnTyped DEF DraftsInv
  <2>3. Marks(wire, tab[x], x)
    BY DEF DraftsInv, Page
  <2> QED BY <1>2, <1>6, <2>1, <2>2, <2>3 DEF Marks, Own
<1> QED BY <1>3, <1>5, <1>7 DEF Page

\* The stamps of the device that makes the step.
LEMMA DrawnMarks ==
  ASSUME DraftsInv, NEW d \in Devices, Local(d), Draws(d)
  PROVE  Marks(wire, tab[d], d)'
<1> DEFINE M(a, x) == Marked(wire, tab[d], d, a, x)
           N(a, x) == Marked(wire', tab'[d], d, a, x)
<1>1. /\ typed \in Seq(Devices) /\ Len(typed) \in Nat /\ applied \subseteq 1 .. Len(typed)
      /\ applied' = applied /\ kept' = kept
  BY DEF DraftsInv, Types, Row, Local
<1>2. /\ \A a, x \in Nat : M(a, x) =>
           /\ a \in 1 .. Len(typed) /\ typed[a] = d /\ ~Keyed(tab[d], a)
           /\ a \in applied => Own(x, d)
      /\ \A a, x, y \in Nat : M(a, x) /\ M(a, y) => x = y
      /\ \A a \in Nat : Keyed(tab[d], a) => a \in 1 .. Len(typed) /\ typed[a] = d
  BY DEF DraftsInv, Page, Marks
<1>3. \A a \in 1 .. Len(typed) : a \in 1 .. Len(typed') /\ typed'[a] = typed[a]
  BY DrawnTyped DEF DraftsInv
<1>4. typed' = Append(typed, d) =>
        Len(typed) + 1 \in 1 .. Len(typed') /\ typed'[Len(typed) + 1] = d
  BY <1>1, Appended
<1>5. \A x : Own(x, d)' <=> Own(x, d)
  BY <1>1 DEF Own
<1> HIDE DEF M, N
<1>6. /\ \A a, x \in Nat : N(a, x) =>
           /\ a \in 1 .. Len(typed') /\ typed'[a] = d /\ ~Keyed(tab'[d], a)
           /\ a \in applied => Own(x, d)
      /\ \A a, x, y \in Nat : N(a, x) /\ N(a, y) => x = y
      /\ \A a \in Nat : Keyed(tab'[d], a) => a \in 1 .. Len(typed') /\ typed'[a] = d
  <2>1. CASE /\ typed' = typed
             /\ \A a, x \in Nat : N(a, x) => M(a, x)
             /\ \A a \in Nat : Keyed(tab'[d], a) => Keyed(tab[d], a)
    BY <1>2, <2>1
  <2>2. ASSUME typed' = Append(typed, d),
               \A a \in Nat : Keyed(tab'[d], a) => Keyed(tab[d], a),
               NEW y \in Nat,
               \A a, x \in Nat : N(a, x) => M(a, x) \/ (a = Len(typed) + 1 /\ x = y)
        PROVE  <1>6!:
    BY <1>1, <1>2, <1>3, <1>4, <2>2
  <2>3. CASE /\ typed' = Append(typed, d)
             /\ \A a \in Nat : Keyed(tab'[d], a) => Keyed(tab[d], a) \/ a = Len(typed) + 1
             /\ \A a, x \in Nat : N(a, x) => M(a, x)
    BY <1>1, <1>2, <1>3, <1>4, <2>3
  <2> QED BY <2>1, <2>2, <2>3 DEF Draws, M, N
<1> QED BY <1>1, <1>5, <1>6 DEF Marks, Marked, N, Keyed, Own

LEMMA PageKeeps ==
  ASSUME DraftsInv, NEW d \in Devices, Local(d), Draws(d),
         Tab(tab'[d], d), Survives(tab'[d], newest'[d]), Wire(wire', tab'[d], d)
  PROVE  DraftsInv'
<1>1. server' = server /\ applied' = applied /\ kept' = kept /\ asked' = asked
  BY DEF Local
<1>2. Types'
  BY <1>1, DrawnTyped DEF DraftsInv, Types, Local
<1>3. Row'
  <2>1. Len(typed) <= Len(typed') /\ Len(typed) \in Nat /\ Len(typed') \in Nat
        /\ \A a \in 1 .. Len(typed) : typed'[a] = typed[a]
    BY DrawnTyped DEF DraftsInv
  <2>2. \A a \in 1 .. Len(typed) : a \in 1 .. Len(typed')
    BY <2>1
  <2> QED BY <1>1, <2>1, <2>2 DEF DraftsInv, Row, Own, Stored
<1>4. Page(d)'
  <2>1. Tab(tab[d], d)' /\ Survives(tab[d], newest[d])'
    BY <1>1 DEF Tab, Survives, Past, Status, Slot, Copies, Phase, Clean, Own, Stored
  <2>2. Wire(wire, tab[d], d)'
    BY <1>1 DEF Wire, Past, Clean, Own, Stored
  <2> QED BY <2>1, <2>2, DrawnMarks DEF Page
<1> QED BY <1>2, <1>3, <1>4, OtherPages DEF DraftsInv

\* The state of one page changes to u.
LEMMA NewTab ==
  ASSUME Types, NEW d \in Devices, NEW u \in Tabs, SetTab(d, u)
  PROVE  /\ tab' \in [Devices -> Tabs] /\ tab'[d] = u
         /\ \A x \in Devices \ {d} : tab'[x] = tab[x]
BY DEF Types, SetTab

-------------------------------------------------------------------------------
(* Saving *)

\* A state from which a save may be begun, or not.
Ready(t, d) ==
  /\ t.pc = "open" /\ t.call = None
  /\ Past(t.det) /\ (t.attempt # None => Clean(t.attempt, d))
  /\ Status(t) /\ Slot(t, d) /\ Copies(t)
  /\ t.phase \in {"ask", "asked", "reading"} => t.send # None
  /\ t.phase \in {"asked", "reading"} => t.send.text \in asked
  /\ t.phase \in {"saving", "clearing"} => t.send = None
  /\ t.phase = "clearing" =>
       /\ t.attempt = None /\ ~t.conflict /\ t.det.live /\ t.draft # t.saved
       /\ server.live => t.det.text \in asked \/ Own(t.det.text, d)

\* The requests of device d in w, none of which its page still awaits.
Remains(w, d) ==
  /\ w \subseteq Entries
  /\ \A e \in w : e.by = d =>
       /\ Clean(e.req, d) /\ ~e.heard
       /\ e.stage = "done" =>
            e.det \in Details /\ Past(e.det) /\ (e.det.live => Own(e.req.text, d))
  /\ \A e : e.by # d => (e \in w <=> e \in wire)

\* No mark of w and t is new.
Known(w, t, d) ==
  /\ \A a, x \in Nat : Marked(w, t, d, a, x) => Marked(wire, tab[d], d, a, x)
  /\ \A a \in Nat : Keyed(t, a) => Keyed(tab[d], a)

LEMMA Constants ==
  /\ None \notin Requests /\ None \notin Identities /\ None \notin Pendings
BY DraftsAssumption DEF DraftsAssumption

LEMMA RebasedIs ==
  ASSUME NEW p \in Pendings, NEW r \in Nat
  PROVE  /\ Rebased(p, r) \in Pendings /\ Rebased(p, r) # None
         /\ Rebased(p, r).kind = p.kind /\ Rebased(p, r).text = p.text
         /\ Rebased(p, r).at = p.at /\ Rebased(p, r).ident = p.ident
<1>1. Rebased(p, r) \in Pendings
  BY DEF Rebased, Pendings
<1> QED BY <1>1, Constants DEF Rebased, Pendings

LEMMA BegunIs ==
  ASSUME NEW t \in Tabs
  PROVE  /\ Begun(t).pend \in Pendings \cup {None} /\ Begun(t).slot \in Pendings \cup {None}
         /\ Begun(t) \in Tabs
         /\ \/ Begun(t) = t
            \/ /\ t.attempt = None /\ t.pend # None /\ Begun(t).pend # None
               /\ Begun(t).slot = Begun(t).pend
               /\ Begun(t).pend.kind = t.pend.kind /\ Begun(t).pend.text = t.pend.text
               /\ Begun(t).pend.at = t.pend.at
               /\ Begun(t) = [t EXCEPT !.pend = Begun(t).pend, !.slot = Begun(t).slot]
<1>1. CASE ~(t.attempt = None /\ Owned(t))
  BY <1>1 DEF Begun, Tabs
<1>2. CASE t.attempt = None /\ Owned(t)
  <2> DEFINE p == Rebased(t.pend, t.det.rev)
  <2>1. t.pend \in Pendings /\ t.pend # None /\ t.det.rev \in Nat
    BY <1>2 DEF Owned, Tabs, Details
  <2>2. p \in Pendings /\ p # None /\ p.kind = t.pend.kind /\ p.text = t.pend.text
        /\ p.at = t.pend.at
    BY <2>1, RebasedIs
  <2>3. Begun(t) = [t EXCEPT !.pend = p, !.slot = p]
    BY <1>2 DEF Begun
  <2> HIDE DEF p
  <2>4. Begun(t) \in Tabs /\ Begun(t).pend = p /\ Begun(t).slot = p
    BY <2>2, <2>3 DEF Tabs
  <2> QED BY <1>2, <2>1, <2>2, <2>3, <2>4
<1> QED BY <1>1, <1>2

LEMMA RequestIs ==
  ASSUME NEW t \in Tabs, typed \in Seq(Devices)
  PROVE  /\ Request(t) \in Requests
         /\ t.attempt # None => Request(t) = t.attempt
         /\ t.attempt = None =>
              /\ Request(t).text = t.draft /\ Request(t).exp = t.det.rev
              /\ Request(t).cleanup = (t.phase = "clearing")
              /\ Owned(t) => Request(t).at = t.pend.at
              /\ ~Owned(t) => Request(t).at = Len(typed) + 1
<1>1. t.attempt \in Requests \cup {None} /\ t.draft \in Nat /\ t.det.rev \in Nat /\ t.saved \in Nat
      /\ Len(typed) + 1 \in Nat /\ (t.phase = "clearing") \in BOOLEAN
  BY DEF Tabs, Details
<1>2. Owned(t) => t.pend.at \in Nat
  BY DEF Owned, Tabs, Pendings
<1>3. CASE t.attempt # None
  BY <1>1, <1>3 DEF Request
<1>4. CASE t.attempt = None
  BY <1>1, <1>2, <1>4 DEF Request, Requests
<1> QED BY <1>3, <1>4

\* A save of t: the page becomes u, its request req joins the requests w.
Starts(d, t, w, u, req) ==
  /\ MaySave(t) /\ (t.attempt # None \/ t.draft # t.saved)
  /\ req = Request(t)
  /\ u = [Begun(t) EXCEPT !.attempt = req, !.status = "saving", !.call = req, !.current = TRUE]
  /\ wire' = w \cup {[by |-> d, req |-> req, stage |-> "sent", det |-> None, heard |-> TRUE]}
  /\ typed' = IF NewStamp(t) THEN Append(typed, d) ELSE typed

\* What u keeps of t.
Started(t, u, req) ==
  /\ req \in Requests /\ req # None /\ u \in Tabs
  /\ u.pc = t.pc /\ u.det = t.det /\ u.draft = t.draft /\ u.saved = t.saved
  /\ u.conflict = t.conflict /\ u.send = t.send /\ u.phase = t.phase /\ u.reads = t.reads
  /\ u.attempt = req /\ u.status = "saving" /\ u.call = req /\ u.current = TRUE
  /\ \/ u.pend = t.pend /\ u.slot = t.slot
     \/ /\ t.attempt = None /\ t.pend # None /\ u.pend # None /\ u.slot = u.pend
        /\ u.pend.kind = t.pend.kind /\ u.pend.text = t.pend.text
        /\ u.pend.at = t.pend.at

LEMMA StartsIs ==
  ASSUME typed \in Seq(Devices), NEW d \in Devices, NEW t \in Tabs, NEW w, NEW u, NEW req,
         Starts(d, t, w, u, req)
  PROVE  Started(t, u, req)
<1> DEFINE b == Begun(t)
<1>1. req \in Requests /\ req # None
  BY RequestIs, Constants DEF Starts
<1>2. b \in Tabs
  BY BegunIs
<1>3. \/ b = t
      \/ /\ t.attempt = None /\ t.pend # None /\ b.pend # None /\ b.slot = b.pend
         /\ b.pend.kind = t.pend.kind /\ b.pend.text = t.pend.text
         /\ b.pend.at = t.pend.at
         /\ b = [t EXCEPT !.pend = b.pend, !.slot = b.slot]
  BY BegunIs
<1>4. u = [b EXCEPT !.attempt = req, !.status = "saving", !.call = req, !.current = TRUE]
  BY DEF Starts
<1> HIDE DEF b
<1>5. /\ u \in Tabs
      /\ u.pc = b.pc /\ u.det = b.det /\ u.draft = b.draft /\ u.saved = b.saved
      /\ u.conflict = b.conflict /\ u.send = b.send /\ u.phase = b.phase /\ u.reads = b.reads
      /\ u.attempt = req /\ u.status = "saving" /\ u.call = req /\ u.current = TRUE
      /\ u.pend = b.pend /\ u.slot = b.slot
  BY <1>1, <1>2, <1>4 DEF Tabs, Statuses
<1>6. CASE b = t
  BY <1>1, <1>5, <1>6 DEF Started
<1>7. CASE /\ t.attempt = None /\ t.pend # None /\ b.pend # None /\ b.slot = b.pend
           /\ b.pend.kind = t.pend.kind /\ b.pend.text = t.pend.text
           /\ b.pend.at = t.pend.at
           /\ b = [t EXCEPT !.pend = b.pend, !.slot = b.slot]
  <2>1. /\ b.pc = t.pc /\ b.det = t.det /\ b.draft = t.draft /\ b.saved = t.saved
        /\ b.conflict = t.conflict /\ b.send = t.send /\ b.phase = t.phase /\ b.reads = t.reads
    <3> DEFINE P == b.pend
               S == b.slot
    <3>1. b = [t EXCEPT !.pend = P, !.slot = S]
      BY <1>7
    <3> HIDE DEF P, S
    <3> QED BY <3>1 DEF Tabs
  <2> QED BY <1>1, <1>5, <1>7, <2>1 DEF Started
<1> QED BY <1>3, <1>6, <1>7

LEMMA SaveStarts ==
  ASSUME DraftsInv, NEW d \in Devices, NEW t \in Tabs, NEW w, NEW u, NEW req,
         Ready(t, d), Remains(w, d), Known(w, t, d), Survives(t, newest[d]),
         Starts(d, t, w, u, req), SetTab(d, u), UNCHANGED <<server, applied, kept, asked, newest>>
  PROVE  DraftsInv'
<1>1. typed \in Seq(Devices) /\ Len(typed) \in Nat /\ tab[d] \in Tabs
  BY DEF DraftsInv, Types
<1>2. /\ t.attempt # None => req = t.attempt
      /\ t.attempt = None =>
           /\ req.text = t.draft /\ req.exp = t.det.rev
           /\ req.cleanup = (t.phase = "clearing")
           /\ Owned(t) => req.at = t.pend.at
           /\ ~Owned(t) => req.at = Len(typed) + 1
  <2>1. req = Request(t)
    BY DEF Starts
  <2> QED BY <1>1, <2>1, RequestIs
<1>3. /\ t.send = None /\ ~t.conflict /\ t.det.live /\ (t.attempt # None \/ t.draft # t.saved)
  BY DEF MaySave, Starts
<1>4. typed' = IF NewStamp(t) THEN Append(typed, d) ELSE typed
  BY DEF Starts
<1>5. /\ req \in Requests /\ req # None /\ u \in Tabs
      /\ u.pc = t.pc /\ u.det = t.det /\ u.draft = t.draft /\ u.saved = t.saved
      /\ u.conflict = t.conflict /\ u.send = t.send /\ u.phase = t.phase /\ u.reads = t.reads
      /\ u.attempt = req /\ u.status = "saving" /\ u.call = req /\ u.current = TRUE
      /\ \/ u.pend = t.pend /\ u.slot = t.slot
         \/ /\ t.attempt = None /\ t.pend # None /\ u.pend # None /\ u.slot = u.pend
            /\ u.pend.kind = t.pend.kind /\ u.pend.text = t.pend.text
            /\ u.pend.at = t.pend.at
  <2>1. Started(t, u, req)
    BY <1>1, StartsIs
  <2> QED BY <2>1 DEF Started
<1>6. \E r \in Entries : /\ r.by = d /\ r.req = req /\ r.stage = "sent" /\ r.heard
                         /\ wire' = w \cup {r}
  <2> DEFINE r == [by |-> d, req |-> req, stage |-> "sent", det |-> None, heard |-> TRUE]
  <2>1. r \in Entries /\ r.by = d /\ r.req = req /\ r.stage = "sent" /\ r.heard
    BY <1>5 DEF Entries
  <2>2. wire' = w \cup {r}
    BY DEF Starts
  <2> QED BY <2>1, <2>2
<1>7. PICK r \in Entries : /\ r.by = d /\ r.req = req /\ r.stage = "sent" /\ r.heard
                           /\ wire' = w \cup {r}
  BY <1>6
<1>8. Clean(req, d)
  <2>1. CASE t.attempt # None
    BY <1>2, <2>1 DEF Ready
  <2>2. CASE t.attempt = None
    BY <1>2, <2>2 DEF Ready, Past, Clean
  <2> QED BY <2>1, <2>2
<1>9. Tab(u, d)
  <2>1. Slot(u, d)
    BY <1>3, <1>5 DEF Ready, Slot
  <2>2. Phase(u, d)
    BY <1>3, <1>5 DEF Ready, Phase
  <2>3. Status(u) /\ Copies(u) /\ Past(u.det) /\ Clean(u.attempt, d)
    BY <1>5, <1>8 DEF Ready, Status, Copies
  <2> QED BY <2>1, <2>2, <2>3 DEF Tab
<1>10. Survives(u, newest[d])
  <2>1. u.slot = t.slot \/ (u.slot # None /\ (t.slot # None => u.slot.text = t.slot.text))
    BY <1>3, <1>5 DEF Ready, Slot
  <2> QED BY <2>1 DEF Survives
<1>11. Wire(wire', u, d)
  BY <1>5, <1>7, <1>8 DEF Remains, Wire
<1>12. tab' \in [Devices -> Tabs] /\ tab'[d] = u /\ \A x \in Devices \ {d} : tab'[x] = tab[x]
  BY <1>5, NewTab DEF DraftsInv
<1>13. Local(d)
  BY <1>7, <1>12 DEF Local, Remains, DraftsInv, Types
<1>14. \A a, x \in Nat : Marked(wire', u, d, a, x) =>
          Marked(w, t, d, a, x) \/ (a = req.at /\ x = req.text)
  BY <1>5, <1>7 DEF Marked
<1>15. \A a \in Nat : Keyed(u, a) => Keyed(tab[d], a)
  <2>1. \A a : ~Keyed(u, a) \/ Keyed(t, a)
    BY <1>3, <1>5 DEF Keyed, Ready, Slot
  <2> QED BY <2>1 DEF Known
<1>16. Draws(d)
  <2>1. CASE NewStamp(t)
    <3>1. t.draft \in Nat /\ req.at = Len(typed) + 1 /\ req.text = t.draft
      BY <1>2, <2>1 DEF NewStamp, Tabs
    <3>2. \A a, x \in Nat : Marked(wire', tab'[d], d, a, x) =>
             Marked(wire, tab[d], d, a, x) \/ (a = Len(typed) + 1 /\ x = t.draft)
      BY <1>12, <1>14, <3>1 DEF Known
    <3>3. typed' = Append(typed, d)
      BY <1>4, <2>1
    <3> QED BY <1>12, <1>15, <3>1, <3>2, <3>3 DEF Draws
  <2>2. CASE ~NewStamp(t)
    <3>1. req.at \in Nat /\ req.text \in Nat /\ Marked(w, t, d, req.at, req.text)
      BY <1>2, <1>3, <1>5, <2>2 DEF NewStamp, Owned, Marked, Requests
    <3>2. \A a, x \in Nat : Marked(wire', tab'[d], d, a, x) => Marked(wire, tab[d], d, a, x)
      BY <1>12, <1>14, <3>1 DEF Known
    <3>3. typed' = typed
      BY <1>4, <2>2
    <3> QED BY <1>12, <1>15, <3>2, <3>3 DEF Draws
  <2> QED BY <2>1, <2>2
<1> QED BY <1>9, <1>10, <1>11, <1>12, <1>13, <1>16, PageKeeps

\* The user of device d typed something, took it back, or did not.
Newly(d) ==
  newest' \in [Devices -> Nat] /\ \A x \in Devices \ {d} : newest'[x] = newest[x]

Others(w, d) == w \subseteq Entries /\ \A e : e.by # d => (e \in w <=> e \in wire)

\* A step of a page that makes no stamp.
LEMMA PageRests ==
  ASSUME DraftsInv, NEW d \in Devices, NEW w, NEW u \in Tabs,
         SetTab(d, u), wire' = w, UNCHANGED <<server, applied, kept, asked, typed>>, Newly(d),
         Others(w, d), Known(w, u, d), Tab(u, d), Survives(u, newest'[d]), Wire(w, u, d)
  PROVE  DraftsInv'
<1>1. tab' \in [Devices -> Tabs] /\ tab'[d] = u /\ \A x \in Devices \ {d} : tab'[x] = tab[x]
  BY NewTab DEF DraftsInv
<1>2. Local(d)
  BY <1>1 DEF Local, Others, Newly
<1>3. Draws(d)
  BY <1>1 DEF Draws, Known
<1> QED BY <1>1, <1>2, <1>3, PageKeeps

LEMMA WireRemains ==
  ASSUME NEW d \in Devices, NEW t, NEW w, Remains(w, d), t.call = None
  PROVE  Wire(w, t, d) /\ Others(w, d)
BY DEF Remains, Wire, Others

\* A save that finds nothing to do, or may not be done.
LEMMA SaveRests ==
  ASSUME DraftsInv, NEW d \in Devices, NEW t \in Tabs, NEW w,
         Ready(t, d), Remains(w, d), Known(w, t, d), Survives(t, newest[d]),
         t.phase # "clearing",
         t.phase = "saving" => t.draft = t.saved \/ t.conflict \/ ~t.det.live,
         SetTab(d, t), wire' = w, UNCHANGED <<server, applied, kept, asked, typed, newest>>
  PROVE  DraftsInv'
<1>1. t.phase = "saving" /\ server.live /\ ~t.conflict => t.draft = t.saved
  BY DEF Ready, Past
<1>2. Tab(t, d)
  BY <1>1 DEF Ready, Tab, Phase
<1>3. Newly(d)
  BY DEF Newly, DraftsInv, Types
<1> QED BY <1>2, <1>3, PageRests, WireRemains DEF Ready

LEMMA SaveIdles ==
  ASSUME DraftsInv, NEW d \in Devices, NEW t \in Tabs, NEW w, NEW u,
         Ready(t, d), Remains(w, d), Known(w, t, d), Survives(t, newest[d]),
         t.send = None, t.draft = t.saved, t.pend # None,
         u = [Cleared(t, t.pend.at) EXCEPT !.pend = None],
         SetTab(d, u), wire' = w, UNCHANGED <<server, applied, kept, asked, typed, newest>>
  PROVE  DraftsInv'
<1>1. t.slot \in {None, t.pend}
  BY DEF Ready, Slot
<1>2. u = [t EXCEPT !.slot = None, !.pend = None]
  BY <1>1 DEF Cleared, Tabs
<1>3. /\ u \in Tabs
      /\ u.pc = t.pc /\ u.det = t.det /\ u.draft = t.draft /\ u.saved = t.saved
      /\ u.conflict = t.conflict /\ u.send = t.send /\ u.phase = t.phase /\ u.reads = t.reads
      /\ u.attempt = t.attempt /\ u.status = t.status /\ u.call = t.call /\ u.current = t.current
      /\ u.pend = None /\ u.slot = None
  BY <1>2 DEF Tabs
<1>4. Ready(u, d)
  BY <1>3 DEF Ready, Status, Slot, Copies
<1>5. Known(w, u, d)
  BY <1>3 DEF Known, Marked, Keyed
<1>6. Survives(u, newest[d])
  BY <1>1, <1>3 DEF Survives, Ready, Slot, Status
<1> QED BY <1>3, <1>4, <1>5, <1>6, SaveRests DEF Ready

LEMMA SaveKeeps ==
  ASSUME DraftsInv, NEW d \in Devices, NEW t \in Tabs, NEW w, NEW force,
         Ready(t, d), Remains(w, d), Known(w, t, d), Survives(t, newest[d]),
         Save(d, t, w, force), UNCHANGED <<server, applied, kept, asked, newest>>
  PROVE  DraftsInv'
<1>1. t.phase = "clearing" => MaySave(t) /\ t.draft # t.saved
  BY DEF Ready, MaySave
<1>2. ~MaySave(t) /\ t.phase = "saving" => t.conflict \/ ~t.det.live
  BY DEF Ready, MaySave
<1>3. ASSUME MaySave(t), t.attempt # None \/ t.draft # t.saved,
             \E u, req : SetTab(d, u) /\ Starts(d, t, w, u, req)
      PROVE  DraftsInv'
  BY <1>3, SaveStarts
<1>4. ASSUME MaySave(t), t.attempt = None, t.draft = t.saved,
             SetTab(d, IF force /\ t.pend # None
                       THEN [Cleared(t, t.pend.at) EXCEPT !.pend = None] ELSE t),
             wire' = w, UNCHANGED typed
      PROVE  DraftsInv'
  <2>1. CASE force /\ t.pend # None
    <3>1. PICK u : u = [Cleared(t, t.pend.at) EXCEPT !.pend = None]
      OBVIOUS
    <3>2. SetTab(d, u)
      BY <1>4, <2>1, <3>1
    <3>3. t.send = None
      BY <1>4 DEF MaySave
    <3> QED BY <1>4, <2>1, <3>1, <3>2, <3>3, SaveIdles
  <2>2. CASE ~(force /\ t.pend # None)
    <3>1. SetTab(d, t)
      BY <1>4, <2>2
    <3> QED BY <1>1, <1>4, <3>1, SaveRests
  <2> QED BY <2>1, <2>2
<1>5. ASSUME ~MaySave(t), SetTab(d, t), wire' = w, UNCHANGED typed
      PROVE  DraftsInv'
  BY <1>1, <1>2, <1>5, SaveRests
<1>6. \/ MaySave(t) /\ (t.attempt # None \/ t.draft # t.saved)
         /\ \E u, req : SetTab(d, u) /\ Starts(d, t, w, u, req)
      \/ /\ MaySave(t) /\ t.attempt = None /\ t.draft = t.saved
         /\ SetTab(d, IF force /\ t.pend # None
                       THEN [Cleared(t, t.pend.at) EXCEPT !.pend = None] ELSE t)
         /\ wire' = w /\ UNCHANGED typed
      \/ ~MaySave(t) /\ SetTab(d, t) /\ wire' = w /\ UNCHANGED typed
  BY Zenon DEF Save, Starts
<1> QED BY <1>3, <1>4, <1>5, <1>6

-------------------------------------------------------------------------------
(* The end of a save *)

\* A state that the end of a save may leave behind, but for the call.
Settling(s, d) ==
  /\ s \in Tabs /\ s.pc = "open" /\ s.send = None
  /\ Past(s.det) /\ (s.attempt # None => Clean(s.attempt, d))
  /\ Stored(s.saved)
  /\ s.status = "conflict" => s.conflict
  /\ s.status = "saved" => s.draft = s.saved
  /\ s.status = "pending" => s.draft # s.saved
  /\ s.status = "saving" => ~s.current
  /\ Slot(s, d) /\ Copies(s)
  /\ s.phase \in {"no", "saving", "clearing"}
  /\ tab[d].more = "no" /\ s.phase = "saving" /\ server.live /\ ~s.conflict =>
       s.draft = s.saved \/ s.status = "error" \/ Own(s.saved, d)

\* What t keeps of s.
Ended(s, t) ==
  /\ t \in Tabs /\ t.call = None /\ t.more = "no"
  /\ t.phase = IF s.phase = "clearing" THEN "no" ELSE s.phase
  /\ t.pc = s.pc /\ t.det = s.det /\ t.draft = s.draft /\ t.saved = s.saved
  /\ t.conflict = s.conflict /\ t.send = s.send /\ t.reads = s.reads
  /\ t.attempt = s.attempt /\ t.status = s.status /\ t.current = s.current
  /\ t.pend = s.pend /\ t.slot = s.slot

LEMMA EndedIs ==
  ASSUME NEW s \in Tabs, NEW t,
         t = [s EXCEPT !.call = None, !.more = "no",
                       !.phase = IF @ = "clearing" THEN "no" ELSE @]
  PROVE  Ended(s, t)
<1>1. CASE s.phase = "clearing"
  <2>1. t = [s EXCEPT !.call = None, !.more = "no", !.phase = "no"]
    BY <1>1
  <2> QED BY <1>1, <2>1 DEF Tabs, Phases, Ended
<1>2. CASE s.phase # "clearing"
  <2>1. t = [s EXCEPT !.call = None, !.more = "no"]
    BY <1>2 DEF Tabs
  <2> QED BY <1>2, <2>1 DEF Tabs, Phases, Ended
<1> QED BY <1>1, <1>2

LEMMA SettlingKeeps ==
  ASSUME DraftsInv, NEW d \in Devices, NEW s, NEW t, NEW w, NEW force,
         Settling(s, d), Known(w, s, d), Survives(s, newest[d]), Remains(w, d),
         t = [s EXCEPT !.call = None, !.more = "no",
                       !.phase = IF @ = "clearing" THEN "no" ELSE @],
         IF tab[d].more = "no" THEN SetTab(d, t) /\ wire' = w /\ UNCHANGED typed
                               ELSE Save(d, t, w, force),
         UNCHANGED <<server, applied, kept, asked, newest>>
  PROVE  DraftsInv'
<1>1. /\ t \in Tabs /\ t.call = None /\ t.more = "no"
      /\ t.phase = IF s.phase = "clearing" THEN "no" ELSE s.phase
      /\ t.pc = s.pc /\ t.det = s.det /\ t.draft = s.draft /\ t.saved = s.saved
      /\ t.conflict = s.conflict /\ t.send = s.send /\ t.reads = s.reads
      /\ t.attempt = s.attempt /\ t.status = s.status /\ t.current = s.current
      /\ t.pend = s.pend /\ t.slot = s.slot
  <2>1. s \in Tabs
    BY DEF Settling
  <2>2. Ended(s, t)
    BY <2>1, EndedIs
  <2> QED BY <2>2 DEF Ended
<1>2. Known(w, t, d) /\ Survives(t, newest[d])
  BY <1>1 DEF Known, Marked, Keyed, Survives
<1>3. Ready(t, d)
  <2>1. Slot(t, d)
    BY <1>1 DEF Settling, Slot
  <2>2. Status(t) /\ Copies(t)
    BY <1>1 DEF Settling, Status, Copies
  <2> QED BY <1>1, <2>1, <2>2 DEF Settling, Ready
<1>4. CASE tab[d].more = "no"
  <2>1. SetTab(d, t) /\ wire' = w /\ UNCHANGED typed
    BY <1>4
  <2>2. Phase(t, d)
    BY <1>1, <1>4 DEF Settling, Phase
  <2>3. Tab(t, d)
    BY <1>3, <2>2 DEF Ready, Tab
  <2>4. Newly(d)
    BY DEF Newly, DraftsInv, Types
  <2>5. Wire(w, t, d) /\ Others(w, d)
    BY <1>1, WireRemains
  <2> QED BY <1>1, <1>2, <2>1, <2>3, <2>4, <2>5, PageRests
<1>5. CASE tab[d].more # "no"
  <2>1. Save(d, t, w, force)
    BY <1>5
  <2> QED BY <1>1, <1>2, <1>3, <2>1, SaveKeeps
<1> QED BY <1>4, <1>5

\* A page whose save is no longer its own is left as it is.
LEMMA SilencedIs ==
  ASSUME DraftsInv, NEW d \in Devices, Open(d), tab[d].call # None, ~tab[d].current
  PROVE  Settling(tab[d], d) /\ Survives(tab[d], newest[d])
<1>1. Tab(tab[d], d) /\ Survives(tab[d], newest[d]) /\ tab[d] \in Tabs
  BY DEF DraftsInv, Page, Types
<1>2. tab[d].send = None /\ tab[d].phase \in {"no", "saving", "clearing"}
  BY <1>1 DEF Tab, Slot, Phase, Tabs, Phases
<1>3. tab[d].more = "no" /\ tab[d].phase = "saving" /\ server.live /\ ~tab[d].conflict =>
        tab[d].draft = tab[d].saved \/ tab[d].status = "error" \/ Own(tab[d].saved, d)
  BY <1>1 DEF Tab, Phase
<1> QED BY <1>1, <1>2, <1>3 DEF Settling, Tab, Status, Open

LEMMA EndSaveKeeps ==
  ASSUME DraftsInv, NEW d \in Devices, NEW s, NEW w, Open(d), tab[d].call # None,
         tab[d].current => Settling(s, d) /\ Known(w, s, d) /\ Survives(s, newest[d]),
         Known(w, tab[d], d), Remains(w, d), EndSave(d, s, w),
         UNCHANGED <<server, applied, kept, asked, newest>>
  PROVE  DraftsInv'
<1> DEFINE r == IF tab[d].current THEN s ELSE tab[d]
           t == [r EXCEPT !.call = None, !.more = "no",
                          !.phase = IF @ = "clearing" THEN "no" ELSE @]
<1>1. Settling(r, d) /\ Known(w, r, d) /\ Survives(r, newest[d])
  BY SilencedIs
<1>2. IF tab[d].more = "no" THEN SetTab(d, t) /\ wire' = w /\ UNCHANGED typed
                            ELSE Save(d, t, w, tab[d].more = "force")
  BY Zenon DEF EndSave
<1>3. PICK R : R = r
  OBVIOUS
<1>4. PICK T : T = t
  OBVIOUS
<1>5. PICK F : F = (tab[d].more = "force")
  OBVIOUS
<1>6. T = [R EXCEPT !.call = None, !.more = "no",
                    !.phase = IF @ = "clearing" THEN "no" ELSE @]
  BY <1>3, <1>4
<1>7. IF tab[d].more = "no" THEN SetTab(d, T) /\ wire' = w /\ UNCHANGED typed
                            ELSE Save(d, T, w, F)
  BY <1>2, <1>4, <1>5
<1>8. Settling(R, d) /\ Known(w, R, d) /\ Survives(R, newest[d])
  BY <1>1, <1>3
<1> HIDE DEF r, t
<1> QED BY <1>6, <1>7, <1>8, SettlingKeeps

\* What u keeps of s, once an answer to req brought detail x.
SettledTo(s, req, x, u) ==
  /\ u \in Tabs /\ u.pc = s.pc /\ u.det = x /\ u.draft = s.draft /\ u.saved = req.text
  /\ u.conflict = FALSE /\ u.send = s.send /\ u.phase = s.phase /\ u.reads = s.reads
  /\ u.attempt = None /\ u.call = s.call
  /\ u.status = IF s.draft = req.text THEN "saved" ELSE "pending"
  /\ \/ s.pend = None /\ u.pend = None /\ u.slot = None
     \/ s.pend # None /\ s.pend.at = req.at /\ u.pend = None /\ u.slot = None
     \/ /\ s.pend # None /\ u.pend # None /\ u.slot = u.pend
        /\ u.pend.kind = s.pend.kind /\ u.pend.text = s.pend.text
        /\ u.pend.at = s.pend.at

\* The editor of s with another attempt, pending draft, slot, detail, draft, stored
\* draft, status and conflict; and what that says of each field.
Edits(s, u, a, p, q, x, m, n, st, c) ==
  u = [s EXCEPT !.attempt = a, !.pend = p, !.slot = q, !.det = x, !.draft = m, !.saved = n,
                !.status = st, !.conflict = c]

Edited(s, u, a, p, q, x, m, n, st, c) ==
  /\ u \in Tabs
  /\ u.attempt = a /\ u.pend = p /\ u.slot = q /\ u.det = x /\ u.draft = m /\ u.saved = n
  /\ u.status = st /\ u.conflict = c
  /\ u.pc = s.pc /\ u.send = s.send /\ u.phase = s.phase /\ u.reads = s.reads
  /\ u.call = s.call /\ u.current = s.current /\ u.more = s.more

LEMMA EditedIs ==
  ASSUME NEW s \in Tabs, NEW u, NEW a \in Requests \cup {None}, NEW p \in Pendings \cup {None},
         NEW q \in Pendings \cup {None}, NEW x \in Details, NEW m \in Nat, NEW n \in Nat,
         NEW st \in Statuses, NEW c \in BOOLEAN, Edits(s, u, a, p, q, x, m, n, st, c)
  PROVE  Edited(s, u, a, p, q, x, m, n, st, c)
<1>1. u = [s EXCEPT !.attempt = a, !.pend = p, !.slot = q, !.det = x, !.draft = m, !.saved = n,
                    !.status = st, !.conflict = c]
  BY DEF Edits
<1>2. u \in Tabs
  BY <1>1 DEF Tabs
<1>3. /\ u.attempt = a /\ u.pend = p /\ u.slot = q /\ u.det = x /\ u.draft = m /\ u.saved = n
      /\ u.status = st /\ u.conflict = c
  BY <1>1 DEF Tabs
<1>4. /\ u.pc = s.pc /\ u.send = s.send /\ u.phase = s.phase /\ u.reads = s.reads
      /\ u.call = s.call /\ u.current = s.current /\ u.more = s.more
  BY <1>1 DEF Tabs
<1> QED BY <1>2, <1>3, <1>4 DEF Edited

LEMMA TabFields ==
  ASSUME NEW s \in Tabs
  PROVE  /\ s.attempt \in Requests \cup {None} /\ s.pend \in Pendings \cup {None}
         /\ s.slot \in Pendings \cup {None} /\ s.det \in Details /\ s.draft \in Nat
         /\ s.saved \in Nat /\ s.status \in Statuses /\ s.conflict \in BOOLEAN
BY DEF Tabs

LEMMA SettledIs ==
  ASSUME NEW s \in Tabs, NEW req \in Requests, NEW x \in Details, NEW u, u = Settled(s, req, x),
         s.slot \in {None, s.pend}
  PROVE  SettledTo(s, req, x, u)
<1> DEFINE st == IF s.draft = req.text THEN "saved" ELSE "pending"
<1>1. st \in Statuses /\ req.text \in Nat /\ s.draft \in Nat /\ FALSE \in BOOLEAN
      /\ None \in Requests \cup {None} /\ None \in Pendings \cup {None}
  BY DEF Statuses, Requests, Tabs
<1>2. CASE s.pend = None
  <2>1. Edits(s, u, None, None, None, x, s.draft, req.text, st, FALSE)
    BY <1>2 DEF Settled, Tabs, Edits
  <2> HIDE DEF st
  <2>2. Edited(s, u, None, None, None, x, s.draft, req.text, st, FALSE)
    BY <1>1, <2>1, EditedIs
  <2> QED BY <1>2, <2>2 DEF Edited, SettledTo, st
<1>3. CASE s.pend # None /\ s.pend.at = req.at
  <2>1. Edits(s, u, None, None, None, x, s.draft, req.text, st, FALSE)
    BY <1>3 DEF Settled, Cleared, Tabs, Edits
  <2> HIDE DEF st
  <2>2. Edited(s, u, None, None, None, x, s.draft, req.text, st, FALSE)
    BY <1>1, <2>1, EditedIs
  <2> QED BY <1>3, <2>2 DEF Edited, SettledTo, st
<1>4. CASE s.pend # None /\ s.pend.at # req.at
  <2> DEFINE p == Rebased(s.pend, x.rev)
  <2>1. s.pend \in Pendings /\ x.rev \in Nat
    BY <1>4 DEF Tabs, Details
  <2>2. p \in Pendings /\ p # None /\ p.kind = s.pend.kind /\ p.text = s.pend.text
        /\ p.at = s.pend.at
    BY <2>1, RebasedIs
  <2>3. Edits(s, u, None, p, p, x, s.draft, req.text, st, FALSE)
    BY <1>4 DEF Settled, Tabs, Edits
  <2> HIDE DEF st, p
  <2>4. Edited(s, u, None, p, p, x, s.draft, req.text, st, FALSE)
    BY <1>1, <2>2, <2>3, EditedIs
  <2> QED BY <1>4, <2>2, <2>4 DEF Edited, SettledTo, st
<1> QED BY <1>2, <1>3, <1>4

\* What is true of a page that awaits the answer to e.
LEMMA Awaiting ==
  ASSUME DraftsInv, NEW d \in Devices, NEW e \in wire, e.by = d, e.heard, Open(d)
  PROVE  /\ e \in Entries /\ e.req \in Requests /\ e.req # None
         /\ tab[d] \in Tabs /\ tab[d].call = e.req
         /\ tab[d].pc = "open" /\ tab[d].send = None
         /\ tab[d].phase \in {"no", "saving", "clearing"}
         /\ tab[d].slot \in {None, tab[d].pend}
         /\ Remains(wire \ {e}, d) /\ Known(wire \ {e}, tab[d], d)
<1>1. /\ tab[d] \in Tabs /\ Tab(tab[d], d) /\ Wire(wire, tab[d], d) /\ wire \subseteq Entries
      /\ e \in Entries
  BY DEF DraftsInv, Page, Types
<1>2. e.req \in Requests /\ e.req # None
  BY <1>1, Constants DEF Entries
<1>3. tab[d].call = e.req
  BY <1>1 DEF Wire
<1>4. tab[d].pc = "open" /\ tab[d].send = None /\ tab[d].slot \in {None, tab[d].pend}
  BY <1>1, <1>2, <1>3 DEF Tab, Slot, Open
<1>5. tab[d].phase \in {"no", "saving", "clearing"}
  BY <1>1, <1>4 DEF Tab, Phase, Tabs, Phases
<1>6. Remains(wire \ {e}, d)
  BY <1>1 DEF Wire, Remains, Entries
<1>7. Known(wire \ {e}, tab[d], d)
  BY DEF Known, Marked
<1> QED BY <1>1, <1>2, <1>3, <1>4, <1>5, <1>6, <1>7

LEMMA ReceiveKeeps ==
  ASSUME DraftsInv, NEW d \in Devices, Receive(d)
  PROVE  DraftsInv'
<1>1. PICK e \in wire : /\ e.by = d /\ e.heard /\ e.stage \in Answers
                        /\ EndSave(d, Answered(tab[d], e), wire \ {e})
  BY DEF Receive
<1>2. Open(d) /\ UNCHANGED <<server, applied, kept, asked, newest>>
  BY DEF Receive, Rest
<1>3. PICK t : t = tab[d]
  OBVIOUS
<1>4. PICK s : s = Answered(t, e)
  OBVIOUS
<1>5. PICK w : w = wire \ {e}
  OBVIOUS
<1>6. /\ e \in Entries /\ e.req \in Requests /\ e.req # None
      /\ t \in Tabs /\ t.call = e.req /\ t.pc = "open" /\ t.send = None
      /\ t.phase \in {"no", "saving", "clearing"} /\ t.slot \in {None, t.pend}
      /\ Remains(w, d) /\ Known(w, t, d)
  BY <1>1, <1>2, <1>3, <1>5, Awaiting
<1>7. Tab(t, d) /\ Survives(t, newest[d]) /\ Marks(wire, t, d) /\ Wire(wire, t, d)
  BY <1>3 DEF DraftsInv, Page
<1>8. t.current => Settling(s, d) /\ Known(w, s, d) /\ Survives(s, newest[d])
  <2>1. CASE e.stage = "refused"
    <3>1. s = [t EXCEPT !.attempt = None, !.conflict = TRUE, !.status = "conflict"]
      BY <1>4, <1>6, <2>1 DEF Answered, Conflicted, Tabs
    <3>2. /\ s \in Tabs /\ s.pc = t.pc /\ s.det = t.det /\ s.draft = t.draft /\ s.saved = t.saved
          /\ s.conflict /\ s.send = t.send /\ s.phase = t.phase /\ s.reads = t.reads
          /\ s.attempt = None /\ s.status = "conflict" /\ s.call = t.call
          /\ s.pend = t.pend /\ s.slot = t.slot
      BY <1>6, <3>1 DEF Tabs, Statuses
    <3>3. Slot(s, d) /\ Copies(s)
      BY <1>7, <3>2 DEF Tab, Slot, Copies
    <3>4. Settling(s, d)
      BY <1>6, <1>7, <3>2, <3>3 DEF Settling, Tab, Status
    <3>5. Known(w, s, d) /\ Survives(s, newest[d])
      BY <1>6, <1>7, <3>2 DEF Known, Marked, Keyed, Survives
    <3> QED BY <3>4, <3>5
  <2>2. ASSUME e.stage = "done", e.det.live
        PROVE  Settling(s, d) /\ Known(w, s, d) /\ Survives(s, newest[d])
    <3>1. e.det \in Details /\ Past(e.det) /\ Own(e.req.text, d)
      BY <1>1, <1>7, <2>2 DEF Wire
    <3>2. s = Settled(t, e.req, e.det)
      BY <1>4, <2>2 DEF Answered
    <3>3. /\ s \in Tabs /\ s.pc = t.pc /\ s.det = e.det /\ s.draft = t.draft
          /\ s.saved = e.req.text
          /\ s.conflict = FALSE /\ s.send = t.send /\ s.phase = t.phase /\ s.reads = t.reads
          /\ s.attempt = None /\ s.call = t.call
          /\ s.status = IF t.draft = e.req.text THEN "saved" ELSE "pending"
          /\ \/ t.pend = None /\ s.pend = None /\ s.slot = None
             \/ t.pend # None /\ t.pend.at = e.req.at /\ s.pend = None /\ s.slot = None
             \/ /\ t.pend # None /\ s.pend # None /\ s.slot = s.pend
                /\ s.pend.kind = t.pend.kind /\ s.pend.text = t.pend.text
                /\ s.pend.at = t.pend.at
      <4>1. SettledTo(t, e.req, e.det, s)
        BY <1>6, <3>1, <3>2, SettledIs
      <4> QED BY <4>1 DEF SettledTo
    <3>4. Stored(s.saved) /\ Own(s.saved, d)
      BY <3>1, <3>3 DEF Stored, Own
    <3>5. Slot(s, d)
      BY <1>6, <1>7, <3>3 DEF Tab, Slot
    <3>6. Copies(s)
      BY <1>7, <3>3 DEF Tab, Copies
    <3>7. Settling(s, d)
      BY <1>6, <3>1, <3>3, <3>4, <3>5, <3>6 DEF Settling
    <3>8. Known(w, s, d)
      BY <1>6, <1>7, <3>3 DEF Known, Marked, Keyed, Tab, Slot
    <3>9. t.pend # None /\ t.pend.at = e.req.at => t.pend.text = e.req.text
      <4>1. e.req.at \in Nat /\ e.req.text \in Nat
        BY <1>6 DEF Requests
      <4>2. t.pend # None => t.pend.text \in Nat
        BY <1>6 DEF Tabs, Pendings
      <4>3. Marked(wire, t, d, e.req.at, e.req.text)
        BY <1>1 DEF Marked
      <4>4. t.pend # None /\ t.pend.at = e.req.at => Marked(wire, t, d, e.req.at, t.pend.text)
        BY DEF Marked
      <4> QED BY <1>7, <4>1, <4>2, <4>3, <4>4 DEF Marks
    <3>10. Survives(s, newest[d])
      BY <1>6, <1>7, <3>3, <3>4, <3>9 DEF Survives
    <3> QED BY <3>7, <3>8, <3>10
  <2>3. ASSUME e.stage = "done", ~e.det.live
        PROVE  Settling(s, d) /\ Known(w, s, d) /\ Survives(s, newest[d])
    <3>1. e.det \in Details /\ Past(e.det)
      BY <1>1, <1>7, <2>3 DEF Wire
    <3>2. ~server.live
      BY <2>3, <3>1 DEF Past
    <3>3. s = [t EXCEPT !.attempt = None, !.pend = None, !.slot = None, !.det = e.det, !.draft = 0,
                        !.saved = 0, !.status = "idle", !.conflict = FALSE]
      BY <1>4, <1>6, <2>3 DEF Answered, Dead, Dropped, Tabs
    <3>4. /\ s \in Tabs /\ s.pc = t.pc /\ s.det = e.det /\ s.draft = 0 /\ s.saved = 0
          /\ s.conflict = FALSE /\ s.send = t.send /\ s.phase = t.phase /\ s.reads = t.reads
          /\ s.attempt = None /\ s.status = "idle" /\ s.call = t.call
          /\ s.pend = None /\ s.slot = None
      <4>1. Edits(t, s, None, None, None, e.det, 0, 0, "idle", FALSE)
        BY <3>3 DEF Edits
      <4>2. /\ "idle" \in Statuses /\ 0 \in Nat /\ FALSE \in BOOLEAN
            /\ None \in Requests \cup {None} /\ None \in Pendings \cup {None}
        BY DEF Statuses
      <4>3. Edited(t, s, None, None, None, e.det, 0, 0, "idle", FALSE)
        BY <1>6, <3>1, <4>1, <4>2, EditedIs
      <4> QED BY <4>3 DEF Edited
    <3>5. Slot(s, d) /\ Copies(s)
      BY <1>6, <1>7, <3>4 DEF Tab, Slot, Copies
    <3>6. Settling(s, d)
      BY <1>6, <3>1, <3>4, <3>5 DEF Settling, Stored
    <3>7. Known(w, s, d)
      BY <1>6, <3>4 DEF Known, Marked, Keyed
    <3>8. Survives(s, newest[d])
      BY <3>2 DEF Survives
    <3> QED BY <3>6, <3>7, <3>8
  <2> QED BY <1>1, <2>1, <2>2, <2>3 DEF Answers
<1>9. EndSave(d, s, w)
  BY <1>1, <1>3, <1>4, <1>5
<1> QED BY <1>2, <1>3, <1>6, <1>8, <1>9, EndSaveKeeps

LEMMA LoseKeeps ==
  ASSUME DraftsInv, NEW d \in Devices, Lose(d)
  PROVE  DraftsInv'
<1>1. PICK e \in wire :
        /\ e.by = d /\ e.heard
        /\ EndSave(d, [tab[d] EXCEPT !.status = "error"],
                   (wire \ {e}) \cup (IF e.stage \in Answers THEN {}
                                      ELSE {[e EXCEPT !.heard = FALSE]}))
  BY DEF Lose
<1>2. Open(d) /\ UNCHANGED <<server, applied, kept, asked, newest>>
  BY DEF Lose, Rest
<1>3. PICK t : t = tab[d]
  OBVIOUS
<1>4. PICK s : s = [t EXCEPT !.status = "error"]
  OBVIOUS
<1>5. PICK w : w = (wire \ {e}) \cup (IF e.stage \in Answers THEN {}
                                      ELSE {[e EXCEPT !.heard = FALSE]})
  OBVIOUS
<1>6. EndSave(d, s, w)
  BY <1>1, <1>3, <1>4, <1>5
<1>7. /\ e \in Entries /\ e.req \in Requests /\ e.req # None
      /\ t \in Tabs /\ t.call = e.req /\ t.pc = "open" /\ t.send = None
      /\ t.phase \in {"no", "saving", "clearing"}
      /\ Remains(wire \ {e}, d) /\ Known(wire \ {e}, t, d)
  BY <1>1, <1>2, <1>3, Awaiting
<1>8. Tab(t, d) /\ Survives(t, newest[d]) /\ Wire(wire, t, d)
  BY <1>3 DEF DraftsInv, Page
<1>9. /\ s \in Tabs /\ s.pc = t.pc /\ s.det = t.det /\ s.draft = t.draft /\ s.saved = t.saved
      /\ s.conflict = t.conflict /\ s.send = t.send /\ s.phase = t.phase /\ s.reads = t.reads
      /\ s.attempt = t.attempt /\ s.status = "error" /\ s.call = t.call
      /\ s.pend = t.pend /\ s.slot = t.slot
  BY <1>4, <1>7 DEF Tabs, Statuses
<1>10. Slot(s, d) /\ Copies(s)
  BY <1>8, <1>9 DEF Tab, Slot, Copies
<1>11. Settling(s, d)
  BY <1>7, <1>8, <1>9, <1>10 DEF Settling, Tab, Status
<1>12. Remains(w, d) /\ Known(w, t, d)
  <2>1. CASE e.stage \in Answers
    <3>1. w = wire \ {e}
      BY <1>5, <2>1
    <3> QED BY <1>7, <3>1
  <2>2. CASE e.stage \notin Answers
    <3> DEFINE f == [e EXCEPT !.heard = FALSE]
    <3>1. /\ f \in Entries /\ f.by = d /\ f.req = e.req /\ f.stage # "done" /\ ~f.heard
      BY <1>1, <1>7, <2>2 DEF Entries, Answers
    <3>2. w = (wire \ {e}) \cup {f}
      BY <1>5, <2>2
    <3> HIDE DEF f
    <3>3. Clean(e.req, d)
      BY <1>1, <1>8 DEF Wire
    <3>4. Remains(w, d)
      BY <1>7, <3>1, <3>2, <3>3 DEF Remains
    <3>5. \A a, x \in Nat : Marked(w, t, d, a, x) => Marked(wire, t, d, a, x)
      BY <1>1, <3>1, <3>2 DEF Marked
    <3>6. Known(w, t, d)
      BY <1>3, <3>5 DEF Known
    <3> QED BY <3>4, <3>6
  <2> QED BY <2>1, <2>2
<1>13. Known(w, s, d) /\ Survives(s, newest[d])
  BY <1>8, <1>9, <1>12 DEF Known, Marked, Keyed, Survives
<1> QED BY <1>2, <1>3, <1>6, <1>7, <1>11, <1>12, <1>13, EndSaveKeeps

-------------------------------------------------------------------------------
(* Beginning a save *)

LEMMA WireWhole ==
  ASSUME DraftsInv, NEW d \in Devices
  PROVE  /\ Others(wire, d) /\ wire \subseteq Entries
         /\ tab[d].call = None => Remains(wire, d)
<1>1. wire \subseteq Entries /\ Wire(wire, tab[d], d)
  BY DEF DraftsInv, Types, Page
<1>2. \A e \in wire : e.req # None
  BY <1>1, Constants DEF Entries
<1> QED BY <1>1, <1>2 DEF Others, Remains, Wire

LEMMA RunKeeps ==
  ASSUME DraftsInv, NEW d \in Devices, NEW t \in Tabs, NEW force \in BOOLEAN,
         t.pc = "open", t.call = tab[d].call, Past(t.det), t.attempt # None => Clean(t.attempt, d),
         Status(t), Slot(t, d), Copies(t), t.phase \in {"no", "saving"},
         t.phase = "saving" => force /\ t.send = None,
         Known(wire, t, d), Survives(t, newest[d]), Run(d, t, force),
         UNCHANGED <<server, applied, kept, asked, newest>>
  PROVE  DraftsInv'
<1>1. CASE t.call = None
  <2>1. Save(d, t, wire, force)
    BY <1>1 DEF Run
  <2>2. PICK w : w = wire
    OBVIOUS
  <2>3. Ready(t, d)
    BY <1>1 DEF Ready
  <2>4. Remains(w, d) /\ Known(w, t, d) /\ Save(d, t, w, force)
    BY <1>1, <2>1, <2>2, WireWhole
  <2> QED BY <2>3, <2>4, SaveKeeps
<1>2. CASE t.call # None
  <2> DEFINE m == IF force \/ t.more = "force" THEN "force" ELSE "yes"
  <2>1. PICK u : u = [t EXCEPT !.more = m]
    OBVIOUS
  <2>2. SetTab(d, u) /\ UNCHANGED <<wire, typed>>
    BY <1>2, <2>1 DEF Run
  <2>3. m \in {"force", "yes"} /\ (force => m = "force")
    OBVIOUS
  <2> HIDE DEF m
  <2>4. /\ u \in Tabs /\ u.pc = t.pc /\ u.det = t.det /\ u.draft = t.draft /\ u.saved = t.saved
        /\ u.conflict = t.conflict /\ u.send = t.send /\ u.phase = t.phase /\ u.reads = t.reads
        /\ u.attempt = t.attempt /\ u.status = t.status /\ u.call = t.call
        /\ u.current = t.current /\ u.pend = t.pend /\ u.slot = t.slot /\ u.more = m
    BY <2>1, <2>3 DEF Tabs
  <2>5. Slot(u, d)
    BY <2>4 DEF Slot
  <2>6. Phase(u, d)
    BY <1>2, <2>3, <2>4 DEF Phase
  <2>7. Tab(u, d)
    BY <2>4, <2>5, <2>6 DEF Tab, Status, Copies
  <2>8. Known(wire, u, d) /\ Survives(u, newest[d])
    BY <2>4 DEF Known, Marked, Keyed, Survives
  <2>9. Wire(wire, u, d)
    BY <2>4 DEF DraftsInv, Page, Wire
  <2>10. Newly(d)
    BY DEF Newly, DraftsInv, Types
  <2>11. PICK w : w = wire
    OBVIOUS
  <2> QED BY <2>2, <2>4, <2>7, <2>8, <2>9, <2>10, <2>11, WireWhole, PageRests
<1> QED BY <1>1, <1>2

LEMMA DebounceKeeps ==
  ASSUME DraftsInv, NEW d \in Devices, Debounce(d)
  PROVE  DraftsInv'
<1>1. PICK t : t = tab[d]
  OBVIOUS
<1>2. t \in Tabs /\ Tab(t, d) /\ Survives(t, newest[d])
  BY <1>1 DEF DraftsInv, Page, Types
<1>3. /\ t.pc = "open" /\ t.phase = "no" /\ Run(d, t, FALSE)
      /\ UNCHANGED <<server, applied, kept, asked, newest>>
  BY <1>1 DEF Debounce, Live, Open, Sending, Rest
<1>4. Known(wire, t, d) /\ t.call = tab[d].call /\ FALSE \in BOOLEAN
  BY <1>1 DEF Known
<1> QED BY <1>2, <1>3, <1>4, RunKeeps DEF Tab

LEMMA SaveNowKeeps ==
  ASSUME DraftsInv, NEW d \in Devices, SaveNow(d)
  PROVE  DraftsInv'
<1>1. PICK t : t = tab[d]
  OBVIOUS
<1>2. t \in Tabs /\ Tab(t, d) /\ Survives(t, newest[d])
  BY <1>1 DEF DraftsInv, Page, Types
<1>3. /\ t.pc = "open" /\ t.phase = "no" /\ Run(d, t, TRUE)
      /\ UNCHANGED <<server, applied, kept, asked, newest>>
  BY <1>1 DEF SaveNow, Live, Open, Sending, Rest
<1>4. Known(wire, t, d) /\ t.call = tab[d].call /\ TRUE \in BOOLEAN
  BY <1>1 DEF Known
<1> QED BY <1>2, <1>3, <1>4, RunKeeps DEF Tab

\* A step of a page that makes no stamp and leaves the requests alone.
LEMMA QuietKeeps ==
  ASSUME DraftsInv, NEW d \in Devices, NEW u \in Tabs, SetTab(d, u),
         UNCHANGED <<server, applied, kept, asked, wire, typed>>, Newly(d),
         u.call = tab[d].call, Known(wire, u, d), Tab(u, d), Survives(u, newest'[d])
  PROVE  DraftsInv'
<1>1. Wire(wire, u, d)
  BY DEF DraftsInv, Page, Wire
<1>2. PICK w : w = wire
  OBVIOUS
<1> QED BY <1>1, <1>2, WireWhole, PageRests

\* Such a step that the user did not type.
LEMMA SilentKeeps ==
  ASSUME DraftsInv, NEW d \in Devices, NEW u \in Tabs, SetTab(d, u),
         UNCHANGED <<server, applied, kept, asked, wire, typed, newest>>,
         u.call = tab[d].call, Known(wire, u, d), Tab(u, d), Survives(u, newest[d])
  PROVE  DraftsInv'
<1>1. Newly(d)
  BY DEF Newly, DraftsInv, Types
<1> QED BY <1>1, QuietKeeps

\* What only concerns how far the page is: u is t in another phase, with other reads.
Moved(t, u) ==
  /\ u \in Tabs
  /\ u.pc = t.pc /\ u.slot = t.slot /\ u.det = t.det /\ u.draft = t.draft /\ u.saved = t.saved
  /\ u.status = t.status /\ u.conflict = t.conflict /\ u.attempt = t.attempt
  /\ u.pend = t.pend /\ u.send = t.send /\ u.call = t.call

LEMMA MovedKeeps ==
  ASSUME DraftsInv, NEW d \in Devices, NEW u, SetTab(d, u), Moved(tab[d], u),
         UNCHANGED <<server, applied, kept, asked, wire, typed, newest>>,
         u.status = "saving" => u.call # None \/ ~u.current, Copies(u), Phase(u, d)
  PROVE  DraftsInv'
<1>1. PICK t : t = tab[d]
  OBVIOUS
<1>2. t \in Tabs /\ Tab(t, d) /\ Survives(t, newest[d])
  BY <1>1 DEF DraftsInv, Page, Types
<1>3. Moved(t, u)
  BY <1>1
<1>4. Slot(u, d)
  BY <1>2, <1>3 DEF Tab, Slot, Moved
<1>5. Tab(u, d)
  BY <1>2, <1>3, <1>4 DEF Tab, Status, Moved
<1>6. Known(wire, u, d)
  BY <1>1, <1>3 DEF Known, Marked, Keyed, Moved
<1>7. Survives(u, newest[d])
  BY <1>2, <1>3 DEF Survives, Moved
<1> QED BY <1>1, <1>3, <1>5, <1>6, <1>7, SilentKeeps DEF Moved

LEMMA SendKeeps ==
  ASSUME DraftsInv, NEW d \in Devices, Send(d)
  PROVE  DraftsInv'
<1>1. PICK t : t = tab[d]
  OBVIOUS
<1>2. t \in Tabs /\ Tab(t, d) /\ Survives(t, newest[d])
  BY <1>1 DEF DraftsInv, Page, Types
<1>3. /\ t.pc = "open" /\ t.phase = "no" /\ t.det.live /\ ~t.conflict
      /\ UNCHANGED <<server, applied, kept, asked, newest>>
  BY <1>1 DEF Send, Live, Open, Sending, Rest
<1>4. CASE t.send = None
  <2>1. PICK u : u = [t EXCEPT !.phase = "saving"]
    OBVIOUS
  <2>2. Run(d, u, TRUE)
    BY <1>1, <1>4, <2>1 DEF Send
  <2>3. Moved(t, u) /\ u.phase = "saving" /\ u.reads = t.reads /\ u.current = t.current
    BY <1>2, <2>1 DEF Tabs, Phases, Moved
  <2>4. Slot(u, d)
    BY <1>2, <2>3 DEF Tab, Slot, Moved
  <2>5. Status(u) /\ Copies(u)
    BY <1>2, <1>3, <2>3 DEF Tab, Status, Copies, Moved
  <2>6. Known(wire, u, d) /\ Survives(u, newest[d])
    BY <1>1, <1>2, <2>3 DEF Known, Marked, Keyed, Moved, Survives
  <2>7. TRUE \in BOOLEAN
    OBVIOUS
  <2> QED BY <1>1, <1>2, <1>3, <1>4, <2>2, <2>3, <2>4, <2>5, <2>6, <2>7, RunKeeps DEF Moved, Tab
<1>5. CASE t.send # None
  <2>1. PICK u : u = [t EXCEPT !.phase = "ask"]
    OBVIOUS
  <2>2. SetTab(d, u) /\ UNCHANGED <<wire, typed>>
    BY <1>1, <1>5, <2>1 DEF Send
  <2>3. Moved(t, u) /\ u.phase = "ask" /\ u.reads = t.reads /\ u.current = t.current
    BY <1>2, <2>1 DEF Tabs, Phases, Moved
  <2>4. Copies(u) /\ Phase(u, d) /\ (u.status = "saving" => u.call # None \/ ~u.current)
    BY <1>2, <1>3, <1>5, <2>3 DEF Tab, Copies, Phase, Moved, Status
  <2> QED BY <1>1, <1>3, <2>2, <2>3, <2>4, MovedKeeps
<1> QED BY <1>4, <1>5

-------------------------------------------------------------------------------
(* What the page reads again, and a deletion that fails *)

LEMMA ServerIsPast ==
  ASSUME DraftsInv
  PROVE  server \in Details /\ Past(server)
BY DEF DraftsInv, Types, Row, Past, Details

LEMMA RefreshKeeps ==
  ASSUME DraftsInv, NEW d \in Devices, Refresh(d)
  PROVE  DraftsInv'
<1>1. PICK t : t = tab[d]
  OBVIOUS
<1>2. t \in Tabs /\ Tab(t, d)
  BY <1>1 DEF DraftsInv, Page, Types
<1>3. PICK r \in Reads : r.what = "refresh" /\ r.det = server
  <2>1. [what |-> "refresh", det |-> server] \in Reads
    BY ServerIsPast DEF Reads
  <2> QED BY <2>1
<1>4. PICK u : u = [t EXCEPT !.reads = @ \cup {r}]
  OBVIOUS
<1>5. SetTab(d, u)
  <2>1. r = [what |-> "refresh", det |-> server]
    BY <1>3 DEF Reads
  <2> QED BY <1>1, <1>4, <2>1 DEF Refresh
<1>6. UNCHANGED <<server, applied, kept, asked, wire, typed, newest>>
  BY DEF Refresh, ghostVars
<1>7. Moved(t, u) /\ u.phase = t.phase /\ u.current = t.current /\ u.more = t.more
      /\ u.reads = t.reads \cup {r}
  BY <1>2, <1>4 DEF Tabs, Moved
<1>8. Copies(u)
  BY <1>2, <1>3, <1>7, ServerIsPast DEF Tab, Copies
<1>9. Phase(u, d) /\ (u.status = "saving" => u.call # None \/ ~u.current)
  BY <1>2, <1>7 DEF Tab, Phase, Moved, Status
<1> QED BY <1>1, <1>5, <1>6, <1>7, <1>8, <1>9, MovedKeeps

LEMMA ApplyRefreshKeeps ==
  ASSUME DraftsInv, NEW d \in Devices, ApplyRefresh(d)
  PROVE  DraftsInv'
<1>1. PICK t : t = tab[d]
  OBVIOUS
<1>2. t \in Tabs /\ Tab(t, d) /\ Survives(t, newest[d])
  BY <1>1 DEF DraftsInv, Page, Types
<1>3. PICK r \in t.reads :
        /\ r.what = "refresh"
        /\ LET v == [t EXCEPT !.reads = @ \ {r}] IN
           SetTab(d, IF ~r.det.live THEN Dead(v, r.det)
                     ELSE IF r.det.rev < v.det.rev THEN Conflicted(v)
                     ELSE [v EXCEPT !.det = r.det])
  BY <1>1 DEF ApplyRefresh
<1>4. PICK s : s = [t EXCEPT !.reads = @ \ {r}]
  OBVIOUS
<1>5. UNCHANGED <<server, applied, kept, asked, wire, typed, newest>>
  BY DEF ApplyRefresh, ghostVars
<1>6. r \in Reads /\ r.det \in Details /\ Past(r.det)
  BY <1>2, <1>3 DEF Tab, Copies, Tabs, Reads
<1>7. Moved(t, s) /\ s.phase = t.phase /\ s.current = t.current /\ s.more = t.more
      /\ s.reads = t.reads \ {r}
  BY <1>2, <1>4 DEF Tabs, Moved
<1>8. Slot(s, d) /\ Copies(s) /\ Phase(s, d) /\ Status(s)
  <2>1. Slot(s, d)
    BY <1>2, <1>7 DEF Tab, Slot, Moved
  <2>2. Copies(s)
    BY <1>2, <1>7 DEF Tab, Copies
  <2>3. Phase(s, d) /\ Status(s)
    BY <1>2, <1>7 DEF Tab, Phase, Status, Moved
  <2> QED BY <2>1, <2>2, <2>3
<1>9. PICK u : u = IF ~r.det.live THEN Dead(s, r.det)
                   ELSE IF r.det.rev < s.det.rev THEN Conflicted(s)
                   ELSE [s EXCEPT !.det = r.det]
  OBVIOUS
<1>10. SetTab(d, u)
  BY <1>3, <1>4, <1>9
<1>11. s \in Tabs
  BY <1>7 DEF Moved
<1>12. u \in Tabs /\ Tab(u, d) /\ u.call = t.call /\ u.attempt = t.attempt /\ u.pend = t.pend
       /\ u.slot = t.slot
  <2>1. CASE ~r.det.live
    <3>1. Edits(s, u, s.attempt, s.pend, s.slot, r.det, 0, 0, "idle", FALSE)
      BY <1>9, <1>11, <2>1 DEF Dead, Edits, Tabs
    <3>2. Edited(s, u, s.attempt, s.pend, s.slot, r.det, 0, 0, "idle", FALSE)
      BY <1>6, <1>11, <3>1, EditedIs, TabFields DEF Statuses
    <3>3. ~server.live
      BY <1>6, <2>1 DEF Past
    <3>4. Slot(u, d)
      BY <1>8, <3>2, <3>3 DEF Slot, Edited
    <3>5. Phase(u, d)
      BY <1>8, <3>2, <3>3 DEF Phase, Edited
    <3>6. Copies(u) /\ Status(u)
      BY <1>8, <3>2 DEF Copies, Status, Edited, Stored
    <3> QED BY <1>2, <1>6, <1>7, <3>2, <3>4, <3>5, <3>6 DEF Tab, Edited, Moved
  <2>2. CASE r.det.live /\ r.det.rev < s.det.rev
    <3>1. Edits(s, u, s.attempt, s.pend, s.slot, s.det, s.draft, s.saved, "conflict", TRUE)
      BY <1>9, <1>11, <2>2 DEF Conflicted, Edits, Tabs
    <3>2. Edited(s, u, s.attempt, s.pend, s.slot, s.det, s.draft, s.saved, "conflict", TRUE)
      BY <1>11, <3>1, EditedIs, TabFields DEF Statuses
    <3>3. Slot(u, d)
      BY <1>8, <3>2 DEF Slot, Edited
    <3>4. Phase(u, d)
      BY <1>8, <3>2 DEF Phase, Edited
    <3>5. Copies(u) /\ Status(u)
      BY <1>8, <3>2 DEF Copies, Status, Edited
    <3> QED BY <1>2, <1>7, <3>2, <3>3, <3>4, <3>5 DEF Tab, Edited, Moved
  <2>3. CASE r.det.live /\ ~(r.det.rev < s.det.rev)
    <3>1. Edits(s, u, s.attempt, s.pend, s.slot, r.det, s.draft, s.saved, s.status, s.conflict)
      BY <1>9, <1>11, <2>3 DEF Edits, Tabs
    <3>2. Edited(s, u, s.attempt, s.pend, s.slot, r.det, s.draft, s.saved, s.status, s.conflict)
      <4>1. /\ s.attempt \in Requests \cup {None} /\ s.pend \in Pendings \cup {None}
            /\ s.slot \in Pendings \cup {None} /\ s.draft \in Nat /\ s.saved \in Nat
            /\ s.status \in Statuses /\ s.conflict \in BOOLEAN
        BY <1>11, TabFields
      <4> QED BY <1>6, <1>11, <3>1, <4>1, EditedIs
    <3>3. Slot(u, d)
      BY <1>8, <3>2 DEF Slot, Edited
    <3>4. Phase(u, d)
      BY <1>8, <3>2 DEF Phase, Edited
    <3>5. Copies(u) /\ Status(u)
      BY <1>8, <3>2 DEF Copies, Status, Edited
    <3> QED BY <1>2, <1>6, <1>7, <3>2, <3>3, <3>4, <3>5 DEF Tab, Edited, Moved
  <2> QED BY <2>1, <2>2, <2>3
<1>13. Known(wire, u, d) /\ Survives(u, newest[d])
  BY <1>1, <1>2, <1>12 DEF Known, Marked, Keyed, Survives
<1> QED BY <1>1, <1>5, <1>10, <1>12, <1>13, SilentKeeps

LEMMA ReloadKeeps ==
  ASSUME DraftsInv, NEW d \in Devices, Reload(d)
  PROVE  DraftsInv'
<1>1. PICK t : t = tab[d]
  OBVIOUS
<1>2. t \in Tabs /\ Tab(t, d)
  BY <1>1 DEF DraftsInv, Page, Types
<1>3. PICK r \in Reads : r.what = "reload" /\ r.det = server
  <2>1. [what |-> "reload", det |-> server] \in Reads
    BY ServerIsPast DEF Reads
  <2> QED BY <2>1
<1>4. PICK u : u = [t EXCEPT !.current = FALSE, !.more = "no", !.reads = @ \cup {r}]
  OBVIOUS
<1>5. SetTab(d, u) /\ t.conflict
  <2>1. r = [what |-> "reload", det |-> server]
    BY <1>3 DEF Reads
  <2> QED BY <1>1, <1>4, <2>1 DEF Reload, Invalidated
<1>6. UNCHANGED <<server, applied, kept, asked, wire, typed, newest>>
  BY DEF Reload, ghostVars
<1>7. Moved(t, u) /\ u.phase = t.phase /\ u.current = FALSE /\ u.reads = t.reads \cup {r}
  BY <1>2, <1>4 DEF Tabs, Moved
<1>8. Copies(u)
  BY <1>2, <1>3, <1>7, ServerIsPast DEF Tab, Copies
<1>9. Phase(u, d) /\ (u.status = "saving" => u.call # None \/ ~u.current)
  BY <1>2, <1>5, <1>7 DEF Tab, Phase, Moved, Status
<1> QED BY <1>1, <1>5, <1>6, <1>7, <1>8, <1>9, MovedKeeps

LEMMA ApplyReloadKeeps ==
  ASSUME DraftsInv, NEW d \in Devices, ApplyReload(d)
  PROVE  DraftsInv'
<1>1. PICK t : t = tab[d]
  OBVIOUS
<1>2. t \in Tabs /\ Tab(t, d) /\ Survives(t, newest[d])
  BY <1>1 DEF DraftsInv, Page, Types
<1>3. PICK r \in t.reads :
        /\ r.what = "reload"
        /\ LET same == t.draft = r.det.text IN
           SetTab(d, [t EXCEPT
                        !.reads = @ \ {r}, !.attempt = None, !.det = r.det,
                        !.saved = r.det.text, !.conflict = ~same,
                        !.status = IF same THEN "saved" ELSE "conflict"])
  BY <1>1 DEF ApplyReload
<1>4. UNCHANGED <<server, applied, kept, asked, wire, typed, newest>>
  BY DEF ApplyReload
<1>5. r \in Reads /\ r.det \in Details /\ Past(r.det) /\ r.det.text \in Nat
  BY <1>2, <1>3 DEF Tab, Copies, Tabs, Reads, Details
<1>6. PICK s : s = [t EXCEPT !.reads = @ \ {r}]
  OBVIOUS
<1>7. Moved(t, s) /\ s.phase = t.phase /\ s.current = t.current /\ s.more = t.more
      /\ s.reads = t.reads \ {r}
  BY <1>2, <1>6 DEF Tabs, Moved
<1>8. PICK c \in BOOLEAN, st \in Statuses :
        /\ c => t.draft # r.det.text /\ st = "conflict"
        /\ ~c => t.draft = r.det.text /\ st = "saved"
        /\ c = (t.draft # r.det.text)
        /\ st = IF t.draft = r.det.text THEN "saved" ELSE "conflict"
  <2>1. CASE t.draft = r.det.text
    <3>1. FALSE \in BOOLEAN /\ "saved" \in Statuses
      BY DEF Statuses
    <3> QED BY <2>1, <3>1
  <2>2. CASE t.draft # r.det.text
    <3>1. TRUE \in BOOLEAN /\ "conflict" \in Statuses
      BY DEF Statuses
    <3> QED BY <2>2, <3>1
  <2> QED BY <2>1, <2>2
<1>9. PICK u : u = [s EXCEPT !.attempt = None, !.pend = s.pend, !.slot = s.slot, !.det = r.det,
                             !.draft = s.draft, !.saved = r.det.text, !.status = st, !.conflict = c]
  OBVIOUS
<1>10. SetTab(d, u)
  <2>1. SetTab(d, [t EXCEPT !.reads = @ \ {r}, !.attempt = None, !.det = r.det,
                            !.saved = r.det.text, !.conflict = c, !.status = st])
    BY <1>3, <1>8
  <2>2. u = [t EXCEPT !.reads = @ \ {r}, !.attempt = None, !.det = r.det,
                      !.saved = r.det.text, !.conflict = c, !.status = st]
    BY <1>2, <1>6, <1>9 DEF Tabs
  <2> QED BY <2>1, <2>2
<1>11. Edited(s, u, None, s.pend, s.slot, r.det, s.draft, r.det.text, st, c)
  <2>1. Edits(s, u, None, s.pend, s.slot, r.det, s.draft, r.det.text, st, c)
    BY <1>9 DEF Edits
  <2>2. s \in Tabs /\ None \in Requests \cup {None}
    BY <1>7 DEF Moved
  <2> QED BY <1>5, <2>1, <2>2, EditedIs, TabFields
<1>12. Tab(u, d)
  <2>1. Slot(u, d)
    BY <1>2, <1>7, <1>11 DEF Tab, Slot, Moved, Edited
  <2>2. Copies(u)
    BY <1>2, <1>7, <1>11 DEF Tab, Copies, Edited
  <2>3. Phase(u, d)
    BY <1>2, <1>7, <1>8, <1>11 DEF Tab, Phase, Moved, Edited
  <2>4. Status(u)
    BY <1>5, <1>7, <1>8, <1>11 DEF Status, Moved, Edited, Past
  <2> QED BY <1>5, <1>11, <2>1, <2>2, <2>3, <2>4 DEF Tab, Edited
<1>13. Known(wire, u, d) /\ Survives(u, newest[d])
  BY <1>1, <1>2, <1>7, <1>11 DEF Known, Marked, Keyed, Survives, Moved, Edited
<1> QED BY <1>1, <1>4, <1>7, <1>10, <1>11, <1>12, <1>13, SilentKeeps DEF Edited, Moved

LEMMA FailRemoveKeeps ==
  ASSUME DraftsInv, NEW d \in Devices, FailRemove(d)
  PROVE  DraftsInv'
<1>1. PICK t : t = tab[d]
  OBVIOUS
<1>2. t \in Tabs /\ Tab(t, d)
  BY <1>1 DEF DraftsInv, Page, Types
<1>3. PICK u : u = [t EXCEPT !.current = FALSE, !.more = "no"]
  OBVIOUS
<1>4. SetTab(d, u) /\ t.phase = "no"
  BY <1>1, <1>3 DEF FailRemove, Invalidated, Sending
<1>5. UNCHANGED <<server, applied, kept, asked, wire, typed, newest>>
  BY DEF FailRemove, ghostVars
<1>6. Moved(t, u) /\ u.phase = t.phase /\ u.current = FALSE /\ u.reads = t.reads
  BY <1>2, <1>3 DEF Tabs, Moved
<1>7. Copies(u) /\ Phase(u, d) /\ (u.status = "saving" => u.call # None \/ ~u.current)
  BY <1>2, <1>4, <1>6 DEF Tab, Copies, Phase, Moved, Status
<1> QED BY <1>1, <1>4, <1>5, <1>6, <1>7, MovedKeeps

-------------------------------------------------------------------------------
(* Typing *)

LEMMA TypeKeeps ==
  ASSUME DraftsInv, NEW d \in Devices, Type(d)
  PROVE  DraftsInv'
<1>1. PICK t : t = tab[d]
  OBVIOUS
<1>2. t \in Tabs /\ Tab(t, d) /\ Survives(t, newest[d])
  BY <1>1 DEF DraftsInv, Page, Types
<1>3. typed \in Seq(Devices) /\ Len(typed) + 1 \in Nat /\ Len(typed) \in Nat
  BY DEF DraftsInv, Types
<1>4. PICK n : n = Len(typed) + 1
  OBVIOUS
<1>5. PICK p : p = PendingDraft(n, t.det.rev, t.attempt)
  OBVIOUS
<1>6. PICK u : u = Typed([t EXCEPT !.pend = p, !.slot = p], n)
  OBVIOUS
<1>7. /\ SetTab(d, u) /\ newest' = [newest EXCEPT ![d] = n] /\ typed' = Append(typed, d)
      /\ UNCHANGED <<server, applied, wire, kept, asked>>
      /\ t.phase = "no" /\ t.send = None
  BY <1>1, <1>4, <1>5, <1>6 DEF Type, Sending
<1>8. n \in Nat
  BY <1>3, <1>4
<1>9. p \in Pendings /\ p # None /\ p.kind = "draft" /\ p.text = n /\ p.at = n
  <2>1. t.det.rev \in Nat /\ t.attempt \in Requests \cup {None}
    BY <1>2 DEF Tabs, Details
  <2>2. p = [kind |-> "draft", text |-> n, at |-> n, base |-> t.det.rev, pred |-> t.attempt,
             ident |-> None]
    BY <1>5 DEF PendingDraft
  <2>3. p \in Pendings
    BY <1>8, <2>1, <2>2 DEF Pendings
  <2> QED BY <2>2, <2>3, Constants
<1>10. PICK st \in Statuses :
         st = IF t.conflict THEN "conflict" ELSE IF n = t.saved THEN "saved" ELSE "pending"
  BY DEF Statuses
<1>11. Edits(t, u, t.attempt, p, p, t.det, n, t.saved, st, t.conflict)
  BY <1>2, <1>6, <1>10 DEF Typed, Edits, Tabs
<1>12. Edited(t, u, t.attempt, p, p, t.det, n, t.saved, st, t.conflict)
  BY <1>2, <1>8, <1>9, <1>11, EditedIs, TabFields
<1>13. Tab(u, d)
  <2>1. Slot(u, d)
    BY <1>2, <1>7, <1>9, <1>12 DEF Tab, Slot, Edited
  <2>2. Copies(u)
    BY <1>2, <1>12 DEF Tab, Copies, Edited
  <2>3. Phase(u, d)
    BY <1>7, <1>12 DEF Phase, Edited
  <2>4. Status(u)
    BY <1>2, <1>10, <1>12 DEF Tab, Status, Edited
  <2> QED BY <1>2, <1>12, <2>1, <2>2, <2>3, <2>4 DEF Tab, Edited
<1>14. newest' \in [Devices -> Nat] /\ newest'[d] = n
       /\ \A x \in Devices \ {d} : newest'[x] = newest[x]
  BY <1>7, <1>8 DEF DraftsInv, Types
<1>15. Survives(u, newest'[d])
  BY <1>9, <1>12, <1>14 DEF Survives, Edited
<1>16. Wire(wire', u, d)
  <2>1. Wire(wire, t, d) /\ wire' = wire
    BY <1>1, <1>7 DEF DraftsInv, Page
  <2> QED BY <1>12, <2>1 DEF Wire, Edited
<1>17. u \in Tabs
  BY <1>12 DEF Edited
<1>18. tab' \in [Devices -> Tabs] /\ tab'[d] = u /\ \A x \in Devices \ {d} : tab'[x] = tab[x]
  BY <1>7, <1>17, NewTab DEF DraftsInv
<1>19. Local(d)
  BY <1>7, <1>14, <1>18 DEF Local, DraftsInv, Types
<1>20. Draws(d)
  <2>1. \A a, x \in Nat : Marked(wire', u, d, a, x) => Marked(wire, t, d, a, x) \/ (a = n /\ x = n)
    BY <1>7, <1>9, <1>12 DEF Marked, Edited
  <2>2. \A a \in Nat : Keyed(u, a) => Keyed(t, a)
    BY <1>9, <1>12 DEF Keyed, Edited
  <2>3. \E y \in Nat : \A a, x \in Nat : Marked(wire', tab'[d], d, a, x) =>
           Marked(wire, tab[d], d, a, x) \/ (a = Len(typed) + 1 /\ x = y)
    BY <1>1, <1>4, <1>8, <1>18, <2>1
  <2> QED BY <1>1, <1>7, <1>18, <2>2, <2>3 DEF Draws
<1> QED BY <1>13, <1>15, <1>16, <1>18, <1>19, <1>20, PageKeeps

LEMMA RevertKeeps ==
  ASSUME DraftsInv, NEW d \in Devices, Revert(d)
  PROVE  DraftsInv'
<1>1. PICK t : t = tab[d]
  OBVIOUS
<1>2. t \in Tabs /\ Tab(t, d)
  BY <1>1 DEF DraftsInv, Page, Types
<1>3. PICK u : u = Typed([t EXCEPT !.pend = None, !.slot = None], t.saved)
  OBVIOUS
<1>4. /\ SetTab(d, u) /\ newest' = [newest EXCEPT ![d] = 0]
      /\ UNCHANGED <<server, applied, wire, kept, asked, typed>>
      /\ t.phase = "no" /\ t.send = None
  BY <1>1, <1>3 DEF Revert, Sending
<1>5. PICK st \in Statuses : st = IF t.conflict THEN "conflict" ELSE "saved"
  BY DEF Statuses
<1>6. Edits(t, u, t.attempt, None, None, t.det, t.saved, t.saved, st, t.conflict)
  BY <1>2, <1>3, <1>5 DEF Typed, Edits, Tabs
<1>7. Edited(t, u, t.attempt, None, None, t.det, t.saved, t.saved, st, t.conflict)
  <2>1. None \in Pendings \cup {None}
    OBVIOUS
  <2> QED BY <1>2, <1>6, <2>1, EditedIs, TabFields
<1>8. Tab(u, d)
  <2>1. Slot(u, d)
    BY <1>2, <1>4, <1>7 DEF Tab, Slot, Edited
  <2>2. Copies(u)
    BY <1>2, <1>7 DEF Tab, Copies, Edited
  <2>3. Phase(u, d)
    BY <1>4, <1>7 DEF Phase, Edited
  <2>4. Status(u)
    BY <1>2, <1>5, <1>7 DEF Tab, Status, Edited
  <2> QED BY <1>2, <1>7, <2>1, <2>2, <2>3, <2>4 DEF Tab, Edited
<1>9. Newly(d) /\ newest'[d] = 0
  BY <1>4 DEF DraftsInv, Types, Newly
<1>10. Survives(u, newest'[d])
  BY <1>9 DEF Survives
<1>11. Known(wire, u, d)
  BY <1>1, <1>7 DEF Known, Marked, Keyed, Edited
<1> QED BY <1>1, <1>4, <1>7, <1>8, <1>9, <1>10, <1>11, QuietKeeps DEF Edited

-------------------------------------------------------------------------------
(* Sending *)

LEMMA CaptureKeeps ==
  ASSUME DraftsInv, NEW d \in Devices, Capture(d)
  PROVE  DraftsInv'
<1>1. PICK t : t = tab[d]
  OBVIOUS
<1>2. /\ t \in Tabs /\ Tab(t, d) /\ Survives(t, newest[d]) /\ Wire(wire, t, d)
  BY <1>1 DEF DraftsInv, Page, Types
<1>3. typed \in Seq(Devices) /\ Len(typed) + 1 \in Nat /\ Len(typed) \in Nat
  BY DEF DraftsInv, Types
<1>4. t.pc = "open" /\ t.phase = "saving" /\ t.call = None /\ t.send = None
      /\ UNCHANGED <<server, applied, kept, asked, wire, newest>>
  BY <1>1, <1>2 DEF Capture, Open, Rest, Tab, Phase
<1>5. CASE t.conflict \/ t.status = "error" \/ ~t.det.live
  <2>1. PICK u : u = [t EXCEPT !.phase = "no"]
    OBVIOUS
  <2>2. SetTab(d, u) /\ UNCHANGED typed
    BY <1>1, <1>5, <2>1 DEF Capture
  <2>3. Moved(t, u) /\ u.phase = "no" /\ u.current = t.current /\ u.reads = t.reads
    BY <1>2, <2>1 DEF Tabs, Moved, Phases
  <2>4. Copies(u) /\ Phase(u, d) /\ (u.status = "saving" => u.call # None \/ ~u.current)
    BY <1>2, <1>4, <2>3 DEF Tab, Copies, Phase, Moved, Status
  <2> QED BY <1>1, <1>4, <2>2, <2>3, <2>4, MovedKeeps
<1>6. CASE ~(t.conflict \/ t.status = "error" \/ ~t.det.live)
  <2>1. PICK n : n = Len(typed) + 1
    OBVIOUS
  <2>2. PICK p : p = [kind |-> "send", text |-> t.draft, at |-> n, base |-> t.det.rev,
                      pred |-> None, ident |-> Identity(t)]
    OBVIOUS
  <2>3. PICK u : u = [t EXCEPT !.send = p, !.slot = p, !.phase = "ask"]
    OBVIOUS
  <2>4. SetTab(d, u) /\ typed' = Append(typed, d)
    BY <1>1, <1>6, <2>1, <2>2, <2>3 DEF Capture
  <2>5. /\ p \in Pendings /\ p # None /\ p.kind = "send" /\ p.text = t.draft /\ p.at = n
        /\ p.ident # None => p.ident.text = t.saved
    <3>1. t.draft \in Nat /\ t.saved \in Nat /\ t.det.rev \in Nat /\ t.det.at \in Nat /\ n \in Nat
      BY <1>2, <1>3, <2>1 DEF Tabs, Details
    <3>2. Identity(t) \in Identities \cup {None}
          /\ (Identity(t) # None => Identity(t).text = t.saved)
      BY <3>1 DEF Identity, Identities
    <3>3. p \in Pendings
      BY <2>2, <3>1, <3>2 DEF Pendings
    <3> QED BY <2>2, <3>2, <3>3, Constants
  <2>6. /\ u \in Tabs
        /\ u.pc = t.pc /\ u.slot = p /\ u.det = t.det /\ u.draft = t.draft /\ u.saved = t.saved
        /\ u.status = t.status /\ u.conflict = t.conflict /\ u.attempt = t.attempt
        /\ u.pend = t.pend /\ u.send = p /\ u.phase = "ask" /\ u.call = t.call
        /\ u.current = t.current /\ u.reads = t.reads
    BY <1>2, <2>3, <2>5 DEF Tabs, Phases
  <2>7. server.live => t.saved = t.draft \/ Own(t.saved, d)
    BY <1>2, <1>4, <1>6 DEF Tab, Phase
  <2>8. Slot(u, d)
    BY <1>2, <1>4, <2>5, <2>6, <2>7 DEF Tab, Slot
  <2>9. Copies(u) /\ Phase(u, d) /\ Status(u)
    BY <1>2, <1>4, <2>5, <2>6 DEF Tab, Copies, Phase, Status
  <2>10. Tab(u, d)
    BY <1>2, <2>6, <2>8, <2>9 DEF Tab
  <2>11. Survives(u, newest[d])
    BY <1>2, <1>4, <2>5, <2>6 DEF Survives, Tab, Slot
  <2>12. Wire(wire', u, d)
    BY <1>2, <1>4, <2>6 DEF Wire
  <2>13. tab' \in [Devices -> Tabs] /\ tab'[d] = u /\ \A x \in Devices \ {d} : tab'[x] = tab[x]
    BY <2>4, <2>6, NewTab DEF DraftsInv
  <2>14. Local(d)
    BY <1>4, <2>13 DEF Local, DraftsInv, Types
  <2>15. Draws(d)
    <3>1. \A a, x \in Nat : Marked(wire', u, d, a, x) => Marked(wire, t, d, a, x)
      BY <1>4, <2>5, <2>6 DEF Marked
    <3>2. \A a \in Nat : Keyed(u, a) => Keyed(t, a) \/ a = Len(typed) + 1
      BY <2>1, <2>5, <2>6 DEF Keyed
    <3> QED BY <1>1, <2>4, <2>13, <3>1, <3>2 DEF Draws
  <2> QED BY <1>4, <2>10, <2>11, <2>12, <2>13, <2>14, <2>15, PageKeeps
<1> QED BY <1>5, <1>6

LEMMA ReadBackKeeps ==
  ASSUME DraftsInv, NEW d \in Devices, ReadBack(d)
  PROVE  DraftsInv'
<1>1. PICK t : t = tab[d]
  OBVIOUS
<1>2. t \in Tabs /\ Tab(t, d)
  BY <1>1 DEF DraftsInv, Page, Types
<1>3. t.phase = "asked" /\ UNCHANGED <<server, applied, kept, asked, wire, typed, newest>>
  BY <1>1 DEF ReadBack, ghostVars
<1>4. t.send # None /\ t.send.text \in asked /\ \A r \in t.reads : r.what # "send"
  BY <1>2, <1>3 DEF Tab, Phase, Copies
<1>5. PICK r \in Reads : r.what = "send" /\ r.det = server /\ r = [what |-> "send", det |-> server]
  <2>1. [what |-> "send", det |-> server] \in Reads
    BY ServerIsPast DEF Reads
  <2> QED BY <2>1
<1>6. CASE SetTab(d, [t EXCEPT !.phase = "reading",
                               !.reads = @ \cup {[what |-> "send", det |-> server]}])
  <2>1. PICK u : u = [t EXCEPT !.phase = "reading", !.reads = @ \cup {r}]
    OBVIOUS
  <2>2. SetTab(d, u)
    BY <1>5, <1>6, <2>1
  <2>3. Moved(t, u) /\ u.phase = "reading" /\ u.current = t.current /\ u.reads = t.reads \cup {r}
    BY <1>2, <2>1 DEF Tabs, Moved, Phases
  <2>4. Copies(u)
    BY <1>2, <1>4, <1>5, <2>3, ServerIsPast DEF Tab, Copies
  <2>5. Phase(u, d) /\ (u.status = "saving" => u.call # None \/ ~u.current)
    BY <1>2, <1>4, <2>3 DEF Tab, Phase, Moved, Status
  <2> QED BY <1>1, <1>3, <2>2, <2>3, <2>4, <2>5, MovedKeeps
<1>7. CASE SetTab(d, [t EXCEPT !.phase = "no"])
  <2>1. PICK u : u = [t EXCEPT !.phase = "no"]
    OBVIOUS
  <2>2. SetTab(d, u)
    BY <1>7, <2>1
  <2>3. Moved(t, u) /\ u.phase = "no" /\ u.current = t.current /\ u.reads = t.reads
    BY <1>2, <2>1 DEF Tabs, Moved, Phases
  <2>4. Copies(u) /\ Phase(u, d) /\ (u.status = "saving" => u.call # None \/ ~u.current)
    BY <1>2, <1>4, <2>3 DEF Tab, Copies, Phase, Moved, Status
  <2> QED BY <1>1, <1>3, <2>2, <2>3, <2>4, MovedKeeps
<1> QED BY <1>1, <1>6, <1>7 DEF ReadBack

LEMMA EndRetryKeeps ==
  ASSUME DraftsInv, NEW d \in Devices, EndRetry(d)
  PROVE  DraftsInv'
<1>1. PICK t : t = tab[d]
  OBVIOUS
<1>2. t \in Tabs /\ Tab(t, d)
  BY <1>1 DEF DraftsInv, Page, Types
<1>3. /\ t.pc = "open" /\ t.send # None /\ t.phase = "no"
      /\ UNCHANGED <<server, applied, wire, kept, asked, typed>>
      /\ newest' = [newest EXCEPT ![d] = 0]
      /\ SetTab(d, [Cleared(t, t.send.at) EXCEPT !.send = None])
  BY <1>1 DEF EndRetry, Open, Sending
<1>4. PICK u : u = [Cleared(t, t.send.at) EXCEPT !.send = None]
  OBVIOUS
<1>5. t.slot = t.send
  BY <1>2, <1>3 DEF Tab, Slot
<1>6. u = [t EXCEPT !.slot = None, !.send = None]
  BY <1>2, <1>3, <1>4, <1>5 DEF Cleared, Tabs
<1>7. /\ u \in Tabs
      /\ u.pc = t.pc /\ u.slot = None /\ u.det = t.det /\ u.draft = t.draft /\ u.saved = t.saved
      /\ u.status = t.status /\ u.conflict = t.conflict /\ u.attempt = t.attempt
      /\ u.pend = t.pend /\ u.send = None /\ u.phase = t.phase /\ u.call = t.call
      /\ u.current = t.current /\ u.reads = t.reads
  BY <1>2, <1>6 DEF Tabs
<1>8. Slot(u, d) /\ Copies(u) /\ Phase(u, d) /\ Status(u)
  BY <1>2, <1>3, <1>7 DEF Tab, Slot, Copies, Phase, Status
<1>9. Tab(u, d)
  BY <1>2, <1>7, <1>8 DEF Tab
<1>10. Newly(d) /\ newest'[d] = 0
  BY <1>3 DEF DraftsInv, Types, Newly
<1>11. Survives(u, newest'[d]) /\ Known(wire, u, d)
  BY <1>1, <1>7, <1>10 DEF Survives, Known, Marked, Keyed
<1> QED BY <1>1, <1>3, <1>4, <1>7, <1>9, <1>10, <1>11, QuietKeeps

\* A workbench that has just mounted, or just left.
Fresh(u, x, p) ==
  /\ u \in Tabs
  /\ u.slot = p /\ u.det = x /\ u.draft = x.text /\ u.saved = x.text /\ u.status = "idle"
  /\ u.conflict = FALSE /\ u.attempt = None /\ u.pend = None /\ u.send = None
  /\ u.phase = "no" /\ u.call = None /\ u.reads = {}

LEMMA MountedIs ==
  ASSUME NEW x \in Details, NEW p \in Pendings \cup {None}
  PROVE  Fresh(Mounted(x, p), x, p) /\ Mounted(x, p).pc = "open"
<1>1. x.text \in Nat
  BY DEF Details
<1>2. Mounted(x, p) \in Tabs
  BY <1>1 DEF Mounted, Tabs, Statuses, Phases, Reads
<1> QED BY <1>2 DEF Mounted, Fresh

LEMMA UnmountedIs ==
  ASSUME NEW x \in Details, NEW p \in Pendings \cup {None}
  PROVE  Fresh(Unmounted(x, p), x, p) /\ Unmounted(x, p).pc = "closed"
<1>1. PICK m : m = Mounted(x, p)
  OBVIOUS
<1>2. PICK u : u = [m EXCEPT !.pc = "closed"]
  OBVIOUS
<1>3. m \in Tabs /\ Fresh(m, x, p)
  <2>1. Fresh(m, x, p)
    BY <1>1, MountedIs
  <2> QED BY <2>1 DEF Fresh
<1>4. /\ u \in Tabs /\ u.pc = "closed"
      /\ u.slot = m.slot /\ u.det = m.det /\ u.draft = m.draft /\ u.saved = m.saved
      /\ u.status = m.status /\ u.conflict = m.conflict /\ u.attempt = m.attempt
      /\ u.pend = m.pend /\ u.send = m.send /\ u.phase = m.phase /\ u.call = m.call
      /\ u.reads = m.reads
  BY <1>2, <1>3 DEF Tabs
<1>5. u = Unmounted(x, p)
  BY <1>1, <1>2 DEF Unmounted
<1> QED BY <1>3, <1>4, <1>5 DEF Fresh

LEMMA CompleteKeeps ==
  ASSUME DraftsInv, NEW d \in Devices, Complete(d)
  PROVE  DraftsInv'
<1>1. PICK t : t = tab[d]
  OBVIOUS
<1>2. t \in Tabs /\ Tab(t, d) /\ Survives(t, newest[d])
  BY <1>1 DEF DraftsInv, Page, Types
<1>3. PICK r \in t.reads :
        /\ r.what = "send"
        /\ LET v == [Mounted(r.det, Cleared(t, t.send.at).slot) EXCEPT !.reads = t.reads \ {r}] IN
           IF r.det.live /\ Matches(t.send.ident, r.det)
           THEN Save(d, [Typed(v, 0) EXCEPT !.phase = IF r.det.text = 0 THEN "no" ELSE "clearing"],
                     wire, TRUE)
           ELSE SetTab(d, v) /\ UNCHANGED <<wire, typed>>
  BY <1>1 DEF Complete
<1>4. UNCHANGED <<server, applied, kept, asked, newest>>
  BY DEF Complete
<1>5. r \in Reads /\ r.det \in Details /\ Past(r.det)
  BY <1>2, <1>3 DEF Tab, Copies, Tabs, Reads
<1>6. /\ t.phase = "reading" /\ t.send # None /\ t.send.text \in asked
      /\ t.slot = t.send /\ t.send.kind = "send" /\ t.call = None /\ t.pc = "open"
  BY <1>2, <1>3 DEF Tab, Copies, Phase, Slot
<1>7. Cleared(t, t.send.at).slot = None
  BY <1>2, <1>6 DEF Cleared, Tabs
<1>8. PICK m : m = Mounted(r.det, None)
  OBVIOUS
<1>9. /\ m \in Tabs /\ m.pc = "open"
      /\ m.slot = None /\ m.det = r.det /\ m.draft = r.det.text /\ m.saved = r.det.text
      /\ m.status = "idle" /\ m.conflict = FALSE /\ m.attempt = None /\ m.pend = None
      /\ m.send = None /\ m.phase = "no" /\ m.call = None
  <2>1. None \in Pendings \cup {None}
    OBVIOUS
  <2>2. Fresh(m, r.det, None) /\ m.pc = "open"
    BY <1>5, <1>8, <2>1, MountedIs
  <2> QED BY <2>2 DEF Fresh
<1>10. PICK v : v = [m EXCEPT !.reads = t.reads \ {r}]
  OBVIOUS
<1>11. /\ v \in Tabs /\ v.pc = "open"
       /\ v.slot = None /\ v.det = r.det /\ v.draft = r.det.text /\ v.saved = r.det.text
       /\ v.status = "idle" /\ v.conflict = FALSE /\ v.attempt = None /\ v.pend = None
       /\ v.send = None /\ v.phase = "no" /\ v.call = None /\ v.reads = t.reads \ {r}
  <2>1. t.reads \ {r} \in SUBSET Reads
    BY <1>2 DEF Tabs
  <2> QED BY <1>9, <1>10, <2>1 DEF Tabs
<1>12. IF r.det.live /\ Matches(t.send.ident, r.det)
       THEN Save(d, [Typed(v, 0) EXCEPT !.phase = IF r.det.text = 0 THEN "no" ELSE "clearing"],
                 wire, TRUE)
       ELSE SetTab(d, v) /\ UNCHANGED <<wire, typed>>
  BY <1>3, <1>7, <1>8, <1>10
<1>13. \A q \in v.reads : Past(q.det) /\ q.what # "send"
  BY <1>2, <1>3, <1>11 DEF Tab, Copies
<1>14. newest[d] # 0 /\ server.live => Stored(newest[d]) \/ newest[d] \in asked
  BY <1>2, <1>6 DEF Survives
<1>15. CASE r.det.live /\ Matches(t.send.ident, r.det)
  <2>1. PICK ph \in {"no", "clearing"} : /\ ph = IF r.det.text = 0 THEN "no" ELSE "clearing"
                                         /\ ph = "clearing" => r.det.text # 0
    <3>1. CASE r.det.text = 0
      BY <3>1
    <3>2. CASE r.det.text # 0
      BY <3>2
    <3> QED BY <3>1, <3>2
  <2>2. PICK st \in {"saved", "pending"} :
          /\ st = IF 0 = r.det.text THEN "saved" ELSE "pending"
          /\ st = "saved" => r.det.text = 0
          /\ st = "pending" => r.det.text # 0
    <3>1. CASE r.det.text = 0
      BY <3>1
    <3>2. CASE r.det.text # 0
      BY <3>2
    <3> QED BY <3>1, <3>2
  <2>3. PICK u : u = [v EXCEPT !.draft = 0, !.status = st, !.phase = ph]
    OBVIOUS
  <2>4. Save(d, u, wire, TRUE)
    <3>1. Typed(v, 0) = [v EXCEPT !.draft = 0, !.status = st]
      BY <1>11, <2>2 DEF Typed
    <3>2. u = [Typed(v, 0) EXCEPT !.phase = ph]
      BY <1>11, <2>3, <3>1 DEF Tabs
    <3> QED BY <1>12, <1>15, <2>1, <3>2
  <2>5. /\ u \in Tabs /\ u.pc = "open"
        /\ u.slot = None /\ u.det = r.det /\ u.draft = 0 /\ u.saved = r.det.text
        /\ u.status = st /\ u.conflict = FALSE /\ u.attempt = None /\ u.pend = None
        /\ u.send = None /\ u.phase = ph /\ u.call = None /\ u.reads = v.reads
    <3>1. v \in Tabs /\ st \in Statuses /\ ph \in Phases
      BY <1>11, <2>1, <2>2 DEF Statuses, Phases
    <3>2. u \in Tabs
      BY <2>3, <3>1 DEF Tabs
    <3>3. /\ u.pc = v.pc /\ u.slot = v.slot /\ u.det = v.det /\ u.draft = 0 /\ u.saved = v.saved
          /\ u.status = st /\ u.conflict = v.conflict /\ u.attempt = v.attempt
          /\ u.pend = v.pend /\ u.send = v.send /\ u.phase = ph /\ u.call = v.call
          /\ u.reads = v.reads
      BY <2>3, <3>1 DEF Tabs
    <3> QED BY <1>11, <3>2, <3>3
  <2>6. server.live => r.det.text \in asked \/ Own(r.det.text, d)
    BY <1>2, <1>6, <1>15 DEF Tab, Slot, Matches, SameDraft
  <2>7. Slot(u, d) /\ Copies(u)
    BY <1>13, <2>5 DEF Slot, Copies
  <2>8. Status(u)
    BY <1>5, <2>2, <2>5 DEF Status, Past
  <2>9. Ready(u, d)
    BY <1>5, <1>15, <2>1, <2>5, <2>6, <2>7, <2>8 DEF Ready
  <2>10. Known(wire, u, d)
    BY <2>5 DEF Known, Marked, Keyed
  <2>11. Survives(u, newest[d])
    BY <1>14 DEF Survives
  <2>12. PICK w, force : w = wire /\ force = TRUE
    OBVIOUS
  <2> QED BY <1>1, <1>4, <1>6, <2>4, <2>5, <2>9, <2>10, <2>11, <2>12, WireWhole, SaveKeeps
<1>16. CASE ~(r.det.live /\ Matches(t.send.ident, r.det))
  <2>1. SetTab(d, v) /\ UNCHANGED <<wire, typed>>
    BY <1>12, <1>16
  <2>2. Slot(v, d) /\ Copies(v) /\ Phase(v, d)
    BY <1>11, <1>13 DEF Slot, Copies, Phase
  <2>3. Status(v)
    BY <1>5, <1>11 DEF Status, Past
  <2>4. Tab(v, d)
    BY <1>5, <1>11, <2>2, <2>3 DEF Tab
  <2>5. Known(wire, v, d)
    BY <1>11 DEF Known, Marked, Keyed
  <2>6. Survives(v, newest[d])
    BY <1>14 DEF Survives
  <2> QED BY <1>1, <1>4, <1>6, <1>11, <2>1, <2>4, <2>5, <2>6, SilentKeeps
<1> QED BY <1>15, <1>16

-------------------------------------------------------------------------------
(* Opening and closing the page *)

\* What the page of d opens with, once it has seen server as x with p in the slot.
LEMMA RecoveredIs ==
  ASSUME DraftsInv, NEW d \in Devices, ~Open(d), NEW u, u = Recovered(d)
  PROVE  /\ u \in Tabs /\ Tab(u, d) /\ u.call = None /\ Known(wire, u, d)
         /\ Survives(u, newest[d])
<1>1. PICK t : t = tab[d]
  OBVIOUS
<1>2. t \in Tabs /\ Tab(t, d) /\ Survives(t, newest[d]) /\ t.slot \in Pendings \cup {None}
  BY <1>1 DEF DraftsInv, Page, Types, Tabs
<1>3. PICK p \in Pendings \cup {None} : p = t.slot
  BY <1>2
<1>4. PICK x \in Details : x = server
  BY ServerIsPast
<1>5. /\ Past(x) /\ x.rev \in Nat /\ x.text \in Nat
      /\ p # None /\ p.kind = "send" /\ p.ident # None /\ server.live =>
           p.ident.text = p.text \/ Own(p.ident.text, d)
  BY <1>2, <1>3, <1>4, ServerIsPast DEF Tab, Slot, Details
<1>6. PICK m : m = Mounted(x, p)
  OBVIOUS
<1>7. Fresh(m, x, p) /\ m.pc = "open"
  BY <1>6, MountedIs
<1>8. u = IF p = None THEN m
          ELSE IF p.kind = "send" THEN [m EXCEPT !.send = p, !.draft = p.text]
          ELSE CASE Resolution(p, x) \in {"settled", "unavailable"} -> Cleared(m, p.at)
                 [] Resolution(p, x) = "continue" ->
                      Typed([m EXCEPT !.pend = Rebased(p, x.rev), !.slot = Rebased(p, x.rev)], p.text)
                 [] OTHER -> Conflicted(Typed([m EXCEPT !.pend = p], p.text))
  BY <1>1, <1>3, <1>4, <1>6 DEF Recovered
<1>9. CASE p = None
  <2>1. u = m
    BY <1>8, <1>9
  <2>2. Slot(u, d) /\ Copies(u) /\ Phase(u, d)
    BY <1>7, <1>9, <2>1 DEF Fresh, Slot, Copies, Phase
  <2>3. Tab(u, d)
    BY <1>5, <1>7, <2>1, <2>2 DEF Fresh, Tab, Status, Past
  <2>4. Known(wire, u, d) /\ Survives(u, newest[d])
    BY <1>2, <1>3, <1>7, <1>9, <2>1 DEF Fresh, Known, Marked, Keyed, Survives
  <2> QED BY <1>7, <2>1, <2>3, <2>4 DEF Fresh
<1>10. CASE p # None /\ p.kind = "send"
  <2>1. u = [m EXCEPT !.send = p, !.draft = p.text]
    BY <1>8, <1>10
  <2>2. m \in Tabs /\ p \in Pendings /\ p.text \in Nat
    BY <1>7, <1>10 DEF Fresh, Pendings
  <2>3. /\ u \in Tabs /\ u.pc = "open" /\ u.send = p /\ u.draft = p.text
        /\ u.slot = p /\ u.det = x /\ u.saved = x.text /\ u.status = "idle"
        /\ u.conflict = FALSE /\ u.attempt = None /\ u.pend = None
        /\ u.phase = "no" /\ u.call = None /\ u.reads = {}
    <3>1. u \in Tabs
      BY <2>1, <2>2 DEF Tabs
    <3>2. /\ u.pc = m.pc /\ u.send = p /\ u.draft = p.text /\ u.slot = m.slot /\ u.det = m.det
          /\ u.saved = m.saved /\ u.status = m.status /\ u.conflict = m.conflict
          /\ u.attempt = m.attempt /\ u.pend = m.pend /\ u.phase = m.phase /\ u.call = m.call
          /\ u.reads = m.reads
      BY <2>1, <2>2 DEF Tabs
    <3> QED BY <1>7, <3>1, <3>2 DEF Fresh
  <2>4. Slot(u, d) /\ Copies(u) /\ Phase(u, d)
    BY <1>5, <1>10, <2>3 DEF Slot, Copies, Phase
  <2>5. Tab(u, d)
    BY <1>5, <2>3, <2>4 DEF Tab, Status, Past
  <2>6. Known(wire, u, d) /\ Survives(u, newest[d])
    BY <1>1, <1>2, <1>3, <1>10, <2>3 DEF Known, Marked, Keyed, Survives
  <2> QED BY <2>3, <2>5, <2>6
<1>11. CASE p # None /\ p.kind = "draft"
  <2>1. m \in Tabs /\ p \in Pendings /\ p.text \in Nat
    BY <1>7, <1>11 DEF Fresh, Pendings
  <2>2. Resolution(p, x) \in {"settled", "unavailable", "continue", "conflict"}
    BY DEF Resolution
  <2>3. CASE Resolution(p, x) \in {"settled", "unavailable"}
    <3>1. u = [m EXCEPT !.slot = None]
      BY <1>7, <1>8, <1>11, <2>3 DEF Cleared, Fresh
    <3>2. /\ u \in Tabs /\ u.pc = "open" /\ u.send = None /\ u.draft = x.text
          /\ u.slot = None /\ u.det = x /\ u.saved = x.text /\ u.status = "idle"
          /\ u.conflict = FALSE /\ u.attempt = None /\ u.pend = None
          /\ u.phase = "no" /\ u.call = None /\ u.reads = {}
      <4>1. u \in Tabs
        BY <2>1, <3>1 DEF Tabs
      <4>2. /\ u.pc = m.pc /\ u.send = m.send /\ u.draft = m.draft /\ u.slot = None
            /\ u.det = m.det
            /\ u.saved = m.saved /\ u.status = m.status /\ u.conflict = m.conflict
            /\ u.attempt = m.attempt /\ u.pend = m.pend /\ u.phase = m.phase /\ u.call = m.call
            /\ u.reads = m.reads
        BY <2>1, <3>1 DEF Tabs
      <4> QED BY <1>7, <4>1, <4>2 DEF Fresh
    <3>3. Slot(u, d) /\ Copies(u) /\ Phase(u, d)
      BY <3>2 DEF Slot, Copies, Phase
    <3>4. Tab(u, d)
      BY <1>5, <3>2, <3>3 DEF Tab, Status, Past
    <3>5. ~server.live \/ Stored(p.text)
      BY <1>4, <1>5, <2>3 DEF Resolution, SameDraft, Past
    <3>6. Known(wire, u, d) /\ Survives(u, newest[d])
      BY <1>2, <1>3, <1>11, <3>2, <3>5 DEF Known, Marked, Keyed, Survives
    <3> QED BY <3>2, <3>4, <3>6
  <2>4. ASSUME NEW q \in Pendings, NEW st \in {"saved", "pending", "conflict"}, NEW c \in BOOLEAN,
               q.kind = "draft", q.text = p.text, q.at = p.at, q # None,
               st = "saved" => p.text = x.text, st = "pending" => p.text # x.text,
               st = "conflict" => c,
               u = [m EXCEPT !.pend = q, !.slot = q, !.draft = p.text, !.status = st, !.conflict = c]
        PROVE  /\ u \in Tabs /\ Tab(u, d) /\ u.call = None /\ Known(wire, u, d)
               /\ Survives(u, newest[d])
    <3>1. st \in Statuses
      BY DEF Statuses
    <3>2. u \in Tabs
      BY <2>1, <2>4, <3>1 DEF Tabs
    <3>3. /\ u.pc = m.pc /\ u.send = m.send /\ u.draft = p.text /\ u.slot = q /\ u.det = m.det
          /\ u.saved = m.saved /\ u.status = st /\ u.conflict = c
          /\ u.attempt = m.attempt /\ u.pend = q /\ u.phase = m.phase /\ u.call = m.call
          /\ u.reads = m.reads
      BY <2>1, <2>4 DEF Tabs
    <3>4. /\ u.pc = "open" /\ u.send = None /\ u.det = x /\ u.saved = x.text /\ u.attempt = None
          /\ u.phase = "no" /\ u.call = None /\ u.reads = {}
      BY <1>7, <3>3 DEF Fresh
    <3>5. Slot(u, d) /\ Copies(u) /\ Phase(u, d)
      BY <2>4, <3>3, <3>4 DEF Slot, Copies, Phase
    <3>6. Status(u)
      BY <1>5, <2>4, <3>3, <3>4 DEF Status, Past
    <3>7. Tab(u, d)
      BY <1>5, <3>4, <3>5, <3>6 DEF Tab
    <3>8. Known(wire, u, d) /\ Survives(u, newest[d])
      BY <1>1, <1>2, <1>3, <1>11, <2>4, <3>3, <3>4 DEF Known, Marked, Keyed, Survives
    <3> QED BY <3>2, <3>4, <3>7, <3>8
  <2>5. CASE Resolution(p, x) = "continue"
    <3>1. PICK q : q = Rebased(p, x.rev)
      OBVIOUS
    <3>2. q \in Pendings /\ q # None /\ q.kind = p.kind /\ q.text = p.text /\ q.at = p.at
      BY <1>5, <2>1, <3>1, RebasedIs
    <3>3. PICK st \in {"saved", "pending"} :
            /\ st = IF p.text = x.text THEN "saved" ELSE "pending"
            /\ st = "saved" => p.text = x.text
            /\ st = "pending" => p.text # x.text
      <4>1. CASE p.text = x.text
        BY <4>1
      <4>2. CASE p.text # x.text
        BY <4>2
      <4> QED BY <4>1, <4>2
    <3>4. u = Typed([m EXCEPT !.pend = q, !.slot = q], p.text)
      BY <1>8, <1>11, <2>5, <3>1
    <3>5. u = [m EXCEPT !.pend = q, !.slot = q, !.draft = p.text, !.status = st, !.conflict = FALSE]
      <4>1. PICK v : v = [m EXCEPT !.pend = q, !.slot = q]
        OBVIOUS
      <4>2. v.conflict = FALSE /\ v.saved = x.text
        BY <1>7, <2>1, <4>1 DEF Fresh, Tabs
      <4>3. u = [v EXCEPT !.draft = p.text, !.status = st]
        BY <3>3, <3>4, <4>1, <4>2 DEF Typed
      <4>4. m.conflict = FALSE
        BY <1>7 DEF Fresh
      <4> QED BY <2>1, <4>1, <4>3, <4>4 DEF Tabs
    <3>6. FALSE \in BOOLEAN /\ st \in {"saved", "pending", "conflict"} /\ st # "conflict"
      BY <3>3
    <3> QED BY <1>11, <2>4, <3>2, <3>3, <3>5, <3>6
  <2>6. CASE Resolution(p, x) = "conflict"
    <3>1. u = Conflicted(Typed([m EXCEPT !.pend = p], p.text))
      BY <1>8, <1>11, <2>6
    <3>2. u = [m EXCEPT !.pend = p, !.slot = p, !.draft = p.text, !.status = "conflict", !.conflict = TRUE]
      <4>1. PICK v, st : /\ v = [m EXCEPT !.pend = p, !.draft = p.text, !.status = st]
                         /\ u = [v EXCEPT !.conflict = TRUE, !.status = "conflict"]
        <5>1. PICK w, st : /\ w = [m EXCEPT !.pend = p]
                           /\ Typed(w, p.text) = [w EXCEPT !.draft = p.text, !.status = st]
          BY DEF Typed
        <5>2. Typed(w, p.text) = [m EXCEPT !.pend = p, !.draft = p.text, !.status = st]
          BY <2>1, <5>1 DEF Tabs
        <5> QED BY <3>1, <5>1, <5>2 DEF Conflicted
      <4>2. m.slot = p
        BY <1>7 DEF Fresh
      <4> QED BY <2>1, <4>1, <4>2 DEF Tabs
    <3>3. TRUE \in BOOLEAN /\ "conflict" \in {"saved", "pending", "conflict"}
      OBVIOUS
    <3> QED BY <1>11, <2>1, <2>4, <3>2, <3>3
  <2> QED BY <2>2, <2>3, <2>5, <2>6
<1> QED BY <1>9, <1>10, <1>11 DEF Pendings

LEMMA VisitKeeps ==
  ASSUME DraftsInv, NEW d \in Devices, Visit(d)
  PROVE  DraftsInv'
<1>1. PICK u : u = Recovered(d)
  OBVIOUS
<1>2. SetTab(d, u) /\ ~Open(d) /\ UNCHANGED <<server, applied, wire, typed, kept, newest, asked>>
  BY <1>1 DEF Visit
<1>3. /\ u \in Tabs /\ Tab(u, d) /\ u.call = None /\ Known(wire, u, d)
      /\ Survives(u, newest[d])
  BY <1>1, <1>2, RecoveredIs
<1>4. tab[d].call = None
  BY <1>2 DEF DraftsInv, Page, Tab, Slot, Types, Tabs, Open
<1> QED BY <1>2, <1>3, <1>4, SilentKeeps

\* The requests of a page that is gone.
LEMMA AbandonedIs ==
  ASSUME DraftsInv, NEW d \in Devices
  PROVE  /\ Remains(Abandoned(wire, d), d)
         /\ \A e \in Abandoned(wire, d) : e.by = d =>
              \E f \in wire : f.by = d /\ f.req = e.req
<1>1. wire \subseteq Entries /\ Wire(wire, tab[d], d)
  BY DEF DraftsInv, Types, Page
<1>2. \A e \in wire : LET f == [e EXCEPT !.heard = FALSE] IN
        /\ f \in Entries /\ f.by = e.by /\ f.req = e.req /\ f.stage = e.stage /\ f.det = e.det
        /\ ~f.heard
  BY <1>1 DEF Entries
<1>3. \A e \in Abandoned(wire, d) : e.by = d =>
        \E f \in wire : /\ f.by = d /\ f.stage \notin Answers
                        /\ e = [f EXCEPT !.heard = FALSE]
  BY DEF Abandoned
<1>4. \A e \in Abandoned(wire, d) : e.by = d =>
        \E f \in wire : /\ f.by = d /\ f.stage \notin Answers
                        /\ e.req = f.req /\ e.stage = f.stage /\ ~e.heard
  BY <1>2, <1>3
<1>5. Abandoned(wire, d) \subseteq Entries
  BY <1>1, <1>2 DEF Abandoned
<1>6. \A e : e.by # d => (e \in Abandoned(wire, d) <=> e \in wire)
  BY <1>2 DEF Abandoned
<1>7. Remains(Abandoned(wire, d), d)
  BY <1>1, <1>4, <1>5, <1>6 DEF Remains, Wire, Answers
<1> QED BY <1>4, <1>7

\* A page that is gone leaves its slot behind.
LEMMA ClosedTab ==
  ASSUME DraftsInv, NEW d \in Devices, Open(d), NEW p \in Pendings \cup {None}, NEW u,
         p = tab[d].slot \/ (p # None /\ p.kind = "draft"),
         u = Unmounted(tab[d].det, p)
  PROVE  u \in Tabs /\ Tab(u, d) /\ u.call = None /\ u.attempt = None /\ u.pend = None /\ u.slot = p
<1>1. tab[d] \in Tabs /\ Tab(tab[d], d)
  BY DEF DraftsInv, Page, Types
<1>2. tab[d].det \in Details
  BY <1>1 DEF Tabs
<1>3. PICK x : x = tab[d].det
  OBVIOUS
<1>4. Fresh(u, x, p) /\ u.pc = "closed" /\ Past(x)
  BY <1>1, <1>2, <1>3, UnmountedIs DEF Tab
<1>5. Slot(u, d)
  BY <1>1, <1>4 DEF Fresh, Tab, Slot
<1>6. Tab(u, d)
  BY <1>4, <1>5 DEF Fresh, Tab, Status, Copies, Phase, Past
<1> QED BY <1>4, <1>6 DEF Fresh

LEMMA LeaveKeeps ==
  ASSUME DraftsInv, NEW d \in Devices, Leave(d)
  PROVE  DraftsInv'
<1>1. PICK t : t = tab[d]
  OBVIOUS
<1>2. t \in Tabs /\ Tab(t, d) /\ Survives(t, newest[d])
  BY <1>1 DEF DraftsInv, Page, Types
<1>3. Open(d) /\ UNCHANGED <<server, applied, kept, asked, newest>>
  BY DEF Leave, Rest
<1>4. PICK w : w = Abandoned(wire, d)
  OBVIOUS
<1>5. Remains(w, d) /\ \A e \in w : e.by = d => \E f \in wire : f.by = d /\ f.req = e.req
  BY <1>4, AbandonedIs
<1>6. Newly(d)
  BY <1>3 DEF Newly, DraftsInv, Types
<1>7. CASE SetTab(d, Unmounted(t.det, t.slot)) /\ wire' = w /\ UNCHANGED typed
  <2>1. PICK u : u = Unmounted(t.det, t.slot)
    OBVIOUS
  <2>2. u \in Tabs /\ Tab(u, d) /\ u.call = None /\ u.attempt = None /\ u.pend = None /\ u.slot = t.slot
    <3>1. t.slot \in Pendings \cup {None}
      BY <1>2 DEF Tabs
    <3> QED BY <1>1, <1>3, <2>1, <3>1, ClosedTab
  <2>3. Known(w, u, d)
    <3>1. \A a, x \in Nat : Marked(w, u, d, a, x) => Marked(wire, t, d, a, x)
      BY <1>5, <2>2 DEF Marked
    <3> QED BY <1>1, <2>2, <3>1 DEF Known, Keyed
  <2>4. Survives(u, newest[d]) /\ newest'[d] = newest[d]
    BY <1>2, <1>3, <2>2 DEF Survives
  <2>5. Wire(w, u, d) /\ Others(w, d)
    BY <1>5, <2>2, WireRemains
  <2>6. SetTab(d, u)
    BY <1>7, <2>1
  <2> QED BY <1>3, <1>6, <1>7, <2>2, <2>3, <2>4, <2>5, <2>6, PageRests
<1>8. CASE /\ Flushes(t) /\ t.call = None /\ MaySave(t)
           /\ SetTab(d, Unmounted(t.det, Begun(t).slot))
           /\ wire' = w \cup {[by |-> d, req |-> Request(t), stage |-> "sent", det |-> None,
                               heard |-> FALSE]}
           /\ typed' = IF NewStamp(t) THEN Append(typed, d) ELSE typed
  <2>1. t.pc = "open" /\ t.send = None /\ t.slot \in {None, t.pend} /\ t.draft # t.saved
        /\ t.det.live
    BY <1>1, <1>2, <1>3, <1>8 DEF Open, MaySave, Flushes, Tab, Slot
  <2>2. typed \in Seq(Devices) /\ Len(typed) \in Nat
    BY DEF DraftsInv, Types
  <2>3. PICK req : req = Request(t)
    OBVIOUS
  <2>4. /\ req \in Requests
        /\ t.attempt # None => req = t.attempt
        /\ t.attempt = None =>
             /\ req.text = t.draft /\ req.exp = t.det.rev
             /\ req.cleanup = (t.phase = "clearing")
             /\ Owned(t) => req.at = t.pend.at
             /\ ~Owned(t) => req.at = Len(typed) + 1
    BY <1>2, <2>2, <2>3, RequestIs
  <2>5. PICK p : p = Begun(t).slot
    OBVIOUS
  <2>6. /\ p \in Pendings \cup {None}
        /\ \/ p = t.slot
           \/ /\ t.attempt = None /\ t.pend # None /\ p # None
              /\ p.kind = t.pend.kind /\ p.text = t.pend.text /\ p.at = t.pend.at
    BY <1>2, <2>5, BegunIs
  <2>7. t.pend # None => t.pend.kind = "draft"
    BY <1>2 DEF Tab, Slot
  <2>8. PICK u : u = Unmounted(t.det, p)
    OBVIOUS
  <2>9. u \in Tabs /\ Tab(u, d) /\ u.call = None /\ u.attempt = None /\ u.pend = None /\ u.slot = p
    BY <1>1, <1>3, <2>6, <2>7, <2>8, ClosedTab
  <2>10. PICK r \in Entries : /\ r.by = d /\ r.req = req /\ r.stage = "sent" /\ ~r.heard
                              /\ wire' = w \cup {r}
    <3> DEFINE r == [by |-> d, req |-> req, stage |-> "sent", det |-> None, heard |-> FALSE]
    <3>1. r \in Entries /\ r.by = d /\ r.req = req /\ r.stage = "sent" /\ ~r.heard
      BY <2>4 DEF Entries
    <3>2. wire' = w \cup {r}
      BY <1>8, <2>3
    <3> QED BY <3>1, <3>2
  <2>11. Clean(req, d)
    <3>1. CASE t.attempt # None
      BY <1>2, <2>4, <3>1 DEF Tab
    <3>2. CASE t.attempt = None
      <4>1. t.phase # "clearing"
        BY <1>2, <1>8 DEF Tab, Phase
      <4> QED BY <1>2, <2>4, <3>2, <4>1 DEF Tab, Past, Clean
    <3> QED BY <3>1, <3>2
  <2>12. Survives(u, newest[d])
    BY <1>2, <2>1, <2>6, <2>9 DEF Survives
  <2>13. Wire(wire', u, d)
    BY <1>5, <2>9, <2>10, <2>11 DEF Remains, Wire
  <2>14. SetTab(d, u)
    BY <1>8, <2>5, <2>8
  <2>15. tab' \in [Devices -> Tabs] /\ tab'[d] = u /\ \A x \in Devices \ {d} : tab'[x] = tab[x]
    BY <2>9, <2>14, NewTab DEF DraftsInv
  <2>16. Local(d)
    BY <1>3, <1>5, <2>10, <2>15 DEF Local, Remains, DraftsInv, Types
  <2>17. \A a, x \in Nat : Marked(wire', u, d, a, x) =>
            Marked(wire, t, d, a, x) \/ (a = req.at /\ x = req.text)
    <3>1. \A e \in wire' : e.by = d => e.req = req \/ \E f \in wire : f.by = d /\ f.req = e.req
      BY <1>5, <2>10
    <3>2. \A a, x : p # None /\ p.kind = "draft" /\ p.at = a /\ p.text = x =>
            \/ t.slot # None /\ t.slot.kind = "draft" /\ t.slot.at = a /\ t.slot.text = x
            \/ t.pend # None /\ t.pend.at = a /\ t.pend.text = x
      BY <2>6
    <3> QED BY <2>9, <3>1, <3>2 DEF Marked
  <2>18. \A a \in Nat : Keyed(u, a) => Keyed(t, a)
    BY <2>6, <2>7, <2>9 DEF Keyed
  <2>19. Draws(d)
    <3>1. CASE NewStamp(t)
      <4>1. t.draft \in Nat /\ req.at = Len(typed) + 1 /\ req.text = t.draft
        BY <1>2, <2>4, <3>1 DEF NewStamp, Tabs
      <4>2. \A a, x \in Nat : Marked(wire', tab'[d], d, a, x) =>
               Marked(wire, tab[d], d, a, x) \/ (a = Len(typed) + 1 /\ x = t.draft)
        BY <1>1, <2>15, <2>17, <4>1
      <4>3. typed' = Append(typed, d)
        BY <1>8, <3>1
      <4> QED BY <1>1, <2>15, <2>18, <4>1, <4>2, <4>3 DEF Draws
    <3>2. CASE ~NewStamp(t)
      <4>1. req.at \in Nat /\ req.text \in Nat /\ Marked(wire, t, d, req.at, req.text)
        BY <2>1, <2>4, <3>2 DEF NewStamp, Owned, Marked, Requests
      <4>2. \A a, x \in Nat : Marked(wire', tab'[d], d, a, x) => Marked(wire, tab[d], d, a, x)
        BY <1>1, <2>15, <2>17, <4>1
      <4>3. typed' = typed
        BY <1>8, <3>2
      <4> QED BY <1>1, <2>15, <2>18, <4>2, <4>3 DEF Draws
    <3> QED BY <3>1, <3>2
  <2> QED BY <1>3, <2>9, <2>12, <2>13, <2>15, <2>16, <2>19, PageKeeps
<1> QED BY <1>1, <1>4, <1>7, <1>8 DEF Leave

-------------------------------------------------------------------------------
(* A step of the server *)

\* The row only goes on, and what was stored or asked stays so.
Later ==
  /\ server' \in Details /\ server.rev <= server'.rev
  /\ server'.live => server.live
  /\ server'.live /\ server'.rev = server.rev => server'.text = server.text
  /\ kept \subseteq kept' /\ asked \subseteq asked'

LEMMA LaterFacts ==
  ASSUME server \in Details, Later
  PROVE  /\ \A n : Stored(n) => Stored(n)'
         /\ \A n, d : Own(n, d) => Own(n, d)'
         /\ \A x \in Details : Past(x) => Past(x)'
         /\ \A d : \A q \in Requests : Clean(q, d) => Clean(q, d)'
<1>1. \A n : Stored(n) => Stored(n)'
  BY DEF Later, Stored
<1>2. \A n, d : Own(n, d) => Own(n, d)'
  BY DEF Later, Own
<1>3. server.rev \in Nat /\ server'.rev \in Nat /\ server.rev <= server'.rev
  BY DEF Later, Details
<1>4. ASSUME NEW x \in Details, Past(x)
      PROVE  Past(x)'
  <2>1. x.rev \in Nat /\ x.rev <= server.rev
    BY <1>4 DEF Past, Details
  <2>2. x.rev <= server'.rev /\ (x.rev = server'.rev => x.rev = server.rev /\ server'.rev = server.rev)
    BY <1>3, <2>1
  <2>3. Stored(x.text)'
    BY <1>1, <1>4 DEF Past
  <2>4. server'.live => x.live
    BY <1>4 DEF Past, Later
  <2>5. server'.live /\ x.rev = server'.rev => x.text = server'.text
    BY <1>4, <2>2 DEF Past, Later
  <2> QED BY <2>2, <2>3, <2>4, <2>5 DEF Past
<1>5. ASSUME NEW q \in Requests, NEW d, Clean(q, d)
      PROVE  Clean(q, d)'
  <2>1. q.exp \in Nat /\ q.exp <= server.rev
    BY <1>5 DEF Clean, Requests
  <2>2. q.exp <= server'.rev /\ (q.exp = server'.rev => q.exp = server.rev /\ server'.rev = server.rev)
    BY <1>3, <2>1
  <2>3. ASSUME q.cleanup, server'.live, q.exp = server'.rev
        PROVE  server'.text \in asked' \/ <<server'.text, d>> \in kept'
    <3>1. server'.text = server.text /\ server.live /\ q.exp = server.rev
      BY <2>2, <2>3 DEF Later
    <3>2. server.text \in asked \/ Own(server.text, d)
      BY <1>5, <2>3, <3>1 DEF Clean
    <3> QED BY <3>1, <3>2 DEF Own, Later
  <2> QED BY <2>2, <2>3 DEF Clean, Own
<1> QED BY <1>1, <1>2, <1>4, <1>5

LEMMA TabLater ==
  ASSUME server \in Details, Later, NEW t \in Tabs, NEW d, NEW n
  PROVE  /\ Tab(t, d) => Tab(t, d)'
         /\ Survives(t, n) => Survives(t, n)'
<1>1. /\ \A m : Stored(m) => Stored(m)'
      /\ \A m : Own(m, d) => Own(m, d)'
      /\ \A x \in Details : Past(x) => Past(x)'
      /\ \A q \in Requests : Clean(q, d) => Clean(q, d)'
  BY LaterFacts
<1>2. (server'.live => server.live) /\ asked \subseteq asked'
  BY DEF Later
<1>3. Survives(t, n) => Survives(t, n)'
  BY <1>1, <1>2 DEF Survives
<1>4. ASSUME Tab(t, d)
      PROVE  Tab(t, d)'
  <2>1. t.det \in Details /\ t.attempt \in Requests \cup {None}
        /\ \A r \in t.reads : r.det \in Details
    BY DEF Tabs, Reads
  <2>2. Past(t.det)' /\ (t.attempt # None => Clean(t.attempt, d)')
    BY <1>1, <1>4, <2>1 DEF Tab
  <2>3. Status(t)'
    BY <1>1, <1>4 DEF Tab, Status
  <2>4. Slot(t, d)'
    BY <1>1, <1>2, <1>4 DEF Tab, Slot
  <2>5. Copies(t)'
    BY <1>1, <1>4, <2>1 DEF Tab, Copies
  <2>6. Phase(t, d)'
    BY <1>1, <1>2, <1>4 DEF Tab, Phase
  <2> QED BY <2>2, <2>3, <2>4, <2>5, <2>6 DEF Tab
<1> QED BY <1>3, <1>4

\* The requests of the tabs, one of them further on.
Advances(e, f) ==
  /\ f \in Entries /\ f.by = e.by /\ f.req = e.req /\ f.heard = e.heard
  /\ f.stage = "done" =>
       f.det \in Details /\ Past(f.det)' /\ (f.det.live => <<f.req.text, f.by>> \in kept')
  /\ wire' = (wire \ {e}) \cup {f} \/ (~e.heard /\ wire' = wire \ {e})

LEMMA AdvancesKeeps ==
  ASSUME DraftsInv, Later, NEW e \in wire, NEW f, Advances(e, f), tab' = tab, NEW d \in Devices
  PROVE  /\ wire' \subseteq Entries /\ Wire(wire, tab[d], d)'
         /\ \A a, x \in Nat : Marked(wire, tab[d], d, a, x)' => Marked(wire, tab[d], d, a, x)
<1>1. wire \subseteq Entries /\ Wire(wire, tab[d], d) /\ server \in Details
  BY DEF DraftsInv, Types, Page
<1>2. /\ f \in Entries /\ f.by = e.by /\ f.req = e.req /\ f.heard = e.heard
      /\ f.stage = "done" =>
           f.det \in Details /\ Past(f.det)' /\ (f.det.live => <<f.req.text, f.by>> \in kept')
      /\ \A g \in wire' : g = f \/ g \in wire
      /\ \A g \in wire : g = e \/ g \in wire'
      /\ e.heard => f \in wire'
      /\ e \in wire' => e = f
  BY DEF Advances
<1>3. wire' \subseteq Entries
  BY <1>1, <1>2
<1>4. /\ \A n : Own(n, d) => <<n, d>> \in kept'
      /\ \A x \in Details : Past(x) => Past(x)'
      /\ \A q \in Requests : Clean(q, d) => Clean(q, d)'
  BY <1>1, LaterFacts DEF Own
<1>5. \A g \in wire' : g.by = d =>
        /\ Clean(g.req, d)'
        /\ g.stage = "done" =>
             g.det \in Details /\ Past(g.det)' /\ (g.det.live => <<g.req.text, d>> \in kept')
        /\ g.heard => tab[d].call = g.req
  <2> TAKE g \in wire'
  <2> HAVE g.by = d
  <2>1. CASE g = f
    BY <1>1, <1>2, <1>4, <2>1 DEF Wire, Entries
  <2>2. CASE g \in wire
    BY <1>1, <1>4, <2>2 DEF Wire, Entries
  <2> QED BY <1>2, <2>1, <2>2
<1>6. \A g, h \in wire' : g.by = d /\ h.by = d /\ g.heard /\ h.heard => g = h
  <2>1. \A g, h \in wire : g.by = d /\ h.by = d /\ g.heard /\ h.heard => g = h
    BY <1>1 DEF Wire
  <2>2. \A g \in wire' : g.by = d /\ g.heard /\ e.by = d /\ e.heard => g = f
    BY <1>2, <2>1
  <2> QED BY <1>2, <2>1, <2>2
<1>7. tab[d].call # None => \E g \in wire' : g.by = d /\ g.heard /\ g.req = tab[d].call
  <2>1. tab[d].call # None => \E g \in wire : g.by = d /\ g.heard /\ g.req = tab[d].call
    BY <1>1 DEF Wire
  <2> QED BY <1>2, <2>1
<1>8. Wire(wire, tab[d], d)'
  BY <1>5, <1>6, <1>7 DEF Wire, Own
<1>9. \A a, x \in Nat : Marked(wire, tab[d], d, a, x)' => Marked(wire, tab[d], d, a, x)
  BY <1>2 DEF Marked
<1> QED BY <1>3, <1>8, <1>9

\* A page that makes no step, and does not wonder about the keys the server adds.
LEMMA PageLater ==
  ASSUME DraftsInv, Later, NEW d \in Devices, tab'[d] = tab[d], newest'[d] = newest[d],
         typed' = typed, Wire(wire, tab[d], d)',
         \A a, x \in Nat : Marked(wire, tab[d], d, a, x)' => Marked(wire, tab[d], d, a, x),
         \A a, x \in Nat : Marked(wire, tab[d], d, a, x) /\ a \in applied' =>
           a \in applied \/ <<x, d>> \in kept'
  PROVE  Page(d)'
<1>1. /\ Tab(tab[d], d) /\ Survives(tab[d], newest[d]) /\ Marks(wire, tab[d], d)
      /\ tab[d] \in Tabs /\ server \in Details
  BY DEF DraftsInv, Types, Page
<1>2. PICK t, n : t \in Tabs /\ t = tab[d] /\ n = newest[d]
  BY <1>1
<1>3. Tab(t, d)' /\ Survives(t, n)'
  BY <1>1, <1>2, TabLater
<1>4. Tab(tab[d], d)' /\ Survives(tab[d], newest[d])'
  <2>1. tab'[d] = t /\ newest'[d] = n
    BY <1>2
  <2>2. Past(tab[d].det)' /\ (tab[d].attempt # None => Clean(tab[d].attempt, d))'
    BY <1>3, <2>1 DEF Tab, Past, Clean, Own, Stored
  <2>3. Status(tab[d])'
    BY <1>3, <2>1 DEF Tab, Status, Stored
  <2>4. Slot(tab[d], d)'
    BY <1>3, <2>1 DEF Tab, Slot, Own
  <2>5. Copies(tab[d])'
    BY <1>3, <2>1 DEF Tab, Copies, Past, Stored
  <2>6. Phase(tab[d], d)'
    BY <1>3, <2>1 DEF Tab, Phase, Own
  <2>7. Survives(tab[d], newest[d])'
    BY <1>3, <2>1 DEF Survives, Stored
  <2> QED BY <2>2, <2>3, <2>4, <2>5, <2>6, <2>7 DEF Tab
<1>5. kept \subseteq kept'
  BY DEF Later
<1>6. \A a \in Nat : Keyed(tab[d], a)' <=> Keyed(tab[d], a)
  BY DEF Keyed
<1>7. Marks(wire, tab[d], d)'
  BY <1>1, <1>5, <1>6 DEF Marks, Own
<1> QED BY <1>4, <1>7 DEF Page

LEMMA ServerKeeps ==
  ASSUME DraftsInv, Later, UNCHANGED <<tab, typed, newest>>,
         applied' \subseteq Nat, kept' \subseteq Nat \X Devices, asked' \subseteq Nat, Row',
         NEW e \in wire, NEW f, Advances(e, f),
         \A d \in Devices, a, x \in Nat : Marked(wire, tab[d], d, a, x) /\ a \in applied' =>
           a \in applied \/ <<x, d>> \in kept'
  PROVE  DraftsInv'
<1>1. ASSUME NEW d \in Devices
      PROVE  Page(d)'
  <2>1. /\ Wire(wire, tab[d], d)'
        /\ \A a, x \in Nat : Marked(wire, tab[d], d, a, x)' => Marked(wire, tab[d], d, a, x)
    BY AdvancesKeeps
  <2>2. tab'[d] = tab[d] /\ newest'[d] = newest[d]
    OBVIOUS
  <2> QED BY <2>1, <2>2, PageLater
<1>2. wire' \subseteq Entries
  BY DEF Advances, DraftsInv, Types
<1>3. Types'
  BY <1>2 DEF DraftsInv, Types, Later
<1> QED BY <1>1, <1>3 DEF DraftsInv

\* The request that is answered is marked.
LEMMA EntryIs ==
  ASSUME DraftsInv, NEW e \in wire
  PROVE  /\ e \in Entries /\ e.by \in Devices /\ e.req \in Requests
         /\ e.req.at \in Nat /\ e.req.text \in Nat
         /\ e.req.at \in 1 .. Len(typed) /\ typed[e.req.at] = e.by
         /\ e.req.at \in applied => Own(e.req.text, e.by)
         /\ \A d \in Devices, x \in Nat : Marked(wire, tab[d], d, e.req.at, x) =>
              d = e.by /\ x = e.req.text
<1>1. e \in Entries
  BY DEF DraftsInv, Types
<1>2. e.by \in Devices /\ e.req \in Requests /\ e.req.at \in Nat /\ e.req.text \in Nat
  BY <1>1 DEF Entries, Requests
<1>3. Marked(wire, tab[e.by], e.by, e.req.at, e.req.text)
  BY DEF Marked
<1>4. \A d \in Devices : Marks(wire, tab[d], d)
  BY DEF DraftsInv, Page
<1> QED BY <1>1, <1>2, <1>3, <1>4 DEF Marks

\* The requests stay what they were, whatever else a page does.
LEMMA CallLater ==
  ASSUME DraftsInv, Later, NEW d \in Devices, wire' = wire, tab'[d].call = tab[d].call
  PROVE  Wire(wire, tab[d], d)'
<1>1. wire \subseteq Entries /\ Wire(wire, tab[d], d) /\ server \in Details
  BY DEF DraftsInv, Types, Page
<1>2. /\ \A n : Own(n, d) => <<n, d>> \in kept'
      /\ \A x \in Details : Past(x) => Past(x)'
      /\ \A q \in Requests : Clean(q, d) => Clean(q, d)'
  BY <1>1, LaterFacts DEF Own
<1>3. \A g \in wire : g.by = d =>
        /\ Clean(g.req, d)'
        /\ g.stage = "done" =>
             g.det \in Details /\ Past(g.det)' /\ (g.det.live => <<g.req.text, d>> \in kept')
        /\ g.heard => tab[d].call = g.req
  BY <1>1, <1>2 DEF Wire, Entries
<1> QED BY <1>1, <1>3 DEF Wire, Own

LEMMA WireLater ==
  ASSUME DraftsInv, Later, NEW d \in Devices, wire' = wire, tab'[d] = tab[d]
  PROVE  /\ Wire(wire, tab[d], d)'
         /\ \A a, x \in Nat : Marked(wire, tab[d], d, a, x)' => Marked(wire, tab[d], d, a, x)
<1>1. Wire(wire, tab[d], d)'
  BY CallLater
<1> QED BY <1>1 DEF Marked

\* The row changes, the requests and the pages do not.
LEMMA RowKeeps ==
  ASSUME DraftsInv, Later, UNCHANGED <<applied, wire, tab, ghostVars>>, Row'
  PROVE  DraftsInv'
<1>1. UNCHANGED <<typed, kept, newest, asked>>
  BY DEF ghostVars
<1>2. ASSUME NEW d \in Devices
      PROVE  Page(d)'
  <2>1. tab'[d] = tab[d] /\ newest'[d] = newest[d]
    BY <1>1
  <2>2. /\ Wire(wire, tab[d], d)'
        /\ \A a, x \in Nat : Marked(wire, tab[d], d, a, x)' => Marked(wire, tab[d], d, a, x)
    BY <2>1, WireLater
  <2> QED BY <1>1, <2>1, <2>2, PageLater
<1>3. Types'
  BY <1>1 DEF DraftsInv, Types, Later
<1> QED BY <1>2, <1>3 DEF DraftsInv

\* The row x with another revision, text, time and liveness.
Rewrites(x, y, n, m, a, l) == y = [x EXCEPT !.rev = n, !.text = m, !.at = a, !.live = l]

LEMMA DetailsIs ==
  ASSUME NEW x \in Details, NEW n \in Nat, NEW m \in Nat, NEW a \in Nat, NEW l \in BOOLEAN, NEW y,
         Rewrites(x, y, n, m, a, l)
  PROVE  y \in Details /\ y.rev = n /\ y.text = m /\ y.at = a /\ y.live = l
BY DEF Details, Rewrites

LEMMA TurnKeeps ==
  ASSUME DraftsInv, Turn
  PROVE  DraftsInv'
<1>1. server \in Details /\ server' = [server EXCEPT !.rev = @ + 1]
      /\ UNCHANGED <<applied, wire, tab, ghostVars>>
  BY DEF DraftsInv, Types, Turn
<1>2. /\ server' \in Details /\ server'.rev = server.rev + 1 /\ server.rev \in Nat
      /\ server'.text = server.text /\ server'.at = server.at /\ server'.live = server.live
  BY <1>1 DEF Details
<1>3. Later
  BY <1>1, <1>2 DEF Later, ghostVars
<1>4. Row'
  <2>1. applied' = applied /\ typed' = typed /\ kept' = kept
    BY <1>1 DEF ghostVars
  <2> QED BY <1>2, <2>1 DEF DraftsInv, Row, Own, Stored
<1> QED BY <1>1, <1>3, <1>4, RowKeeps

LEMMA ExpireKeeps ==
  ASSUME DraftsInv, Expire
  PROVE  DraftsInv'
<1>1. server \in Details
      /\ server' = [server EXCEPT !.rev = @ + 1, !.text = 0, !.at = 0, !.live = FALSE]
      /\ UNCHANGED <<applied, wire, tab, ghostVars>>
  BY DEF DraftsInv, Types, Expire
<1>2. /\ server' \in Details /\ server'.rev = server.rev + 1 /\ server.rev \in Nat
      /\ server'.text = 0 /\ server'.at = 0 /\ server'.live = FALSE
  <2>1. server.rev \in Nat /\ server.rev + 1 \in Nat /\ 0 \in Nat /\ FALSE \in BOOLEAN
    BY <1>1 DEF Details
  <2>2. PICK x, n, y : /\ x = server /\ n = server.rev + 1 /\ y = server'
                       /\ y = [x EXCEPT !.rev = n, !.text = 0, !.at = 0, !.live = FALSE]
    BY <1>1
  <2>3. y \in Details /\ y.rev = n /\ y.text = 0 /\ y.at = 0 /\ y.live = FALSE
    <3>1. x \in Details /\ n \in Nat
      BY <1>1, <2>1, <2>2
    <3>2. Rewrites(x, y, n, 0, 0, FALSE)
      BY <2>2 DEF Rewrites
    <3> QED BY <2>1, <3>1, <3>2, DetailsIs
  <2> QED BY <2>1, <2>2, <2>3
<1>3. Later
  BY <1>1, <1>2 DEF Later, ghostVars
<1>4. Row'
  <2>1. applied' = applied /\ typed' = typed /\ kept' = kept
    BY <1>1 DEF ghostVars
  <2> QED BY <1>2, <2>1 DEF DraftsInv, Row, Own, Stored
<1> QED BY <1>1, <1>3, <1>4, RowKeeps

\* An answer in the words of Reply.
LEMMA ReplyAdvances ==
  ASSUME DraftsInv, NEW e \in wire, NEW st \in {"done", "refused"}, NEW x \in Details \cup {None},
         wire' = (wire \ {e}) \cup
                   (IF e.heard THEN {[e EXCEPT !.stage = st, !.det = x]} ELSE {}),
         st = "done" => x \in Details /\ Past(x)' /\ (x.live => <<e.req.text, e.by>> \in kept')
  PROVE  \E f : Advances(e, f)
<1>1. e \in Entries
  BY EntryIs
<1>2. PICK f : f = [e EXCEPT !.stage = st, !.det = x]
  OBVIOUS
<1>3. /\ f \in Entries /\ f.by = e.by /\ f.req = e.req /\ f.heard = e.heard
      /\ f.stage = st /\ f.det = x
  BY <1>1, <1>2 DEF Entries
<1>4. wire' = (wire \ {e}) \cup {f} \/ (~e.heard /\ wire' = wire \ {e})
  BY <1>2
<1> QED BY <1>3, <1>4 DEF Advances

\* A step of the server that leaves the row, the keys and what is stored as they were.
LEMMA AnswerKeeps ==
  ASSUME DraftsInv, UNCHANGED <<server, applied, kept, tab, typed, newest, asked>>,
         NEW e \in wire, NEW f, Advances(e, f)
  PROVE  DraftsInv'
<1>1. Later /\ applied \subseteq Nat /\ kept \subseteq Nat \X Devices /\ asked \subseteq Nat
  <2>1. server.rev \in Nat
    BY DEF DraftsInv, Types, Details
  <2> QED BY <2>1 DEF Later, DraftsInv, Types
<1>2. Row'
  BY DEF DraftsInv, Row, Own, Stored
<1> QED BY <1>1, <1>2, ServerKeeps

LEMMA ReadForSaveKeeps ==
  ASSUME DraftsInv, NEW e \in wire, ReadForSave(e)
  PROVE  DraftsInv'
<1>1. UNCHANGED <<server, applied, kept, tab, typed, newest, asked>>
  BY DEF ReadForSave, ServerRest
<1>2. server \in Details /\ Past(server)'
  BY <1>1, ServerIsPast DEF Past, Stored
<1>3. /\ e \in Entries /\ e.by \in Devices /\ e.req.at \in 1 .. Len(typed)
      /\ typed[e.req.at] = e.by
  BY EntryIs
<1>4. CASE wire' = (wire \ {e}) \cup {[e EXCEPT !.stage = "read"]}
  <2>1. PICK f : f = [e EXCEPT !.stage = "read"]
    OBVIOUS
  <2>2. f \in Entries /\ f.by = e.by /\ f.req = e.req /\ f.heard = e.heard /\ f.stage = "read"
    BY <1>3, <2>1 DEF Entries
  <2>3. Advances(e, f)
    BY <1>4, <2>1, <2>2 DEF Advances
  <2> QED BY <1>1, <2>3, AnswerKeeps
<1>5. CASE server.live /\ SameDraft(server, e.req.text, e.req.at) /\ Reply(e, "done", server)
  <2>1. Own(e.req.text, e.by)
    BY <1>3, <1>5 DEF DraftsInv, Row, SameDraft
  <2>2. \E f : Advances(e, f)
    BY <1>1, <1>2, <1>5, <2>1, ReplyAdvances DEF Reply, Own
  <2> QED BY <1>1, <2>2, AnswerKeeps
<1>6. CASE Reply(e, "refused", None)
  <2>1. \E f : Advances(e, f)
    BY <1>6, ReplyAdvances DEF Reply
  <2> QED BY <1>1, <2>1, AnswerKeeps
<1>7. CASE ~server.live /\ Reply(e, "done", server)
  <2>1. \E f : Advances(e, f)
    BY <1>1, <1>2, <1>7, ReplyAdvances DEF Reply
  <2> QED BY <1>1, <2>1, AnswerKeeps
<1> QED BY <1>4, <1>5, <1>6, <1>7 DEF ReadForSave

LEMMA RefuseKeeps ==
  ASSUME DraftsInv, NEW e \in wire, Refuse(e), UNCHANGED ServerRest
  PROVE  DraftsInv'
<1>1. UNCHANGED <<server, applied, kept, tab, typed, newest, asked>>
  BY DEF Refuse, ServerRest
<1>2. server \in Details /\ Past(server)'
  BY <1>1, ServerIsPast DEF Past, Stored
<1>3. CASE ~server.live /\ Reply(e, "done", server)
  <2>1. \E f : Advances(e, f)
    BY <1>1, <1>2, <1>3, ReplyAdvances DEF Reply
  <2> QED BY <1>1, <2>1, AnswerKeeps
<1>4. CASE Reply(e, "refused", None)
  <2>1. \E f : Advances(e, f)
    BY <1>4, ReplyAdvances DEF Reply
  <2> QED BY <1>1, <2>1, AnswerKeeps
<1> QED BY <1>3, <1>4 DEF Refuse

LEMMA ReplayKeeps ==
  ASSUME DraftsInv, NEW e \in wire, Replay(e), UNCHANGED ServerRest
  PROVE  DraftsInv'
<1>1. UNCHANGED <<server, applied, kept, tab, typed, newest, asked>>
  BY DEF Replay, ServerRest
<1>2. server \in Details /\ Past(server)'
  BY <1>1, ServerIsPast DEF Past, Stored
<1>3. Own(e.req.text, e.by) /\ Reply(e, "done", server)
  BY EntryIs DEF Replay
<1>4. \E f : Advances(e, f)
  BY <1>1, <1>2, <1>3, ReplyAdvances DEF Reply, Own
<1> QED BY <1>1, <1>4, AnswerKeeps

LEMMA CommitKeeps ==
  ASSUME DraftsInv, NEW e \in wire, Commit(e), UNCHANGED ServerRest
  PROVE  DraftsInv'
<1>1. /\ e \in Entries /\ e.by \in Devices /\ e.req.at \in Nat /\ e.req.text \in Nat
      /\ e.req.at \in 1 .. Len(typed) /\ typed[e.req.at] = e.by
      /\ \A d \in Devices, x \in Nat : Marked(wire, tab[d], d, e.req.at, x) =>
           d = e.by /\ x = e.req.text
  BY EntryIs
<1>2. /\ server' = [server EXCEPT !.rev = @ + 1, !.text = e.req.text, !.at = e.req.at]
      /\ applied' = applied \cup {e.req.at} /\ kept' = kept \cup {<<e.req.text, e.by>>}
      /\ UNCHANGED <<tab, typed, newest, asked>>
      /\ server.live
      /\ wire' = (wire \ {e}) \cup
                   (IF e.heard THEN {[e EXCEPT !.stage = "done", !.det = server']} ELSE {})
  BY DEF Commit, Reply, ServerRest
<1>3. server \in Details /\ server.rev \in Nat
  BY DEF DraftsInv, Types, Details
<1>4. /\ server' \in Details /\ server'.rev = server.rev + 1
      /\ server'.text = e.req.text /\ server'.at = e.req.at /\ server'.live = server.live
  <2>1. server.rev + 1 \in Nat /\ server.live \in BOOLEAN
    BY <1>3 DEF Details
  <2>2. PICK x, n, y, l : /\ x = server /\ n = server.rev + 1 /\ y = server' /\ l = server.live
                          /\ y = [x EXCEPT !.rev = n, !.text = e.req.text, !.at = e.req.at]
    BY <1>2
  <2>3. Rewrites(x, y, n, e.req.text, e.req.at, l)
    BY <1>3, <2>2 DEF Details, Rewrites
  <2>4. y \in Details /\ y.rev = n /\ y.text = e.req.text /\ y.at = e.req.at /\ y.live = l
    <3>1. x \in Details /\ n \in Nat /\ l \in BOOLEAN
      BY <1>3, <2>1, <2>2
    <3> QED BY <1>1, <2>3, <3>1, DetailsIs
  <2> QED BY <2>2, <2>4
<1>5. Later
  BY <1>2, <1>3, <1>4 DEF Later
<1>6. Row'
  BY <1>1, <1>2, <1>4 DEF DraftsInv, Row, Own, Stored
<1>7. PICK x : x = server'
  OBVIOUS
<1>8. Past(x)'
  <2>1. x \in Details /\ x.rev \in Nat
    BY <1>4, <1>7 DEF Details
  <2>2. \E d \in Devices : <<x.text, d>> \in kept'
    BY <1>1, <1>2, <1>4, <1>7
  <2> QED BY <1>7, <2>1, <2>2 DEF Past, Stored
<1>9. \E f : Advances(e, f)
  <2>1. x \in Details /\ <<e.req.text, e.by>> \in kept'
    BY <1>2, <1>4, <1>7
  <2>2. wire' = (wire \ {e}) \cup
                   (IF e.heard THEN {[e EXCEPT !.stage = "done", !.det = x]} ELSE {})
    BY <1>2, <1>7
  <2> QED BY <1>8, <2>1, <2>2, ReplyAdvances
<1>10. applied' \subseteq Nat /\ kept' \subseteq Nat \X Devices /\ asked' \subseteq Nat
  BY <1>1, <1>2 DEF DraftsInv, Types
<1>11. \A d \in Devices, a, y \in Nat : Marked(wire, tab[d], d, a, y) /\ a \in applied' =>
           a \in applied \/ <<y, d>> \in kept'
  BY <1>1, <1>2
<1> QED BY <1>2, <1>5, <1>6, <1>9, <1>10, <1>11, ServerKeeps

-------------------------------------------------------------------------------
(* A step of a page and of the server together *)

LEMMA PageWithServer ==
  ASSUME DraftsInv, Later, NEW d \in Devices, NEW u \in Tabs, tab'[d] = u, u.call = tab[d].call,
         wire' = wire, typed' = typed, newest'[d] = newest[d], Known(wire, u, d),
         NEW n, n = newest[d], Tab(u, d)', Survives(u, n)',
         \A a, x \in Nat : Marked(wire, tab[d], d, a, x) /\ a \in applied' =>
           a \in applied \/ <<x, d>> \in kept'
  PROVE  Page(d)'
<1>1. Marks(wire, tab[d], d)
  BY DEF DraftsInv, Page
<1>2. Tab(tab[d], d)' /\ Survives(tab[d], newest[d])'
  <2>1. tab'[d] = u /\ newest'[d] = n
    OBVIOUS
  <2>2. Past(tab[d].det)' /\ (tab[d].attempt # None => Clean(tab[d].attempt, d))'
    BY <2>1 DEF Tab, Past, Clean, Own, Stored
  <2>3. Status(tab[d])'
    BY <2>1 DEF Tab, Status, Stored
  <2>4. Slot(tab[d], d)'
    BY <2>1 DEF Tab, Slot, Own
  <2>5. Copies(tab[d])'
    BY <2>1 DEF Tab, Copies, Past, Stored
  <2>6. Phase(tab[d], d)'
    BY <2>1 DEF Tab, Phase, Own
  <2>7. Survives(tab[d], newest[d])'
    BY <2>1 DEF Survives, Stored
  <2> QED BY <2>2, <2>3, <2>4, <2>5, <2>6, <2>7 DEF Tab
<1>3. Wire(wire, tab[d], d)'
  BY CallLater
<1>4. kept \subseteq kept'
  BY DEF Later
<1>5. \A a, x \in Nat : Marked(wire, tab[d], d, a, x)' => Marked(wire, tab[d], d, a, x)
  <2>1. \A a, x \in Nat : Marked(wire, tab[d], d, a, x)' <=> Marked(wire, u, d, a, x)
    BY DEF Marked
  <2> QED BY <2>1 DEF Known
<1>6. \A a \in Nat : Keyed(tab[d], a)' <=> Keyed(u, a)
  BY DEF Keyed
<1>7. \A a \in Nat : Keyed(tab[d], a)' => Keyed(tab[d], a)
  BY <1>6 DEF Known
<1>8. Marks(wire, tab[d], d)'
  BY <1>1, <1>4, <1>5, <1>7 DEF Marks, Own
<1> QED BY <1>2, <1>3, <1>8 DEF Page

LEMMA JointKeeps ==
  ASSUME DraftsInv, Later, NEW d \in Devices, NEW u \in Tabs, SetTab(d, u), u.call = tab[d].call,
         UNCHANGED <<wire, typed, newest, kept>>, Known(wire, u, d),
         applied' \subseteq Nat, asked' \subseteq Nat, Row',
         NEW n, n = newest[d], Tab(u, d)', Survives(u, n)',
         \A x \in Devices, a, y \in Nat : Marked(wire, tab[x], x, a, y) /\ a \in applied' =>
           a \in applied
  PROVE  DraftsInv'
<1>1. tab' \in [Devices -> Tabs] /\ tab'[d] = u /\ \A x \in Devices \ {d} : tab'[x] = tab[x]
  BY NewTab DEF DraftsInv
<1>2. Page(d)'
  BY <1>1, PageWithServer
<1>3. ASSUME NEW x \in Devices, x # d
      PROVE  Page(x)'
  <2>1. tab'[x] = tab[x] /\ newest'[x] = newest[x]
    BY <1>1, <1>3
  <2>2. /\ Wire(wire, tab[x], x)'
        /\ \A a, y \in Nat : Marked(wire, tab[x], x, a, y)' => Marked(wire, tab[x], x, a, y)
    BY <2>1, WireLater
  <2> QED BY <2>1, <2>2, PageLater
<1>4. Types'
  BY <1>1 DEF DraftsInv, Types, Later
<1> QED BY <1>2, <1>3, <1>4 DEF DraftsInv

LEMMA RemoveKeeps ==
  ASSUME DraftsInv, NEW d \in Devices, Remove(d)
  PROVE  DraftsInv'
<1>1. PICK t : t = tab[d]
  OBVIOUS
<1>2. t \in Tabs /\ Tab(t, d) /\ Survives(t, newest[d])
  BY <1>1 DEF DraftsInv, Page, Types
<1>3. /\ t.pc = "open" /\ t.phase = "no" /\ t.send = None
      /\ UNCHANGED <<applied, wire, typed, kept, newest, asked>>
  BY <1>1 DEF Remove, Live, Open, Sending, ghostVars
<1>4. PICK s : s = [t EXCEPT !.current = FALSE, !.more = "no"]
  OBVIOUS
<1>5. Moved(t, s) /\ s.phase = t.phase /\ s.current = FALSE /\ s.more = "no" /\ s.reads = t.reads
  BY <1>2, <1>4 DEF Tabs, Moved
<1>6. Slot(s, d) /\ Copies(s) /\ Phase(s, d)
  BY <1>2, <1>3, <1>5 DEF Tab, Slot, Copies, Phase, Moved
<1>7. s \in Tabs
  BY <1>5 DEF Moved
<1>8. ASSUME /\ server' = [server EXCEPT !.rev = @ + 1, !.text = 0, !.at = 0, !.live = FALSE]
             /\ SetTab(d, Dead([s EXCEPT !.pend = None, !.slot = None], server'))
      PROVE  DraftsInv'
  <2>1. /\ server' \in Details /\ server'.rev = server.rev + 1 /\ server.rev \in Nat
        /\ server \in Details
        /\ server'.text = 0 /\ server'.at = 0 /\ server'.live = FALSE
    <3>1. server \in Details /\ server.rev \in Nat /\ server.rev + 1 \in Nat /\ 0 \in Nat
          /\ FALSE \in BOOLEAN
      BY DEF DraftsInv, Types, Details
    <3>2. PICK x, n, y : /\ x = server /\ n = server.rev + 1 /\ y = server'
                         /\ y = [x EXCEPT !.rev = n, !.text = 0, !.at = 0, !.live = FALSE]
      BY <1>8
    <3>3. y \in Details /\ y.rev = n /\ y.text = 0 /\ y.at = 0 /\ y.live = FALSE
      <4>1. x \in Details /\ n \in Nat
        BY <3>1, <3>2
      <4>2. Rewrites(x, y, n, 0, 0, FALSE)
        BY <3>2 DEF Rewrites
      <4> QED BY <3>1, <4>1, <4>2, DetailsIs
    <3> QED BY <3>1, <3>2, <3>3
  <2>2. Later
    BY <1>3, <2>1 DEF Later
  <2>3. Row'
    BY <1>3, <2>1 DEF DraftsInv, Row, Own, Stored
  <2>4. PICK x \in Details : x = server'
    BY <2>1
  <2>5. PICK u : u = Dead([s EXCEPT !.pend = None, !.slot = None], x)
    OBVIOUS
  <2>6. SetTab(d, u)
    BY <1>8, <2>4, <2>5
  <2>7. Edits(s, u, s.attempt, None, None, x, 0, 0, "idle", FALSE)
    BY <1>7, <2>5 DEF Dead, Edits, Tabs
  <2>8. Edited(s, u, s.attempt, None, None, x, 0, 0, "idle", FALSE)
    <3>1. /\ s.attempt \in Requests \cup {None} /\ None \in Pendings \cup {None} /\ 0 \in Nat
          /\ "idle" \in Statuses /\ FALSE \in BOOLEAN
      BY <1>7, TabFields DEF Statuses
    <3> QED BY <1>7, <2>7, <3>1, EditedIs
  <2>9. Past(x)' /\ ~server'.live /\ Stored(0)'
    BY <2>1, <2>4 DEF Past, Stored
  <2>10. Tab(u, d)'
    <3>1. Tab(t, d)'
      BY <1>2, <2>1, <2>2, TabLater
    <3>2. Copies(u)'
      BY <1>5, <2>8, <3>1 DEF Tab, Copies, Edited
    <3>3. Slot(u, d)'
      BY <1>3, <1>5, <2>8 DEF Slot, Edited, Moved
    <3>4. Phase(u, d)' /\ Status(u)'
      BY <1>3, <1>5, <2>8, <2>9 DEF Phase, Status, Edited, Moved
    <3> QED BY <1>5, <2>8, <2>9, <3>1, <3>2, <3>3, <3>4 DEF Tab, Edited, Moved
  <2>11. Known(wire, u, d)
    BY <1>1, <1>5, <2>8 DEF Known, Marked, Keyed, Edited, Moved
  <2>12. PICK n : n = newest[d]
    OBVIOUS
  <2>13. Survives(u, n)'
    BY <2>9 DEF Survives
  <2>14. applied' \subseteq Nat /\ asked' \subseteq Nat
    BY <1>3 DEF DraftsInv, Types
  <2>15. u \in Tabs /\ u.call = tab[d].call
    BY <1>1, <1>5, <2>8 DEF Edited, Moved
  <2> QED BY <1>3, <2>2, <2>3, <2>6, <2>10, <2>11, <2>12, <2>13, <2>14, <2>15, JointKeeps
<1>9. ASSUME SetTab(d, Conflicted(s)), UNCHANGED server
      PROVE  DraftsInv'
  <2>1. PICK u : u = Conflicted(s)
    OBVIOUS
  <2>2. Edits(s, u, s.attempt, s.pend, s.slot, s.det, s.draft, s.saved, "conflict", TRUE)
    BY <1>7, <2>1 DEF Conflicted, Edits, Tabs
  <2>3. Edited(s, u, s.attempt, s.pend, s.slot, s.det, s.draft, s.saved, "conflict", TRUE)
    BY <1>7, <2>2, EditedIs, TabFields DEF Statuses
  <2>4. Slot(u, d) /\ Copies(u) /\ Phase(u, d)
    BY <1>6, <2>3 DEF Slot, Copies, Phase, Edited
  <2>5. Tab(u, d)
    BY <1>2, <1>5, <2>3, <2>4 DEF Tab, Status, Edited, Moved
  <2>6. Known(wire, u, d) /\ Survives(u, newest[d])
    BY <1>1, <1>2, <1>5, <2>3 DEF Known, Marked, Keyed, Survives, Edited, Moved
  <2>7. SetTab(d, u)
    BY <1>9, <2>1
  <2> QED BY <1>1, <1>3, <1>5, <1>9, <2>3, <2>5, <2>6, <2>7, SilentKeeps DEF Edited, Moved
<1>10. ASSUME SetTab(d, s), UNCHANGED server
       PROVE  DraftsInv'
  <2>1. s.status = "saving" => s.call # None \/ ~s.current
    BY <1>5
  <2> QED BY <1>1, <1>3, <1>5, <1>6, <1>10, <2>1, MovedKeeps
<1>11. s = Invalidated(tab[d])
  BY <1>1, <1>4 DEF Invalidated
<1> QED BY <1>8, <1>9, <1>10, <1>11 DEF Remove

LEMMA AskKeeps ==
  ASSUME DraftsInv, NEW d \in Devices, Ask(d)
  PROVE  DraftsInv'
<1>1. PICK t : t = tab[d]
  OBVIOUS
<1>2. t \in Tabs /\ Tab(t, d) /\ Survives(t, newest[d])
  BY <1>1 DEF DraftsInv, Page, Types
<1>3. t.pc = "open" /\ t.phase = "ask" /\ UNCHANGED <<wire, typed, kept, newest>>
  BY <1>1 DEF Ask, Open
<1>4. t.send # None /\ t.slot = t.send /\ t.send.kind = "send" /\ t.send \in Pendings
      /\ \A r \in t.reads : r.what # "send"
  BY <1>2, <1>3 DEF Tab, Phase, Slot, Copies, Tabs
<1>5. ASSUME NEW ph \in {"no", "asked"}, SetTab(d, [t EXCEPT !.phase = ph]),
             server' = (IF t.send.at \in applied THEN server ELSE [server EXCEPT !.rev = @ + 1]),
             applied' = applied \cup {t.send.at}, asked' = asked \cup {t.send.text}
      PROVE  DraftsInv'
  <2>1. PICK u : u = [t EXCEPT !.phase = ph]
    OBVIOUS
  <2>2. SetTab(d, u)
    BY <1>5, <2>1
  <2>3. Moved(t, u) /\ u.phase = ph /\ u.current = t.current /\ u.reads = t.reads
    BY <1>2, <2>1 DEF Tabs, Moved, Phases
  <2>4. t.send.at \in Nat /\ t.send.text \in Nat
    BY <1>4 DEF Pendings
  <2>5. server \in Details /\ server.rev \in Nat /\ server.rev + 1 \in Nat
    BY DEF DraftsInv, Types, Details
  <2>6. /\ server' \in Details /\ server'.text = server.text /\ server'.at = server.at
        /\ server'.live = server.live
        /\ server'.rev = server.rev \/ server'.rev = server.rev + 1
    <3>1. CASE server' = server
      BY <2>5, <3>1
    <3>2. CASE server' = [server EXCEPT !.rev = @ + 1]
      BY <2>5, <3>2 DEF Details
    <3> QED BY <1>5, <3>1, <3>2
  <2>7. Later
    BY <1>3, <1>5, <2>5, <2>6 DEF Later
  <2>8. Keyed(tab[d], t.send.at)
    BY <1>1, <1>4 DEF Keyed
  <2>9. \A x \in Devices : Marks(wire, tab[x], x)
    BY DEF DraftsInv, Page
  <2>10. t.send.at \in 1 .. Len(typed) /\ typed[t.send.at] = d
    BY <2>4, <2>8, <2>9 DEF Marks
  <2>11. \A x \in Devices, a, y \in Nat : Marked(wire, tab[x], x, a, y) => a # t.send.at
    <3> SUFFICES ASSUME NEW x \in Devices, NEW y \in Nat, Marked(wire, tab[x], x, t.send.at, y)
                 PROVE  FALSE
      OBVIOUS
    <3>1. typed[t.send.at] = x /\ ~Keyed(tab[x], t.send.at)
      BY <2>4, <2>9 DEF Marks
    <3> QED BY <2>8, <2>10, <3>1
  <2>12. Row'
    <3>1. typed' = typed /\ kept' = kept
      BY <1>3
    <3>2. Row
      BY DEF DraftsInv
    <3>3. applied' \subseteq 1 .. Len(typed')
      BY <1>5, <2>10, <3>1, <3>2 DEF Row
    <3>4. Stored(server.text)'
      BY <2>6, <3>1, <3>2 DEF Row, Stored
    <3>5. (server.at # 0 => server.at \in 1 .. Len(typed) /\ Own(server.text, typed[server.at]))'
      BY <2>6, <3>1, <3>2 DEF Row, Own
    <3> QED BY <3>3, <3>4, <3>5 DEF Row
  <2>13. Tab(u, d)'
    <3>1. Tab(t, d)'
      BY <1>2, <2>5, <2>7, TabLater
    <3>2. Slot(u, d)'
      BY <2>3, <3>1 DEF Tab, Slot, Moved
    <3>3. Copies(u)'
      BY <1>4, <2>3, <3>1 DEF Tab, Copies
    <3>4. Phase(u, d)'
      BY <1>4, <1>5, <2>3 DEF Phase, Moved
    <3>5. Status(u)'
      BY <2>3, <3>1 DEF Tab, Status, Moved
    <3> QED BY <2>3, <3>1, <3>2, <3>3, <3>4, <3>5 DEF Tab, Moved
  <2>14. PICK n : n = newest[d]
    OBVIOUS
  <2>15. Survives(u, n)'
    <3>1. Survives(t, n)'
      BY <1>2, <2>5, <2>7, <2>14, TabLater
    <3> QED BY <2>3, <3>1 DEF Survives, Moved
  <2>16. Known(wire, u, d)
    BY <1>1, <2>3 DEF Known, Marked, Keyed, Moved
  <2>17. applied' \subseteq Nat /\ asked' \subseteq Nat
    BY <1>5, <2>4 DEF DraftsInv, Types
  <2>18. \A x \in Devices, a, y \in Nat : Marked(wire, tab[x], x, a, y) /\ a \in applied' =>
            a \in applied
    BY <1>5, <2>11
  <2>19. u \in Tabs /\ u.call = tab[d].call
    BY <1>1, <2>3 DEF Moved
  <2> QED BY <1>3, <2>2, <2>7, <2>12, <2>13, <2>14, <2>15, <2>16, <2>17, <2>18, <2>19, JointKeeps
<1>6. ASSUME SetTab(d, [t EXCEPT !.phase = "no"]), UNCHANGED <<server, applied, asked>>
      PROVE  DraftsInv'
  <2>1. PICK u : u = [t EXCEPT !.phase = "no"]
    OBVIOUS
  <2>2. SetTab(d, u)
    BY <1>6, <2>1
  <2>3. Moved(t, u) /\ u.phase = "no" /\ u.current = t.current /\ u.reads = t.reads
    BY <1>2, <2>1 DEF Tabs, Moved, Phases
  <2>4. Copies(u) /\ Phase(u, d) /\ (u.status = "saving" => u.call # None \/ ~u.current)
    BY <1>2, <1>4, <2>3 DEF Tab, Copies, Phase, Moved, Status
  <2> QED BY <1>1, <1>3, <1>6, <2>2, <2>3, <2>4, MovedKeeps
<1>7. "no" \in {"no", "asked"} /\ "asked" \in {"no", "asked"}
  OBVIOUS
<1> QED BY <1>1, <1>5, <1>6, <1>7 DEF Ask

-------------------------------------------------------------------------------
(* The beginning *)

\* Every device comes with a draft of its own, where it comes with one.
LEMMA DraftsThatCame ==
  ASSUME NEW s \in [1 .. Cardinality(Devices) -> Devices],
         \A i, j \in DOMAIN s : s[i] = s[j] => i = j
  PROVE  /\ s \in Seq(Devices) /\ Len(s) = Cardinality(Devices) /\ Cardinality(Devices) \in Nat
         /\ \A d \in Devices : \E i \in DOMAIN s : s[i] = d
<1>1. IsFiniteSet(Devices) /\ Cardinality(Devices) \in Nat
  BY DraftsAssumption, FS_CardinalityType DEF DraftsAssumption
<1> DEFINE I == 1 .. Cardinality(Devices)
<1>2. s \in Injection(I, Devices)
  BY DEF Injection, IsInjective
<1>3. IsFiniteSet(I) /\ Cardinality(I) = Cardinality(Devices)
  BY <1>1, FS_Interval
<1>4. s \in Surjection(I, Devices)
  BY <1>1, <1>2, <1>3, FS_Injection
<1>5. \A d \in Devices : \E i \in DOMAIN s : s[i] = d
  BY <1>4 DEF Surjection
<1>6. s \in Seq(Devices) /\ Len(s) = Cardinality(Devices)
  BY <1>1
<1> QED BY <1>1, <1>5, <1>6

LEMMA InitKeeps ==
  ASSUME DraftsInit
  PROVE  DraftsInv
<1>1. /\ server.rev = 1 /\ server.text = 0 /\ server.at = 0 /\ server.live = TRUE
      /\ server.asks \in BOOLEAN /\ server \in Details
  BY DEF DraftsInit, Details
<1>2. applied = {} /\ wire = {} /\ kept = {} /\ asked = {}
  BY DEF DraftsInit
<1>3. typed \in IF server.asks THEN {s \in [1 .. Cardinality(Devices) -> Devices] :
                                      \A i, j \in DOMAIN s : s[i] = s[j] => i = j}
              ELSE {<<>>}
  BY DEF DraftsInit
<1>4. newest = [d \in Devices |-> IF server.asks THEN CHOOSE i \in DOMAIN typed : typed[i] = d
                                  ELSE 0]
  BY DEF DraftsInit
<1>5. tab = [d \in Devices |-> Unmounted(server, IF server.asks THEN PendingDraft(newest[d], 1, None)
                                                 ELSE None)]
  BY Zenon DEF DraftsInit
<1>6. /\ typed \in Seq(Devices) /\ Len(typed) \in Nat
      /\ server.asks => \A d \in Devices : \E i \in 1 .. Len(typed) : typed[i] = d
  <2>1. CASE server.asks
    <3>1. PICK s : s = typed
      OBVIOUS
    <3>2. s \in [1 .. Cardinality(Devices) -> Devices]
          /\ \A i, j \in DOMAIN s : s[i] = s[j] => i = j
      BY <1>3, <2>1, <3>1
    <3>3. /\ s \in Seq(Devices) /\ Len(s) = Cardinality(Devices) /\ Cardinality(Devices) \in Nat
          /\ \A d \in Devices : \E i \in DOMAIN s : s[i] = d
      BY <3>2, DraftsThatCame
    <3>4. DOMAIN s = 1 .. Len(s)
      BY <3>2, <3>3
    <3> QED BY <3>1, <3>3, <3>4
  <2>2. CASE ~server.asks
    <3>1. typed = <<>>
      BY <1>3, <2>2
    <3>2. <<>> \in Seq(Devices) /\ Len(<<>>) = 0
      OBVIOUS
    <3> QED BY <2>2, <3>1, <3>2
  <2> QED BY <2>1, <2>2
<1>7. \A d \in Devices :
        /\ server.asks => newest[d] \in 1 .. Len(typed) /\ typed[newest[d]] = d
        /\ ~server.asks => newest[d] = 0
        /\ newest[d] \in Nat
  <2> TAKE d \in Devices
  <2>1. DOMAIN typed = 1 .. Len(typed)
    BY <1>6
  <2>2. CASE server.asks
    <3>1. newest[d] = CHOOSE i \in 1 .. Len(typed) : typed[i] = d
      BY <1>4, <2>1, <2>2
    <3>2. \E i \in 1 .. Len(typed) : typed[i] = d
      BY <1>6, <2>2
    <3>3. newest[d] \in 1 .. Len(typed) /\ typed[newest[d]] = d
      BY <3>1, <3>2
    <3> QED BY <1>6, <2>2, <3>3
  <2>3. CASE ~server.asks
    BY <1>4, <2>3
  <2> QED BY <2>2, <2>3
<1>8. newest \in [Devices -> Nat]
  BY <1>4, <1>7
<1>9. ASSUME NEW d \in Devices
      PROVE  tab[d] \in Tabs /\ Page(d)
  <2>1. PICK p : p = IF server.asks THEN PendingDraft(newest[d], 1, None) ELSE None
    OBVIOUS
  <2>2. /\ p \in Pendings \cup {None}
        /\ server.asks => p # None /\ p.kind = "draft" /\ p.text = newest[d] /\ p.at = newest[d]
        /\ ~server.asks => p = None
    <3>1. CASE server.asks
      <4>1. p = [kind |-> "draft", text |-> newest[d], at |-> newest[d], base |-> 1, pred |-> None,
                 ident |-> None]
        BY <2>1, <3>1 DEF PendingDraft
      <4>2. p \in Pendings
        BY <1>7, <4>1 DEF Pendings
      <4> QED BY <3>1, <4>1, <4>2, Constants
    <3>2. CASE ~server.asks
      BY <2>1, <3>2
    <3> QED BY <3>1, <3>2
  <2>3. PICK u : u = tab[d]
    OBVIOUS
  <2>4. PICK x \in Details : x = server
    BY <1>1
  <2>5. Fresh(u, x, p) /\ u.pc = "closed"
    <3>1. u = Unmounted(x, p)
      BY <1>5, <2>1, <2>3, <2>4
    <3> QED BY <2>2, <2>4, <3>1, UnmountedIs
  <2>6. Past(x) /\ x.text = 0 /\ Stored(0)
    BY <1>1, <2>4 DEF Past, Stored
  <2>7. Slot(u, d)
    BY <2>2, <2>5, <2>6 DEF Fresh, Slot
  <2>8. Tab(u, d)
    BY <2>5, <2>6, <2>7 DEF Fresh, Tab, Status, Copies, Phase
  <2>9. Survives(u, newest[d])
    BY <1>7, <2>2, <2>5 DEF Fresh, Survives
  <2>10. Wire(wire, u, d)
    BY <1>2, <2>5 DEF Wire, Fresh
  <2>11. \A a, y \in Nat : Marked(wire, u, d, a, y) => server.asks /\ a = newest[d] /\ y = newest[d]
    BY <1>2, <2>2, <2>5 DEF Marked, Fresh
  <2>12. \A a \in Nat : ~Keyed(u, a)
    BY <2>2, <2>5 DEF Keyed, Fresh
  <2>13. Marks(wire, u, d)
    BY <1>2, <1>7, <2>11, <2>12 DEF Marks
  <2> QED BY <2>3, <2>5, <2>8, <2>9, <2>10, <2>13 DEF Page, Fresh
<1>10. Types
  BY <1>1, <1>2, <1>5, <1>6, <1>8, <1>9 DEF Types
<1>11. Row
  BY <1>1, <1>2 DEF Row, Stored
<1> QED BY <1>9, <1>10, <1>11 DEF DraftsInv

-------------------------------------------------------------------------------
(* The theorems *)

LEMMA PageStepKeeps ==
  ASSUME DraftsInv, NEW d \in Devices, PageStep(d)
  PROVE  DraftsInv'
BY VisitKeeps, LeaveKeeps, TypeKeeps, RevertKeeps, DebounceKeeps, SaveNowKeeps, ReceiveKeeps,
   LoseKeeps, RefreshKeeps, ApplyRefreshKeeps, ReloadKeeps, ApplyReloadKeeps, RemoveKeeps,
   FailRemoveKeeps, SendKeeps, CaptureKeeps, AskKeeps, ReadBackKeeps, CompleteKeeps, EndRetryKeeps
   DEF PageStep

LEMMA ServeKeeps ==
  ASSUME DraftsInv, Serve
  PROVE  DraftsInv'
BY ReadForSaveKeeps, CommitKeeps, RefuseKeeps, ReplayKeeps DEF Serve

LEMMA StutterKeeps ==
  ASSUME DraftsInv, UNCHANGED vars
  PROVE  DraftsInv'
<1>1. UNCHANGED <<server, applied, wire, tab, ghostVars>>
  BY DEF vars
<1>2. UNCHANGED <<typed, kept, newest, asked>>
  BY <1>1 DEF ghostVars
<1>3. server.rev \in Nat
  BY DEF DraftsInv, Types, Details
<1>4. Later
  BY <1>1, <1>2, <1>3 DEF Later, DraftsInv, Types
<1>5. Row'
  BY <1>1, <1>2 DEF DraftsInv, Row, Own, Stored
<1> QED BY <1>1, <1>4, <1>5, RowKeeps

LEMMA DraftsInvariant == DraftsSpec => []DraftsInv
<1>1. DraftsInit => DraftsInv
  BY InitKeeps
<1>2. DraftsInv /\ [DraftsNext]_vars => DraftsInv'
  BY PageStepKeeps, ServeKeeps, TurnKeeps, ExpireKeeps, StutterKeeps DEF DraftsNext
<1> QED BY <1>1, <1>2, PTL DEF DraftsSpec

\* No editor is ahead of the server, a status of conflict is a conflict, the
\* save a drain runs is on the wire, and a send under way has the slot.
THEOREM DraftsTypeCorrect == DraftsSpec => []DraftsTypeOK
<1>1. DraftsInv => DraftsTypeOK
  <2> SUFFICES ASSUME DraftsInv PROVE DraftsTypeOK
    OBVIOUS
  <2>1. Stored(server.text) /\ server.at \in 0 .. Len(typed)
    <3>1. server.at \in Nat /\ Len(typed) \in Nat
      BY DEF DraftsInv, Types, Details
    <3> QED BY <3>1 DEF DraftsInv, Row
  <2>2. ASSUME NEW d \in Devices
        PROVE  LET t == tab[d] IN
               /\ t.status \in {"idle", "pending", "saving", "saved", "error", "conflict"}
               /\ t.det.rev <= server.rev
               /\ t.status = "conflict" => t.conflict
               /\ t.call # None => \E e \in wire : e.by = d /\ e.heard /\ e.req = t.call
               /\ t.send # None => t.slot = t.send
               /\ t.pend # None => t.pend.kind = "draft"
    <3>1. tab[d] \in Tabs /\ Tab(tab[d], d) /\ Wire(wire, tab[d], d)
      BY DEF DraftsInv, Types, Page
    <3> QED BY <3>1 DEF Tabs, Statuses, Tab, Past, Status, Slot, Wire
  <2> QED BY <2>1, <2>2 DEF DraftsTypeOK
<1> QED BY <1>1, DraftsInvariant, PTL

\* What a user last typed survives a crash of the page at any moment: it is in
\* the slot of the device, or stored, or was sent, unless the Session is gone.
THEOREM TypedSurvivesHolds == DraftsSpec => []TypedSurvives
<1>1. DraftsInv => TypedSurvives
  BY DEF DraftsInv, Page, Survives, TypedSurvives
<1> QED BY <1>1, DraftsInvariant, PTL

\* What the status line says of the draft is so (session-detail-state.ts): what it
\* calls saved was stored, what it calls unsaved differs from that, and while it says
\* "saving" an answer is awaited, but for a save that the user's own reload or deletion
\* silenced.
THEOREM StatusIsTrueHolds == DraftsSpec => []StatusIsTrue
<1>1. DraftsInv => StatusIsTrue
  BY DEF DraftsInv, Page, Tab, Status, StatusIsTrue
<1> QED BY <1>1, DraftsInvariant, PTL

\* Sending a message empties no stored draft that only another device knows.
THEOREM CleanupOnlySentHolds == DraftsSpec => CleanupOnlySent
<1>1. ASSUME DraftsInv, NEW e \in wire, e.req.cleanup, Commit(e)
      PROVE  server.text \in asked \/ <<server.text, e.by>> \in kept
  <2>1. e.by \in Devices
    BY <1>1, EntryIs
  <2>2. Clean(e.req, e.by)
    BY <1>1, <2>1 DEF DraftsInv, Page, Wire
  <2> QED BY <1>1, <2>2 DEF Clean, Own, Commit
<1>2. DraftsInv /\ [DraftsNext]_vars =>
        [\A e \in wire :
           e.req.cleanup /\ Commit(e) =>
             server.text \in asked \/ <<server.text, e.by>> \in kept]_vars
  BY <1>1
<1> QED BY <1>2, DraftsInvariant, PTL DEF DraftsSpec, CleanupOnlySent
===============================================================================
