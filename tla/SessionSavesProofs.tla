-------------------------- MODULE SessionSavesProofs --------------------------
(***************************************************************************)
(* That a withdrawn turn stays hidden, that a device knows the outcome of  *)
(* its save and that no save overwrites what its author has not seen, for  *)
(* any devices, messages, failures and numbers of saves.                   *)
(*                                                                         *)
(* Who read a revision read its turns.  The one exception is a row that a  *)
(* sweep handed out and did not commit: its revision is one too high, and  *)
(* nobody writes that revision before the sweep is done (Known, Pending).  *)
(* A writer that holds the row keeps the others out (Alone); a checked     *)
(* save has its sources locked (Hidden); a receipt that a device can meet  *)
(* belongs to the update that it sends (Told).                             *)
(***************************************************************************)
EXTENDS SessionSaves, TLAPS

Saves == [pc : {"idle", "sent", "swept", "checked"}, req : Requests, row : Requests,
          held : BOOLEAN, led : SUBSET Messages, tries : 0 .. Attempts - 1]
Changes == [pc : {"idle", "changed", "redacted"}, m : Messages \cup {"none"},
            to : {"up", "withdrawn"}, held : BOOLEAN, led : SUBSET Messages]

LEMMA Types ==
  SavesTypeOK <=>
    /\ session \in Row /\ copy \in [Devices -> Row]
    /\ source \in [Messages -> {"up", "lapsed", "withdrawn"}]
    /\ retracted \subseteq Messages /\ gone \subseteq Messages /\ withdrawn \subseteq Messages
    /\ receipt \in [Writers -> Requests]
    /\ change \in Changes
    /\ save \in [Writers -> Saves]
    /\ denied \subseteq Devices
    /\ status \in [Queued -> {"queued", "saving", "settled", "pending", "failed"}]
    /\ rounds \in [Queued -> 0 .. Rounds - 1]
    /\ spent \in [DOMAIN Risk -> Nat]
BY DEF SavesTypeOK, Saves, Changes

\* What a step leaves of the save of writer w, and what it hands a device.
Leaves(w, s, row, told) ==
  /\ s \in Saves /\ save' = [save EXCEPT ![w] = s]
  /\ copy' = copy \/ (w \in Devices /\ copy' = [copy EXCEPT ![w] = Record(row)])
  /\ denied' = denied \/ (~told /\ w \in Devices /\ denied' = denied \cup {w})
  /\ status' \in [Queued -> {"queued", "saving", "settled", "pending", "failed"}]
  /\ rounds' \in [Queued -> 0 .. Rounds - 1]

LEMMA NoSaveType == NoSave \in Saves /\ NoRequest \in Requests
BY SavesAssumption DEF NoSave, NoRequest, Saves, Requests

LEMMA Answers ==
  ASSUME SavesTypeOK, NEW w \in Writers, NEW ans, NEW row, Answer(w, ans, row)
  PROVE  Leaves(w, NoSave, row, ans = "done")
<1> USE SavesAssumption
<1>1. NoSave \in Saves BY NoSaveType
<1>2. save' = [save EXCEPT ![w] = NoSave] BY DEF Answer
<1>3. copy' = copy \/ (w \in Devices /\ copy' = [copy EXCEPT ![w] = Record(row)])
  BY DEF Answer
<1>4. denied' = denied \/ (~(ans = "done") /\ w \in Devices /\ denied' = denied \cup {w})
  BY DEF Answer
<1>5. /\ status' \in [Queued -> {"queued", "saving", "settled", "pending", "failed"}]
      /\ rounds' \in [Queued -> 0 .. Rounds - 1]
  <2>1. CASE w \in Devices BY <2>1, Types DEF Answer
  <2>2. CASE w \notin Devices
    <3>1. w \in Queued BY <2>2 DEF Writers
    <3>2. \/ \E s \in {"settled", "failed", "pending"} : status' = Settled(w, s) /\ rounds' = rounds
          \/ rounds[w] + 1 < Rounds /\ status' = status
             /\ rounds' = [rounds EXCEPT ![w] = rounds[w] + 1]
      BY <2>2 DEF Answer
    <3>3. CASE \E s \in {"settled", "failed", "pending"} : status' = Settled(w, s) /\ rounds' = rounds
      BY <3>1, <3>3, Types DEF Settled
    <3>4. CASE rounds[w] + 1 < Rounds /\ status' = status
               /\ rounds' = [rounds EXCEPT ![w] = rounds[w] + 1]
      <4>1. rounds[w] + 1 \in 0 .. Rounds - 1 BY <3>1, <3>4, Types
      <4> QED BY <3>4, <4>1, Types
    <3> QED BY <3>2, <3>3, <3>4
  <2> QED BY <2>1, <2>2
<1> QED BY <1>1, <1>2, <1>3, <1>4, <1>5 DEF Leaves

\* What becomes of a save that met a busy database.
Resent(w, s) == s.pc = "sent" /\ s.req = save[w].req /\ ~s.held

LEMMA Busies ==
  ASSUME SavesTypeOK, NEW w \in Writers, Busy(w)
  PROVE  \/ \E s \in Saves : Resent(w, s) /\ Leaves(w, s, session, TRUE) /\ copy' = copy
         \/ w \in Queued /\ Leaves(w, NoSave, session, FALSE)
<1> USE SavesAssumption
<1>1. CASE save[w].tries + 1 < Attempts \/ w \in Devices
  <2> DEFINE k == IF w \in Devices THEN 0 ELSE save[w].tries + 1
             s == [NoSave EXCEPT !.pc = "sent", !.req = save[w].req, !.tries = k]
  <2>1. save[w] \in Saves BY Types
  <2>2. k \in 0 .. Attempts - 1 BY <1>1, <2>1 DEF Saves
  <2>3. s \in Saves /\ s.pc = "sent" /\ s.req = save[w].req /\ ~s.held
    BY <2>1, <2>2, NoSaveType DEF Saves, NoSave
  <2>4. save' = [save EXCEPT ![w] = s] /\ UNCHANGED <<denied, copy, status, rounds>>
    BY <1>1 DEF Busy
  <2> HIDE DEF s
  <2>5. Leaves(w, s, session, TRUE) BY <2>3, <2>4, Types DEF Leaves
  <2> QED BY <2>3, <2>4, <2>5 DEF Resent
<1>2. CASE ~(save[w].tries + 1 < Attempts \/ w \in Devices)
  BY <1>2, Answers DEF Busy, Writers
<1> QED BY <1>1, <1>2

\* What a sweep would change.
Pending ==
  /\ session.live
  /\ session.due \/ session.shown \cap Unavailable(source, retracted) # {}

\* Somebody read revision r with the turns b, or was handed the row that a sweep
\* which did not commit would have left.
Known(r, b) ==
  session.live =>
    /\ r <= session.rev + 1
    /\ r = session.rev => b = session.turns
    /\ r = session.rev + 1 => b = session.turns /\ Pending

Alone == \A w, v \in Writers : Open(w) /\ Open(v) => w = v

\* What is shown has its turn, and the row has one holder.
Shape ==
  /\ session.shown \subseteq session.turns
  /\ ~session.live => session.shown = {}
  /\ \A w \in Writers :
       /\ save[w].pc # "idle" =>
            /\ save[w].req.shown \subseteq save[w].req.turns
            /\ save[w].req.del => save[w].req.turns = {}
       /\ Open(w) => save[w].row.shown \subseteq save[w].req.turns /\ receipt[w] = NoRequest
       /\ save[w].held => Open(w) /\ ~change.held /\ session.live
  /\ change.held => change.pc = "redacted" /\ session.live

\* A withdrawn source is out of every row that can still be written.
Hidden ==
  /\ withdrawn \subseteq retracted
  /\ session.shown \cap withdrawn = {}
  /\ \A m \in Messages : source[m] = "withdrawn" => m \in retracted
  /\ change.pc # "idle" =>
       change.m \in Messages /\ (change.to = "up" => source[change.m] = "withdrawn")
  /\ change.pc = "redacted" /\ change.to = "withdrawn" =>
       change.m \in change.led /\ (~change.held => change.m \notin session.shown)
  /\ \A w \in Writers : save[w].pc = "checked" =>
       /\ save[w].row.shown \cap withdrawn = {}
       /\ change.pc # "idle" => change.m \notin save[w].req.turns

\* The receipt a device may still meet is that of the update it sends.
Told ==
  \A d \in Devices :
    /\ d \in denied => receipt[d] = NoRequest /\ save[d].pc = "idle"
    /\ save[d].pc = "sent" => receipt[d] = NoRequest \/ receipt[d] = save[d].req

\* Everybody who will save at a revision has seen the turns of that revision, and
\* while the row of an open save is current nobody is ahead of it.
Seen ==
  /\ \A d \in Devices : copy[d].live => Known(copy[d].rev, copy[d].turns)
  /\ \A w \in Writers : save[w].pc # "idle" => Known(save[w].req.rev, save[w].req.base)
  /\ \A w \in Writers : save[w].held => Pending /\ save[w].req.rev = session.rev + 1
  /\ \A w \in Writers : Open(w) /\ ~save[w].held /\ session.live =>
       /\ save[w].req.rev <= session.rev
       /\ save[w].req.rev = session.rev =>
            /\ \A d \in Devices : copy[d].live => copy[d].rev <= session.rev
            /\ \A v \in Writers : save[v].pc # "idle" => save[v].req.rev <= session.rev

SavesInv == SavesTypeOK /\ Alone /\ Shape /\ Hidden /\ Told /\ Seen

LEMMA SpendType ==
  ASSUME SavesTypeOK, NEW k, Spend(k) PROVE spent' \in [DOMAIN Risk -> Nat]
BY DEF SavesTypeOK, Spend

LEMMA InitTypes == SavesInit => SavesTypeOK
<1> SUFFICES ASSUME SavesInit PROVE SavesTypeOK
  OBVIOUS
<1> USE SavesAssumption DEF SavesInit
<1>1. NewSession \in Row BY DEF NewSession, Row
<1>2. session \in Row /\ copy \in [Devices -> Row] BY <1>1
<1>3. receipt \in [Writers -> Requests] /\ save \in [Writers -> Saves] BY NoSaveType
<1>4. change \in Changes BY DEF NoChange, Changes
<1>5. 0 \in 0 .. Rounds - 1 OBVIOUS
<1>6. rounds \in [Queued -> 0 .. Rounds - 1] BY <1>5
<1>7. spent \in [DOMAIN Risk -> Nat] OBVIOUS
<1> QED BY <1>2, <1>3, <1>4, <1>6, <1>7, Types

LEMMA InitHolds == SavesInit => SavesInv
<1> SUFFICES ASSUME SavesInit PROVE SavesInv
  OBVIOUS
<1> USE DEF SavesInit
<1>1. \A w \in Writers : save[w].pc = "idle" /\ ~save[w].held /\ receipt[w] = NoRequest
  BY DEF NoSave
<1>2. session.rev = 1 /\ session.turns = {} /\ session.shown = {} /\ session.live
  BY DEF NewSession
<1>3. \A d \in Devices : copy[d].rev = 1 /\ copy[d].turns = {} BY DEF NewSession
<1>4. Alone BY <1>1 DEF Alone, Open
<1>5. Shape BY <1>1, <1>2 DEF Shape, Open, NoChange
<1>6. Hidden BY <1>1, <1>2 DEF Hidden, NoChange
<1>7. Told BY <1>1 DEF Told, Writers
<1>8. Seen BY <1>1, <1>2, <1>3 DEF Seen, Known, Open
<1> QED BY <1>4, <1>5, <1>6, <1>7, <1>8, InitTypes DEF SavesInv

LEMMA RowWith ==
  ASSUME NEW r \in Row, NEW n \in Nat, NEW s \in SUBSET Messages
  PROVE  /\ [r EXCEPT !.rev = n, !.shown = s] \in Row
         /\ \A t \in SUBSET Messages, l \in BOOLEAN :
              [r EXCEPT !.live = l, !.rev = n, !.turns = t, !.shown = s] \in Row
BY DEF Row

LEMMA SweptRow ==
  ASSUME SavesInv
  PROVE  /\ ~Pending => Swept(session) = session
         /\ Pending => /\ Swept(session) # session
                       /\ Swept(session).rev = session.rev + 1
                       /\ Swept(session).live => Swept(session).turns = session.turns
         /\ Swept(session).live => session.live
         /\ Swept(session) \in Row
         /\ Swept(session).shown \subseteq session.shown
         /\ Swept(session).shown \subseteq Swept(session).turns
         /\ ~Swept(session).live => Swept(session).shown = {}
<1>1. session \in Row /\ session.shown \subseteq session.turns
      /\ (~session.live => session.shown = {})
  BY Types DEF SavesInv, Shape
<1>0. /\ session.live \in BOOLEAN /\ session.rev \in Nat /\ session.turns \in SUBSET Messages
      /\ session.shown \in SUBSET Messages /\ session.due \in BOOLEAN
  BY <1>1 DEF Row
<1>2. CASE ~session.live BY <1>1, <1>2 DEF Pending, Swept
<1>3. CASE session.live /\ session.due
  <2> DEFINE row == [session EXCEPT !.live = FALSE, !.rev = session.rev + 1, !.turns = {}, !.shown = {}]
  <2>1. Swept(session) = row /\ Pending BY <1>3 DEF Swept, Pending, Tombstone
  <2>2. session.rev + 1 \in Nat /\ {} \in SUBSET Messages BY <1>0
  <2>3. row \in Row BY <2>2, <1>1, RowWith
  <2>4. row.rev = session.rev + 1 /\ ~row.live /\ row.shown = {} /\ row.turns = {}
    BY <1>1 DEF Row
  <2> HIDE DEF row
  <2> QED BY <1>0, <1>3, <2>1, <2>3, <2>4
<1>4. CASE session.live /\ ~session.due
  <2> DEFINE shown == session.shown \ Unavailable(source, retracted)
             row == [session EXCEPT !.rev = session.rev + 1, !.shown = shown]
  <2>1. Swept(session) = IF shown = session.shown THEN session ELSE row
    BY <1>4 DEF Swept, Redacted
  <2>2. Pending <=> shown # session.shown BY <1>4 DEF Pending
  <2>3. session.rev + 1 \in Nat BY <1>0
  <2>4. shown \in SUBSET Messages /\ shown \subseteq session.shown BY <1>0
  <2> HIDE DEF shown
  <2>5. row \in Row BY <2>3, <2>4, <1>1, RowWith
  <2>6. row.rev = session.rev + 1 /\ row.live = session.live
        /\ row.turns = session.turns /\ row.shown = shown
    BY <1>1 DEF Row
  <2> HIDE DEF row
  <2> QED BY <1>0, <1>1, <1>4, <2>1, <2>2, <2>4, <2>5, <2>6
<1> QED BY <1>2, <1>3, <1>4, <1>0

LEMMA RecordRow ==
  ASSUME NEW r \in Row
  PROVE  /\ Record(r) \in Row /\ Record(r).live = r.live /\ Record(r).rev = r.rev
         /\ Record(r).turns = r.turns /\ Record(r).shown = r.shown
BY DEF Row, Record

LEMMA Numbers ==
  ASSUME SavesTypeOK
  PROVE  /\ session.rev \in Nat
         /\ \A d \in Devices : copy[d].rev \in Nat
         /\ \A w \in Writers : save[w].req.rev \in Nat
BY DEF SavesTypeOK, Row, Requests

\* A save ends or starts over, and nothing else changes.
Ends(w, s, row, told) ==
  /\ Leaves(w, s, row, told)
  /\ \A v \in Writers : Open(v) => v = w
  /\ save[w].pc # "idle"
  /\ s = NoSave \/ Resent(w, s)
  /\ UNCHANGED <<session, source, retracted, receipt, change, gone, withdrawn>>
  /\ spent' \in [DOMAIN Risk -> Nat]
  /\ row \in Row /\ (row.live => Known(row.rev, row.turns))
  /\ ~told /\ w \in Devices => s = NoSave /\ receipt[w] = NoRequest

LEMMA EndStep ==
  ASSUME SavesInv, NEW w \in Writers, NEW s, NEW row, NEW told, Ends(w, s, row, told)
  PROVE  SavesInv'
<1> USE DEF Ends
<1>0. save \in [Writers -> Saves] /\ copy \in [Devices -> Row] /\ s \in Saves /\ denied \subseteq Devices
  BY Types DEF SavesInv, Leaves
<1>1. /\ save'[w] = s /\ \A v \in Writers : v # w => save'[v] = save[v]
      /\ save' \in [Writers -> Saves]
  BY <1>0 DEF Leaves
<1>2. /\ s.pc \in {"idle", "sent"} /\ ~s.held
      /\ s.pc # "idle" => s.pc = "sent" /\ s.req = save[w].req
  BY DEF NoSave, Resent
<1>3. /\ copy' \in [Devices -> Row]
      /\ \A d \in Devices : copy'[d] = copy[d]
           \/ (copy'[d].live => row.live /\ copy'[d].rev = row.rev /\ copy'[d].turns = row.turns)
  <2> DEFINE r == Record(row)
  <2>1. r \in Row /\ r.live = row.live /\ r.rev = row.rev /\ r.turns = row.turns BY RecordRow
  <2>2. copy' = copy \/ (w \in Devices /\ copy' = [copy EXCEPT ![w] = r]) BY DEF Leaves
  <2> HIDE DEF r
  <2> QED BY <1>0, <2>1, <2>2
<1>4. \A v \in Writers : ~Open(v)' BY <1>1, <1>2 DEF Open
<1>5. SavesTypeOK'
  <2>1. denied' \subseteq Devices BY <1>0 DEF Leaves
  <2> QED BY <1>1, <1>3, <2>1 DEF SavesInv, SavesTypeOK, Saves, Leaves
<1>6. Alone' BY <1>4 DEF Alone
<1>7. Shape'
  <2>1. \A v \in Writers : save'[v].pc # "idle" => save[v].pc # "idle" /\ save'[v].req = save[v].req
    BY <1>1, <1>2
  <2>2. \A v \in Writers : ~save'[v].held
    BY <1>1, <1>2, <1>4 DEF SavesInv, Shape, Open
  <2> QED BY <2>1, <2>2, <1>4 DEF SavesInv, Shape
<1>8. Hidden' BY <1>4 DEF SavesInv, Hidden, Open
<1>9. Told'
  <2>1. \A d \in Devices : d \in denied' => receipt[d] = NoRequest /\ save'[d].pc = "idle"
    BY <1>1, <1>2 DEF SavesInv, Told, Leaves, NoSave, Writers
  <2>2. \A d \in Devices : save'[d].pc = "sent" => receipt[d] = NoRequest \/ receipt[d] = save'[d].req
    <3>1. save[w].pc = "sent" \/ Open(w) BY <1>0 DEF Saves, Open
    <3>2. Open(w) => receipt[w] = NoRequest BY DEF SavesInv, Shape
    <3>3. w \in Devices /\ save[w].pc = "sent" => receipt[w] = NoRequest \/ receipt[w] = save[w].req
      BY DEF SavesInv, Told
    <3>4. \A d \in Devices : d # w => save'[d] = save[d] BY <1>1 DEF Writers
    <3> QED BY <1>1, <1>2, <3>1, <3>2, <3>3, <3>4 DEF SavesInv, Told
  <2> QED BY <2>1, <2>2 DEF Told
<1>10. Seen'
  <2>1. \A r, b : Known(r, b) <=> Known(r, b)' BY DEF Known, Pending
  <2>2. \A d \in Devices : copy'[d].live => Known(copy'[d].rev, copy'[d].turns)
    BY <1>3 DEF SavesInv, Seen
  <2>3. \A v \in Writers : save'[v].pc # "idle" => Known(save'[v].req.rev, save'[v].req.base)
    BY <1>1, <1>2 DEF SavesInv, Seen
  <2>4. \A v \in Writers : ~save'[v].held
    BY <1>1, <1>2, <1>4 DEF SavesInv, Shape, Open
  <2> QED BY <2>1, <2>2, <2>3, <2>4, <1>4 DEF Seen
<1> QED BY <1>5, <1>6, <1>7, <1>8, <1>9, <1>10 DEF SavesInv

LEMMA RowKnown ==
  ASSUME SavesInv
  PROVE  /\ Known(session.rev, session.turns)
         /\ Swept(session).live => Known(Swept(session).rev, Swept(session).turns)
         /\ session \in Row
BY SweptRow, Numbers, Types DEF Known, SavesInv

LEMMA BusyInv ==
  ASSUME SavesInv, NEW w \in Writers, Busy(w), RolledBack, save[w].pc # "idle",
         \A v \in Writers : Open(v) => v = w
  PROVE  SavesInv'
<1>1. spent' \in [DOMAIN Risk -> Nat] BY DEF SavesInv, SavesTypeOK, RolledBack
<1>2. session \in Row /\ Known(session.rev, session.turns) BY RowKnown
<1>3. CASE \E s \in Saves : Resent(w, s) /\ Leaves(w, s, session, TRUE)
  <2>1. PICK s \in Saves : Resent(w, s) /\ Leaves(w, s, session, TRUE) BY <1>3
  <2>2. Ends(w, s, session, TRUE) BY <1>1, <1>2, <2>1 DEF Ends, RolledBack
  <2> QED BY <2>2, EndStep
<1>4. CASE w \in Queued /\ Leaves(w, NoSave, session, FALSE)
  <2>1. w \notin Devices BY <1>4, SavesAssumption DEF Messages
  <2>2. Ends(w, NoSave, session, FALSE) BY <1>1, <1>2, <1>4, <2>1 DEF Ends, RolledBack
  <2> QED BY <2>2, EndStep
<1> QED BY <1>3, <1>4, Busies DEF SavesInv

LEMMA CrashInv ==
  ASSUME SavesInv, NEW w \in Writers, Crash(w) PROVE SavesInv'
<1> DEFINE s == IF w \in Queued THEN NoSave ELSE [NoSave EXCEPT !.pc = "sent", !.req = save[w].req]
<1>1. save[w] \in Saves /\ NoSave \in Saves BY NoSaveType, Types DEF SavesInv
<1>2. s \in Saves /\ (s = NoSave \/ Resent(w, s)) BY <1>1 DEF Saves, Resent, NoSave
<1>3. save' = [save EXCEPT ![w] = s] BY DEF Crash
<1> HIDE DEF s
<1>4. Leaves(w, s, session, TRUE) BY <1>2, <1>3, Types DEF Crash, Leaves, SavesInv
<1>5. spent' \in [DOMAIN Risk -> Nat] BY SpendType DEF Crash, SavesInv
<1>6. \A v \in Writers : Open(v) => v = w BY DEF Crash, SavesInv, Alone
<1>7. save[w].pc # "idle" BY DEF Crash, Open
<1>8. Ends(w, s, session, TRUE) BY <1>2, <1>4, <1>5, <1>6, <1>7, RowKnown DEF Ends, Crash
<1> QED BY <1>8, EndStep

\* A refusal of the state or of the revision.
LEMMA RefusedInv ==
  ASSUME SavesInv, NEW w \in Writers, NEW answer, NEW row, Answer(w, answer, row), RolledBack,
         save[w].pc # "idle", \A v \in Writers : Open(v) => v = w,
         w \in Devices => receipt[w] = NoRequest,
         row = session \/ row = Swept(session)
  PROVE  SavesInv'
<1>1. row \in Row /\ (row.live => Known(row.rev, row.turns)) BY RowKnown, SweptRow
<1>2. Leaves(w, NoSave, row, answer = "done") BY Answers DEF SavesInv
<1>3. spent' \in [DOMAIN Risk -> Nat] BY DEF SavesInv, SavesTypeOK, RolledBack
<1>4. Ends(w, NoSave, row, answer = "done") BY <1>1, <1>2, <1>3 DEF Ends, RolledBack
<1> QED BY <1>4, EndStep

\* A save found nothing against it, and has the row if it swept it.
LEMMA GoInv ==
  ASSUME SavesInv, NEW w \in Writers, save[w].pc = "sent", \A v \in Writers : ~Open(v),
         NEW req, req = save[w].req, NEW row, row = Swept(session),
         row # session => ~RowHeld, Verdict(w, req, row) = "go",
         save' = [save EXCEPT ![w] = [save[w] EXCEPT !.pc = "swept",
                    !.row = [req EXCEPT !.shown = Preserved(req, row)],
                    !.held = row # session, !.led = SweptLedger]],
         UNCHANGED <<denied, copy, status, rounds>>, RolledBack
  PROVE  SavesInv'
<1> DEFINE merged == [req EXCEPT !.shown = Preserved(req, row)]
           held == row # session
           s == [save[w] EXCEPT !.pc = "swept", !.row = merged, !.held = held, !.led = SweptLedger]
<1>0. /\ save \in [Writers -> Saves] /\ req \in Requests /\ save[w] \in Saves
      /\ session.rev \in Nat /\ req.rev \in Nat
  BY Types, Numbers DEF SavesInv, Saves
<1>1. req.shown \subseteq req.turns BY DEF SavesInv, Shape
<1>2. Preserved(req, row) \subseteq req.turns BY <1>1 DEF Preserved
<1>3. merged \in Requests /\ merged.shown \subseteq req.turns
  <2>1. req.turns \subseteq Messages BY <1>0 DEF Requests
  <2>2. Preserved(req, row) \in SUBSET Messages BY <1>2, <2>1
  <2> QED BY <1>0, <1>2, <2>2 DEF Requests
<1>4. SweptLedger \in SUBSET Messages
  BY Types DEF SavesInv, SweptLedger, Unavailable
<1>5. held \in BOOLEAN OBVIOUS
<1>6. receipt[w] = NoRequest /\ row.live /\ row.rev = req.rev BY DEF Verdict
<1> HIDE DEF merged, held
<1>7. /\ s \in Saves /\ s.pc = "swept" /\ s.req = req /\ s.row = merged /\ s.held = held
  BY <1>0, <1>3, <1>4, <1>5 DEF Saves
<1>8. save' = [save EXCEPT ![w] = s] BY DEF merged, held
<1> HIDE DEF s
<1>9. /\ save'[w] = s /\ \A v \in Writers : v # w => save'[v] = save[v]
      /\ save' \in [Writers -> Saves]
  BY <1>0, <1>7, <1>8
<1>10. \A v \in Writers : Open(v)' <=> v = w BY <1>7, <1>9 DEF Open
<1>11. \A v \in Writers : ~save[v].held BY DEF SavesInv, Shape
<1>12. /\ held => Pending /\ ~RowHeld /\ req.rev = session.rev + 1 /\ session.live
       /\ ~held => ~Pending /\ req.rev = session.rev
  BY <1>6, SweptRow DEF held
<1>13. SavesTypeOK' BY <1>9 DEF SavesInv, SavesTypeOK, Saves, RolledBack
<1>14. Alone' BY <1>10 DEF Alone
<1>15. Shape'
  <2>1. held => ~change.held BY <1>12 DEF RowHeld
  <2>2. \A v \in Writers : save'[v].pc # "idle" => save[v].pc # "idle" /\ save'[v].req = save[v].req
    BY <1>7, <1>9
  <2>3. \A v \in Writers : save'[v].held => v = w /\ held BY <1>7, <1>9, <1>11
  <2> QED BY <1>3, <1>6, <1>7, <1>9, <1>10, <1>12, <2>1, <2>2, <2>3 DEF SavesInv, Shape, RolledBack
<1>16. Hidden' BY <1>7, <1>9 DEF SavesInv, Hidden, RolledBack
<1>17. Told' BY <1>7, <1>9 DEF SavesInv, Told, RolledBack, Writers
<1>18. Seen'
  <2>1. \A r, b : Known(r, b) <=> Known(r, b)' BY DEF Known, Pending, RolledBack
  <2>2. \A v \in Writers : save'[v].pc # "idle" => save[v].pc # "idle" /\ save'[v].req = save[v].req
    BY <1>7, <1>9
  <2>8. session' = session /\ copy' = copy BY DEF RolledBack
  <2>3. \A d \in Devices : copy'[d].live => Known(copy'[d].rev, copy'[d].turns)
    BY <2>8 DEF SavesInv, Seen
  <2>4. \A v \in Writers : save'[v].pc # "idle" => Known(save'[v].req.rev, save'[v].req.base)
    BY <2>2 DEF SavesInv, Seen
  <2>5. \A v \in Writers : save'[v].held => Pending' /\ save'[v].req.rev = session'.rev + 1
    BY <1>7, <1>9, <1>11, <1>12 DEF Pending, RolledBack
  <2>6. ASSUME ~held, session.live
        PROVE  /\ \A d \in Devices : copy[d].live => copy[d].rev <= session.rev
               /\ \A v \in Writers : save[v].pc # "idle" => save[v].req.rev <= session.rev
    <3>1. \A r, b : r \in Nat /\ Known(r, b) => r <= session.rev BY <1>0, <1>12, <2>6 DEF Known
    <3> QED BY <3>1, Numbers DEF SavesInv, Seen
  <2>7. \A v \in Writers : Open(v)' /\ ~save'[v].held /\ session'.live =>
          v = w /\ ~held /\ session.live /\ save'[v].req.rev = session.rev
    BY <1>7, <1>9, <1>10, <1>12 DEF RolledBack
  <2>9. \A v \in Writers : Open(v)' /\ ~save'[v].held /\ session'.live =>
          /\ save'[v].req.rev <= session'.rev
          /\ save'[v].req.rev = session'.rev =>
               /\ \A d \in Devices : copy'[d].live => copy'[d].rev <= session'.rev
               /\ \A u \in Writers : save'[u].pc # "idle" => save'[u].req.rev <= session'.rev
    BY <1>0, <2>2, <2>6, <2>7, <2>8
  <2> QED BY <2>1, <2>3, <2>4, <2>5, <2>9 DEF Seen
<1> QED BY <1>13, <1>14, <1>15, <1>16, <1>17, <1>18 DEF SavesInv

\* What a writer's save is after a sweep: as before, ended, or a run's new one.
AfterSweep(w) ==
  \/ save'[w] = save[w] \/ save'[w] = NoSave
  \/ /\ w \in Queued /\ session'.live
     /\ save'[w].pc = "sent" /\ ~save'[w].held /\ ~save'[w].req.del
     /\ save'[w].req.rev = session'.rev /\ save'[w].req.base = session'.turns
     /\ save'[w].req.shown \subseteq save'[w].req.turns

\* A sweep commits, and whoever swept takes what it left.
Sweeps ==
  /\ CommitSweep
  /\ save' \in [Writers -> Saves] /\ \A w \in Writers : AfterSweep(w)
  /\ copy' \in [Devices -> Row]
  /\ \A d \in Devices : copy'[d] = copy[d] \/ copy'[d] = Record(Swept(session))
  /\ denied' = denied
  /\ UNCHANGED <<source, receipt, change, gone, withdrawn>>
  /\ status' \in [Queued -> {"queued", "saving", "settled", "pending", "failed"}]
  /\ rounds' \in [Queued -> 0 .. Rounds - 1]
  /\ spent' \in [DOMAIN Risk -> Nat]

LEMMA SweepStep == ASSUME SavesInv, Sweeps PROVE SavesInv'
<1> USE DEF Sweeps
<1>0. /\ session' = Swept(session) /\ session' \in Row /\ session \in Row
      /\ session.rev \in Nat /\ session'.rev \in Nat
  BY SweptRow, RowKnown, Numbers DEF CommitSweep, SavesInv, Row
<1>1. /\ ~Pending => session' = session
      /\ Pending => /\ session'.rev = session.rev + 1
                    /\ session'.live => session'.turns = session.turns
                    /\ ~RowHeld
      /\ session'.live => session.live
      /\ session'.shown \subseteq session.shown /\ session'.shown \subseteq session'.turns
      /\ ~session'.live => session'.shown = {}
  BY SweptRow, <1>0 DEF CommitSweep
<1>2. \A w \in Writers : save'[w].held => save'[w] = save[w]
  BY DEF AfterSweep, NoSave
<1>3. \A w \in Writers : Open(w)' => Open(w) /\ save'[w] = save[w]
  BY DEF AfterSweep, NoSave, Open
<1>4. retracted \subseteq retracted' /\ retracted' \subseteq Messages
  BY DEF CommitSweep, SweptLedger, Unavailable, SavesInv, SavesTypeOK
<1>5. SavesTypeOK' BY <1>0, <1>4 DEF SavesInv, SavesTypeOK, Saves
<1>6. Alone' BY <1>3 DEF SavesInv, Alone
<1>7. Shape'
  <2>1. \A w \in Writers : save'[w].pc # "idle" =>
          /\ save'[w].req.shown \subseteq save'[w].req.turns
          /\ save'[w].req.del => save'[w].req.turns = {}
    BY DEF SavesInv, Shape, AfterSweep, NoSave
  <2>2. \A w \in Writers :
          Open(w)' => save'[w].row.shown \subseteq save'[w].req.turns /\ receipt[w] = NoRequest
    BY <1>3 DEF SavesInv, Shape
  <2>3. \A w \in Writers : ~save'[w].held
    <3>1. \A w \in Writers : save[w].held => Pending /\ RowHeld
      BY DEF SavesInv, Seen, RowHeld
    <3> QED BY <1>1, <1>2, <3>1
  <2>4. change.held => session' = session BY <1>1 DEF RowHeld
  <2> QED BY <1>1, <2>1, <2>2, <2>3, <2>4 DEF SavesInv, Shape
<1>8. Hidden'
  <2>1. \A w \in Writers : save'[w].pc = "checked" => save'[w] = save[w] /\ save[w].pc = "checked"
    BY DEF AfterSweep, NoSave
  <2> QED BY <1>1, <1>4, <2>1 DEF SavesInv, Hidden
<1>9. Told'
  <2>1. \A d \in Devices : save'[d] = save[d] \/ save'[d].pc = "idle"
    BY SavesAssumption DEF AfterSweep, Writers, Messages, NoSave
  <2> QED BY <2>1 DEF SavesInv, Told
<1>10. Seen'
  <2>1. \A r, b : r \in Nat /\ Known(r, b) =>
          Known(r, b)' /\ (session'.live => r <= session'.rev)
    BY <1>0, <1>1 DEF Known
  <2>2. \A r, b : r = session'.rev /\ b = session'.turns => Known(r, b)'
    BY <1>0 DEF Known
  <2>3. \A d \in Devices : copy'[d] = copy[d]
          \/ (copy'[d].rev = session'.rev /\ copy'[d].turns = session'.turns)
    BY <1>0, RecordRow
  <2>4. \A d \in Devices : copy'[d].live =>
          \/ copy'[d] = copy[d] /\ Known(copy'[d].rev, copy'[d].turns)
          \/ copy'[d].rev = session'.rev /\ copy'[d].turns = session'.turns
    BY <2>3 DEF SavesInv, Seen
  <2>5. \A w \in Writers : save'[w].pc # "idle" =>
          \/ save'[w] = save[w] /\ Known(save'[w].req.rev, save'[w].req.base)
          \/ save'[w].req.rev = session'.rev /\ save'[w].req.base = session'.turns
    BY DEF SavesInv, Seen, AfterSweep, NoSave
  <2>6. \A w \in Writers : ~save'[w].held
    <3>1. \A w \in Writers : save[w].held => Pending /\ RowHeld
      BY DEF SavesInv, Seen, RowHeld
    <3> QED BY <1>1, <1>2, <3>1
  <2>7. (\A d \in Devices : copy[d].live => Known(copy[d].rev, copy[d].turns))'
    BY <2>1, <2>2, <2>4, Numbers DEF SavesInv
  <2>8. (\A w \in Writers : save[w].pc # "idle" => Known(save[w].req.rev, save[w].req.base))'
    BY <2>1, <2>2, <2>5, Numbers DEF SavesInv
  <2>9. session'.live =>
          /\ \A d \in Devices : copy'[d].live => copy'[d].rev <= session'.rev
          /\ \A w \in Writers : save'[w].pc # "idle" => save'[w].req.rev <= session'.rev
    BY <1>0, <2>1, <2>4, <2>5, Numbers DEF SavesInv
  <2>10. \A w \in Writers : Open(w)' => save'[w].pc # "idle"
    BY DEF Open
  <2> QED BY <2>6, <2>7, <2>8, <2>9, <2>10 DEF Seen
<1> QED BY <1>5, <1>6, <1>7, <1>8, <1>9, <1>10 DEF SavesInv

LEMMA SweepInv == ASSUME SavesInv, Sweep PROVE SavesInv'
<1>1. Sweeps BY Types DEF Sweep, Sweeps, AfterSweep, SavesInv
<1> QED BY <1>1, SweepStep

LEMMA ReadInv == ASSUME SavesInv, NEW d \in Devices, Read(d) PROVE SavesInv'
<1> DEFINE r == Record(Swept(session))
<1>1. r \in Row BY SweptRow, RecordRow
<1>2. copy' = [copy EXCEPT ![d] = r] /\ copy \in [Devices -> Row]
  BY Types DEF Read, SavesInv
<1>3. copy' \in [Devices -> Row] /\ \A e \in Devices : copy'[e] = copy[e] \/ copy'[e] = r
  <2> HIDE DEF r
  <2> QED BY <1>1, <1>2
<1>4. Sweeps BY <1>3, Types DEF Read, Sweeps, AfterSweep, SavesInv
<1> QED BY <1>4, SweepStep

LEMMA RunTypes ==
  ASSUME SavesTypeOK, NEW m \in Queued, NEW s \in {"saving", "settled", "failed"}
  PROVE  Settled(m, s) \in [Queued -> {"queued", "saving", "settled", "pending", "failed"}]
BY DEF SavesTypeOK, Settled

LEMMA SaveTurnInv == ASSUME SavesInv, NEW m \in Queued, SaveTurn(m) PROVE SavesInv'
<1> DEFINE row == Swept(session)
           req == [rev |-> row.rev, del |-> FALSE, base |-> row.turns,
                   turns |-> row.turns \cup {m}, shown |-> row.shown \cup {m}]
           s == [NoSave EXCEPT !.pc = "sent", !.req = req]
<1>0. row \in Row /\ row.shown \subseteq row.turns /\ save \in [Writers -> Saves]
  BY SweptRow, Types DEF SavesInv
<1>1. status' \in [Queued -> {"queued", "saving", "settled", "pending", "failed"}]
  <2>1. \/ status' = Settled(m, "failed") \/ status' = Settled(m, "settled") \/ status' = status
    BY DEF SaveTurn
  <2> QED BY <2>1, RunTypes, Types DEF SavesInv
<1>2. /\ session' = row
      /\ \/ save' = save
         \/ row.live /\ save' = [save EXCEPT ![m] = s]
  BY DEF SaveTurn, CommitSweep
<1>3. req \in Requests
  <2>1. /\ row.rev \in Nat /\ row.turns \in SUBSET Messages /\ row.shown \in SUBSET Messages
        /\ m \in Messages
    BY <1>0 DEF Row, Messages
  <2> HIDE DEF row
  <2> QED BY <2>1 DEF Requests
<1>4. /\ req.rev = row.rev /\ ~req.del /\ req.base = row.turns /\ req.shown \subseteq req.turns
  BY <1>0
<1> HIDE DEF req
<1>5. s \in Saves /\ s.pc = "sent" /\ ~s.held /\ s.req = req
  BY <1>3, NoSaveType DEF NoSave, Saves
<1> HIDE DEF s
<1>6. m \in Writers BY DEF Writers
<1>7. save' \in [Writers -> Saves] BY <1>0, <1>2, <1>5, <1>6
<1>8. \A w \in Writers : AfterSweep(w)
  <2>1. CASE save' = save BY <2>1 DEF AfterSweep
  <2>2. CASE row.live /\ save' = [save EXCEPT ![m] = s]
    <3>1. save'[m] = s /\ \A w \in Writers : w # m => save'[w] = save[w]
      BY <1>0, <1>6, <2>2
    <3> QED BY <1>2, <1>4, <1>5, <2>2, <3>1 DEF AfterSweep
  <2> QED BY <1>2, <2>1, <2>2
<1>9. Sweeps BY <1>1, <1>7, <1>8, Types DEF SaveTurn, Sweeps, SavesInv
<1> QED BY <1>9, SweepStep

\* A repeated request: the sweep commits and the receipt is replayed.
LEMMA ReplayInv ==
  ASSUME SavesInv, NEW w \in Writers, save[w].pc = "sent",
         Answer(w, "done", Swept(session)), Swept(session) # session => ~RowHeld,
         session' = Swept(session), retracted' = SweptLedger,
         UNCHANGED <<source, receipt, change, gone, withdrawn, spent>>
  PROVE  SavesInv'
<1> DEFINE row == Swept(session) r == Record(row)
<1>1. r \in Row BY SweptRow, RecordRow
<1>2. Leaves(w, NoSave, row, "done" = "done") BY Answers DEF SavesInv
<1>3. /\ save \in [Writers -> Saves] /\ copy \in [Devices -> Row] /\ denied' = denied
      /\ save' = [save EXCEPT ![w] = NoSave]
      /\ copy' = copy \/ (w \in Devices /\ copy' = [copy EXCEPT ![w] = r])
  BY <1>2, Types DEF Leaves, SavesInv
<1>4. copy' \in [Devices -> Row] /\ \A e \in Devices : copy'[e] = copy[e] \/ copy'[e] = r
  <2> HIDE DEF r
  <2> QED BY <1>1, <1>3
<1>5. save' \in [Writers -> Saves] /\ \A v \in Writers : AfterSweep(v)
  BY <1>3, NoSaveType DEF AfterSweep
<1>6. CommitSweep BY DEF CommitSweep
<1>7. Sweeps BY <1>2, <1>3, <1>4, <1>5, <1>6, Types DEF Leaves, Sweeps, SavesInv
<1> QED BY <1>7, SweepStep

LEMMA BeginInv == ASSUME SavesInv, NEW w \in Writers, Begin(w) PROVE SavesInv'
<1> DEFINE req == save[w].req
           row == Swept(session)
           verdict == Verdict(w, req, row)
<1>1. save[w].pc = "sent" /\ \A v \in Writers : ~Open(v) BY DEF Begin
<1>2. CASE Busy(w) /\ RolledBack BY <1>1, <1>2, BusyInv
<1>3. CASE /\ row # session => ~RowHeld
           /\ verdict = "done" /\ Answer(w, "done", row)
           /\ session' = row /\ retracted' = SweptLedger
           /\ UNCHANGED <<source, receipt, change, gone, withdrawn, spent>>
  BY <1>1, <1>3, ReplayInv
<1>4. CASE verdict \in {"gone", "conflict", "refused"} /\ Answer(w, verdict, row) /\ RolledBack
  <2>1. w \in Devices => receipt[w] = NoRequest
    BY <1>1, <1>4 DEF SavesInv, Told, Verdict
  <2> QED BY <1>1, <1>4, <2>1, RefusedInv
<1>5. CASE /\ row # session => ~RowHeld
           /\ verdict = "go"
           /\ save' = [save EXCEPT ![w] = [save[w] EXCEPT !.pc = "swept",
                         !.row = [req EXCEPT !.shown = Preserved(req, row)],
                         !.held = row # session, !.led = SweptLedger]]
           /\ UNCHANGED <<denied, copy, status, rounds>> /\ RolledBack
  BY <1>1, <1>5, GoInv
<1> QED BY <1>2, <1>3, <1>4, <1>5 DEF Begin

\* The sources of an open save are locked and read.
LEMMA CheckInv ==
  ASSUME SavesInv, NEW w \in Writers, save[w].pc = "swept",
         change.m \notin save[w].req.turns, Check(w)
  PROVE  SavesInv'
<1> DEFINE shown == Redacted(save[w].row.shown, source, retracted)
           led == save[w].led \cup SweptLedger
           s == [save[w] EXCEPT !.pc = "checked", !.row.shown = shown, !.led = led]
<1>0. save \in [Writers -> Saves] /\ save[w] \in Saves BY Types DEF SavesInv
<1>1. Open(w) /\ save[w].row.shown \subseteq save[w].req.turns BY DEF Open, SavesInv, Shape
<1>2. shown \subseteq save[w].row.shown /\ shown \cap withdrawn = {}
  BY DEF Redacted, Unavailable, SavesInv, Hidden
<1>3. led \in SUBSET Messages
  BY <1>0, Types DEF Saves, SweptLedger, Unavailable, SavesInv
<1>4. shown \in SUBSET Messages BY <1>0, <1>2 DEF Saves, Requests
<1> HIDE DEF shown, led
<1>5. [save[w].row EXCEPT !.shown = shown] \in Requests BY <1>0, <1>4 DEF Saves, Requests
<1>6. /\ s \in Saves /\ s.pc = "checked" /\ s.req = save[w].req /\ s.row.shown = shown
      /\ s.held = save[w].held
  BY <1>0, <1>3, <1>4, <1>5 DEF Saves, Requests
<1>7. save' = [save EXCEPT ![w] = s] BY DEF Check, shown, led
<1> HIDE DEF s
<1>8. /\ save'[w] = s /\ save' \in [Writers -> Saves]
      /\ \A v \in Writers : v # w => save'[v] = save[v]
  BY <1>0, <1>6, <1>7
<1>9. \A v \in Writers : /\ Open(v)' <=> Open(v)
                         /\ save'[v].req = save[v].req /\ save'[v].held = save[v].held
                         /\ save'[v].pc = "idle" <=> save[v].pc = "idle"
                         /\ save'[v].pc = "sent" <=> save[v].pc = "sent"
  BY <1>1, <1>6, <1>8 DEF Open
<1>10. SavesTypeOK' BY <1>8 DEF SavesInv, SavesTypeOK, Saves, Check, RolledBack
<1>11. Alone' BY <1>9 DEF SavesInv, Alone
<1>12. Shape'
  BY <1>1, <1>2, <1>6, <1>8, <1>9 DEF SavesInv, Shape, Check, RolledBack
<1>13. Hidden' BY <1>2, <1>6, <1>8 DEF SavesInv, Hidden, Check, RolledBack
<1>14. Told' BY <1>9 DEF SavesInv, Told, Check, RolledBack, Writers
<1>15. Seen'
  <2>1. \A r, b : Known(r, b) <=> Known(r, b)' BY DEF Known, Pending, Check, RolledBack
  <2>2. Pending <=> Pending' BY DEF Pending, Check, RolledBack
  <2>3. session' = session /\ copy' = copy BY DEF Check, RolledBack
  <2>4. \A d \in Devices : copy'[d].live => Known(copy'[d].rev, copy'[d].turns)
    BY <2>3 DEF SavesInv, Seen
  <2>5. \A v \in Writers : save'[v].pc # "idle" => Known(save'[v].req.rev, save'[v].req.base)
    BY <1>9 DEF SavesInv, Seen
  <2>6. \A v \in Writers : save'[v].held => Pending' /\ save'[v].req.rev = session'.rev + 1
    BY <1>9, <2>2, <2>3 DEF SavesInv, Seen
  <2>7. \A v \in Writers : Open(v)' /\ ~save'[v].held /\ session'.live =>
          /\ save'[v].req.rev <= session'.rev
          /\ save'[v].req.rev = session'.rev =>
               /\ \A d \in Devices : copy'[d].live => copy'[d].rev <= session'.rev
               /\ \A u \in Writers : save'[u].pc # "idle" => save'[u].req.rev <= session'.rev
    BY <1>9, <2>3 DEF SavesInv, Seen
  <2> QED BY <2>1, <2>4, <2>5, <2>6, <2>7 DEF Seen
<1> QED BY <1>10, <1>11, <1>12, <1>13, <1>14, <1>15 DEF SavesInv

LEMMA LockSourcesInv ==
  ASSUME SavesInv, NEW w \in Writers, LockSources(w) PROVE SavesInv'
<1>1. save[w].pc = "swept" /\ \A v \in Writers : Open(v) => v = w
  BY DEF LockSources, SavesInv, Alone, Open
<1>2. CASE Busy(w) /\ RolledBack BY <1>1, <1>2, BusyInv
<1>3. CASE change.m \notin save[w].req.turns /\ Check(w) BY <1>1, <1>3, CheckInv
<1> QED BY <1>2, <1>3 DEF LockSources

\* What a write is, whoever writes and whether its answer arrives.
LEMMA WriteFacts ==
  ASSUME SavesInv, NEW w \in Writers, save[w].pc = "checked", ~change.held,
         save[w].held \/ (session.live /\ session.rev = save[w].req.rev), Write(w)
  PROVE  /\ session.live /\ session' \in Row
         /\ session'.rev = save[w].req.rev + 1 /\ session'.live = ~save[w].req.del
         /\ session'.turns = save[w].req.turns /\ session'.shown = save[w].row.shown
         /\ session'.rev > session.rev
         /\ save[w].req.base = session.turns
         /\ \A d \in Devices : copy[d].live => copy[d].rev < session'.rev
         /\ \A v \in Writers : save[v].pc # "idle" => save[v].req.rev < session'.rev
         /\ \A v \in Writers : Open(v) => v = w
<1> DEFINE req == save[w].req
           shown == save[w].row.shown
           next == [session EXCEPT !.rev = req.rev + 1, !.live = ~req.del,
                      !.turns = req.turns, !.shown = shown]
<1>0. /\ session \in Row /\ session.rev \in Nat /\ req \in Requests /\ req.rev \in Nat
      /\ save[w].row \in Requests
  BY Types, Numbers DEF SavesInv, Saves
<1>1. Open(w) /\ \A v \in Writers : Open(v) => v = w BY DEF Open, SavesInv, Alone
<1>2. session.live BY DEF SavesInv, Shape
<1>3. /\ save[w].held => req.rev = session.rev + 1
      /\ ~save[w].held => req.rev = session.rev
  BY DEF SavesInv, Seen
<1>4. req.base = session.turns BY <1>0, <1>2, <1>3 DEF Open, SavesInv, Seen, Known
<1>5. session' = next BY DEF Write
<1>6. next \in Row /\ next.rev = req.rev + 1 /\ next.live = ~req.del /\ next.turns = req.turns
      /\ next.shown = shown
  <2> DEFINE n == req.rev + 1  l == ~req.del  t == req.turns
  <2>1. n \in Nat /\ l \in BOOLEAN /\ t \in SUBSET Messages /\ shown \in SUBSET Messages
    BY <1>0 DEF Requests
  <2> HIDE DEF n, l, t, shown
  <2>2. [session EXCEPT !.live = l, !.rev = n, !.turns = t, !.shown = shown] \in Row
    BY <1>0, <2>1, RowWith
  <2>3. next = [session EXCEPT !.live = l, !.rev = n, !.turns = t, !.shown = shown]
    BY <1>0 DEF n, l, t, shown, Row
  <2> QED BY <1>0, <2>1, <2>2, <2>3 DEF n, l, t, shown, Row
<1> HIDE DEF next
<1>7. /\ \A d \in Devices : copy[d].live => copy[d].rev < req.rev + 1
      /\ \A v \in Writers : save[v].pc # "idle" => save[v].req.rev < req.rev + 1
  <2>1. CASE save[w].held
    <3>1. \A r, b : r \in Nat /\ Known(r, b) => r < req.rev + 1
      BY <1>0, <1>2, <1>3, <2>1 DEF Known
    <3> QED BY <3>1, Numbers DEF SavesInv, Seen
  <2>2. CASE ~save[w].held
    <3>1. /\ \A d \in Devices : copy[d].live => copy[d].rev <= session.rev
          /\ \A v \in Writers : save[v].pc # "idle" => save[v].req.rev <= session.rev
      BY <1>1, <1>2, <1>3, <2>2 DEF SavesInv, Seen
    <3> QED BY <1>0, <1>3, <2>2, <3>1, Numbers DEF SavesInv
  <2> QED BY <2>1, <2>2
<1> QED BY <1>0, <1>1, <1>2, <1>3, <1>4, <1>5, <1>6, <1>7

LEMMA WriteEnds ==
  ASSUME SavesInv, NEW w \in Writers, save[w].pc = "checked", session' \in Row, Write(w)
  PROVE  /\ save' \in [Writers -> Saves] /\ \A v \in Writers : v # w => save'[v] = save[v]
         /\ receipt' \in [Writers -> Requests]
         /\ \A v \in Writers : v # w => receipt'[v] = receipt[v]
         /\ \/ save'[w] = NoSave /\ (w \in Devices => receipt'[w] = receipt[w])
            \/ /\ save'[w].pc = "sent" /\ save'[w].req = save[w].req /\ ~save'[w].held
               /\ receipt'[w] = save[w].req
         /\ copy' \in [Devices -> Row]
         /\ \A d \in Devices : copy'[d] = copy[d] \/ copy'[d] = Record(session')
         /\ denied' = denied
         /\ status' \in [Queued -> {"queued", "saving", "settled", "pending", "failed"}]
         /\ rounds' \in [Queued -> 0 .. Rounds - 1]
         /\ spent' \in [DOMAIN Risk -> Nat]
<1> DEFINE req == save[w].req
           r == Record(session')
           s == [NoSave EXCEPT !.pc = "sent", !.req = req]
<1>0. /\ save \in [Writers -> Saves] /\ receipt \in [Writers -> Requests]
      /\ copy \in [Devices -> Row] /\ req \in Requests /\ r \in Row
      /\ spent \in [DOMAIN Risk -> Nat]
  BY Types, RecordRow DEF SavesInv, Saves
<1>1. s \in Saves /\ s.pc = "sent" /\ s.req = req /\ ~s.held /\ NoSave \in Saves
  BY <1>0, NoSaveType DEF Saves, NoSave
<1> HIDE DEF s, r
<1>2. CASE \E answer \in {"done", "busy"} :
             /\ Answer(w, answer, session') /\ (answer = "busy" => w \notin Devices)
             /\ (answer = "done" => spent' = spent) /\ (answer = "busy" => Spend("lost"))
             /\ receipt' = IF w \in Devices THEN receipt ELSE [receipt EXCEPT ![w] = req]
  <2>1. PICK answer \in {"done", "busy"} :
             /\ Answer(w, answer, session') /\ (answer = "busy" => w \notin Devices)
             /\ (answer = "done" => spent' = spent) /\ (answer = "busy" => Spend("lost"))
             /\ receipt' = IF w \in Devices THEN receipt ELSE [receipt EXCEPT ![w] = req]
    BY <1>2
  <2>2. Leaves(w, NoSave, session', answer = "done") BY <2>1, Answers DEF SavesInv
  <2>3. save' = [save EXCEPT ![w] = NoSave] /\ denied' = denied BY <2>1 DEF Answer
  <2>4. copy' = copy \/ (w \in Devices /\ copy' = [copy EXCEPT ![w] = r])
    BY <2>2 DEF Leaves, r
  <2>5. spent' \in [DOMAIN Risk -> Nat] BY <1>0, <2>1, SpendType DEF SavesInv
  <2>6. copy' \in [Devices -> Row] /\ \A d \in Devices : copy'[d] = copy[d] \/ copy'[d] = r
    BY <1>0, <2>4
  <2>7. /\ receipt' \in [Writers -> Requests]
        /\ \A v \in Writers : v # w => receipt'[v] = receipt[v]
        /\ w \in Devices => receipt'[w] = receipt[w]
    BY <1>0, <2>1
  <2>8. save' \in [Writers -> Saves] /\ save'[w] = NoSave
        /\ \A v \in Writers : v # w => save'[v] = save[v]
    BY <1>0, <1>1, <2>3
  <2> QED BY <2>2, <2>3, <2>5, <2>6, <2>7, <2>8 DEF Leaves, r
<1>3. CASE /\ Spend("lost") /\ receipt' = [receipt EXCEPT ![w] = req]
           /\ save' = [save EXCEPT ![w] = s] /\ UNCHANGED <<denied, copy, status, rounds>>
  <2>1. spent' \in [DOMAIN Risk -> Nat] BY <1>3, SpendType DEF SavesInv
  <2>2. /\ save' \in [Writers -> Saves] /\ save'[w] = s
        /\ \A v \in Writers : v # w => save'[v] = save[v]
        /\ receipt' \in [Writers -> Requests] /\ receipt'[w] = req
        /\ \A v \in Writers : v # w => receipt'[v] = receipt[v]
    BY <1>0, <1>1, <1>3
  <2> QED BY <1>0, <1>1, <1>3, <2>1, <2>2, Types DEF SavesInv
<1>4. session' = [session EXCEPT !.rev = req.rev + 1, !.live = ~req.del, !.turns = req.turns,
                                 !.shown = save[w].row.shown]
  BY DEF Write
<1>5. \/ /\ Answer(w, "done", session') /\ UNCHANGED spent
         /\ receipt' = IF w \in Devices THEN receipt ELSE [receipt EXCEPT ![w] = req]
      \/ /\ Spend("lost") /\ receipt' = [receipt EXCEPT ![w] = req]
         /\ IF w \in Devices
            THEN save' = [save EXCEPT ![w] = s] /\ UNCHANGED <<denied, copy, status, rounds>>
            ELSE Answer(w, "busy", session')
  BY <1>4 DEF Write, s
<1> QED BY <1>2, <1>3, <1>5

LEMMA WriteInv ==
  ASSUME SavesInv, NEW w \in Writers, save[w].pc = "checked", ~change.held,
         save[w].held \/ (session.live /\ session.rev = save[w].req.rev), Write(w)
  PROVE  SavesInv'
<1> DEFINE req == save[w].req
<1>0. /\ session.live /\ session' \in Row
      /\ session'.rev = req.rev + 1 /\ session'.live = ~req.del
      /\ session'.turns = req.turns /\ session'.shown = save[w].row.shown
      /\ \A d \in Devices : copy[d].live => copy[d].rev < session'.rev
      /\ \A v \in Writers : save[v].pc # "idle" => save[v].req.rev < session'.rev
      /\ \A v \in Writers : Open(v) => v = w
  BY WriteFacts
<1>1. /\ save' \in [Writers -> Saves] /\ \A v \in Writers : v # w => save'[v] = save[v]
      /\ receipt' \in [Writers -> Requests]
      /\ \A v \in Writers : v # w => receipt'[v] = receipt[v]
      /\ \/ save'[w] = NoSave /\ (w \in Devices => receipt'[w] = receipt[w])
         \/ /\ save'[w].pc = "sent" /\ save'[w].req = req /\ ~save'[w].held
            /\ receipt'[w] = req
      /\ copy' \in [Devices -> Row]
      /\ \A d \in Devices : copy'[d] = copy[d] \/ copy'[d] = Record(session')
      /\ denied' = denied
      /\ status' \in [Queued -> {"queued", "saving", "settled", "pending", "failed"}]
      /\ rounds' \in [Queued -> 0 .. Rounds - 1]
      /\ spent' \in [DOMAIN Risk -> Nat]
  BY <1>0, WriteEnds
<1>2. /\ source' = source /\ change' = change /\ withdrawn' = withdrawn
      /\ retracted' = retracted \cup save[w].led
      /\ gone' \subseteq gone \cup req.base
  BY DEF Write
<1>3. /\ req \in Requests /\ save[w].led \subseteq Messages /\ session'.rev \in Nat
  BY <1>0, Types DEF SavesInv, Saves, Row
<1>4. Open(w) /\ receipt[w] = NoRequest /\ save[w].row.shown \subseteq req.turns
  BY DEF Open, SavesInv, Shape
<1>5. \A v \in Writers : save'[v].pc # "idle" => save[v].pc # "idle" /\ save'[v].req = save[v].req
  BY <1>1, <1>4 DEF NoSave, Open
<1>6. \A v \in Writers : ~Open(v)' /\ ~save'[v].held
  <2>1. \A v \in Writers : save'[v].pc \notin {"swept", "checked"}
    BY <1>0, <1>1 DEF NoSave, Open
  <2>2. \A v \in Writers : v # w => ~save[v].held BY <1>0 DEF SavesInv, Shape
  <2> QED BY <1>1, <2>1, <2>2 DEF NoSave, Open
<1>7. SavesTypeOK'
  <2>1. gone' \subseteq Messages BY <1>2, <1>3 DEF SavesInv, SavesTypeOK, Requests
  <2> QED BY <1>0, <1>1, <1>2, <1>3, <2>1 DEF SavesInv, SavesTypeOK, Saves
<1>8. Alone' BY <1>6 DEF Alone
<1>9. Shape'
  <2>1. req.del => req.turns = {} BY <1>4 DEF SavesInv, Shape, Open
  <2> QED BY <1>0, <1>2, <1>4, <1>5, <1>6, <2>1 DEF SavesInv, Shape
<1>10. Hidden'
  <2>1. \A v \in Writers : save'[v].pc # "checked" BY <1>6 DEF Open
  <2>2. change.pc # "idle" => change.m \notin session'.shown
    BY <1>0, <1>4 DEF SavesInv, Hidden
  <2>3. session'.shown \cap withdrawn = {} BY <1>0 DEF SavesInv, Hidden
  <2> QED BY <1>2, <2>1, <2>2, <2>3 DEF SavesInv, Hidden
<1>11. Told'
  <2>1. w \notin denied \/ w \notin Devices BY <1>4 DEF SavesInv, Told, Open
  <2> QED BY <1>1, <1>4, <2>1 DEF SavesInv, Told, Writers, NoSave
<1>12. Seen'
  <2>1. \A r, b : r \in Nat /\ r < session'.rev => Known(r, b)' BY <1>3 DEF Known
  <2>2. \A r, b : r = session'.rev /\ b = session'.turns => Known(r, b)' BY <1>3 DEF Known
  <2>3. \A d \in Devices : copy'[d].live =>
          \/ copy'[d].rev \in Nat /\ copy'[d].rev < session'.rev
          \/ copy'[d].rev = session'.rev /\ copy'[d].turns = session'.turns
    BY <1>0, <1>1, Numbers, RecordRow DEF SavesInv
  <2>4. \A v \in Writers : save'[v].pc # "idle" =>
          save'[v].req.rev \in Nat /\ save'[v].req.rev < session'.rev
    BY <1>0, <1>5, Numbers DEF SavesInv
  <2>5. (\A d \in Devices : copy[d].live => Known(copy[d].rev, copy[d].turns))'
    BY <2>1, <2>2, <2>3
  <2>6. (\A v \in Writers : save[v].pc # "idle" => Known(save[v].req.rev, save[v].req.base))'
    BY <2>1, <2>4
  <2> QED BY <1>6, <2>5, <2>6 DEF Seen
<1> QED BY <1>7, <1>8, <1>9, <1>10, <1>11, <1>12 DEF SavesInv

LEMMA CommitInv == ASSUME SavesInv, NEW w \in Writers, Commit(w) PROVE SavesInv'
<1>1. save[w].pc = "checked" /\ Open(w) BY DEF Commit, Open
<1>2. (\A v \in Writers : Open(v) => v = w) /\ receipt[w] = NoRequest
  BY <1>1 DEF SavesInv, Alone, Shape
<1>3. CASE Busy(w) /\ RolledBack BY <1>1, <1>2, <1>3, BusyInv
<1>4. CASE Answer(w, IF session.live THEN "conflict" ELSE "gone", session) /\ RolledBack
  BY <1>1, <1>2, <1>4, RefusedInv
<1>5. CASE /\ ~change.held
           /\ save[w].held \/ (session.live /\ session.rev = save[w].req.rev)
           /\ Write(w)
  BY <1>1, <1>5, WriteInv
<1> QED BY <1>3, <1>4, <1>5 DEF Commit

LEMMA ComposeInv == ASSUME SavesInv, NEW d \in Devices, Compose(d) PROVE SavesInv'
<1>0. /\ copy[d] \in Row /\ copy[d].live /\ save[d].pc = "idle" /\ d \in Writers
      /\ save \in [Writers -> Saves] /\ receipt \in [Writers -> Requests]
      /\ Known(copy[d].rev, copy[d].turns)
  BY Types DEF Compose, SavesInv, Seen, Writers
<1>1. PICK req \in {Request(d, copy[d].turns \cup {m}) : m \in Own \ copy[d].turns}
                   \cup {Request(d, copy[d].turns \ {m}) : m \in copy[d].turns}
                   \cup {Deletion(d)} :
        /\ Spend(IF req.del THEN "delete" ELSE "save")
        /\ save' = [save EXCEPT ![d] = [NoSave EXCEPT !.pc = "sent", !.req = req]]
  BY DEF Compose
<1>2. /\ req \in Requests /\ req.rev = copy[d].rev /\ req.base = copy[d].turns
      /\ req.shown \subseteq req.turns /\ (req.del => req.turns = {})
  <2>1. ASSUME NEW t \in SUBSET Messages, req = Request(d, t)
        PROVE  /\ req \in Requests /\ req.rev = copy[d].rev /\ req.base = copy[d].turns
               /\ req.shown \subseteq req.turns /\ ~req.del
    BY <1>0, <2>1 DEF Request, Requests, Row
  <2>2. ASSUME req = Deletion(d)
        PROVE  /\ req \in Requests /\ req.rev = copy[d].rev /\ req.base = copy[d].turns
               /\ req.shown = {} /\ req.turns = {}
    BY <1>0, <2>2 DEF Deletion, NoRequest, Requests, Row
  <2>3. \/ \E t \in SUBSET Messages : req = Request(d, t)
        \/ req = Deletion(d)
    <3>1. copy[d].turns \subseteq Messages /\ Own \subseteq Messages
      BY <1>0 DEF Row, Messages
    <3>2. \A m \in Own : copy[d].turns \cup {m} \in SUBSET Messages BY <3>1
    <3>3. \A m : copy[d].turns \ {m} \in SUBSET Messages BY <3>1
    <3> QED BY <3>2, <3>3
  <2> QED BY <2>1, <2>2, <2>3
<1> DEFINE s == [NoSave EXCEPT !.pc = "sent", !.req = req]
<1>3. s \in Saves /\ s.pc = "sent" /\ s.req = req /\ ~s.held
  BY <1>2, NoSaveType DEF Saves, NoSave
<1> HIDE DEF s
<1>4. /\ save' \in [Writers -> Saves] /\ save'[d] = s
      /\ \A v \in Writers : v # d => save'[v] = save[v]
  BY <1>0, <1>1, <1>3 DEF s
<1>5. /\ receipt' \in [Writers -> Requests] /\ receipt'[d] = NoRequest
      /\ \A v \in Writers : v # d => receipt'[v] = receipt[v]
  BY <1>0, NoSaveType DEF Compose
<1>6. /\ UNCHANGED <<session, source, retracted, change, copy, status, rounds, gone, withdrawn>>
      /\ denied' = denied \ {d}
  BY DEF Compose
<1>7. \A v \in Writers : (Open(v)' <=> Open(v)) /\ (Open(v)' => v # d) /\ (save'[v].held => v # d)
  BY <1>0, <1>3, <1>4 DEF Open
<1>8. SavesTypeOK'
  <2>1. spent' \in [DOMAIN Risk -> Nat] BY <1>1, SpendType DEF SavesInv
  <2> QED BY <1>4, <1>5, <1>6, <2>1 DEF SavesInv, SavesTypeOK, Saves
<1>9. Alone' BY <1>7 DEF SavesInv, Alone
<1>10. Shape'
  <2>1. /\ \A v \in Writers : save'[v].pc # "idle" =>
             /\ save'[v].req.shown \subseteq save'[v].req.turns
             /\ save'[v].req.del => save'[v].req.turns = {}
    BY <1>2, <1>3, <1>4 DEF SavesInv, Shape
  <2> QED BY <1>4, <1>5, <1>6, <1>7, <2>1 DEF SavesInv, Shape
<1>11. Hidden' BY <1>3, <1>4, <1>6 DEF SavesInv, Hidden
<1>12. Told' BY <1>3, <1>4, <1>5, <1>6 DEF SavesInv, Told, Writers
<1>13. Seen'
  <2>1. \A r, b : Known(r, b) <=> Known(r, b)' BY <1>6 DEF Known, Pending
  <2>2. \A e \in Devices : copy'[e].live => Known(copy'[e].rev, copy'[e].turns)
    BY <1>6 DEF SavesInv, Seen
  <2>3. \A v \in Writers : save'[v].pc # "idle" => Known(save'[v].req.rev, save'[v].req.base)
    BY <1>0, <1>2, <1>3, <1>4 DEF SavesInv, Seen
  <2>4. \A v \in Writers : save'[v].held => Pending' /\ save'[v].req.rev = session'.rev + 1
    BY <1>4, <1>6, <1>7 DEF SavesInv, Seen, Pending
  <2>5. \A v \in Writers : Open(v)' /\ ~save'[v].held /\ session'.live =>
          /\ save'[v].req.rev <= session'.rev
          /\ save'[v].req.rev = session'.rev =>
               /\ \A e \in Devices : copy'[e].live => copy'[e].rev <= session'.rev
               /\ \A u \in Writers : save'[u].pc # "idle" => save'[u].req.rev <= session'.rev
    <3>1. \A u \in Writers : save'[u].pc # "idle" =>
            \/ save[u].pc # "idle" /\ save'[u] = save[u]
            \/ save'[u].req.rev = copy[d].rev
      BY <1>2, <1>3, <1>4
    <3> QED BY <1>0, <1>4, <1>6, <1>7, <3>1 DEF SavesInv, Seen
  <2> QED BY <2>1, <2>2, <2>3, <2>4, <2>5 DEF Seen
<1> QED BY <1>8, <1>9, <1>10, <1>11, <1>12, <1>13 DEF SavesInv

\* A step of a source or of time, that writes no Session and ends no save.
Outside ==
  /\ session' \in Row /\ session'.rev = session.rev /\ session'.live = session.live
  /\ session'.turns = session.turns /\ session'.shown = session.shown
  /\ Pending => Pending'
  /\ UNCHANGED <<receipt, save, copy, denied>>

LEMMA OutsideStep ==
  ASSUME SavesInv, Outside PROVE Alone' /\ Told' /\ Seen'
<1> USE DEF Outside
<1>1. Alone' BY DEF SavesInv, Alone, Open
<1>2. Told' BY DEF SavesInv, Told
<1>3. Seen'
  <2>1. \A r, b : Known(r, b) => Known(r, b)' BY DEF Known
  <2>2. \A d \in Devices : copy'[d].live => Known(copy'[d].rev, copy'[d].turns)
    BY DEF SavesInv, Seen
  <2>3. \A v \in Writers : save'[v].pc # "idle" => Known(save'[v].req.rev, save'[v].req.base)
    BY DEF SavesInv, Seen
  <2>4. \A v \in Writers : save'[v].held => Pending' /\ save'[v].req.rev = session'.rev + 1
    BY DEF SavesInv, Seen
  <2>5. \A v \in Writers : Open(v)' /\ ~save'[v].held /\ session'.live =>
          /\ save'[v].req.rev <= session'.rev
          /\ save'[v].req.rev = session'.rev =>
               /\ \A e \in Devices : copy'[e].live => copy'[e].rev <= session'.rev
               /\ \A u \in Writers : save'[u].pc # "idle" => save'[u].req.rev <= session'.rev
    BY DEF SavesInv, Seen, Open
  <2> QED BY <2>1, <2>2, <2>3, <2>4, <2>5 DEF Seen
<1> QED BY <1>1, <1>2, <1>3

LEMMA LapsesInv == ASSUME SavesInv, NEW m \in Messages, Lapses(m) PROVE SavesInv'
<1>1. /\ source[m] = "up" /\ source' = [source EXCEPT ![m] = "lapsed"] /\ change.m # m
      /\ UNCHANGED <<session, retracted, receipt, change, save, copy, denied, status, rounds,
                     gone, withdrawn>>
  BY DEF Lapses
<1>2. source \in [Messages -> {"up", "lapsed", "withdrawn"}] /\ session \in Row
  BY Types DEF SavesInv
<1>3. Pending => Pending' BY <1>1, <1>2 DEF Pending, Unavailable
<1>4. Outside BY <1>1, <1>2, <1>3 DEF Outside
<1>5. SavesTypeOK' BY <1>1, <1>2, SpendType DEF Lapses, SavesInv, SavesTypeOK
<1>6. Shape' BY <1>1 DEF SavesInv, Shape, Open
<1>7. Hidden' BY <1>1, <1>2 DEF SavesInv, Hidden
<1> QED BY <1>4, <1>5, <1>6, <1>7, OutsideStep DEF SavesInv

LEMMA ExpiresInv == ASSUME SavesInv, Expires PROVE SavesInv'
<1>1. /\ session' = [session EXCEPT !.due = TRUE]
      /\ UNCHANGED <<source, retracted, receipt, change, save, copy, denied, status, rounds,
                     gone, withdrawn>>
  BY DEF Expires
<1>2. session \in Row BY Types DEF SavesInv
<1>3. /\ session' \in Row /\ session'.rev = session.rev /\ session'.live = session.live
      /\ session'.turns = session.turns /\ session'.shown = session.shown /\ session'.due
  BY <1>1, <1>2 DEF Row
<1>4. Pending => Pending' BY <1>1, <1>3 DEF Pending
<1>5. Outside BY <1>1, <1>3, <1>4 DEF Outside
<1>6. SavesTypeOK' BY <1>1, <1>3, SpendType DEF Expires, SavesInv, SavesTypeOK
<1>7. Shape' BY <1>1, <1>3 DEF SavesInv, Shape, Open
<1>8. Hidden' BY <1>1, <1>3 DEF SavesInv, Hidden
<1> QED BY <1>5, <1>6, <1>7, <1>8, OutsideStep DEF SavesInv

\* A step of a run that only changes its status.
LEMMA RunInv ==
  ASSUME SavesInv, spent' \in [DOMAIN Risk -> Nat],
         status' \in [Queued -> {"queued", "saving", "settled", "pending", "failed"}],
         rounds' \in [Queued -> 0 .. Rounds - 1],
         UNCHANGED <<session, source, retracted, receipt, change, save, copy, denied, gone,
                     withdrawn>>
  PROVE  SavesInv'
<1>1. session \in Row BY Types DEF SavesInv
<1>2. Outside BY <1>1 DEF Outside, Pending
<1>3. SavesTypeOK' BY DEF SavesInv, SavesTypeOK
<1>4. Shape' BY DEF SavesInv, Shape, Open
<1>5. Hidden' BY DEF SavesInv, Hidden
<1> QED BY <1>2, <1>3, <1>4, <1>5, OutsideStep DEF SavesInv

LEMMA ClaimInv == ASSUME SavesInv, NEW m \in Queued, Claim(m) PROVE SavesInv'
<1>1. status' \in [Queued -> {"queued", "saving", "settled", "pending", "failed"}]
  BY RunTypes DEF Claim, SavesInv
<1> QED BY <1>1, RunInv, Types DEF Claim, SavesInv

LEMMA RetryInv == ASSUME SavesInv, NEW m \in Queued, Retry(m) PROVE SavesInv'
<1>1. status' \in [Queued -> {"queued", "saving", "settled", "pending", "failed"}]
  BY RunTypes DEF Retry, SavesInv
<1>2. rounds' \in [Queued -> 0 .. Rounds - 1]
  <2>1. 0 \in 0 .. Rounds - 1 BY SavesAssumption
  <2>2. rounds \in [Queued -> 0 .. Rounds - 1] /\ rounds' = [rounds EXCEPT ![m] = 0]
    BY Types DEF Retry, SavesInv
  <2> QED BY <2>1, <2>2
<1>3. spent' \in [DOMAIN Risk -> Nat] BY SpendType DEF Retry, SavesInv
<1> QED BY <1>1, <1>2, <1>3, RunInv DEF Retry

LEMMA BeginChangeInv ==
  ASSUME SavesInv, NEW m \in Messages, NEW to \in {"withdrawn", "up"}, BeginChange(m, to)
  PROVE  SavesInv'
<1>1. /\ change' = [NoChange EXCEPT !.pc = "changed", !.m = m, !.to = to]
      /\ change.pc = "idle" /\ ~Shared(m) /\ (to = "up") = (source[m] = "withdrawn")
      /\ UNCHANGED <<session, source, retracted, receipt, save, copy, denied, status, rounds,
                     gone, withdrawn>>
  BY DEF BeginChange
<1>2. /\ change' \in Changes /\ change'.pc = "changed" /\ change'.m = m /\ change'.to = to
      /\ ~change'.held
  BY <1>1 DEF NoChange, Changes
<1>3. session \in Row BY Types DEF SavesInv
<1>4. Outside BY <1>1, <1>3 DEF Outside, Pending
<1>5. SavesTypeOK' BY <1>1, <1>2, SpendType DEF BeginChange, SavesInv, SavesTypeOK, Changes
<1>6. Shape' BY <1>1, <1>2 DEF SavesInv, Shape, Open
<1>7. Hidden' BY <1>1, <1>2 DEF SavesInv, Hidden, Shared
<1> QED BY <1>4, <1>5, <1>6, <1>7, OutsideStep DEF SavesInv

LEMMA InvalidateInv == ASSUME SavesInv, Invalidate PROVE SavesInv'
<1> DEFINE after == [source EXCEPT ![change.m] = change.to]
           ledger == Unavailable(after, retracted)
           touches == session.live /\ session.shown \cap ledger # {}
<1>1. /\ change.pc = "changed" /\ (touches => ~RowHeld)
      /\ change' = [change EXCEPT !.pc = "redacted", !.held = touches, !.led = ledger]
      /\ UNCHANGED <<session, source, retracted, receipt, save, copy, denied, status, rounds,
                     gone, withdrawn, spent>>
  BY DEF Invalidate
<1>2. /\ session \in Row /\ change \in Changes /\ change.m \in Messages
      /\ source \in [Messages -> {"up", "lapsed", "withdrawn"}]
  BY <1>1, Types DEF SavesInv, Hidden
<1>3. ledger \in SUBSET Messages /\ touches \in BOOLEAN
  BY <1>2, Types DEF Unavailable, SavesInv, Row
<1>4. change.to = "withdrawn" => change.m \in ledger BY <1>2 DEF Unavailable
<1>5. ~touches => session.shown \cap ledger = {} BY DEF SavesInv, Shape
<1>6. touches => session.live /\ \A w \in Writers : ~save[w].held BY <1>1 DEF RowHeld
<1> HIDE DEF ledger, touches
<1>7. /\ change' \in Changes /\ change'.pc = "redacted" /\ change'.m = change.m
      /\ change'.to = change.to /\ change'.held = touches /\ change'.led = ledger
  BY <1>1, <1>2, <1>3 DEF Changes
<1>8. Outside BY <1>1, <1>2 DEF Outside, Pending
<1>9. SavesTypeOK' BY <1>1, <1>7 DEF SavesInv, SavesTypeOK, Changes
<1>10. Shape' BY <1>1, <1>6, <1>7 DEF SavesInv, Shape, Open
<1>11. Hidden' BY <1>1, <1>4, <1>5, <1>7 DEF SavesInv, Hidden
<1> QED BY <1>8, <1>9, <1>10, <1>11, OutsideStep DEF SavesInv

LEMMA CommitChangeInv == ASSUME SavesInv, CommitChange PROVE SavesInv'
<1>1. /\ change.pc = "redacted" /\ change' = NoChange
      /\ source' = [source EXCEPT ![change.m] = change.to]
      /\ retracted' = retracted \cup change.led
      /\ withdrawn' = IF change.to = "withdrawn" THEN withdrawn \cup {change.m} ELSE withdrawn
      /\ UNCHANGED <<receipt, save, copy, denied, status, rounds, gone, spent>>
  BY DEF CommitChange
<1>2. /\ session \in Row /\ session.rev \in Nat /\ change \in Changes /\ change.m \in Messages
      /\ source \in [Messages -> {"up", "lapsed", "withdrawn"}]
  BY <1>1, Types, Numbers DEF SavesInv, Hidden
<1>3. change.to \in {"up", "withdrawn"} /\ change.led \subseteq Messages BY <1>2 DEF Changes
<1>4. source' \in [Messages -> {"up", "lapsed", "withdrawn"}] BY <1>1, <1>2, <1>3
<1>5. change.to = "withdrawn" => change.m \in change.led BY <1>1 DEF SavesInv, Hidden
<1>6. change.to = "up" => change.m \in retracted
  BY <1>1, <1>2 DEF SavesInv, Hidden
<1>7. /\ session' \in Row /\ session'.live = session.live /\ session'.turns = session.turns
      /\ change.held => /\ session'.rev = session.rev + 1 /\ session.live
                        /\ session'.shown = session.shown \ change.led
      /\ ~change.held => session' = session
  <2>1. CASE change.held
    <3> DEFINE shown == session.shown \ change.led
               next == [session EXCEPT !.rev = session.rev + 1, !.shown = shown]
    <3>1. session' = next BY <2>1 DEF CommitChange
    <3>2. session.rev + 1 \in Nat /\ shown \in SUBSET Messages BY <1>2 DEF Row
    <3>3. session.live BY <2>1 DEF SavesInv, Shape
    <3> HIDE DEF shown
    <3>4. next \in Row BY <1>2, <3>2, RowWith
    <3>5. next.live = session.live /\ next.turns = session.turns /\ next.rev = session.rev + 1
          /\ next.shown = shown
      BY <1>2 DEF Row
    <3> HIDE DEF next
    <3> QED BY <2>1, <3>1, <3>3, <3>4, <3>5 DEF shown
  <2>2. CASE ~change.held BY <1>2, <2>2 DEF CommitChange
  <2> QED BY <2>1, <2>2
<1>8. session'.shown \subseteq session.shown BY <1>7
<1>9. ~change.held /\ Pending => Pending'
  <2>1. Unavailable(source, retracted) \subseteq Unavailable(source', retracted')
    BY <1>1, <1>2, <1>6, <1>3 DEF Unavailable
  <2> QED BY <1>7, <2>1 DEF Pending
<1>10. \A w \in Writers : save[w].held => ~change.held BY DEF SavesInv, Shape
<1>11. SavesTypeOK'
  <2>1. NoChange \in Changes BY DEF NoChange, Changes
  <2> QED BY <1>1, <1>2, <1>3, <1>4, <1>7, <2>1 DEF SavesInv, SavesTypeOK, Changes
<1>12. Alone' BY <1>1 DEF SavesInv, Alone, Open
<1>13. Shape'
  <2>1. ~change'.held BY <1>1 DEF NoChange
  <2> QED BY <1>1, <1>7, <1>8, <2>1 DEF SavesInv, Shape, Open
<1>14. Hidden'
  <2>1. change'.pc = "idle" BY <1>1 DEF NoChange
  <2>2. withdrawn' \subseteq retracted' BY <1>1, <1>5 DEF SavesInv, Hidden
  <2>3. session'.shown \cap withdrawn' = {}
    <3>1. change.to = "withdrawn" => change.m \notin session'.shown
      BY <1>1, <1>5, <1>7 DEF SavesInv, Hidden
    <3> QED BY <1>1, <1>8, <3>1 DEF SavesInv, Hidden
  <2>4. \A m \in Messages : source'[m] = "withdrawn" => m \in retracted'
    BY <1>1, <1>2, <1>5 DEF SavesInv, Hidden
  <2>5. \A w \in Writers : save'[w].pc = "checked" => save'[w].row.shown \cap withdrawn' = {}
    <3>1. \A w \in Writers : save[w].pc = "checked" => change.m \notin save[w].row.shown
      BY <1>1 DEF SavesInv, Hidden, Shape, Open
    <3> QED BY <1>1, <3>1 DEF SavesInv, Hidden
  <2> QED BY <2>1, <2>2, <2>3, <2>4, <2>5 DEF Hidden
<1>15. Told' BY <1>1 DEF SavesInv, Told
<1>16. Seen'
  <2>1. \A r, b : r \in Nat /\ Known(r, b) => Known(r, b)' BY <1>2, <1>7, <1>9 DEF Known
  <2>2. \A d \in Devices : copy'[d].live => copy'[d].rev \in Nat /\ Known(copy'[d].rev, copy'[d].turns)
    BY <1>1, Numbers DEF SavesInv, Seen
  <2>3. \A v \in Writers : save'[v].pc # "idle" =>
          save'[v].req.rev \in Nat /\ Known(save'[v].req.rev, save'[v].req.base)
    BY <1>1, Numbers DEF SavesInv, Seen
  <2>4. \A v \in Writers : save'[v].held => Pending' /\ save'[v].req.rev = session'.rev + 1
    BY <1>1, <1>7, <1>9, <1>10 DEF SavesInv, Seen
  <2>5. \A v \in Writers : Open(v)' /\ ~save'[v].held /\ session'.live =>
          /\ save'[v].req.rev <= session'.rev
          /\ save'[v].req.rev = session'.rev =>
               /\ \A e \in Devices : copy'[e].live => copy'[e].rev <= session'.rev
               /\ \A u \in Writers : save'[u].pc # "idle" => save'[u].req.rev <= session'.rev
    <3>1. \A v \in Writers : Open(v)' /\ ~save'[v].held /\ session'.live =>
            Open(v) /\ ~save[v].held /\ session.live
      BY <1>1, <1>7 DEF Open
    <3>2. CASE change.held
      <4>1. \A v \in Writers : Open(v)' /\ ~save'[v].held /\ session'.live =>
              save'[v].req.rev < session'.rev
        BY <1>1, <1>2, <1>7, <3>1, <3>2, Numbers DEF SavesInv, Seen
      <4> QED BY <1>1, <1>2, <1>7, <3>2, <4>1, Numbers DEF SavesInv
    <3>3. CASE ~change.held BY <1>1, <1>7, <3>1, <3>3 DEF SavesInv, Seen
    <3> QED BY <3>2, <3>3
  <2> QED BY <2>1, <2>2, <2>3, <2>4, <2>5 DEF Seen
<1> QED BY <1>11, <1>12, <1>13, <1>14, <1>15, <1>16 DEF SavesInv

LEMMA NextInv == ASSUME SavesInv, [SavesNext]_vars PROVE SavesInv'
<1>1. CASE UNCHANGED vars
  BY <1>1, Types, RunInv DEF vars, SavesInv
<1>2. ASSUME NEW w \in Writers, Serve(w) \/ Crash(w) PROVE SavesInv'
  BY <1>2, BeginInv, LockSourcesInv, CommitInv, CrashInv DEF Serve
<1>3. ASSUME NEW d \in Devices, Compose(d) \/ Read(d) PROVE SavesInv'
  BY <1>3, ComposeInv, ReadInv
<1>4. ASSUME NEW m \in Queued, Claim(m) \/ Retry(m) \/ SaveTurn(m) PROVE SavesInv'
  BY <1>4, ClaimInv, RetryInv, SaveTurnInv
<1>5. ASSUME NEW m \in Messages, Lapses(m) PROVE SavesInv'
  BY <1>5, LapsesInv
<1>6. ASSUME NEW m \in Messages, NEW to \in {"withdrawn", "up"}, BeginChange(m, to)
      PROVE  SavesInv'
  BY <1>6, BeginChangeInv
<1>7. CASE Transition BY <1>7, InvalidateInv, CommitChangeInv DEF Transition
<1>8. CASE Sweep \/ Expires BY <1>8, SweepInv, ExpiresInv
<1> QED BY <1>1, <1>2, <1>3, <1>4, <1>5, <1>6, <1>7, <1>8 DEF SavesNext

LEMMA SavesInvHolds == SavesSafety => []SavesInv
BY InitHolds, NextInv, PTL DEF SavesSafety

\* A turn leaves a live Session only by a write of somebody who had read it.
LEMMA LostWasSeen ==
  ASSUME SavesInv, [SavesNext]_vars, NEW m \in session.turns \ session'.turns, session'.live
  PROVE  m \in gone'
<1>1. CASE session' = session BY <1>1
<1>2. CASE session' = Swept(session)
  BY <1>2, SweptRow
<1>3. CASE CommitChange
  BY <1>3, Types DEF CommitChange, SavesInv, Row
<1>4. CASE Expires BY <1>4, Types DEF Expires, SavesInv, Row
<1>5. ASSUME NEW w \in Writers, Commit(w), session' # session PROVE m \in gone'
  <2>1. /\ save[w].pc = "checked" /\ ~change.held
        /\ save[w].held \/ (session.live /\ session.rev = save[w].req.rev)
        /\ Write(w)
    BY <1>5 DEF Commit, RolledBack
  <2>2. /\ session'.live = ~save[w].req.del /\ session'.turns = save[w].req.turns
        /\ save[w].req.base = session.turns
    BY <2>1, WriteFacts
  <2>3. gone' = IF save[w].req.del THEN gone ELSE gone \cup (save[w].req.base \ save[w].req.turns)
    BY <2>1 DEF Write
  <2> QED BY <2>2, <2>3
<1>6. \/ session' = session \/ session' = Swept(session) \/ CommitChange \/ Expires
      \/ \E w \in Writers : Commit(w) /\ session' # session
  BY DEF SavesNext, vars, Serve, Begin, LockSources, Check, RolledBack, Crash, Compose, Read,
    CommitSweep, Claim, Retry, SaveTurn, Lapses, BeginChange, Transition, Invalidate, Sweep
<1> QED BY <1>1, <1>2, <1>3, <1>4, <1>5, <1>6

-------------------------------------------------------------------------------
(* The history: a queued message enters it once *)

\* A run asks to add its message to the turns it saw, a device adds no queued one.
Drawn(w) ==
  LET req == save[w].req IN
  /\ w \in Queued => ~req.del /\ req.turns = req.base \cup {w}
  /\ w \notin Queued /\ ~req.del => req.turns \cap Queued \subseteq req.base

Authored == \A w \in Writers : save[w].pc # "idle" => Drawn(w)

\* The receipt of a run outlives its turn: it cannot save it a second time.
Once == \A m \in Queued : m \in session.turns \cup gone => receipt[m] # NoRequest

HistoryInv == Authored /\ Once

\* A save that is under way is the one that was, or none.
SameRequest(w) ==
  save'[w].pc # "idle" => save[w].pc # "idle" /\ save'[w].req = save[w].req

LEMMA AnswerRequest ==
  ASSUME SavesInv, NEW w \in Writers, NEW ans, NEW row, Answer(w, ans, row)
  PROVE  \A v \in Writers : SameRequest(v)
<1>1. save' = [save EXCEPT ![w] = NoSave] /\ save \in [Writers -> Saves]
  BY Types DEF Answer, SavesInv
<1> QED BY <1>1 DEF SameRequest, NoSave

LEMMA BusyRequest ==
  ASSUME SavesInv, NEW w \in Writers, Busy(w), save[w].pc # "idle"
  PROVE  \A v \in Writers : SameRequest(v)
<1>1. PICK s \in Saves : (s = NoSave \/ Resent(w, s)) /\ save' = [save EXCEPT ![w] = s]
  BY Busies, NoSaveType DEF Leaves, SavesInv
<1>2. save \in [Writers -> Saves]
  BY Types DEF SavesInv
<1> QED BY <1>1, <1>2 DEF SameRequest, Resent, NoSave

LEMMA BeginRequest ==
  ASSUME SavesInv, NEW w \in Writers, Begin(w)
  PROVE  \A v \in Writers : SameRequest(v)
<1> DEFINE row == Swept(session)
           r == [save[w].req EXCEPT !.shown = Preserved(save[w].req, row)]
           s == [save[w] EXCEPT !.pc = "swept", !.row = r, !.held = row # session,
                                !.led = SweptLedger]
<1>1. save[w].pc = "sent"
  BY DEF Begin
<1>2. Busy(w) \/ (\E ans : Answer(w, ans, row)) \/ save' = [save EXCEPT ![w] = s]
  BY DEF Begin
<1>3. CASE save' = [save EXCEPT ![w] = s]
  <2>1. save \in [Writers -> Saves] /\ save[w] \in Saves
    BY Types DEF SavesInv
  <2> HIDE DEF r, row
  <2>2. s.req = save[w].req
    BY <2>1 DEF Saves
  <2> HIDE DEF s
  <2> QED BY <1>1, <1>3, <2>1, <2>2 DEF SameRequest
<1> HIDE DEF row, s
<1> QED BY <1>1, <1>2, <1>3, BusyRequest, AnswerRequest

LEMMA LockSourcesRequest ==
  ASSUME SavesInv, NEW w \in Writers, LockSources(w)
  PROVE  \A v \in Writers : SameRequest(v)
<1> DEFINE shown == Redacted(save[w].row.shown, source, retracted)
           led == save[w].led \cup SweptLedger
           s == [save[w] EXCEPT !.pc = "checked", !.row.shown = shown, !.led = led]
<1>1. save[w].pc = "swept"
  BY DEF LockSources
<1>2. save \in [Writers -> Saves] /\ save[w] \in Saves
  BY Types DEF SavesInv
<1>3. Busy(w) \/ save' = [save EXCEPT ![w] = s]
  BY DEF LockSources, Check
<1> HIDE DEF shown, led
<1>4. s.req = save[w].req
  BY <1>2 DEF Saves
<1> HIDE DEF s
<1> QED BY <1>1, <1>2, <1>3, <1>4, BusyRequest DEF SameRequest

LEMMA CommitRequest ==
  ASSUME SavesInv, NEW w \in Writers, Commit(w)
  PROVE  \A v \in Writers : SameRequest(v)
<1> DEFINE s == [NoSave EXCEPT !.pc = "sent", !.req = save[w].req]
<1>1. save[w].pc = "checked"
  BY DEF Commit
<1>2. Busy(w) \/ (\E ans, row : Answer(w, ans, row)) \/ save' = [save EXCEPT ![w] = s]
  BY DEF Commit, Write
<1>3. s.req = save[w].req /\ save \in [Writers -> Saves]
  BY Types DEF NoSave, SavesInv
<1> HIDE DEF s
<1> QED BY <1>1, <1>2, <1>3, BusyRequest, AnswerRequest DEF SameRequest

LEMMA CrashRequest ==
  ASSUME SavesInv, NEW w \in Writers, Crash(w)
  PROVE  \A v \in Writers : SameRequest(v)
<1> DEFINE s == [NoSave EXCEPT !.pc = "sent", !.req = save[w].req]
<1>1. save[w].pc # "idle" /\ (save' = [save EXCEPT ![w] = NoSave] \/ save' = [save EXCEPT ![w] = s])
  BY DEF Crash, Open
<1>2. s.req = save[w].req /\ save \in [Writers -> Saves]
  BY Types DEF NoSave, SavesInv
<1>3. NoSave.pc = "idle"
  BY DEF NoSave
<1> HIDE DEF s, NoSave
<1> QED BY <1>1, <1>2, <1>3 DEF SameRequest

\* What a device composes of what it was handed.
LEMMA ComposeDrawn ==
  ASSUME SavesInv, NEW d \in Devices, Compose(d)
  PROVE  \A v \in Writers : SameRequest(v) \/ Drawn(v)'
<1>1. PICK req \in {Request(d, copy[d].turns \cup {m}) : m \in Own \ copy[d].turns}
                   \cup {Request(d, copy[d].turns \ {m}) : m \in copy[d].turns}
                   \cup {Deletion(d)} :
        save' = [save EXCEPT ![d] = [NoSave EXCEPT !.pc = "sent", !.req = req]]
  BY DEF Compose
<1>2. req.del \/ req.turns \cap Queued \subseteq req.base
  <2>1. ASSUME NEW t, req = Request(d, t), t \cap Queued \subseteq copy[d].turns
        PROVE  req.turns \cap Queued \subseteq req.base
    BY <2>1 DEF Request
  <2>2. ASSUME NEW m \in Own, req = Request(d, copy[d].turns \cup {m})
        PROVE  req.turns \cap Queued \subseteq req.base
    <3>1. (copy[d].turns \cup {m}) \cap Queued \subseteq copy[d].turns
      BY SavesAssumption
    <3> QED BY <2>1, <2>2, <3>1
  <2>3. ASSUME NEW m, req = Request(d, copy[d].turns \ {m})
        PROVE  req.turns \cap Queued \subseteq req.base
    BY <2>1, <2>3
  <2>4. ASSUME req = Deletion(d)
        PROVE  req.del
    BY <2>4 DEF Deletion, NoRequest
  <2> QED BY <2>2, <2>3, <2>4
<1> DEFINE s == [NoSave EXCEPT !.pc = "sent", !.req = req]
<1>3. s.req = req
  BY DEF NoSave
<1>4. save \in [Writers -> Saves] /\ d \in Writers /\ d \notin Queued
  BY Types, SavesAssumption DEF SavesInv, Writers, Messages
<1> HIDE DEF s
<1>5. save'[d] = s /\ \A v \in Writers : v # d => save'[v] = save[v]
  BY <1>1, <1>4 DEF s
<1>6. Drawn(d)'
  BY <1>2, <1>3, <1>4, <1>5 DEF Drawn
<1> QED BY <1>5, <1>6 DEF SameRequest

LEMMA SaveTurnDrawn ==
  ASSUME SavesInv, NEW m \in Queued, SaveTurn(m)
  PROVE  \A v \in Writers : SameRequest(v) \/ Drawn(v)'
<1> DEFINE row == Swept(session)
           req == [rev |-> row.rev, del |-> FALSE, base |-> row.turns,
                   turns |-> row.turns \cup {m}, shown |-> row.shown \cup {m}]
           s == [NoSave EXCEPT !.pc = "sent", !.req = req]
<1>1. save' = save \/ save' = [save EXCEPT ![m] = s]
  BY DEF SaveTurn
<1>2. save \in [Writers -> Saves] /\ m \in Writers
  BY Types DEF SavesInv, Writers
<1>3. s.req = req
  BY DEF NoSave
<1>4. ~req.del /\ req.turns = req.base \cup {m}
  OBVIOUS
<1> HIDE DEF s, req
<1>5. CASE save' = save
  BY <1>5 DEF SameRequest
<1>6. CASE save' = [save EXCEPT ![m] = s]
  <2>1. save'[m] = s /\ \A v \in Writers : v # m => save'[v] = save[v]
    BY <1>2, <1>6
  <2>2. Drawn(m)'
    BY <1>3, <1>4, <2>1 DEF Drawn
  <2> QED BY <2>1, <2>2 DEF SameRequest
<1> QED BY <1>1, <1>5, <1>6

LEMMA AuthoredStep ==
  ASSUME SavesInv, Authored, [SavesNext]_vars
  PROVE  Authored'
<1>1. \A v \in Writers : SameRequest(v) \/ Drawn(v)'
  <2>1. CASE save' = save
    BY <2>1 DEF SameRequest
  <2>2. ASSUME NEW w \in Writers, Serve(w) \/ Crash(w)
        PROVE  \A v \in Writers : SameRequest(v)
    BY <2>2, BeginRequest, LockSourcesRequest, CommitRequest, CrashRequest DEF Serve
  <2>3. ASSUME NEW d \in Devices, Compose(d)
        PROVE  \A v \in Writers : SameRequest(v) \/ Drawn(v)'
    BY <2>3, ComposeDrawn
  <2>4. ASSUME NEW m \in Queued, SaveTurn(m)
        PROVE  \A v \in Writers : SameRequest(v) \/ Drawn(v)'
    BY <2>4, SaveTurnDrawn
  <2>5. \/ save' = save
        \/ \E w \in Writers : Serve(w) \/ Crash(w)
        \/ \E d \in Devices : Compose(d)
        \/ \E m \in Queued : SaveTurn(m)
    BY DEF SavesNext, vars, Read, Claim, Retry, Lapses, BeginChange, Transition, Invalidate,
           CommitChange, Sweep, Expires
  <2> QED BY <2>1, <2>2, <2>3, <2>4, <2>5
<1>2. \A v \in Writers : SameRequest(v) /\ Drawn(v) => (save'[v].pc # "idle" => Drawn(v)')
  BY DEF SameRequest, Drawn
<1>3. \A v \in Writers : SameRequest(v) /\ save'[v].pc # "idle" => Drawn(v)
  BY DEF SameRequest, Authored
<1> QED BY <1>1, <1>2, <1>3 DEF Authored

\* A step that takes no turn into the history, and out of it only with all of it.
Rests ==
  /\ \/ session' = session
     \/ session' = Swept(session)
     \/ session'.live = session.live /\ session'.turns = session.turns
  /\ gone' = gone
  /\ \A m \in Queued : receipt'[m] = receipt[m]

\* Only a write changes what the history holds, or who may have written it.
LEMMA OnlyWrites ==
  ASSUME SavesInv, [SavesNext]_vars
  PROVE  \/ Rests
         \/ \E w \in Writers :
              /\ save[w].pc = "checked" /\ ~change.held
              /\ save[w].held \/ (session.live /\ session.rev = save[w].req.rev)
              /\ Write(w)
<1>1. CASE UNCHANGED vars
  BY <1>1 DEF vars, Rests
<1>2. ASSUME NEW w \in Writers, Begin(w) \/ LockSources(w) \/ Crash(w)
      PROVE  Rests
  BY <1>2 DEF Begin, LockSources, Check, RolledBack, Crash, Rests
<1>3. ASSUME NEW w \in Writers, Commit(w)
      PROVE  \/ Rests
             \/ /\ save[w].pc = "checked" /\ ~change.held
                /\ save[w].held \/ (session.live /\ session.rev = save[w].req.rev)
                /\ Write(w)
  BY <1>3 DEF Commit, RolledBack, Rests
<1>4. ASSUME NEW d \in Devices, Compose(d)
      PROVE  Rests
  <2>1. /\ d \notin Queued /\ receipt' = [receipt EXCEPT ![d] = NoRequest]
        /\ receipt \in [Writers -> Requests] /\ Queued \subseteq Writers
    BY <1>4, Types, SavesAssumption DEF Compose, SavesInv, Messages, Writers
  <2>2. \A m \in Queued : receipt'[m] = receipt[m]
    BY <2>1
  <2> QED BY <1>4, <2>2 DEF Compose, Rests
<1>5. ASSUME NEW d \in Devices, Read(d)
      PROVE  Rests
  BY <1>5 DEF Read, CommitSweep, Rests
<1>6. ASSUME NEW m \in Queued, Claim(m) \/ Retry(m) \/ SaveTurn(m)
      PROVE  Rests
  BY <1>6 DEF Claim, Retry, SaveTurn, CommitSweep, Rests
<1>7. ASSUME NEW m \in Messages, Lapses(m) \/ \E to \in {"withdrawn", "up"} : BeginChange(m, to)
      PROVE  Rests
  BY <1>7 DEF Lapses, BeginChange, Rests
<1>8. CASE Invalidate \/ Sweep
  BY <1>8 DEF Invalidate, Sweep, CommitSweep, Rests
<1>9. CASE CommitChange \/ Expires
  BY <1>9, Types DEF CommitChange, Expires, SavesInv, Row, Rests
<1> QED BY <1>1, <1>2, <1>3, <1>4, <1>5, <1>6, <1>7, <1>8, <1>9
        DEF SavesNext, Serve, Transition

\* A tombstone keeps no turn.
LEMMA SweptTurns ==
  ASSUME SavesInv
  PROVE  \/ Swept(session).live = session.live /\ Swept(session).turns = session.turns
         \/ session.live /\ ~Swept(session).live /\ Swept(session).turns = {}
BY Types DEF Swept, Tombstone, SavesInv, Row

\* Who writes what: a run its own message, which was never there, a device nothing
\* of the queue that it did not see.
LEMMA WriteHistory ==
  ASSUME SavesInv, HistoryInv, NEW w \in Writers, save[w].pc = "checked", ~change.held,
         save[w].held \/ (session.live /\ session.rev = save[w].req.rev), Write(w)
  PROVE  /\ session.live
         /\ \/ /\ w \in Queued /\ w \notin session.turns \cup gone /\ session'.live
               /\ session'.turns = session.turns \cup {w} /\ gone' = gone
               /\ receipt'[w] # NoRequest
            \/ /\ w \notin Queued /\ session'.live
               /\ session'.turns \cap Queued \subseteq session.turns
               /\ gone' = gone \cup (session.turns \ session'.turns)
            \/ /\ w \notin Queued /\ ~session'.live
               /\ session'.turns = {} /\ gone' = gone
         /\ \A m \in Queued : m # w => receipt'[m] = receipt[m]
<1> DEFINE req == save[w].req
<1>1. /\ session.live /\ session'.live = ~req.del /\ session'.turns = req.turns
      /\ req.base = session.turns /\ session' \in Row
  BY WriteFacts
<1>2. gone' = IF req.del THEN gone ELSE gone \cup (req.base \ req.turns)
  BY DEF Write
<1>3. Drawn(w)
  BY DEF HistoryInv, Authored
<1>4. /\ receipt' \in [Writers -> Requests]
      /\ \A v \in Writers : v # w => receipt'[v] = receipt[v]
  BY <1>1, WriteEnds
<1>5. receipt[w] = NoRequest /\ (req.del => req.turns = {})
  BY DEF SavesInv, Shape, Open
<1>6. ASSUME w \in Queued
      PROVE  /\ w \notin session.turns \cup gone /\ ~req.del
             /\ req.turns = session.turns \cup {w} /\ receipt'[w] # NoRequest
  <2>1. w \notin session.turns \cup gone
    BY <1>5, <1>6 DEF HistoryInv, Once
  <2>2. ~req.del /\ req.turns = session.turns \cup {w}
    BY <1>1, <1>3, <1>6 DEF Drawn
  <2>3. receipt' = [receipt EXCEPT ![w] = req]
    BY <1>6, SavesAssumption DEF Write, Messages
  <2>4. receipt'[w] = req
    BY <2>3, Types DEF SavesInv
  <2>5. req # NoRequest
    BY <2>2 DEF NoRequest
  <2> QED BY <2>1, <2>2, <2>4, <2>5
<1>7. ASSUME w \notin Queued, ~req.del
      PROVE  req.turns \cap Queued \subseteq session.turns
  BY <1>1, <1>3, <1>7 DEF Drawn
<1>8. \A m \in Queued : m # w => receipt'[m] = receipt[m]
  BY <1>4 DEF Writers
<1> QED BY <1>1, <1>2, <1>5, <1>6, <1>7, <1>8

LEMMA OnceStep ==
  ASSUME SavesInv, HistoryInv, [SavesNext]_vars
  PROVE  Once'
<1>1. CASE Rests
  <2>1. session'.turns \subseteq session.turns
    BY <1>1, SweptTurns DEF Rests
  <2> QED BY <1>1, <2>1 DEF HistoryInv, Once, Rests
<1>2. ASSUME NEW w \in Writers, save[w].pc = "checked", ~change.held,
             save[w].held \/ (session.live /\ session.rev = save[w].req.rev), Write(w)
      PROVE  Once'
  <2>1. /\ \/ /\ w \in Queued /\ session'.turns = session.turns \cup {w} /\ gone' = gone
              /\ receipt'[w] # NoRequest
           \/ /\ w \notin Queued /\ session'.turns \cap Queued \subseteq session.turns
              /\ gone' = gone \cup (session.turns \ session'.turns)
           \/ w \notin Queued /\ session'.turns = {} /\ gone' = gone
        /\ \A m \in Queued : m # w => receipt'[m] = receipt[m]
    BY <1>2, WriteHistory
  <2> QED BY <2>1 DEF HistoryInv, Once
<1> QED BY <1>1, <1>2, OnlyWrites

LEMMA InitHistory == SavesInit => HistoryInv
<1> SUFFICES ASSUME SavesInit PROVE HistoryInv
  OBVIOUS
<1>1. \A w \in Writers : save[w].pc = "idle"
  BY DEF SavesInit, NoSave
<1>2. session.turns = {} /\ gone = {}
  BY DEF SavesInit, NewSession
<1> QED BY <1>1, <1>2 DEF HistoryInv, Authored, Once

LEMMA HistoryInvHolds == SavesSafety => [](SavesInv /\ HistoryInv)
<1>1. SavesInit => SavesInv /\ HistoryInv
  BY InitHolds, InitHistory
<1>2. SavesInv /\ HistoryInv /\ [SavesNext]_vars => (SavesInv /\ HistoryInv)'
  BY AuthoredStep, OnceStep, NextInv DEF HistoryInv
<1> QED BY <1>1, <1>2, PTL DEF SavesSafety

LEMMA InitHistorical == SavesInit => History!Init
BY DEF SavesInit, NewSession, History!Init

LEMMA HistoryStep ==
  ASSUME SavesInv, HistoryInv, [SavesNext]_vars
  PROVE  [History!Next]_(History!vars)
<1> DEFINE kept == session.turns \cap Queued
           removed == gone \cap Queued
<1>0. SUFFICES ASSUME ~(/\ session'.live = session.live
                        /\ session'.turns \cap Queued = kept /\ gone' \cap Queued = removed)
               PROVE  History!Next
  BY DEF History!vars
<1>1. CASE Rests
  <2>1. session.live /\ session'.live = FALSE /\ session'.turns = {}
    <3>1. session' \in Row \/ session'.live = session.live
      BY <1>1, Types, SweptRow DEF SavesInv, Rests
    <3>2. session.live /\ ~session'.live /\ session'.turns = {}
      BY <1>0, <1>1, SweptTurns DEF Rests
    <3> QED BY <3>1, <3>2 DEF Row
  <2> QED BY <1>1, <2>1 DEF Rests, History!Next, History!Close
<1>2. ASSUME NEW w \in Writers, save[w].pc = "checked", ~change.held,
             save[w].held \/ (session.live /\ session.rev = save[w].req.rev), Write(w)
      PROVE  History!Next
  <2>0. session.live \in BOOLEAN /\ session'.live \in BOOLEAN
    BY <1>2, WriteFacts, Types DEF SavesInv, Row
  <2>1. CASE /\ w \in Queued /\ w \notin session.turns \cup gone /\ session'.live
             /\ session'.turns = session.turns \cup {w} /\ gone' = gone
    <3>1. History!Add(w)
      BY <1>2, <2>0, <2>1, WriteFacts DEF History!Add
    <3> QED BY <2>1, <3>1 DEF History!Next
  <2>2. CASE /\ w \notin Queued /\ session'.live
             /\ session'.turns \cap Queued \subseteq session.turns
             /\ gone' = gone \cup (session.turns \ session'.turns)
    <3> DEFINE S == kept \ session'.turns
    <3>1. /\ session'.turns \cap Queued = kept \ S
          /\ gone' \cap Queued = removed \cup S
          /\ session.live /\ session'.live = session.live
      BY <1>2, <2>0, <2>2, WriteFacts
    <3>2. History!Remove(S)
      BY <3>1 DEF History!Remove
    <3> QED BY <3>2 DEF History!Next
  <2>3. CASE ~session'.live /\ session'.turns = {} /\ gone' = gone
    <3>1. History!Close
      BY <1>2, <2>0, <2>3, WriteFacts DEF History!Close
    <3> QED BY <3>1 DEF History!Next
  <2> QED BY <1>2, <2>1, <2>2, <2>3, WriteHistory
<1> QED BY <1>1, <1>2, OnlyWrites

-------------------------------------------------------------------------------
(* The theorems *)

\* Every reachable state of the Session's saves is well typed
\* (agentSessions.ts, agentSessionSources.ts).
THEOREM SavesTypes == SavesSafety => []SavesTypeOK
<1>1. SavesInv => SavesTypeOK BY DEF SavesInv
<1> QED BY <1>1, SavesInvHolds, PTL

\* No committed Session shows a turn whose source was ever withdrawn, however
\* the sweep, the lock of the sources and the transition overlapped.
THEOREM WithdrawnStaysHiddenHolds == SavesSafety => []WithdrawnStaysHidden
<1>1. SavesInv => WithdrawnStaysHidden BY DEF SavesInv, Hidden, WithdrawnStaysHidden
<1> QED BY <1>1, SavesInvHolds, PTL

\* A device that was told no has no committed save, whatever answers got lost
\* and however often it sent the save again.
THEOREM KnownOutcomeHolds == SavesSafety => []KnownOutcome
<1>1. SavesInv => KnownOutcome BY DEF SavesInv, Told, KnownOutcome, SavesTypeOK
<1> QED BY <1>1, SavesInvHolds, PTL

\* No save takes a turn out of a live Session that its author had not seen: the
\* expected revision and the locks leave no gap between the read and the write.
THEOREM NothingLostHolds == SavesSafety => NothingLostUnseen
<1> DEFINE Kept == \A m \in session.turns \ session'.turns : session'.live => m \in gone'
<1>1. SavesInv /\ [SavesNext]_vars => Kept BY LostWasSeen
<1>2. SavesInv /\ [SavesNext]_vars => [Kept]_vars BY <1>1
<1> HIDE DEF Kept
<1>3. SavesSafety => [][Kept]_vars BY <1>2, SavesInvHolds, PTL DEF SavesSafety
<1> QED BY <1>3 DEF NothingLostUnseen, Kept

\* The saves implement the history: whoever saves, retries or loses an answer, a
\* queued message enters the history once, one that was removed never comes back, and
\* a closed Session stays closed and empty.
THEOREM HistoryIsKept == SavesSafety => KeepsHistory
<1>1. SavesInit => History!Init
  BY InitHistorical
<1>2. SavesInv /\ HistoryInv /\ [SavesNext]_vars => [History!Next]_(History!vars)
  BY HistoryStep
<1> QED BY <1>1, <1>2, HistoryInvHolds, PTL DEF SavesSafety, KeepsHistory, History!Spec
===============================================================================
