--------------------------- MODULE SessionHistory ---------------------------
(***************************************************************************)
(* What the history of a Session promises about the messages of its queue, *)
(* whoever saves it: a message enters the history once, a message that was *)
(* removed never comes back, and a closed Session stays closed and empty.  *)
(***************************************************************************)
CONSTANT Messages

VARIABLES
  open,     \* the Session is neither deleted nor expired
  kept,     \* the messages with a turn in the history
  removed   \* the messages whose turn a user removed

vars == <<open, kept, removed>>

Init ==
  /\ open = TRUE
  /\ kept = {}
  /\ removed = {}

Add(m) ==
  /\ open
  /\ m \notin kept \cup removed
  /\ kept' = kept \cup {m}
  /\ UNCHANGED <<open, removed>>

Remove(S) ==
  /\ open
  /\ kept' = kept \ S
  /\ removed' = removed \cup S
  /\ UNCHANGED open

Close ==
  /\ open
  /\ open' = FALSE
  /\ kept' = {}
  /\ UNCHANGED removed

Next ==
  \/ \E m \in Messages : Add(m)
  \/ \E S \in SUBSET kept : Remove(S)
  \/ Close

Spec == Init /\ [][Next]_vars
=============================================================================
