--------------------------- MODULE MCGovernedActions ---------------------------
(* Two actions on one destination, each with a source of its own. *)
EXTENDS GovernedActions, TLC

CONSTANTS a1, a2, t1, t2

OneAction == {a1}
TwoActions == {a1, a2}
OneText == {t1}
TwoTexts == {t1, t2}

ActionSymmetry == Permutations(Actions)

GovernedRisk ==
  [approve |-> 2, revise |-> 1, lapse |-> 1, unapprove |-> 1, ungrant |-> 1,
   reverse |-> 1, elapse |-> 1, revoke |-> 1, expire |-> 1, restore |-> 1,
   correct |-> 1, delete |-> 1]
================================================================================
