--------------------------- MODULE MCSessionSaves ---------------------------
EXTENDS SessionSaves, TLC

CONSTANTS q1, q2, o1, phone, web

OneQueued == {q1}
TwoQueued == {q1, q2}
OneOwn == {o1}
TwoDevices == {phone, web}
OneDevice == {phone}

\* Every kind of event; a save takes no budget from the others.
SessionRisk ==
  [k \in {"save"} |-> 2] @@
  [k \in {"delete", "lapse", "withdraw", "restore", "expire", "lost", "crash", "retry"} |-> 1]
=============================================================================
