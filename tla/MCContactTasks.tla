---------------------------- MODULE MCContactTasks ----------------------------
EXTENDS ContactTasks

CONSTANTS i1, s1, s2, web

OneImage == {i1}
OneServer == {s1}
TwoServers == {s1, s2}
OneClient == {web}

TaskRisk ==
  [k \in {"crash", "lapse", "cancel", "delete", "lost", "link", "source", "expire",
          "archive", "confirm", "fault", "close", "resume", "research"} |-> 1]

DeletionRisk == [k \in {"delete", "lost"} |-> 1]

===============================================================================
