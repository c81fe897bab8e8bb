------------------------ MODULE ConversationPromise ------------------------
(***************************************************************************)
(* What the queue promises to the people of a Session, without rows,       *)
(* leases, retries of persistence or crashes: accepted messages are worked *)
(* on one at a time, and a message is done only once it is in the history. *)
(***************************************************************************)
EXTENDS Naturals

CONSTANT Messages

VARIABLES
  phase,    \* what became of each message
  history   \* the messages whose text the Session shows

promiseVars == <<phase, history>>

Phases == {"unknown", "waiting", "working", "unfinished", "done", "removed"}

In(p) == {m \in Messages : phase[m] = p}

\* The messages of S, all of them at once, get phase p.
Become(S, p) == phase' = [m \in Messages |-> IF m \in S THEN p ELSE phase[m]]

Init ==
  /\ phase = [m \in Messages |-> "unknown"]
  /\ history = {}

Accept(m) ==
  /\ phase[m] = "unknown"
  /\ Become({m}, "waiting") /\ UNCHANGED history

Start(m) ==
  /\ phase[m] = "waiting" /\ In("working") = {}
  /\ Become({m}, "working") /\ UNCHANGED history

\* The working message enters the history with the messages folded into it.
Write(m, S) ==
  /\ phase[m] = "working" /\ S \subseteq In("waiting")
  /\ history' = history \cup {m} \cup S
  /\ UNCHANGED phase

Finish(m, S) ==
  /\ phase[m] = "working" /\ S \subseteq In("waiting")
  /\ {m} \cup S \subseteq history
  /\ Become({m} \cup S, "done") /\ UNCHANGED history

Suspend(m, S) ==
  /\ phase[m] = "working" /\ S \subseteq In("waiting")
  /\ Become({m} \cup S, "unfinished") /\ UNCHANGED history

Resume(S) ==
  /\ S # {} /\ S \subseteq In("unfinished")
  /\ Become(S, "waiting") /\ UNCHANGED history

Withdraw(S) ==
  /\ S # {} /\ S \subseteq In("waiting") \cup In("unfinished")
  /\ Become(S, "removed") /\ UNCHANGED history

\* The Session and its queue go; nothing that was known comes back.
EndSession ==
  /\ Become(Messages \ In("unknown"), "removed") /\ UNCHANGED history

Next ==
  \/ \E m \in Messages : Accept(m) \/ Start(m)
  \/ \E m \in Messages, S \in SUBSET Messages : Write(m, S) \/ Finish(m, S) \/ Suspend(m, S)
  \/ \E S \in SUBSET Messages : Resume(S) \/ Withdraw(S)
  \/ EndSession

Spec == Init /\ [][Next]_promiseVars

----------------------------------------------------------------------------
\* Every variable has its type.
PromiseTypeOK ==
  /\ phase \in [Messages -> Phases]
  /\ history \subseteq Messages

\* At most one message of a Session is worked on.
OneAtATime == \A m, n \in In("working") : m = n

\* Nothing that is done is lost.
DoneIsShown == In("done") \subseteq history
=============================================================================
