------------------------ MODULE MCConversationQueue ------------------------
(* The durable queue under an arbitrary program of lease holders.           *)
EXTENDS ConversationQueue, TLC

CONSTANTS m1, m2, m3, o1

ThreeMessages == {m1, m2, m3}
OneOwner == {o1}

\* Every kind of user action, stall and rollback once; MaxKinds picks any two.
AllOnce == [stop |-> 1, edit |-> 1, retry |-> 1, prioritize |-> 1, continue |-> 1,
            withdraw |-> 1, abort |-> 1, expire |-> 1, close |-> 1]

MessageSymmetry == Permutations(ThreeMessages)
=============================================================================
