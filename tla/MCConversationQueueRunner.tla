--------------------- MODULE MCConversationQueueRunner ---------------------
(* The queue with the program that runs it.                                 *)
EXTENDS ConversationQueueRunner, TLC

CONSTANTS m1, m2, m3, w1, w2

OneMessage == {m1}
TwoMessages == {m1, m2}
ThreeMessages == {m1, m2, m3}
OneWorker == {w1}
TwoWorkers == {w1, w2}
NoImages == {}
SecondHasImages == {m2}
LastHasImages == {m3}

OneWorkerOwners == OneWorker \X {"job", "recovery"}
TwoWorkersOwners == TwoWorkers \X {"job", "recovery"}

NoLimit == [stop |-> 0, edit |-> 0, retry |-> 0, prioritize |-> 0, continue |-> 0,
            withdraw |-> 0, abort |-> 0, expire |-> 0, close |-> 0]
NoRisk == [revoke |-> 0, crash |-> 0, fault |-> 0, shutdown |-> 0]

\* One task message and two supplements, one of them with an image.
SteeringLimit == [NoLimit EXCEPT !.stop = 1, !.retry = 1, !.continue = 1,
                                 !.prioritize = 1]
SteeringRisk == [NoRisk EXCEPT !.fault = 1]

\* One process whose job and recovery loop race after every kind of failure;
\* users do any two kinds of things, MaxKinds.
AllOnce == [stop |-> 1, edit |-> 1, retry |-> 1, prioritize |-> 1, continue |-> 1,
            withdraw |-> 1, abort |-> 1, expire |-> 1, close |-> 1]
OneEach == [revoke |-> 1, crash |-> 1, fault |-> 1, shutdown |-> 1]

\* Two processes, one of which may die.
ProgressLimit == [NoLimit EXCEPT !.stop = 1, !.expire = 1, !.close = 1]
ProgressRisk == [NoRisk EXCEPT !.crash = 1]

\* The texts are interchangeable, and so are the processes.
TextSymmetry == Permutations(TwoMessages)
WorkerSymmetry == Permutations(TwoWorkers)

HoleLimit == [NoLimit EXCEPT !.prioritize = 1]
OneFault == [NoRisk EXCEPT !.fault = 1]
RetryLimit == [NoLimit EXCEPT !.retry = 1, !.continue = 1]
EditLimit == [RetryLimit EXCEPT !.edit = 1]
StopLimit == [RetryLimit EXCEPT !.stop = 1]
=============================================================================
