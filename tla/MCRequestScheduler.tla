------------------------ MODULE MCRequestScheduler ------------------------
(* A small instance of RequestScheduler: two historical requests of different *)
(* rank, the window open for two, refusals below and above the pause cap.     *)
EXTENDS RequestScheduler

QueueRequests == {"deals", "bars"}
QueueGroups == {"historical"}
QueueGroupOf == [r \in QueueRequests |-> "historical"]
QueuePriority == [r \in QueueRequests |-> IF r = "deals" THEN 0 ELSE 2]
QueueLimit == [g \in QueueGroups |-> 2]

\* A refusal below the pause cap, and one above it.
SomeRetryAfters == {0, 3}

=============================================================================
