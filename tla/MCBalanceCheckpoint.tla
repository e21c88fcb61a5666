------------------------- MODULE MCBalanceCheckpoint -------------------------
(***************************************************************************)
(* A small instance of BalanceCheckpoint: a week is two ticks, and the     *)
(* accounts are a new one, one that was funded and emptied, and one with   *)
(* more deals in a week than a page holds, two of them in one millisecond, *)
(* with and without a registration and in either order.                    *)
(***************************************************************************)
EXTENDS BalanceCheckpoint

MCCheckpoints == {0, 3, 5}

Step(version, ts, kind, balance) ==
    [version |-> version, ts |-> ts, balance |-> balance, delta |-> 1, cash |-> kind # "deal",
     deposit |-> kind = "deposit", digits |-> Digits]

Account(registration, newestFirst, changes) ==
    [registration |-> registration, newestFirst |-> newestFirst, changes |-> changes]

Busy == <<Step(1, 1, "deposit", 1), Step(2, 1, "deal", 2), Step(3, 2, "deal", 3),
          Step(4, 2, "deal", 4)>>

MCAccounts ==
    {Account(2, FALSE, <<>>),
     Account(0, FALSE, <<Step(1, 0, "deposit", 1), Step(2, 1, "withdrawal", 0)>>),
     Account(0, FALSE, Busy),
     Account(NoTime, TRUE, Busy)}

=============================================================================
