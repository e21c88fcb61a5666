--------------------------- MODULE RequestContract ---------------------------
(***************************************************************************)
(* What CTraderConnection.request() promises each of its callers, whatever *)
(* happens to sockets, timers and the queue underneath: one ending, and an *)
(* ending that does not lie about the venue.  Execution relies on it: an   *)
(* order that ended "notSent" may be placed again, one that ended          *)
(* "unknown" may not.                                                      *)
(***************************************************************************)
EXTENDS Naturals

CONSTANT Requests

VARIABLES
    open,      \* the calls in progress
    ending,    \* how each call ended, "none" before that
    standing   \* frames of the call written and not refused by the venue

contractVars == <<open, ending, standing>>

Endings == {"reply", "refused", "notSent", "unknown", "cancelled"}

ContractInit ==
    /\ open = {}
    /\ ending = [r \in Requests |-> "none"]
    /\ standing = [r \in Requests |-> 0]

Begin(r) ==
    /\ r \notin open /\ ending[r] = "none"
    /\ open' = open \cup {r}
    /\ UNCHANGED <<ending, standing>>

\* A frame goes out only for an open call, and only when no earlier one stands.
Send(r) ==
    /\ r \in open /\ standing[r] = 0
    /\ standing' = [standing EXCEPT ![r] = 1]
    /\ UNCHANGED <<open, ending>>

\* The venue refuses a frame for its rate limit, however late.
VenueRefuses(r) ==
    /\ standing[r] = 1
    /\ standing' = [standing EXCEPT ![r] = 0]
    /\ UNCHANGED <<open, ending>>

\* What may be reported of a call with that many frames standing.
Honest(how, n) ==
    CASE how = "reply" -> n = 1
      [] how \in {"refused", "notSent"} -> n = 0
      [] OTHER -> TRUE

End(r, how) ==
    /\ ending[r] = "none"
    /\ Honest(how, standing[r])
    /\ open' = open \ {r}
    /\ ending' = [ending EXCEPT ![r] = how]
    /\ UNCHANGED standing

ContractNext ==
    \E r \in Requests :
        \/ Begin(r) \/ Send(r) \/ VenueRefuses(r)
        \/ \E how \in Endings : End(r, how)

Contract == ContractInit /\ [][ContractNext]_contractVars

=============================================================================
