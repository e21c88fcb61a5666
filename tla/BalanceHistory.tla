---------------------------- MODULE BalanceHistory ----------------------------
(***************************************************************************)
(* The rule for the account balance at a past moment (balance_history.py), *)
(* and the pages the history is read in (history.py).                      *)
(*                                                                         *)
(* A balance change carries its version and the balance after it.  The     *)
(* lists read are sets here: every order the code makes of them is by      *)
(* version or by time.                                                     *)
(***************************************************************************)
EXTENDS Integers, FiniteSets, Sequences, SequencesExt

CONSTANTS
    Week,        \* WEEK_MS
    PageSize,    \* external: how many deals the broker lists at once
    MaxPages     \* max_pages of deals_between()

ASSUME BalanceHistoryAssumption == {Week, PageSize, MaxPages} \subseteq Nat \ {0}

\* An absent change, deposit or time.
Nothing == [version |-> 0]
NoTime == -1

Latest(changes) == CHOOSE c \in changes : \A d \in changes : d.version <= c.version
Earliest(changes) == CHOOSE c \in changes : \A d \in changes : c.version <= d.version

-----------------------------------------------------------------------------
(* The rule *)

\* _on_zero(): a deposit on a zero balance.
OnZero(change) == change.deposit /\ change.balance = change.delta

\* first_deposit()
FirstDeposit(changes) ==
    LET deposits == {c \in changes : OnZero(c)} IN
    IF deposits = {} THEN Nothing ELSE Earliest(deposits)

\* _follows(): the sign of a cash flow is the chain's to say.
Follows(balance, change) ==
    change.balance - balance \in (IF change.cash THEN {change.delta, -change.delta}
                                  ELSE {change.delta})

\* _chain(): the changes after a balance lead to the trader's, without a gap; the chain from
\* zero (version 0) takes its first change as it comes.
Chain(balance, version, after, trader) ==
    LET before(c) == {d \in after : d.version < c.version}
        isFirst(c) == before(c) = {}
        follows(c) ==
            LET b == IF isFirst(c) THEN balance ELSE Latest(before(c)).balance
                v == IF isFirst(c) THEN version ELSE Latest(before(c)).version
            IN (v # 0 => c.version = v + 1) /\ Follows(b, c)
        reaches == {version} \cup {c.version : c \in after}
    IN IF \/ version # 0 /\ version = trader.version /\ balance # trader.balance
          \/ \E c \in after : \/ ~follows(c)
                              \/ c.version = trader.version /\ c.balance # trader.balance
       THEN "no_chain"
       ELSE IF \A v \in reaches : v < trader.version THEN "incomplete" ELSE "none"

Value(reason, balance, deposit) ==
    [status |-> IF reason = "none" THEN "available" ELSE "unavailable", reason |-> reason,
     balance |-> IF reason = "none" THEN balance ELSE 0, deposit |-> deposit]
NeedEarlier == [status |-> "earlier"]

\* The changes strictly before the checkpoint.
Before(changes, t) == {c \in changes : c.ts < t}

\* balance_at(): from the last change before the checkpoint, else from zero at the
\* registration; Nothing of a history not read far enough.
BalanceAt(t, changes, covered, registration, trader, digits, reachedCap) ==
    LET deposit == FirstDeposit(changes)
        before == Before(changes, t)
        anchor == Latest(before)
        result(reason, balance) == Value(reason, balance, deposit)
    IN CASE \E c \in changes : c.digits # digits -> Value("mixed_scales", 0, Nothing)
         [] \E c, d \in changes : c.version = d.version /\ c # d -> result("no_chain", 0)
         [] before # {} ->
               result(Chain(anchor.balance, anchor.version,
                            {c \in changes : c.version > anchor.version}, trader),
                      anchor.balance)
         [] registration > t -> result("opened_after", 0)
         [] reachedCap -> result("incomplete", 0)
         [] registration = NoTime -> IF covered <= 0 THEN result("incomplete", 0) ELSE NeedEarlier
         [] covered > registration -> NeedEarlier
         [] changes # {} /\ ~OnZero(Earliest(changes)) -> result("no_chain", 0)
         [] OTHER -> result(Chain(0, 0, changes, trader), 0)

-----------------------------------------------------------------------------
(* The pages *)

\* External: what the broker lists of its deals in a window, both edges included, oldest
\* first or newest first, any order within one millisecond; and whether more is left.
Pages(deals, window, newestFirst) ==
    LET listed == {d \in deals : window[1] <= d.ts /\ d.ts <= window[2]}
        ordered(d, e) == IF newestFirst THEN d.ts >= e.ts ELSE d.ts <= e.ts
        kept == {p \in SUBSET listed :
                    /\ Cardinality(p) = IF Cardinality(listed) < PageSize
                                        THEN Cardinality(listed) ELSE PageSize
                    /\ \A d \in p, e \in listed \ p : ordered(d, e)}
    IN {[items |-> p, more |-> p # listed] : p \in kept}

\* Mutant: the next page begins after the last item's own millisecond.
NextWindowAfter(items, window, newestFirst) ==
    LET times == {d.ts : d \in items}
        first == CHOOSE x \in times : \A y \in times : x <= y
        last == CHOOSE x \in times : \A y \in times : x >= y
    IN IF items = {} THEN <<>> ELSE IF newestFirst THEN <<window[1], first - 1>>
       ELSE <<last + 1, window[2]>>

\* _next_window(): narrowed at the page's last item; <<>> if it cannot be.
NextWindow(items, window, newestFirst) ==
    LET times == {d.ts : d \in items}
        first == CHOOSE x \in times : \A y \in times : x <= y
        last == CHOOSE x \in times : \A y \in times : x >= y
        narrowed == IF newestFirst THEN <<window[1], first>> ELSE <<last, window[2]>>
    IN IF Cardinality(times) < 2 \/ narrowed = window THEN <<>> ELSE narrowed

\* weekly_windows(), the first of them and where the rest begin.
WeeklyWindow(start, to) == <<start, IF start + Week < to THEN start + Week ELSE to>>

=============================================================================
