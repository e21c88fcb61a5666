------------------------------ MODULE MCAccount ------------------------------
(***************************************************************************)
(* An account: the session's tokens, the clients that share the session,   *)
(* and the instruments loaded over it.  The three share no state, so a     *)
(* part moves only while the others are as they began.                     *)
(***************************************************************************)
EXTENDS TLC, TokenRefresh, AccountClient, InstrumentProvider

AccountPartsInit == Init /\ AccountInit /\ ProviderInit
NoToken == Init /\ due
AccountPartsNext ==
    \/ AccountInit /\ ProviderInit /\ Next /\ UNCHANGED <<accountVars, providerVars>>
    \/ NoToken /\ ProviderInit /\ AccountNext /\ UNCHANGED <<vars, providerVars>>
    \/ NoToken /\ AccountInit /\ ProviderNext /\ UNCHANGED <<vars, accountVars>>
AccountPartsSpec ==
    AccountPartsInit /\ [][AccountPartsNext]_<<vars, accountVars, providerVars>>

PreparersAlike == Permutations(Preparers)
=============================================================================
