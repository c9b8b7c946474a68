------------------------- MODULE BookingAccounting -------------------------
(***************************************************************************)
(* What the wallets must add up to, stated over all bookings of a user.    *)
(***************************************************************************)
EXTENDS BookingLifecycle, Functions

\* Tokens of u still locked for b according to the ledger: one lock per
\* booking, less every entry that released or spent it.
LockedFor(u, b) ==
    IF Candidate(b) = u THEN TokenCost(b) * (1 - Settlements(b)) ELSE 0

\* What the ledger says was paid for the session of b, seen by u.
Paid(b) == TokenCost(b) * (ledger[b]["COMPLETE_EARN"] + ledger[b]["SESSION_EARN"])
EarnedWith(u, b) ==
    (IF party[b].interviewer = u THEN Paid(b) ELSE 0)
    - (IF Candidate(b) = u THEN Paid(b) ELSE 0)

LockedByLedger(u) == SumFunction([b \in Bookings |-> LockedFor(u, b)])
EarnedByLedger(u) == SumFunction([b \in Bookings |-> EarnedWith(u, b)])

\* A wallet is exactly what the ledger accounts for: the locked balance by
\* the entries of its owner's bookings, even when one of them is settled
\* twice at the expense of another, and the rest by rows of payments.
WalletsMatchLedger ==
    \A u \in Users :
        /\ wallet[u].locked_balance = LockedByLedger(u)
        /\ wallet[u].balance + wallet[u].locked_balance
             = InitialBalance[u] + EarnedByLedger(u)

=============================================================================
