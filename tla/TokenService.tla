---------------------------- MODULE TokenService ----------------------------
(***************************************************************************)
(* The token wallet operations of wallet/services.py.  Every operation of  *)
(* the code locks the wallet row, checks its guard on the fresh row and    *)
(* saves, so each is an atomic function from wallets to wallets together   *)
(* with the condition under which the code does not raise.                 *)
(***************************************************************************)
EXTENDS Naturals

\* A TokenWallet row; both columns are PositiveIntegerFields with a
\* non-negativity constraint.
Wallet == [balance : Nat, locked_balance : Nat]

\* lock_tokens raises unless the amount is positive and available.
CanLock(w, u, amount) ==
    /\ amount > 0
    /\ w[u].balance >= amount

\* Move tokens from the balance to the locked balance (a booking).
LockTokens(w, u, amount) ==
    [w EXCEPT ![u] = [balance |-> @.balance - amount,
                      locked_balance |-> @.locked_balance + amount]]

\* unlock_tokens and transfer_locked_tokens look at the wallet's total
\* locked balance only: no lock is tied to the booking it was made for.
CanTakeLocked(w, u, amount) ==
    /\ amount > 0
    /\ w[u].locked_balance >= amount

\* Give locked tokens back to their owner (cancellation, refund).
UnlockTokens(w, u, amount) ==
    [w EXCEPT ![u] = [balance |-> @.balance + amount,
                      locked_balance |-> @.locked_balance - amount]]

\* Mutant: the spendable tokens are taken.
TransferSpendableTokens(w, from, to, amount) ==
    [w EXCEPT ![from].balance = @ - amount,
              ![to].balance = @ + amount]

\* Spend locked tokens into another user's balance (a paid session).
TransferLockedTokens(w, from, to, amount) ==
    LET spent == [w EXCEPT ![from] =
                    [balance |-> @.balance,
                     locked_balance |-> @.locked_balance - amount]]
    IN  [spent EXCEPT ![to] =
            [balance |-> @.balance + amount,
             locked_balance |-> @.locked_balance]]

=============================================================================
