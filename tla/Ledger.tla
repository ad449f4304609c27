------------------------------- MODULE Ledger -------------------------------
(***************************************************************************)
(* What settlement promises, with no process, session or version in sight: *)
(* a payment is decided at most once, and the decision moves the whole     *)
(* amount in one step or moves nothing.  The settlement service run inside *)
(* MongoDB transactions is shown to implement this module.                 *)
(***************************************************************************)
EXTENDS Integers, FiniteSetsExt

CONSTANTS
    Vpas,             \* the payment addresses an instruction may name
    Accounts,         \* those that have an Account document
    Payments,         \* the packet hashes, the keys of the transactions
    Sender,           \* Sender[p], Receiver[p] : the parties of payment p
    Receiver,
    Amount,           \* Amount[p] : paise; 0 stands for what is not a positive number
    InitialBalance    \* InitialBalance[a] : the seeded balance of account a

VARIABLES
    balance,          \* balance[a] : committed balance of account a
    transactions      \* transactions[p] : "none" or the status recorded for p

ASSUME LedgerAssumption ==
    /\ IsFiniteSet(Payments)
    /\ Accounts \subseteq Vpas
    /\ Sender \in [Payments -> Vpas]
    /\ Receiver \in [Payments -> Vpas]
    /\ Amount \in [Payments -> Nat]
    /\ InitialBalance \in [Accounts -> Nat]

Statuses == {"none", "SETTLED", "REJECTED"}

ledgerVars == <<balance, transactions>>

LedgerInit ==
    /\ balance = InitialBalance
    /\ transactions = [p \in Payments |-> "none"]

\* Both parties have an account and the amount is positive.
WellFormed(p) ==
    /\ Sender[p] \in Accounts
    /\ Receiver[p] \in Accounts
    /\ Amount[p] > 0

\* Payment p is settled: so much is taken from its sender, so much given.
Transfer(p, taken, given) ==
    /\ WellFormed(p)
    /\ transactions[p] = "none"
    /\ balance[Sender[p]] >= Amount[p]
    /\ balance' = [a \in Accounts |->
                      balance[a] - (IF a = Sender[p] THEN taken ELSE 0)
                                 + (IF a = Receiver[p] THEN given ELSE 0)]
    /\ transactions' = [transactions EXCEPT ![p] = "SETTLED"]

Settle(p) == Transfer(p, Amount[p], Amount[p])

(* A rejection records a decision taken on a balance the sender had at     *)
(* some earlier moment, so it is not guarded by the present balance.       *)
Reject(p) ==
    /\ WellFormed(p)
    /\ transactions[p] = "none"
    /\ transactions' = [transactions EXCEPT ![p] = "REJECTED"]
    /\ UNCHANGED balance

LedgerNext == \E p \in Payments : Settle(p) \/ Reject(p)

LedgerSpec == LedgerInit /\ [][LedgerNext]_ledgerVars

-----------------------------------------------------------------------------
Settled == {p \in Payments : transactions[p] = "SETTLED"}

SumOver(w, S) == MapThenSumSet(LAMBDA x : w[x], S)

SumOf(S) == SumOver(Amount, S)

\* The balance account a must have, judged by the transactions alone.
BookBalance(a) ==
    InitialBalance[a] + SumOf({p \in Settled : Receiver[p] = a})
                      - SumOf({p \in Settled : Sender[p] = a})

=============================================================================
