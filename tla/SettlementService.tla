-------------------------- MODULE SettlementService --------------------------
(***************************************************************************)
(* backend/services/settlementService.js: settle() and the two ways it     *)
(* runs _doSettle, step by step.  Every await of _doSettle is a step of    *)
(* its own, so the calls of concurrent requests interleave between them.   *)
(*                                                                         *)
(* SupportsTransactions selects the way, as settle() does on every call:   *)
(*   TRUE   _settleWithSession: the reads come from one snapshot, taken by *)
(*          the first of them; the writes are held back until the commit,  *)
(*          and a write of a document somebody else wrote since the        *)
(*          snapshot (or is writing) is refused with a write conflict;     *)
(*   FALSE  _settleWithoutSession: every write takes effect at once, and   *)
(*          the only guard between two calls is the __v filter of the      *)
(*          debit and the unique index on packetHash.                      *)
(* Money is counted in paise.                                              *)
(***************************************************************************)
EXTENDS Ledger

CONSTANTS
    Calls,                  \* the concurrent calls of settle()
    NoPayment,              \* pay[c] of a call that has not been made
    SupportsTransactions,   \* settlementService.js, lines 25 to 29
    Duplicates,             \* TRUE: a packet hash may be handed in twice
    Faults                  \* what may go wrong: "database", "crash"

VARIABLES
    version,    \* version[a] : __v of the Account document of a
    pc,         \* pc[c] : the await call c stands at, or how it ended
    pay,        \* pay[c] : the payment call c was made for
    view,       \* view[c] : what the reads of call c returned
    missed      \* missed[c] : accounts others committed since c's snapshot

settlementVars == <<balance, transactions, version, pc, pay, view, missed>>

ASSUME SettlementAssumption ==
    /\ IsFiniteSet(Calls)
    /\ NoPayment \notin Payments
    /\ SupportsTransactions \in BOOLEAN
    /\ Duplicates \in BOOLEAN
    /\ Faults \subseteq {"database", "crash"}

Active == {"sender", "receiver", "debit", "reject", "credit", "save",
           "commit", "commitRejected"}

Returned == {"settled", "rejected", "failed", "conflict", "duplicateKey", "lost"}

SettlementTypeOK ==
    /\ balance \in [Accounts -> Int]
    /\ transactions \in [Payments -> Statuses]
    /\ version \in [Accounts -> Nat]
    /\ pc \in [Calls -> {"idle"} \cup Active \cup Returned]
    /\ pay \in [Calls -> Payments \cup {NoPayment}]
    /\ \A c \in Calls : pc[c] # "idle" => pay[c] \in Payments
    /\ view \in [Calls -> [sender : Int, version : Nat, receiver : Int]]
    /\ missed \in [Calls -> SUBSET Accounts]

SettlementInit ==
    /\ LedgerInit
    /\ version = [a \in Accounts |-> 0]
    /\ pc = [c \in Calls |-> "idle"]
    /\ pay = [c \in Calls |-> NoPayment]
    /\ view = [c \in Calls |-> [sender |-> 0, version |-> 0, receiver |-> 0]]
    /\ missed = [c \in Calls |-> {}]

-----------------------------------------------------------------------------
Goto(c, label) == pc' = [pc EXCEPT ![c] = label]

\* A write that took effect may still be answered with a network error.
Answer(c, label) ==
    \/ Goto(c, label)
    \/ "database" \in Faults /\ Goto(c, "failed")

\* findById of an address without an account answers null.
BalanceOf(a) == IF a \in Accounts THEN balance[a] ELSE 0

\* mutant: the catch block does not abort, so the documents stay held
WrittenUntilAborted(c) ==
    {a \in Accounts :
        /\ SupportsTransactions
        /\ \/ pc[c] \in {"credit", "save", "commit", "conflict"} /\ a = Sender[pay[c]]
           \/ pc[c] \in {"save", "commit"} /\ a = Receiver[pay[c]]}

\* mutant: the credit is made without the session
WrittenByDebit(c) ==
    {a \in Accounts : /\ SupportsTransactions
                      /\ pc[c] \in {"credit", "save", "commit"}
                      /\ a = Sender[pay[c]]}

\* The documents an open MongoDB transaction has written and not committed.
Written(c) ==
    {a \in Accounts :
        /\ SupportsTransactions
        /\ \/ pc[c] \in {"credit", "save", "commit"} /\ a = Sender[pay[c]]
           \/ pc[c] \in {"save", "commit"} /\ a = Receiver[pay[c]]}

\* MongoDB refuses a transaction's write of a document that another one holds
\* or has committed since the snapshot.
WriteConflict(c, a) ==
    /\ SupportsTransactions
    /\ a \in missed[c] \/ \E d \in Calls \ {c} : a \in Written(d)

NeverStale(c) == FALSE                       \* mutant: no __v in the filter
\* Without a session the debit's filter must still find the __v it read.
AlwaysStale(c) == version[Sender[pay[c]]] # view[c].version + 1  \* mutant: __v after $inc
StaleSender(c) ==
    /\ ~SupportsTransactions
    /\ version[Sender[pay[c]]] # view[c].version

\* The unique index on packetHash, which an open transaction's insert enters too.
NeverDuplicate(c) == FALSE                   \* mutant: no unique index
DuplicateKey(c) ==
    \/ transactions[pay[c]] # "none"
    \/ \E d \in Calls \ {c} : /\ pc[d] \in {"commit", "commitRejected"}
                              /\ pay[d] = pay[c]

NeverInsufficient(c) == FALSE                \* mutant: the check is gone
InsufficientFunds(c) == view[c].sender < Amount[pay[c]]

-----------------------------------------------------------------------------
Begin(c, p) ==
    /\ pc[c] = "idle"
    /\ Duplicates \/ \A d \in Calls : pay[d] # p
    /\ Goto(c, "sender")
    /\ pay' = [pay EXCEPT ![c] = p]
    /\ UNCHANGED <<balance, transactions, version, view, missed>>

\* The first read; under a session it also takes the snapshot.
ReadSender(c) ==
    /\ pc[c] = "sender"
    /\ IF Sender[pay[c]] \in Accounts
       THEN /\ Goto(c, "receiver")
            /\ view' = [view EXCEPT ![c] =
                           [sender   |-> balance[Sender[pay[c]]],
                            version  |-> version[Sender[pay[c]]],
                            receiver |-> BalanceOf(Receiver[pay[c]])]]
            /\ missed' = [missed EXCEPT ![c] = {}]
       ELSE Goto(c, "failed") /\ UNCHANGED <<view, missed>>
    /\ UNCHANGED <<balance, transactions, version, pay>>

\* The second read, then the checks made before the next await.
ReadReceiver(c) ==
    /\ pc[c] = "receiver"
    /\ view' = IF SupportsTransactions THEN view
               ELSE [view EXCEPT ![c].receiver = BalanceOf(Receiver[pay[c]])]
    /\ Goto(c, IF Receiver[pay[c]] \notin Accounts \/ Amount[pay[c]] = 0 THEN "failed"
               ELSE IF InsufficientFunds(c) THEN "reject"
               ELSE "debit")
    /\ UNCHANGED <<balance, transactions, version, pay, missed>>

\* mutant: a refused write is tried again under the same snapshot
DebitSenderRetries(c) ==
    /\ pc[c] = "debit"
    /\ IF StaleSender(c) \/ WriteConflict(c, Sender[pay[c]]) THEN UNCHANGED pc
       ELSE Goto(c, "credit")
    /\ UNCHANGED <<balance, transactions, version, pay, view, missed>>

\* mutant: the __v is compared in the document that the update returns
DebitSenderChecksLate(c) ==
    /\ pc[c] = "debit"
    /\ IF StaleSender(c) \/ WriteConflict(c, Sender[pay[c]])
       THEN Goto(c, "conflict") ELSE Answer(c, "credit")
    /\ IF SupportsTransactions THEN UNCHANGED <<balance, version>>
       ELSE /\ balance' = [balance EXCEPT ![Sender[pay[c]]] = view[c].sender - Amount[pay[c]]]
            /\ version' = [version EXCEPT ![Sender[pay[c]]] = @ + 1]
    /\ UNCHANGED <<transactions, pay, view, missed>>

\* mutant: nobody looks whether the filter matched
DebitSenderUnchecked(c) ==
    /\ pc[c] = "debit"
    /\ Goto(c, "credit")
    /\ IF StaleSender(c) THEN UNCHANGED <<balance, version>>
       ELSE /\ balance' = [balance EXCEPT ![Sender[pay[c]]] =
                              view[c].sender - Amount[pay[c]]]
            /\ version' = [version EXCEPT ![Sender[pay[c]]] = @ + 1]
    /\ UNCHANGED <<transactions, pay, view, missed>>

\* findOneAndUpdate by _id and __v, with $inc of __v.
DebitSender(c) ==
    /\ pc[c] = "debit"
    /\ IF StaleSender(c) \/ WriteConflict(c, Sender[pay[c]])
       THEN Goto(c, "conflict") /\ UNCHANGED <<balance, version>>
       ELSE /\ Answer(c, "credit")
            /\ IF SupportsTransactions THEN UNCHANGED <<balance, version>>
               ELSE /\ balance' = [balance EXCEPT ![Sender[pay[c]]] =
                                      view[c].sender - Amount[pay[c]]]
                    /\ version' = [version EXCEPT ![Sender[pay[c]]] = @ + 1]
    /\ UNCHANGED <<transactions, pay, view, missed>>

\* findOneAndUpdate by _id only: no __v in the filter and no $inc.
CreditReceiver(c) ==
    /\ pc[c] = "credit"
    /\ IF WriteConflict(c, Receiver[pay[c]])
       THEN Goto(c, "conflict") /\ UNCHANGED balance
       ELSE /\ Answer(c, "save")
            /\ balance' = IF SupportsTransactions THEN balance
                          ELSE [balance EXCEPT ![Receiver[pay[c]]] =
                                   view[c].receiver + Amount[pay[c]]]
    /\ UNCHANGED <<transactions, version, pay, view, missed>>

\* The insert of the Transaction document: in its session, or for good.
Insert(c, status, uncommitted, done) ==
    /\ IF DuplicateKey(c)
       THEN Goto(c, "duplicateKey") /\ UNCHANGED transactions
       ELSE IF SupportsTransactions
       THEN Answer(c, uncommitted) /\ UNCHANGED transactions
       ELSE Answer(c, done) /\ transactions' = [transactions EXCEPT ![pay[c]] = status]
    /\ UNCHANGED <<balance, version, pay, view, missed>>

RecordSettled(c) == pc[c] = "save" /\ Insert(c, "SETTLED", "commit", "settled")

RecordRejected(c) ==
    pc[c] = "reject" /\ Insert(c, "REJECTED", "commitRejected", "rejected")

-----------------------------------------------------------------------------
\* commitTransaction after the credit: the debit, the credit and the record
\* take effect together, the credit last.
CommitSettled(c) ==
    /\ pc[c] = "commit"
    /\ Answer(c, "settled")
    /\ balance' = [balance EXCEPT
                      ![Sender[pay[c]]] = view[c].sender - Amount[pay[c]],
                      ![Receiver[pay[c]]] = view[c].receiver + Amount[pay[c]]]
    /\ version' = [version EXCEPT ![Sender[pay[c]]] = view[c].version + 1]
    /\ transactions' = [transactions EXCEPT ![pay[c]] = "SETTLED"]
    /\ missed' = [d \in Calls |-> IF d = c THEN {} ELSE missed[d] \cup Written(c)]
    /\ UNCHANGED <<pay, view>>

CommitRejected(c) ==
    /\ pc[c] = "commitRejected"
    /\ Answer(c, "rejected")
    /\ transactions' = [transactions EXCEPT ![pay[c]] = "REJECTED"]
    /\ UNCHANGED <<balance, version, pay, view, missed>>

\* Any await may reject without having done anything; a session is then aborted.
DatabaseError(c) ==
    /\ "database" \in Faults
    /\ pc[c] \in Active
    /\ Goto(c, "failed")
    /\ UNCHANGED <<balance, transactions, version, pay, view, missed>>

\* The process stops: what was written stays, open sessions are aborted.
Crash ==
    /\ "crash" \in Faults
    /\ \E c \in Calls : pc[c] \in Active
    /\ pc' = [c \in Calls |-> IF pc[c] \in Active THEN "lost" ELSE pc[c]]
    /\ UNCHANGED <<balance, transactions, version, pay, view, missed>>

SettlementStep(c) ==
    \/ ReadSender(c)      \/ ReadReceiver(c)
    \/ DebitSender(c)     \/ CreditReceiver(c)
    \/ RecordSettled(c)   \/ RecordRejected(c)
    \/ CommitSettled(c)   \/ CommitRejected(c)

\* Every call has returned (and is not made again): not a deadlock.
Done ==
    /\ \A c \in Calls : pc[c] \in Returned
    /\ UNCHANGED settlementVars

SettlementNext ==
    \/ \E c \in Calls, p \in Payments : Begin(c, p)
    \/ \E c \in Calls : SettlementStep(c) \/ DatabaseError(c)
    \/ Crash
    \/ Done

SettlementSpec == SettlementInit /\ [][SettlementNext]_settlementVars

\* MongoDB answers, and the event loop resumes the call.
SettlementFairSpec ==
    SettlementSpec /\ \A c \in Calls : WF_settlementVars(SettlementStep(c))

-----------------------------------------------------------------------------
\* Calls whose debit, or credit, has reached the database ahead of their record.
Debited(a) ==
    {c \in Calls : /\ ~SupportsTransactions
                   /\ pc[c] \in {"credit", "save"}
                   /\ Sender[pay[c]] = a}

Credited(a) ==
    {c \in Calls : /\ ~SupportsTransactions
                   /\ pc[c] = "save"
                   /\ Receiver[pay[c]] = a}

SumPaid(S) == SumOver([c \in S |-> Amount[pay[c]]], S)

(* Every balance is what the recorded transactions and the transfers in    *)
(* flight make it: no credit is lost, no paisa created.                    *)
Reconciled ==
    \A a \in Accounts :
        balance[a] = BookBalance(a) - SumPaid(Debited(a)) + SumPaid(Credited(a))

(* Each debit belongs to exactly one settled record or one transfer in     *)
(* flight, counted by __v, which only a debit increments.                  *)
ExactDebits ==
    \A a \in Accounts :
        version[a] = Cardinality({p \in Settled : Sender[p] = a}) + Cardinality(Debited(a))

(* No SETTLED record without its debit, whatever fails and however often a *)
(* packet is handed in (the converse needs a transaction).                 *)
EverySettlementHasItsDebit ==
    \A a \in Accounts :
        version[a] >= Cardinality({p \in Settled : Sender[p] = a}) + Cardinality(Debited(a))

(* However many calls of one payment race and fail, at most one of them is *)
(* told that it decided the payment, and what it is told is on record.     *)
OneVerdict ==
    \A c \in Calls :
        pc[c] \in {"settled", "rejected"} =>
            /\ transactions[pay[c]] = IF pc[c] = "settled" THEN "SETTLED" ELSE "REJECTED"
            /\ \A d \in Calls \ {c} :
                  pay[d] = pay[c] => pc[d] \notin {"settled", "rejected"}

\* No account is ever overdrawn, in either mode, whatever fails.
NoOverdraft == \A a \in Accounts : balance[a] >= 0

\* Nobody has handed in a payment to a.
NeverPaid(a) == \A c \in Calls : pay[c] # NoPayment => Receiver[pay[c]] # a

(* Settlements of one sender that meet are all debited: an account nobody  *)
(* pays has lost at least what is recorded against it and what is on its   *)
(* way.  (A credit that meets a debit may take it back: lost_credit.)      *)
DebitsHold ==
    \A a \in Accounts :
        NeverPaid(a) =>
            balance[a] + SumOf({p \in Settled : Sender[p] = a}) + SumPaid(Debited(a))
                <= InitialBalance[a]

\* Calls that ended in the middle: an error, a crash, the unique index.
CutShort(a) ==
    {c \in Calls : pc[c] \in {"failed", "lost", "duplicateKey"} /\ Sender[pay[c]] = a}

(* The converse of EverySettlementHasItsDebit, as far as it goes without a *)
(* transaction: a debit lacks its record only if its call was cut short,   *)
(* so who is told of a conflict or a rejection has paid nothing, however   *)
(* the calls of one packet race and whatever is retried.                   *)
UnrecordedDebitsFailed ==
    \A a \in Accounts :
        version[a] <= Cardinality({p \in Settled : Sender[p] = a}) + Cardinality(Debited(a))
                        + Cardinality(CutShort(a))

(* A conflict is the price of somebody's progress: calls never all abort   *)
(* each other, so when all have returned, none by an error or a crash, and *)
(* one of them met a conflict, some payment has been settled.              *)
ConflictsLeaveAWinner ==
    (/\ \A c \in Calls : pc[c] \in Returned \ {"failed", "lost"}
     /\ \E c \in Calls : pc[c] = "conflict") => Settled # {}

(* The strengthening behind the theorems of SettlementProofs.              *)
(* An insert held by an open transaction is the only one for its hash.     *)
InsertsAreExclusive ==
    \A c \in Calls :
        pc[c] \in {"commit", "commitRejected"} =>
            /\ SupportsTransactions
            /\ transactions[pay[c]] = "none"
            /\ \A d \in Calls \ {c} :
                  pay[d] = pay[c] => pc[d] \notin {"commit", "commitRejected"}

Decided == {"debit", "reject", "credit", "save", "commit", "commitRejected"}

\* What the checks of ReadReceiver have established, and the view never loses.
DecisionsAreFounded ==
    \A c \in Calls :
        /\ view[c].receiver >= 0
        /\ pc[c] \in {"receiver"} \cup Decided => Sender[pay[c]] \in Accounts
        /\ pc[c] \in Decided => WellFormed(pay[c])
        /\ pc[c] \in Decided \ {"reject", "commitRejected"} =>
              view[c].sender >= Amount[pay[c]]

\* Under a session, what nobody has committed since is still what was read,
\* what a call has written nobody else has, and no two calls write the same.
SnapshotsHold ==
    SupportsTransactions =>
        \A c \in Calls :
            /\ pc[c] \in {"receiver"} \cup Decided =>
                  /\ Sender[pay[c]] \notin missed[c] =>
                        /\ view[c].sender = balance[Sender[pay[c]]]
                        /\ view[c].version = version[Sender[pay[c]]]
                  /\ Receiver[pay[c]] \in Accounts \ missed[c] =>
                        view[c].receiver = balance[Receiver[pay[c]]]
            /\ Written(c) \cap missed[c] = {}
            /\ \A d \in Calls \ {c} : Written(c) \cap Written(d) = {}

\* Transfers that cross (a to b, b to a) never wait for each other.
EveryCallReturns ==
    \A c \in Calls : pc[c] \in Active ~> pc[c] \in Returned

=============================================================================
