---------------------------- MODULE JpaSettlement ----------------------------
(***************************************************************************)
(* The Java service/SettlementService.java: settle() inside @Transactional,*)
(* against H2.  Reads see what is committed.  The Transaction row has an   *)
(* IDENTITY key, so save() inserts it at once; the changed accounts are    *)
(* written when the transaction ends, in the order they were loaded, each  *)
(* by an UPDATE that names the version it read.  A statement that meets a  *)
(* row or a key of an open transaction waits for it, and is refused when   *)
(* it waited too long.  An exception undoes the whole transaction.         *)
(* Amounts and balances are counted in tenths of a paisa here: the amount  *)
(* of an instruction is a BigDecimal of any scale, and only the balance    *)
(* column brings what is computed with it to whole paise.                  *)
(***************************************************************************)
EXTENDS Ledger

CONSTANTS
    Calls,          \* the threads that run settle()
    NoPayment,      \* pay[c] of a thread that has not been given one
    Exceptions      \* TRUE: any statement may throw

VARIABLES
    version,        \* version[a] : the @Version column of account a
    pc,             \* pc[c] : the statement thread c is about to run
    pay,            \* pay[c] : the payment it settles
    view            \* view[c] : the account entities it has loaded

jpaVars == <<balance, transactions, version, pc, pay, view>>

Paisa == 10     \* tenths: below, at and above the half of a paisa differ

Unscaled(x) == x                             \* mutant: a column of any scale
\* NUMERIC(19, 2): the nearest paisa, and the upper one from half way.
Column(x) == ((x + 5) \div Paisa) * Paisa

ASSUME JpaAssumption ==
    /\ IsFiniteSet(Calls)
    /\ \A a \in Accounts : InitialBalance[a] % Paisa = 0
    /\ NoPayment \notin Payments
    /\ Exceptions \in BOOLEAN

Active == {"sender", "receiver", "insert", "insertRejected", "updateSender",
           "updateReceiver", "commit", "commitRejected"}

Returned == {"settled", "rejected", "failed", "stale", "duplicateKey"}

Row == [balance : Int, version : Nat]

\* The saved balances are whole paise, whatever the amounts are.
JpaTypeOK ==
    /\ balance \in [Accounts -> Int]
    /\ \A a \in Accounts : balance[a] % Paisa = 0
    /\ transactions \in [Payments -> Statuses]
    /\ version \in [Accounts -> Nat]
    /\ pc \in [Calls -> {"idle"} \cup Active \cup Returned]
    /\ pay \in [Calls -> Payments \cup {NoPayment}]
    /\ \A c \in Calls : pc[c] # "idle" => pay[c] \in Payments
    /\ view \in [Calls -> [sender : Row, receiver : Row]]

NoRow == [balance |-> 0, version |-> 0]

JpaInit ==
    /\ LedgerInit
    /\ version = [a \in Accounts |-> 0]
    /\ pc = [c \in Calls |-> "idle"]
    /\ pay = [c \in Calls |-> NoPayment]
    /\ view = [c \in Calls |-> [sender |-> NoRow, receiver |-> NoRow]]

-----------------------------------------------------------------------------
Goto(c, label) == pc' = [pc EXCEPT ![c] = label]

\* Sender and receiver are then one entity, which ends up as it was loaded.
ToOneself(p) == Sender[p] = Receiver[p]

SavedRow(a) == [balance |-> balance[a], version |-> version[a]]

\* The account rows an open transaction has updated.
Written(c) ==
    {a \in Accounts :
        /\ \/ pc[c] \in {"updateReceiver", "commit"} /\ a = Sender[pay[c]]
           \/ pc[c] = "commit" /\ a = Receiver[pay[c]]
        /\ ~ToOneself(pay[c])}

RowHeld(c, a) == \E d \in Calls \ {c} : a \in Written(d)

\* The open transactions that have inserted their row.
Inserted == {c \in Calls : pc[c] \in {"updateSender", "updateReceiver",
                                      "commit", "commitRejected"}}

KeyHeld(c) == \E d \in Inserted \ {c} : pay[d] = pay[c]

NoKey(c) == FALSE                            \* mutant: packetHash is not unique
KeyTaken(c) == transactions[pay[c]] # "none"

NeverStale(a, row) == FALSE                  \* mutant: no @Version
AlwaysStale(a, row) == version[a] # row.version + 1  \* mutant: compared after the increment
IsStaleRow(a, row) == version[a] # row.version

-----------------------------------------------------------------------------
Begin(c, p) ==
    /\ pc[c] = "idle"
    /\ Goto(c, "sender")
    /\ pay' = [pay EXCEPT ![c] = p]
    /\ UNCHANGED <<balance, transactions, version, view>>

FindSender(c) ==
    /\ pc[c] = "sender"
    /\ IF Sender[pay[c]] \in Accounts
       THEN /\ Goto(c, "receiver")
            /\ view' = [view EXCEPT ![c].sender = SavedRow(Sender[pay[c]])]
       ELSE Goto(c, "failed") /\ UNCHANGED view
    /\ UNCHANGED <<balance, transactions, version, pay>>

\* mutant: the balance that is checked is the receiver's
FindReceiverChecksIt(c) ==
    /\ pc[c] = "receiver"
    /\ Receiver[pay[c]] \in Accounts /\ Amount[pay[c]] > 0
    /\ view' = [view EXCEPT ![c].receiver = SavedRow(Receiver[pay[c]])]
    /\ Goto(c, IF balance[Receiver[pay[c]]] < Amount[pay[c]] THEN "insertRejected"
               ELSE "insert")
    /\ UNCHANGED <<balance, transactions, version, pay>>

\* An entity that is loaded already is not read again.
FindReceiver(c) ==
    /\ pc[c] = "receiver"
    /\ IF Receiver[pay[c]] \in Accounts /\ Amount[pay[c]] > 0
       THEN /\ view' = [view EXCEPT ![c].receiver =
                           IF ToOneself(pay[c]) THEN view[c].sender
                           ELSE SavedRow(Receiver[pay[c]])]
            /\ Goto(c, IF view[c].sender.balance < Amount[pay[c]] THEN "insertRejected"
                       ELSE "insert")
       ELSE Goto(c, "failed") /\ UNCHANGED view
    /\ UNCHANGED <<balance, transactions, version, pay>>

\* transactions.save(tx); a key of an open transaction is waited for.
SaveTransaction(c) ==
    /\ pc[c] \in {"insert", "insertRejected"}
    /\ ~KeyHeld(c)
    /\ Goto(c, IF KeyTaken(c) THEN "duplicateKey"
               ELSE IF pc[c] = "insertRejected" THEN "commitRejected"
               ELSE IF ToOneself(pay[c]) THEN "commit"
               ELSE "updateSender")
    /\ UNCHANGED <<balance, transactions, version, pay, view>>

\* mutant: a refused update is tried again with the same entity
UpdateAccountRetries(c, a, row, done) ==
    /\ ~RowHeld(c, a)
    /\ IF IsStaleRow(a, row) THEN UNCHANGED pc ELSE Goto(c, done)
    /\ UNCHANGED <<balance, transactions, version, pay, view>>

\* UPDATE accounts ... WHERE vpa = a AND version = row.version
UpdateAccount(c, a, row, done) ==
    /\ ~RowHeld(c, a)
    /\ Goto(c, IF IsStaleRow(a, row) THEN "stale" ELSE done)
    /\ UNCHANGED <<balance, transactions, version, pay, view>>

UpdateSender(c) ==
    /\ pc[c] = "updateSender"
    /\ UpdateAccount(c, Sender[pay[c]], view[c].sender, "updateReceiver")

UpdateReceiver(c) ==
    /\ pc[c] = "updateReceiver"
    /\ UpdateAccount(c, Receiver[pay[c]], view[c].receiver, "commit")

CommitSettled(c) ==
    /\ pc[c] = "commit"
    /\ Goto(c, "settled")
    /\ IF ToOneself(pay[c]) THEN UNCHANGED <<balance, version>>
       ELSE /\ balance' = [balance EXCEPT
                  ![Sender[pay[c]]]   = Column(view[c].sender.balance - Amount[pay[c]]),
                  ![Receiver[pay[c]]] = Column(view[c].receiver.balance + Amount[pay[c]])]
            /\ version' = [version EXCEPT
                  ![Sender[pay[c]]]   = view[c].sender.version + 1,
                  ![Receiver[pay[c]]] = view[c].receiver.version + 1]
    /\ transactions' = [transactions EXCEPT ![pay[c]] = "SETTLED"]
    /\ UNCHANGED <<pay, view>>

CommitRejected(c) ==
    /\ pc[c] = "commitRejected"
    /\ Goto(c, "rejected")
    /\ transactions' = [transactions EXCEPT ![pay[c]] = "REJECTED"]
    /\ UNCHANGED <<balance, version, pay, view>>

Waiting(c) ==
    \/ pc[c] \in {"insert", "insertRejected"} /\ KeyHeld(c)
    \/ pc[c] = "updateSender" /\ RowHeld(c, Sender[pay[c]])
    \/ pc[c] = "updateReceiver" /\ RowHeld(c, Receiver[pay[c]])

\* H2 gives up waiting: after the lock timeout, or because it sees a deadlock.
LockTimeout(c) ==
    /\ Waiting(c)
    /\ Goto(c, "failed")
    /\ UNCHANGED <<balance, transactions, version, pay, view>>

Throw(c) ==
    /\ Exceptions
    /\ pc[c] \in Active
    /\ Goto(c, "failed")
    /\ UNCHANGED <<balance, transactions, version, pay, view>>

JpaStep(c) ==
    \/ FindSender(c)       \/ FindReceiver(c)    \/ SaveTransaction(c)
    \/ UpdateSender(c)     \/ UpdateReceiver(c)
    \/ CommitSettled(c)    \/ CommitRejected(c)  \/ LockTimeout(c)

\* Every thread has returned (and is not used again): not a deadlock.
Done ==
    /\ \A c \in Calls : pc[c] \in Returned
    /\ UNCHANGED jpaVars

JpaNext ==
    \/ \E c \in Calls, p \in Payments : Begin(c, p)
    \/ \E c \in Calls : JpaStep(c) \/ Throw(c)
    \/ Done

JpaSpec == JpaInit /\ [][JpaNext]_jpaVars

-----------------------------------------------------------------------------
\* What rounding the two balances makes of amount x: half a paisa is not
\* taken, but given.
Taken(x) == ((x + 4) \div Paisa) * Paisa
Given(x) == ((x + 5) \div Paisa) * Paisa

RoundedTransfer(p) == Transfer(p, Taken(Amount[p]), Given(Amount[p]))

(* The settlement is the ledger, but for what each column makes of the     *)
(* amount: the optimistic locks make one step of the reads, the insert and *)
(* the updates of settle().                                                *)
RoundedLedgerSpec ==
    LedgerInit /\ [][\E p \in Payments : RoundedTransfer(p) \/ Reject(p)]_ledgerVars

(* The version of an account counts the transfers it took part in, as      *)
(* sender or as receiver: no update is lost and none is made twice         *)
(* (Account.java, line 24).                                                *)
VersionsCountTransfers ==
    \A a \in Accounts :
        version[a] = Cardinality({p \in Settled : ~ToOneself(p) /\ a \in {Sender[p], Receiver[p]}})

(* An update is refused as stale only because another transfer got through:*)
(* optimistic locking never refuses everybody.                             *)
StaleMeansProgress ==
    (\E c \in Calls : pc[c] = "stale") => Settled # {}

(* Transfers that cross each hold the row the other waits for; the wait    *)
(* ends, and every thread returns.                                         *)
EveryThreadReturns ==
    \A c \in Calls : pc[c] \in Active ~> pc[c] \in Returned

=============================================================================
