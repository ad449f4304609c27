--------------------------- MODULE SettlementProofs ---------------------------
(***************************************************************************)
(* What SettlementService guarantees for every set of accounts, payments   *)
(* and concurrent calls.                                                   *)
(***************************************************************************)
EXTENDS SettlementService, SumTheorems, FiniteSetTheorems, TLAPS

LEMMA InitTypeOK == SettlementInit => SettlementTypeOK
  <1> USE LedgerAssumption, SettlementAssumption
  <1> SUFFICES ASSUME SettlementInit PROVE SettlementTypeOK
    OBVIOUS
  <1>1. balance \in [Accounts -> Int] /\ transactions \in [Payments -> Statuses]
    BY DEF SettlementInit, LedgerInit, Statuses
  <1>2. version \in [Accounts -> Nat] /\ missed \in [Calls -> SUBSET Accounts]
    BY DEF SettlementInit
  <1>3. view \in [Calls -> [sender : Int, version : Nat, receiver : Int]]
    BY DEF SettlementInit
  <1> QED
    BY <1>1, <1>2, <1>3 DEF SettlementInit, SettlementTypeOK

LEMMA StepTypeOK == SettlementTypeOK /\ [SettlementNext]_settlementVars => SettlementTypeOK'
  <1> USE LedgerAssumption, SettlementAssumption
  <1> SUFFICES ASSUME SettlementTypeOK, [SettlementNext]_settlementVars
               PROVE  SettlementTypeOK'
    OBVIOUS
  <1>1. ASSUME NEW c \in Calls, NEW p \in Payments, Begin(c, p)
        PROVE  SettlementTypeOK'
    BY <1>1 DEF Begin, Goto, SettlementTypeOK, Active
  <1>2. ASSUME NEW c \in Calls, ReadSender(c)
        PROVE  SettlementTypeOK'
    <2>1. pay[c] \in Payments
      BY <1>2 DEF ReadSender, SettlementTypeOK
    <2>2. BalanceOf(Receiver[pay[c]]) \in Int
      BY <2>1 DEF BalanceOf, SettlementTypeOK
    <2>3. view' \in [Calls -> [sender : Int, version : Nat, receiver : Int]]
      BY <1>2, <2>1, <2>2 DEF ReadSender, SettlementTypeOK
    <2>4. missed' \in [Calls -> SUBSET Accounts]
      BY <1>2 DEF ReadSender, SettlementTypeOK
    <2> QED
      BY <1>2, <2>1, <2>3, <2>4 DEF ReadSender, Goto, SettlementTypeOK, Active, Returned
  <1>3. ASSUME NEW c \in Calls, ReadReceiver(c)
        PROVE  SettlementTypeOK'
    <2>1. pay[c] \in Payments
      BY <1>3 DEF ReadReceiver, SettlementTypeOK
    <2>2. BalanceOf(Receiver[pay[c]]) \in Int
      BY <2>1 DEF BalanceOf, SettlementTypeOK
    <2>3. view' \in [Calls -> [sender : Int, version : Nat, receiver : Int]]
      BY <1>3, <2>2 DEF ReadReceiver, SettlementTypeOK
    <2> QED
      BY <1>3, <2>1, <2>3 DEF ReadReceiver, Goto, SettlementTypeOK, Active, Returned
  <1>4. ASSUME NEW c \in Calls, DebitSender(c)
        PROVE  SettlementTypeOK'
    <2>1. pay[c] \in Payments
      BY <1>4 DEF DebitSender, SettlementTypeOK
    <2>2. Amount[pay[c]] \in Int /\ view[c].sender \in Int
      BY <2>1 DEF SettlementTypeOK
    <2>3. balance' \in [Accounts -> Int] /\ version' \in [Accounts -> Nat]
      BY <1>4, <2>2 DEF DebitSender, SettlementTypeOK
    <2> QED
      BY <1>4, <2>1, <2>3 DEF DebitSender, Goto, Answer, SettlementTypeOK, Active, Returned
  <1>5. ASSUME NEW c \in Calls, CreditReceiver(c)
        PROVE  SettlementTypeOK'
    <2>1. pay[c] \in Payments
      BY <1>5 DEF CreditReceiver, SettlementTypeOK
    <2>2. Amount[pay[c]] \in Int /\ view[c].receiver \in Int
      BY <2>1 DEF SettlementTypeOK
    <2>3. balance' \in [Accounts -> Int]
      BY <1>5, <2>2 DEF CreditReceiver, SettlementTypeOK
    <2> QED
      BY <1>5, <2>1, <2>3 DEF CreditReceiver, Goto, Answer, SettlementTypeOK, Active, Returned
  <1>6. ASSUME NEW c \in Calls, RecordSettled(c)
        PROVE  SettlementTypeOK'
    <2>1. transactions' \in [Payments -> Statuses]
      BY <1>6 DEF RecordSettled, Insert, SettlementTypeOK, Statuses
    <2> QED
      BY <1>6, <2>1
      DEF RecordSettled, Insert, Goto, Answer, SettlementTypeOK, Active, Returned
  <1>7. ASSUME NEW c \in Calls, RecordRejected(c)
        PROVE  SettlementTypeOK'
    <2>1. transactions' \in [Payments -> Statuses]
      BY <1>7 DEF RecordRejected, Insert, SettlementTypeOK, Statuses
    <2> QED
      BY <1>7, <2>1
      DEF RecordRejected, Insert, Goto, Answer, SettlementTypeOK, Active, Returned
  <1>8. ASSUME NEW c \in Calls, CommitSettled(c)
        PROVE  SettlementTypeOK'
    <2>1. pay[c] \in Payments
      BY <1>8 DEF CommitSettled, SettlementTypeOK
    <2>2. /\ Amount[pay[c]] \in Int
          /\ view[c].sender \in Int /\ view[c].receiver \in Int
          /\ view[c].version + 1 \in Nat
      BY <2>1 DEF SettlementTypeOK
    <2>3. balance' \in [Accounts -> Int]
      <3> DEFINE s == view[c].sender - Amount[pay[c]]
                 r == view[c].receiver + Amount[pay[c]]
      <3>1. s \in Int /\ r \in Int
        BY <2>2
      <3>2. balance' = [balance EXCEPT ![Sender[pay[c]]] = s, ![Receiver[pay[c]]] = r]
        BY <1>8 DEF CommitSettled
      <3> QED
        BY <3>1, <3>2 DEF SettlementTypeOK
    <2>6. version' \in [Accounts -> Nat]
      BY <1>8, <2>2 DEF CommitSettled, SettlementTypeOK
    <2>4. transactions' \in [Payments -> Statuses]
      BY <1>8 DEF CommitSettled, SettlementTypeOK, Statuses
    <2>5. missed' \in [Calls -> SUBSET Accounts]
      BY <1>8 DEF CommitSettled, SettlementTypeOK, Written
    <2> QED
      BY <1>8, <2>1, <2>3, <2>4, <2>5, <2>6
      DEF CommitSettled, Goto, Answer, SettlementTypeOK, Active, Returned
  <1>9. ASSUME NEW c \in Calls, CommitRejected(c)
        PROVE  SettlementTypeOK'
    <2>1. transactions' \in [Payments -> Statuses]
      BY <1>9 DEF CommitRejected, SettlementTypeOK, Statuses
    <2> QED
      BY <1>9, <2>1 DEF CommitRejected, Goto, Answer, SettlementTypeOK, Active, Returned
  <1>10. ASSUME NEW c \in Calls, DatabaseError(c)
         PROVE  SettlementTypeOK'
    BY <1>10 DEF DatabaseError, Goto, SettlementTypeOK, Active, Returned
  <1>11. CASE Crash
    BY <1>11 DEF Crash, SettlementTypeOK, Active, Returned
  <1>12. CASE UNCHANGED settlementVars
    BY <1>12 DEF settlementVars, SettlementTypeOK
  <1> QED
    BY <1>1, <1>2, <1>3, <1>4, <1>5, <1>6, <1>7, <1>8, <1>9, <1>10, <1>11, <1>12
    DEF SettlementNext, SettlementStep, Done

(* Every variable keeps its type, in both modes and whatever fails.        *)
THEOREM SettlementTypeCorrect == SettlementSpec => []SettlementTypeOK
  BY InitTypeOK, StepTypeOK, PTL DEF SettlementSpec

-----------------------------------------------------------------------------
\* The verdicts: one insert per hash, whoever makes it.
VerdictInv == InsertsAreExclusive /\ OneVerdict

\* Only these steps touch the transactions or reach a label VerdictInv looks at.
LEMMA StepVerdictInv ==
  SettlementTypeOK /\ VerdictInv /\ [SettlementNext]_settlementVars => VerdictInv'
  <1> USE SettlementAssumption
  <1> SUFFICES ASSUME SettlementTypeOK, VerdictInv, [SettlementNext]_settlementVars
               PROVE  VerdictInv'
    OBVIOUS
  <1> DEFINE Held == {"commit", "commitRejected"}
             Told == {"settled", "rejected"}
             Quiet(c) == /\ UNCHANGED transactions
                         /\ \A d \in Calls : pay'[d] # pay[d] => pc'[d] = "sender"
                         /\ \A d \in Calls : pc'[d] \in Held \cup Told =>
                                             pc'[d] = pc[d] /\ pay'[d] = pay[d]
  <1>q. ASSUME NEW c \in Calls, Quiet(c) PROVE VerdictInv'
    BY <1>q DEF VerdictInv, InsertsAreExclusive, OneVerdict
  <1>1. ASSUME NEW c \in Calls, NEW p \in Payments, Begin(c, p)
        PROVE  VerdictInv'
    <2>1. Quiet(c)
      BY <1>1 DEF Begin, Goto, SettlementTypeOK
    <2> QED
      BY <2>1, <1>q
  <1>2. ASSUME NEW c \in Calls,
               ReadSender(c) \/ ReadReceiver(c) \/ DebitSender(c) \/ CreditReceiver(c)
        PROVE  VerdictInv'
    <2>1. Quiet(c)
      BY <1>2 DEF ReadSender, ReadReceiver, DebitSender, CreditReceiver,
                  Goto, Answer, SettlementTypeOK
    <2> QED
      BY <2>1, <1>q
  <1>3. ASSUME NEW c \in Calls, NEW status \in {"SETTLED", "REJECTED"},
               \/ status = "SETTLED" /\ RecordSettled(c)
               \/ status = "REJECTED" /\ RecordRejected(c)
        PROVE  VerdictInv'
    <2>0. pay[c] \in Payments /\ pc[c] \in {"save", "reject"}
      BY <1>3 DEF RecordSettled, RecordRejected, SettlementTypeOK
    <2>1. CASE DuplicateKey(c)
      <3>1. Quiet(c)
        BY <1>3, <2>1 DEF RecordSettled, RecordRejected, Insert, Goto, SettlementTypeOK
      <3> QED
        BY <3>1, <1>q
    <2>2. CASE ~DuplicateKey(c) /\ SupportsTransactions
      <3>1. /\ UNCHANGED <<transactions, pay>>
            /\ pc' \in {[pc EXCEPT ![c] = "commit"], [pc EXCEPT ![c] = "commitRejected"],
                        [pc EXCEPT ![c] = "failed"]}
        BY <1>3, <2>2 DEF RecordSettled, RecordRejected, Insert, Goto, Answer
      <3>2. /\ transactions[pay[c]] = "none"
            /\ \A d \in Calls \ {c} : pay[d] = pay[c] => pc[d] \notin Held
        BY <2>2 DEF DuplicateKey
      <3>3. InsertsAreExclusive'
        BY <2>2, <3>1, <3>2 DEF VerdictInv, InsertsAreExclusive, SettlementTypeOK
      <3>4. OneVerdict'
        BY <2>0, <3>1, <3>2 DEF VerdictInv, OneVerdict, SettlementTypeOK
      <3> QED
        BY <3>3, <3>4 DEF VerdictInv
    <2>3. CASE ~DuplicateKey(c) /\ ~SupportsTransactions
      <3>1. /\ transactions' = [transactions EXCEPT ![pay[c]] = status]
            /\ UNCHANGED pay
            /\ \/ pc' = [pc EXCEPT ![c] = "failed"]
               \/ status = "SETTLED" /\ pc' = [pc EXCEPT ![c] = "settled"]
               \/ status = "REJECTED" /\ pc' = [pc EXCEPT ![c] = "rejected"]
        BY <1>3, <2>3 DEF RecordSettled, RecordRejected, Insert, Goto, Answer
      <3>2. /\ transactions[pay[c]] = "none"
            /\ \A d \in Calls : pay[d] = pay[c] => pc[d] \notin Told
        BY <2>0, <2>3 DEF DuplicateKey, VerdictInv, OneVerdict
      <3>3. InsertsAreExclusive'
        BY <2>0, <2>3, <3>1 DEF VerdictInv, InsertsAreExclusive, SettlementTypeOK
      <3>4. OneVerdict'
        BY <2>0, <3>1, <3>2 DEF VerdictInv, OneVerdict, SettlementTypeOK
      <3> QED
        BY <3>3, <3>4 DEF VerdictInv
    <2> QED
      BY <2>1, <2>2, <2>3
  <1>4. ASSUME NEW c \in Calls, NEW status \in {"SETTLED", "REJECTED"},
               \/ status = "SETTLED" /\ CommitSettled(c)
               \/ status = "REJECTED" /\ CommitRejected(c)
        PROVE  VerdictInv'
    <2>0. pay[c] \in Payments /\ pc[c] \in Held
      BY <1>4 DEF CommitSettled, CommitRejected, SettlementTypeOK
    <2>1. /\ transactions' = [transactions EXCEPT ![pay[c]] = status]
          /\ UNCHANGED pay
          /\ \/ pc' = [pc EXCEPT ![c] = "failed"]
             \/ status = "SETTLED" /\ pc' = [pc EXCEPT ![c] = "settled"]
             \/ status = "REJECTED" /\ pc' = [pc EXCEPT ![c] = "rejected"]
      BY <1>4 DEF CommitSettled, CommitRejected, Goto, Answer
    <2>2. /\ transactions[pay[c]] = "none"
          /\ \A d \in Calls \ {c} : pay[d] = pay[c] => pc[d] \notin Held
          /\ \A d \in Calls : pay[d] = pay[c] => pc[d] \notin Told
      BY <2>0 DEF VerdictInv, InsertsAreExclusive, OneVerdict
    <2>3. InsertsAreExclusive'
      BY <2>0, <2>1, <2>2 DEF VerdictInv, InsertsAreExclusive, SettlementTypeOK
    <2>4. OneVerdict'
      BY <2>0, <2>1, <2>2 DEF VerdictInv, OneVerdict, SettlementTypeOK
    <2> QED
      BY <2>3, <2>4 DEF VerdictInv
  <1>5. ASSUME NEW c \in Calls, DatabaseError(c)
        PROVE  VerdictInv'
    <2>1. Quiet(c)
      BY <1>5 DEF DatabaseError, Goto, SettlementTypeOK
    <2> QED
      BY <2>1, <1>q
  <1>6. CASE Crash
    BY <1>6 DEF Crash, VerdictInv, InsertsAreExclusive, OneVerdict
  <1>7. CASE UNCHANGED settlementVars
    BY <1>7 DEF settlementVars, VerdictInv, InsertsAreExclusive, OneVerdict
  <1> QED
    BY <1>1, <1>2, <1>3, <1>4, <1>5, <1>6, <1>7 DEF SettlementNext, SettlementStep, Done

LEMMA VerdictInvariant == SettlementSpec => []VerdictInv
  <1>1. SettlementInit => VerdictInv
    BY DEF SettlementInit, VerdictInv, InsertsAreExclusive, OneVerdict
  <1> QED
    BY <1>1, StepVerdictInv, SettlementTypeCorrect, PTL DEF SettlementSpec

(* However many calls race to decide one payment, and whatever fails, at   *)
(* most one is told that it did, and what it is told is on record.         *)
THEOREM OneVerdictPerPayment == SettlementSpec => []OneVerdict
  <1>1. VerdictInv => OneVerdict
    BY DEF VerdictInv
  <1> QED
    BY <1>1, VerdictInvariant, PTL

-----------------------------------------------------------------------------
\* The money: every amount written comes from a checked view.
MoneyInv == NoOverdraft /\ DecisionsAreFounded

LEMMA StepMoneyInv ==
  SettlementTypeOK /\ MoneyInv /\ [SettlementNext]_settlementVars => MoneyInv'
  <1> USE LedgerAssumption, SettlementAssumption
  <1> SUFFICES ASSUME SettlementTypeOK, MoneyInv, [SettlementNext]_settlementVars
               PROVE  MoneyInv'
    OBVIOUS
  <1> DEFINE Founded(c) ==
        /\ view[c].receiver >= 0
        /\ pc[c] \in {"receiver"} \cup Decided => Sender[pay[c]] \in Accounts
        /\ pc[c] \in Decided => WellFormed(pay[c])
        /\ pc[c] \in Decided \ {"reject", "commitRejected"} =>
              view[c].sender >= Amount[pay[c]]
  <1>f. /\ \A c \in Calls : Founded(c)
        /\ (\A c \in Calls : Founded(c)') => DecisionsAreFounded'
    BY DEF MoneyInv, DecisionsAreFounded
  <1>n. \A a \in Accounts : balance[a] \in Int /\ balance[a] >= 0
    BY DEF MoneyInv, NoOverdraft, SettlementTypeOK
  <1>o. ASSUME NEW c \in Calls,
               \A d \in Calls \ {c} : pc'[d] = pc[d] /\ pay'[d] = pay[d] /\ view'[d] = view[d],
               Founded(c)'
        PROVE  DecisionsAreFounded'
    BY <1>f, <1>o DEF WellFormed
  <1>1. ASSUME NEW c \in Calls, NEW p \in Payments, Begin(c, p)
        PROVE  MoneyInv'
    <2>1. Founded(c)'
      BY <1>1, <1>f DEF Begin, Goto, SettlementTypeOK, Decided
    <2>2. DecisionsAreFounded'
      BY <1>1, <2>1, <1>o DEF Begin, Goto, SettlementTypeOK
    <2> QED
      BY <1>1, <2>2 DEF Begin, MoneyInv, NoOverdraft
  <1>2. ASSUME NEW c \in Calls, ReadSender(c)
        PROVE  MoneyInv'
    <2>1. pay[c] \in Payments
      BY <1>2 DEF ReadSender, SettlementTypeOK
    <2>2. BalanceOf(Receiver[pay[c]]) >= 0
      BY <1>n DEF BalanceOf
    <2>5. Founded(c)'
      <3>1. CASE Sender[pay[c]] \in Accounts
        <4>1. /\ pc'[c] = "receiver" /\ pay' = pay
              /\ view'[c].receiver = BalanceOf(Receiver[pay[c]])
          BY <1>2, <3>1 DEF ReadSender, Goto, SettlementTypeOK
        <4> QED
          BY <2>2, <3>1, <4>1 DEF Decided
      <3>2. CASE Sender[pay[c]] \notin Accounts
        BY <1>2, <3>2, <1>f DEF ReadSender, Goto, SettlementTypeOK, Decided
      <3> QED
        BY <3>1, <3>2
    <2>6. DecisionsAreFounded'
      BY <1>2, <2>5, <1>o DEF ReadSender, Goto, SettlementTypeOK
    <2> QED
      BY <1>2, <2>6 DEF ReadSender, MoneyInv, NoOverdraft
  <1>3. ASSUME NEW c \in Calls, ReadReceiver(c)
        PROVE  MoneyInv'
    <2>1. pay[c] \in Payments /\ Sender[pay[c]] \in Accounts
      BY <1>3, <1>f DEF ReadReceiver, SettlementTypeOK
    <2>2. BalanceOf(Receiver[pay[c]]) >= 0
      BY <1>n DEF BalanceOf
    <2>3. view'[c].receiver >= 0 /\ view'[c].sender = view[c].sender
      BY <1>3, <1>f, <2>2 DEF ReadReceiver, SettlementTypeOK
    <2>4. Amount[pay[c]] \in Nat /\ view[c].sender \in Int
      BY <2>1 DEF SettlementTypeOK
    <2>5. /\ pay' = pay
          /\ pc'[c] \in {"failed", "reject", "debit"}
          /\ pc'[c] # "failed" => Receiver[pay[c]] \in Accounts /\ Amount[pay[c]] > 0
          /\ pc'[c] = "debit" => view[c].sender >= Amount[pay[c]]
      BY <1>3, <2>4 DEF ReadReceiver, Goto, InsufficientFunds, SettlementTypeOK
    <2>6. Founded(c)'
      BY <2>1, <2>3, <2>5 DEF WellFormed, Decided
    <2>7. DecisionsAreFounded'
      BY <1>3, <2>6, <1>o DEF ReadReceiver, Goto, SettlementTypeOK
    <2> QED
      BY <1>3, <2>7 DEF ReadReceiver, MoneyInv, NoOverdraft
  <1>4. ASSUME NEW c \in Calls, DebitSender(c)
        PROVE  MoneyInv'
    <2>1. pay[c] \in Payments /\ WellFormed(pay[c]) /\ view[c].sender >= Amount[pay[c]]
      BY <1>4, <1>f DEF DebitSender, SettlementTypeOK, Decided
    <2>2. Amount[pay[c]] \in Nat /\ view[c].sender \in Int
      BY <2>1 DEF SettlementTypeOK
    <2>3. NoOverdraft'
      BY <1>4, <1>n, <2>1, <2>2 DEF DebitSender, SettlementTypeOK, NoOverdraft
    <2>4. Founded(c)'
      BY <1>4, <1>f, <2>1 DEF DebitSender, Goto, Answer, SettlementTypeOK, Decided, WellFormed
    <2>5. DecisionsAreFounded'
      BY <1>4, <2>4, <1>o DEF DebitSender, Goto, Answer, SettlementTypeOK
    <2> QED
      BY <2>3, <2>5 DEF MoneyInv
  <1>5. ASSUME NEW c \in Calls, CreditReceiver(c)
        PROVE  MoneyInv'
    <2>1. pay[c] \in Payments /\ WellFormed(pay[c]) /\ view[c].sender >= Amount[pay[c]]
      BY <1>5, <1>f DEF CreditReceiver, SettlementTypeOK, Decided
    <2>2. Amount[pay[c]] \in Nat /\ view[c].receiver \in Int /\ view[c].receiver >= 0
      BY <2>1, <1>f DEF SettlementTypeOK
    <2>3. NoOverdraft'
      BY <1>5, <1>n, <2>1, <2>2 DEF CreditReceiver, SettlementTypeOK, NoOverdraft
    <2>4. Founded(c)'
      BY <1>5, <1>f, <2>1 DEF CreditReceiver, Goto, Answer, SettlementTypeOK, Decided, WellFormed
    <2>5. DecisionsAreFounded'
      BY <1>5, <2>4, <1>o DEF CreditReceiver, Goto, Answer, SettlementTypeOK
    <2> QED
      BY <2>3, <2>5 DEF MoneyInv
  <1>6. ASSUME NEW c \in Calls, RecordSettled(c) \/ RecordRejected(c)
        PROVE  MoneyInv'
    <2>1. Founded(c)'
      BY <1>6, <1>f DEF RecordSettled, RecordRejected, Insert, Goto, Answer,
                        SettlementTypeOK, Decided, WellFormed
    <2>2. DecisionsAreFounded'
      BY <1>6, <2>1, <1>o DEF RecordSettled, RecordRejected, Insert, Goto, Answer,
                              SettlementTypeOK
    <2> QED
      BY <1>6, <2>2 DEF RecordSettled, RecordRejected, Insert, MoneyInv, NoOverdraft
  <1>7. ASSUME NEW c \in Calls, CommitSettled(c)
        PROVE  MoneyInv'
    <2>1. pay[c] \in Payments /\ WellFormed(pay[c]) /\ view[c].sender >= Amount[pay[c]]
      BY <1>7, <1>f DEF CommitSettled, SettlementTypeOK, Decided
    <2>2. /\ Amount[pay[c]] \in Nat /\ view[c].sender \in Int
          /\ view[c].receiver \in Int /\ view[c].receiver >= 0
      BY <2>1, <1>f DEF SettlementTypeOK
    <2>3. /\ view[c].sender - Amount[pay[c]] >= 0
          /\ view[c].receiver + Amount[pay[c]] >= 0
      BY <2>1, <2>2
    <2>4. \A a \in Accounts : balance'[a] \in
            {balance[a], view[c].sender - Amount[pay[c]], view[c].receiver + Amount[pay[c]]}
      BY <1>7 DEF CommitSettled, SettlementTypeOK
    <2>5. NoOverdraft'
      BY <1>n, <2>3, <2>4 DEF NoOverdraft
    <2>6. Founded(c)'
      BY <1>7, <1>f DEF CommitSettled, Goto, Answer, SettlementTypeOK, Decided
    <2>7. DecisionsAreFounded'
      BY <1>7, <2>6, <1>o DEF CommitSettled, Goto, Answer, SettlementTypeOK
    <2> QED
      BY <2>5, <2>7 DEF MoneyInv
  <1>8. ASSUME NEW c \in Calls, CommitRejected(c) \/ DatabaseError(c)
        PROVE  MoneyInv'
    <2>1. Founded(c)'
      BY <1>8, <1>f DEF CommitRejected, DatabaseError, Goto, Answer, SettlementTypeOK, Decided
    <2>2. DecisionsAreFounded'
      BY <1>8, <2>1, <1>o DEF CommitRejected, DatabaseError, Goto, Answer, SettlementTypeOK
    <2> QED
      BY <1>8, <2>2 DEF CommitRejected, DatabaseError, MoneyInv, NoOverdraft
  <1>9. CASE Crash
    BY <1>9 DEF Crash, MoneyInv, NoOverdraft, DecisionsAreFounded, Decided, Active, WellFormed
  <1>10. CASE UNCHANGED settlementVars
    BY <1>10 DEF settlementVars, MoneyInv, NoOverdraft, DecisionsAreFounded, WellFormed
  <1> QED
    BY <1>1, <1>2, <1>3, <1>4, <1>5, <1>6, <1>7, <1>8, <1>9, <1>10
    DEF SettlementNext, SettlementStep, Done

LEMMA MoneyInvariant == SettlementSpec => []MoneyInv
  <1>1. SettlementInit => MoneyInv
    BY LedgerAssumption
    DEF SettlementInit, LedgerInit, MoneyInv, NoOverdraft, DecisionsAreFounded, Decided
  <1> QED
    BY <1>1, StepMoneyInv, SettlementTypeCorrect, PTL DEF SettlementSpec

(* No account is ever overdrawn, with or without transactions.             *)
THEOREM NeverOverdrawn == SettlementSpec => []NoOverdraft
  <1>1. MoneyInv => NoOverdraft
    BY DEF MoneyInv
  <1> QED
    BY <1>1, MoneyInvariant, PTL

-----------------------------------------------------------------------------
\* Sessions: a call whose commit is open still sees the database it read.
Seen(c) ==
    /\ pc[c] \in {"receiver"} \cup Decided =>
          /\ Sender[pay[c]] \notin missed[c] =>
                /\ view[c].sender = balance[Sender[pay[c]]]
                /\ view[c].version = version[Sender[pay[c]]]
          /\ Receiver[pay[c]] \in Accounts \ missed[c] =>
                view[c].receiver = balance[Receiver[pay[c]]]
    /\ Written(c) \cap missed[c] = {}

Apart == \A c \in Calls : \A d \in Calls \ {c} : Written(c) \cap Written(d) = {}

LEMMA SnapshotsSplit ==
  ASSUME SupportsTransactions
  PROVE  /\ SnapshotsHold <=> (\A c \in Calls : Seen(c)) /\ Apart
         /\ SnapshotsHold' <=> (\A c \in Calls : Seen(c)') /\ Apart'
  BY DEF SnapshotsHold, Seen, Apart

\* A step of c that commits nothing leaves every other call as it was.
LEMMA OthersUntouched ==
  ASSUME SettlementTypeOK, SupportsTransactions, SnapshotsHold, NEW c \in Calls,
         UNCHANGED <<balance, version>>,
         \A d \in Calls \ {c} : /\ pc'[d] = pc[d] /\ pay'[d] = pay[d]
                               /\ view'[d] = view[d] /\ missed'[d] = missed[d],
         Seen(c)',
         \A a \in Written(c)' : a \in Written(c) \/ \A d \in Calls \ {c} : a \notin Written(d)
  PROVE  SnapshotsHold'
  <1>1. \A d \in Calls \ {c} : Written(d)' = Written(d)
    BY DEF Written
  <1>2. \A d \in Calls : Seen(d)'
    BY <1>1, SnapshotsSplit DEF Seen
  <1>3. Apart'
    BY <1>1, SnapshotsSplit DEF Apart
  <1> QED
    BY <1>2, <1>3, SnapshotsSplit

LEMMA StepSnapshotsHold ==
  ASSUME SupportsTransactions
  PROVE  SettlementTypeOK /\ MoneyInv /\ SnapshotsHold /\ [SettlementNext]_settlementVars
           => SnapshotsHold'
  <1> USE LedgerAssumption, SettlementAssumption
  <1> SUFFICES ASSUME SettlementTypeOK, MoneyInv, SnapshotsHold,
                      [SettlementNext]_settlementVars
               PROVE  SnapshotsHold'
    OBVIOUS
  <1>s. \A c \in Calls : Seen(c)
    BY SnapshotsSplit
  <1>1. ASSUME NEW c \in Calls, NEW p \in Payments, Begin(c, p)
        PROVE  SnapshotsHold'
    <2>1. pc'[c] = "sender" /\ Written(c)' = {}
      BY <1>1 DEF Begin, Goto, Written, SettlementTypeOK
    <2>2. Seen(c)'
      BY <2>1 DEF Seen, Decided
    <2> QED
      BY <1>1, <2>1, <2>2, OthersUntouched DEF Begin, Goto, SettlementTypeOK
  <1>2. ASSUME NEW c \in Calls, ReadSender(c)
        PROVE  SnapshotsHold'
    <2>1. pc'[c] \in {"receiver", "failed"} /\ Written(c)' = {}
      BY <1>2 DEF ReadSender, Goto, Written, SettlementTypeOK
    <2>2. Seen(c)'
      <3>1. CASE Sender[pay[c]] \in Accounts
        <4>1. /\ pay' = pay /\ UNCHANGED <<balance, version>>
              /\ view'[c] = [sender   |-> balance[Sender[pay[c]]],
                             version  |-> version[Sender[pay[c]]],
                             receiver |-> BalanceOf(Receiver[pay[c]])]
          BY <1>2, <3>1 DEF ReadSender, SettlementTypeOK
        <4> QED
          BY <2>1, <4>1 DEF Seen, BalanceOf
      <3>2. CASE Sender[pay[c]] \notin Accounts
        <4>1. pc'[c] = "failed"
          BY <1>2, <3>2 DEF ReadSender, Goto, SettlementTypeOK
        <4> QED
          BY <2>1, <4>1 DEF Seen, Decided
      <3> QED
        BY <3>1, <3>2
    <2> QED
      BY <1>2, <2>1, <2>2, OthersUntouched DEF ReadSender, Goto, SettlementTypeOK
  <1>3. ASSUME NEW c \in Calls, ReadReceiver(c)
        PROVE  SnapshotsHold'
    <2>1. pc'[c] \in {"failed", "reject", "debit"} /\ Written(c)' = {}
      BY <1>3 DEF ReadReceiver, Goto, Written, SettlementTypeOK
    <2>2. /\ pc[c] = "receiver"
          /\ UNCHANGED <<balance, version, view, pay, missed>>
      BY <1>3 DEF ReadReceiver
    <2>3. Seen(c)'
      BY <2>1, <2>2, <1>s DEF Seen, Decided
    <2> QED
      BY <1>3, <2>1, <2>2, <2>3, OthersUntouched DEF ReadReceiver, Goto, SettlementTypeOK
  <1>4. ASSUME NEW c \in Calls, DebitSender(c)
        PROVE  SnapshotsHold'
    <2>1. /\ pc[c] = "debit" /\ pc'[c] \in {"conflict", "failed", "credit"}
          /\ UNCHANGED <<balance, version, view, pay, missed>>
      BY <1>4 DEF DebitSender, Goto, Answer, SettlementTypeOK
    <2>2. pc'[c] = "credit" =>
            /\ Sender[pay[c]] \notin missed[c]
            /\ \A d \in Calls \ {c} : Sender[pay[c]] \notin Written(d)
      BY <1>4 DEF DebitSender, Goto, WriteConflict, SettlementTypeOK
    <2>3. Written(c)' \subseteq {Sender[pay[c]]} /\ (pc'[c] # "credit" => Written(c)' = {})
      BY <2>1 DEF Written
    <2>4. Seen(c)'
      BY <2>1, <2>2, <2>3, <1>s DEF Seen, Decided
    <2> QED
      BY <1>4, <2>1, <2>2, <2>3, <2>4, OthersUntouched
      DEF DebitSender, Goto, Answer, SettlementTypeOK
  <1>5. ASSUME NEW c \in Calls, CreditReceiver(c)
        PROVE  SnapshotsHold'
    <2>1. /\ pc[c] = "credit" /\ pc'[c] \in {"conflict", "failed", "save"}
          /\ UNCHANGED <<balance, version, view, pay, missed>>
      BY <1>5 DEF CreditReceiver, Goto, Answer, SettlementTypeOK
    <2>2. pc'[c] = "save" =>
            /\ Receiver[pay[c]] \notin missed[c]
            /\ \A d \in Calls \ {c} : Receiver[pay[c]] \notin Written(d)
      BY <1>5 DEF CreditReceiver, Goto, WriteConflict, SettlementTypeOK
    <2>3. /\ Written(c)' \subseteq Written(c) \cup {Receiver[pay[c]]}
          /\ pc'[c] # "save" => Written(c)' = {}
      BY <2>1 DEF Written
    <2>4. Seen(c)'
      BY <2>1, <2>2, <2>3, <1>s DEF Seen, Decided
    <2> QED
      BY <1>5, <2>1, <2>2, <2>3, <2>4, OthersUntouched
      DEF CreditReceiver, Goto, Answer, SettlementTypeOK
  <1>6. ASSUME NEW c \in Calls, RecordSettled(c) \/ RecordRejected(c)
        PROVE  SnapshotsHold'
    <2>1. /\ \/ pc[c] = "save" /\ pc'[c] \in {"duplicateKey", "failed", "commit"}
             \/ pc[c] = "reject" /\ pc'[c] \in {"duplicateKey", "failed", "commitRejected"}
          /\ UNCHANGED <<balance, version, view, pay, missed>>
      BY <1>6 DEF RecordSettled, RecordRejected, Insert, Goto, Answer, SettlementTypeOK
    <2>2. Written(c)' \subseteq Written(c)
      BY <2>1 DEF Written
    <2>3. Seen(c)'
      BY <2>1, <2>2, <1>s DEF Seen, Decided
    <2> QED
      BY <1>6, <2>1, <2>2, <2>3, OthersUntouched
      DEF RecordSettled, RecordRejected, Insert, Goto, Answer, SettlementTypeOK
  <1>7. ASSUME NEW c \in Calls, CommitSettled(c)
        PROVE  SnapshotsHold'
    <2>1. /\ pc[c] = "commit" /\ pc'[c] \in {"settled", "failed"}
          /\ \A d \in Calls \ {c} : pc'[d] = pc[d]
          /\ UNCHANGED <<view, pay>>
      BY <1>7 DEF CommitSettled, Goto, Answer, SettlementTypeOK
    <2>2. /\ missed'[c] = {}
          /\ \A d \in Calls \ {c} : missed'[d] = missed[d] \cup Written(c)
      BY <1>7 DEF CommitSettled
    <2>3. Written(c)' = {} /\ \A d \in Calls \ {c} : Written(d)' = Written(d)
      BY <2>1 DEF Written
    <2>4. \A a \in Accounts \ Written(c) : balance'[a] = balance[a] /\ version'[a] = version[a]
      BY <1>7, <2>1 DEF CommitSettled, Written, SettlementTypeOK
    <2>5. Apart'
      BY <2>3, SnapshotsSplit DEF Apart
    <2>6. Seen(c)'
      BY <2>1, <2>3 DEF Seen, Decided
    <2>7. ASSUME NEW d \in Calls \ {c}
          PROVE  Seen(d)'
      <3>1. Written(d)' \cap missed'[d] = {}
        BY <2>2, <2>3, <1>s, SnapshotsSplit DEF Seen, Apart
      <3>2. ASSUME pc[d] \in {"receiver"} \cup Decided, Sender[pay[d]] \notin missed'[d]
            PROVE  /\ view[d].sender = balance'[Sender[pay[d]]]
                   /\ view[d].version = version'[Sender[pay[d]]]
        <4>1. Sender[pay[d]] \in Accounts \ Written(c) /\ Sender[pay[d]] \notin missed[d]
          BY <2>2, <3>2 DEF MoneyInv, DecisionsAreFounded
        <4> QED
          BY <2>4, <3>2, <4>1, <1>s DEF Seen
      <3>3. ASSUME pc[d] \in {"receiver"} \cup Decided,
                   Receiver[pay[d]] \in Accounts \ missed'[d]
            PROVE  view[d].receiver = balance'[Receiver[pay[d]]]
        <4>1. Receiver[pay[d]] \in Accounts \ Written(c) /\ Receiver[pay[d]] \notin missed[d]
          BY <2>2, <3>3
        <4> QED
          BY <2>4, <3>3, <4>1, <1>s DEF Seen
      <3> QED
        BY <2>1, <3>1, <3>2, <3>3 DEF Seen
    <2> QED
      BY <2>5, <2>6, <2>7, SnapshotsSplit
  <1>8. ASSUME NEW c \in Calls, CommitRejected(c) \/ DatabaseError(c)
        PROVE  SnapshotsHold'
    <2>1. /\ pc'[c] \in {"rejected", "failed"}
          /\ UNCHANGED <<balance, version, view, pay, missed>>
      BY <1>8 DEF CommitRejected, DatabaseError, Goto, Answer, SettlementTypeOK
    <2>2. Written(c)' = {} /\ Seen(c)'
      BY <2>1 DEF Written, Seen, Decided
    <2> QED
      BY <1>8, <2>1, <2>2, OthersUntouched
      DEF CommitRejected, DatabaseError, Goto, Answer, SettlementTypeOK
  <1>9. CASE Crash
    <2>1. \A c \in Calls : pc'[c] \notin Active
      BY <1>9 DEF Crash, Active
    <2>2. \A c \in Calls : Written(c)' = {} /\ Seen(c)'
      BY <2>1 DEF Written, Seen, Decided, Active
    <2> QED
      BY <2>2, SnapshotsSplit DEF Apart
  <1>10. CASE UNCHANGED settlementVars
    BY <1>10 DEF settlementVars, SnapshotsHold, Written
  <1> QED
    BY <1>1, <1>2, <1>3, <1>4, <1>5, <1>6, <1>7, <1>8, <1>9, <1>10
    DEF SettlementNext, SettlementStep, Done

SessionInv == SettlementTypeOK /\ VerdictInv /\ MoneyInv /\ SnapshotsHold

LEMMA SessionInvariant ==
  ASSUME SupportsTransactions
  PROVE  SettlementSpec => []SessionInv
  <1>1. SettlementInit => SnapshotsHold
    BY DEF SettlementInit, SnapshotsHold, Written, Decided
  <1>2. SettlementTypeOK /\ MoneyInv /\ SnapshotsHold /\ [SettlementNext]_settlementVars
          => SnapshotsHold'
    BY StepSnapshotsHold
  <1> QED
    BY <1>1, <1>2, SettlementTypeCorrect, VerdictInvariant, MoneyInvariant, PTL
    DEF SettlementSpec, SessionInv

\* What a commit makes of the balances and versions, told without the view.
LEMMA CommitTakesEffect ==
  ASSUME SupportsTransactions, SessionInv, NEW c \in Calls, CommitSettled(c)
  PROVE  /\ WellFormed(pay[c])
         /\ transactions[pay[c]] = "none"
         /\ balance[Sender[pay[c]]] >= Amount[pay[c]]
         /\ balance' = [balance EXCEPT
                           ![Sender[pay[c]]] = balance[Sender[pay[c]]] - Amount[pay[c]],
                           ![Receiver[pay[c]]] = balance[Receiver[pay[c]]] + Amount[pay[c]]]
         /\ version' = [version EXCEPT ![Sender[pay[c]]] = version[Sender[pay[c]]] + 1]
  <1>1. pc[c] = "commit" /\ pay[c] \in Payments
    BY DEF CommitSettled, SessionInv, SettlementTypeOK
  <1>2. WellFormed(pay[c]) /\ view[c].sender >= Amount[pay[c]]
    BY <1>1 DEF SessionInv, MoneyInv, DecisionsAreFounded, Decided
  <1>3. transactions[pay[c]] = "none"
    BY <1>1 DEF SessionInv, VerdictInv, InsertsAreExclusive
  <1>4. {Sender[pay[c]], Receiver[pay[c]]} \subseteq Written(c)
    BY <1>1, <1>2 DEF Written, WellFormed
  <1>5. Seen(c)
    BY SnapshotsSplit DEF SessionInv
  <1>6. /\ view[c].sender = balance[Sender[pay[c]]]
        /\ view[c].version = version[Sender[pay[c]]]
        /\ view[c].receiver = balance[Receiver[pay[c]]]
    BY <1>1, <1>2, <1>4, <1>5 DEF Seen, Decided, WellFormed
  <1> QED
    BY <1>2, <1>3, <1>6 DEF CommitSettled

LEMMA CommitMovesTheAmount ==
  ASSUME SupportsTransactions, SessionInv, NEW c \in Calls, CommitSettled(c),
         Sender[pay[c]] # Receiver[pay[c]]
  PROVE  balance' = [a \in Accounts |->
                        balance[a] - (IF a = Sender[pay[c]] THEN Amount[pay[c]] ELSE 0)
                                   + (IF a = Receiver[pay[c]] THEN Amount[pay[c]] ELSE 0)]
  <1>1. pay[c] \in Payments
    BY DEF CommitSettled, SessionInv, SettlementTypeOK
  <1>2. /\ Sender[pay[c]] \in Accounts /\ Receiver[pay[c]] \in Accounts
        /\ balance \in [Accounts -> Int] /\ Amount[pay[c]] \in Int
    BY <1>1, CommitTakesEffect, LedgerAssumption DEF SessionInv, SettlementTypeOK, WellFormed
  <1> QED
    BY <1>2, CommitTakesEffect, TransferByAssignments

(* Inside MongoDB transactions the service implements Ledger, as long as   *)
(* nobody pays himself: every payment is settled or rejected in one step,  *)
(* for the whole amount, and once.                                         *)
THEOREM SessionsImplementLedger ==
  ASSUME SupportsTransactions, \A p \in Payments : Sender[p] # Receiver[p]
  PROVE  SettlementSpec => LedgerSpec
  <1>1. SettlementInit => LedgerInit
    BY DEF SettlementInit
  <1>2. ASSUME SessionInv, [SettlementNext]_settlementVars
        PROVE  [LedgerNext]_ledgerVars
    <2>1. ASSUME NEW c \in Calls, CommitSettled(c)
          PROVE  LedgerNext
      <3>1. pay[c] \in Payments
        BY <1>2, <2>1 DEF CommitSettled, SessionInv, SettlementTypeOK
      <3>2. Settle(pay[c])
        BY <1>2, <2>1, <3>1, CommitTakesEffect, CommitMovesTheAmount
        DEF Settle, Transfer, CommitSettled
      <3> QED
        BY <3>1, <3>2 DEF LedgerNext
    <2>2. ASSUME NEW c \in Calls, CommitRejected(c)
          PROVE  LedgerNext
      <3>1. pay[c] \in Payments /\ pc[c] = "commitRejected"
        BY <1>2, <2>2 DEF CommitRejected, SessionInv, SettlementTypeOK
      <3>2. WellFormed(pay[c]) /\ transactions[pay[c]] = "none"
        BY <1>2, <3>1
        DEF SessionInv, MoneyInv, DecisionsAreFounded, Decided, VerdictInv, InsertsAreExclusive
      <3>3. Reject(pay[c])
        BY <2>2, <3>2 DEF Reject, CommitRejected
      <3> QED
        BY <3>1, <3>3 DEF LedgerNext
    <2>3. CASE UNCHANGED ledgerVars
      BY <2>3
    <2>4. ASSUME NEW c \in Calls,
                 \/ ReadSender(c)    \/ ReadReceiver(c)
                 \/ DebitSender(c)   \/ CreditReceiver(c)
                 \/ RecordSettled(c) \/ RecordRejected(c)
                 \/ DatabaseError(c)
          PROVE  UNCHANGED ledgerVars
      BY <2>4 DEF ReadSender, ReadReceiver, DebitSender, CreditReceiver, RecordSettled,
                  RecordRejected, Insert, DatabaseError, ledgerVars
    <2> QED
      BY <1>2, <2>1, <2>2, <2>3, <2>4
      DEF SettlementNext, SettlementStep, Begin, Crash, Done, ledgerVars, settlementVars
  <1> QED
    BY <1>1, <1>2, SessionInvariant, PTL DEF SettlementSpec, LedgerSpec

-----------------------------------------------------------------------------
\* Counting debits: the records SETTLED for payments of account a.
SentBy(a) == {p \in Settled : Sender[p] = a}

LEMMA CountsAreFinite ==
  ASSUME NEW a
  PROVE  /\ IsFiniteSet(SentBy(a)) /\ Cardinality(SentBy(a)) \in Nat
         /\ IsFiniteSet(Debited(a)) /\ Cardinality(Debited(a)) \in Nat
  <1>1. SentBy(a) \subseteq Payments /\ Debited(a) \subseteq Calls
    BY DEF SentBy, Settled, Debited
  <1> QED
    BY <1>1, FS_Subset, FS_CardinalityType, LedgerAssumption, SettlementAssumption

\* A record written SETTLED counts once, for its sender.
LEMMA SettledCounts ==
  ASSUME SettlementTypeOK, NEW p \in Payments, transactions[p] = "none",
         transactions' = [transactions EXCEPT ![p] = "SETTLED"], NEW a
  PROVE  Cardinality(SentBy(a)') =
            Cardinality(SentBy(a)) + IF Sender[p] = a THEN 1 ELSE 0
  <1>1. SentBy(a)' = IF Sender[p] = a THEN SentBy(a) \cup {p} ELSE SentBy(a)
    BY DEF SentBy, Settled, SettlementTypeOK
  <1>2. p \notin SentBy(a)
    BY DEF SentBy, Settled
  <1>3. IsFiniteSet(SentBy(a)) /\ Cardinality(SentBy(a)) \in Nat
    BY CountsAreFinite
  <1>4. Cardinality(SentBy(a) \cup {p}) = Cardinality(SentBy(a)) + 1
    BY <1>2, <1>3, FS_AddElement
  <1> QED
    BY <1>1, <1>3, <1>4

\* Any other step leaves the count alone.
LEMMA UnsettledCounts ==
  ASSUME SettlementTypeOK, NEW p \in Payments, transactions[p] = "none",
         transactions' = [transactions EXCEPT ![p] = "REJECTED"], NEW a
  PROVE  SentBy(a)' = SentBy(a)
  BY DEF SentBy, Settled, SettlementTypeOK

(* Inside transactions the version of an account counts, exactly, the      *)
(* payments it made: no debit without its record and no record without its *)
(* debit, whatever fails and however often a packet is handed in.          *)
THEOREM SessionDebitsAreExact ==
  ASSUME SupportsTransactions
  PROVE  SettlementSpec => []ExactDebits
  <1> DEFINE Counted == \A a \in Accounts : version[a] = Cardinality(SentBy(a))
  <1>1. SettlementInit => Counted
    <2> SUFFICES ASSUME SettlementInit, NEW a \in Accounts
                 PROVE  version[a] = Cardinality(SentBy(a))
      OBVIOUS
    <2>1. SentBy(a) = {}
      BY DEF SentBy, Settled, SettlementInit, LedgerInit
    <2> QED
      BY <2>1, FS_EmptySet DEF SettlementInit
  <1>2. SessionInv /\ Counted /\ [SettlementNext]_settlementVars => Counted'
    <2> SUFFICES ASSUME SessionInv, Counted, [SettlementNext]_settlementVars,
                        NEW a \in Accounts
                 PROVE  version'[a] = Cardinality(SentBy(a)')
      OBVIOUS
    <2>1. ASSUME NEW c \in Calls, CommitSettled(c)
          PROVE  version'[a] = Cardinality(SentBy(a)')
      <3>1. pay[c] \in Payments /\ transactions' = [transactions EXCEPT ![pay[c]] = "SETTLED"]
        BY <2>1 DEF CommitSettled, SessionInv, SettlementTypeOK
      <3>2. Cardinality(SentBy(a)') =
              Cardinality(SentBy(a)) + IF Sender[pay[c]] = a THEN 1 ELSE 0
        BY <2>1, <3>1, CommitTakesEffect, SettledCounts DEF SessionInv
      <3>3. version[a] \in Nat
        BY DEF SessionInv, SettlementTypeOK
      <3>4. version'[a] = version[a] + IF Sender[pay[c]] = a THEN 1 ELSE 0
        BY <2>1, <3>3, CommitTakesEffect DEF SessionInv, SettlementTypeOK
      <3> QED
        BY <3>2, <3>4
    <2>2. ASSUME NEW c \in Calls, CommitRejected(c)
          PROVE  version'[a] = Cardinality(SentBy(a)')
      <3>1. /\ pc[c] = "commitRejected" /\ pay[c] \in Payments
            /\ transactions' = [transactions EXCEPT ![pay[c]] = "REJECTED"]
            /\ version' = version
        BY <2>2 DEF CommitRejected, SessionInv, SettlementTypeOK
      <3>2. transactions[pay[c]] = "none"
        BY <3>1 DEF SessionInv, VerdictInv, InsertsAreExclusive
      <3> QED
        BY <3>1, <3>2, UnsettledCounts DEF SessionInv
    <2>3. CASE UNCHANGED <<transactions, version>>
      BY <2>3 DEF SentBy, Settled
    <2> QED
      BY <2>1, <2>2, <2>3
      DEF SettlementNext, SettlementStep, Begin, ReadSender, ReadReceiver, DebitSender,
          CreditReceiver, RecordSettled, RecordRejected, Insert, DatabaseError, Crash, Done,
          settlementVars
  <1>3. SessionInv /\ Counted => ExactDebits
    <2> SUFFICES ASSUME SessionInv, Counted, NEW a \in Accounts
                 PROVE  version[a] = Cardinality({p \in Settled : Sender[p] = a})
                                       + Cardinality(Debited(a))
      BY DEF ExactDebits
    <2>1. Cardinality(Debited(a)) = 0
      BY FS_EmptySet DEF Debited
    <2>2. version[a] = Cardinality(SentBy(a)) /\ Cardinality(SentBy(a)) \in Nat
      BY CountsAreFinite
    <2> QED
      BY <2>1, <2>2 DEF SentBy
  <1> QED
    BY <1>1, <1>2, <1>3, SessionInvariant, PTL DEF SettlementSpec

-----------------------------------------------------------------------------
\* In either mode: a debit is on its way before its record, and never after.
DebitsBehind(a) == Cardinality(SentBy(a)) + Cardinality(Debited(a))

\* One call more or less among the debits under way.
LEMMA DebitedCounts ==
  ASSUME NEW c, NEW a
  PROVE  /\ c \notin Debited(a) /\ Debited(a)' = Debited(a) \cup {c}
               => Cardinality(Debited(a)') = Cardinality(Debited(a)) + 1
         /\ c \in Debited(a) /\ Debited(a)' = Debited(a) \ {c}
               => Cardinality(Debited(a)') = Cardinality(Debited(a)) - 1
  BY CountsAreFinite, FS_AddElement, FS_RemoveElement

LEMMA StepHasItsDebit ==
  ASSUME ~SupportsTransactions
  PROVE  /\ SettlementTypeOK /\ VerdictInv /\ EverySettlementHasItsDebit
         /\ [SettlementNext]_settlementVars
         => EverySettlementHasItsDebit'
  <1> USE LedgerAssumption, SettlementAssumption
  <1> SUFFICES ASSUME SettlementTypeOK, VerdictInv, EverySettlementHasItsDebit,
                      [SettlementNext]_settlementVars, NEW a \in Accounts
               PROVE  version'[a] >= DebitsBehind(a)'
    BY DEF EverySettlementHasItsDebit, DebitsBehind, SentBy
  <1>a. version[a] >= DebitsBehind(a) /\ version[a] \in Nat
    BY DEF EverySettlementHasItsDebit, DebitsBehind, SentBy, SettlementTypeOK
  <1>b. /\ Cardinality(SentBy(a)) \in Nat /\ Cardinality(Debited(a)) \in Nat
    BY CountsAreFinite
  <1>s. UNCHANGED transactions => SentBy(a)' = SentBy(a)
    BY DEF SentBy, Settled
  \* The steps that leave the versions, the records and the debits alone.
  <1>u. ASSUME NEW c \in Calls, UNCHANGED <<version, transactions>>,
               \A d \in Calls \ {c} : pc'[d] = pc[d] /\ pay'[d] = pay[d],
               pay'[c] = pay[c] \/ pc'[c] = "sender",
               pc'[c] \in {"credit", "save"} => pc[c] \in {"credit", "save"}
        PROVE  version'[a] >= DebitsBehind(a)'
    <2>1. CASE c \in Debited(a) /\ c \notin Debited(a)'
      <3>1. Debited(a)' = Debited(a) \ {c}
        BY <1>u, <2>1 DEF Debited
      <3>2. Cardinality(Debited(a)') = Cardinality(Debited(a)) - 1
        BY <2>1, <3>1, DebitedCounts
      <3> QED
        BY <1>a, <1>b, <1>s, <1>u, <3>2 DEF DebitsBehind
    <2>2. CASE ~(c \in Debited(a) /\ c \notin Debited(a)')
      <3>1. Debited(a)' = Debited(a)
        BY <1>u, <2>2 DEF Debited
      <3> QED
        BY <1>a, <1>s, <1>u, <3>1 DEF DebitsBehind
    <2> QED
      BY <2>1, <2>2
  <1>1. ASSUME NEW c \in Calls, NEW p \in Payments, Begin(c, p)
        PROVE  version'[a] >= DebitsBehind(a)'
    BY <1>1, <1>u DEF Begin, Goto, SettlementTypeOK
  <1>2. ASSUME NEW c \in Calls, ReadSender(c) \/ ReadReceiver(c) \/ CreditReceiver(c)
        PROVE  version'[a] >= DebitsBehind(a)'
    BY <1>2, <1>u DEF ReadSender, ReadReceiver, CreditReceiver, Goto, Answer, SettlementTypeOK
  <1>3. ASSUME NEW c \in Calls, DebitSender(c)
        PROVE  version'[a] >= DebitsBehind(a)'
    <2>1. CASE StaleSender(c)
      BY <1>3, <2>1, <1>u DEF DebitSender, Goto, SettlementTypeOK
    <2>2. CASE ~StaleSender(c)
      <3>1. /\ pc[c] = "debit" /\ UNCHANGED <<transactions, pay>>
            /\ pc' = [pc EXCEPT ![c] = "credit"] \/ pc' = [pc EXCEPT ![c] = "failed"]
            /\ version' = [version EXCEPT ![Sender[pay[c]]] = @ + 1]
        BY <1>3, <2>2 DEF DebitSender, WriteConflict, Goto, Answer
      <3>2. c \notin Debited(a)
        BY <3>1 DEF Debited
      <3>3. \/ Debited(a)' = Debited(a)
            \/ Sender[pay[c]] = a /\ Debited(a)' = Debited(a) \cup {c}
        BY <3>1 DEF Debited, SettlementTypeOK
      <3>4. Cardinality(Debited(a)') \in
              {Cardinality(Debited(a)), Cardinality(Debited(a)) + IF Sender[pay[c]] = a THEN 1 ELSE 0}
        BY <3>2, <3>3, DebitedCounts
      <3>5. version'[a] = version[a] + IF Sender[pay[c]] = a THEN 1 ELSE 0
        BY <3>1, <1>a DEF SettlementTypeOK
      <3> QED
        BY <1>a, <1>b, <1>s, <3>1, <3>4, <3>5 DEF DebitsBehind
    <2> QED
      BY <2>1, <2>2
  <1>4. ASSUME NEW c \in Calls, RecordSettled(c)
        PROVE  version'[a] >= DebitsBehind(a)'
    <2>1. CASE DuplicateKey(c)
      BY <1>4, <2>1, <1>u DEF RecordSettled, Insert, Goto, SettlementTypeOK
    <2>2. CASE ~DuplicateKey(c)
      <3>1. /\ pc[c] = "save" /\ pay[c] \in Payments /\ UNCHANGED <<version, pay>>
            /\ pc' = [pc EXCEPT ![c] = "settled"] \/ pc' = [pc EXCEPT ![c] = "failed"]
            /\ transactions' = [transactions EXCEPT ![pay[c]] = "SETTLED"]
            /\ transactions[pay[c]] = "none"
        BY <1>4, <2>2 DEF RecordSettled, Insert, Goto, Answer, DuplicateKey, SettlementTypeOK
      <3>2. Cardinality(SentBy(a)') =
              Cardinality(SentBy(a)) + IF Sender[pay[c]] = a THEN 1 ELSE 0
        BY <3>1, SettledCounts
      <3>3. /\ c \in Debited(a) <=> Sender[pay[c]] = a
            /\ Debited(a)' = Debited(a) \ {c}
        BY <3>1 DEF Debited, SettlementTypeOK
      <3>4. Cardinality(Debited(a)') =
              Cardinality(Debited(a)) - IF Sender[pay[c]] = a THEN 1 ELSE 0
        <4>1. CASE c \in Debited(a)
          BY <1>b, <3>3, <4>1, DebitedCounts
        <4>2. CASE c \notin Debited(a)
          <5>1. Debited(a)' = Debited(a)
            BY <3>3, <4>2
          <5>2. Sender[pay[c]] # a
            BY <3>3, <4>2
          <5>3. Cardinality(Debited(a)) \in Nat
            BY <1>b
          <5> QED
            BY <5>1, <5>2, <5>3
        <4> QED
          BY <4>1, <4>2
      <3> QED
        BY <1>a, <1>b, <3>1, <3>2, <3>4 DEF DebitsBehind
    <2> QED
      BY <2>1, <2>2
  <1>5. ASSUME NEW c \in Calls, RecordRejected(c)
        PROVE  version'[a] >= DebitsBehind(a)'
    <2>1. CASE DuplicateKey(c)
      BY <1>5, <2>1, <1>u DEF RecordRejected, Insert, Goto, SettlementTypeOK
    <2>2. CASE ~DuplicateKey(c)
      <3>1. /\ pc[c] = "reject" /\ pay[c] \in Payments /\ UNCHANGED <<version, pay>>
            /\ pc' = [pc EXCEPT ![c] = "rejected"] \/ pc' = [pc EXCEPT ![c] = "failed"]
            /\ transactions' = [transactions EXCEPT ![pay[c]] = "REJECTED"]
            /\ transactions[pay[c]] = "none"
        BY <1>5, <2>2 DEF RecordRejected, Insert, Goto, Answer, DuplicateKey, SettlementTypeOK
      <3>2. SentBy(a)' = SentBy(a)
        BY <3>1, UnsettledCounts
      <3>3. Debited(a)' = Debited(a)
        BY <3>1 DEF Debited, SettlementTypeOK
      <3> QED
        BY <1>a, <3>1, <3>2, <3>3 DEF DebitsBehind
    <2> QED
      BY <2>1, <2>2
  <1>6. ASSUME NEW c \in Calls, CommitSettled(c) \/ CommitRejected(c)
        PROVE  FALSE
    BY <1>6 DEF CommitSettled, CommitRejected, VerdictInv, InsertsAreExclusive
  <1>7. ASSUME NEW c \in Calls, DatabaseError(c)
        PROVE  version'[a] >= DebitsBehind(a)'
    BY <1>7, <1>u DEF DatabaseError, Goto, SettlementTypeOK
  <1>8. CASE Crash
    <2>1. UNCHANGED <<version, transactions>> /\ Debited(a)' = {}
      BY <1>8 DEF Crash, Debited, Active
    <2>2. Cardinality(Debited(a)') = 0
      BY <2>1, FS_EmptySet
    <2> QED
      BY <1>a, <1>b, <1>s, <2>1, <2>2 DEF DebitsBehind
  <1>9. CASE UNCHANGED settlementVars
    BY <1>9, <1>a, <1>s DEF settlementVars, DebitsBehind, Debited
  <1> QED
    BY <1>1, <1>2, <1>3, <1>4, <1>5, <1>6, <1>7, <1>8, <1>9
    DEF SettlementNext, SettlementStep, Done

(* No SETTLED record without its debit: in either mode, whatever fails     *)
(* between the two and however often a packet is handed in (the debit of   *)
(* settlementService.js comes before the insert).                          *)
THEOREM SettlementsAreDebited == SettlementSpec => []EverySettlementHasItsDebit
  <1>1. CASE SupportsTransactions
    <2>1. ExactDebits /\ SettlementTypeOK => EverySettlementHasItsDebit
      <3> SUFFICES ASSUME ExactDebits, SettlementTypeOK, NEW a \in Accounts
                   PROVE  version[a] >= Cardinality({p \in Settled : Sender[p] = a})
                                           + Cardinality(Debited(a))
        BY DEF EverySettlementHasItsDebit
      <3>1. /\ version[a] = Cardinality({p \in Settled : Sender[p] = a}) + Cardinality(Debited(a))
            /\ version[a] \in Nat
        BY DEF ExactDebits, SettlementTypeOK
      <3> QED
        BY <3>1
    <2> QED
      BY <1>1, <2>1, SessionDebitsAreExact, SettlementTypeCorrect, PTL
  <1>2. CASE ~SupportsTransactions
    <2>1. SettlementInit => EverySettlementHasItsDebit
      <3> SUFFICES ASSUME SettlementInit, NEW a \in Accounts
                   PROVE  version[a] >= Cardinality(SentBy(a)) + Cardinality(Debited(a))
        BY DEF EverySettlementHasItsDebit, SentBy
      <3>1. SentBy(a) = {} /\ Debited(a) = {} /\ version[a] = 0
        BY DEF SentBy, Debited, Settled, SettlementInit, LedgerInit
      <3>2. Cardinality(SentBy(a)) = 0 /\ Cardinality(Debited(a)) = 0
        BY <3>1, FS_EmptySet
      <3> QED
        BY <3>1, <3>2
    <2>2. SettlementTypeOK /\ VerdictInv /\ EverySettlementHasItsDebit
            /\ [SettlementNext]_settlementVars => EverySettlementHasItsDebit'
      BY <1>2, StepHasItsDebit
    <2> QED
      BY <2>1, <2>2, SettlementTypeCorrect, VerdictInvariant, PTL DEF SettlementSpec
  <1> QED
    BY <1>1, <1>2

-----------------------------------------------------------------------------
\* Without transactions: calls whose debit has been made and not recorded by
\* them, as far as one can tell from how they stand.
Paying(a) == Debited(a) \cup CutShort(a)

LEMMA PayingIsFinite ==
  ASSUME NEW a
  PROVE  /\ IsFiniteSet(Paying(a)) /\ Cardinality(Paying(a)) \in Nat
         /\ Cardinality(Paying(a)) = Cardinality(Debited(a)) + Cardinality(CutShort(a))
  <1>1. Debited(a) \subseteq Calls /\ CutShort(a) \subseteq Calls
    BY DEF Debited, CutShort
  <1>2. IsFiniteSet(Debited(a)) /\ IsFiniteSet(CutShort(a)) /\ IsFiniteSet(Paying(a))
    BY <1>1, FS_Subset, SettlementAssumption DEF Paying
  <1>3. Debited(a) \cap CutShort(a) = {}
    BY DEF Debited, CutShort
  <1>4. /\ Cardinality(Debited(a) \cup CutShort(a))
             = Cardinality(Debited(a)) + Cardinality(CutShort(a))
                 - Cardinality(Debited(a) \cap CutShort(a))
        /\ Cardinality(Debited(a) \cap CutShort(a)) = 0
    BY <1>2, <1>3, FS_Union, FS_EmptySet
  <1>5. Cardinality(Debited(a)) \in Nat /\ Cardinality(CutShort(a)) \in Nat
    BY <1>2, FS_CardinalityType
  <1> QED
    BY <1>2, <1>4, <1>5 DEF Paying

LEMMA StepUnrecorded ==
  ASSUME ~SupportsTransactions, NEW a \in Accounts
  PROVE  /\ SettlementTypeOK /\ VerdictInv
         /\ version[a] <= Cardinality(SentBy(a)) + Cardinality(Paying(a))
         /\ [SettlementNext]_settlementVars
         => version'[a] <= Cardinality(SentBy(a)') + Cardinality(Paying(a)')
  <1> USE LedgerAssumption, SettlementAssumption
  <1> SUFFICES ASSUME SettlementTypeOK, VerdictInv, [SettlementNext]_settlementVars,
                      version[a] <= Cardinality(SentBy(a)) + Cardinality(Paying(a))
               PROVE  version'[a] <= Cardinality(SentBy(a)') + Cardinality(Paying(a)')
    OBVIOUS
  <1> DEFINE Goal == version'[a] <= Cardinality(SentBy(a)') + Cardinality(Paying(a)')
  <1>n. /\ version[a] \in Nat
        /\ Cardinality(SentBy(a)) \in Nat /\ Cardinality(SentBy(a)') \in Nat
        /\ Cardinality(Paying(a)) \in Nat /\ Cardinality(Paying(a)') \in Nat
        /\ IsFiniteSet(Paying(a)) /\ IsFiniteSet(Paying(a)')
    <2>1. SentBy(a)' \subseteq Payments /\ Paying(a)' \subseteq Calls
      BY DEF SentBy, Settled, Paying, Debited, CutShort
    <2> QED
      BY <2>1, CountsAreFinite, PayingIsFinite, FS_Subset, FS_CardinalityType
      DEF SettlementTypeOK
  \* A step that neither debits nor records leaves every payer one.
  <1>u. ASSUME UNCHANGED <<version, transactions>>, Paying(a) \subseteq Paying(a)'
        PROVE  Goal
    <2>1. Cardinality(Paying(a)) <= Cardinality(Paying(a)')
      BY <1>u, <1>n, FS_Subset
    <2>2. SentBy(a)' = SentBy(a) /\ version'[a] = version[a]
      BY <1>u DEF SentBy, Settled
    <2> QED
      BY <1>n, <2>1, <2>2
  <1>1. ASSUME NEW c \in Calls, NEW p \in Payments, Begin(c, p)
        PROVE  Goal
    <2>1. Paying(a) \subseteq Paying(a)'
      BY <1>1 DEF Begin, Goto, Paying, Debited, CutShort, SettlementTypeOK
    <2> QED
      BY <1>1, <1>u, <2>1 DEF Begin
  <1>2. ASSUME NEW c \in Calls,
               \/ ReadSender(c) \/ ReadReceiver(c) \/ CreditReceiver(c) \/ DatabaseError(c)
        PROVE  Goal
    <2>1. Paying(a) \subseteq Paying(a)'
      BY <1>2 DEF ReadSender, ReadReceiver, CreditReceiver, WriteConflict, DatabaseError, Goto,
                  Answer, Paying, Debited, CutShort, Active, SettlementTypeOK
    <2> QED
      BY <1>2, <1>u, <2>1 DEF ReadSender, ReadReceiver, CreditReceiver, DatabaseError
  <1>3. ASSUME NEW c \in Calls, DebitSender(c)
        PROVE  Goal
    <2>1. CASE StaleSender(c)
      <3>1. Paying(a) \subseteq Paying(a)'
        BY <1>3, <2>1 DEF DebitSender, Goto, Paying, Debited, CutShort, SettlementTypeOK
      <3> QED
        BY <1>3, <1>u, <2>1, <3>1 DEF DebitSender
    <2>2. CASE ~StaleSender(c)
      <3>1. /\ pc[c] = "debit" /\ UNCHANGED <<transactions, pay>>
            /\ pc' = [pc EXCEPT ![c] = "credit"] \/ pc' = [pc EXCEPT ![c] = "failed"]
            /\ version' = [version EXCEPT ![Sender[pay[c]]] = @ + 1]
        BY <1>3, <2>2 DEF DebitSender, WriteConflict, Goto, Answer
      <3>2. Paying(a)' = IF Sender[pay[c]] = a THEN Paying(a) \cup {c} ELSE Paying(a)
        BY <3>1 DEF Paying, Debited, CutShort, SettlementTypeOK
      <3>3. c \notin Paying(a) /\ SentBy(a)' = SentBy(a)
        BY <3>1 DEF Paying, Debited, CutShort, SentBy, Settled
      <3>4. Cardinality(Paying(a) \cup {c}) = Cardinality(Paying(a)) + 1
        BY <1>n, <3>3, FS_AddElement
      <3>5. version'[a] = version[a] + IF Sender[pay[c]] = a THEN 1 ELSE 0
        BY <3>1, <1>n DEF SettlementTypeOK
      <3> QED
        BY <1>n, <3>2, <3>3, <3>4, <3>5
    <2> QED
      BY <2>1, <2>2
  <1>4. ASSUME NEW c \in Calls, RecordSettled(c)
        PROVE  Goal
    <2>1. CASE DuplicateKey(c)
      <3>1. Paying(a) \subseteq Paying(a)'
        BY <1>4, <2>1
        DEF RecordSettled, Insert, Goto, Paying, Debited, CutShort, SettlementTypeOK
      <3> QED
        BY <1>4, <1>u, <2>1, <3>1 DEF RecordSettled, Insert
    <2>2. CASE ~DuplicateKey(c)
      <3>1. /\ pc[c] = "save" /\ pay[c] \in Payments /\ UNCHANGED <<version, pay>>
            /\ pc' = [pc EXCEPT ![c] = "settled"] \/ pc' = [pc EXCEPT ![c] = "failed"]
            /\ transactions' = [transactions EXCEPT ![pay[c]] = "SETTLED"]
            /\ transactions[pay[c]] = "none"
        BY <1>4, <2>2 DEF RecordSettled, Insert, Goto, Answer, DuplicateKey, SettlementTypeOK
      <3>2. Cardinality(SentBy(a)') =
              Cardinality(SentBy(a)) + IF Sender[pay[c]] = a THEN 1 ELSE 0
        BY <3>1, SettledCounts
      <3>3. Paying(a) \ {c} \subseteq Paying(a)' /\ (c \in Paying(a) <=> Sender[pay[c]] = a)
        BY <3>1 DEF Paying, Debited, CutShort, SettlementTypeOK
      <3>4. Cardinality(Paying(a) \ {c}) <= Cardinality(Paying(a)')
        BY <1>n, <3>3, FS_Subset
      <3>5. Cardinality(Paying(a) \ {c}) =
              Cardinality(Paying(a)) - IF Sender[pay[c]] = a THEN 1 ELSE 0
        <4>1. CASE c \in Paying(a)
          BY <1>n, <3>3, <4>1, FS_RemoveElement
        <4>2. CASE c \notin Paying(a)
          <5>1. Paying(a) \ {c} = Paying(a)
            BY <4>2
          <5>2. Sender[pay[c]] # a /\ Cardinality(Paying(a) \ {c}) = Cardinality(Paying(a))
            BY <3>3, <4>2, <5>1
          <5>3. Cardinality(Paying(a)) \in Nat
            BY <1>n
          <5> QED
            BY <5>2, <5>3
        <4> QED
          BY <4>1, <4>2
      <3> QED
        BY <1>n, <3>1, <3>2, <3>4, <3>5
    <2> QED
      BY <2>1, <2>2
  <1>5. ASSUME NEW c \in Calls, RecordRejected(c)
        PROVE  Goal
    <2>1. /\ pc[c] = "reject" /\ pay[c] \in Payments /\ UNCHANGED <<version, pay>>
          /\ pc' \in {[pc EXCEPT ![c] = "rejected"], [pc EXCEPT ![c] = "failed"],
                      [pc EXCEPT ![c] = "duplicateKey"]}
          /\ SentBy(a)' = SentBy(a)
      <3>1. CASE DuplicateKey(c)
        BY <1>5, <3>1 DEF RecordRejected, Insert, Goto, SentBy, Settled, SettlementTypeOK
      <3>2. CASE ~DuplicateKey(c)
        <4>1. /\ pay[c] \in Payments /\ transactions[pay[c]] = "none"
              /\ transactions' = [transactions EXCEPT ![pay[c]] = "REJECTED"]
          BY <1>5, <3>2 DEF RecordRejected, Insert, DuplicateKey, SettlementTypeOK
        <4> QED
          BY <1>5, <3>2, <4>1, UnsettledCounts DEF RecordRejected, Insert, Goto, Answer
      <3> QED
        BY <3>1, <3>2
    <2>2. Paying(a) \subseteq Paying(a)'
      BY <2>1 DEF Paying, Debited, CutShort, SettlementTypeOK
    <2>3. Cardinality(Paying(a)) <= Cardinality(Paying(a)')
      BY <2>2, <1>n, FS_Subset
    <2> QED
      BY <1>n, <2>1, <2>3
  <1>6. ASSUME NEW c \in Calls, CommitSettled(c) \/ CommitRejected(c)
        PROVE  FALSE
    BY <1>6 DEF CommitSettled, CommitRejected, VerdictInv, InsertsAreExclusive
  <1>7. CASE Crash
    <2>1. Paying(a) \subseteq Paying(a)'
      BY <1>7 DEF Crash, Paying, Debited, CutShort, Active
    <2> QED
      BY <1>7, <1>u, <2>1 DEF Crash
  <1>8. CASE UNCHANGED settlementVars
    <2>1. Paying(a) \subseteq Paying(a)'
      BY <1>8 DEF settlementVars, Paying, Debited, CutShort
    <2> QED
      BY <1>8, <1>u, <2>1 DEF settlementVars
  <1> QED
    BY <1>1, <1>2, <1>3, <1>4, <1>5, <1>6, <1>7, <1>8
    DEF SettlementNext, SettlementStep, Done

(* A debit lacks its record only if its call was cut short by an error, a  *)
(* crash or the unique index: nobody who is told of a conflict or of a     *)
(* rejection has paid, in either mode, whatever is retried.                *)
THEOREM UnrecordedDebitsAreFailures == SettlementSpec => []UnrecordedDebitsFailed
  <1> DEFINE Accounted == \A a \in Accounts :
                            version[a] <= Cardinality(SentBy(a)) + Cardinality(Paying(a))
  <1>1. CASE SupportsTransactions
    <2>1. ExactDebits /\ SettlementTypeOK => UnrecordedDebitsFailed
      <3> SUFFICES ASSUME ExactDebits, SettlementTypeOK, NEW a \in Accounts
                   PROVE  version[a] <= Cardinality({p \in Settled : Sender[p] = a})
                                          + Cardinality(Debited(a)) + Cardinality(CutShort(a))
        BY DEF UnrecordedDebitsFailed
      <3>1. /\ version[a] = Cardinality({p \in Settled : Sender[p] = a}) + Cardinality(Debited(a))
            /\ version[a] \in Nat
        BY DEF ExactDebits, SettlementTypeOK
      <3>2. CutShort(a) \subseteq Calls
        BY DEF CutShort
      <3>3. Cardinality(CutShort(a)) \in Nat
        BY <3>2, FS_Subset, FS_CardinalityType, SettlementAssumption
      <3> QED
        BY <3>1, <3>3
    <2> QED
      BY <1>1, <2>1, SessionDebitsAreExact, SettlementTypeCorrect, PTL
  <1>2. CASE ~SupportsTransactions
    <2>1. SettlementInit => Accounted
      <3> SUFFICES ASSUME SettlementInit, NEW a \in Accounts
                   PROVE  version[a] <= Cardinality(SentBy(a)) + Cardinality(Paying(a))
        OBVIOUS
      <3>1. version[a] = 0
        BY DEF SettlementInit
      <3>2. Cardinality(SentBy(a)) \in Nat /\ Cardinality(Paying(a)) \in Nat
        BY CountsAreFinite, PayingIsFinite
      <3> QED
        BY <3>1, <3>2
    <2>2. SettlementTypeOK /\ VerdictInv /\ Accounted /\ [SettlementNext]_settlementVars
            => Accounted'
      BY <1>2, StepUnrecorded
    <2>3. Accounted => UnrecordedDebitsFailed
      <3> SUFFICES ASSUME Accounted, NEW a \in Accounts
                   PROVE  version[a] <= Cardinality({p \in Settled : Sender[p] = a})
                                          + Cardinality(Debited(a)) + Cardinality(CutShort(a))
        BY DEF UnrecordedDebitsFailed
      <3> DEFINE s == Cardinality(SentBy(a))
                 d == Cardinality(Debited(a))
                 k == Cardinality(CutShort(a))
      <3>1. version[a] <= s + Cardinality(Paying(a)) /\ Cardinality(Paying(a)) = d + k
        BY PayingIsFinite
      <3>2. CutShort(a) \subseteq Calls
        BY DEF CutShort
      <3>3. s \in Nat /\ d \in Nat /\ k \in Nat
        BY <3>2, CountsAreFinite, FS_Subset, FS_CardinalityType, SettlementAssumption
      <3>4. version[a] <= s + d + k
        <4> HIDE DEF s, d, k
        <4> QED
          BY <3>1, <3>3
      <3> QED
        BY <3>4 DEF SentBy
    <2> QED
      BY <2>1, <2>2, <2>3, SettlementTypeCorrect, VerdictInvariant, PTL DEF SettlementSpec
  <1> QED
    BY <1>1, <1>2

-----------------------------------------------------------------------------
\* Without transactions: what an account nobody pays has lost.
LEMMA SumOverIsSumBy == \A w, S : SumOver(w, S) = SumBy(w, S)
  BY Zenon DEF SumOver, SumBy

LEMMA SumPaidAdds ==
  ASSUME SettlementTypeOK, NEW S, S \subseteq Calls, NEW c \in Calls \ S,
         \A d \in S \cup {c} : pay[d] \in Payments
  PROVE  SumPaid(S \cup {c}) = SumPaid(S) + Amount[pay[c]]
  <1> USE LedgerAssumption, SettlementAssumption
  <1> DEFINE w == [d \in S \cup {c} |-> Amount[pay[d]]]
             v == [d \in S |-> Amount[pay[d]]]
  <1>1. IsFiniteSet(S)
    BY FS_Subset
  <1>2. (\A d \in S \cup {c} : w[d] \in Int) /\ w[c] = Amount[pay[c]]
    OBVIOUS
  <1>3. \A d \in S : v[d] \in Int /\ w[d] = v[d]
    OBVIOUS
  <1> HIDE DEF w, v
  <1>4. SumBy(w, S \cup {c}) = SumBy(w, S) + w[c]
    BY <1>1, <1>2, SumByAdd
  <1>5. SumBy(w, S) = SumBy(v, S)
    BY <1>1, <1>3, SumBySame
  <1> QED
    BY <1>2, <1>4, <1>5, SumOverIsSumBy DEF SumPaid, w, v

LEMMA SumPaidIsNat ==
  ASSUME SettlementTypeOK, NEW a
  PROVE  SumPaid(Debited(a)) \in Nat
  <1> USE LedgerAssumption, SettlementAssumption
  <1> DEFINE S == Debited(a)
             v == [d \in S |-> Amount[pay[d]]]
  <1>1. IsFiniteSet(S) /\ \A d \in S : pay[d] \in Payments
    BY CountsAreFinite DEF Debited, SettlementTypeOK
  <1>2. \A d \in S : v[d] \in Nat
    BY <1>1
  <1> HIDE DEF S, v
  <1>3. SumBy(v, S) \in Nat
    BY <1>1, <1>2, SumByNat
  <1> QED
    BY <1>3, SumOverIsSumBy DEF SumPaid, S, v

LEMMA SumOfSent ==
  ASSUME SettlementTypeOK, NEW a
  PROVE  /\ SumOf(SentBy(a)) \in Nat
         /\ \A p \in Payments \ SentBy(a) :
               SumOf(SentBy(a) \cup {p}) = SumOf(SentBy(a)) + Amount[p]
  <1> USE LedgerAssumption
  <1>1. IsFiniteSet(SentBy(a)) /\ SentBy(a) \subseteq Payments
    BY CountsAreFinite DEF SentBy, Settled
  <1>2. \A p \in Payments : Amount[p] \in Nat
    OBVIOUS
  <1>3. SumBy(Amount, SentBy(a)) \in Nat
    BY <1>1, <1>2, SumByNat
  <1>4. \A p \in Payments \ SentBy(a) :
           SumBy(Amount, SentBy(a) \cup {p}) = SumBy(Amount, SentBy(a)) + Amount[p]
    BY <1>1, <1>2, SumByAdd
  <1> QED
    BY <1>3, <1>4, SumOverIsSumBy DEF SumOf

\* What left a, on record or on its way, and the views of its balance: as long
\* as nobody pays a, the balance changes with its version and never without.
Spent(a) == balance[a] + SumOf(SentBy(a)) + SumPaid(Debited(a))

SpendInv(a) ==
    NeverPaid(a) =>
        /\ Spent(a) <= InitialBalance[a]
        /\ \A c \in Calls :
              pc[c] \in {"receiver", "debit"} /\ Sender[pay[c]] = a =>
                  /\ view[c].version <= version[a]
                  /\ view[c].version = version[a] => view[c].sender = balance[a]

IdleAreUnpaid == \A c \in Calls : pc[c] = "idle" => pay[c] = NoPayment

LEMMA StepIdle ==
  SettlementTypeOK /\ IdleAreUnpaid /\ [SettlementNext]_settlementVars => IdleAreUnpaid'
  BY DEF IdleAreUnpaid, SettlementTypeOK, SettlementNext, SettlementStep, Begin, ReadSender,
         ReadReceiver, DebitSender, CreditReceiver, RecordSettled, RecordRejected, Insert,
         CommitSettled, CommitRejected, DatabaseError, Crash, Done, Goto, Answer, settlementVars

LEMMA StepSpend ==
  ASSUME ~SupportsTransactions, NEW a \in Accounts
  PROVE  SettlementTypeOK /\ VerdictInv /\ IdleAreUnpaid /\ SpendInv(a)
           /\ [SettlementNext]_settlementVars => SpendInv(a)'
  <1> USE LedgerAssumption, SettlementAssumption
  <1> SUFFICES ASSUME SettlementTypeOK, VerdictInv, IdleAreUnpaid, SpendInv(a),
                      [SettlementNext]_settlementVars
               PROVE  SpendInv(a)'
    OBVIOUS
  <1>p. NeverPaid(a)' => NeverPaid(a)
    BY DEF NeverPaid, IdleAreUnpaid, SettlementTypeOK, SettlementNext, SettlementStep, Begin,
           ReadSender, ReadReceiver, DebitSender, CreditReceiver, RecordSettled, RecordRejected,
           Insert, CommitSettled, CommitRejected, DatabaseError, Crash, Done, settlementVars
  <1> SUFFICES ASSUME NeverPaid(a), NeverPaid(a)'
               PROVE  /\ Spent(a)' <= InitialBalance[a]
                      /\ \A c \in Calls :
                            pc'[c] \in {"receiver", "debit"} /\ Sender[pay'[c]] = a =>
                                /\ view'[c].version <= version'[a]
                                /\ view'[c].version = version'[a]
                                      => view'[c].sender = balance'[a]
    BY <1>p DEF SpendInv
  <1> DEFINE Goal == /\ Spent(a)' <= InitialBalance[a]
                     /\ \A c \in Calls :
                           pc'[c] \in {"receiver", "debit"} /\ Sender[pay'[c]] = a =>
                                /\ view'[c].version <= version'[a]
                                /\ view'[c].version = version'[a]
                                      => view'[c].sender = balance'[a]
             Views(c) == pc[c] \in {"receiver", "debit"} /\ Sender[pay[c]] = a =>
                           /\ view[c].version <= version[a]
                           /\ view[c].version = version[a] => view[c].sender = balance[a]
             sent == SumOf(SentBy(a))
             way == SumPaid(Debited(a))
  <1>s. /\ balance[a] + sent + way <= InitialBalance[a]
        /\ \A c \in Calls : Views(c)
    BY DEF SpendInv, Spent
  <1>n. /\ balance[a] \in Int /\ InitialBalance[a] \in Int /\ version[a] \in Nat
        /\ sent \in Nat /\ way \in Nat
    BY SumOfSent, SumPaidIsNat DEF SettlementTypeOK
  <1>k. /\ IsFiniteSet(Debited(a)) /\ Debited(a) \subseteq Calls
        /\ \A d \in Debited(a) : pay[d] \in Payments
    BY CountsAreFinite DEF Debited, SettlementTypeOK
  \* Taking a call out of those under way.
  <1>r. ASSUME NEW c \in Debited(a)
        PROVE  /\ SumPaid(Debited(a) \ {c}) = way - Amount[pay[c]]
               /\ Amount[pay[c]] \in Nat
    <2> DEFINE S == Debited(a) \ {c}
    <2>1. S \subseteq Calls /\ c \in Calls \ S /\ S \cup {c} = Debited(a)
          /\ \A d \in S \cup {c} : pay[d] \in Payments
      BY <1>k
    <2>2. SumPaid(S) \in Int
      <3> DEFINE v == [d \in S |-> Amount[pay[d]]]
      <3>1. IsFiniteSet(S) /\ \A d \in S : v[d] \in Int
        BY <1>k, FS_Subset
      <3> HIDE DEF S, v
      <3>2. SumBy(v, S) \in Int
        BY <3>1, SumByRecursion
      <3> QED
        BY <3>2, SumOverIsSumBy DEF SumPaid, v
    <2> HIDE DEF S
    <2>3. SumPaid(Debited(a)) = SumPaid(S) + Amount[pay[c]]
      BY <2>1, SumPaidAdds
    <2>4. Amount[pay[c]] \in Nat
      BY <1>k
    <2> QED
      BY <2>2, <2>3, <2>4 DEF S
  \* Other accounts' balances, and ends of calls.
  <1>u. ASSUME NEW c \in Calls, balance'[a] = balance[a], version'[a] = version[a],
               UNCHANGED <<transactions, pay>>,
               \A d \in Calls \ {c} : pc'[d] = pc[d] /\ view'[d] = view[d],
               pc'[c] \in {"credit", "save"} => pc[c] \in {"credit", "save"},
               pc'[c] \in {"receiver", "debit"} /\ Sender[pay[c]] = a =>
                  /\ view'[c].version <= version[a]
                  /\ view'[c].version = version[a] => view'[c].sender = balance[a]
        PROVE  Goal
    <2>1. SentBy(a)' = SentBy(a) /\ SumOf(SentBy(a)') = sent
      BY <1>u DEF SentBy, Settled
    <2>2. SumPaid(Debited(a))' <= way
      <3>1. CASE Debited(a)' = Debited(a)
        <4>1. SumPaid(Debited(a))' = way
          BY <1>u, <3>1 DEF SumPaid
        <4> QED
          BY <4>1, <1>n
      <3>2. CASE Debited(a)' # Debited(a)
        <4>1. c \in Debited(a) /\ Debited(a)' = Debited(a) \ {c}
          BY <1>u, <3>2 DEF Debited
        <4>2. SumPaid(Debited(a))' = SumPaid(Debited(a) \ {c})
          BY <1>u, <4>1 DEF SumPaid
        <4>3. SumPaid(Debited(a) \ {c}) = way - Amount[pay[c]] /\ Amount[pay[c]] \in Nat
          BY <4>1, <1>r
        <4> HIDE DEF way
        <4> QED
          BY <4>2, <4>3, <1>n
      <3> QED
        BY <3>1, <3>2
    <2>3. SumPaid(Debited(a))' \in Nat
      <3>1. SettlementTypeOK'
        BY StepTypeOK
      <3> DEFINE S == Debited(a)'
                 v == [d \in S |-> Amount[pay[d]]]
      <3>2. S \subseteq Debited(a)
        BY <1>u DEF Debited
      <3>3. IsFiniteSet(S) /\ \A d \in S : v[d] \in Nat
        BY <1>k, <3>2, FS_Subset
      <3>4. SumPaid(Debited(a))' = SumOver(v, S)
        BY <1>u DEF SumPaid
      <3> HIDE DEF S, v
      <3>5. SumBy(v, S) \in Nat
        BY <3>3, SumByNat
      <3> QED
        BY <3>4, <3>5, SumOverIsSumBy
    <2>4. Spent(a)' = balance'[a] + SumOf(SentBy(a)') + SumPaid(Debited(a))'
      BY DEF Spent
    <2>5. Spent(a)' <= InitialBalance[a]
      <3> HIDE DEF sent, way
      <3> QED
        BY <1>n, <1>s, <1>u, <2>1, <2>2, <2>3, <2>4
    <2>6. \A d \in Calls :
             pc'[d] \in {"receiver", "debit"} /\ Sender[pay'[d]] = a =>
                 /\ view'[d].version <= version'[a]
                 /\ view'[d].version = version'[a] => view'[d].sender = balance'[a]
      BY <1>s, <1>u
    <2> QED
      BY <2>5, <2>6
  <1>1. ASSUME NEW c \in Calls, NEW p \in Payments, Begin(c, p)
        PROVE  Goal
    <2>1. /\ UNCHANGED <<balance, version, transactions, view>>
          /\ pc' = [pc EXCEPT ![c] = "sender"] /\ pay' = [pay EXCEPT ![c] = p]
          /\ pc[c] = "idle"
      BY <1>1 DEF Begin, Goto
    <2>2. Debited(a)' = Debited(a) /\ \A d \in Debited(a) : pay'[d] = pay[d]
      BY <2>1 DEF Debited, SettlementTypeOK
    <2>3. [d \in Debited(a)' |-> Amount[pay'[d]]] = [d \in Debited(a) |-> Amount[pay[d]]]
      BY <2>2
    <2>4. SumPaid(Debited(a))' = way
      BY <2>2, <2>3 DEF SumPaid
    <2>5. SentBy(a)' = SentBy(a)
      BY <2>1 DEF SentBy, Settled
    <2>6. Spent(a)' = balance[a] + sent + way
      BY <2>1, <2>4, <2>5 DEF Spent
    <2>7. \A d \in Calls :
             pc'[d] \in {"receiver", "debit"} /\ Sender[pay'[d]] = a =>
                 /\ view'[d].version <= version'[a]
                 /\ view'[d].version = version'[a] => view'[d].sender = balance'[a]
      BY <1>s, <2>1 DEF SettlementTypeOK
    <2> QED
      BY <1>s, <2>6, <2>7
  <1>2. ASSUME NEW c \in Calls, ReadSender(c)
        PROVE  Goal
    <2>1. /\ UNCHANGED <<balance, version, transactions, pay>>
          /\ \A d \in Calls \ {c} : pc'[d] = pc[d] /\ view'[d] = view[d]
          /\ pc'[c] \in {"receiver", "failed"}
          /\ pc'[c] = "receiver" => /\ view'[c].version = version[Sender[pay[c]]]
                                    /\ view'[c].sender = balance[Sender[pay[c]]]
      BY <1>2 DEF ReadSender, Goto, SettlementTypeOK
    <2> QED
      BY <1>n, <1>u, <2>1
  <1>3. ASSUME NEW c \in Calls, ReadReceiver(c)
        PROVE  Goal
    <2>1. /\ UNCHANGED <<balance, version, transactions, pay>>
          /\ \A d \in Calls \ {c} : pc'[d] = pc[d] /\ view'[d] = view[d]
          /\ pc[c] = "receiver" /\ pc'[c] \notin {"credit", "save"}
          /\ view'[c].version = view[c].version /\ view'[c].sender = view[c].sender
      BY <1>3 DEF ReadReceiver, Goto, SettlementTypeOK
    <2> QED
      BY <1>s, <1>u, <2>1
  <1>4. ASSUME NEW c \in Calls, DebitSender(c)
        PROVE  Goal
    <2>1. CASE StaleSender(c) \/ Sender[pay[c]] # a
      <3>1. /\ UNCHANGED <<transactions, pay, view>>
            /\ \A d \in Calls \ {c} : pc'[d] = pc[d]
            /\ balance'[a] = balance[a] /\ version'[a] = version[a]
            /\ pc'[c] \in {"conflict", "credit", "failed"}
            /\ StaleSender(c) => pc'[c] = "conflict"
        BY <1>4, <2>1 DEF DebitSender, WriteConflict, Goto, Answer, SettlementTypeOK
      <3>2. CASE StaleSender(c)
        BY <1>u, <3>1, <3>2
      <3>3. CASE Sender[pay[c]] # a
        <4>1. Debited(a)' = Debited(a) /\ SentBy(a)' = SentBy(a)
          BY <1>4, <3>1, <3>3 DEF DebitSender, Debited, SentBy, Settled
        <4>2. SumPaid(Debited(a))' = way
          BY <3>1, <4>1 DEF SumPaid
        <4>3. Spent(a)' = balance[a] + sent + way
          BY <3>1, <4>1, <4>2 DEF Spent
        <4> QED
          BY <1>s, <3>1, <3>3, <4>3
      <3> QED
        BY <2>1, <3>2, <3>3
    <2>2. CASE ~StaleSender(c) /\ Sender[pay[c]] = a
      <3>1. /\ pc[c] = "debit" /\ pay[c] \in Payments
            /\ UNCHANGED <<transactions, pay, view>>
            /\ pc' = [pc EXCEPT ![c] = "credit"] \/ pc' = [pc EXCEPT ![c] = "failed"]
            /\ balance'[a] = view[c].sender - Amount[pay[c]]
            /\ version'[a] = version[a] + 1
            /\ version[a] = view[c].version
        BY <1>4, <2>2 DEF DebitSender, StaleSender, WriteConflict, Goto, Answer, SettlementTypeOK
      <3>2. view[c].sender = balance[a] /\ Amount[pay[c]] \in Nat
        BY <1>s, <2>2, <3>1
      <3>3. SentBy(a)' = SentBy(a) /\ SumOf(SentBy(a)') = sent
        BY <3>1 DEF SentBy, Settled
      <3>4. SumPaid(Debited(a))' \in {way, way + Amount[pay[c]]}
        <4>1. CASE pc' = [pc EXCEPT ![c] = "credit"]
          <5>1. c \notin Debited(a) /\ Debited(a)' = Debited(a) \cup {c}
            BY <2>2, <3>1, <4>1 DEF Debited, SettlementTypeOK
          <5>2. SumPaid(Debited(a))' = SumPaid(Debited(a) \cup {c})
            BY <3>1, <5>1 DEF SumPaid
          <5>3. SumPaid(Debited(a) \cup {c}) = way + Amount[pay[c]]
            BY <1>k, <3>1, <5>1, SumPaidAdds
          <5> QED
            BY <5>2, <5>3
        <4>2. CASE pc' = [pc EXCEPT ![c] = "failed"]
          <5>1. Debited(a)' = Debited(a)
            BY <3>1, <4>2 DEF Debited, SettlementTypeOK
          <5> QED
            BY <3>1, <5>1 DEF SumPaid
        <4> QED
          BY <3>1, <4>1, <4>2
      <3>5. Spent(a)' = balance'[a] + SumOf(SentBy(a)') + SumPaid(Debited(a))'
        BY DEF Spent
      <3>6. Spent(a)' <= InitialBalance[a]
        <4> DEFINE n == Amount[pay[c]]
                   b == SumPaid(Debited(a))'
        <4>1. /\ balance'[a] = balance[a] - n /\ n \in Nat
              /\ b \in {way, way + n}
              /\ Spent(a)' = balance'[a] + sent + b
          BY <3>1, <3>2, <3>3, <3>4, <3>5
        <4> HIDE DEF n, b, sent, way
        <4> QED
          BY <1>n, <1>s, <4>1
      <3>7. \A d \in Calls :
               pc'[d] \in {"receiver", "debit"} /\ Sender[pay'[d]] = a =>
                   /\ view'[d].version <= version'[a]
                   /\ view'[d].version # version'[a]
        <4> SUFFICES ASSUME NEW d \in Calls, pc'[d] \in {"receiver", "debit"},
                            Sender[pay'[d]] = a
                     PROVE  /\ view'[d].version <= version'[a]
                            /\ view'[d].version # version'[a]
          OBVIOUS
        <4>1. pc[d] \in {"receiver", "debit"} /\ Sender[pay[d]] = a /\ view'[d] = view[d]
          BY <3>1 DEF SettlementTypeOK
        <4>2. view[d].version <= version[a] /\ view[d].version \in Nat
          BY <1>s, <4>1 DEF SettlementTypeOK
        <4> QED
          BY <1>n, <3>1, <4>1, <4>2
      <3> QED
        BY <3>6, <3>7
    <2> QED
      BY <2>1, <2>2
  <1>5. ASSUME NEW c \in Calls, CreditReceiver(c)
        PROVE  Goal
    <2>1. pay[c] \in Payments /\ pay[c] # NoPayment
      BY <1>5 DEF CreditReceiver, SettlementTypeOK
    <2>2. Receiver[pay[c]] # a
      BY <2>1 DEF NeverPaid
    <2>3. /\ UNCHANGED <<transactions, pay, version, view>>
          /\ \A d \in Calls \ {c} : pc'[d] = pc[d]
          /\ balance'[a] = balance[a]
          /\ pc[c] = "credit" /\ pc'[c] \notin {"receiver", "debit"}
      BY <1>5, <2>2 DEF CreditReceiver, Goto, Answer, SettlementTypeOK
    <2> QED
      BY <1>u, <2>3
  <1>6. ASSUME NEW c \in Calls, RecordSettled(c)
        PROVE  Goal
    <2>1. CASE DuplicateKey(c)
      <3>1. /\ UNCHANGED <<balance, transactions, pay, version, view>>
            /\ \A d \in Calls \ {c} : pc'[d] = pc[d]
            /\ pc'[c] = "duplicateKey"
        BY <1>6, <2>1 DEF RecordSettled, Insert, Goto, SettlementTypeOK
      <3> QED
        BY <1>u, <3>1
    <2>2. CASE ~DuplicateKey(c)
      <3>1. /\ pc[c] = "save" /\ pay[c] \in Payments
            /\ UNCHANGED <<balance, version, pay, view>>
            /\ pc' = [pc EXCEPT ![c] = "settled"] \/ pc' = [pc EXCEPT ![c] = "failed"]
            /\ transactions' = [transactions EXCEPT ![pay[c]] = "SETTLED"]
            /\ transactions[pay[c]] = "none"
        BY <1>6, <2>2 DEF RecordSettled, Insert, Goto, Answer, DuplicateKey, SettlementTypeOK
      <3>2. /\ \A d \in Calls \ {c} : pc'[d] = pc[d]
            /\ pc'[c] \in {"settled", "failed"}
        BY <3>1 DEF SettlementTypeOK
      <3>3. Spent(a)' = balance[a] + SumOf(SentBy(a)') + SumPaid(Debited(a))'
        BY <3>1 DEF Spent
      <3>4. CASE Sender[pay[c]] # a
        <4>1. SentBy(a)' = SentBy(a) /\ Debited(a)' = Debited(a)
          BY <3>1, <3>2, <3>4 DEF SentBy, Settled, Debited, SettlementTypeOK
        <4>2. SumPaid(Debited(a))' = way /\ SumOf(SentBy(a)') = sent
          BY <3>1, <4>1 DEF SumPaid
        <4> QED
          BY <1>s, <3>1, <3>2, <3>3, <4>2
      <3>5. CASE Sender[pay[c]] = a
        <4> DEFINE n == Amount[pay[c]]
        <4>1. /\ pay[c] \notin SentBy(a) /\ SentBy(a)' = SentBy(a) \cup {pay[c]}
              /\ c \in Debited(a) /\ Debited(a)' = Debited(a) \ {c}
          BY <3>1, <3>2, <3>5 DEF SentBy, Settled, Debited, SettlementTypeOK
        <4>2. SumOf(SentBy(a)') = sent + n
          BY <3>1, <4>1, SumOfSent
        <4>3. SumPaid(Debited(a))' = SumPaid(Debited(a) \ {c})
          BY <3>1, <4>1 DEF SumPaid
        <4>4. SumPaid(Debited(a) \ {c}) = way - n /\ n \in Nat
          BY <4>1, <1>r
        <4>5. Spent(a)' <= InitialBalance[a]
          <5> HIDE DEF n, sent, way
          <5> QED
            BY <1>n, <1>s, <3>3, <4>2, <4>3, <4>4
        <4> QED
          BY <1>s, <3>1, <3>2, <4>5
      <3> QED
        BY <3>4, <3>5
    <2> QED
      BY <2>1, <2>2
  <1>7. ASSUME NEW c \in Calls, RecordRejected(c)
        PROVE  Goal
    <2>1. /\ pc[c] = "reject" /\ UNCHANGED <<balance, version, pay, view>>
          /\ \A d \in Calls \ {c} : pc'[d] = pc[d]
          /\ pc'[c] \in {"rejected", "failed", "duplicateKey"}
          /\ SentBy(a)' = SentBy(a)
      <3>1. CASE DuplicateKey(c)
        BY <1>7, <3>1 DEF RecordRejected, Insert, Goto, SentBy, Settled, SettlementTypeOK
      <3>2. CASE ~DuplicateKey(c)
        <4>1. /\ pay[c] \in Payments /\ transactions[pay[c]] = "none"
              /\ transactions' = [transactions EXCEPT ![pay[c]] = "REJECTED"]
          BY <1>7, <3>2 DEF RecordRejected, Insert, DuplicateKey, SettlementTypeOK
        <4>2. SentBy(a)' = SentBy(a)
          BY <4>1, UnsettledCounts
        <4> QED
          BY <1>7, <3>2, <4>2 DEF RecordRejected, Insert, Goto, Answer, SettlementTypeOK
      <3> QED
        BY <3>1, <3>2
    <2>2. Debited(a)' = Debited(a)
      BY <2>1 DEF Debited
    <2>3. Spent(a)' = balance[a] + sent + way
      BY <2>1, <2>2 DEF Spent, SumPaid
    <2> QED
      BY <1>s, <2>1, <2>3
  <1>8. ASSUME NEW c \in Calls, CommitSettled(c) \/ CommitRejected(c)
        PROVE  FALSE
    BY <1>8 DEF CommitSettled, CommitRejected, VerdictInv, InsertsAreExclusive
  <1>9. ASSUME NEW c \in Calls, DatabaseError(c)
        PROVE  Goal
    <2>1. /\ UNCHANGED <<balance, transactions, version, pay, view>>
          /\ \A d \in Calls \ {c} : pc'[d] = pc[d]
          /\ pc'[c] = "failed"
      BY <1>9 DEF DatabaseError, Goto, SettlementTypeOK
    <2> QED
      BY <1>u, <2>1
  <1>10. CASE Crash
    <2>1. /\ UNCHANGED <<balance, transactions, version, pay, view>>
          /\ \A d \in Calls : pc'[d] = IF pc[d] \in Active THEN "lost" ELSE pc[d]
      BY <1>10 DEF Crash
    <2>2. Debited(a)' = {} /\ SentBy(a)' = SentBy(a)
      BY <2>1 DEF Debited, SentBy, Settled, Active
    <2>3. SumPaid({})' = 0
      BY SumByEmpty, SumOverIsSumBy DEF SumPaid
    <2>4. Spent(a)' = balance[a] + sent + 0
      BY <2>1, <2>2, <2>3 DEF Spent, SumPaid
    <2>5. Spent(a)' <= InitialBalance[a]
      <3> HIDE DEF sent, way
      <3> QED
        BY <1>n, <1>s, <2>4
    <2> QED
      BY <2>1, <2>5 DEF Active
  <1>11. CASE UNCHANGED settlementVars
    BY <1>11, <1>s DEF settlementVars, Spent, SentBy, Settled, Debited, SumPaid
  <1> QED
    BY <1>1, <1>2, <1>3, <1>4, <1>5, <1>6, <1>7, <1>8, <1>9, <1>10, <1>11
    DEF SettlementNext, SettlementStep, Done

(* Without transactions: of the settlements of one sender that meet, each  *)
(* one on record, or on its way to it, has been taken from the balance.    *)
(* The __v filter of the debit sees to it, as long as no credit (which has *)
(* no such filter) comes in between.                                       *)
THEOREM DebitsAreNotLost ==
  ASSUME ~SupportsTransactions
  PROVE  SettlementSpec => []DebitsHold
  <1> DEFINE Inv == IdleAreUnpaid /\ \A a \in Accounts : SpendInv(a)
  <1>1. SettlementInit => Inv
    <2> SUFFICES ASSUME SettlementInit, NEW a \in Accounts
                 PROVE  Spent(a) <= InitialBalance[a]
      BY DEF SettlementInit, IdleAreUnpaid, SpendInv
    <2>1. SentBy(a) = {} /\ Debited(a) = {}
      BY DEF SentBy, Debited, Settled, SettlementInit, LedgerInit
    <2>2. SumOf({}) = 0 /\ SumPaid({}) = 0
      BY SumByEmpty, SumOverIsSumBy DEF SumOf, SumPaid
    <2>3. balance[a] = InitialBalance[a] /\ InitialBalance[a] \in Nat
      BY LedgerAssumption DEF SettlementInit, LedgerInit
    <2>4. Spent(a) = balance[a] + 0 + 0
      BY <2>1, <2>2 DEF Spent
    <2> QED
      BY <2>3, <2>4
  <1>2. SettlementTypeOK /\ VerdictInv /\ Inv /\ [SettlementNext]_settlementVars => Inv'
    BY StepIdle, StepSpend
  <1>3. Inv => DebitsHold
    BY DEF SpendInv, Spent, DebitsHold, SentBy
  <1> QED
    BY <1>1, <1>2, <1>3, SettlementTypeCorrect, VerdictInvariant, PTL DEF SettlementSpec

-----------------------------------------------------------------------------
\* Inside transactions, until the first payment is settled every call decides
\* on the seeded balances, so that two calls of one payment decide alike ...
Unmoved(c) ==
    /\ missed[c] = {}
    /\ pc[c] \in {"receiver"} \cup Decided => view[c].sender = InitialBalance[Sender[pay[c]]]
    /\ pc[c] \in {"reject", "commitRejected"} => view[c].sender < Amount[pay[c]]

\* ... and a call that met a conflict met a call that holds what it wanted.
Holding == {"credit", "save", "commit", "failed", "lost"}

Undisturbed ==
    Settled = {} =>
        /\ balance = InitialBalance
        /\ \A c \in Calls : Unmoved(c)
        /\ \A p \in Payments :
              transactions[p] = "REJECTED" => InitialBalance[Sender[p]] < Amount[p]
        /\ (\E c \in Calls : pc[c] = "conflict") => \E d \in Calls : pc[d] \in Holding

LEMMA StepUndisturbed ==
  ASSUME SupportsTransactions
  PROVE  SessionInv /\ Undisturbed /\ [SettlementNext]_settlementVars => Undisturbed'
  <1> USE LedgerAssumption, SettlementAssumption
  <1> SUFFICES ASSUME SessionInv, Undisturbed, [SettlementNext]_settlementVars, Settled' = {}
               PROVE  /\ balance' = InitialBalance
                      /\ \A c \in Calls : Unmoved(c)'
                      /\ \A p \in Payments :
                            transactions'[p] = "REJECTED" => InitialBalance[Sender[p]] < Amount[p]
                      /\ (\E c \in Calls : pc'[c] = "conflict")
                            => \E d \in Calls : pc'[d] \in Holding
    BY DEF Undisturbed
  <1> DEFINE Goal == /\ balance' = InitialBalance
                     /\ \A c \in Calls : Unmoved(c)'
                     /\ \A p \in Payments :
                           transactions'[p] = "REJECTED" => InitialBalance[Sender[p]] < Amount[p]
                     /\ (\E c \in Calls : pc'[c] = "conflict")
                           => \E d \in Calls : pc'[d] \in Holding
  <1>t. SettlementTypeOK /\ MoneyInv /\ VerdictInv
    BY DEF SessionInv
  \* What holds as long as nothing is settled.
  <1> DEFINE Before == /\ balance = InitialBalance
                       /\ \A c \in Calls : Unmoved(c)
                       /\ \A p \in Payments :
                             transactions[p] = "REJECTED" => InitialBalance[Sender[p]] < Amount[p]
                       /\ (\E c \in Calls : pc[c] = "conflict")
                             => \E d \in Calls : pc[d] \in Holding
  <1>b. UNCHANGED transactions => Before /\ Settled = {}
    BY DEF Undisturbed, Settled
  <1>o. ASSUME NEW c \in Calls, Before, UNCHANGED <<balance, transactions>>,
               \A d \in Calls \ {c} : /\ pc'[d] = pc[d] /\ pay'[d] = pay[d]
                                     /\ view'[d] = view[d] /\ missed'[d] = missed[d],
               Unmoved(c)',
               pc'[c] = "conflict" => \E d \in Calls \ {c} : pc[d] \in Holding,
               pc[c] \in Holding => pc'[c] \in Holding \/ \E d \in Calls \ {c} : pc[d] \in Holding
        PROVE  Goal
    BY <1>o DEF Unmoved
  <1>1. ASSUME NEW c \in Calls, NEW p \in Payments, Begin(c, p)
        PROVE  Goal
    <2>1. Unmoved(c)'
      BY <1>1, <1>b, <1>t DEF Begin, Goto, Unmoved, Decided, SettlementTypeOK
    <2> QED
      BY <1>1, <1>b, <1>o, <1>t, <2>1 DEF Begin, Goto, Holding, SettlementTypeOK
  <1>2. ASSUME NEW c \in Calls, ReadSender(c)
        PROVE  Goal
    <2>1. Unmoved(c)'
      <3>1. CASE Sender[pay[c]] \in Accounts
        BY <1>2, <1>b, <1>t, <3>1 DEF ReadSender, Goto, Unmoved, Decided, SettlementTypeOK
      <3>2. CASE Sender[pay[c]] \notin Accounts
        BY <1>2, <1>b, <1>t, <3>2 DEF ReadSender, Goto, Unmoved, Decided, SettlementTypeOK
      <3> QED
        BY <3>1, <3>2
    <2> QED
      BY <1>2, <1>b, <1>o, <1>t, <2>1 DEF ReadSender, Goto, Holding, SettlementTypeOK
  <1>3. ASSUME NEW c \in Calls, ReadReceiver(c)
        PROVE  Goal
    <2>1. /\ pc[c] = "receiver" /\ UNCHANGED <<balance, transactions, pay, view, missed>>
          /\ pc'[c] \in {"failed", "reject", "debit"}
          /\ pc'[c] = "reject" => view[c].sender < Amount[pay[c]]
          /\ \A d \in Calls \ {c} : pc'[d] = pc[d]
      BY <1>3, <1>t DEF ReadReceiver, InsufficientFunds, Goto, SettlementTypeOK
    <2>2. Unmoved(c)'
      BY <2>1, <1>b DEF Unmoved, Decided
    <2> QED
      BY <2>1, <1>b, <1>o, <2>2 DEF Holding
  <1>4. ASSUME NEW c \in Calls, DebitSender(c) \/ CreditReceiver(c)
        PROVE  Goal
    <2>1. /\ \/ pc[c] = "debit" /\ pc'[c] \in {"conflict", "failed", "credit"}
             \/ pc[c] = "credit" /\ pc'[c] \in {"conflict", "failed", "save"}
          /\ UNCHANGED <<balance, transactions, pay, view, missed>>
          /\ \A d \in Calls \ {c} : pc'[d] = pc[d]
          /\ pc'[c] = "conflict" => \E a : WriteConflict(c, a)
      BY <1>4, <1>t DEF DebitSender, CreditReceiver, StaleSender, Goto, Answer, SettlementTypeOK
    <2>2. Unmoved(c)'
      BY <2>1, <1>b DEF Unmoved, Decided
    <2>3. \A a : WriteConflict(c, a) => \E d \in Calls \ {c} : pc[d] \in Holding
      BY <2>1, <1>b DEF WriteConflict, Unmoved, Written, Holding
    <2> QED
      BY <2>1, <1>b, <1>o, <2>2, <2>3 DEF Holding
  <1>5. ASSUME NEW c \in Calls, RecordSettled(c)
        PROVE  Goal
    <2>1. /\ pc[c] = "save" /\ pc'[c] \in {"duplicateKey", "failed", "commit"}
          /\ UNCHANGED <<balance, transactions, pay, view, missed>>
          /\ \A d \in Calls \ {c} : pc'[d] = pc[d]
          /\ pc'[c] = "duplicateKey" => DuplicateKey(c)
          /\ pay[c] \in Payments
      BY <1>5, <1>t DEF RecordSettled, Insert, Goto, Answer, SettlementTypeOK
    <2>2. Unmoved(c)'
      BY <2>1, <1>b DEF Unmoved, Decided
    <2>3. /\ view[c].sender >= Amount[pay[c]] /\ view[c].sender = InitialBalance[Sender[pay[c]]]
          /\ view[c].sender \in Int /\ Amount[pay[c]] \in Nat
      BY <2>1, <1>b, <1>t DEF Unmoved, MoneyInv, DecisionsAreFounded, Decided, SettlementTypeOK
    <2>4. transactions[pay[c]] = "none"
      <3>1. transactions[pay[c]] # "SETTLED"
        BY <2>1, <1>b DEF Settled
      <3>2. transactions[pay[c]] # "REJECTED"
        BY <2>1, <2>3, <1>b
      <3> QED
        BY <2>1, <3>1, <3>2, <1>t DEF SettlementTypeOK, Statuses
    <2>5. ASSUME NEW d \in Calls, pc[d] = "commitRejected", pay[d] = pay[c]
          PROVE  FALSE
      <3>1. view[d].sender < Amount[pay[c]] /\ view[d].sender = InitialBalance[Sender[pay[c]]]
        BY <2>1, <2>5, <1>b DEF Unmoved, Decided
      <3> QED
        BY <2>3, <3>1
    <2>6. DuplicateKey(c) => \E d \in Calls \ {c} : pc[d] \in Holding
      BY <2>4, <2>5 DEF DuplicateKey, Holding
    <2> QED
      BY <2>1, <1>b, <1>o, <2>2, <2>6 DEF Holding
  <1>6. ASSUME NEW c \in Calls, RecordRejected(c) \/ DatabaseError(c)
        PROVE  Goal
    <2>1. /\ \/ pc[c] = "reject" /\ pc'[c] \in {"duplicateKey", "failed", "commitRejected"}
             \/ pc[c] \in Active /\ pc'[c] = "failed"
          /\ UNCHANGED <<balance, transactions, pay, view, missed>>
          /\ \A d \in Calls \ {c} : pc'[d] = pc[d]
      BY <1>6, <1>t DEF RecordRejected, Insert, DatabaseError, Goto, Answer, SettlementTypeOK
    <2>2. Unmoved(c)'
      BY <2>1, <1>b DEF Unmoved, Decided
    <2> QED
      BY <2>1, <1>b, <1>o, <2>2 DEF Holding
  <1>7. ASSUME NEW c \in Calls, CommitSettled(c)
        PROVE  FALSE
    BY <1>7, <1>t DEF CommitSettled, SettlementTypeOK, Settled
  <1>8. ASSUME NEW c \in Calls, CommitRejected(c)
        PROVE  Goal
    <2>1. /\ pc[c] = "commitRejected" /\ pc'[c] \in {"rejected", "failed"} /\ pay[c] \in Payments
          /\ UNCHANGED <<balance, pay, view, missed>>
          /\ \A d \in Calls \ {c} : pc'[d] = pc[d]
          /\ transactions' = [transactions EXCEPT ![pay[c]] = "REJECTED"]
          /\ transactions[pay[c]] = "none"
      BY <1>8, <1>t DEF CommitRejected, Goto, Answer, SettlementTypeOK, VerdictInv,
                        InsertsAreExclusive
    <2>2. Settled = {}
      BY <2>1, <1>t DEF Settled, SettlementTypeOK
    <2>3. Before
      BY <2>2 DEF Undisturbed
    <2>4. \A d \in Calls : Unmoved(d)'
      BY <2>1, <2>3 DEF Unmoved, Decided
    <2>5. InitialBalance[Sender[pay[c]]] < Amount[pay[c]]
      BY <2>1, <2>3 DEF Unmoved, Decided
    <2>6. \A p \in Payments :
             transactions'[p] = "REJECTED" => InitialBalance[Sender[p]] < Amount[p]
      BY <2>1, <2>3, <2>5, <1>t DEF SettlementTypeOK
    <2>7. (\E d \in Calls : pc'[d] = "conflict") => \E d \in Calls : pc'[d] \in Holding
      BY <2>1, <2>3 DEF Holding
    <2> QED
      BY <2>1, <2>3, <2>4, <2>6, <2>7
  <1>9. CASE Crash
    <2>1. /\ UNCHANGED <<balance, transactions, pay, view, missed>>
          /\ \A c \in Calls : pc'[c] = IF pc[c] \in Active THEN "lost" ELSE pc[c]
      BY <1>9 DEF Crash
    <2>2. \A c \in Calls : Unmoved(c)'
      BY <2>1, <1>b DEF Unmoved, Decided, Active
    <2>3. \A c \in Calls : /\ pc[c] \in Holding => pc'[c] \in Holding
                           /\ pc'[c] = "conflict" => pc[c] = "conflict"
      BY <2>1 DEF Holding, Active
    <2> QED
      BY <2>1, <1>b, <2>2, <2>3
  <1>10. CASE UNCHANGED settlementVars
    BY <1>10, <1>b DEF settlementVars, Unmoved
  <1> QED
    BY <1>1, <1>2, <1>3, <1>4, <1>5, <1>6, <1>7, <1>8, <1>9, <1>10
    DEF SettlementNext, SettlementStep, Done

(* Inside transactions write conflicts never stop everybody: if all calls  *)
(* have returned, none by an error or a crash, and one lost a conflict, a  *)
(* payment has been settled.  (A call loses only to one that still holds   *)
(* what it wanted, and before the first commit nobody can overtake that    *)
(* one with another decision on the same packet.)                          *)
THEOREM ConflictsHaveAWinner ==
  ASSUME SupportsTransactions
  PROVE  SettlementSpec => []ConflictsLeaveAWinner
  <1>1. SettlementInit => Undisturbed
    BY DEF SettlementInit, LedgerInit, Undisturbed, Unmoved, Decided
  <1>2. SessionInv /\ Undisturbed /\ [SettlementNext]_settlementVars => Undisturbed'
    BY StepUndisturbed
  <1>3. Undisturbed => ConflictsLeaveAWinner
    BY DEF Undisturbed, ConflictsLeaveAWinner, Holding, Returned
  <1> QED
    BY <1>1, <1>2, <1>3, SessionInvariant, PTL DEF SettlementSpec

-----------------------------------------------------------------------------
\* The books, inside transactions: no transfer is under way, as it were.
Booked == \A a \in Accounts : balance[a] = BookBalance(a)

LEMMA NothingUnderWay == SumPaid({}) = 0
  BY SumByEmpty, SumOverIsSumBy DEF SumPaid

LEMMA BookedIsBalanced ==
  /\ Booked <=> Balanced(balance, Accounts, InitialBalance, Settled, Amount, Amount,
                         Sender, Receiver)
  /\ Booked' <=> Balanced(balance', Accounts, InitialBalance, Settled', Amount, Amount,
                          Sender, Receiver)
  <1>1. \A S : SumOf(S) = SumBy(Amount, S)
    BY SumOverIsSumBy DEF SumOf
  <1>2. \A a : BookBalance(a) = InitialBalance[a] + SumOfKind(Amount, Settled, Receiver, a)
                                                  - SumOfKind(Amount, Settled, Sender, a)
    BY <1>1, Zenon DEF BookBalance, SumOfKind
  <1>3. \A a : BookBalance(a)' = InitialBalance[a] + SumOfKind(Amount, Settled', Receiver, a)
                                                   - SumOfKind(Amount, Settled', Sender, a)
    BY <1>1, Zenon DEF BookBalance, SumOfKind
  <1> QED
    BY <1>2, <1>3, Zenon DEF Booked, Balanced

LEMMA StepBooked ==
  ASSUME SupportsTransactions, \A p \in Payments : Sender[p] # Receiver[p]
  PROVE  SessionInv /\ Booked /\ [SettlementNext]_settlementVars => Booked'
  <1> USE LedgerAssumption, SettlementAssumption
  <1> SUFFICES ASSUME SessionInv, Booked, [SettlementNext]_settlementVars
               PROVE  Booked'
    OBVIOUS
  <1>t. SettlementTypeOK
    BY DEF SessionInv
  <1>1. ASSUME NEW c \in Calls, CommitSettled(c)
        PROVE  Booked'
    <2> DEFINE p == pay[c]
    <2>0. /\ p \in Payments /\ transactions[p] = "none"
          /\ transactions' = [transactions EXCEPT ![p] = "SETTLED"]
      BY <1>1, <1>t, CommitTakesEffect DEF CommitSettled, SettlementTypeOK
    <2>1. balance' = [a \in Accounts |->
                         balance[a] - (IF a = Sender[p] THEN Amount[p] ELSE 0)
                                    + (IF a = Receiver[p] THEN Amount[p] ELSE 0)]
      BY <1>1, <2>0, CommitMovesTheAmount
    <2> HIDE DEF p
    <2>2. /\ IsFiniteSet(Settled) /\ p \notin Settled
          /\ (\A q \in Settled : Amount[q] \in Int) /\ Amount[p] \in Int
      BY <2>0, FS_Subset DEF Settled
    <2>3. Settled' = Settled \cup {p}
      BY <2>0, <1>t DEF Settled, SettlementTypeOK
    <2>4. Balanced(balance, Accounts, InitialBalance, Settled, Amount, Amount, Sender, Receiver)
      BY BookedIsBalanced
    <2>5. /\ \A a \in Accounts : InitialBalance[a] \in Int
          /\ balance \in [Accounts -> Int]
      BY <1>t DEF SettlementTypeOK
    <2>6. Balanced(balance', Accounts, InitialBalance, Settled \cup {p}, Amount, Amount,
                  Sender, Receiver)
      BY <2>1, <2>2, <2>4, <2>5, TransferIsBooked
    <2> QED
      BY <2>3, <2>6, BookedIsBalanced
  <1>2. ASSUME NEW c \in Calls, CommitRejected(c)
        PROVE  Booked'
    <2>1. /\ pc[c] = "commitRejected" /\ pay[c] \in Payments
          /\ transactions' = [transactions EXCEPT ![pay[c]] = "REJECTED"]
          /\ balance' = balance
      BY <1>2, <1>t DEF CommitRejected, SettlementTypeOK
    <2>2. transactions[pay[c]] = "none"
      BY <2>1 DEF SessionInv, VerdictInv, InsertsAreExclusive
    <2>3. Settled' = Settled
      BY <2>1, <2>2, <1>t DEF Settled, SettlementTypeOK
    <2> QED
      BY <2>1, <2>3 DEF Booked, BookBalance
  <1>3. CASE UNCHANGED <<balance, transactions>>
    BY <1>3 DEF Booked, BookBalance, Settled
  <1> QED
    BY <1>1, <1>2, <1>3
    DEF SettlementNext, SettlementStep, Begin, ReadSender, ReadReceiver, DebitSender,
        CreditReceiver, RecordSettled, RecordRejected, Insert, DatabaseError, Crash, Done,
        settlementVars

(* Inside transactions, and as long as nobody pays himself, every balance  *)
(* is what the recorded transactions make of the opening balance, whatever *)
(* fails and however often a packet is handed in: no credit is lost, no    *)
(* paisa created.  (The runs lost_credit and self_payment break it without *)
(* the one or the other condition.)                                        *)
THEOREM SessionsKeepTheBooks ==
  ASSUME SupportsTransactions, \A p \in Payments : Sender[p] # Receiver[p]
  PROVE  SettlementSpec => []Reconciled
  <1>1. SettlementInit => Booked
    <2> SUFFICES ASSUME SettlementInit PROVE Booked
      OBVIOUS
    <2>1. Settled = {} /\ balance = InitialBalance /\ \A a \in Accounts : balance[a] \in Int
      BY LedgerAssumption DEF SettlementInit, LedgerInit, Settled
    <2> QED
      BY <2>1, NothingIsBalanced, BookedIsBalanced
  <1>2. SessionInv /\ Booked /\ [SettlementNext]_settlementVars => Booked'
    BY StepBooked
  <1>3. SessionInv /\ Booked => Reconciled
    <2> SUFFICES ASSUME SessionInv, Booked, NEW a \in Accounts
                 PROVE  balance[a] = BookBalance(a) - SumPaid(Debited(a)) + SumPaid(Credited(a))
      BY DEF Reconciled
    <2>1. Debited(a) = {} /\ Credited(a) = {}
      BY DEF Debited, Credited
    <2>2. balance[a] = BookBalance(a) /\ balance[a] \in Int
      BY DEF Booked, SessionInv, SettlementTypeOK
    <2>3. balance[a] = balance[a] - 0 + 0
      BY <2>2
    <2> QED
      BY <2>1, <2>2, <2>3, NothingUnderWay
  <1> QED
    BY <1>1, <1>2, <1>3, SessionInvariant, PTL DEF SettlementSpec

=============================================================================
