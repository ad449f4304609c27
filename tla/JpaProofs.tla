------------------------------ MODULE JpaProofs ------------------------------
(***************************************************************************)
(* The Java backend: settle() under optimistic locking, and the ingestion  *)
(* in front of it, for every set of accounts, payments and threads.        *)
(***************************************************************************)
EXTENDS JavaIngestion, SumTheorems, FiniteSetTheorems, TLAPS

(* Arithmetic of the balance column. *)

LEMMA ColumnIsWhole ==
  ASSUME NEW x \in Int
  PROVE  Column(x) \in Int /\ Column(x) % Paisa = 0
  <1> DEFINE q == (x + 5) \div 10
  <1>1. q \in Int /\ Column(x) = q * 10
    BY DEF Column, Paisa
  <1> HIDE DEF q
  <1>2. (q * 10) % 10 = 0
    BY <1>1
  <1> QED
    BY <1>1, <1>2 DEF Paisa

\* What the column makes of a whole balance and an amount of any scale.
LEMMA ColumnOfSum ==
  ASSUME NEW b \in Int, b % Paisa = 0, NEW x \in Nat
  PROVE  /\ Taken(x) \in Int /\ Given(x) \in Int
         /\ Column(b - x) = b - Taken(x)
         /\ Column(b + x) = b + Given(x)
  <1> DEFINE m == b \div 10
             q == x \div 10
             r == x % 10
  <1>1. m \in Int /\ q \in Int /\ r \in 0 .. 9 /\ b = 10 * m /\ x = 10 * q + r
    BY DEF Paisa
  <1> HIDE DEF m, q, r
  <1>2. /\ (x + 4) \div 10 = IF r > 5 THEN q + 1 ELSE q
        /\ (x + 5) \div 10 = IF r >= 5 THEN q + 1 ELSE q
    BY <1>1
  <1>3. /\ (b - x + 5) \div 10 = IF r > 5 THEN m - q - 1 ELSE m - q
        /\ (b + x + 5) \div 10 = IF r >= 5 THEN m + q + 1 ELSE m + q
    BY <1>1
  <1> QED
    BY <1>1, <1>2, <1>3 DEF Column, Taken, Given, Paisa

(* Half a paisa is given to the receiver and not taken from the sender; of *)
(* any other amount as much is given as is taken, namely the whole paise   *)
(* nearest to it (Account.java, line 21).                                  *)
THEOREM HalfPaiseAreMade ==
  ASSUME NEW x \in Nat
  PROVE  /\ x % Paisa = 5 => Given(x) = Taken(x) + Paisa
         /\ x % Paisa # 5 => Given(x) = Taken(x)
         /\ Given(x) - x \in -4 .. 5 /\ Taken(x) - x \in -5 .. 4
  <1> DEFINE q == x \div 10
             r == x % 10
  <1>1. q \in Int /\ r \in 0 .. 9 /\ x = 10 * q + r
    OBVIOUS
  <1>r. x % Paisa = r
    BY DEF Paisa
  <1> HIDE DEF q, r
  <1>2. /\ (x + 4) \div 10 = IF r > 5 THEN q + 1 ELSE q
        /\ (x + 5) \div 10 = IF r >= 5 THEN q + 1 ELSE q
    BY <1>1
  <1> QED
    BY <1>1, <1>r, <1>2 DEF Taken, Given, Paisa

LEMMA WholePaiseMove ==
  ASSUME NEW x \in Nat, x % Paisa = 0
  PROVE  Taken(x) = x /\ Given(x) = x
  <1> DEFINE q == x \div 10
  <1>1. q \in Int /\ x = 10 * q
    BY DEF Paisa
  <1> HIDE DEF q
  <1>2. (x + 4) \div 10 = q /\ (x + 5) \div 10 = q
    BY <1>1
  <1> QED
    BY <1>1, <1>2 DEF Taken, Given, Paisa

LEMMA JpaInitTypeOK == JpaInit => JpaTypeOK
  <1> USE LedgerAssumption, JpaAssumption
  <1> SUFFICES ASSUME JpaInit PROVE JpaTypeOK
    OBVIOUS
  <1>1. /\ balance \in [Accounts -> Int] /\ transactions \in [Payments -> Statuses]
        /\ \A a \in Accounts : balance[a] % Paisa = 0
    BY DEF JpaInit, LedgerInit, Statuses
  <1>2. NoRow \in Row
    BY DEF NoRow, Row
  <1>3. view \in [Calls -> [sender : Row, receiver : Row]]
    BY <1>2 DEF JpaInit
  <1> QED
    BY <1>1, <1>3 DEF JpaInit, JpaTypeOK

LEMMA SavedRowIsARow ==
  ASSUME JpaTypeOK, NEW a \in Accounts
  PROVE  SavedRow(a) \in Row
  BY DEF JpaTypeOK, SavedRow, Row

LEMMA JpaStepTypeOK == JpaTypeOK /\ [JpaNext]_jpaVars => JpaTypeOK'
  <1> USE LedgerAssumption, JpaAssumption
  <1> SUFFICES ASSUME JpaTypeOK, [JpaNext]_jpaVars
               PROVE  JpaTypeOK'
    OBVIOUS
  <1>1. ASSUME NEW c \in Calls, NEW p \in Payments, Begin(c, p)
        PROVE  JpaTypeOK'
    BY <1>1 DEF Begin, Goto, JpaTypeOK, Active
  <1>2. ASSUME NEW c \in Calls, FindSender(c)
        PROVE  JpaTypeOK'
    <2>1. view' \in [Calls -> [sender : Row, receiver : Row]]
      <3>1. CASE Sender[pay[c]] \in Accounts
        <4>1. SavedRow(Sender[pay[c]]) \in Row
          BY <3>1, SavedRowIsARow
        <4> QED
          BY <1>2, <3>1, <4>1 DEF FindSender, JpaTypeOK
      <3>2. CASE Sender[pay[c]] \notin Accounts
        BY <1>2, <3>2 DEF FindSender, JpaTypeOK
      <3> QED
        BY <3>1, <3>2
    <2>2. pc' \in [Calls -> {"idle"} \cup Active \cup Returned] /\ pay[c] \in Payments
      BY <1>2 DEF FindSender, Goto, JpaTypeOK, Active, Returned
    <2> QED
      BY <1>2, <2>1, <2>2 DEF FindSender, Goto, JpaTypeOK
  <1>3. ASSUME NEW c \in Calls, FindReceiver(c)
        PROVE  JpaTypeOK'
    <2>1. view' \in [Calls -> [sender : Row, receiver : Row]]
      <3>1. CASE Receiver[pay[c]] \in Accounts /\ Amount[pay[c]] > 0
        <4>1. SavedRow(Receiver[pay[c]]) \in Row
          BY <3>1, SavedRowIsARow
        <4>2. (IF ToOneself(pay[c]) THEN view[c].sender ELSE SavedRow(Receiver[pay[c]])) \in Row
          BY <4>1 DEF JpaTypeOK
        <4> QED
          BY <1>3, <3>1, <4>2 DEF FindReceiver, JpaTypeOK
      <3>2. CASE ~(Receiver[pay[c]] \in Accounts /\ Amount[pay[c]] > 0)
        BY <1>3, <3>2 DEF FindReceiver, JpaTypeOK
      <3> QED
        BY <3>1, <3>2
    <2>2. pc' \in [Calls -> {"idle"} \cup Active \cup Returned] /\ pay[c] \in Payments
      BY <1>3 DEF FindReceiver, Goto, JpaTypeOK, Active, Returned
    <2> QED
      BY <1>3, <2>1, <2>2 DEF FindReceiver, Goto, JpaTypeOK
  <1>4. ASSUME NEW c \in Calls, SaveTransaction(c)
        PROVE  JpaTypeOK'
    BY <1>4 DEF SaveTransaction, Goto, JpaTypeOK, Active, Returned
  <1>5. ASSUME NEW c \in Calls, UpdateSender(c) \/ UpdateReceiver(c)
        PROVE  JpaTypeOK'
    BY <1>5 DEF UpdateSender, UpdateReceiver, UpdateAccount, Goto, JpaTypeOK, Active, Returned
  <1>6. ASSUME NEW c \in Calls, CommitSettled(c)
        PROVE  JpaTypeOK'
    <2>1. pay[c] \in Payments
      BY <1>6 DEF CommitSettled, JpaTypeOK
    <2> DEFINE s == Column(view[c].sender.balance - Amount[pay[c]])
               r == Column(view[c].receiver.balance + Amount[pay[c]])
               t == view[c].sender.version + 1
               u == view[c].receiver.version + 1
    <2>2. /\ s \in Int /\ r \in Int /\ s % Paisa = 0 /\ r % Paisa = 0
          /\ t \in Nat /\ u \in Nat
      <3>1. /\ view[c].sender.balance - Amount[pay[c]] \in Int
            /\ view[c].receiver.balance + Amount[pay[c]] \in Int
            /\ t \in Nat /\ u \in Nat
        BY <2>1 DEF JpaTypeOK, Row
      <3> QED
        BY <3>1, ColumnIsWhole
    <2>3. /\ balance' \in [Accounts -> Int] /\ version' \in [Accounts -> Nat]
          /\ \A a \in Accounts : balance'[a] % Paisa = 0
      <3>1. \/ balance' = [balance EXCEPT ![Sender[pay[c]]] = s, ![Receiver[pay[c]]] = r]
            \/ balance' = balance
        BY <1>6 DEF CommitSettled
      <3>2. \/ version' = [version EXCEPT ![Sender[pay[c]]] = t, ![Receiver[pay[c]]] = u]
            \/ version' = version
        BY <1>6 DEF CommitSettled
      <3> HIDE DEF s, r, t, u
      <3>3. balance \in [Accounts -> Int] /\ \A a \in Accounts : balance[a] % Paisa = 0
        BY DEF JpaTypeOK
      <3>4. \A a \in Accounts : balance'[a] \in {balance[a], s, r}
        BY <3>1, <3>3
      <3>5. balance' \in [Accounts -> Int] /\ \A a \in Accounts : balance'[a] % Paisa = 0
        BY <2>2, <3>1, <3>3, <3>4
      <3> QED
        BY <2>2, <3>2, <3>5 DEF JpaTypeOK
    <2>4. transactions' \in [Payments -> Statuses]
      BY <1>6 DEF CommitSettled, JpaTypeOK, Statuses
    <2> QED
      BY <1>6, <2>1, <2>3, <2>4 DEF CommitSettled, Goto, JpaTypeOK, Active, Returned
  <1>7. ASSUME NEW c \in Calls, CommitRejected(c)
        PROVE  JpaTypeOK'
    <2>1. transactions' \in [Payments -> Statuses]
      BY <1>7 DEF CommitRejected, JpaTypeOK, Statuses
    <2> QED
      BY <1>7, <2>1 DEF CommitRejected, Goto, JpaTypeOK, Active, Returned
  <1>8. ASSUME NEW c \in Calls, LockTimeout(c) \/ Throw(c)
        PROVE  JpaTypeOK'
    BY <1>8 DEF LockTimeout, Throw, Waiting, Goto, JpaTypeOK, Active, Returned
  <1>9. CASE UNCHANGED jpaVars
    BY <1>9 DEF jpaVars, JpaTypeOK
  <1> QED
    BY <1>1, <1>2, <1>3, <1>4, <1>5, <1>6, <1>7, <1>8, <1>9 DEF JpaNext, JpaStep, Done

(* Every column and every loaded entity keeps its type.                    *)
THEOREM JpaTypeCorrect == JpaSpec => []JpaTypeOK
  BY JpaInitTypeOK, JpaStepTypeOK, PTL DEF JpaSpec

-----------------------------------------------------------------------------
\* Two open transactions never hold the same key, nor one that is on record;
\* and one that has committed is alone with its key for good.
KeysAreExclusive ==
    \A c \in Calls :
        /\ c \in Inserted =>
              /\ transactions[pay[c]] = "none"
              /\ \A d \in Inserted \ {c} : pay[d] # pay[c]
        /\ pc[c] \in {"settled", "rejected"} =>
              /\ transactions[pay[c]] # "none"
              /\ \A d \in Calls \ {c} :
                    pay[d] = pay[c] => pc[d] \notin {"settled", "rejected"}

LEMMA StepKeysAreExclusive ==
  JpaTypeOK /\ KeysAreExclusive /\ [JpaNext]_jpaVars => KeysAreExclusive'
  <1> USE LedgerAssumption, JpaAssumption
  <1> SUFFICES ASSUME JpaTypeOK, KeysAreExclusive, [JpaNext]_jpaVars
               PROVE  KeysAreExclusive'
    OBVIOUS
  <1> DEFINE Open == {"updateSender", "updateReceiver", "commit", "commitRejected"}
             Told == {"settled", "rejected"}
  <1>i. Inserted = {c \in Calls : pc[c] \in Open} /\ Inserted' = {c \in Calls : pc'[c] \in Open}
    BY DEF Inserted
  <1>k. /\ \A c \in Calls : pc[c] \in Open =>
              /\ transactions[pay[c]] = "none"
              /\ \A d \in Calls \ {c} : pc[d] \in Open => pay[d] # pay[c]
        /\ \A c \in Calls : pc[c] \in Told =>
              /\ transactions[pay[c]] # "none"
              /\ \A d \in Calls \ {c} : pc[d] \in Told => pay[d] # pay[c]
    BY <1>i DEF KeysAreExclusive
  <1>g. ASSUME \A c \in Calls : pc'[c] \in Open =>
                  /\ transactions'[pay'[c]] = "none"
                  /\ \A d \in Calls \ {c} : pc'[d] \in Open => pay'[d] # pay'[c],
               \A c \in Calls : pc'[c] \in Told =>
                  /\ transactions'[pay'[c]] # "none"
                  /\ \A d \in Calls \ {c} : pc'[d] \in Told => pay'[d] # pay'[c]
        PROVE  KeysAreExclusive'
    BY <1>g, <1>i DEF KeysAreExclusive
  \* A step that opens nothing and tells nobody anything.
  <1>q. ASSUME NEW c \in Calls, UNCHANGED transactions,
               \A d \in Calls \ {c} : pc'[d] = pc[d] /\ pay'[d] = pay[d],
               pay'[c] = pay[c] \/ pc'[c] = "sender",
               pc'[c] \in Open => pc[c] \in Open, pc'[c] \notin Told
        PROVE  KeysAreExclusive'
    BY <1>q, <1>k, <1>g
  <1>1. ASSUME NEW c \in Calls, NEW p \in Payments, Begin(c, p)
        PROVE  KeysAreExclusive'
    BY <1>1, <1>q DEF Begin, Goto, JpaTypeOK
  <1>2. ASSUME NEW c \in Calls, FindSender(c) \/ FindReceiver(c)
        PROVE  KeysAreExclusive'
    BY <1>2, <1>q DEF FindSender, FindReceiver, Goto, JpaTypeOK
  <1>3. ASSUME NEW c \in Calls, SaveTransaction(c)
        PROVE  KeysAreExclusive'
    <2>1. CASE KeyTaken(c)
      BY <1>3, <2>1, <1>q DEF SaveTransaction, Goto, JpaTypeOK
    <2>2. CASE ~KeyTaken(c)
      <3>1. /\ UNCHANGED <<transactions, pay>> /\ pc'[c] \in Open
            /\ \A d \in Calls \ {c} : pc'[d] = pc[d]
            /\ transactions[pay[c]] = "none"
            /\ \A d \in Calls \ {c} : pc[d] \in Open => pay[d] # pay[c]
        BY <1>3, <2>2, <1>i DEF SaveTransaction, KeyTaken, KeyHeld, Goto, JpaTypeOK
      <3> QED
        BY <3>1, <1>k, <1>g
    <2> QED
      BY <2>1, <2>2
  <1>4. ASSUME NEW c \in Calls, UpdateSender(c) \/ UpdateReceiver(c)
        PROVE  KeysAreExclusive'
    BY <1>4, <1>q DEF UpdateSender, UpdateReceiver, UpdateAccount, Goto, JpaTypeOK
  <1>5. ASSUME NEW c \in Calls, CommitSettled(c) \/ CommitRejected(c)
        PROVE  KeysAreExclusive'
    <2>1. /\ pc[c] \in Open /\ pc'[c] \in Told /\ UNCHANGED pay /\ pay[c] \in Payments
          /\ \A d \in Calls \ {c} : pc'[d] = pc[d]
          /\ transactions'[pay[c]] # "none"
          /\ \A p \in Payments \ {pay[c]} : transactions'[p] = transactions[p]
      BY <1>5 DEF CommitSettled, CommitRejected, Goto, JpaTypeOK
    <2>2. \A d \in Calls : pc[d] \in Open \cup Told => pay[d] \in Payments
      BY DEF JpaTypeOK
    <2>3. \A d \in Calls \ {c} : pc[d] \in Open \cup Told => pay[d] # pay[c]
      BY <2>1, <1>k
    <2> QED
      BY <2>1, <2>2, <2>3, <1>k, <1>g
  <1>6. ASSUME NEW c \in Calls, LockTimeout(c) \/ Throw(c)
        PROVE  KeysAreExclusive'
    BY <1>6, <1>q DEF LockTimeout, Throw, Goto, JpaTypeOK
  <1>7. CASE UNCHANGED jpaVars
    BY <1>7, <1>k, <1>g DEF jpaVars
  <1> QED
    BY <1>1, <1>2, <1>3, <1>4, <1>5, <1>6, <1>7 DEF JpaNext, JpaStep, Done

-----------------------------------------------------------------------------
\* A loaded row is no newer than the saved one, and the same at the same version.
Fresh(row, a) ==
    /\ row.version <= version[a]
    /\ row.version = version[a] => row.balance = balance[a]

\* Both parties are loaded.
Past == {"insert", "insertRejected", "updateSender", "updateReceiver", "commit",
         "commitRejected"}

\* What thread c has loaded, and what it has found out about it.
Loaded(c) ==
    /\ pc[c] \in {"receiver"} \cup Past =>
          Sender[pay[c]] \in Accounts /\ Fresh(view[c].sender, Sender[pay[c]])
    /\ pc[c] \in Past => WellFormed(pay[c]) /\ Fresh(view[c].receiver, Receiver[pay[c]])
    /\ pc[c] \in Past \ {"insertRejected", "commitRejected"} =>
          view[c].sender.balance >= Amount[pay[c]]
    /\ pc[c] \in {"updateSender", "updateReceiver"} => ~ToOneself(pay[c])

\* An updated row is still at the version its update named: it is held ...
Holds(c) ==
    /\ (pc[c] \in {"updateReceiver", "commit"} /\ ~ToOneself(pay[c])) =>
          view[c].sender.version = version[Sender[pay[c]]]
    /\ (pc[c] = "commit" /\ ~ToOneself(pay[c])) =>
          view[c].receiver.version = version[Receiver[pay[c]]]

\* ... by one thread only.
RowsAreExclusive ==
    \A c, d \in Calls : c # d => Written(c) \cap Written(d) = {}

RowsInv ==
    /\ \A c \in Calls : Loaded(c) /\ Holds(c)
    /\ RowsAreExclusive

LEMMA StepRowsInv == JpaTypeOK /\ RowsInv /\ [JpaNext]_jpaVars => RowsInv'
  <1> USE LedgerAssumption, JpaAssumption
  <1> SUFFICES ASSUME JpaTypeOK, RowsInv, [JpaNext]_jpaVars
               PROVE  RowsInv'
    OBVIOUS
  <1>h. /\ \A c \in Calls : Loaded(c) /\ Holds(c)
        /\ \A c, d \in Calls : c # d => Written(c) \cap Written(d) = {}
    BY DEF RowsInv, RowsAreExclusive
  <1>g. ASSUME \A c \in Calls : Loaded(c)' /\ Holds(c)',
               \A c, d \in Calls : c # d => Written(c)' \cap Written(d)' = {}
        PROVE  RowsInv'
    BY <1>g DEF RowsInv, RowsAreExclusive
  <1>t. /\ pc \in [Calls -> {"idle"} \cup Active \cup Returned]
        /\ view \in [Calls -> [sender : Row, receiver : Row]]
        /\ pay \in [Calls -> Payments \cup {NoPayment}]
        /\ \A c \in Calls : pc[c] # "idle" => pay[c] \in Payments
    BY DEF JpaTypeOK
  \* A step of c that commits nothing leaves the others' rows as they are.
  <1>q. ASSUME NEW c \in Calls, UNCHANGED <<balance, version>>,
               \A d \in Calls \ {c} : pc'[d] = pc[d] /\ pay'[d] = pay[d] /\ view'[d] = view[d],
               Loaded(c)', Holds(c)',
               \A a \in Written(c)' : a \in Written(c) \/ ~RowHeld(c, a)
        PROVE  RowsInv'
    <2>1. \A d \in Calls \ {c} : Written(d)' = Written(d) /\ Loaded(d)' /\ Holds(d)'
      BY <1>q, <1>h DEF Written, Loaded, Holds, Fresh
    <2>2. ASSUME NEW d \in Calls \ {c}, NEW a \in Written(c)', a \in Written(d)'
          PROVE  FALSE
      BY <1>q, <1>h, <2>1, <2>2 DEF RowHeld
    <2>3. \A d, e \in Calls : d # e => Written(d)' \cap Written(e)' = {}
      BY <1>h, <2>1, <2>2
    <2> QED
      BY <1>q, <1>g, <2>1, <2>3
  \* A thread that has not updated anything or has returned holds nothing.
  <1>e. ASSUME NEW c \in Calls, UNCHANGED <<balance, version>>,
               \A d \in Calls \ {c} : pc'[d] = pc[d] /\ pay'[d] = pay[d] /\ view'[d] = view[d],
               pc'[c] \notin Past \cup {"receiver"}
        PROVE  RowsInv'
    <2>1. Loaded(c)' /\ Holds(c)' /\ Written(c)' = {}
      BY <1>e DEF Loaded, Holds, Written, Past
    <2> QED
      BY <1>e, <1>q, <2>1
  <1>1. ASSUME NEW c \in Calls, NEW p \in Payments, Begin(c, p)
        PROVE  RowsInv'
    BY <1>1, <1>e, <1>t DEF Begin, Goto, Past
  <1>2. ASSUME NEW c \in Calls, FindSender(c)
        PROVE  RowsInv'
    <2>1. CASE Sender[pay[c]] \notin Accounts
      BY <1>2, <2>1, <1>e, <1>t DEF FindSender, Goto, Past
    <2>2. CASE Sender[pay[c]] \in Accounts
      <3>1. /\ pc'[c] = "receiver" /\ view'[c].sender = SavedRow(Sender[pay[c]])
            /\ UNCHANGED <<balance, version, pay>>
            /\ \A d \in Calls \ {c} : pc'[d] = pc[d] /\ view'[d] = view[d]
        BY <1>2, <2>2, <1>t DEF FindSender, Goto
      <3>2. version[Sender[pay[c]]] \in Nat
        BY <2>2 DEF JpaTypeOK
      <3>3. Loaded(c)' /\ Holds(c)' /\ Written(c)' = {}
        BY <2>2, <3>1, <3>2 DEF Loaded, Holds, Written, Past, Fresh, SavedRow
      <3> QED
        BY <3>1, <3>3, <1>q
    <2> QED
      BY <2>1, <2>2
  <1>3. ASSUME NEW c \in Calls, FindReceiver(c)
        PROVE  RowsInv'
    <2>1. CASE ~(Receiver[pay[c]] \in Accounts /\ Amount[pay[c]] > 0)
      BY <1>3, <2>1, <1>e, <1>t DEF FindReceiver, Goto, Past
    <2>2. CASE Receiver[pay[c]] \in Accounts /\ Amount[pay[c]] > 0
      <3>1. /\ pc[c] = "receiver" /\ UNCHANGED <<balance, version, pay>>
            /\ pc'[c] = IF view[c].sender.balance < Amount[pay[c]] THEN "insertRejected"
                        ELSE "insert"
            /\ view'[c].sender = view[c].sender
            /\ view'[c].receiver = IF ToOneself(pay[c]) THEN view[c].sender
                                   ELSE SavedRow(Receiver[pay[c]])
            /\ \A d \in Calls \ {c} : pc'[d] = pc[d] /\ view'[d] = view[d]
        BY <1>3, <2>2, <1>t DEF FindReceiver, Goto
      <3>2. /\ Sender[pay[c]] \in Accounts /\ Fresh(view[c].sender, Sender[pay[c]])
            /\ WellFormed(pay[c])
        BY <1>h, <2>2, <3>1 DEF Loaded, WellFormed
      <3>3. Fresh(view[c].receiver, Receiver[pay[c]])'
        <4>1. version[Receiver[pay[c]]] \in Nat
          BY <2>2 DEF JpaTypeOK
        <4> QED
          BY <3>1, <3>2, <4>1 DEF Fresh, SavedRow, ToOneself
      <3>4. /\ pay[c] \in Payments /\ view[c].sender.balance \in Int /\ Amount[pay[c]] \in Nat
        BY <3>1, <1>t DEF Row
      <3>5. pc'[c] = "insert" => view[c].sender.balance >= Amount[pay[c]]
        BY <3>1, <3>4
      <3>6. Fresh(view[c].sender, Sender[pay[c]])'
        BY <3>1, <3>2 DEF Fresh
      <3>7. Loaded(c)' /\ Holds(c)' /\ Written(c)' = {}
        BY <3>1, <3>2, <3>3, <3>5, <3>6 DEF Loaded, Holds, Written, Past, WellFormed
      <3> QED
        BY <3>1, <3>7, <1>q
    <2> QED
      BY <2>1, <2>2
  <1>4. ASSUME NEW c \in Calls, SaveTransaction(c)
        PROVE  RowsInv'
    <2>1. CASE KeyTaken(c)
      BY <1>4, <2>1, <1>e, <1>t DEF SaveTransaction, Goto, Past
    <2>2. CASE ~KeyTaken(c)
      <3>1. /\ UNCHANGED <<balance, version, pay, view>>
            /\ \/ pc[c] = "insertRejected" /\ pc'[c] = "commitRejected"
               \/ pc[c] = "insert" /\ pc'[c] = "commit" /\ ToOneself(pay[c])
               \/ pc[c] = "insert" /\ pc'[c] = "updateSender" /\ ~ToOneself(pay[c])
            /\ \A d \in Calls \ {c} : pc'[d] = pc[d]
        BY <1>4, <2>2, <1>t DEF SaveTransaction, Goto
      <3>2. Loaded(c)' /\ Holds(c)' /\ Written(c)' = {}
        BY <3>1, <1>h DEF Loaded, Holds, Written, Past, Fresh
      <3> QED
        BY <3>1, <3>2, <1>q
    <2> QED
      BY <2>1, <2>2
  <1>5. ASSUME NEW c \in Calls, UpdateSender(c)
        PROVE  RowsInv'
    <2>1. CASE IsStaleRow(Sender[pay[c]], view[c].sender)
      BY <1>5, <2>1, <1>e, <1>t DEF UpdateSender, UpdateAccount, Goto, Past
    <2>2. CASE ~IsStaleRow(Sender[pay[c]], view[c].sender)
      <3>1. /\ UNCHANGED <<balance, version, pay, view>> /\ pc[c] = "updateSender"
            /\ pc'[c] = "updateReceiver" /\ ~RowHeld(c, Sender[pay[c]])
            /\ version[Sender[pay[c]]] = view[c].sender.version
            /\ \A d \in Calls \ {c} : pc'[d] = pc[d]
        BY <1>5, <2>2, <1>t DEF UpdateSender, UpdateAccount, Goto, IsStaleRow
      <3>2. Loaded(c)' /\ Holds(c)' /\ \A a \in Written(c)' : a = Sender[pay[c]]
        BY <3>1, <1>h DEF Loaded, Holds, Written, Past, Fresh
      <3> QED
        BY <3>1, <3>2, <1>q
    <2> QED
      BY <2>1, <2>2
  <1>6. ASSUME NEW c \in Calls, UpdateReceiver(c)
        PROVE  RowsInv'
    <2>1. CASE IsStaleRow(Receiver[pay[c]], view[c].receiver)
      BY <1>6, <2>1, <1>e, <1>t DEF UpdateReceiver, UpdateAccount, Goto, Past
    <2>2. CASE ~IsStaleRow(Receiver[pay[c]], view[c].receiver)
      <3>1. /\ UNCHANGED <<balance, version, pay, view>> /\ pc[c] = "updateReceiver"
            /\ pc'[c] = "commit" /\ ~RowHeld(c, Receiver[pay[c]])
            /\ version[Receiver[pay[c]]] = view[c].receiver.version
            /\ \A d \in Calls \ {c} : pc'[d] = pc[d]
        BY <1>6, <2>2, <1>t DEF UpdateReceiver, UpdateAccount, Goto, IsStaleRow
      <3>2. /\ Loaded(c)' /\ Holds(c)'
            /\ \A a \in Written(c)' : a \in Written(c) \/ a = Receiver[pay[c]]
        BY <3>1, <1>h DEF Loaded, Holds, Written, Past, Fresh
      <3> QED
        BY <3>1, <3>2, <1>q
    <2> QED
      BY <2>1, <2>2
  <1>7. ASSUME NEW c \in Calls, CommitSettled(c), ToOneself(pay[c])
        PROVE  RowsInv'
    BY <1>7, <1>e, <1>t DEF CommitSettled, Goto, Past
  <1>8. ASSUME NEW c \in Calls, CommitSettled(c), ~ToOneself(pay[c])
        PROVE  RowsInv'
    <2> DEFINE s == Sender[pay[c]]
               r == Receiver[pay[c]]
    <2>1. /\ s \in Accounts /\ r \in Accounts /\ s # r
          /\ s \in Written(c) /\ r \in Written(c)
          /\ view[c].sender.version = version[s] /\ view[c].receiver.version = version[r]
      BY <1>8, <1>h DEF CommitSettled, Loaded, Holds, Past, WellFormed, ToOneself, Written
    <2>2. /\ pc'[c] = "settled" /\ UNCHANGED <<pay, view>>
          /\ \A d \in Calls \ {c} : pc'[d] = pc[d]
      BY <1>8, <1>t DEF CommitSettled, Goto
    <2>3. /\ version'[s] = version[s] + 1 /\ version'[r] = version[r] + 1
          /\ \A a \in Accounts \ {s, r} : version'[a] = version[a] /\ balance'[a] = balance[a]
          /\ \A a \in Accounts : version[a] \in Nat
      BY <1>8, <2>1 DEF CommitSettled, JpaTypeOK
    <2>4. \A d \in Calls \ {c} : s \notin Written(d) /\ r \notin Written(d)
      BY <1>h, <2>1
    <2> HIDE DEF s, r
    <2>5. ASSUME NEW row \in Row, NEW a \in Accounts, Fresh(row, a)
          PROVE  Fresh(row, a)'
      BY <2>1, <2>3, <2>5 DEF Fresh, Row
    <2>6. ASSUME NEW d \in Calls \ {c}
          PROVE  Loaded(d)' /\ Holds(d)' /\ Written(d)' = Written(d)
      <3>1. view[d].sender \in Row /\ view[d].receiver \in Row
        BY <1>t
      <3>2. Written(d)' = Written(d)
        BY <2>2 DEF Written
      <3>3. Loaded(d)'
        BY <1>h, <2>2, <2>5, <3>1 DEF Loaded, WellFormed
      <3>4. \A a \in Written(d) : a \in Accounts \ {s, r}
        BY <2>4 DEF Written
      <3>5. Holds(d)'
        BY <1>h, <2>2, <2>3, <3>4 DEF Holds, Written, Loaded, Past, WellFormed
      <3> QED
        BY <3>2, <3>3, <3>5
    <2>7. Loaded(c)' /\ Holds(c)' /\ Written(c)' = {}
      BY <2>2 DEF Loaded, Holds, Written, Past
    <2>8. \A d, e \in Calls : d # e => Written(d)' \cap Written(e)' = {}
      BY <1>h, <2>6, <2>7
    <2> QED
      BY <1>g, <2>6, <2>7, <2>8
  <1>9. ASSUME NEW c \in Calls, CommitRejected(c) \/ LockTimeout(c) \/ Throw(c)
        PROVE  RowsInv'
    BY <1>9, <1>e, <1>t DEF CommitRejected, LockTimeout, Throw, Goto, Past
  <1>10. CASE UNCHANGED jpaVars
    <2>1. \A c \in Calls : Written(c)' = Written(c) /\ Loaded(c)' /\ Holds(c)'
      BY <1>10, <1>h DEF jpaVars, Written, Loaded, Holds, Fresh
    <2> QED
      BY <1>h, <1>g, <2>1
  <1> QED
    BY <1>1, <1>2, <1>3, <1>4, <1>5, <1>6, <1>7, <1>8, <1>9, <1>10 DEF JpaNext, JpaStep, Done

JpaInv == JpaTypeOK /\ KeysAreExclusive /\ RowsInv

LEMMA JpaInvariant == JpaSpec => []JpaInv
  <1>1. JpaInit => KeysAreExclusive /\ RowsInv
    BY DEF JpaInit, KeysAreExclusive, Inserted, RowsInv, RowsAreExclusive, Loaded, Holds,
           Past, Written
  <1> QED
    BY <1>1, JpaTypeCorrect, StepKeysAreExclusive, StepRowsInv, PTL DEF JpaSpec, JpaInv

-----------------------------------------------------------------------------
\* The two roundings as functions of the payment.
takenOf == [p \in Payments |-> Taken(Amount[p])]
givenOf == [p \in Payments |-> Given(Amount[p])]

LEMMA RoundedAmounts ==
  \A p \in Payments : /\ takenOf[p] = Taken(Amount[p]) /\ takenOf[p] \in Int
                      /\ givenOf[p] = Given(Amount[p]) /\ givenOf[p] \in Int
  <1> SUFFICES ASSUME NEW p \in Payments
               PROVE  Taken(Amount[p]) \in Int /\ Given(Amount[p]) \in Int
    BY DEF takenOf, givenOf
  <1>1. Amount[p] \in Nat
    BY LedgerAssumption
  <1> QED
    BY <1>1 DEF Taken, Given, Paisa

\* What a commit does to the rows, whatever happened since they were read.
LEMMA JpaCommit ==
  ASSUME JpaInv, NEW c \in Calls, CommitSettled(c)
  PROVE  /\ pay[c] \in Payments /\ WellFormed(pay[c])
         /\ transactions[pay[c]] = "none"
         /\ transactions' = [transactions EXCEPT ![pay[c]] = "SETTLED"]
         /\ ToOneself(pay[c]) => UNCHANGED <<balance, version>>
         /\ ~ToOneself(pay[c]) =>
              /\ balance[Sender[pay[c]]] >= Amount[pay[c]]
              /\ balance' = [a \in Accounts |->
                     balance[a] - (IF a = Sender[pay[c]] THEN takenOf[pay[c]] ELSE 0)
                                + (IF a = Receiver[pay[c]] THEN givenOf[pay[c]] ELSE 0)]
              /\ balance'[Sender[pay[c]]] >= 0
              /\ version' = [a \in Accounts |->
                     IF a \in {Sender[pay[c]], Receiver[pay[c]]} THEN version[a] + 1
                     ELSE version[a]]
  <1> USE LedgerAssumption, JpaAssumption
  <1> DEFINE p == pay[c]
             s == Sender[p]
             r == Receiver[p]
             n == Amount[p]
  <1>1. /\ p \in Payments /\ WellFormed(p) /\ transactions[p] = "none"
        /\ transactions' = [transactions EXCEPT ![p] = "SETTLED"]
        /\ s \in Accounts /\ r \in Accounts /\ n \in Nat
        /\ view[c].sender.balance >= n
        /\ Fresh(view[c].sender, s) /\ Fresh(view[c].receiver, r)
    BY DEF CommitSettled, JpaInv, JpaTypeOK, KeysAreExclusive, Inserted, RowsInv, Loaded, Past,
           WellFormed
  <1>2. /\ balance \in [Accounts -> Int] /\ version \in [Accounts -> Nat]
        /\ \A a \in Accounts : balance[a] % Paisa = 0
    BY DEF JpaInv, JpaTypeOK
  <1>3. CASE ToOneself(p)
    BY <1>1, <1>3 DEF CommitSettled
  <1>4. CASE ~ToOneself(p)
    <2>1. /\ view[c].sender.version = version[s] /\ view[c].receiver.version = version[r]
          /\ view[c].sender.balance = balance[s] /\ view[c].receiver.balance = balance[r]
          /\ s # r
      BY <1>1, <1>4 DEF CommitSettled, JpaInv, RowsInv, Holds, Fresh, ToOneself
    <2>2. /\ balance' = [balance EXCEPT ![s] = Column(balance[s] - n),
                                        ![r] = Column(balance[r] + n)]
          /\ version' = [version EXCEPT ![s] = version[s] + 1, ![r] = version[r] + 1]
      BY <1>4, <2>1 DEF CommitSettled
    <2>3. /\ takenOf[p] \in Int /\ givenOf[p] \in Int
          /\ Column(balance[s] - n) = balance[s] - takenOf[p]
          /\ Column(balance[r] + n) = balance[r] + givenOf[p]
      BY <1>1, <1>2, ColumnOfSum, RoundedAmounts
    <2>4. balance[s] >= n /\ balance'[s] >= 0
      <3>1. balance[s] >= n
        BY <1>1, <2>1
      <3>2. balance'[s] = Column(balance[s] - n) /\ balance[s] \in Int
        BY <1>1, <1>2, <2>1, <2>2
      <3>3. Column(balance[s] - n) >= 0
        BY <1>1, <3>1, <3>2 DEF Column, Paisa
      <3> QED
        BY <3>1, <3>2, <3>3
    <2>5. balance' = [a \in Accounts |-> balance[a] - (IF a = s THEN takenOf[p] ELSE 0)
                                                    + (IF a = r THEN givenOf[p] ELSE 0)]
      <3>1. balance' = [balance EXCEPT ![s] = balance[s] - takenOf[p],
                                       ![r] = balance[r] + givenOf[p]]
        BY <2>2, <2>3
      <3>2. /\ s \in Accounts /\ r \in Accounts /\ s # r
            /\ takenOf[p] \in Int /\ givenOf[p] \in Int
        BY <1>1, <2>1, <2>3
      <3> DEFINE m == takenOf[p]
                 k == givenOf[p]
      <3> HIDE DEF s, r, n, p, m, k
      <3>3. ASSUME NEW a \in Accounts
            PROVE  balance'[a] = balance[a] - (IF a = s THEN m ELSE 0) + (IF a = r THEN k ELSE 0)
        <4>0. balance[a] \in Int /\ m \in Int /\ k \in Int
          BY <1>2, <3>2 DEF m, k
        <4>1. CASE a = s
          BY <1>2, <3>1, <3>2, <4>0, <4>1 DEF m, k
        <4>2. CASE a = r
          BY <1>2, <3>1, <3>2, <4>0, <4>2 DEF m, k
        <4>3. CASE a # s /\ a # r
          BY <1>2, <3>1, <3>2, <4>0, <4>3
        <4> QED
          BY <4>1, <4>2, <4>3
      <3>4. balance' = [a \in Accounts |-> balance'[a]]
        BY <1>2, <3>1
      <3> QED
        BY <3>3, <3>4 DEF m, k
    <2>6. version' = [a \in Accounts |-> IF a \in {s, r} THEN version[a] + 1 ELSE version[a]]
      BY <1>1, <1>2, <2>1, <2>2
    <2> QED
      BY <1>1, <1>4, <2>4, <2>5, <2>6
  <1> QED
    BY <1>3, <1>4

LEMMA JpaCommitRejected ==
  ASSUME JpaInv, NEW c \in Calls, CommitRejected(c)
  PROVE  /\ pay[c] \in Payments /\ WellFormed(pay[c])
         /\ transactions[pay[c]] = "none"
         /\ transactions' = [transactions EXCEPT ![pay[c]] = "REJECTED"]
         /\ UNCHANGED <<balance, version>>
  BY DEF CommitRejected, JpaInv, JpaTypeOK, KeysAreExclusive, Inserted, RowsInv, Loaded, Past

\* Every other step leaves the ledger and the versions as they are.
LEMMA OnlyCommitsCount ==
  ASSUME [JpaNext]_jpaVars
  PROVE  \/ \E c \in Calls : CommitSettled(c) \/ CommitRejected(c)
         \/ UNCHANGED <<balance, transactions, version>>
  BY DEF JpaNext, JpaStep, Done, jpaVars, Begin, FindSender, FindReceiver, SaveTransaction,
         UpdateSender, UpdateReceiver, UpdateAccount, LockTimeout, Throw

(* As long as nobody pays himself, the Java settlement implements the      *)
(* ledger with each column's rounding in it: the optimistic locks make     *)
(* settle() atomic although its reads, its insert and its updates are      *)
(* separate statements (SettlementService.java, lines 35 to 95).  A payment*)
(* to oneself updates no row, so that its decision may rest on a balance   *)
(* that is gone; what it does to the books is said by JpaKeepsTheBooks.    *)
THEOREM JpaImplementsRoundedLedger ==
  ASSUME \A p \in Payments : ~ToOneself(p)
  PROVE  JpaSpec => RoundedLedgerSpec
  <1>1. JpaInit => LedgerInit
    BY DEF JpaInit
  <1>2. JpaInv /\ [JpaNext]_jpaVars
          => [\E p \in Payments : RoundedTransfer(p) \/ Reject(p)]_ledgerVars
    <2> SUFFICES ASSUME JpaInv, [JpaNext]_jpaVars
                 PROVE  [\E p \in Payments : RoundedTransfer(p) \/ Reject(p)]_ledgerVars
      OBVIOUS
    <2>1. ASSUME NEW c \in Calls, CommitSettled(c)
          PROVE  pay[c] \in Payments /\ RoundedTransfer(pay[c])
      BY <2>1, JpaCommit, RoundedAmounts DEF RoundedTransfer, Transfer
    <2>2. ASSUME NEW c \in Calls, CommitRejected(c)
          PROVE  pay[c] \in Payments /\ Reject(pay[c])
      BY <2>2, JpaCommitRejected DEF Reject
    <2> QED
      BY <2>1, <2>2, OnlyCommitsCount DEF ledgerVars
  <1> QED
    BY <1>1, <1>2, JpaInvariant, PTL DEF JpaSpec, RoundedLedgerSpec

(* If the amounts are whole paise besides, it is the ledger itself that is *)
(* implemented, the one the Node service implements inside transactions.   *)
THEOREM JpaImplementsLedger ==
  ASSUME \A p \in Payments : ~ToOneself(p) /\ Amount[p] % Paisa = 0
  PROVE  JpaSpec => LedgerSpec
  <1>1. \A p \in Payments : RoundedTransfer(p) => Settle(p)
    <2> SUFFICES ASSUME NEW p \in Payments
                 PROVE  RoundedTransfer(p) => Settle(p)
      OBVIOUS
    <2>1. Taken(Amount[p]) = Amount[p] /\ Given(Amount[p]) = Amount[p]
      BY LedgerAssumption, WholePaiseMove
    <2> QED
      BY <2>1 DEF RoundedTransfer, Settle
  <1>2. [\E p \in Payments : RoundedTransfer(p) \/ Reject(p)]_ledgerVars
          => [LedgerNext]_ledgerVars
    BY <1>1 DEF LedgerNext
  <1>3. JpaSpec => RoundedLedgerSpec
    BY JpaImplementsRoundedLedger
  <1> QED
    BY <1>2, <1>3, PTL DEF RoundedLedgerSpec, LedgerSpec

-----------------------------------------------------------------------------
\* The transfers account a took part in.
TransfersOf(a) == {p \in Settled : ~ToOneself(p) /\ a \in {Sender[p], Receiver[p]}}

LEMMA StepVersionsCount ==
  JpaInv /\ VersionsCountTransfers /\ [JpaNext]_jpaVars => VersionsCountTransfers'
  <1> USE LedgerAssumption, JpaAssumption
  <1> SUFFICES ASSUME JpaInv, VersionsCountTransfers, [JpaNext]_jpaVars, NEW a \in Accounts
               PROVE  version'[a] = Cardinality(TransfersOf(a)')
    BY DEF VersionsCountTransfers, TransfersOf
  <1>1. version[a] = Cardinality(TransfersOf(a)) /\ version[a] \in Nat
    BY DEF VersionsCountTransfers, TransfersOf, JpaInv, JpaTypeOK
  <1>2. IsFiniteSet(TransfersOf(a))
    <2>1. TransfersOf(a) \subseteq Payments
      BY DEF TransfersOf, Settled
    <2> QED
      BY <2>1, FS_Subset
  <1>3. transactions \in [Payments -> Statuses]
    BY DEF JpaInv, JpaTypeOK
  <1>4. ASSUME NEW c \in Calls, CommitSettled(c)
        PROVE  version'[a] = Cardinality(TransfersOf(a)')
    <2> DEFINE p == pay[c]
    <2>1. /\ p \in Payments /\ p \notin Settled /\ Settled' = Settled \cup {p}
      BY <1>3, <1>4, JpaCommit DEF Settled
    <2>2. CASE ToOneself(p) \/ a \notin {Sender[p], Receiver[p]}
      <3>1. TransfersOf(a)' = TransfersOf(a)
        BY <2>1, <2>2 DEF TransfersOf, ToOneself
      <3>2. version'[a] = version[a]
        BY <1>4, <2>2, JpaCommit
      <3> QED
        BY <1>1, <3>1, <3>2
    <2>3. CASE ~ToOneself(p) /\ a \in {Sender[p], Receiver[p]}
      <3>1. TransfersOf(a)' = TransfersOf(a) \cup {p} /\ p \notin TransfersOf(a)
        BY <2>1, <2>3 DEF TransfersOf, ToOneself
      <3>2. version'[a] = version[a] + 1
        BY <1>4, <2>3, JpaCommit
      <3>3. Cardinality(TransfersOf(a) \cup {p}) = Cardinality(TransfersOf(a)) + 1
        BY <1>2, <3>1, FS_AddElement
      <3> QED
        BY <1>1, <3>1, <3>2, <3>3
    <2> QED
      BY <2>2, <2>3
  <1>5. ASSUME NEW c \in Calls, CommitRejected(c)
        PROVE  version'[a] = Cardinality(TransfersOf(a)')
    <2>1. Settled' = Settled /\ version' = version
      BY <1>3, <1>5, JpaCommitRejected DEF Settled
    <2> QED
      BY <1>1, <2>1 DEF TransfersOf
  <1>6. CASE UNCHANGED <<balance, transactions, version>>
    BY <1>1, <1>6 DEF TransfersOf, Settled
  <1> QED
    BY <1>4, <1>5, <1>6, OnlyCommitsCount

(* The version of an account counts the transfers it took part in: under   *)
(* any interleaving no update is lost and none made twice                  *)
(* (Account.java, line 24).                                                *)
THEOREM VersionsAreCounts == JpaSpec => []VersionsCountTransfers
  <1>1. JpaInit => VersionsCountTransfers
    <2> SUFFICES ASSUME JpaInit, NEW a \in Accounts
                 PROVE  version[a] = Cardinality(TransfersOf(a))
      BY DEF VersionsCountTransfers, TransfersOf
    <2>1. TransfersOf(a) = {} /\ version[a] = 0
      BY DEF JpaInit, LedgerInit, TransfersOf, Settled
    <2> QED
      BY <2>1, FS_EmptySet
  <1> QED
    BY <1>1, JpaInvariant, StepVersionsCount, PTL DEF JpaSpec

\* A row that is not the saved one is older: some transfer got through.
LEMMA StepStaleMeansProgress ==
  JpaInv /\ VersionsCountTransfers /\ StaleMeansProgress /\ [JpaNext]_jpaVars
    => StaleMeansProgress'
  <1> USE LedgerAssumption, JpaAssumption
  <1> SUFFICES ASSUME JpaInv, VersionsCountTransfers, StaleMeansProgress, [JpaNext]_jpaVars,
                      NEW c \in Calls, pc'[c] = "stale"
               PROVE  Settled' # {}
    BY DEF StaleMeansProgress
  <1>t. transactions \in [Payments -> Statuses]
    BY DEF JpaInv, JpaTypeOK
  <1>1. Settled \subseteq Settled'
    <2>1. ASSUME NEW d \in Calls, CommitSettled(d) \/ CommitRejected(d)
          PROVE  Settled \subseteq Settled'
      BY <1>t, <2>1, JpaCommit, JpaCommitRejected DEF Settled
    <2> QED
      BY <2>1, OnlyCommitsCount DEF Settled
  <1>2. CASE pc[c] = "stale"
    BY <1>1, <1>2 DEF StaleMeansProgress
  <1>3. CASE pc[c] # "stale"
    <2>1. UpdateSender(c) \/ UpdateReceiver(c)
      BY <1>3 DEF JpaInv, JpaTypeOK, JpaNext, JpaStep, Done, jpaVars, Begin, FindSender,
                  FindReceiver, SaveTransaction, UpdateSender, UpdateReceiver, UpdateAccount,
                  CommitSettled, CommitRejected, LockTimeout, Throw, Goto
    <2>2. PICK a \in Accounts, row \in Row : Fresh(row, a) /\ IsStaleRow(a, row)
      <3>1. CASE UpdateSender(c)
        <4>1. /\ Sender[pay[c]] \in Accounts /\ view[c].sender \in Row
              /\ Fresh(view[c].sender, Sender[pay[c]])
              /\ IsStaleRow(Sender[pay[c]], view[c].sender)
          BY <3>1, <1>3 DEF UpdateSender, UpdateAccount, Goto, JpaInv, JpaTypeOK, RowsInv,
                            Loaded, Past
        <4> QED
          BY <4>1
      <3>2. CASE UpdateReceiver(c)
        <4>1. /\ Receiver[pay[c]] \in Accounts /\ view[c].receiver \in Row
              /\ Fresh(view[c].receiver, Receiver[pay[c]])
              /\ IsStaleRow(Receiver[pay[c]], view[c].receiver)
          BY <3>2, <1>3 DEF UpdateReceiver, UpdateAccount, Goto, JpaInv, JpaTypeOK, RowsInv,
                            Loaded, Past, WellFormed
        <4> QED
          BY <4>1
      <3> QED
        BY <2>1, <3>1, <3>2
    <2>3. version[a] # 0
      <3>1. row.version \in Nat /\ version[a] \in Nat
        BY DEF Row, JpaInv, JpaTypeOK
      <3> QED
        BY <2>2, <3>1 DEF Fresh, IsStaleRow
    <2>4. TransfersOf(a) # {}
      <3>1. version[a] = Cardinality(TransfersOf(a))
        BY DEF VersionsCountTransfers, TransfersOf
      <3> QED
        BY <2>3, <3>1, FS_EmptySet
    <2>5. Settled # {}
      BY <2>4 DEF TransfersOf
    <2> QED
      BY <1>1, <2>5
  <1> QED
    BY <1>2, <1>3

(* An update is refused as stale only because another transfer committed:  *)
(* optimistic locking never refuses everybody.                             *)
THEOREM StaleOnlyByProgress == JpaSpec => []StaleMeansProgress
  <1>1. JpaInit => StaleMeansProgress
    BY DEF JpaInit, StaleMeansProgress
  <1> QED
    BY <1>1, JpaInvariant, VersionsAreCounts, StepStaleMeansProgress, PTL DEF JpaSpec

-----------------------------------------------------------------------------
\* The settled payments that move money.
Moved == {p \in Settled : ~ToOneself(p)}

\* The balance the records make of the opening balance, every amount rounded
\* as a sender's and as a receiver's column round it; and no less than nothing.
BooksInOrder ==
    \A a \in Accounts :
        /\ balance[a] = InitialBalance[a] + SumOver(givenOf, {p \in Moved : Receiver[p] = a})
                                          - SumOver(takenOf, {p \in Moved : Sender[p] = a})
        /\ balance[a] >= 0

LEMMA BooksAreBalanced ==
  /\ BooksInOrder <=>
        /\ Balanced(balance, Accounts, InitialBalance, Moved, takenOf, givenOf, Sender, Receiver)
        /\ \A a \in Accounts : balance[a] >= 0
  /\ BooksInOrder' <=>
        /\ Balanced(balance', Accounts, InitialBalance, Moved', takenOf, givenOf,
                    Sender, Receiver)
        /\ \A a \in Accounts : balance'[a] >= 0
  <1>1. \A w, S : SumOver(w, S) = SumBy(w, S)
    BY Zenon DEF SumOver, SumBy
  <1>2. \A w, kind, a : SumOver(w, {p \in Moved : kind[p] = a}) = SumOfKind(w, Moved, kind, a)
    BY <1>1, Zenon DEF SumOfKind
  <1>3. \A w, kind, a : SumOver(w, {p \in Moved' : kind[p] = a}) = SumOfKind(w, Moved', kind, a)
    BY <1>1, Zenon DEF SumOfKind
  <1>4. /\ takenOf' = takenOf /\ givenOf' = givenOf
    BY DEF takenOf, givenOf, Taken, Given
  <1>5. BooksInOrder <=>
           \A a \in Accounts :
              /\ balance[a] = InitialBalance[a] + SumOfKind(givenOf, Moved, Receiver, a)
                                                - SumOfKind(takenOf, Moved, Sender, a)
              /\ balance[a] >= 0
    <2>1. \A a : /\ SumOver(givenOf, {p \in Moved : Receiver[p] = a})
                      = SumOfKind(givenOf, Moved, Receiver, a)
                 /\ SumOver(takenOf, {p \in Moved : Sender[p] = a})
                      = SumOfKind(takenOf, Moved, Sender, a)
      BY <1>2, Zenon
    <2> QED
      BY <2>1 DEF BooksInOrder
  <1>6. BooksInOrder' <=>
           \A a \in Accounts :
              /\ balance'[a] = InitialBalance[a] + SumOfKind(givenOf, Moved', Receiver, a)
                                                 - SumOfKind(takenOf, Moved', Sender, a)
              /\ balance'[a] >= 0
    <2>1. \A a : /\ SumOver(givenOf, {p \in Moved' : Receiver[p] = a})
                      = SumOfKind(givenOf, Moved', Receiver, a)
                 /\ SumOver(takenOf, {p \in Moved' : Sender[p] = a})
                      = SumOfKind(takenOf, Moved', Sender, a)
      BY <1>3, Zenon
    <2> QED
      BY <1>4, <2>1 DEF BooksInOrder
  <1> QED
    BY <1>5, <1>6, Zenon DEF Balanced

LEMMA StepBooksInOrder == JpaInv /\ BooksInOrder /\ [JpaNext]_jpaVars => BooksInOrder'
  <1> USE LedgerAssumption, JpaAssumption
  <1> SUFFICES ASSUME JpaInv, BooksInOrder, [JpaNext]_jpaVars
               PROVE  BooksInOrder'
    OBVIOUS
  <1>t. /\ transactions \in [Payments -> Statuses] /\ balance \in [Accounts -> Int]
        /\ \A a \in Accounts : balance[a] >= 0
    BY DEF JpaInv, JpaTypeOK, BooksInOrder
  <1>s. UNCHANGED <<balance, Moved>> => BooksInOrder'
    BY BooksAreBalanced
  <1>1. ASSUME NEW c \in Calls, CommitSettled(c), ToOneself(pay[c])
        PROVE  BooksInOrder'
    <2>1. Settled' = Settled \cup {pay[c]} /\ UNCHANGED balance
      BY <1>t, <1>1, JpaCommit DEF Settled
    <2>2. Moved' = Moved
      BY <1>1, <2>1 DEF Moved, ToOneself
    <2> QED
      BY <1>s, <2>1, <2>2
  <1>2. ASSUME NEW c \in Calls, CommitSettled(c), ~ToOneself(pay[c])
        PROVE  BooksInOrder'
    <2> DEFINE p == pay[c]
    <2>1. /\ p \in Payments /\ WellFormed(p) /\ p \notin Settled /\ Settled' = Settled \cup {p}
          /\ Sender[p] # Receiver[p] /\ balance'[Sender[p]] >= 0
          /\ balance' = [a \in Accounts |->
                           balance[a] - (IF a = Sender[p] THEN takenOf[p] ELSE 0)
                                      + (IF a = Receiver[p] THEN givenOf[p] ELSE 0)]
      BY <1>t, <1>2, JpaCommit DEF Settled, ToOneself
    <2>2. p \notin Moved /\ Moved' = Moved \cup {p} /\ Moved \subseteq Payments
      BY <2>1 DEF Moved, ToOneself, Settled
    <2> HIDE DEF p
    <2>3. /\ IsFiniteSet(Moved)
          /\ \A q \in Moved : takenOf[q] \in Int /\ givenOf[q] \in Int
          /\ takenOf[p] \in Int /\ givenOf[p] \in Int
      BY <2>1, <2>2, FS_Subset, RoundedAmounts
    <2>4. Balanced(balance, Accounts, InitialBalance, Moved, takenOf, givenOf, Sender, Receiver)
      BY BooksAreBalanced
    <2>5. \A a \in Accounts : InitialBalance[a] \in Int
      OBVIOUS
    <2>6. Balanced(balance', Accounts, InitialBalance, Moved \cup {p}, takenOf, givenOf,
                   Sender, Receiver)
      BY <1>t, <2>1, <2>2, <2>3, <2>4, <2>5, TransferIsBooked
    <2>7. ASSUME NEW a \in Accounts
          PROVE  balance'[a] >= 0
      <3>1. balance[a] \in Int /\ balance[a] >= 0
        BY <1>t
      <3>2. givenOf[p] >= 0
        BY <2>1, RoundedAmounts DEF Given, Paisa
      <3>3. a # Sender[p] => balance'[a] = balance[a] + (IF a = Receiver[p] THEN givenOf[p] ELSE 0)
        BY <2>1, <3>1, <2>3
      <3> QED
        BY <2>1, <2>3, <3>1, <3>2, <3>3
    <2> QED
      BY <2>2, <2>6, <2>7, BooksAreBalanced
  <1>3. ASSUME NEW c \in Calls, CommitRejected(c)
        PROVE  BooksInOrder'
    <2>1. Settled' = Settled /\ balance' = balance
      BY <1>t, <1>3, JpaCommitRejected DEF Settled
    <2> QED
      BY <1>s, <2>1 DEF Moved, ToOneself
  <1>4. CASE UNCHANGED <<balance, transactions, version>>
    BY <1>s, <1>4 DEF Moved, Settled, ToOneself
  <1> QED
    BY <1>1, <1>2, <1>3, <1>4, OnlyCommitsCount

(* Whatever fails, crosses, waits or is delivered again, every balance is  *)
(* what the recorded transactions make of the opening balance, to the      *)
(* column's rounding, and never below zero.  A payment to oneself moves    *)
(* nothing, where the Node service turns it into money                     *)
(* (settlementService.js, line 91).                                        *)
THEOREM JpaKeepsTheBooks == JpaSpec => []BooksInOrder
  <1>1. JpaInit => BooksInOrder
    <2> SUFFICES ASSUME JpaInit PROVE BooksInOrder
      OBVIOUS
    <2>1. /\ Moved = {} /\ balance = InitialBalance
          /\ \A a \in Accounts : InitialBalance[a] \in Int /\ balance[a] >= 0
      BY LedgerAssumption DEF JpaInit, LedgerInit, Settled, Moved
    <2>2. Balanced(balance, Accounts, InitialBalance, Moved, takenOf, givenOf, Sender, Receiver)
      BY <2>1, NothingIsBalanced
    <2> QED
      BY <2>1, <2>2, BooksAreBalanced
  <1> QED
    BY <1>1, JpaInvariant, StepBooksInOrder, PTL DEF JpaSpec

-----------------------------------------------------------------------------
(* The ingestion in front of settle().                                     *)

Gates == {"none", "claimed", "duplicate", "undecryptable", "stale", "future", "passed"}

\* A request that passed the gate is the one whose thread runs settle().
GateInv ==
    /\ now \in Nat \ {0}
    /\ made \subseteq Payments
    /\ seen \in [Payments -> Nat]
    /\ upload \in [Calls -> Payments \cup {NoPayment}]
    /\ gate \in [Calls -> Gates]
    /\ pc \in [Calls -> {"idle"} \cup Active \cup Returned]
    /\ pay \in [Calls -> Payments \cup {NoPayment}]
    /\ \A c \in Calls :
          /\ gate[c] # "none" => upload[c] \in Payments
          /\ gate[c] = "passed" <=> pc[c] # "idle"
          /\ gate[c] = "passed" => pay[c] = upload[c]

\* settle() goes on with the payment it was begun with, and never back to idle.
LEMMA SettlingGoesOn ==
  ASSUME pc \in [Calls -> {"idle"} \cup Active \cup Returned], NEW c \in Calls,
         JpaStep(c) \/ Throw(c)
  PROVE  /\ UNCHANGED pay /\ pc[c] # "idle" /\ pc'[c] # "idle"
         /\ pc' \in [Calls -> {"idle"} \cup Active \cup Returned]
         /\ \A d \in Calls \ {c} : pc'[d] = pc[d]
  BY DEF JpaStep, Throw, FindSender, FindReceiver, SaveTransaction, UpdateSender,
         UpdateReceiver, UpdateAccount, CommitSettled, CommitRejected, LockTimeout, Waiting,
         Goto, Active, Returned

\* A check gives one of four verdicts, and only one of them starts settle().
LEMMA CheckVerdict ==
  ASSUME NEW c \in Calls, Check(c)
  PROVE  \E v \in {"undecryptable", "stale", "future", "passed"} :
            /\ gate' = [gate EXCEPT ![c] = v]
            /\ IF v = "passed" THEN Begin(c, upload[c]) ELSE UNCHANGED jpaVars
  <1> DEFINE p == upload[c]
             verdict == IF p \in Tampered THEN "undecryptable"
                        ELSE IF ageSeconds(p) > MaxAge THEN "stale"
                        ELSE IF ageSeconds(p) < -Skew THEN "future"
                        ELSE "passed"
  <1>1. verdict \in {"undecryptable", "stale", "future", "passed"}
    <2> HIDE DEF p
    <2> QED
      OBVIOUS
  <1>2. /\ gate' = [gate EXCEPT ![c] = verdict]
        /\ IF verdict = "passed" THEN Begin(c, upload[c]) ELSE UNCHANGED jpaVars
    BY Zenon DEF Check
  <1> HIDE DEF verdict
  <1> QED
    BY <1>1, <1>2

LEMMA StepGateInv == GateInv /\ [IngestNext]_javaVars => GateInv'
  <1> USE LedgerAssumption, JpaAssumption, IngestAssumption
  <1> SUFFICES ASSUME GateInv, [IngestNext]_javaVars
               PROVE  GateInv'
    OBVIOUS
  <1>1. ASSUME NEW p \in Payments, NEW offset \in ClockOffsets, CreatePacket(p, offset)
        PROVE  GateInv'
    BY <1>1 DEF CreatePacket, GateInv, jpaVars
  <1>2. ASSUME NEW c \in Calls, NEW p \in Payments, Claim(c, p)
        PROVE  GateInv'
    <2>1. /\ gate[c] = "none" /\ upload' = [upload EXCEPT ![c] = p]
          /\ \/ gate' = [gate EXCEPT ![c] = "claimed"] /\ seen' = [seen EXCEPT ![p] = now]
             \/ gate' = [gate EXCEPT ![c] = "duplicate"] /\ seen' = seen
          /\ UNCHANGED <<now, made, pc, pay>>
      BY <1>2 DEF Claim, jpaVars
    <2>2. seen' \in [Payments -> Nat]
      BY <2>1 DEF GateInv
    <2> QED
      BY <2>1, <2>2 DEF GateInv, Gates
  <1>3. ASSUME NEW c \in Calls, Check(c)
        PROVE  GateInv'
    <2>1. PICK v \in {"undecryptable", "stale", "future", "passed"} :
             /\ gate' = [gate EXCEPT ![c] = v]
             /\ IF v = "passed" THEN Begin(c, upload[c]) ELSE UNCHANGED jpaVars
      BY <1>3, CheckVerdict
    <2>2. gate[c] = "claimed" /\ UNCHANGED <<now, made, seen, upload>>
      BY <1>3 DEF Check
    <2>3. CASE v = "passed"
      <3>1. /\ pc' = [pc EXCEPT ![c] = "sender"] /\ pay' = [pay EXCEPT ![c] = upload[c]]
        BY <2>1, <2>3 DEF Begin, Goto
      <3> QED
        BY <2>1, <2>2, <2>3, <3>1 DEF GateInv, Gates, Active
    <2>4. CASE v # "passed"
      BY <2>1, <2>2, <2>4 DEF GateInv, Gates, jpaVars
    <2> QED
      BY <2>3, <2>4
  <1>4. ASSUME NEW c \in Calls, Settling(c)
        PROVE  GateInv'
    BY <1>4, SettlingGoesOn DEF Settling, ingestVars, GateInv
  <1>5. CASE evictExpired \/ clear \/ Tick
    <2>1. seen' \in [Payments -> Nat] /\ now' \in Nat \ {0}
      BY <1>5 DEF evictExpired, clear, Tick, GateInv
    <2> QED
      BY <1>5, <2>1 DEF evictExpired, clear, Tick, GateInv, jpaVars
  <1>6. CASE UNCHANGED javaVars
    BY <1>6 DEF javaVars, ingestVars, jpaVars, GateInv
  <1> QED
    BY <1>1, <1>2, <1>3, <1>4, <1>5, <1>6 DEF IngestNext

LEMMA GateInvariant == IngestSpec => []GateInv
  <1>1. IngestInit => GateInv
    BY DEF IngestInit, JpaInit, GateInv, Gates
  <1> QED
    BY <1>1, StepGateInv, PTL DEF IngestSpec

(* The pipeline runs settle() as JpaSettlement says: what is proved above  *)
(* of the settlement holds behind a cache that is cleared at any moment,   *)
(* with any clocks and settings (BridgeIngestionService.java, lines 35 to  *)
(* 79).                                                                    *)
THEOREM IngestionImplementsJpa == IngestSpec => JpaSpec
  <1>1. IngestInit => JpaInit
    BY DEF IngestInit
  <1>2. GateInv /\ [IngestNext]_javaVars => [JpaNext]_jpaVars
    <2> SUFFICES ASSUME GateInv, [IngestNext]_javaVars
                 PROVE  [JpaNext]_jpaVars
      OBVIOUS
    <2>1. ASSUME NEW c \in Calls, Check(c)
          PROVE  [JpaNext]_jpaVars
      <3>1. Begin(c, upload[c]) \/ UNCHANGED jpaVars
        BY <2>1 DEF Check
      <3>2. upload[c] \in Payments
        BY <2>1 DEF Check, GateInv
      <3> QED
        BY <3>1, <3>2 DEF JpaNext
    <2>2. ASSUME NEW c \in Calls, Settling(c)
          PROVE  JpaNext
      BY <2>2 DEF Settling, JpaNext
    <2> QED
      BY <2>1, <2>2
      DEF IngestNext, javaVars, CreatePacket, Claim, evictExpired, clear, Tick
  <1> QED
    BY <1>1, <1>2, GateInvariant, PTL DEF IngestSpec, JpaSpec

(* Even if the cache forgets a packet that is still on its way, of all its *)
(* copies one at most is told a decision (BridgeIngestionService.java,     *)
(* line 73).                                                               *)
THEOREM SecondPassChangesNothing == IngestSpec => []SecondPassIsHarmless
  <1>1. GateInv /\ JpaInv => SecondPassIsHarmless
    BY DEF GateInv, JpaInv, KeysAreExclusive, SecondPassIsHarmless
  <1> QED
    BY <1>1, GateInvariant, IngestionImplementsJpa, JpaInvariant, PTL

-----------------------------------------------------------------------------
\* A hash in the map was put there by a request with a verdict of its own.
FirstCopy(c, p) == upload[c] = p /\ gate[c] \notin {"none", "duplicate"}

ClaimsHaveOwners ==
    /\ \A p \in Payments : seen[p] # 0 => \E d \in Calls : FirstCopy(d, p)
    /\ DropsOnlyCopies

LEMMA StepClaimsHaveOwners ==
  GateInv /\ ClaimsHaveOwners /\ [IngestNext]_javaVars => ClaimsHaveOwners'
  <1> SUFFICES ASSUME GateInv, ClaimsHaveOwners, [IngestNext]_javaVars
               PROVE  ClaimsHaveOwners'
    OBVIOUS
  <1>t. /\ seen \in [Payments -> Nat]
        /\ upload \in [Calls -> Payments \cup {NoPayment}] /\ gate \in [Calls -> Gates]
    BY DEF GateInv
  <1>h. /\ \A p \in Payments : seen[p] # 0 => \E d \in Calls : FirstCopy(d, p)
        /\ \A c \in Calls : gate[c] = "duplicate" => \E d \in Calls : FirstCopy(d, upload[c])
    BY DEF ClaimsHaveOwners, DropsOnlyCopies, FirstCopy
  <1>g. ASSUME \A p \in Payments : seen'[p] # 0 => \E d \in Calls : FirstCopy(d, p)',
               \A c \in Calls : gate'[c] = "duplicate" =>
                                  \E d \in Calls : FirstCopy(d, upload[c])'
        PROVE  ClaimsHaveOwners'
    BY <1>g DEF ClaimsHaveOwners, DropsOnlyCopies, FirstCopy
  <1>1. ASSUME NEW c \in Calls, NEW p \in Payments, Claim(c, p)
        PROVE  ClaimsHaveOwners'
    <2>1. /\ gate[c] = "none" /\ upload' = [upload EXCEPT ![c] = p]
      BY <1>1 DEF Claim
    <2>2. \A d \in Calls \ {c} : upload'[d] = upload[d] /\ gate'[d] = gate[d]
      BY <1>1, <1>t DEF Claim
    <2>3. \A d \in Calls : \A q : FirstCopy(d, q) => FirstCopy(d, q)'
      BY <2>1, <2>2 DEF FirstCopy
    <2>4. upload'[c] = p /\ gate'[c] \in {"claimed", "duplicate"}
      BY <1>1, <1>t DEF Claim
    <2>5. \A q \in Payments : seen'[q] # 0 => q = p \/ seen[q] # 0
      BY <1>1, <1>t DEF Claim
    <2>6. \E d \in Calls : FirstCopy(d, p)'
      <3>1. CASE seen[p] = 0
        <4>1. FirstCopy(c, p)'
          BY <1>1, <1>t, <2>4, <3>1 DEF Claim, FirstCopy
        <4> QED
          BY <4>1
      <3>2. CASE seen[p] # 0
        BY <1>h, <2>3, <3>2
      <3> QED
        BY <3>1, <3>2
    <2>7. ASSUME NEW e \in Calls, gate'[e] = "duplicate"
          PROVE  \E d \in Calls : FirstCopy(d, upload[e])'
      <3>1. CASE e = c
        BY <2>4, <2>6, <3>1
      <3>2. CASE e # c
        BY <1>h, <2>2, <2>3, <2>7, <3>2
      <3> QED
        BY <3>1, <3>2
    <2>8. \A q \in Payments : seen'[q] # 0 => \E d \in Calls : FirstCopy(d, q)'
      BY <1>h, <2>3, <2>5, <2>6
    <2> QED
      BY <1>g, <2>7, <2>8
  <1>2. ASSUME UNCHANGED upload,
               \A d \in Calls : gate'[d] = gate[d]
                                  \/ (gate[d] = "claimed" /\ gate'[d] \notin {"none", "duplicate"}),
               \A p \in Payments : seen'[p] = seen[p] \/ seen'[p] = 0
        PROVE  ClaimsHaveOwners'
    <2>1. \A d \in Calls : \A q : FirstCopy(d, q) => FirstCopy(d, q)'
      BY <1>2 DEF FirstCopy
    <2> QED
      BY <1>2, <1>h, <1>g, <2>1
  <1>3. ASSUME NEW c \in Calls, Check(c)
        PROVE  ClaimsHaveOwners'
    <2>1. \E v \in {"undecryptable", "stale", "future", "passed"} : gate' = [gate EXCEPT ![c] = v]
      BY <1>3, CheckVerdict
    <2>2. gate[c] = "claimed" /\ UNCHANGED <<upload, seen>>
      BY <1>3 DEF Check
    <2>3. \A d \in Calls : gate'[d] = gate[d]
                             \/ (gate[d] = "claimed" /\ gate'[d] \notin {"none", "duplicate"})
      BY <1>t, <2>1, <2>2
    <2> QED
      BY <1>2, <2>2, <2>3
  <1>4. CASE evictExpired \/ clear
    BY <1>t, <1>2, <1>4 DEF evictExpired, clear
  <1> QED
    BY <1>1, <1>2, <1>3, <1>4
    DEF IngestNext, CreatePacket, Settling, Tick, javaVars, ingestVars

(* A copy is dropped only if another request had claimed the same packet,  *)
(* evictions and POST /api/mesh/reset at any moment included.              *)
THEOREM OnlyCopiesAreDropped == IngestSpec => []DropsOnlyCopies
  <1>1. IngestInit => ClaimsHaveOwners
    BY DEF IngestInit, ClaimsHaveOwners, DropsOnlyCopies
  <1>2. ClaimsHaveOwners => DropsOnlyCopies
    BY DEF ClaimsHaveOwners
  <1> QED
    BY <1>1, <1>2, StepClaimsHaveOwners, GateInvariant, PTL DEF IngestSpec

=============================================================================
