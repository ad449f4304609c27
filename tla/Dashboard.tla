------------------------------- MODULE Dashboard -------------------------------
(***************************************************************************)
(* frontend/src/pages/Dashboard.jsx: refresh(), started on load, by a timer*)
(* and by the forms, asks the server for its accounts and its transactions *)
(* and shows the answers when both are in.  Nothing keeps one refresh from *)
(* overtaking another.  What the server has is counted: the transfers made *)
(* and the transactions recorded.  (The mesh state is fetched the same way *)
(* and is left out.)                                                       *)
(***************************************************************************)
EXTENDS Integers

CONSTANTS
    Refreshes,      \* the refreshes that may be under way together
    MaxTransfers,   \* bound: transfers made while somebody watches
    MaxFailures     \* bound: requests that fail

VARIABLES
    transfers,      \* the transfers the balances of the accounts reflect
    recorded,       \* the transactions on record
    asked,          \* asked[r] : history, the record when r was started, or Idle
    accounts,       \* accounts[r] : the answer to r's request, or Pending
    transactions,   \* transactions[r] : the answer to r's request, or Pending
    shown,          \* what the page shows
    loading,        \* the page shows placeholders
    failures        \* bound: requests that have failed

dashVars == <<transfers, recorded, asked, accounts, transactions, shown, loading, failures>>

ASSUME DashboardAssumption == MaxTransfers \in Nat /\ MaxFailures \in Nat

Idle == -1
Pending == -1
Nothing == 0        \* the empty list, which a failed request answers too

\* The page is loaded when the server has been running for a while.
DashInit ==
    /\ transfers \in 0 .. 1 /\ recorded = transfers
    /\ asked = [r \in Refreshes |-> Idle]
    /\ accounts = [r \in Refreshes |-> Pending]
    /\ transactions = [r \in Refreshes |-> Pending]
    /\ shown = [accounts |-> Nothing, transactions |-> Nothing]
    /\ loading = TRUE
    /\ failures = 0

-----------------------------------------------------------------------------
\* settle() without a session: the money moves, then the record is made.
Transfer ==
    /\ transfers < MaxTransfers /\ transfers = recorded
    /\ transfers' = transfers + 1
    /\ UNCHANGED <<recorded, asked, accounts, transactions, shown, loading, failures>>

Record ==
    /\ recorded < transfers
    /\ recorded' = recorded + 1
    /\ UNCHANGED <<transfers, asked, accounts, transactions, shown, loading, failures>>

\* mutant: the answers of the refresh before are kept
StartOverAnswers(r) ==
    /\ asked[r] = Idle
    /\ asked' = [asked EXCEPT ![r] = recorded]
    /\ UNCHANGED <<transfers, recorded, accounts, transactions, shown, loading, failures>>

\* On load, on the timer, and after every button.
StartRefresh(r) ==
    /\ asked[r] = Idle
    /\ asked' = [asked EXCEPT ![r] = recorded]
    /\ accounts' = [accounts EXCEPT ![r] = Pending]
    /\ transactions' = [transactions EXCEPT ![r] = Pending]
    /\ UNCHANGED <<transfers, recorded, shown, loading, failures>>

\* GET /api/accounts answers what is in the database when it is handled.
getAccounts(r) ==
    /\ asked[r] # Idle /\ accounts[r] = Pending
    /\ accounts' = [accounts EXCEPT ![r] = transfers]
    /\ UNCHANGED <<transfers, recorded, asked, transactions, shown, loading, failures>>

getTransactions(r) ==
    /\ asked[r] # Idle /\ transactions[r] = Pending
    /\ transactions' = [transactions EXCEPT ![r] = recorded]
    /\ UNCHANGED <<transfers, recorded, asked, accounts, shown, loading, failures>>

\* Any request may fail or exceed the 15 seconds of the axios instance, which
\* its catch turns into an empty list.
RequestFails(r) ==
    /\ asked[r] # Idle /\ failures < MaxFailures
    /\ failures' = failures + 1
    /\ \/ accounts[r] = Pending /\ accounts' = [accounts EXCEPT ![r] = Nothing]
          /\ UNCHANGED transactions
       \/ transactions[r] = Pending /\ transactions' = [transactions EXCEPT ![r] = Nothing]
          /\ UNCHANGED accounts
    /\ UNCHANGED <<transfers, recorded, asked, shown, loading>>

Answered(r) == asked[r] # Idle /\ accounts[r] # Pending /\ transactions[r] # Pending

\* mutant: what is on the page is taken for the answer once loaded
ShowOnce(r) ==
    /\ Answered(r)
    /\ shown' = IF loading THEN [accounts |-> accounts[r], transactions |-> transactions[r]]
                ELSE shown
    /\ loading' = FALSE
    /\ asked' = [asked EXCEPT ![r] = Idle]
    /\ UNCHANGED <<transfers, recorded, accounts, transactions, failures>>

\* What follows the await of Promise.all.
Show(r) ==
    /\ Answered(r)
    /\ shown' = [accounts |-> accounts[r], transactions |-> transactions[r]]
    /\ loading' = FALSE
    /\ asked' = [asked EXCEPT ![r] = Idle]
    /\ UNCHANGED <<transfers, recorded, accounts, transactions, failures>>

DashNext ==
    \/ Transfer
    \/ Record
    \/ \E r \in Refreshes : \/ StartRefresh(r)
                            \/ getAccounts(r)  \/ getTransactions(r)  \/ RequestFails(r)
                            \/ Show(r)

DashSpec == DashInit /\ [][DashNext]_dashVars

\* The timer fires, requests end, at the latest by their timeout, and the event
\* loop resumes what waited for them.
DashFairSpec ==
    /\ DashSpec
    /\ WF_dashVars(Record)
    /\ \A r \in Refreshes :
          /\ WF_dashVars(StartRefresh(r))
          /\ WF_dashVars(getAccounts(r))
          /\ WF_dashVars(getTransactions(r))
          /\ WF_dashVars(Show(r))

-----------------------------------------------------------------------------
Current == shown = [accounts |-> transfers, transactions |-> recorded]

(* When transfers and failures stop, the page comes to show what the server*)
(* has, and keeps showing it: late answers of overtaken refreshes run out. *)
PageSettles ==
    [](transfers = MaxTransfers /\ failures = MaxFailures => <>[]Current)

(* The ledger on the page is one the server had while the refresh that     *)
(* shows it was under way: "shows the last 20 transactions"                *)
(* (TransactionList.jsx, line 4); or, after a failure, an empty one.       *)
ShownIsALedger ==
    [][\A r \in Refreshes :
          asked[r] # Idle /\ asked'[r] = Idle =>
              \/ shown'.transactions \in asked[r] .. recorded
              \/ failures > 0 /\ shown'.transactions = Nothing]_dashVars

=============================================================================
