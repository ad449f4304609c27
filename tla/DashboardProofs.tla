--------------------------- MODULE DashboardProofs ---------------------------
(***************************************************************************)
(* The page and its refreshes, however many overlap.                       *)
(***************************************************************************)
EXTENDS Dashboard, TLAPS

\* What a refresh under way has been told is from its own time, or a failure.
Timely(r) ==
    asked[r] # Idle =>
        /\ asked[r] \in 0 .. recorded
        /\ \/ transactions[r] = Pending
           \/ transactions[r] \in asked[r] .. recorded
           \/ failures > 0 /\ transactions[r] = Nothing

TimelyInv ==
    /\ recorded \in Nat /\ transfers \in Nat /\ failures \in Nat
    /\ asked \in [Refreshes -> Int]
    /\ transactions \in [Refreshes -> Int]
    /\ \A r \in Refreshes : Timely(r)

LEMMA DashInitTimely == DashInit => TimelyInv
  BY DEF DashInit, TimelyInv, Timely, Idle, Pending

\* One record more, a refresh that starts, and each way a request ends.
LEMMA StepTimely == TimelyInv /\ [DashNext]_dashVars => TimelyInv'
  <1> SUFFICES ASSUME TimelyInv, [DashNext]_dashVars
               PROVE  TimelyInv'
    OBVIOUS
  <1> USE DEF TimelyInv
  <1>1. CASE Transfer
    BY <1>1 DEF Transfer, Timely
  <1>2. CASE Record
    BY <1>2 DEF Record, Timely, Idle, Pending, Nothing
  <1>3. ASSUME NEW q \in Refreshes, StartRefresh(q)
        PROVE  TimelyInv'
    <2>1. ASSUME NEW r \in Refreshes
          PROVE  Timely(r)'
      BY <1>3 DEF StartRefresh, Timely, Idle, Pending
    <2> QED
      BY <1>3, <2>1 DEF StartRefresh, Idle, Pending
  <1>4. ASSUME NEW q \in Refreshes, getAccounts(q)
        PROVE  TimelyInv'
    BY <1>4 DEF getAccounts, Timely
  <1>5. ASSUME NEW q \in Refreshes, getTransactions(q)
        PROVE  TimelyInv'
    <2>1. ASSUME NEW r \in Refreshes
          PROVE  Timely(r)'
      BY <1>5 DEF getTransactions, Timely, Idle, Pending
    <2> QED
      BY <1>5, <2>1 DEF getTransactions
  <1>6. ASSUME NEW q \in Refreshes, RequestFails(q)
        PROVE  TimelyInv'
    <2>1. ASSUME NEW r \in Refreshes
          PROVE  Timely(r)'
      BY <1>6 DEF RequestFails, Timely, Idle, Pending, Nothing
    <2> QED
      BY <1>6, <2>1 DEF RequestFails, Nothing
  <1>7. ASSUME NEW q \in Refreshes, Show(q)
        PROVE  TimelyInv'
    BY <1>7 DEF Show, Timely, Idle
  <1>8. CASE UNCHANGED dashVars
    BY <1>8 DEF dashVars, Timely
  <1> QED
    BY <1>1, <1>2, <1>3, <1>4, <1>5, <1>6, <1>7, <1>8 DEF DashNext

(* Whichever refresh overtakes which, the page shows a ledger the server   *)
(* had while the refresh that shows it was under way, or, after a failure, *)
(* an empty one (Dashboard.jsx, refresh; api.js, getTransactions).         *)
THEOREM RefreshesShowALedger == DashSpec => ShownIsALedger
  <1> DEFINE Shows ==
        \A r \in Refreshes :
            asked[r] # Idle /\ asked'[r] = Idle =>
                \/ shown'.transactions \in asked[r] .. recorded
                \/ failures > 0 /\ shown'.transactions = Nothing
  <1>1. TimelyInv /\ [DashNext]_dashVars => [Shows]_dashVars
    <2> SUFFICES ASSUME TimelyInv, DashNext, NEW r \in Refreshes,
                        asked[r] # Idle, asked'[r] = Idle
                 PROVE  \/ shown'.transactions \in asked[r] .. recorded
                        \/ failures > 0 /\ shown'.transactions = Nothing
      OBVIOUS
    \* Only showing its answers ends a refresh.
    <2>1. Show(r)
      <3>1. ~(\E q \in Refreshes : StartRefresh(q))
        BY DEF StartRefresh, TimelyInv, Timely, Idle
      <3>2. asked' # asked
        OBVIOUS
      <3>3. PICK q \in Refreshes : Show(q)
        BY <3>1, <3>2 DEF DashNext, Transfer, Record, getAccounts, getTransactions, RequestFails
      <3> QED
        BY <3>3 DEF Show, TimelyInv
    <2>2. shown'.transactions = transactions[r] /\ transactions[r] # Pending
      BY <2>1 DEF Show, Answered
    <2> QED
      BY <2>2 DEF TimelyInv, Timely
  <1> QED
    BY <1>1, DashInitTimely, StepTimely, PTL DEF DashSpec, ShownIsALedger

=============================================================================
