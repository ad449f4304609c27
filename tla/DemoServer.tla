----------------------------- MODULE DemoServer ------------------------------
(***************************************************************************)
(* What outlives a server process and what does not: the accounts that     *)
(* Startup seeds are in the database, the phones of MeshService and the    *)
(* settlements under way are in the memory of the process that listens.    *)
(* _doSettle runs without a session, one step per await, with the          *)
(* arithmetic of Money: a crash, a failing database or the settlement of   *)
(* another packet may come between any two of its steps.  What several     *)
(* copies of one packet do is the matter of BridgeService and Simulator.   *)
(***************************************************************************)
EXTENDS Startup, MeshService, Money

CONSTANTS
    Sender, Receiver,   \* the parties of a packet's payment
    Amount              \* Amount[p] : parts of a paisa, more than 0

VARIABLES
    version,            \* version[a] : __v of a's document
    at,                 \* at[p] : the await that the settlement of p stands at
    view,               \* view[p] : what its reads returned
    debited, credited,  \* history: the payments whose debit, or credit, was written
    contended           \* history: accounts two settlements had at the same time

settleVars == <<version, at, view, debited, credited, contended>>

demoVars == <<startVars, meshVars, settleVars>>

ASSUME DemoAssumption ==
    /\ IsFiniteSet(Packets)
    /\ Amount \in [Packets -> Nat \ {0}]
    /\ \A p \in Packets : Sender[p] # Receiver[p]

Awaits == {"sender", "receiver", "debit", "reject", "credit", "save"}

InHand == {p \in Packets : at[p] \in Awaits}

Parties(p) == {Sender[p], Receiver[p]}

DemoTypeOK ==
    /\ StartTypeOK
    /\ MeshTypeOK
    /\ version \in [SeedAccounts -> Nat]
    /\ at \in [Packets -> Awaits \cup {"none", "settled", "rejected", "ended"}]
    /\ view \in [Packets -> [sender : Nat, version : Nat, receiver : Nat]]
    /\ debited \subseteq Packets /\ credited \subseteq debited
    /\ \A p \in Packets : at[p] # "none" => sentTtl[p] # Absent

DemoInit ==
    /\ StartInit
    /\ MeshInit
    /\ version = [a \in SeedAccounts |-> 0]
    /\ at = [p \in Packets |-> "none"]
    /\ view = [p \in Packets |-> [sender |-> 0, version |-> 0, receiver |-> 0]]
    /\ debited = {} /\ credited = {} /\ contended = {}

-----------------------------------------------------------------------------
\* A step of a process that starts or runs, and keeps the phones as they are.
StartingUp ==
    /\ \E s \in Servers : Launch(s) \/ StartStep(s) \/ ConnectFails(s)
    /\ UNCHANGED <<meshVars, settleVars>>

\* The process that listens is gone, with its phones and what it had in hand.
ProcessDies ==
    /\ resetMesh
    /\ at' = [p \in Packets |-> IF p \in InHand THEN "ended" ELSE at[p]]
    /\ UNCHANGED <<version, view, debited, credited, contended>>

\* Of the processes that die, only the one that listens takes anything along.
Stopping ==
    /\ DatabaseFails \/ \E s \in Servers : Crash(s)
    /\ IF Listening # {} /\ \A s \in Listening : stage'[s] = "down"
       THEN ProcessDies ELSE UNCHANGED <<meshVars, settleVars>>

\* POST /api/demo/send, /api/mesh/gossip and /api/mesh/reset.
OnTheMesh ==
    /\ Listening # {}
    /\ MeshNext
    /\ UNCHANGED <<startVars, settleVars>>

-----------------------------------------------------------------------------
Goto(p, label) == at' = [at EXCEPT ![p] = label]

\* The first copy of p comes up from a bridge and passes: settle() is called.
Upload(p) ==
    /\ Listening # {}
    /\ \E u \in collectBridgeUploads : u[2] = p
    /\ at[p] = "none"
    /\ Goto(p, "sender")
    /\ contended' = contended \cup (Parties(p) \cap UNION {Parties(q) : q \in InHand})
    /\ UNCHANGED <<startVars, meshVars, version, view, debited, credited>>

\* An unknown sender ends the settlement; so does an unknown receiver.
ReadSender(p) ==
    /\ at[p] = "sender"
    /\ LET a == Sender[p] IN
       IF a \in Stored
       THEN /\ Goto(p, "receiver")
            /\ view' = [view EXCEPT ![p].sender = balance[a], ![p].version = version[a]]
       ELSE Goto(p, "ended") /\ UNCHANGED view
    /\ UNCHANGED <<startVars, meshVars, version, debited, credited, contended>>

\* The second read, and the check of the balance that was read first.
ReadReceiver(p) ==
    /\ at[p] = "receiver"
    /\ IF Receiver[p] \in Stored
       THEN /\ view' = [view EXCEPT ![p].receiver = balance[Receiver[p]]]
            /\ Goto(p, IF ExceedsBalance(view[p].sender, Amount[p]) THEN "reject" ELSE "debit")
       ELSE Goto(p, "ended") /\ UNCHANGED view
    /\ UNCHANGED <<startVars, meshVars, version, debited, credited, contended>>

\* findOneAndUpdate by _id and __v: what was read less the amount, and $inc.
DebitSender(p) ==
    /\ at[p] = "debit"
    /\ IF version[Sender[p]] # view[p].version
       THEN Goto(p, "ended") /\ UNCHANGED <<balance, version, debited>>
       ELSE /\ Goto(p, "credit")
            /\ \E from \in NewSenderBalances(view[p].sender, Amount[p]) :
                  balance' = [balance EXCEPT ![Sender[p]] = from]
            /\ version' = [version EXCEPT ![Sender[p]] = @ + 1]
            /\ debited' = debited \cup {p}
    /\ UNCHANGED <<stage, batch, cut, faults, meshVars, view, credited, contended>>

\* findOneAndUpdate by _id: what was read before the debit, plus the amount.
CreditReceiver(p) ==
    /\ at[p] = "credit"
    /\ \E to \in NewReceiverBalances(view[p].receiver, Amount[p]) :
          balance' = [balance EXCEPT ![Receiver[p]] = to]
    /\ credited' = credited \cup {p}
    /\ Goto(p, "save")
    /\ UNCHANGED <<stage, batch, cut, faults, meshVars, version, view, debited, contended>>

\* The insert of the Transaction document, which ends the settlement.
Record(p) ==
    /\ \/ at[p] = "save" /\ Goto(p, "settled")
       \/ at[p] = "reject" /\ Goto(p, "rejected")
    /\ UNCHANGED <<startVars, meshVars, version, view, debited, credited, contended>>

\* Any await may reject; a write before it may have been made all the same.
SettlementFails(p) ==
    /\ p \in InHand /\ faults < MaxFaults
    /\ Goto(p, "ended")
    /\ faults' = faults + 1
    /\ UNCHANGED <<balance, stage, batch, cut, meshVars,
                   version, view, debited, credited, contended>>

SettlementStep(p) ==
    \/ ReadSender(p) \/ ReadReceiver(p) \/ DebitSender(p) \/ CreditReceiver(p) \/ Record(p)

DemoNext ==
    \/ StartingUp
    \/ Stopping
    \/ OnTheMesh
    \/ \E p \in Packets : Upload(p) \/ SettlementStep(p) \/ SettlementFails(p)

DemoSpec == DemoInit /\ [][DemoNext]_demoVars

\* MongoDB answers and inserts, the event loop resumes start().
DemoFairSpec ==
    DemoSpec /\ \A s \in Servers :
                   WF_demoVars(StartStep(s) /\ UNCHANGED <<meshVars, settleVars>>)

-----------------------------------------------------------------------------
PaidBy(a) == {p \in debited : Sender[p] = a}

PaidTo(a) == {p \in credited : Receiver[p] = a}

SumOver(w, S) == MapThenSumSet(LAMBDA x : w[x], S)

SumOf(S) == SumOver(Amount, S)

\* What a would have if it had been seeded once and no fraction were rounded.
ExactBalance(a) == SeedBalance[a] * Grain + SumOf(PaidTo(a)) - SumOf(PaidBy(a))

(* An account that no two settlements had at once has what it was seeded   *)
(* with and what was paid from and to it, each to half a paisa: a crash or *)
(* a failing database between any two steps leaves nothing half written to *)
(* it, and no start, not the second of two that seed, writes it over.  (Of *)
(* two settlements that meet, one may take back the other's: lost_credit.) *)
BalancesAreBooked ==
    \A a \in Stored \ contended :
        2 * (balance[a] * Grain - ExactBalance(a)) \in
            -(Grain * Cardinality(PaidBy(a) \cup PaidTo(a))) ..
              Grain * Cardinality(PaidBy(a) \cup PaidTo(a))

\* What an account has more than it was seeded with.
Gain == [a \in Stored |-> balance[a] - SeedBalance[a]]

\* An amount in whole paise.
Whole == [p \in Packets |-> (Amount[p] + Grain \div 2) \div Grain]

\* Debited and not credited: on its way, or lost.
OnTheWay == debited \ credited

Doubtful(S) == {p \in S : IsHalfway(Amount[p])}

(* Where no two settlements meet, all that is missing is what is on its    *)
(* way or was lost to a crash or an error between debit and credit; but    *)
(* for a paisa created or destroyed where an amount is half way between    *)
(* two, since the debit and the credit are rounded apart.                  *)
MoneyIsConserved ==
    contended = {} =>
        SumOver(Gain, Stored) + SumOver(Whole, OnTheWay) \in
            -Cardinality(Doubtful(credited)) .. Cardinality(Doubtful(debited))

(* No payment takes an account below zero, in spite of the rounding.       *)
NoBalanceBelowZero == \A a \in Stored : balance[a] >= 0

(* Once nothing fails any more, a start leads to a server that listens:    *)
(* this one, or the one it met on the port or in the collection.  (Not if  *)
(* it met the batch of a dead process: then nobody may be left.)           *)
StartLeadsToService ==
    \A s \in Servers :
        /\ stage[s] = "connecting" /\ faults = MaxFaults
        /\ \A t \in Servers : batch[t] # 0 => stage[t] = "seeding"
        ~> Listening # {}

=============================================================================
