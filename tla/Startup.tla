------------------------------- MODULE Startup -------------------------------
(***************************************************************************)
(* backend/server.js, config/db.js and seedAccounts of demoService.js: a   *)
(* server process connects to MongoDB, seeds the accounts if there are     *)
(* none, and then listens.  Processes come and go, two may start at once   *)
(* on the same database and port, and MongoDB may fail in the middle of    *)
(* anything.  The documents of one insertMany are inserted one by one, in  *)
(* order, by MongoDB: the batch goes on when the process that sent it dies.*)
(***************************************************************************)
EXTENDS Integers, Sequences

CONSTANTS
    Servers,        \* the server processes
    SeedOrder,      \* the accounts of seedAccounts, in the order of its list
    SeedBalance,    \* SeedBalance[a] : paise
    NoAccount,      \* stands for the balance of an account without a document
    SrvUri,         \* MONGO_URI is a mongodb+srv address
    MaxFaults       \* bound: processes, connections and databases that fail

VARIABLES
    balance,        \* balance[a] : the balance of a's document, or NoAccount
    stage,          \* stage[s] : the await of start() s stands at
    batch,          \* batch[s] : place in SeedOrder of the next insert; 0: none
    cut,            \* history: MongoDB failed after the first insert of a batch
    faults          \* bound: faults so far

startVars == <<balance, stage, batch, cut, faults>>

SeedAccounts == {SeedOrder[i] : i \in DOMAIN SeedOrder}

ASSUME StartAssumption ==
    /\ SeedOrder \in Seq(SeedAccounts) /\ SeedOrder # <<>>
    /\ \A i, j \in DOMAIN SeedOrder : SeedOrder[i] = SeedOrder[j] => i = j
    /\ SeedBalance \in [SeedAccounts -> Nat]
    /\ NoAccount \notin Int
    /\ SrvUri \in BOOLEAN
    /\ MaxFaults \in Nat

Stored == {a \in SeedAccounts : balance[a] # NoAccount}

Stages == {"down", "connecting", "reconnecting", "counting", "seeding", "binding", "listening"}

StartTypeOK ==
    /\ balance \in [SeedAccounts -> Nat \cup {NoAccount}]
    /\ stage \in [Servers -> Stages]
    /\ batch \in [Servers -> 0 .. Len(SeedOrder)]
    /\ cut \in BOOLEAN
    /\ faults \in 0 .. MaxFaults
    /\ \A s \in Servers : /\ stage[s] = "seeding" => batch[s] # 0
                          /\ batch[s] # 0 => stage[s] \in {"seeding", "down"}

StartInit ==
    /\ balance = [a \in SeedAccounts |-> NoAccount]
    /\ stage = [s \in Servers |-> "down"]
    /\ batch = [s \in Servers |-> 0]
    /\ cut = FALSE
    /\ faults = 0

-----------------------------------------------------------------------------
Advance(s, next) == stage' = [stage EXCEPT ![s] = next]

\* A process is started; its name is free once its last batch has ended.
Launch(s) ==
    /\ stage[s] = "down" /\ batch[s] = 0
    /\ Advance(s, "connecting")
    /\ UNCHANGED <<balance, batch, cut, faults>>

Connected(s) ==
    /\ stage[s] \in {"connecting", "reconnecting"}
    /\ Advance(s, "counting")
    /\ UNCHANGED <<balance, batch, cut, faults>>

\* exit(1), or for an SRV address and some errors once more with a public DNS.
ConnectFails(s) ==
    /\ stage[s] \in {"connecting", "reconnecting"} /\ faults < MaxFaults
    /\ \/ Advance(s, "down")
       \/ SrvUri /\ stage[s] = "connecting" /\ Advance(s, "reconnecting")
    /\ faults' = faults + 1
    /\ UNCHANGED <<balance, batch, cut>>

\* mutant: nobody looks whether there are accounts
SeedAlways(s) ==
    /\ stage[s] = "counting"
    /\ Advance(s, "seeding") /\ batch' = [batch EXCEPT ![s] = 1]
    /\ UNCHANGED <<balance, cut, faults>>

\* mutant: nobody waits for the batch
SeedWithoutWaiting(s) ==
    /\ stage[s] = "counting"
    /\ Advance(s, "binding")
    /\ batch' = [batch EXCEPT ![s] = IF Stored = {} THEN 1 ELSE 0]
    /\ UNCHANGED <<balance, cut, faults>>

\* countDocuments, and insertMany if it answers 0.
CountAccounts(s) ==
    /\ stage[s] = "counting"
    /\ IF Stored = {}
       THEN Advance(s, "seeding") /\ batch' = [batch EXCEPT ![s] = 1]
       ELSE Advance(s, "binding") /\ UNCHANGED batch
    /\ UNCHANGED <<balance, cut, faults>>

\* The end of a batch resumes the process that waits for it, if it still does.
EndBatch(s, next) ==
    /\ batch' = [batch EXCEPT ![s] = 0]
    /\ Advance(s, IF stage[s] = "seeding" THEN next ELSE stage[s])

\* mutant: an account that is there already is written over
UpsertNext(s) ==
    /\ batch[s] # 0
    /\ balance' = [balance EXCEPT ![SeedOrder[batch[s]]] = SeedBalance[SeedOrder[batch[s]]]]
    /\ IF batch[s] = Len(SeedOrder) THEN EndBatch(s, "binding")
       ELSE batch' = [batch EXCEPT ![s] = @ + 1] /\ UNCHANGED stage
    /\ UNCHANGED <<cut, faults>>

\* An _id that is taken ends the batch with an error, and the process with it.
InsertNext(s) ==
    /\ batch[s] # 0
    /\ LET a == SeedOrder[batch[s]] IN
       IF a \in Stored
       THEN EndBatch(s, "down") /\ UNCHANGED balance
       ELSE /\ balance' = [balance EXCEPT ![a] = SeedBalance[a]]
            /\ IF batch[s] = Len(SeedOrder) THEN EndBatch(s, "binding")
               ELSE batch' = [batch EXCEPT ![s] = @ + 1] /\ UNCHANGED stage
    /\ UNCHANGED <<cut, faults>>

\* EADDRINUSE ends the process.
Listen(s) ==
    /\ stage[s] = "binding"
    /\ Advance(s, IF \E t \in Servers : stage[t] = "listening" THEN "down" ELSE "listening")
    /\ UNCHANGED <<balance, batch, cut, faults>>

\* The process dies; a batch it has not sent yet dies with it.
Crash(s) ==
    /\ stage[s] # "down" /\ faults < MaxFaults
    /\ Advance(s, "down")
    /\ faults' = faults + 1
    /\ \/ UNCHANGED batch
       \/ batch[s] = 1 /\ batch' = [batch EXCEPT ![s] = 0]
    /\ UNCHANGED <<balance, cut>>

\* MongoDB fails and is back at once: whoever waited for it exits, batches end.
DatabaseFails ==
    /\ faults < MaxFaults
    /\ \E s \in Servers : batch[s] # 0 \/ stage[s] = "counting"
    /\ stage' = [s \in Servers |->
                    IF stage[s] \in {"counting", "seeding"} THEN "down" ELSE stage[s]]
    /\ batch' = [s \in Servers |-> 0]
    /\ cut' = (cut \/ \E s \in Servers : batch[s] > 1)
    /\ faults' = faults + 1
    /\ UNCHANGED balance

StartStep(s) == Connected(s) \/ CountAccounts(s) \/ InsertNext(s) \/ Listen(s)

StartNext ==
    \/ \E s \in Servers : Launch(s) \/ StartStep(s) \/ ConnectFails(s) \/ Crash(s)
    \/ DatabaseFails

StartSpec == StartInit /\ [][StartNext]_startVars

Listening == {s \in Servers : stage[s] = "listening"}

-----------------------------------------------------------------------------
(* Who is served finds every account, unless MongoDB failed in the middle  *)
(* of seeding, or another process seeds, or died seeding: the start that   *)
(* found some accounts did not wait for the rest of them.                  *)
ServedAccountsAreComplete ==
    Listening # {} => \/ Stored = SeedAccounts
                      \/ cut
                      \/ \E s \in Servers \ Listening : batch[s] # 0

=============================================================================
