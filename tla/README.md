# UPI mesh: verification development

This directory holds TLA+ specifications of the offline UPI payment mesh, the
TLC configurations that check them on small instances, and proofs of the main
theorems that TLAPS checks for every value of the constants.

    tlc -workers 2 -config MCSettlement_session.cfg MCSettlement   # a run
    tlapm SettlementProofs.tla                                     # the proofs

## The system

A payment is made without a network: the sender's phone encrypts it for the
server, gossips it over Bluetooth from phone to phone, and any phone that gets
a connection, a *bridge*, uploads it. The repository holds the server twice
(Node.js in `src/backend`, Java/Spring in `src/src/main`; the first is a port of
the second), with the phones simulated inside the server, and a React dashboard
(`src/frontend`).

### Inventory

| Component | State it keeps | Operations | What makes it correct |
|---|---|---|---|
| Settlement, Node (`settlementService.js`, `Account.js`, `Transaction.js`) | MongoDB: accounts (balance, `__v`), transactions | `settle` -> `_settleWithSession` or `_settleWithoutSession` -> `_doSettle` -> `_recordRejected` | Money is neither lost nor created, nobody is overdrawn, a packet is settled or rejected once, a record has its debit |
| Bridge ingestion and idempotency cache, Node (`bridgeService.js`, `idempotencyService.js`) | Map from packet hash to the time of its claim | `ingest`; `claim`, `evictExpired`, `clear` | A packet reaches `settle` once, a dropped packet is a copy, what passed is decided |
| Keys and encryption, Node (`keyService.js`, `cryptoService.js`) | RSA key pair in memory | `_ensureKey`, `encrypt`, `decrypt`, `hashCiphertext` | Only unaltered packets made for this key pair decrypt |
| Mesh simulator, Node (`meshService.js`, `virtualDevice.js`) | The packets each phone holds | `inject`, `gossipOnce`, `collectBridgeUploads`, `resetMesh` | A packet goes everywhere its ttl allows and no further |
| Demo endpoints, Node (`demoController.js`, `meshController.js`, `demoService.js`) | none of their own | `demoSend`, `meshGossip`, `meshFlush`, `meshReset` | Any order of clicks debits a packet once and accepts the server's own packets |
| Start-up and seeding, Node (`server.js`, `db.js`, `demoService.js`) | the accounts collection, the port | connect, `seedAccounts`, listen | Who is served finds every demo account; seeding never undoes a payment; a start leads to a server |
| HTTP shell, read endpoints, Node | none | routing, error mapping, `listAccounts`, `listTransactions` | They report what is in the database |
| Settlement, Java (`SettlementService.java`, entities) | H2: accounts (balance, version), transactions | `settle`, `recordRejected` | As for Node |
| Bridge ingestion and cache, Java (`BridgeIngestionService.java`, `IdempotencyService.java`) | `ConcurrentHashMap` of claims | `ingest`, `claim`, `evictExpired`, `clear` | As for Node, with a thread per request |
| Mesh simulator, Java (`MeshSimulatorService.java`, `VirtualDevice.java`, `ApiController.java`) | a `ConcurrentHashMap` per phone | `inject`, `gossipOnce`, `meshFlush`, `meshReset` | As for Node, with rounds, flushes, resets and sends at the same time |
| Dashboard, React (`Dashboard.jsx`, `api.js`) | what is shown, `loading` | `refresh` (timer, buttons), one request per list | It shows a ledger the server had, and ends up current |
| Payment form, React (`PaymentForm.jsx`) | per button: `loading` and a result | `handleSend`, `handleGossip`, `handleFlush`, `handleReset` | A click pays once; what it reports of a flush is final; a reset clears |
| Display components, Thymeleaf page, tests, database launcher | rendering state | - | - |

### How the parts interact

    PaymentForm --send/gossip/flush/reset--> controllers
    controllers --inject/gossip/collect--> mesh simulator (memory)
    meshFlush --Promise.all over the uploads--> ingest --claim--> cache (memory)
                                                  |--decrypt--> key pair (memory)
                                                  `--settle--> MongoDB
    eviction timer --> cache        Dashboard timer --GET--> controllers --> MongoDB

Everything in memory is lost together when the process stops; the database is
not. In Node whatever happens between two awaits is one step. In Java every
request is a thread and only single map calls are atomic.

### What is hard here

* Settlements interleave at every database call. Without a MongoDB session,
  every write counts at once and only the `__v` filter of the debit and the
  unique index on `packetHash` stand between two of them.
* A write or a commit may take effect and its answer be lost; the process may
  die between two writes.
* One packet arrives through several bridges, in the same instant or days apart;
  the cache forgets by time, on reset and on restart; the clocks of senders are
  not the server's.
* Settlements that cross (a to b, b to a) need the same two accounts in opposite
  orders.
* Gossip acts on a snapshot while resets and senders change the phones.
* Refreshes of the page overtake each other and fail in part.
* The browser gives up on requests the server still handles; each button waits for
  its own request only, so a reset overlaps sends and flushes.
* Two processes may start on one database and seed it at once; the batch of a
  process goes on in MongoDB when the process dies.
* `toFixed(2)` rounds a debit and its credit separately, from amounts that need not
  be whole paise; in Java the balance column does, each row for itself.
* The server goes on behind the page: packets grow too old, claims expire, and a
  restart takes the phones, the claims and the settlements in hand along.

`PROJECT.json` lists these hazards line by line with the properties that watch
each of them.

## The modules

| Module | Models | Composes |
|---|---|---|
| `Ledger` | the abstract specification: a payment is once and for all settled (both balances move, atomically) or rejected | |
| `SettlementService` | `settlementService.js`, an action per await, both modes | extends `Ledger`'s definitions and implements its `LedgerSpec` |
| `SettlementProofs` | theorems about it | |
| `BridgeService` | `ingest` with cache, keys, clock, eviction, restart | `SettlementService` |
| `BridgeProofs` | theorems about it | |
| `MeshService` | the phones of the Node simulator | |
| `Simulator` | the demo endpoints, all in one process | `MeshService`, `BridgeService` |
| `PaymentForm` | the four handlers of the form, the browser's time-out, and what goes on behind the page | `Simulator` |
| `FormProofs` | theorems about it and `Simulator` | `BridgeProofs` |
| `Money` | the arithmetic of an amount, its check and its rounding | |
| `Startup` | processes that connect, seed and listen | |
| `DemoServer` | what outlives a process and what does not: accounts, phones, settlements without a session, await by await, with their rounding | `Startup`, `MeshService`, `Money` |
| `DemoProofs` | theorems about it, `MeshService`, `Startup` and `Money` | `SumTheorems` |
| `JpaSettlement` | the Java `settle` and its transaction | `Ledger` |
| `JavaIngestion` | the Java `ingest` and cache, one thread per request | `JpaSettlement` |
| `JpaProofs` | theorems about both | `SumTheorems` |
| `JavaMesh` | the Java simulator and the claims of its flushes, at the grain of map calls | |
| `JavaMeshProofs` | theorems about it | |
| `Dashboard` | `refresh` and the read endpoints behind it | |
| `DashboardProofs` | theorems about it | |
| `SumTheorems` | no code: what sums over finite sets of payments do, for the proofs | |
| `MC...` | small instances of the module of that name for TLC | |

Operators marked `mutant` are plausible mistakes in the definition that follows
them; they are not used by any specification. Each property of each passing run
is violated when such an operator takes the place of the definition it mutates,
which shows that the property depends on that line of the code.

### SettlementService

`pc[c]` is the await at which call `c` of `settle` stands: `sender` and
`receiver` (the two reads), `debit`, `credit` (the two updates), `save` or
`reject` (the insert of a SETTLED or REJECTED record), `commit` or
`commitRejected` (in a session), and then how it returned. `view[c]` is what
its reads returned, from which the updates are computed. Money is in paise.

With `SupportsTransactions` the module models MongoDB's snapshot isolation as the
code relies on it: reads come from a snapshot taken by the first of them, writes
take effect at the commit, a write to a document another open transaction has
written, or somebody has committed since the snapshot (`missed[c]`), is refused.
Without, every write takes effect where the code makes it. MongoDB itself is
external. `Faults` adds an error at any await, an answer lost after the effect,
and a crash of the process.

`settle` chooses the mode by calling `topology.hasSessionSupport` if the connection
has a `db.topology` (lines 25 to 29). Both modes are modelled since the code has
both. With the mongoose that `backend/package.json` asks for (`^8.5`), whose driver
has no such object any more, the fallback is always taken, on a replica set too: what
is said here of sessions is said of the branch the code provides, not of what runs
today. The modules around the settlement therefore run the fallback.

### BridgeService

`PassToSettlement` and the four rejections are the stretch of `ingest` before its
first wait: the claim, the decryption, the freshness check, and the entry into
`settle`. A packet is a payment; its hash names it. `key[p]` is the server start
whose public key it was encrypted for, so a restart, which makes a new key pair,
leaves old packets undecryptable. The hash stays claimed whatever follows.
`evictExpired` runs at any time; the clock moves in ticks and starts at 1 so that 0
can mark an unclaimed hash.

### MeshService and Simulator

`held[d][p]` is the ttl of phone `d`'s copy. `gossipOnce` acts on its snapshot: of
the phones with a live copy the first in device order serves everybody without
one. `hops` is history. `Simulator` runs the endpoints against these phones and
the pipeline: `meshFlush` hands every packet on every bridge to `ingest` in one
turn, and the settlements it starts then interleave. A call of `ingest` is a name
and nothing else, so a flush takes the idle ones in a fixed order. A restart empties
phones and cache and replaces the keys; the database stays. Initial ttls are natural
numbers; the endpoint accepts any number (`demoController.js:43`), and one below zero or
with a fraction is outside the model.

### PaymentForm

`loading[b]` is the flag of `PaymentForm.jsx` that disables button `b`, `request[b]`
the way its request has come: `sent`, then `served` or `refused` by the server. A
handler clears results (`Clears`), sends, waits, and `finally` returns its button.
The time-out of `api.js` (`GiveUp`) may find a request still under way: it moves to
`late`, and the server handles it later, or never received it. The endpoints are those of
`Simulator`, and a flush is answered when its last `ingest` has ended; never, if the
server died under it. Behind the page (`Server`) settlements go on, the clock ticks,
claims are evicted and the server is restarted, so that what a bridge brings may be too
old; a request still under way may meet the next server. Refreshing the page is
`Dashboard`.

### Startup, Money and DemoServer

`stage[s]` is the await of `start()` at which process `s` stands, `batch[s]` the
document of its `insertMany` that MongoDB inserts next. A batch is ordered, and ends
at an `_id` that is taken; it goes on without its process, whose name is free
again once the batch has ended. One process has the port. `Crash` and `DatabaseFails`
strike anywhere; a failure after the first insert of a batch is remembered in `cut`.

`Money` counts balances and records in paise and amounts in tenths of one. At half a
paisa the binary form of the sum decides, so `ToFixed` may give either neighbour.

`DemoServer` puts the two together with the phones and with `_doSettle` as it runs
without a session: `at[p]` is the await at which the settlement of packet `p` stands,
`view[p]` what its two reads returned. The debit is filtered by the version, the
credit is not; both write what was computed from the reads, rounded by `Money`. Any
await may reject (`SettlementFails`), and the process that listens may die between any
two (`ProcessDies`, with the phones); what was written stays. A write whose answer is lost
is a failure at the await that follows it. A packet is settled once here: what copies
of it do is checked in `BridgeService` and `Simulator`. Payments to oneself are left out by
assumption (`self_payment` shows what they do). Two settlements in hand at a time that
share an account are the ones that may lose each other's writes, which `lost_credit`
shows of the code. `contended` remembers such accounts, and what is said of the books is
said of the others.

### JpaSettlement and JavaIngestion

The same payments under JPA: the `Transaction` row is inserted when it is saved
(its key is an identity column), the two accounts are updated when the transaction
ends, each only if its version is the one loaded. Balances and amounts are counted in
tenths of a paisa: an amount is a `BigDecimal` of any scale, and H2 rounds what is
written to the balance column, `NUMERIC(19, 2)` (`Account.java:21`), to the nearest
paisa, half a paisa up (`Column`). The two rows are rounded apart, so half a paisa is
given but not taken (`Taken`, `Given`). The specification implemented is therefore
`RoundedLedgerSpec`, `Ledger` with these two amounts in the place of one. The amount in
the `Transaction` row is not modelled. Rows and keys of open
transactions are waited for, and H2 ends a wait that lasts too long or closes a
cycle. H2 is external. `JavaIngestion` puts `claim` and the checks, two separate
steps of a thread, in front; `clear` and `evictExpired` may come in between. H2 runs
in the process, in memory, so a crash leaves nothing to recover.

### JavaMesh and Dashboard

`JavaMesh` splits `gossipOnce` into the reads of its snapshot and the single
`hold` calls, `meshFlush` into the bridges it reads and the claims its uploads make,
and `meshReset` into the phones it clears and the clearing of the claims. What
follows a claim is `JavaIngestion`, whose requests deliver any packet at any time.
`along[t]` remembers which resets a round or flush ran along with, and conversely.
`Dashboard` counts what the
server has (transfers made, transactions recorded) and what each outstanding
`refresh` has been answered; `shown` is what the page displays.

## The runs

| Run | Distinct states | Shows |
|---|---|---|
| `settlement_session` | 242,000 | In sessions: the service implements `Ledger` under errors, lost answers, repeated packets and crashes; debits are exact, conflicts leave a winner, every call returns |
| `fallback_faults` | 228,000 | What is left without sessions: no record without its debit, one verdict, no overdraft, no debit overwritten by another debit, and a debit without its record only where a call was cut short |
| `lost_credit` | violation | Without sessions two payments to one receiver lose a credit |
| `self_payment` | violation | A payment to oneself creates money, in a session too |
| `bridge_gate` | 915,000 | With clocks behind, ahead and far ahead, and claims that live as long as `MaxAge` plus the skew: no packet passes twice across evictions, restarts and errors, no first copy is dropped, a redelivery changes nothing, and the pipeline implements `SettlementService` with `Duplicates = FALSE` |
| `clock_ahead` | violation | With a sender's clock ahead of the server's, within the tolerated skew, and the default lifetimes, a packet passes twice |
| `mesh_gossip` | 950,000 | `DemoServer`: starts, crashes, failures and settlements, await by await, around the mesh. Hops are paid for, one round reaches all, who is served finds the accounts, accounts that no two settlements had at once agree with what was debited and credited, rounding costs at most a paisa per halfway amount and overdraws nobody, a start leads to a server |
| `simulator_demo` | 222,000 | In any order of endpoint calls, with restarts and resets, a packet is debited once, the server accepts its own, and what passes is decided: recorded, or overtaken by a payment of the same sender that is |
| `payment_form` | 775,000 | `PaymentForm` with two bridges: overlapping, lost, refused and late requests make one packet per click, what a flush reports is final although packets grow stale, claims are evicted and the server restarts, an undisturbed reset clears |
| `java_pipeline` | 365,000 | Java settlement implements `Ledger` with the column's rounding behind a cache cleared at any moment; balances stay whole paise; versions count transfers; a deadlock ends and every thread returns |
| `javamesh_threads` | 860,000 | Rounds, flushes, resets and sends interleaved: one copy per phone, an undisturbed round reaches all, an undisturbed reset clears all, and a packet passes the cache twice only if a reset ran along with a flush or a round |
| `dashboard_overlap` | 160,000 | A refresh shows a ledger the server had while it ran; the page settles |

`Reconciled` appears in the two violation runs only: where it holds, in a session
without payments to oneself, it is proved (`SessionsKeepTheBooks`). The settlement
properties of `fallback_faults` are proved for both modes, but for `DebitsHold`, which is about the
version filter that the fallback relies on.
Type invariants that are proved are not checked again in every run.

### Bounds, and why they are enough

* Three calls of `settle`: two that race and a third that races with either, is a
  repeat, or comes after both. Every guarantee is about two calls and what a third
  does to their documents.
* Five payments: two that cross, one that can only be afforded after a credit, one
  from a third account to the receiver of another, and one
  to an address without an account. Amounts are small integers; only their order
  relative to the balances matters.
* Two threads and three payments in `java_pipeline`: its properties are about pairs of threads, and
  liveness is checked without symmetry. The amounts are 1, 1.5 and 2 paise: half a paisa
  is where the two rows are rounded differently. Two ticks are a second (`SecondTicks`), so a packet
  passes again after its claim has expired. With sender and server on one clock and `MaxTime` = 3 no
  packet is dated ahead; that verdict only ends a request, as the others do.
* Time: `MaxTime` lets a packet become stale and a claim expire, in either order,
  once more than needed for a second pass; `MaxEpoch` = 2 is one restart.
  In `bridge_gate` `Ttl` = `MaxAge` + `Skew`, the least lifetime that is sound with
  clocks ahead.
* Mesh: three phones, the last a bridge, and ttls 0, 1 and the default 5: spent,
  spent after a hop, and alive after it. In the compositions ttl 1,
  since hops are checked on their own, with two bridges; 0 and 1 in `mesh_gossip`.
* `simulator_demo` has four calls: two flushes of a packet on both bridges, or one of
  two packets, whose settlements race for the sender's version. `MaxTime` = 2 and `MaxAge` = 0
  let a packet become stale and its claim expire.
* `mesh_gossip`: two server names, each of which may be many processes in
  turn; `MaxFaults` = 2, one that spoils a start or a settlement and one that spoils what cleans up
  after it. Two payments from one account to another, of 15 and 26 tenths of a paisa: half way, and
  just above what the first leaves of the seed of 4. They settle one after the
  other, meet at any two awaits, or are cut off. Three phones, two accounts.
* `payment_form`: one click on send (`MaxSends`), three requests under way
  (`MaxUnderWay`), of which one may be late on the server, and four calls: two flushes to two
  bridges. A second click only adds a packet of its own. Two ticks and one restart: with
  `MaxAge` = 0 a packet is stale after one, and stale results, stale duplicates and restarts under a
  flush do occur.
* `javamesh_threads`: three requests of any kind; two that overlap and one before or after.
* Dashboard: two refreshes, since a third can only overtake like the second; three
  transfers and one failed request. These bound how long the world keeps changing,
  which `PageSettles` needs.
* Symmetry is over calls or threads only, in `fallback_faults`, `bridge_gate` and
  `javamesh_threads`, which check no liveness.
* Deadlock is checked in all runs but `java_pipeline` and `simulator_demo`, whose
  systems may stop when the bounded requests and ticks are used up. Elsewhere the
  finished state loops explicitly (`Done`, `Answered`).

### Fairness

* `SettlementFairSpec`, `SimFairSpec`: weak fairness of each call's own steps,
  nothing more. MongoDB answers or fails a command, and the event loop resumes the
  continuation. Errors, crashes, clicks and restarts are never forced.
* `IngestFairSpec`: the JVM schedules runnable threads, and H2 ends lock waits
  (its lock timeout and deadlock detection, `LockTimeout`).
* `DemoFairSpec`: weak fairness of each starting process: MongoDB answers and goes
  on with a batch, the event loop resumes `start()`. Starts, crashes, failures
  settlements and everything on the mesh are never forced.
* `DashFairSpec`: the polling timer fires, a request ends in an answer or in its
  15 s timeout, and continuations run. Failures are not fair and are bounded.

## The proofs

Every safety invariant, action property and refinement that a run checks is also a
theorem, for every value of the constants. The liveness properties are not: fairness
and ENABLED are beyond the prover.

`SettlementProofs` (for any calls, payments, accounts and balances):

| Theorem | Property | Assumes |
|---|---|---|
| `SettlementTypeCorrect` | `SettlementTypeOK` | |
| `OneVerdictPerPayment` | `OneVerdict` | |
| `NeverOverdrawn` | `NoOverdraft` | |
| `SettlementsAreDebited` | `EverySettlementHasItsDebit` | |
| `UnrecordedDebitsAreFailures` | `UnrecordedDebitsFailed` | |
| `DebitsAreNotLost` | `DebitsHold` | no sessions |
| `SessionsImplementLedger` | `LedgerSpec` | sessions, nobody pays himself |
| `SessionsKeepTheBooks` | `Reconciled` | sessions, nobody pays himself |
| `SessionDebitsAreExact` | `ExactDebits` | sessions |
| `ConflictsHaveAWinner` | `ConflictsLeaveAWinner` | sessions |

The two that assume that nobody pays himself are false without it (`self_payment`),
and `Reconciled` is false without sessions (`lost_credit`).

`BridgeProofs`:

| Theorem | Property | Assumes |
|---|---|---|
| `BridgeTypeCorrect` | `BridgeTypeOK` | |
| `OnlyCopiesAreDropped` | `DropsOnlyCopies` | |
| `GatePassesOnce` | `PassedOnce` | `SoundSettings` |
| `GateDeliversOnce` | `DeliversOnce` | `SoundSettings` |
| `RetriesDoNothing` | `RetriesAreDropped` | `SoundSettings` |

`SoundSettings`: claims outlive packets, that is `MaxAge + Skew <= Ttl`, or
`MaxAge <= Ttl` (the defaults, which are equal) and no sender's clock ahead.

`DemoProofs` (for any phones, bridges, packets and ttls; any processes, accounts,
balances and amounts, and any number of failures):

| Theorem | Property |
|---|---|
| `EveryHopIsPaid` | `TtlPaysForHops` |
| `HopCountIsTrue` | `HopCountIsDistance` |
| `RoundReachesAll` | `OneRoundReachesAll` |
| `SpentPacketsAreNotSpread` | `SpentPacketsStay` |
| `ServedHopsArePaid` | `TtlPaysForHops`, `HopCountIsDistance`, behind starts and crashes |
| `TransferDrift` | one transfer creates or destroys a paisa at most, and nothing unless its amount is half way |
| `DemoTypeCorrect` | `DemoTypeOK` |
| `ServedAccounts` | `ServedAccountsAreComplete` |
| `NeverBelowZero` | `NoBalanceBelowZero` |
| `EveryBalanceIsBooked` | `BalancesAreBooked` |
| `MoneyStays` | `MoneyIsConserved` |

The last two speak of accounts that no two settlements had at once, and of servers where no two
settlements met; crashes and errors between the awaits are in. That others are not booked is no
gap of the proof: `lost_credit` is the counterexample.

`FormProofs` (for any phones, calls, payments, and sequences of clicks, ticks,
restarts, resets and evictions):

| Theorem | Property | Assumes |
|---|---|---|
| `DemoDrivesMesh` | `Mesh!MeshSpec`: the endpoints do to the phones only what the mesh does | |
| `PageDrivesDemo` | `SimSpec`: the page does to the server only what its endpoints do | |
| `OwnPacketsPass` | `OwnPacketsAreAccepted` | nothing is altered on the way |
| `DemoDebitsOnce` | `DebitedOnce` | `MaxAge <= Ttl` |
| `FormTypeCorrect` | `FormTypeOK` | |
| `ClicksPayOnce` | `OnePacketPerClick` | |
| `ResetsClearThePage` | `UndisturbedResetClears` | |
| `FlushResultIsTrue` | `ShownFlushIsTrue` | both |

The phones of the simulator carry what the server made itself, so nothing alters it;
`MaxAge <= Ttl` are the defaults (both 24 hours), and the server's own packets are stamped by
its own clock, so no skew enters.

`JpaProofs` (for any threads, payments, accounts and balances, under lock time-outs
and exceptions):

| Theorem | Property | Assumes |
|---|---|---|
| `JpaTypeCorrect` | `JpaTypeOK` | |
| `JpaImplementsRoundedLedger` | `RoundedLedgerSpec` | nobody pays himself |
| `JpaImplementsLedger` | `LedgerSpec` | nobody pays himself, amounts are whole paise |
| `HalfPaiseAreMade` | `Taken` and `Given` are the nearest whole paise and differ by a paisa at half of one | |
| `JpaKeepsTheBooks` | `BooksInOrder`: every balance is the opening one less what is taken and plus what is given for each record, and not negative; a payment to oneself takes and gives nothing | |
| `VersionsAreCounts` | `VersionsCountTransfers` | |
| `StaleOnlyByProgress` | `StaleMeansProgress` | |
| `IngestionImplementsJpa` | `JpaSpec`: behind the cache the threads only settle | |
| `SecondPassChangesNothing` | `SecondPassIsHarmless` | |
| `OnlyCopiesAreDropped` | `DropsOnlyCopies` | |

`JavaMeshProofs` (for any threads, phones, packets and ttls):

| Theorem | Property |
|---|---|
| `JavaMeshTypeCorrect` | `JavaMeshTypeOK` |
| `RoundsReachAll` | `RoundReachesAll` |
| `ResetsClear` | `ResetClearsMesh` |
| `JavaPassesOnce` | `PassesOnce` |

`DashboardProofs` (for any number of refreshes, transfers and failures):
`RefreshesShowALedger` is `ShownIsALedger`.

`SumTheorems` proves about the sum of a function over a finite set what the proofs
of the books need: what one element more, a changed term or a filter makes of it,
and that balances which agree with a set of transfers (`Balanced`) agree with one more
(`TransferIsBooked`). `MapThenSumSet` of the community modules is a fold, that is a recursive
function given by CHOOSE; that such a function exists and is determined (`SumsExist`,
`SumsAgree`) is proved by induction on the size of the set, stated with sets of numbers
instead of predicates (`AllNaturals`).

All rest on the named assumptions of the modules (`LedgerAssumption`,
`SettlementAssumption`, `BridgeAssumption`, `MeshAssumption`, `SimulatorAssumption`,
`FormAssumption`, `StartAssumption`, `DemoAssumption`, `JpaAssumption`,
`IngestAssumption`, `JavaMeshAssumption`, `DashboardAssumption`), which TLC evaluates in
the runs.

### The invariants behind them

None of the properties is inductive alone. The strengthenings were checked with TLC on the
instances of the runs before they were proved.

Settlement:

* `OneVerdict` needs that the record agrees with every verdict given, and, in a
  session, that an insert held by an open transaction is the only one for its hash
  and finds no record yet (`InsertsAreExclusive`).
* `NoOverdraft` needs that a call past the check has read a sender's balance that
  covers the amount, and reads are never negative (`DecisionsAreFounded`).
* The refinement, `Reconciled` and `ExactDebits` need `SnapshotsHold`: what nobody has committed
  since the snapshot is still what the call read, and no two open transactions hold
  one document. So at the commit the balances written are the current ones minus
  and plus the amount, which is `Ledger!Settle`; every other step stutters.
  `Sender # Receiver` is needed, and `self_payment` shows why.
* `EverySettlementHasItsDebit` without sessions: each step that adds to the right side,
  a SETTLED record or a call on its way from debit to record, has added to the version before or
  moves one from the latter to the former; a crash drops calls on their way, never
  records (`DebitsBehind`). In sessions it follows from `ExactDebits`.
* `UnrecordedDebitsFailed` needs a count of its own, again for each step: the version is at most
  the records, the calls on their way and the calls cut short; a conflict or a rejection
  leaves before the debit (`Accounted`).
* `DebitsHold` needs `SpendInv`: as long as nobody has paid an account, what a call read
  under the version that still stands is its balance, so the debit takes the amount off
  what is there.
* `ConflictsLeaveAWinner` needs `Undisturbed`: as long as nothing is settled, every
  balance is the initial one, a call past the check is covered by it, and a call
  in conflict has met one that still holds what it wanted, or has failed.

The gate:

* `PassedOnce` needs that a packet that has passed under the present key is
  either claimed, and the claim will outlive its freshness, or already stale
  (`Guarded` in `GateInv`). `SoundSettings` gives the first at the claim;
  `clock_ahead` shows what happens without.
* `GateDeliversOnce` then maps every step of the pipeline to a step of
  `SettlementService` without duplicates, a restart to its `Crash`.
* `RetriesDoNothing`: a call that ended without a verdict has ended; another that would
  decide its packet must have passed too, which `PassedOnce` excludes.
* `DropsOnlyCopies` needs that every claim in the map was put there by a request with
  a verdict of its own (`ClaimsHaveOwners`), in Node and in Java.

The demo and the page:

* `OwnPacketsAreAccepted` needs that what a phone holds was made for the present key
  and is stamped no later than now (`PhonesOK`): a restart, which makes a new key, takes
  the phones with it.
* `DebitedOnce` needs a gate invariant of its own, since a reset clears the claims
  of packets that are still fresh: a packet that has passed is on no phone any more, or is
  claimed for as long as it is good, or is stale (`SimGuarded`); and that a
  version counts no more than the payments some call may have debited (`Paid`).
* `OnePacketPerClick` needs to know of each send whether it is awaited or late and whether it
  has been handled (`AwaitedSends`, `LateSends`).
* `UndisturbedResetClears` needs `ResetInv`: while a reset is the only request since its
  click, it has yet to be handled, or there is nothing left.
* `ShownFlushIsTrue` needs that a hash in the cache was brought by somebody who passed or
  came too late, that what was too old stays too old, that a call that ended with a verdict is on
  record (`AnswersInv`), and that a flush is shown only when its calls have ended
  (`FlushInv`). A call the server's death has cut off never ends, so its flush is never shown.

The mesh, start-up and the books (Node):

* `TtlPaysForHops` is inductive with the types (`MeshInv`). `RoundReachesAll`
  needs that the first phone of the list with a live copy exists
  (`LeastNatural`, from the well-foundedness of `<` on the naturals).
* `ServedAccounts` needs `SeedInv`: unless a batch was cut, at most one batch
  gets beyond its first insert, what is stored is what that batch has
  inserted or everything, and nobody is past the count while nothing is stored. Two
  batches under way at their first document is where the order of the list
  decides: the second insert of it fails.
* `ServedHopsArePaid` maps every step of the server to a step of the mesh: a death of
  the process that listens is a `resetMesh`, everything else a stutter.
* `BalancesAreBooked` and `MoneyIsConserved` are proved together (`Books`), with `ViewsHold`:
  what a settlement has read of an account that no other has in hand is still its
  balance. So a debit takes the amount, to half a paisa, from what is there and a credit adds it
  to what is there. Two settlements in hand that share an account have made it contended when
  the second began. `Progress` says what has been read and checked at each await: both
  parties are stored, the balance covers the amount, what was credited was debited.

Java:

* `KeysAreExclusive` is `InsertsAreExclusive` for the unique key of H2. `RowsInv`: a
  row a thread has read is the current one as long as its version is, and no two
  threads have written one row. At the commit the flush has checked the versions, so the
  entities it writes are the current balances minus and plus the amount. Rounding them is
  rounding the amount, since saved balances are whole paise (`JpaTypeOK`).
* `IngestionImplementsJpa` needs that the threads past the gate are those that
  settle (`GateInv`); `SecondPassIsHarmless` then follows from `KeysAreExclusive`.
* The mesh properties have to speak of all copies, those on phones, in the
  snapshots of rounds and in the hands of a step under way (`Within`). `PaysInv`: by its ttl
  and its hops, every copy is of a packet that was sent. `OverlapsOK`: requests that overlap a reset know of each other.
  `ClearInv`: what a phone holds after the reset has been at it was sent since. `OnceInv`:
  while no reset overlaps anything, every copy is of a packet that has not been uploaded or
  is still claimed. `ReachInv`: what a round has seen stays, and what has had its turn is
  everywhere or still to be offered.

The dashboard:

* `ShownIsALedger` needs `TimelyInv`: what a refresh under way has been told dates from
  its own time, or from a failure.

### Only model-checked

The liveness properties: `EveryCallReturns`, `DeliveredIsDecided`, `StartLeadsToService`,
`EveryThreadReturns`, `PageSettles`.

The specifications avoid two forms that TLC and TLAPS read differently, or that TLA+
leaves open: `@` in an EXCEPT with several updates of one function (`Ledger!Transfer`
is a function constructor instead, which also says what a payment to oneself does), and
CASE with guards that overlap where the order of the code's returns decides (nested IF
instead).

## What the checks found in the code

With a run:

1. `lost_credit`: `settlementService.js:105` writes the receiver's balance computed
   from an earlier read, filtered by `_id` alone. Two concurrent payments to one
   receiver, without sessions, lose one credit. The Java version counts the
   receiver's version too.
2. `self_payment`: with sender = receiver the credit overwrites the debit
   (`settlementService.js:91`, 105) and money appears. In Java both updates hit one
   entity.
3. `clock_ahead`: claims live `Ttl` from the claim, packets `MaxAge` from a
   signature that may lie `clockSkewSeconds` in the future, so a packet can outlive
   its claim. A lifetime of `MaxAge` plus the skew would do, as `bridge_gate` and
   `GatePassesOnce` show.

Met while modelling, and described here only:

* Without sessions one packet handed in twice (after 3, or from two servers) is
  debited twice before the unique index refuses the second record; the
  comment at `settlementService.js:18` expects one of them to fail earlier.
* A debit that lost the version race answers "retry" (line 102), but the hash
  stays claimed, so a redelivery of the packet is dropped (`RetriesAreDropped`).
* A packet recorded REJECTED is reported with outcome SETTLED
  (`bridgeService.js:67`), and the form puts a check mark to it
  (`PaymentForm.jsx:83`).
* A send that timed out may have made its packet; a second click makes another, and
  both settle.
* A reset that overlaps another request of the form may be followed by that
  request's packets and results.
* A seeding that MongoDB cut short is never completed, since the next start
  finds some accounts (`demoService.js:26`). A start that meets the batch of a dead
  process dies on it, and then nobody listens; if it comes a little later it
  serves before the batch is complete.
* An amount half way between two paise may create or destroy one: debit and credit are
  rounded apart (`settlementService.js:91`). In Java it creates one, by the column
  (`Account.java:21`).
* Without sessions a crash or an error between debit and credit loses the amount, and one
  between credit and record loses the record; nothing completes either later.
* In Java a flush collects before it claims, and a reset may come in between: of
  two flushes that collected a packet, one may claim it before the reset and one
  after. In Node collecting and claiming are one turn of the event loop. The
  settlement behind makes it harmless (`SecondPassIsHarmless`).
* `meshController.js:50` reports `max(0, 5 - ttl)` hops although the sender chooses
  the ttl (`demoController.js:43`), so only the default is reported correctly.
* `BridgeIngestionService.java:61` compares whole seconds, so a packet passes for
  up to a second after its window (`application.properties:24`).
* In Java a gossip round that overlaps `resetMesh` puts packets back on phones that
  were cleared, while the answer says "cleared" (`ApiController.java:145`).
* A Java payment to oneself leaves its entity unchanged, so no version is
  checked, and it may be recorded SETTLED although a concurrent transfer has spent
  the balance meanwhile. No balance is wrong, but this is not a step of `Ledger`,
  and `java_pipeline` has no such payment for this reason.
* `api.js:24` turns a failed request into an empty list, which the page presents as
  "No transactions yet".

## Not modelled, and why

* Byte layouts, RSA and AES, JSON: `decrypt` is modelled by its outcome.
* What contended accounts have without sessions: `lost_credit` shows that it may be anything
  a lost credit leaves, and no property bounds it.
* Copies of one packet in `DemoServer`, whose settlements run once per packet.
* HTTP routing, validation that only rejects, logging, rendering: no state.
* The Thymeleaf page: the refresh of `Dashboard.jsx` with its requests one after the
  other. Planned.
* Inputs, layout and the log of the payment form; display components.
* The eviction of two claims by one Java `removeIf` is one step; each entry could
  go on its own.
* MongoDB, H2, the clock and the process's death are external and modelled by what
  the code relies on.

## Plan

Done: the modules above, in the order `Ledger`, `SettlementService`,
`BridgeService`, `MeshService`, `Simulator`, `JpaSettlement`, `JavaIngestion`,
`JavaMesh`, `Dashboard`, `Money`, `Startup`, `DemoServer`, `PaymentForm`, and proofs of
every safety and action property of theirs.

Next:

1. The Thymeleaf dashboard as a variant of `Dashboard`.
2. The `POST /bridge/ingest` of a real phone next to the simulated ones: headers that
   are no numbers, and its validation.
3. A bound on what a contended account may lose: no more than the amounts of the
   settlements that met on it.
