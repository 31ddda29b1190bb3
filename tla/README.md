# TLA+ models of the offline betting API

The repository is a Fastify/Prisma service that runs the betting of a cockpit
without the internet: an admin opens a fight, tellers at kiosks sell tickets on
MERON or WALA, the admin closes the fight and declares a result, tellers pay
winners out of their drawers; kiosks and a dashboard follow over WebSockets, a
timer mirrors the database to Supabase, and at the end of the day an admin wipes
the session. This directory holds TLA+ modules of all parts that keep state, TLC
configurations that check them on small instances, and proofs that TLAPS checks
for all instances.

Source paths below are relative to the repository; `fights.service.js` stands
for `src/modules/fights/fights.service.js`, and so on.

## 1. Inventory

### Components, their state and their operations

| Component | State | Operations that write | Talks to |
|---|---|---|---|
| Settlement mathematics (`lib/fight-settlement.js`, `lib/odds.js`) | none | pure functions: multipliers, payout, per-ticket plans for settle, cancel, correct, unsettle | called by Fights |
| Fights (`fights.service.js`) | `Fight` rows: status, commission snapshot, running pools, side holds, outcome, ratios, one level of previous outcome | create, close, reopen, last call, resume, hold/unhold a side, settle, cancel, correct, unsettle | locks `Fight` rows (`lib/prisma-tx.js`), rewrites `Bet` rows |
| Bets (`bets.service.js`) | `Bet` rows: status, payout, one level of previous status and payout | place (idempotent on `clientRequestId`), void, pay, purge | increments pools, appends to the ledger |
| Cash (`cash.service.js`, `lib/teller-balance.js`) | `TellerLedger` rows; the balance is their sum | advance, remit, delete a remit | read by pay and remit |
| Settings | one row: commission rate | update | read by fight creation |
| Session reset (`session.service.js`) | `SessionReset` audit rows | preview (read), reset (gate, counts, audit row, `TRUNCATE` of the three tables) | wipes Fights, Bets, Cash |
| Routes (`*.routes.js`, `*.events.js`) | none | every mutating endpoint: service call, then frames | broadcast through the hub |
| WebSocket hub (`websocket.plugin.js`, `lib/websocket.js`) | set of sockets, two timers per socket | connect (authenticate, join, WELCOME snapshot), broadcast, ping/pong, close, shutdown | reads Fights; reached by the routes |
| Supabase mirror (`lib/supabase-sync.js`, its plugin, a script) | remote copy, state file, `running` flag | sync, by a timer, an admin or a script | reads every table |
| Reports (`reports.service.js`) | none | two commission reports | reads Fights, Bets |
| Users, authentication, collectors | `User`, `Collector` rows | create, (de)activate, reset and change a password, log in and out; create, rename, retire a collector | the actor and the recipient of every request |
| Code generation (`lib/code-generator.js`, `lib/ticket-code.js`) | none | draws a code among those not in use | inserted by Bets and Collectors |
| Schemas, error mapping, start-up | none | | |

### What is hard

* Every mutating service call is a Postgres transaction at READ COMMITTED:
  a statement sees what was committed when it starts, and a transaction that
  reads first and writes later may write from stale data. What protects it is
  the `Fight` row lock (`lockFightById`), the `Bet` row lock of `payBet`, and
  one advisory lock shared by `createFight` and `unsettleFight`. The three do
  not cover each other: `payBet` takes no fight lock, corrections and reverts
  lock the fight and write tickets by id, `reopenFight` does not take the
  advisory lock, and the balance check of `cashRemit` takes no lock at all.
* Long legal sequences: correction after correction, revert after purge,
  reopening a fight that a revert left closed.
* A payout has left the drawer when its ticket is corrected: the ledger, the
  ticket and the fight have to agree although they cannot all be rewritten.
* Rounding: a multiplier floored to four decimals, a payout rounded half-up to
  the centavo, and the sum of the payouts against what the pool holds.
* Transactions time out (P2028), answers are lost, and kiosks repeat requests
  that are served a second time beside the first.
* A broadcast follows its commit after further awaits, and a socket joins the
  broadcast set before it has its snapshot.
* A reset takes three tables away from transactions that hold some of them.
* A sync reads table after table while the book goes on, beside another sync.
* Lists are read page by page and query by query while rows move between them.

`PROJECT.json` lists each hazard at its line with the properties that would
catch it, or why none does.

### What makes it correct

* Settlement: the winners of a fight are promised no more than the pool holds;
  what a ticket is owed depends on the present declaration, not on the path.
* Fights: at most one live fight; a result can always be declared; fight row
  and tickets tell the same story; the book is frozen once betting closes.
* Bets and cash: pools are the sums of the stakes; a balance is the cash in the
  drawer; every cash movement of a ticket is in the ledger exactly once; what
  was cashed stays cashed; no remit overdraws a drawer.
* Concurrency: split into their reads and writes, the transactions behave like
  the atomic operations, or this file says when they do not; transactions do
  not wait for each other in a circle.
* Reset: a closed house loses nothing to it, and it leaves nothing half wiped.
* Screens: once all frames are out they show what the tables hold; no kiosk
  misses the newest frame; who answers pings stays connected, who is gone leaves.
* Retries: an answer says what was done, everything is done once, and whoever
  calls again after it was done is told so.
* Mirror: it never goes back in time, no row of it refers to a missing one, and
  it catches up in the end, unless a unique name changed hands.
* Accounts: names and badges of collectors differ; an admin can always come back.
* Lists: a walk through all pages lists what was there all along, each row once.

## 2. Modules

| Module | Extends | What it is |
|---|---|---|
| `Settlement` | | operators for the settlement mathematics |
| `Declaration` | `Settlement` | one fight after betting: every sequence of settle, correct, unsettle, redeem |
| `Book` | `Settlement` | fights, tickets and ledger, each operation one step: the abstract specification of the services |
| `BookTx` | `Book` | the same tables under concurrent transactions, with locks, stale reads, rejections and timeouts; its steps are steps of `Book` when requests keep out of each other's way |
| `SessionReset` | `BookTx` | the reset beside those transactions |
| `TableLocks` | | the lock orders of all transactions, queues and the deadlock detector |
| `Reports` | `Book` | the two commission reports as operators |
| `Api` | `Reports` | the routes: commit, frames in the order of the handlers, what the screens show |
| `Desk` | `Book` | a kiosk that repeats placing, voiding and paying, and the handlers that serve it |
| `Pages` | `Book` | the paginated lists and the list of current fights while the book changes |
| `WsHub` | | the WebSocket hub: connection handler, timers, broadcast set |
| `Mirror` | | the Supabase sync; refines `Backup` when nothing is written during a sync |
| `Backup` | | what a backup promises, abstractly |
| `Accounts` | | users, authentication, collectors, and the checks before a cash entry |
| `MC...` | | instances for TLC |
| `Sums` | | lemmas on `SumFunctionOnSet` |
| `BookProofs` | `Book`, `Sums` | theorems about the tables: types, pools, tickets, ledger and cash |
| `BookTxProofs` | `SessionReset`, `BookProofs` | theorems about the split transactions, that they refine `Book` among them, about resets and many sessions in a row |
| `AnswerProofs` | `Desk`, `Api`, `Pages`, `BookProofs` | theorems about what a kiosk is told of its calls, the screens by the frames, a client by the lists, and an administrator of the commission |
| `TableLocksProofs` | `TableLocks` | theorems about lock orders and deadlocks |
| `DeclarationProofs` | `Declaration`, `Sums` | theorems about what a fight owes, however often it is declared |
| `MirrorProofs` | `Mirror` | theorems about the mirror, its refinement of `Backup` among them |
| `AccessProofs` | `Accounts`, `WsHub` | theorems about the collectors, what kiosks miss and who is cut off |

### Units and abstractions

Money is in centavos, rates in 1/10000, multipliers in 1/10000: the precisions
of the Decimal columns, so every value of the models is an integer. The code
computes with doubles and rounds to those precisions; the models compute
exactly and keep both roundings (floor of the multiplier, half-up of the
payout). A double that lands one unit of the multiplier lower than the exact
value would pay less than the models, never more.

Left out of the rows: ids, ticket codes, notes, timestamps and actors that no
later step reads. `correctedAt` is set exactly when the previous status (or
outcome) is, so the models read the latter. `paidBy` is the ticket's own teller
(`assertCanPayBet`). A ticket's key is its `clientRequestId`: a repeated
placement finds the key taken and writes nothing, which is no step.
An operation that ends in an error writes nothing and is no step either, except
in `BookTx`, where it holds locks until it ends.

### `Settlement` and `Declaration`

`PayoutMultiplier`, `Payout`, `TargetStatus`, `TargetPayout` and the
`Can.../...Ticket` pairs are the functions of `odds.js` and
`fight-settlement.js`: the first of a pair is false where the function throws,
the second is the row after the plan it returns. `Declaration` applies them to
the tickets of one closed fight as `settleFight`, `correctFight`,
`unsettleFight` and `payBet` do, with pools computed from the stakes.

### `Book`

Variables: `setting`, `fights`, `bets`, `ledger` (a bag: two advances of the
same amount are two rows), and three history variables no action reads:
`drawer` (cash that physically changed hands), `paidOut` (cash customers got
for a fight) and `purged` (stakes of deleted tickets). An operation appears
under its name in the code, one action per service function:
`MoveFight` is the shared shape of close, reopen, last call and resume,
`ToggleSide` of hold and unhold. The groups `Lifecycle`, `Holding`, `Betting`,
`Declaring`, `Paying`, `Correcting`, `Reverting`, `Purging`, `Cash`, `Tuning`
make up `Next`. `NoRevertSpec` is a session that never reverts a declaration,
`NoPurgeSpec` one that never purges a ticket: two of the properties hold there
only (section 5 shows why).

### `BookTx`

One session per request in flight. `tx[s]` is `Idle` or the transaction the
request is in the middle of: what it read, and by its kind what it locks.
An operation stays one step (`Direct`, under `~FightLocked(f)` where the code
locks the fight) when everything its writes depend on is read again under the
lock and only a holder of the lock can change it. That is so for betting,
voiding, holds, lifecycle, settling and cancelling: tickets of a fight that is
not settled are written by nobody else. The other six are split where their
data can go stale:

| Operation | Read step | Write step | Locks in between |
|---|---|---|---|
| `createFight` | no live fight | no closed fight, insert | advisory |
| `correctFight` | all tickets, their plans | writes plans by id, then the fight | fight |
| `unsettleFight` | gate, live fights, plans | writes plans, closes the live fights | advisory, fight, live fights |
| `payBet` | ticket, fight of a refund, balance | status, ledger row | ticket |
| `purgeBet` | plans adjustments, before the transaction | deletes, inserts the plan | none; the row of the ticket is not locked when it is looked at again, and its deletion waits for a payment of it |
| `cashRemit` | inserts, checks the balance | commits | none |

`Rejected` is the second look that throws: a closed fight after all, a planned
row that is gone (P2025), a ticket no longer paid. `Timeout` is P2028, a lost
connection or a crash of the server: the transaction rolls back and its locks
are free, possible at any time. A step that has to wait for a lock is simply
disabled.

`Careful` names what the locks do not enforce: while a fight is corrected or
reverted none of its tickets is paid, no fight is reopened while another is
created or reverted, and nothing takes cash from a drawer that is being paid
from. Under it every step of the split transactions is a step of `Book` or
leaves its variables alone (`CarefulIsBook`; the variables have the same names,
so the refinement mapping is the identity and `tx` is hidden), for every
instance (`CarefulRefinesBook`, of `CarefulSpec`). That each part is needed
shows in section 5.

### `SessionReset` and `TableLocks`

`wipe` is the request to reset that is being served, `audits` the audit rows.
`RequestReset` is the request (with or without `force`), `PassGate` and
`RefuseReset` the three statements of `evaluateInvariants`, which run on
connections of their own in any order, `CountRows` the four counts one after the
other, `Wipe` audit row and `TRUNCATE`, `AbortReset` P2028 or a deadlock.
`TablesFree` is what `TRUNCATE` waits for: no transaction that has touched a
table; a purge that is still planning has not. `wipe.alone` (history) says that
no other request was served since the reset was asked for. `OrderlySpec` is many
sessions in a row, of requests that keep out of each other's way (`Careful`) and
with unforced resets that are alone.

`TableLocks` says where `TablesFree` comes from and what it costs. A transaction
is the sequence of locks it takes, table locks of statements included, in the
order of its statements (`PayLocks`, `ResetLocks`, ...). `Ask` and `Grant` are
Postgres's lock manager, modelled as external: who asks for a lock is `queued`,
behind those (`ahead`) whose conflicting requests came first. `Victim` is its
deadlock detector, `Expire` P2028.

### `Reports` and `Api`

`TellerCommission` and `FightCommission` are the sums of the two reports in
1/10000 centavo, `Centavos` is `toMoney`. `Api` gives every route that writes
one action, `Post...` or `Delete...`: the operation of `Book` and, appended to
`answers`, the frames the handler broadcasts, in its order. `ReadBalances` is
the balance that the bet routes read after the commit, `Send` the broadcast.
A frame about a fight is a row with the columns it tells of, and what a kiosk
`Shown` is the last word on each column. `screen`, `tills` and `board` are what
kiosks and dashboard show from frames alone; the clients are external, modelled
from `docs/realtime-events.md` and the payload builders. Every frame arrives
here; delivery is `WsHub`'s matter. `ApiSpec` lets answers that overlap
broadcast in any order, which is what the code allows; `OrderlySpec` in the order
of their commits, which the code does not enforce, and which the screens need
(section 5).

### `Desk`

`handler[h]` is the call a handler serves and its step, `heard` what the kiosk
was told of each operation on each ticket, `codeOf` the ticket codes. `...Look`
is the check before the transaction, `...Commit` the transaction, `...Refused`
its rejections, `TimedOut` 408. A unique violation (P2002) of a placement is a
`Duplicate`, the replay in the catch block of `placeBet`, only if it is the index on
`clientRequestId` that is reported, not the one on the code, and
`err.meta.target` is an array that names the column; any other is a
`UniqueConflict`, 409. Whether the database client names columns is the constant
`NamesColumns` (yes, no, or either each time), since the driver adapter that
`prisma.plugin.js` passes to Prisma is not bound to. `again` (history)
says whether what a call asks for was done when it was sent. Answers fall in classes (`fresh`, `replay`,
`refused`, `busy`, `error`), which is what a client can act upon. `Lose` loses a
request, an answer, or the server in the middle.

### `WsHub`

The n-th commit makes version n and a frame carries its version. `Connect`,
`Authenticate`/`Refuse`, `LoadSnapshot`/`SnapshotFails`, `Welcome` are the
connection handler between its awaits; the close and message handlers exist only
after the last one (`phase = "served"`). `pingTimer`, `deadlines` (all that
still run, also those whose handle was overwritten) and `pongDeadline` (whether
the last handle is known) are the timers, in units of 15 s. `PeerVanishes` is a
kiosk that loses power: its socket stays OPEN.

### `Mirror` and `Backup`

`past` is the history of local states, `mirror` the committed remote tables,
`mirroredAt` (history) when each was read. A sync goes through `Starts`,
`Begin` (schema check and `TRUNCATE`, which locks the remote tables), one
`CopyTable` per table in `SYNC_TABLES` order, `Commit`, `Save` (state file), or
`Unreachable`, `Fails`, `SaveFails`. `running` is the plugin's flag. All seven
tables are there. Of a row are kept the references to a teller, a fight, a ticket
and a collector and the name of a collector, which is what may make an upsert
fail (`ReferencesHold`, `NamesFree`), and a mark that changes with it. The other
references to users (who held, paid, voided, corrected, adjusted) are of the
teller's kind; usernames and codes are unique too, but never change. The three
operational tables are emptied first, the other four only upserted, on their ids.
`NamesFree` says of all rows of a table what their upserts, one after the other
in the order of ids, meet. `Restart` drops
all syncs in progress. `Timer` is the sync that the timer starts. `QuietSpec`
writes nothing locally between the reads of one sync.

### `Accounts`

A request goes through `Send`, `Authenticate` (reads the `User` row again, then
the role), and its operation. Password changes, creations of collectors and cash
entries have a look-up and a write with anything in between (`ChangeLook` and
`ChangeWrite`, `DrawBadge` and `InsertCollector`, `FindParties` and
`PostEntry`). Passwords are compared values, hashing is left out; `Normal` is
`normalizeName`. `SuperLogin` is a login with the fixed account, which creates
the row or puts it back.

### `Pages`

`walk` is a client in the middle of a list, `reads` the queries of
`listCurrentFights` that have come back. A query is written as what it returns:
the rows `From` the cursor on that pass the filter, `NewestFirst`, and of these
the ones `Taken` by `skip` and `take`. Prisma's `cursor` is external and compares
with the row of that id, so from a row that is gone nothing follows; `skip: 1`
drops the first row *found*. `created` numbers the tickets by `createdAt`, which
is drawn before the commit (`Dated`): a ticket may be numbered below one that
was there before it. `PagesSpec` lets every operation of `Book` run between two
queries; in `SteadySpec` the rows of cursors stay in their list, without which a
walk does miss rows (section 5). The instances leave out the operations on
drawers, sides and the rate.

## 3. Runs

Several runs have a variable beside those of the module (`reverts`, `fightsHeld`,
`evening`, `day`, `client`, `hour`, `night`, `scene`): it is chosen at the start,
never changes, and selects which of several small instances the behaviour is
one of. That is how one run asks the same question of a busy and of a long
evening without the product of both.

| Run | Instance | Shows |
|---|---|---|
| `declaration` | 3 tickets, stakes 100.00/100.01/250.33, rates 0.0001 and 0.1 | `PayoutsWithinPool`: promised payouts exceed the distributable pool by at most half a centavo per winner. `DeclarationIsMemoryless`: a ticket is owed what declaring the present outcome afresh would owe it |
| `book` | 2 fights, 2 tickets, 2 stakes, a rate that divides no pool, one advance; houses that revert and houses that do not; no purge | `TicketsFollowFight`, `ResultCanBeDeclared`, `FightSolvent`, `OneUnfinishedUnlessReverted`, `RevertOnlyBeforeCash`, `CashedIsFinal` |
| `api` | every route that writes; 1 fight with 2 tickets, 2 tellers and a cash row, or 2 fights with a ticket and neither last calls, holds nor cash rows; two answers between commit and frames, which leave in the order of the commits | the tables: `TypeOK`, `LedgerIsCash`, `LedgerMatchesTickets`, `PoolsMatchStakes`; the screens once all frames are out: `KiosksInSync`, `DashboardInSync`, `LeaderboardInSync`; the reports: `HalfIsWithheld` |
| `evening` | 2 requests in flight; *busy*: all operations split, 1 fight, 2 tickets; *careful*: 2 fights, 1 ticket, `Careful`; *last*: a reset besides | `FightRowCoherent`, `PaymentIsCurrent`: what the locks protect in every race. `CarefulIsBook`: careful transactions implement `Book`. `ResetTypeOK`, `ClosedHouseLosesNothing`: what a reset may not do |
| `locks` | 3 requests of every mix of 8 kinds | `OnlyResetsDeadlock`, `WipeIsAlone`, `RequestEnds` |
| `desk` | 2 handlers; *calls*: a ticket through its life, calls repeated; *sale*: two tickets sold at once with two codes; unique violations that name their columns and that do not | `AnswersAreTrue`, `LedgerMatchesTickets`, `PaidIsReplayed`, `DoneIsReplayed`, `RetriesEnd` |
| `pages` | *tickets*: 3 tickets of a fight; *fights*: 3 fights; *kiosk*: the three queries over 2 fights; pages and lists of 1 or 2 rows | `WalkIsComplete`, `LiveFightIsShown` |
| `hub` | *rush*: 2 sockets, 2 commits, a restart, no time; *quiet*: one socket with its timers in units of 15 s, which fit ping interval (30 s) and answer time (60 s) | `NothingMissed`, `AnsweringKiosksStay`, `VanishedKiosksLeave` |
| `mirror` | a teller, a fight, a ticket; *quiet*: no write during a sync, 3 writes; *crowded*: 2 syncs, 2 writes of users and fights; *alone*: the timer only, 4 writes; *cash*: the timer only, 3 writes of users, a collector and cash entries; *names*: the timer only, 2 collectors created and renamed among 3 names, 4 writes; one fault, none in *alone* | `MirrorNeverGoesBack`, `IsBackup` (refines `Backup`), `MirrorCatchesUp`, `TypeOK` (no row refers to a missing one) |
| `accounts` | *duty*: 2 calls switch 4 accounts on and off; *names*: 2 calls create and rename 2 collectors; *counter*: every operation, one call | `CollectorsDiffer`, `AdminRestored` |
| `tx_unsettle` | violation | `RevertOnlyBeforeCash` (section 5) |
| `desk_void` | violation | `VoidedIsReplayed` (section 5) |

### Bounds, and why they are enough

`MaxFights` (fights of a session) and `MaxCashRows` (ledger rows without a
ticket) bound what else is unbounded; under concurrency the second guards the
read of a request and its write. Two fights are enough for everything that
relates fights: a revert closes *other* live fights, creation looks at *other*
unfinished ones. Two tickets give every combination of winner, loser, voided,
purged and refunded on the two sides; `declaration` adds a third because the
rounding errors of several winners add up, `pages` because a walk has to have a
middle. Two tellers appear where rows must go to the right drawer. `book` has an
advance larger than the stakes so that a fight owing too much is paid, and seen,
rather than stopped by an empty drawer. Two requests in flight suffice for the
races of `BookTx`, all of which are between a reader and one writer; `locks` has
three, because a circle may be longer than two, and leaves out only threesomes
with a request that holds at most two locks or the locks of another kind.
`MaxAnswers` is the number of answers between commit and frames: two, so that
one commits before another broadcasts. `MaxEntries`, `MaxVersion`,
`MaxResets`, `MaxWrites` and `MaxFaults` stop counters; in `Mirror` a fault of
either kind (internet, restart) is enough to meet every step of a sync once. Two
collectors are enough for a name to change hands, three names for the one to let
go of it before the other takes it.

The instances leave out what another run has: last calls and holds lock and
write like closing and reopening, and are in `book` and `api`; purges are in
`api` and `evening`, not in `book`, where `RevertOnlyBeforeCash` fails with them
(section 5). `CHECK_DEADLOCK FALSE` stands wherever a bounded session ends: all
fights used, all tickets cashed, all writes made. `declaration` and `locks` keep
the deadlock check, the latter because a circle of waiting transactions that
nobody breaks is what it looks for.

### Fairness

* `WsHub`: weak fairness on `Tick`, `Timing`, `CloseEvent` and `Pong`: time
  passes, the event loop runs timers that are due and close events that have
  arrived, and a kiosk that is there answers. Nothing is assumed of `Connect`
  or the snapshot.
* `TableLocks`: weak fairness on the statements of a transaction (`Moves`) and
  on the deadlock detector (`Victim`). `Expire` is not fair: that a request
  ends must not owe its truth to timeouts.
* `Mirror`: the timer (`StartAuto`) and the steps of a sync are weakly fair, the
  internet comes back (`GoOnline`); `Begin` is strongly fair, because it waits
  for the lock on the remote tables, which other syncs take again and again and
  Postgres hands out in order.
* `Desk`: the kiosk keeps calling and the server keeps deciding (strong, since
  each new call interrupts what the last one enabled); an answer is delivered
  or lost, and not every final answer is lost.
* `Accounts`: weak fairness on `SuperLogin`, which is an assumption about
  people: IT signs in with the fixed account again and again.

## 4. Proofs

All for every instance: any finite set of tellers, any set of ticket keys, any
stakes and rates within the request schemas, any number of fights, cash rows and
requests in flight, any number of resets, kiosks, commits, syncs, accounts,
names and badges.

**Sums and the tables (`Sums`, `BookProofs`)**

* `Sums`: what a sum over a finite set is (empty, one element more or less, two
  parts, zeros left out, two functions that agree, a bound for every element).
  The induction is made first-order: `SubsetInduction` takes a *set* of subsets
  and argues by its member of least cardinality. `SharesFit`: shares of a sum,
  each rounded, add up to no more than the share of the whole and half a unit
  each.
* `TypeCorrect`: `Spec => []TypeOK`. One lemma per operation. Not only types:
  ledger rows and tickets refer to rows that exist, tables are finite. A purge
  needs `LedgerSums` (an adjustment is a sum of amounts) and that all rows of
  the ticket go.
* `OneUnfinished`: `NoRevertSpec => []OneUnfinishedFight`. "One live fight" is
  not inductive: `reopenFight` checks nothing, so closed fights must count, and
  creation needs the unfinished fight to be the latest. With reverts it is false
  (section 5). Run `book` checks the same formula in its houses that never
  revert (`OneUnfinishedUnlessReverted`).
* `PoolsAreSums`: `Spec => []PoolsMatchStakes`. The invariant `PoolInv` adds
  typing and `NothingPurgedEarly` (a fight that does not exist has no purged
  stakes, so its empty pools match). `SameStakes`, `StakeAdded`, `StakeTaken`
  say what a step does to a sum of stakes; placing, voiding and purging are one
  of them each, the four declarations keep all stakes because no plan touches
  side, amount or voiding.
* `TicketsFit`: `Spec => []TicketsFollowFight`. The invariant `TicketInv` adds
  typing and that a settled fight has an outcome (a correction copies it to
  `prevOutcome`, and a paid loser is excused by that). `FitsSettled`,
  `FitsCorrected`, ... are about one ticket and its fight's row before and
  after; `OneFightWritten` lifts them to the tables.
* `CashedStays`: `Spec => CashedIsFinal`. Settling and cancelling refuse a cashed
  ticket, a correction and a revert step round it (`PlansKeepCashed`), and no
  operation rewrites what was bet (`NextKeeps`).
* `ResultDeclarable`: `Spec => []ResultCanBeDeclared`. The helper throws for a
  winner whose side has no multiplier, so this rests on the pools: `PoolInv`
  says a pool is a sum of stakes, `StakesPositive` that none of them is nothing,
  so a ticket's own side has a positive pool (`PoolsCover`) and a multiplier
  (`SideHasRatio`); `TicketInv` gives the statuses.
* `LedgerCash`: `Spec => []LedgerIsCash`. Every operation adds to the balance of
  one drawer what it adds to the drawer; a purge deletes rows and adds, for each
  teller, one with their sum, so the balances stay.
* `LedgerMatches`: `Spec => []LedgerMatchesTickets`. The ledger is a bag, so the
  theorem is about copies (`Copies`, `Weight`): one row of each type the ticket's
  status calls for, none else. The invariant `LedgerInv` adds `TicketInv`, which
  says that a ticket in payment was not paid before.
* `Solvent`: `NoPurgeSpec => []FightSolvent`. What is paid out is the sum of the
  payouts of the cashed tickets (`CashAccounted`), each of which is below
  multiplier times stake plus half a centavo, and the winners' stakes are the
  pool. A correction rewrites payouts of tickets that were paid, so both speak
  of fights without one. With purges `CashAccounted` fails, and so does the
  property: a fight whose paid tickets were purged is reverted and declared the
  other way.
* `RevertsUncashed`: `NoPurgeSpec => RevertOnlyBeforeCash`, from the same
  invariant.

**Transactions (`BookTxProofs`, `TableLocksProofs`)**

* `FightRowsCohere`: `TxSpec => []FightRowCoherent`. The gates of a correction
  or revert hold for the row they read; the invariant `CoherenceInv` says they
  still hold when the row is written: a session that amends a fight has it
  locked and it is still settled (`LocksHeld`), the fights it is to close are
  not settled, and no two sessions hold one fight (`LocksExclusive`). Every
  write of a row then is one of three (`StaysUndeclared`, `Declared`,
  `Undeclared`).
* `PaymentsCurrent`: `TxSpec => []PaymentIsCurrent`. The invariant `PayInv` adds
  what an amendment in the making must not do to a ticket in payment: its plan
  covers every ticket that the result makes refundable (`PlanHolds`), and
  `WriteTickets` waits for the ones that are being paid, so the right to a
  refund is not taken away in between; two payments are of two tickets
  (`PaysExclusive`).
* `CarefulRefinesBook`: `CarefulSpec => Spec`, the refinement of `Book`.
  `CarefulInv` says for each kind of request that what it has read is still so
  (`Stands`); then its write is the operation of `Book` (`CreateIsBook`,
  `CorrectIsBook`, ..., `StepIsBook`). The hard part is that a plan stays right
  while other requests write: `StepKeeps` says what a step leaves alone,
  `AdjustmentsStay` that the rows of a paid ticket are those that were added up.
* `CarefulKeepsPromises`: the promises of `Book` therefore hold in the middle of
  such transactions too.
* `NoOtherDeadlock`: `Spec => []OnlyResetsDeadlock` (of `TableLocks`). All
  requests but a reset take their locks upwards in one order (`Rank`, `Climbs`),
  so along a circle of waiting requests the rank would only grow; when it stays,
  requests wait for each other in a queue, and those ahead of one are fewer than
  those ahead of who waits for it. `IInv` adds that locks held do not conflict
  (`LocksInv`) and the order of the queue (`QueueInv`).
* `WipesAlone`: `Spec => []WipeIsAlone`, from `LocksInv`: a reset holds its
  tables in the mode that conflicts with every lock a request can hold.

**Resets (`BookTxProofs`, second half)**

* `ResetTyped`: `ResetSpec => []ResetTypeOK`. `TypedInv` is `TypeOK`, `PayInv`
  (without which a plan could be written to tickets of another fight) and
  `RequestsTyped`, which says more of a purge and a remit than `IsRequest`: the
  rows they will insert are of no ticket and finitely many, or the ledger would
  refer to a ticket that is gone. After a wipe nothing is left to refer to
  anything: requests are idle because `TRUNCATE` waited for them, and a purge in
  the making has ended.
* `ResetKeepsLocks`: `FightRowCoherent` and `PaymentIsCurrent` hold with resets
  in between, from the same invariant.
* `ClosedHouseKeeps`: `ResetSpec /\ []LedgerIsCash => ClosedHouseLosesNothing`.
  The gate looks at balances, the property speaks of drawers, so the theorem is
  under the condition that the one tells the other; the run checks it without.
  `GateInv` says that what the statements found is still so while nobody else is
  served, and that an unforced reset counts only when all of them have passed.
* `EveningsBalance`: with `OrderlySpec` the condition is no longer one. The
  invariant `OrderlyInv` joins the invariants above; a wipe of a closed house
  leads to an initial state (`WipeBeginsAnew`), for which it takes the empty
  drawers, because the tables are wiped and the drawers are not. In between
  every step is one of `Book`.

**Answers and reports (`AnswerProofs`)**

* `AnswersStayTrue`: `DeskSpec => []AnswersAreTrue`. The property speaks of what
  was heard; the invariant `AnswersInv` says the same of an answer that a handler
  is still about to give, which may be lost or come late (`CallFits`), and that a
  call to void or pay is for a ticket that exists, because only who was told of
  it asks. What was done stays done (`DoneStays`, from `NextKeeps` and, as the
  desk purges nothing, `NoTicketLost`).
* `DeskImplementsBook`: `DeskSpec => NoPurgeSpec`. A commit is the operation of
  `Book`, since the ticket exists (`CommitsAreOperations`); every look, refusal,
  replay, timeout and loss leaves the tables alone.
* `DeskKeepsPromises`: so `LedgerMatchesTickets`, `LedgerIsCash`, `FightSolvent`
  and `RevertOnlyBeforeCash` hold at the desk however often a kiosk calls.
* `PaidReplays`, `DoneReplays`: `DeskSpec => PaidIsReplayed`,
  `DeskSpec => DoneIsReplayed`. `Refusing` lists the steps that may answer a call
  with a refusal, and what each of them has just found. `CallFits` also says that
  what was done when a call was sent is still done (`DoneStays`), and that such a
  call never gets past its first look, which finds it and replays.
* `CommissionHalfCovered`: `Spec => []HalfIsWithheld`. What a fight owes is bounded
  as what it paid is (`SharedOut`, which `Solvent` rests on too), for all tickets
  that have a payout and not the cashed ones only. Invariant `ReportInv`: besides
  the pools, the multipliers of a settled fight are those of its pools
  (`ResultDeclared`), and nothing is owed for a voided ticket (`VoidsBlank`; the
  fight row says nothing about those).

**Screens (`AnswerProofs`, second half)**

* `LeaderboardFollows`: `ApiSpec => []LeaderboardInSync`, in any order of the
  frames, since the signal carries no data and the dashboard fetches. `BoardInv`
  says that while the board is behind, a signal is still to be sent;
  `NothingEarned` and `LeaderboardKept` that routes without a signal change no
  commission.
* `KiosksFollow`: `OrderlySpec => []KiosksInSync`. `KioskInv` says of every
  column of every fight that the last word on it, in the answers still to be
  sent or else on the screen, is what the table holds (`ColumnTold`); it rests on
  one lemma per route that its frames tell all it changes (`CreateNews`,
  `UnsettleNews`, ..., `RequestNews`).
* `DashboardFollows`: `OrderlySpec => []DashboardInSync`. `TillInv` is the same of
  balances; a balance not read yet will be right when it is.
* `EveningsSound`: `ApiSpec => []` of `TypeOK`, `LedgerIsCash`,
  `PoolsMatchStakes`, `LedgerMatchesTickets` and `HalfIsWithheld`: a request is a
  step of `Book`, or begins again (`RequestSteps`), so the promises of `Book` hold
  through any number of sessions.

**Lists (`AnswerProofs`, last part)**

* `WalksAreComplete`: `SteadySpec => []WalkIsComplete`. `NewestFirst` is a choice
  that exists (`OrderExists`) and lists every row once (`NewestFirstLists`).
  `WalkFits` says that the rows seen descend, so none is repeated, and that a row
  that stays in the list is among them or older than the cursor, which is the
  last of them (`Ahead`). `PageFits` carries this over a page: the first row found
  is the cursor's own (`FoundAfter`), which `skip: 1` may drop. `OrderKept` carries
  it over the operations: a step of the book puts a row in between and leaves the
  others in order, even if it is dated before them.
* `LiveFightsHead`: `PagesSpec => []LiveFightIsShown`. `ReadsInv` says that a fight
  that has been live since the first query is live, and that the query for live
  fights, if it has come back, found some. Three different queries out of three
  groups are all of them (`EachGroupRead`).

**Declarations (`DeclarationProofs`)**

* `Memoryless`: `Spec => []DeclarationIsMemoryless`, and `WithinPool`:
  `Spec => []PayoutsWithinPool`, both from `DeclarationInv`: a ticket is
  untouched before a declaration, and afterwards at what the present outcome
  owes it, unless its stake was handed back.

**Hub, mirror, accounts**

* `AccessProofs!NothingSlipsThrough`: `HubSpec => []NothingMissed`. `FeedInv` says of
  each phase of the connection handler what the socket knows or is going to be
  sent; it holds because the socket joins the broadcast set before the snapshot
  is read.
* `AccessProofs!NobodyIsCutOff`: `HubSpec => AnsweringKiosksStay`. `KeepaliveInv`
  says that while the peer answers there is at most one deadline, the one the
  handler knows (`OneDeadline`); a PONG clears that one only.
* `MirrorProofs!MirrorIsSound`, `NeverBack`: `Spec => []TypeOK`,
  `Spec => MirrorNeverGoesBack`. `MirrorInv` says that each table a sync has
  copied is of a moment no earlier than the mirror's, with no row that refers to
  a missing one, and the others are still empty (`CopiesInOrder`), and that one
  sync at a time is between `TRUNCATE` and `COMMIT` (`OneCopies`). The four tables
  that are only upserted need `NeverShrinks`: merged into an older copy, a newer
  one is itself.
* `MirrorProofs!QuietIsBackup`: `QuietSpec => Whole!Spec`, the refinement of
  `Backup`. `QuietInv` adds that all tables of the mirror, and all that a sync
  has read, are of one moment.
* `AccessProofs!DifferentCollectors`: `Spec => []CollectorsDiffer`. The unique
  indexes compare the stored names, so `RowsDiffer` alone does not give that
  names differ however they are typed: the invariant adds that stored names are
  normal (`CollectorsTyped`) and that a request waiting for its insert carries a
  name and a badge that was drawn (`CallsTyped`).

Assumptions: the named `ASSUME`s of the modules. `IsFiniteSet(Tellers)` is there
because a purge posts one row per teller; `DeskConstants` because a kiosk sends
what `placeBetRequestSchema` takes, for its own teller; `Normal[Normal[n]] = Normal[n]` because
`normalizeName` trims and collapses blanks and changes a name once only.

Model-checked only: `RequestEnds`, `RetriesEnd`, `VanishedKiosksLeave`,
`MirrorCatchesUp` and `AdminRestored`. They are liveness properties, which need
fairness and `ENABLED`; the prover has no rule for them. Every invariant and
every action property of the passing runs is stated by a theorem. Three of them
speak of a variable of their instance and are theorems about the specification
it selects: `OneUnfinishedUnlessReverted` is `OneUnfinished` of the houses that
never revert, `CarefulIsBook` is `CarefulRefinesBook`, `IsBackup` is
`QuietIsBackup`.

## 5. Where the code disagrees with what it says

With a run each:

* `tx_unsettle`: `unsettleFight` checks its gate on one read and writes the
  tickets by id afterwards. A ticket paid in between is reset to PENDING, and
  can be paid again (`fights.service.js:535`: "Revert is only allowed before
  cash leaves the drawer").
* `desk_void`: `voidBet` refuses a VOIDED ticket under the lock before it comes
  to its replay branch, so a void that meets the first one there gets 409
  (`bets.routes.js:274`: "Safe to retry blindly").

As definitions that a run violates when they replace its property lines:

| Statement | Where | How it fails |
|---|---|---|
| `OneLiveFight` | invariant, `book.cfg` | settle fight 1, create fight 2, unsettle fight 1 (closes 2), reopen both; `reopenFight` looks at no other fight (`fights.service.js:200`: "OPEN / LAST_CALL (at most one)") |
| `RemitNeverOverdraws` | property, `evening.cfg` | two overlapping remits, or a remit and a payout, each pass the balance check (`cash.service.js:9`, `:12`) |
| `CommissionIsWithheld` | invariant, `api.cfg` | `computePoolDistributable` withholds half the rate, the reports count all of it (`reports.service.js:7`) |
| `TotalsAgree` | invariant, `api.cfg` | commissions rounded per teller do not add up to the commission rounded per fight (`reports.service.js:142`) |
| `PurgeKeepsFightCommission` | property, `api.cfg` | a purge lowers the fight's reported commission (`bets.service.js:849` answers `fightCommissionUnchanged: true`) |
| `KiosksInSync`, `DashboardInSync` | invariants, `api.cfg` with `ApiNext` for `OrderlyNext` in `MCApi` | frames of two answers leave in another order than their commits, and an older pool or balance stays on the screen |
| `PlacedIsReplayed` | property, `desk.cfg` | a retry that looks before the first attempt commits and locks after the fight closed gets 409 for a ticket that was placed (`bets.routes.js:67`) |
| `ReplayedWhileAccepting` | property, `desk.cfg` | two calls for one ticket meet on the unique index while the fight takes bets: if the violation names no columns, or both calls drew the same code, the second gets 409 (`bets.service.js:183`: "Treat that exactly as a replay") |
| `MirrorStaysAligned` | property, `mirror.cfg` | a newer collector gives up its name and an older one takes it between two syncs: the older row is upserted first, the name is still the newer one's on the remote side, and that sync and every later one rolls back (`supabase-sync.js:9`: "This keeps Supabase aligned") |
| `AdminRemains` | invariant, `accounts.cfg` | two admins deactivate each other at the same time (`users.routes.js:34`) |
| `RolesKept` | property, `accounts.cfg` | `ensureSuperAdminUser` turns whatever row is named super_admin into an ADMIN (`users.routes.js:30`) |

Other things the models keep and that the code's comments do not say:

* *Fights.* A closed fight reopened between the two checks of `createFight` is
  seen by neither (`Careful` excludes it). A ticket paid between the read and
  the write of `correctFight` is overwritten with the status planned for an
  unpaid ticket. A second correction of a paid ticket overwrites the snapshot of
  what was paid (`fight-settlement.js:252`), from which
  `fights.service.js:463` says the cost of corrections is reconstructed.
* *Pay, purge, unsettle.* The gate of `unsettleFight` (`fights.service.js:531`)
  looks for PAID tickets and a purge removes them, so a fight is reverted after
  cash left.
* *Purge.* `purgeBet` plans its adjustments outside the transaction; if the
  ticket was reverted under a running payment and paid again in between, they
  no longer cover the deleted rows and `LedgerIsCash` fails in `BookTx`.
  `teller-ledger.prisma:29` calls the ledger append-only; `deleteRemit` and
  `purgeBet` delete rows.
* *Draws.* `fights.routes.js:349` says a draw refunds tickets at once and writes
  ledger rows; `settleFight` makes them `PENDING_REFUND` and writes none.
* *Reset.* The gate is read before the transaction, so winnings that come up
  before the `TRUNCATE` are wiped unforced, and rows committed after the counts
  are wiped uncounted (`session.service.js:237`, `:258`); it looks for WON
  tickets only, not for refunds that are due (`:7`); and requests that hold one
  table and wait for another wait with it in a circle, where `:21` says they
  queue.
* *Hub.* A frame may overtake WELCOME, which then shows the older state
  (`websocket.plugin.js:12`); a socket that closes before its close handler is
  attached keeps its interval until the server stops (`:183` says both timers
  are cleared).
* *Mirror.* Tables are read one by one: on a busy evening the mirror is no
  snapshot (`supabase-sync.js:4`). An attempt that finds Supabase unreachable
  does not reach the state file, so the status shows an older one
  (`session.routes.js:232`), and a state file that cannot be written reports a
  sync that happened as failed.
* *Accounts.* A collector retired between its look-up and the entry still gets
  the entry (`collectors.routes.js:136`); a password reset by an admin while its
  owner changes it is overwritten without an error.
* *Kiosk.* Until the frame arrives, a kiosk shows a closed fight as open
  (`docs/realtime-events.md:16`); the server refuses the bet.
* *Lists.* `skip: 1` drops the first row found: when the cursor's ticket has left
  the filter, that is a row nobody has seen, and when it was purged the walk
  ends early with a null `nextCursor` (`bets.schemas.js:204`). The three queries
  of `listCurrentFights` see three moments, so a fight that closes between two
  of them is in neither (`fights.service.js:204`). `WalkIsComplete` and
  `LiveFightIsShown` say what remains true.

## 6. Not modelled

* The shapes of requests and responses (`*.schemas.js`): no state. The bounds of
  amounts and rates that the schemas enforce are assumptions on constants.
* Server start, CORS, Swagger, the Prisma client, the set-up and
  end-to-end scripts: wiring, or clients of the API.
* Retries of advances and remits (`cash.service.js:159`) carry no idempotency
  key: the second row they write is a second `CashAdvance` or `CashRemit` in
  `Book`, and the code promises nothing else.
* Read-only look-ups, statistics and filters by date or number, and the wording
  and codes of errors: a client cannot act upon them beyond the classes of
  `Desk`.
* Doubles: the models compute exactly (section 2), so a multiplier that the
  double arithmetic floors one unit low is not seen; it pays less, and the
  bounds of `PayoutsWithinPool` and `FightSolvent` hold for it too.
