# TLA+ models of Pecunator AccuMonetas

This directory holds TLA+ modules, TLC configurations and TLAPS proofs about the
trading core under `runtime/`: the Louise DCA runner and what stands between it
and the exchange, the hub of the other bots, the market data, and the way to the
operator's screen. Paths below are relative to `runtime/` unless they name a
document of the repository.

## 1. The system

One asyncio process runs bots that buy an asset whenever its price falls below
their last purchase and sell the whole position once a profit target is met.

    routers --write--> louise_bots.status --read every 10 s--> LouiseService
                                                          |  creates, stops
    BinanceGateway --publish--> EventBus --callbacks--> LouiseBotRunner --> louise_hub.sqlite
         ^                                               |        |
         +----- create_order <---------------------------+        +--> BudgetGuard (sqlite)
                                                         +--asks--> ApiFuse, ApiGovernor

A "position" is an *epoch*: a row that is RUNNING from its creation until a sell
closes it, with statistics (number of purchases, cost, average price) that
summarise the rows of `louise_purchases`. Orders are confirmed by execution
reports on the user-data stream. A second family of bots (Dorothy, Elphaba) runs
under `BaseHubService`, with governors, a coordinator that staggers launches, and
guards for symmetry and orphaned orders. A desktop console (`desktop_shell`) shows
the bots: the engine pushes every change over a WebSocket, and the console reads by
REST when there is none.

### Inventory

| Component | State | Operations | Hard behaviour | What makes it correct |
|---|---|---|---|---|
| Louise runner `bot/louise.py` | cached epoch, reference price, feeds, `pending_orders`, cool-down | poll, buy, sell, report, start, stop | reports late, repeated, lost; restart with orders out; stale epoch in the order's meta; `create_order` raising after success | an epoch's accounts are those of its fills; a fill counts once; spend is covered; a closed epoch stays closed |
| Louise database `core/louise_db.py` | bots, epochs, purchases, snapshots | one commit per write | crash between two commits | statistics never claim what the purchases do not show |
| BudgetGuard `core/budget_guard.py` | append-only ledger | `try_reserve`, `can_spend`, `record_spend` | check and record apart; rolling window | no 24 h window above the ceilings |
| ApiFuse, OrderFuse `core/api_fuse.py`, `core/order_fuse.py` | tripped, timer, streak, cool-down | reading, error code, query, manual reset | answers in flight while tripped; lazy reset | blocks for the whole cool-down, escalates, reopens |
| LouiseService `api/louise_service.py` | runners, gateways | immortality pass, shutdown | statuses read before awaits; gateway variable left from an earlier bot | one runner per bot that should run, none for the others |
| Routers, lifespan `api/routers/louise.py`, `api/lifespan.py` | status column, shutdown flag | pause, resume, delete, shutdown sequence | race with the service; order of shutdown steps | the operator's last word holds |
| BaseHubService `api/base_hub_service.py`, BaseStrategyRunner `bot/_base_runner.py` | records, desired state, a loop task per bot | start, stop, delete, stop all, watchdog | restart against stop; staged start against delete; a loop that dies | the operator's word holds; a wanted bot is brought back; no loop out of reach |
| BotCoordinator, WeightGovernor `core/bot_coordinator.py`, `core/weight_governor.py` | staged and active bots, zone of the last reading | stage, register, ask, read | RED that nobody refreshes | a refused bot is only put off |
| MarketCache `core/market_cache.py` | entries, a lock per key | get_or_fetch, invalidate, evict, set_ticker | lock evicted while held; invalidate during fetch | one fetch per key at a time, no data that goes back in time |
| BinanceGateway `connectors/binance_gateway.py`, routers `api/routers/gateway.py` | client, tasks, listen key, stop event | start, stop, streams, REST readings | overlapping requests; a key shared and closed by another; reports lost or overtaken | nothing runs out of reach, a deaf stream hears again, what is shown is the account |
| StateWAL `core/state_wal.py` | a snapshot of the state | persist, hydrate | crash between two polls | the next process starts from what was true |
| Klines `core/kline_ingestion.py`, `core/telemetry_vault.py` | `kline_history`, bootstrapped symbols | tick, store | candles that close between two calls, failed stores, restarts | averages form one chain |
| Telemetry push `core/telemetry_collector.py`, `core/ws_broadcaster.py`; console `desktop_shell/lib` | last snapshot, clients; socket, timers, what the page shows | publish, accept; connect, reconnect, poll, apply | messages out of order, a stream refused for ever, readings overtaken | the page shows the bots as they are, sooner or later |
| EventBus `core/event_bus.py` | subscribers | publish | arity of the callbacks | delivered to each subscriber |
| ApiGovernor, SymmetryGuard, OrphanGuard and reconciler, AlertDispatcher, TransferService, workers, ledgers, vault, settings, CLI | see `PROJECT.json` | | | |

`PROJECT.json` lists every component with its sources and status, and every
hazard with the line where it bites and the property that would show it.

## 2. The modules

| Module | Models | Kind |
|---|---|---|
| `LouiseRunner` | the runner of one bot, its database rows, its orders at the exchange and their reports | state machine |
| `MCLouiseRunner` | a bound on lost orders | instance |
| `EpochBook` | the books the runner promises to keep: epochs one after the other, their fills, the gain of each | abstract specification |
| `LouiseRunner_proofs` | | theorems |
| `BudgetGuard` | the spend ledger for any number of bots and hubs | state machine |
| `MCBudgetGuard`, `BudgetGuard_proofs` | | instance, theorems |
| `Fuse` | both circuit breakers, which are one state machine with two parameter sets | state machine |
| `MCFuse`, `Fuse_proofs` | | instance, theorems |
| `LouiseService` | the immortality pass over all bots, the routers' status writes, the shutdown sequence, crash and restart | state machine |
| `MCLouiseService`, `LouiseService_proofs` | | instance, theorems |
| `Fleet` | what a hub of bots promises its operator | abstract specification |
| `HubService` | hub, base runner, coordinator, governor, watchdog; implements `Fleet` | state machine |
| `HubService_proofs` | | theorems |
| `MarketCache`, `MCMarketCache`, `MarketCache_proofs` | the cache of exchange data | state machine, instance, theorems |
| `Gateway` | the life of the gateways of an account | state machine |
| `GatewayFeed`, `MCGatewayFeed` | what they put into the shared state, and the snapshot | state machine, instance |
| `GatewayFeed_proofs` | | theorems about `GatewayFeed` and `Gateway` |
| `KlineChain` | ingestion of candles with recursive averages | state machine |
| `Console` | engine push, socket service and page of the console | state machine |
| `KlineChain_proofs` | | theorems about `KlineChain` and `Console` |

### LouiseRunner

*Variables.* `status`, `epochs`, `nEpochs`, `purchases` are rows of
`louise_hub.sqlite`; `reserved` is this bot's sum in the budget ledger; `active`,
`lastBuy`, `price`, `usdt`, `cooldown`, `pending`, `awaiting` are attributes of the
runner object (`awaiting` is the suspended `create_order`); `looping` says that the
loop's task lives; `stale` are the pending keys of earlier, stopped runner objects,
which stay subscribed to the bus because `stop()` does not unsubscribe. `orders`
holds the metadata of `pending_orders` together with what the exchange made of
the order; `reports` is the stream.

*Actions.* `poll_market` runs without an interruption until it awaits `create_order`, so
each of its ways out is one action: `PollHold`, `PollBudgetRejected`,
`PollReservedOnly`, `PollBuyBlocked`, `PollBuy`, `PollSell`, `PollSellBlocked`, all with
the creation of a missing epoch as a part; the P&L snapshot a poll appends is only ever
charted and is left out. `CallReturns` and `CallRaises` resume it. `OnBuyFilled` and
`OnSellFilled` are the two halves of `_on_execution_report`; since they contain no await
they are atomic, except that the process may die between the two commits of a fill
(`CrashInFill`). `Launch` is `initialize()` and `start()`, `Stop` is `stop()` or the
loop's end on the shutdown flag.

*Data.* Money and quantities are integers. The average price is kept as (cost,
volume), because the code only ever uses it as `total_cost / avg_buy_price`; decimal
rounding is not modelled. A buy spends exactly `BuyVolume`. Client order ids are
distinct, because a poll interval is at least 10 s and an id carries the second
(`api/routers/louise.py:350`). Partial fills are ignored by the handler, so only
final reports exist in the model.

*Wiring constants.* Two facts of the shipped code keep every other behaviour from
being reached: the bus calls handlers with two arguments where the runner's take
one, and `ApiGovernor` has no `can_execute`. `BusDelivers` and `GovernorAnswers` say
which program is meant. With `TRUE` and `{"allow", "deny"}` it is the runner as its
own tests drive it (`tests/test_louise_recovery.py`, `tests/test_louise_fill_handling.py`);
with `FALSE` and `{"raise"}` it is the wiring as shipped. `Paper` selects the
simulated order path, `ReportsMayLag` whether a poll may run while a report is out,
`CrashMidFill` whether the process may die inside a handler.

*Refinement.* `EpochBook` has three actions and no polls, orders, reports, copies or
crashes: an epoch is opened when all the earlier ones are closed, a fill is entered in
an open one while the daily budget has room for it, and it is closed once, with the gain
of its position at a price that reaches the target. `Book == INSTANCE EpochBook WITH`
takes an epoch's state and gain from its row and its fills, cost and quantity from the
rows of `louise_purchases`, never from the statistics the runner computes; so
`KeepsBooks` relates the row a sell closes, the copy it was decided on and the fills
that were recorded.

### BudgetGuard

The ledger is append only and is only ever summed over a time window, so it is
kept as running totals: `total[t]` is the amount of BUY rows stamped `t` or earlier
and `hub[h][t]` the same for a hub. The window of `try_reserve`, `can_spend` and
`spent_last_24h` is then a difference of two totals, which makes the ceilings
provable without sums over sequences. `TryReserve` is one action, because the code
runs it in one `BEGIN IMMEDIATE` transaction; `CanSpend`, `RecordSpend` and `Abandon`
are three, because their caller (`bot/anti_louise.py`) goes on with other work
between them. A row with another side than BUY is never summed.

### Fuse

`fuse[f]` holds a fuse's fields; its two timestamps are ages that stop counting where no
comparison tells them apart. Every public operation is one action because the code holds
a lock throughout. A code that trips both fuses does so in one step: the two locks are
taken one after the other, but neither fuse reads the other. `Factor` is `2 ** (streak -
1)`, given as a constant and pinned down by its assumption. `owed`, `calm` and `climb`
are history: they follow from the trips alone what the fuse promised, and no action
reads them. `climb` is the cooldown which the table in the docstring of
`core/api_fuse.py` calls for at a trip: twice the one before within a run of hot trips,
the base otherwise.

### LouiseService

*Variables.* `nBots` and `status` are the rows of `louise_bots`; `runners` and
`gateways` are the keys of the service's two dictionaries; `gatewayOf` is the
`gateway` attribute of a registered runner and `loops` counts the tasks that run its
`_main_loop`; `clients` are the gateways whose `_client` is set; `pending` are the
registered runners with something in `pending_orders`; `phase` is where the lifespan
stands and `flag` its shutdown flag. `pass` and `read` are the local variables of
`_check_bots`: its place, its current bot, what the name `gw` holds, and the rows it
selected. `asked` and `unborn` are history.

*Creation.* `create_bot` commits a row as PAUSED, tries the runner out, and commits
RUNNING, or ERROR if that failed, without an await in between. `Create` is what others see
of it: RUNNING or ERROR, or PAUSED if the last write fails too. The process may also die
between the commits, which is `CrashInCreate`. `unborn` are the bots that were left PAUSED
in one of these ways and that nobody has set a status for since.

*Atomicity.* Everything runs on one event loop. A pass has one await that really
waits, `gw.start()`; `runner.start()` and `runner.stop()` are coroutines without one.
So while `pass.at` is `"scan"` nobody else moves (`Yielded` guards every other actor),
and while it is `"starting"` everybody may: the operator pauses or deletes the bot,
a loop places an order, the shutdown cancels the pass, the process dies.
A pass takes the newest bot first, as the query does (`ORDER BY created_at DESC`).

*Relation to `LouiseRunner`.* That module follows one bot and lets `Launch` happen
only when no loop of it lives; `OneOwnedLoop` is why that is right. The hemisphere
gate is always open, since nothing writes that column any more
(`update_bot_hemispheres` only logs).

### HubService and Fleet

*State.* `recs` and `desired` are the saved records; `task`, `loops` and `stopFlag`
belong to the runners: every task ever made of `_loop` is followed until it has
ended, also when `_task` no longer names it. `caller` are the requests under way,
`watch` the coroutine of the watchdog with its copy of the records, `staged` and
`tracked` the registries of the coordinator and the governor. `raced` is history.

*Atomicity.* An action runs from one await that really waits to the next: a request
waits while it is staged, while the clock is synchronised, while `stop()` gathers
the task, while the client is closed. While the watchdog scans nobody else moves.
A `stop()` resumes from `await asyncio.gather(t)` two iterations of the event loop after
the task has ended (the task's done-callback wakes the gather's future, whose own callback
wakes the coroutine), so a start that is ready may run in between: it finds no task
running and makes one, which `stop()` then forgets when it sets `_task = None`
(`bot/_base_runner.py:499-506`). `GatherReturns` is therefore an action of its own, and
nothing holds back `RunnerStart` before it. `slipped` is history: the loops that were
started while a `stop()` of their bot was in its gather.

*Refinement.* `Fleet` knows which bots are wanted, for which a start is under way
(granted), whose runner has a loop (live), for which a stop is waiting (halting), and
which have a loop that their runner has lost (stray). `Promised == INSTANCE Fleet WITH
wanted <- Asked, granted <- Granted, live <- Live, halting <- Halts, stray <- Strays`, and
`KeepsPromise` is its specification: a loop comes to life only by a start that was
granted while the operator wanted the bot, and only if the runner has none; it gets lost
only while a stop of that bot is waiting; and a lost loop only ends.
No concrete hub is in the repository, so the bot's own cycle is a step without
effect, and nobody registers a callback for the launcher loop.

### MarketCache

`entry` and `lockOf` are the two dictionaries, `holder` says who is inside a lock
object, and `caller` holds the locals of the coroutines in `get_or_fetch`. A datum is
the version of the exchange's state it shows. Sizes are counted in entries.
`set_ticker` is an action although no code calls it: its entries would compete for
the same memory budget. `dropped` is history: eviction drops a key's lock whoever
holds it, and the next caller makes another one.

### Gateway and GatewayFeed

`Gateway` is the control: `work` has for each request its place in `start()` or
`stop()`; `current` is `ctx.gateway`, `kept` the one of the Louise service with the same
credentials. The three tasks of a gateway begin and end together, so `user` stands for
all of them. `held` is what a gateway knows as its listen key, which the exchange gives
to the account and not to the object: whoever closes it closes it for all. `GatewayFeed`
is the data: `real` are orders and balances at the exchange, `shown` the state, `queue`
the reports a stream has not brought, `reads` the REST calls under way, `saved` the
snapshot. What is shown of an asset is the sum of its spot and its isolated margin,
which are two items here: `fetch_account` asks for the spot and then for the margin,
whose failure it only logs (`MarginAnswered`, `MarginFails`), while a report carries the
spot alone and is written over the sum (`Covered`); no stream reports the margin.
`astray` and `behind` are history and say which items may be wrong and why. The market
stream is left out: it replaces a display value with every message.

### KlineChain

A Heikin-Ashi value is the set of bars it was averaged from, since the recursive
formula only ever adds its own candle's bar to what the previous value came from;
equality of such sets is equality of the histories. `clock` and `batch` are the two
answers a tick waits for. `breaks` is history: rows the next batch did not reach back to.

### Console

The table of bots is the number of its last change, and a message says how it was
when the message was made and whether it brings the account. The engine's part is
`Request` (a write and `_push_louise_ws`, whose task publishes later), `Collect` and
`CollectFails` (the collector), `Accepted` (the last message first). The socket
service has a channel that is opening, open or down, its count of attempts and its
timer; the page has what it shows, its flag, its fallback timer and its readings.
Timers count seconds, and what is due goes first. `behind` is history: a change
nobody will bring before the next sample, or one an old answer has undone.

## 3. The runs

| Run | Configuration | Question | Outcome |
|---|---|---|---|
| `louise_prompt` | live orders, a report arrives or is lost before the next poll | do the accounts stay right, are they an `EpochBook`? | 4 properties hold, 898 thousand states |
| `louise_lag` | live orders, reports lag behind polls, crash inside a handler | what survives any order of reports? | 3 properties hold, 588 thousand states |
| `louise_wiring` | shipped wiring, fair feeds and polls | does a running bot ever buy? | violated: it cannot |
| `budget_guard` | 4 bots, 3 hubs, one two-call bot | are the ceilings kept in every window? | 3 properties hold, 206 thousand states |
| `fuse` | both fuses, small cool-downs | blocks, escalates, reopens? | 4 properties hold, 21 thousand states |
| `service` | 3 bots of two alternating subaccounts, calls may fail | who runs, who can stop it, does a shutdown end? | 5 properties hold, 571 thousand states |
| `hub` | 1 bot, a start or stop and a delete or stop-all at once, watchdog, restart | does the operator's word hold, is a wanted bot brought back? | 5 properties hold, 147 thousand states |
| `cache` | 2 fetched keys and a fed one, 2 callers, room for 2 entries | one fetch at a time, no step back, no call for ever? | 4 properties hold, 54 thousand states |
| `gateway` | 2 gateway objects, 2 requests of the operator and the Louise service | does anything run out of reach, does a deaf stream hear again? | 3 properties hold, 41 thousand states |
| `feed` | an order, an asset with spot and margin, 2 streams, 1 reading, snapshot | when is what is shown wrong? | 2 properties hold, 2.4 million states |
| `klines` | 6 candles, bootstrap of 3, tail of 2 | do the averages form one chain? | 4 properties hold, 409 thousand states |
| `console` | 2 changes, 1 fault, 2 readings at once | is the page current, does it catch up? | 3 properties hold, 934 thousand states |

*Why two runs of the runner.* With polls at least 10 s apart a report normally
precedes the next poll, and then the epoch copied into the order is still the
current one. `louise_prompt` shows that under this condition the accounts are
exact, also when reports are lost, repeated or delivered to a stopped runner, and
when the process dies between any two steps. Without the condition they are not:
two buys in flight each write statistics computed from the same copy, and a second
sell can close an epoch twice. `louise_lag` checks what holds even then.

*Bounds.* `louise_prompt`: two prices (a buy below a buy, a sell above), four orders
(two buys, a sell, and a buy of the next epoch), two epochs, one wallet value that
allows one buy between two balance messages, and at most two among the keys without an
answer and the orders that expired or failed (`MCFewLost`). `louise_lag`: three orders
(two buys and a sell, all in flight), two epochs, and a ceiling that two buys reach.
`budget_guard`: orders of 1 or 2 against a ceiling of 4 and shares of 3, 2 and 1, a
window of 1 and a clock of 3, so that windows overlap, roll and expire. `fuse`: base and
maximum cool-downs 2 and 5, 1 and 4, grace shorter and longer than the base cool-down,
three trips to saturation. `service`: three bots of two alternating subaccounts are the
fewest with which `gw` is unbound, assigned, and left over from another subaccount in
one pass. `hub`: bots share nothing but the zone and the registries, so races need one
bot and two requests besides the watchdog. One of them starts or stops the bot
(`Switchers`), the other deletes it or stops all (`Enders`); a start by the watchdog or
by the operator can so meet a stop of either kind, and a loop does slip. With two tasks
a loop that slipped and a second one of the bot live side by side. The safety properties
and the refinement were also checked with both requests of both kinds (727 thousand
states) and with three tasks (1.0 million). `cache`: a lock is dropped under a caller
when three keys compete for two entries; two callers of one key, one of them after the
eviction, give two flights. `gateway`: one gateway to be replaced and one to replace it,
and a request more than objects. `feed`: the items do not depend on one another, but for
the two parts of an asset; one amount besides none tells a balance that is current from
one that is not; the two streams are interchangeable (`StreamSymmetry`); two streams and
a reading are the writers that race, a queue of two holds a report and the one that
supersedes it. `klines`: an outage may be shorter or longer than the tail, and a restart
may fetch more or less than was missed. `console`: the numbers of the app's
configuration (3 s, 8 s, 50 attempts); two changes let a message and an answer be older
than another, two readings overlap. Deadlock is not checked in the runs of the runner
and the guard, whose order, epoch and clock bounds end them; it is in the others.

*Fairness.* `fuse`: time passes and somebody asks (every poll asks before its
call). `louise_wiring`: feeds come, the loop polls, nobody stops the bot; strong
fairness, because the conditions of a poll may lapse and return. `service`: the
event loop runs what is ready (a pass that can go on, the steps of a
shutdown, of which those that close a connection have a request timeout of 30 s); the
exchange need not answer `gw.start()`, so `ShutdownCompletes` also holds with a pass
that waits for ever. `hub`: the loops and the watchdog run when they are ready,
requests time out, and a start that is tried again and again succeeds at some time;
strong, because the zone and other requests may interrupt it. Nothing makes a zone
leave RED, so `DesiredTrades` asks for a zone that stays below it. `cache`: asyncio
wakes the waiters of a lock in turn and a request ends by its timeout. `gateway`: the
keepalive of a dead key fails (every 30 min), and a key or a connection that is asked
for again and again is given. `console`: timers fire, the stream delivers, the
collector samples, a call is answered or fails; the engine may refuse the stream for
ever, and faults are few. No other run needs fairness.

Every property of a passing run has a mutant: a definition of the model replaced
by what a plausible mistake in the code would make of it, under which TLC finds the
property violated. They stand beside the definitions, marked `mutant`.

### Disagreements with the documentation

*The shipped wiring never buys* (`louise_wiring`). `core/event_bus.py:29` against
`bot/louise.py:77-79`, and `bot/louise.py:259` against `core/api_governor.py`; "BUY:
market order, recorded via WebSocket fill event" (`ARCHITECTURE.md:36`).

Seen while reading or while checking the models, without a run of their own:

*Louise.*
- Paper fills have no quantity: the payload built in `bot/louise.py:400-410` lacks
  `z`, which the handler reads at line 110, against "WebSocket fills update epoch
  stats correctly" (`ARCHITECTURE.md:135`).
- A second bot on a subaccount is never started: `gw` is assigned only when
  `_check_bots` creates a gateway (`api/louise_service.py:93-97`) and used at line 116;
  for a known subaccount it is unbound and the error ends the pass each time, against
  "will pick it up within ~10s and start the runner" (`api/routers/louise.py:398`).
  For subaccounts A, B, A the third runner gets the gateway of B.
- Shutdown cancels no pending order: step 1 stops the gateways, which lose their
  clients, and step 2 cancels only through them (`api/lifespan.py:153`), against the
  repository's `README.md:45`.
- A pause or delete that arrives while the pass waits for a gateway is overwritten
  with RUNNING by `start()`; a stop whose commit fails leaves a runner registered
  without a loop, and so does the signal's flag, and neither is started again.
- A crash between the commits of `create_bot` (`api/routers/louise.py:372-383` and 399),
  or a failure of both later writes, leaves a bot PAUSED that nobody stopped and no
  restart resumes. `StoppedOnlyOnRequest` excepts these bots by name (`unborn`).
- The stop-loss, position and purchase limits of `ARCHITECTURE.md:27-28` are not in
  the code (its comments say so by design).

*Guards.* "The cooldown DOUBLES on each consecutive trip" (`core/api_fuse.py:7-11`) is
not so after a fatal code: that trip blocks for the ceiling, and the next hot trip for
base * 2^(streak - 1) (lines 228-242), e.g. 3600 s and then 600 s. `HotTripsClimb` holds
because it compares a trip with the docstring's table (lines 13-16) and not with the
cooldown before it. A fatal code while tripped is ignored (`core/api_fuse.py:218-219`
against line 101). "Budget resets at UTC midnight" (`docs/INCIDENT_RUNBOOK.md:214`) is a
rolling window; the fuse does not require a manual reset (`ARCHITECTURE.md:84`).

*Hub.* A start that runs between the end of a loop and the return of the gather in
`stop()` makes a loop that `stop()` forgets (`bot/_base_runner.py:499-506`): no later
`stop()` can cancel it, it goes on trading until it finds the stop flag set at the top
of its loop, and the bot may get a second one meanwhile. TLC reaches it in 7 states, and
`LoopsOwned` and `Fleet` except such loops by name (`slipped`, `stray`).
`delete_instance` does not clear the desired state (`api/base_hub_service.py:547`), so
the watchdog may revive a bot while it is deleted. RED never cools by itself, against
`OPERATIONAL_RUNBOOK.md:153` and `core/weight_governor.py:11`.

*Cache.* The single flight of `core/market_cache.py:124-125` fails after an eviction
dropped a lock in use; `set_ticker` has no caller, so `get_ticker` in
`api/routers/louise.py:33-39` finds nothing.

*Gateway.* `gateway_start` and `gateway_stop` are not serialised: overlapping requests
leave a running gateway nobody can stop. A gateway whose key another one closed is deaf
until its next keepalive. Nothing is read again after a stream reconnects. The first report
of an asset takes its isolated margin off the balance "to reflect real equity"
(`connectors/binance_gateway.py:211` against 500-506), and so does a reading whose second
call fails, which clears `last_error` all the same.

*Klines.* An outage longer than the tail of 3 candles breaks the "continuous chain"
(`core/kline_ingestion.py:4`, `core/telemetry_vault.py:249-251`); without a server time the
forming candle is stored as closed; a store that failed counts as a bootstrap.

*Console.* TelemetryHub's fallback polling never comes due, because its 8 s timer is
cancelled at each attempt, 3 or 6 s apart, against
`docs/architecture_v4_websockets.md:74-75`. The back-off "3s, 6s, 12s, capped at 30s"
(`telemetry_socket.dart:156`) never passes 6 s, because `_doConnect` resets the count
before anybody answered. A connection that hangs counts as connected. The orphan
reconciler uses `ctx.db`, which the context lacks.

## 4. The proofs

Every safety property and both refinements a run checks are also theorems; `PROJECT.json`
lists them with the property each states. Assumed are only the named assumptions on the
constants, which TLC evaluates in the runs, and where a theorem has a further hypothesis
(`~ReportsMayLag`, `~Paper`, `~CrashMidFill`) it is named below, with
what fails without it. Two proofs modules speak of two components each, which share no
variable: the definitions of `Gateway` and `Console` that would clash bear their names.

**LouiseRunner.** `RunnerTypes` proves `TypeOK`. It is not inductive alone: an order's
epoch must be a real epoch before its fill may write the row, so `Shape` adds that
issued orders have a side and an epoch, that keys and reports name issued orders,
and that the cached epoch exists. `FillsRecordedOnce` needs that
a key in `pending` or `stale` has no purchase row yet, which is the second half of
`RecordedOnce` itself. `BuysAlwaysCovered` counts buy orders against reservations:
every action that issues a buy reserves first. `StatsBackedByLedger` needs more than
its statement: not only the epoch rows but every copy of one (the runner's and those
in order metadata) must claim no more purchases than the ledger has, and an order
that is still handled must not be in the ledger, so that the row it adds makes room
for the count it writes. These hold for *every* setting of the wiring constants, in
particular with lagging reports, paper orders and crashes inside a handler.

*One running epoch.* `OneEpochRuns` (`OneRunningEpoch`) and `ClosedEpochsStayClosed`
(`ClosedEpochIsFinal`) have `~ReportsMayLag` as a hypothesis, the condition without which
they are false. `EpochInv` says what a poll may then rely on: the only order that can still
be reported is the newest, only the newest epoch can run, a row that a handler may still
write runs, and no runner works while an order of its stopped predecessor is out. A poll
waits until the newest order is settled, so it opens or closes an epoch only when nobody
else can.

*The accounts.* `StatsAreTheLedgers` (`StatsMatchLedger`) further needs `~Paper`, since
a paper fill has no quantity, and `~CrashMidFill`, since the handler commits the
purchase before the statistics; without either, TLC finds it violated. Its invariant
`StatsExact` adds to the equation that an epoch not yet opened has nothing to add up,
and that the copy of the epoch in the metadata of the live order equals the row: the
handler computes from the copy. What an appended purchase adds to a count and to a sum
over the ledger is proved first (`LedgerSums`). The sums are folds over sets, and the
step of such a fold is proved by taking a smallest counterexample, not by the library's
induction theorems.

*The books.* `RunnerKeepsBooks` proves `KeepsBooks`, the refinement of `EpochBook`, for
all prices, budgets and numbers of orders and epochs, under `~ReportsMayLag`, `~Paper`
and `~CrashMidFill`. With any one of them dropped TLC finds the refinement violated: two
fills that were computed from one copy count once, and a third then exceeds the daily
budget; a paper fill has no quantity; a fill that was recorded before a crash is missing
in the row, and the next ones exceed the budget. It rests on the invariants above and
two more. `OrdersMeant` is what an order was decided on: a sell has reached the target
with the copy of the epoch it carries, and its gain is that copy's; a buy left its copy
within the daily budget. It follows an order from the poll to the report, any number of
steps later. `RowsInOrder`: the epochs that exist are the first ones. The argument goes
in two halves. `RowsMove` says what a step of the runner does to the rows: nothing
(every action but three), or one is opened by a poll (`PollOpens`), gets a fill
(`FillEnters`), or is closed (`SaleCloses`), where `StatsExact` turns the copy the order
carries into what the row says. `MappedRows` then replaces the statistics of a row by
the fills in the ledger, so that each of the three is the action of `EpochBook`
(`OpenedIsOpen`, `EnteredIsEnter`, `ClosedIsClose`) and all else is a stutter.

**BudgetGuard.** The inductive invariant has the running totals non-decreasing in
time up to `now` and constant after it, and bounds every window by the ceiling plus
the slack of two-call bots *that are not cleared at the moment*, with the amounts
cleared counted against the rest. `SpendWithinCeiling` and `HubSpendWithinShare`
follow; `ReserveIsExact` is the case without two-call bots, which is the guarantee the
comment on `try_reserve` gives.

**Fuse.** The invariant ties the history to the code's fields, fuse by fuse (`Sound`):
while some of a trip's cooldown is owed, what is owed and the age of the trip add up to
the cooldown; a fuse that is open was reset no earlier than its cooldown ended, so the
code's grace window never closes before the real one; a fuse without a streak is calm;
what the streak stands for is no less than `climb`, since the code's window is the
longer one; and neither is the cooldown of a fuse that is tripped. `TypeOK` and
`BlockedWhileOwed` follow (`FuseTypes`, `BlocksWholeCooldown`), and with two lemmas on
the doubling and its ceiling `HotTripsClimb` (`HotTripsEscalate`), with fatal codes in
the run or not.

**LouiseService.** `ServiceInv` adds to the properties what they rest on. `PassSound`: a
waiting pass stands at a bot without a runner, so the loop it is about to start is the
first one, and no pass outlives the phase `up`. `RowsSound` speaks of the rows in the
database and of those the pass has read and will still use: one that says stopped was
asked for or left by a creation cut short, also when the row has changed meanwhile,
which is what makes the SHUTDOWN that `stop()` writes the operator's doing; an `ERROR`
row has no runner. `Quiet`: no loop once the runners are stopped, no client once the
process has exited. From it follow `ServiceTypes`, `OneLoopPerBot` (`OneOwnedLoop`),
`ShutdownLeavesNothing` (`QuietOnceExited`) and `OnlyTheOperatorStops`
(`StoppedOnlyOnRequest`), for any number of bots and any assignment of subaccounts.

**HubService.** `HubTypes`, `LoopsAlwaysOwned`, `OperatorHasLastWord` and the refinement
`HubKeepsPromise`, for any number of bots, requests and tasks. `HubInv` says where a
request and the watchdog may stand, with which bot. `OwnInv` adds that the task a
`stop()` waits for is the runner's own, unless the runner has got a loop since that is
marked as `slipped`; so only the return of a gather can lose a loop, and only one that
was started during it. `RaceInv` speaks of the bots where a start and a stop met: a bot
whose loop comes up under a stop, that is being started although it is not wanted any
more, or that the watchdog remembers although it was deleted, is marked, and a mark
stays until the next stop. For the refinement every action maps to one step of `Fleet`
or to a stutter: a request to start is an `Ask`, the admission of the watchdog a
`Grant`, the return of the time sync a `Launch` or a `Settle`, the end of a loop a
`Halt` or a `Fade`, the return of a gather an `EndStop` or, if it forgets a loop, a
`Lose`. None of the four has a hypothesis.

**GatewayFeed.** `FeedTypes` proves `TypeOK` and `ShownIsRightUnlessAstray` the property
`ShownUnlessAstray`, for any numbers of orders, assets, streams, readings and any bound
of the queues, spot and margin apart. The invariant speaks of what is on its way: the
last report of an item in a queue carries the item's present value; an answer under way
carries the values of all items that have not changed since; the snapshot is right but
for what is `behind`.

**Gateway** (in `GatewayFeed_proofs`). `NoGatewayLeftRunning` (`NoneLeftRunning`), for
any number of gateways and of requests, with the types in `GatewayTypes`
(`GatewayTypeOK`). `GatewayInv` adds that a gateway whose client is being made is nobody
else's and does not run, that one whose tasks were gathered stays off, that the Louise
service makes a gateway only while it keeps none, and that a request of the operator
that is alone either stops the gateway of the context or starts one while the context
has none (`AloneAtTheContext`). Two requests at once break the last one only, which is
where a gateway gets lost.

**Console** (in `KlineChain_proofs`). `QuietConsoleIsCurrent` (`QuietIsCurrent`) and
`ConsoleTypes` (`ConsoleTypeOK`), for any delays, periods, attempts and readings. While
the stream is open and no push waits, `ConsoleInv` has the last message on the wire that
brings the bots bring them as they are, or, if none does, the page show them so; three
lemmas say that a message with the bots establishes this, one without them keeps it, and
`_applySnapshot` hands it over to the page. `DelayIsShort` bounds the back-off.

**MarketCache.** `CacheTypesHold`, `MissesShareAFlight` (`OneFlightPerLock`) and the action
property `CacheNeverGoesBack` (`NeverBackwards`), for any number of keys, callers and lock
objects. Unless an eviction dropped it, the lock of a key is the lock of everybody who is
after that key (`SameLock`), and who fetches holds it; so what a caller has
read is no older than what has been cached meanwhile (`ReadIsNewer`).

**KlineChain.** `KlineTypes`, `RowsAreChained` (`Chained`), `ChunksDoNotDrift`
(`UnbrokenIsWhole`) and `ClosedRowsAreFinal` (`ClosedIsFinal`), for histories of any length
and any sizes of the fetches. `ChainInv` states the first two with the row they
choose as a witness, and adds that a batch is a stretch of candles that reaches as far as
what is stored, whose bars are final but for the last, and that a stored row which is not a
break is followed by the next candle and has closed (`NoGaps`).

*Only model-checked:* liveness (`FuseReopens`, `ShutdownCompletes`, `DesiredTrades`,
`CallsEnd`, `HearsAgain`, `CatchesUp`), which rests on fairness and `ENABLED` and is out of
the prover's reach; and the violated `EventuallyBuys`.

## 5. Not modelled, and the plan

Decimal rounding and exchange filters, network I/O, encryption, configuration
parsing, analytics and the other clients are out; `PROJECT.json` gives the reason for
each. Some components have state and are left out because the program never drives
them: nobody but the tests reports a success or a failure to the SymmetryGuard;
`start_background_workers`, the only user of the TransferService and of the governor's
tokens, has no caller; the orphan reconciler always ends in an error before it changes
anything; AntiLouise is only constructed by tests.

What remains worth doing: the SymmetryGuard and the reconciler, once something in the
program drives them, and a budget ledger shared by several runners, to compose
`LouiseRunner` with `BudgetGuard`.
