--------------------------- MODULE LouiseRunner ---------------------------
(***************************************************************************)
(* The Louise DCA runner of runtime/bot/louise.py for one bot, together    *)
(* with the rows it owns in louise_hub.sqlite, the orders it sends to the  *)
(* exchange and the execution reports that come back.                      *)
(*                                                                         *)
(* The runner keeps a cached copy of its open epoch (`active'), decides on *)
(* that copy at every poll, and learns of its own orders only through      *)
(* reports that arrive later, possibly after another poll, a restart or    *)
(* never.  Money is an integer number of quote units; an epoch's average   *)
(* price is kept as the pair (cost, vol) with avg = cost / vol.  The P&L   *)
(* snapshot that a poll appends is only ever charted and is left out.      *)
(***************************************************************************)
EXTENDS Integers, Sequences, FiniteSetsExt

CONSTANTS
    Prices,          \* prices the ticker and the fills can have
    BuyVolume,       \* config.buy_volume, in quote units
    TargetPct,       \* config.target_profit_pct
    DailyBudget,     \* config.daily_budget_usdt (compared with an epoch's cost)
    SpendCeiling,    \* what BudgetGuard lets this bot's hub spend in 24 h
    MinBalance,      \* louise_min_usdt_balance()
    Wallets,         \* free USDT values the exchange reports
    Paper,           \* LOUISE_PAPER_TRADE
    BusDelivers,     \* EventBus callbacks reach the handlers (see README)
    GovernorAnswers, \* what gov.can_execute() may do: "allow", "deny", "raise"
    ReportsMayLag,   \* a poll may run before the last order's report arrived
    CrashMidFill,    \* the process may die between two commits of one fill
    MaxOrders,       \* bound on the orders of a behaviour
    MaxEpochs        \* bound on the epochs of a behaviour

ASSUME ConfigAssumption ==
    /\ Prices \subseteq Nat \ {0}
    /\ BuyVolume \in Nat \ {0}
    /\ \A p \in Prices : BuyVolume % p = 0    \* quantities are whole units
    /\ TargetPct \in Int
    /\ {DailyBudget, SpendCeiling, MinBalance} \subseteq Nat
    /\ Wallets \subseteq Nat
    /\ {Paper, BusDelivers, ReportsMayLag, CrashMidFill} \subseteq BOOLEAN
    /\ GovernorAnswers \subseteq {"allow", "deny", "raise"}
    /\ {MaxOrders, MaxEpochs} \subseteq Nat

VARIABLES
    status,     \* louise_bots.status
    epochs,     \* louise_epochs, by creation order
    nEpochs,    \* how many of them exist
    purchases,  \* louise_purchases, in insertion order
    reserved,   \* this bot's 24 h sum in budget_ledger
    looping,    \* the runner's _main_loop task is alive
    active,     \* active_epoch: the runner's copy of its open epoch
    lastBuy,    \* last_purchase_price
    price,      \* current_price, 0 when none was seen or it is stale
    usdt,       \* usdt_free_balance
    cooldown,   \* now < cooldown_until
    pending,    \* keys of pending_orders
    awaiting,   \* the order whose create_order call is in progress, or 0
    stale,      \* keys of pending_orders of stopped but subscribed runners
    orders,     \* order meta (pending_orders values) and the exchange's view
    nOrders,    \* how many orders were issued
    reports     \* execution reports in transit

db     == <<status, epochs, nEpochs, purchases>>
memory == <<active, lastBuy, price, usdt, cooldown, pending, awaiting>>
vars   == <<db, reserved, looping, memory, stale, orders, nOrders, reports>>

Oid     == 1 .. MaxOrders
EpochId == 1 .. MaxEpochs

-----------------------------------------------------------------------------
(* Rows and records *)

NoRow   == [status |-> "none", num |-> 0, cost |-> 0, vol |-> 0, profit |-> 0]
NoEpoch == [id |-> 0, num |-> 0, cost |-> 0, vol |-> 0]
NoOrder == [side |-> "none", epoch |-> NoEpoch, price |-> 0, lucky |-> FALSE,
            profit |-> 0, exec |-> "none", fill |-> 0]

Copies == [id : 0 .. MaxEpochs, num : Nat, cost : Nat, vol : Nat]
Rows   == [status : {"none", "RUNNING", "CLOSED"},
           num : Nat, cost : Nat, vol : Nat, profit : Int]
Orders == [side : {"none", "BUY", "SELL"}, epoch : Copies, price : Nat,
           lucky : BOOLEAN, profit : Int, fill : Nat,
           exec : {"none", "sent", "filled", "expired", "failed"}]
Buys   == [oid : Oid, epoch : EpochId, price : Nat, qty : Nat, cost : Nat,
           lucky : BOOLEAN]
Reports == [oid : Oid, X : {"FILLED", "EXPIRED"}]

RowsOf(e) == {i \in 1 .. Len(purchases) : purchases[i].epoch = e}

\* LouiseDb.get_active_epoch: the newest RUNNING epoch, as the runner copies it.
CopyOf(rows, e) == [id |-> e, num |-> rows[e].num, cost |-> rows[e].cost,
                    vol |-> rows[e].vol]
Running(rows)   == {e \in EpochId : rows[e].status = "RUNNING"}
GetActiveEpoch(rows) ==
    IF Running(rows) = {} THEN NoEpoch
    ELSE CopyOf(rows, CHOOSE e \in Running(rows) : \A f \in Running(rows) : f <= e)

-----------------------------------------------------------------------------
(* Market and wallet feeds *)

\* _on_ticker; `price = 0' stands for a price never seen or older than the
\* staleness limit, which poll_market treats alike.
OnTicker ==
    /\ BusDelivers /\ looping
    /\ price' \in Prices
    /\ UNCHANGED <<db, reserved, looping, active, lastBuy, usdt, cooldown,
                   pending, awaiting, stale, orders, nOrders, reports>>

PriceGoesStale ==
    /\ price # 0
    /\ price' = 0
    /\ UNCHANGED <<db, reserved, looping, active, lastBuy, usdt, cooldown,
                   pending, awaiting, stale, orders, nOrders, reports>>

OnBalances ==
    /\ BusDelivers /\ looping
    /\ usdt' \in Wallets
    /\ UNCHANGED <<db, reserved, looping, active, lastBuy, price, cooldown,
                   pending, awaiting, stale, orders, nOrders, reports>>

CooldownEnds ==
    /\ cooldown
    /\ cooldown' = FALSE
    /\ UNCHANGED <<db, reserved, looping, active, lastBuy, price, usdt,
                   pending, awaiting, stale, orders, nOrders, reports>>

-----------------------------------------------------------------------------
(* poll_market *)

\* Every earlier order was reported (or its report lost) before this step.
Settled == reports = {} /\ \A o \in Oid : orders[o].exec # "sent"

\* "Check if we need to create an epoch".
NeedsEpochOrEmpty == active.num = 0                              \* mutant
NeedsEpoch == active = NoEpoch

\* The early returns of poll_market up to the governor.
MayPoll ==
    /\ looping /\ awaiting = 0
    /\ ~cooldown
    /\ price # 0
    /\ usdt >= MinBalance
    /\ "allow" \in GovernorAnswers
    /\ ReportsMayLag \/ Settled
    /\ NeedsEpoch => nEpochs < MaxEpochs

OpenedRows == IF NeedsEpoch
              THEN [epochs EXCEPT ![nEpochs + 1] = [NoRow EXCEPT !.status = "RUNNING"]]
              ELSE epochs
Working    == IF NeedsEpoch THEN GetActiveEpoch(OpenedRows) ELSE active
OpenEpoch  ==
    /\ epochs' = OpenedRows
    /\ nEpochs' = IF NeedsEpoch THEN nEpochs + 1 ELSE nEpochs
    /\ active' = Working

Profit     == Working.vol * price - Working.cost
TakeProfit == Working.num > 0 /\ Profit * 100 >= TargetPct * Working.cost
NotLower   == Working.num > 0 /\ price >= lastBuy

\* No exit and no entry: the price is not below the last purchase.
PollHold ==
    /\ MayPoll /\ ~TakeProfit /\ NotLower
    /\ OpenEpoch
    /\ UNCHANGED <<status, purchases, reserved, looping, lastBuy, price, usdt,
                   cooldown, pending, awaiting, stale, orders, nOrders, reports>>

\* Hand the new order to the exchange.  A paper order is filled at once and its
\* report is the payload of _delay_sim; a live one awaits create_order.
Submit(order) ==
    LET o == nOrders + 1 IN
    /\ o \in Oid
    /\ nOrders' = o
    /\ pending' = pending \cup {o}
    /\ IF Paper
       THEN /\ orders' = [orders EXCEPT ![o] =
                            [order EXCEPT !.exec = "filled", !.fill = price]]
            /\ reports' = reports \cup {[oid |-> o, X |-> "FILLED"]}
            /\ awaiting' = 0
       ELSE /\ orders' = [orders EXCEPT ![o] = [order EXCEPT !.exec = "sent"]]
            /\ reports' = reports
            /\ awaiting' = o

\* Take profit reached: _execute_sell places the order ...
PollSell ==
    /\ MayPoll /\ TakeProfit
    /\ OpenEpoch
    /\ Submit([NoOrder EXCEPT !.side = "SELL", !.epoch = Working,
                              !.price = price, !.profit = Profit])
    /\ UNCHANGED <<status, purchases, reserved, looping, lastBuy, price, usdt,
                   cooldown, stale>>

\* ... or finds no exchange filters or no gateway client, and backs off.
PollSellBlocked ==
    /\ MayPoll /\ TakeProfit
    /\ OpenEpoch
    /\ cooldown' = TRUE
    /\ UNCHANGED <<status, purchases, reserved, looping, lastBuy, price, usdt,
                   pending, awaiting, stale, orders, nOrders, reports>>

\* Entry: the budget is reserved first, the local checks come after.
MayEnter    == MayPoll /\ ~TakeProfit /\ ~NotLower
BudgetOpen  == reserved < SpendCeiling                           \* mutant
BudgetLeft  == reserved + BuyVolume <= SpendCeiling
DailySpent  == Working.cost > DailyBudget                        \* mutant
OverDaily   == Working.cost + BuyVolume > DailyBudget
WalletShort == usdt < BuyVolume

PollBudgetRejected ==
    /\ MayEnter /\ ~BudgetLeft
    /\ OpenEpoch
    /\ UNCHANGED <<status, purchases, reserved, looping, lastBuy, price, usdt,
                   cooldown, pending, awaiting, stale, orders, nOrders, reports>>

\* The reservation was taken but a local check ends the poll; nothing gives
\* the reservation back.
PollReservedOnly ==
    /\ MayEnter /\ BudgetLeft
    /\ OverDaily \/ WalletShort
    /\ reserved' = reserved + BuyVolume
    /\ OpenEpoch
    /\ UNCHANGED <<status, purchases, looping, lastBuy, price, usdt, cooldown,
                   pending, awaiting, stale, orders, nOrders, reports>>

\* The same with a back-off: the loaded filters put MIN_NOTIONAL above the buy
\* volume, or the gateway has no client.
PollBuyBlocked ==
    /\ MayEnter /\ BudgetLeft /\ ~OverDaily /\ ~WalletShort
    /\ reserved' = reserved + BuyVolume
    /\ cooldown' = TRUE
    /\ OpenEpoch
    /\ UNCHANGED <<status, purchases, looping, lastBuy, price, usdt, pending,
                   awaiting, stale, orders, nOrders, reports>>

\* _execute_buy.  The meta keeps the epoch as it was when the order was decided.
\* `lucky' is _is_lucky_entry(): what the telemetry vault says of the price.
PollBuy ==
    /\ MayEnter /\ BudgetLeft /\ ~OverDaily /\ ~WalletShort
    /\ reserved' = reserved + BuyVolume
    /\ OpenEpoch
    /\ \E lucky \in BOOLEAN :
         Submit([NoOrder EXCEPT !.side = "BUY", !.epoch = Working,
                                !.price = price, !.lucky = lucky])
    /\ usdt' = IF Paper THEN usdt - BuyVolume ELSE usdt
    /\ UNCHANGED <<status, purchases, looping, lastBuy, price, cooldown, stale>>

-----------------------------------------------------------------------------
(* The exchange, and the return of create_order *)

\* A market buy fills at any price; nobody reads the price a sell got.
ExchangeFills(o) ==
    /\ orders[o].exec = "sent"
    /\ \E p \in IF orders[o].side = "BUY" THEN Prices ELSE {orders[o].price} :
         orders' = [orders EXCEPT ![o].exec = "filled", ![o].fill = p]
    /\ reports' = reports \cup {[oid |-> o, X |-> "FILLED"]}
    /\ UNCHANGED <<db, reserved, looping, memory, stale, nOrders>>

ExchangeExpires(o) ==
    /\ orders[o].exec = "sent"
    /\ orders' = [orders EXCEPT ![o].exec = "expired"]
    /\ reports' = reports \cup {[oid |-> o, X |-> "EXPIRED"]}
    /\ UNCHANGED <<db, reserved, looping, memory, stale, nOrders>>

\* create_order returns: a buy is deducted from the cached balance.
CallReturns ==
    /\ awaiting # 0
    /\ orders[awaiting].exec \in {"filled", "expired"}
    /\ usdt' = IF orders[awaiting].side = "BUY" THEN usdt - BuyVolume ELSE usdt
    /\ awaiting' = 0
    /\ UNCHANGED <<db, reserved, looping, active, lastBuy, price, cooldown,
                   pending, stale, orders, nOrders, reports>>

\* create_order raises: either the order never reached the exchange, or only
\* its answer was lost.  The pending entry and the reservation stay.
CallRaises ==
    /\ awaiting # 0
    /\ \/ /\ orders[awaiting].exec = "sent"
          /\ orders' = [orders EXCEPT ![awaiting].exec = "failed"]
       \/ orders' = orders
    /\ awaiting' = 0
    /\ cooldown' = TRUE
    /\ UNCHANGED <<db, reserved, looping, active, lastBuy, price, usdt,
                   pending, stale, nOrders, reports>>

-----------------------------------------------------------------------------
(* _on_execution_report *)

\* What the payload says of the fill: a paper report carries no `z'.
ReportedQty(o)   == IF Paper THEN 0 ELSE BuyVolume \div orders[o].fill
ReportedPrice(o) == IF ReportedQty(o) > 0 THEN BuyVolume \div ReportedQty(o)
                    ELSE orders[o].price

PurchaseOfActive(o) ==                                           \* mutant
    [oid |-> o, epoch |-> active.id, price |-> ReportedPrice(o),
     qty |-> ReportedQty(o), cost |-> BuyVolume, lucky |-> orders[o].lucky]
PurchaseRow(o) ==
    [oid |-> o, epoch |-> orders[o].epoch.id, price |-> ReportedPrice(o),
     qty |-> ReportedQty(o), cost |-> BuyVolume, lucky |-> orders[o].lucky]

\* The epoch row after update_epoch_stats: computed from the order's copy.
UpdatedRowLastQty(o) ==                                          \* mutant
    LET e == orders[o].epoch IN
    [epochs[e.id] EXCEPT !.num = e.num + 1, !.cost = e.cost + BuyVolume,
                         !.vol = ReportedQty(o)]
UpdatedRow(o) ==
    LET e   == orders[o].epoch
        vol == e.vol + ReportedQty(o)
    IN  [epochs[e.id] EXCEPT
           !.num = e.num + 1,
           !.cost = e.cost + BuyVolume,
           !.vol = IF vol > 0 THEN vol ELSE (e.cost + BuyVolume) \div ReportedPrice(o)]

\* Whose pending_orders still has the key: the live runner's or a stopped one's.
HandledAny(o) == orders[o].side # "none"                         \* mutant
Handled(o) == o \in pending \cup stale

\* The runner's cached epoch after the handler: read again after a buy, dropped
\* after a sell; a stopped runner's copy is never looked at again.
AfterBuy(o, rows) == IF o \in pending THEN GetActiveEpoch(rows) ELSE active
SellKeepsActive(o) == active                                     \* mutant
AfterSell(o) == IF o \in pending THEN NoEpoch ELSE active

\* A FILLED report for a buy: add_purchase, update_epoch_stats, then the cached
\* epoch is read again.  The report may be delivered again later.
OnBuyFilled(o) ==
    /\ BusDelivers \/ Paper
    /\ [oid |-> o, X |-> "FILLED"] \in reports
    /\ Handled(o) /\ orders[o].side = "BUY"
    /\ purchases' = Append(purchases, PurchaseRow(o))
    /\ epochs' = [epochs EXCEPT ![orders[o].epoch.id] = UpdatedRow(o)]
    /\ pending' = pending \ {o}
    /\ stale' = stale \ {o}
    /\ active' = AfterBuy(o, epochs')
    /\ lastBuy' = IF o \in pending /\ ~orders[o].lucky
                  THEN ReportedPrice(o) ELSE lastBuy
    /\ UNCHANGED <<status, nEpochs, reserved, looping, price, usdt,
                   cooldown, awaiting, orders, nOrders, reports>>

\* A FILLED report for a sell: close_epoch with the values of the decision.
OnSellFilled(o) ==
    /\ BusDelivers \/ Paper
    /\ [oid |-> o, X |-> "FILLED"] \in reports
    /\ Handled(o) /\ orders[o].side = "SELL"
    /\ epochs' = [epochs EXCEPT ![orders[o].epoch.id].status = "CLOSED",
                                ![orders[o].epoch.id].profit = orders[o].profit]
    /\ pending' = pending \ {o}
    /\ stale' = stale \ {o}
    /\ active' = AfterSell(o)
    /\ UNCHANGED <<status, nEpochs, purchases, reserved, looping,
                   lastBuy, price, usdt, cooldown, awaiting, orders, nOrders,
                   reports>>

\* A report leaves the stream: delivered for the last time, of no interest to
\* any handler, or lost while the user stream reconnects (nothing replays it).
ReportGone ==
    /\ \E r \in reports : reports' = reports \ {r}
    /\ UNCHANGED <<db, reserved, looping, memory, stale, orders, nOrders>>

-----------------------------------------------------------------------------
(* Start, stop and crash of the runner *)

LastPriceOf(e) == purchases[CHOOSE i \in RowsOf(e) : \A j \in RowsOf(e) : j <= i].price

\* initialize() and start() of a new runner object: pending_orders is empty.
Launch ==
    /\ ~looping
    /\ ReportsMayLag \/ Settled
    /\ looping' = TRUE
    /\ status' = "RUNNING"
    /\ active' = GetActiveEpoch(epochs)
    /\ lastBuy' = IF active'.id # 0 /\ RowsOf(active'.id) # {}
                  THEN LastPriceOf(active'.id) ELSE 0
    /\ price' = 0 /\ usdt' = 0 /\ cooldown' = FALSE
    /\ pending' = {} /\ awaiting' = 0
    /\ UNCHANGED <<epochs, nEpochs, purchases, reserved, stale,
                   orders, nOrders, reports>>

ForgetMemory ==
    /\ looping' = FALSE
    /\ active' = NoEpoch /\ lastBuy' = 0 /\ price' = 0 /\ usdt' = 0
    /\ cooldown' = FALSE /\ pending' = {} /\ awaiting' = 0

\* stop(): the loop's task is cancelled, the bus subscription stays, so the
\* stopped object still handles the reports of its own orders.  Without the
\* database shutdown it is also _main_loop leaving on the shutdown flag.
Stop(shutdownDb) ==
    /\ looping
    /\ status' = IF shutdownDb THEN "SHUTDOWN" ELSE status
    /\ stale' = stale \cup pending
    /\ ForgetMemory
    /\ UNCHANGED <<epochs, nEpochs, purchases, reserved, orders,
                   nOrders, reports>>

\* The process dies: memory and everything in transit to it are gone.
Crash ==
    /\ looping
    /\ ForgetMemory
    /\ stale' = {}
    /\ reports' = {}
    /\ UNCHANGED <<db, reserved, orders, nOrders>>

\* It dies after add_purchase committed and before update_epoch_stats did.
CrashInFill(o) ==
    /\ BusDelivers \/ Paper
    /\ CrashMidFill
    /\ [oid |-> o, X |-> "FILLED"] \in reports
    /\ Handled(o) /\ orders[o].side = "BUY"
    /\ purchases' = Append(purchases, PurchaseRow(o))
    /\ ForgetMemory
    /\ stale' = {}
    /\ reports' = {}
    /\ UNCHANGED <<status, epochs, nEpochs, reserved, orders, nOrders>>

-----------------------------------------------------------------------------
Init ==
    /\ status = "PAUSED"
    /\ epochs = [e \in EpochId |-> NoRow] /\ nEpochs = 0
    /\ purchases = << >>
    /\ reserved = 0
    /\ looping = FALSE
    /\ active = NoEpoch /\ lastBuy = 0 /\ price = 0 /\ usdt = 0
    /\ cooldown = FALSE /\ pending = {} /\ awaiting = 0 /\ stale = {}
    /\ orders = [o \in Oid |-> NoOrder] /\ nOrders = 0
    /\ reports = {}

Feeds == OnTicker \/ PriceGoesStale \/ OnBalances \/ CooldownEnds
Poll  == \/ PollHold \/ PollSell \/ PollSellBlocked
         \/ PollBudgetRejected \/ PollReservedOnly \/ PollBuyBlocked \/ PollBuy
Exchange == \/ \E o \in Oid : ExchangeFills(o) \/ ExchangeExpires(o)
            \/ CallReturns \/ CallRaises
ReportSteps == \/ \E o \in Oid : OnBuyFilled(o) \/ OnSellFilled(o)
               \/ ReportGone
Lifecycle == \/ Launch \/ Crash
             \/ \E shutdownDb \in BOOLEAN : Stop(shutdownDb)
             \/ \E o \in Oid : CrashInFill(o)

\* Fair scheduling of a runner nobody stops: used for the shipped wiring only.
SteadyNext == Feeds \/ Poll \/ Exchange \/ ReportSteps \/ Launch
SteadySpec ==
    /\ Init /\ [][SteadyNext]_vars
    /\ WF_vars(Launch) /\ SF_vars(OnTicker) /\ SF_vars(OnBalances) /\ SF_vars(PollBuy)

Next == Feeds \/ Poll \/ Exchange \/ ReportSteps \/ Lifecycle
Spec == Init /\ [][Next]_vars

-----------------------------------------------------------------------------
(* What must hold *)

\* Every variable has its type (LouiseBotRunner.__init__, louise_hub.sqlite).
TypeOK ==
    /\ status \in {"PAUSED", "RUNNING", "SHUTDOWN"}
    /\ epochs \in [EpochId -> Rows] /\ nEpochs \in 0 .. MaxEpochs
    /\ purchases \in Seq(Buys)
    /\ reserved \in Nat
    /\ looping \in BOOLEAN /\ cooldown \in BOOLEAN
    /\ active \in Copies
    /\ lastBuy \in Nat /\ price \in Prices \cup {0} /\ usdt \in Int
    /\ pending \subseteq Oid /\ stale \subseteq Oid
    /\ awaiting \in 0 .. MaxOrders
    /\ orders \in [Oid -> Orders] /\ nOrders \in 0 .. MaxOrders
    /\ reports \subseteq Reports

BuyOrders == {o \in 1 .. nOrders : orders[o].side = "BUY"}

\* However polls, restarts and late, lost or repeated reports interleave, the
\* buys sent to the exchange never cost more than what the budget guard let the
\* bot reserve, and the reservations stay under the ceiling (poll_market).
BuysCovered ==
    /\ BuyVolume * Cardinality(BuyOrders) <= reserved
    /\ reserved <= SpendCeiling

\* A fill is written to louise_purchases at most once, and only for a buy the
\* exchange did fill, however often its report is delivered and whether the
\* runner that sent it was stopped or replaced meanwhile (the pop of
\* pending_orders in _on_execution_report).
RecordedOnce ==
    /\ \A i \in 1 .. Len(purchases) :
         LET o == purchases[i].oid IN
         /\ o \in BuyOrders /\ orders[o].exec = "filled"
         /\ o \notin pending \cup stale
    /\ \A i, j \in 1 .. Len(purchases) :
         purchases[i].oid = purchases[j].oid => i = j

\* The statistics of an epoch never claim a purchase that louise_purchases does
\* not hold, even when fills overwrite each other's update or the process dies
\* between the two commits of a fill (add_purchase comes first).
StatsNeverOverstate ==
    \A e \in EpochId : epochs[e].num <= Cardinality(RowsOf(e))

Sum(e, f(_)) == MapThenSumSet(f, RowsOf(e))
LedgerCost(e) == Sum(e, LAMBDA i : purchases[i].cost)
LedgerQty(e)  == Sum(e, LAMBDA i : purchases[i].qty)

\* An epoch's num_purchases, total_cost and average price are those of its
\* recorded fills: the exit decision and the sold quantity rest on them.
StatsMatchLedger ==
    \A e \in EpochId :
        /\ epochs[e].num = Cardinality(RowsOf(e))
        /\ epochs[e].cost = LedgerCost(e)
        /\ epochs[e].vol * LedgerCost(e) = epochs[e].cost * LedgerQty(e)

\* The bot has at most one RUNNING epoch, and the runner decides on that row as
\* the database has it: a second one would strand the first one's position, which
\* no poll would look at again (poll_market, _on_execution_report, initialize).
OneRunningEpoch ==
    /\ Cardinality(Running(epochs)) <= 1
    /\ looping => active = GetActiveEpoch(epochs)

\* A bot that runs, sees prices and has funds buys in the end, and its buy is
\* "recorded via WebSocket fill event" (ARCHITECTURE.md).
EventuallyBuys == <>(nOrders > 0)

\* No report writes to an epoch after its close: not a late fill, not a second
\* sell, not even one that would write the same profit again.
ClosedEpochIsFinal ==
    [][\A o \in Oid : OnBuyFilled(o) \/ OnSellFilled(o) =>
         epochs[orders[o].epoch.id].status = "RUNNING"]_vars

\* What the tables tell of each epoch, and the books they should be.
Book == INSTANCE EpochBook WITH
    Epochs <- EpochId,
    state  <- [e \in EpochId |-> epochs[e].status],
    buys   <- [e \in EpochId |-> Cardinality(RowsOf(e))],
    paid   <- [e \in EpochId |-> LedgerCost(e)],
    held   <- [e \in EpochId |-> LedgerQty(e)],
    gain   <- [e \in EpochId |-> epochs[e].profit]

\* Whatever polls, restarts, failed calls and lost or repeated reports do, the
\* two tables change only as books may: one epoch after the other, a fill only in
\* the open epoch and within the daily budget, and one close, with the gain of
\* what the ledger holds at a price that reaches the target (poll_market decides,
\* _on_execution_report writes later).
KeepsBooks == Book!Spec

=============================================================================
