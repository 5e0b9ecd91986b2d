----------------------- MODULE LouiseRunner_proofs -----------------------
(***************************************************************************)
(* Proofs about LouiseRunner for every value of its constants: the types,  *)
(* that a fill is recorded once, that an epoch's statistics never claim    *)
(* more purchases than the ledger holds, and that buys stay covered by the *)
(* reserved budget; and, when every report precedes the next poll, that at *)
(* most one epoch runs, that a closed one is final, that statistics are    *)
(* the sums over the recorded fills, and that the two tables are books as  *)
(* EpochBook wants them.                                                   *)
(***************************************************************************)
EXTENDS LouiseRunner, FiniteSetTheorems, WellFoundedInduction, TLAPS

-----------------------------------------------------------------------------
(* Facts about numbers and sets *)

\* Every non-empty set of naturals has a least element.
LEMMA LeastElement ==
    ASSUME NEW T, T \subseteq Nat, T # {}
    PROVE  \E x \in T : \A y \in T : x <= y
<1> DEFINE R == {ss \in Nat \X Nat : ss[1] < ss[2]}
<1>1. IsWellFoundedOn(R, Nat)
  BY NatLessThanWellFounded DEF OpToRel
<1>2. PICK x \in T : \A y \in T : <<y, x>> \notin R
  <2> HIDE DEF R
  <2> QED BY <1>1, WFMin
<1>3. ASSUME NEW y \in T PROVE x <= y
  <2>1. <<y, x>> \notin R BY <1>2, <1>3
  <2>2. x \in Nat /\ y \in Nat BY <1>3
  <2>3. ~(y < x) BY <2>1, <2>2
  <2> QED BY <2>2, <2>3
<1> QED BY <1>3

\* A non-empty set of naturals with an upper bound has a greatest element:
\* the newest RUNNING epoch and the last purchase of an epoch exist.
LEMMA GreatestElement ==
    ASSUME NEW n \in Nat, NEW S, S \subseteq 0 .. n, S # {}
    PROVE  \E x \in S : \A y \in S : y <= x
<1> DEFINE T == {m \in Nat : \E s \in S : m = n - s}
<1>1. T \subseteq Nat OBVIOUS
<1>2. T # {}
  <2>1. PICK s \in S : TRUE OBVIOUS
  <2>2. s \in 0 .. n BY <2>1
  <2>3. n - s \in Nat BY <2>2
  <2>4. n - s \in T BY <2>1, <2>3
  <2> QED BY <2>4
<1>3. PICK x \in T : \A y \in T : x <= y
  <2> HIDE DEF T
  <2> QED BY <1>1, <1>2, LeastElement
<1>4. PICK s \in S : x = n - s BY <1>3
<1>5. ASSUME NEW y \in S PROVE y <= s
  <2>1. y \in 0 .. n /\ s \in 0 .. n BY <1>4, <1>5
  <2>2. n - y \in T BY <2>1
  <2>3. n - s <= n - y BY <2>2, <1>3, <1>4
  <2> QED BY <2>1, <2>3
<1> QED BY <1>5

\* The quantity and the price a handler derives from a fill are positive.
LEMMA FillNumbers ==
    ASSUME NEW p \in Prices
    PROVE  /\ BuyVolume \div p \in Nat \ {0}
           /\ BuyVolume \div (BuyVolume \div p) \in Nat
<1>1. p \in Nat \ {0} /\ BuyVolume \in Nat \ {0} /\ BuyVolume % p = 0
  BY ConfigAssumption DEF ConfigAssumption
<1>2. /\ BuyVolume \div p \in Int
      /\ BuyVolume = p * (BuyVolume \div p) + (BuyVolume % p)
  BY <1>1, SMT
<1>3. BuyVolume \div p \in Nat \ {0}
  BY <1>1, <1>2, SMT
<1>4. \A q \in Nat \ {0} : BuyVolume \div q \in Nat
  BY <1>1, SMT
<1> QED BY <1>3, <1>4

-----------------------------------------------------------------------------
(* The type invariant and what it needs of the orders *)

\* An order that was issued has a side, an existing epoch and the price it was
\* decided at, one that was not has no side; a filled buy has a market price.
OrderShape ==
    \A o \in Oid :
        /\ o \in 1 .. nOrders <=> orders[o].side # "none"
        /\ orders[o].side # "none" =>
             orders[o].epoch.id \in EpochId /\ orders[o].price \in Prices
        /\ orders[o].exec # "none" => orders[o].side # "none"
        /\ orders[o].exec = "filled" /\ orders[o].side = "BUY" => orders[o].fill \in Prices

\* Every key a handler may look up is an issued order, and every fill that is
\* reported has happened.
KeyShape ==
    /\ pending \subseteq 1 .. nOrders /\ stale \subseteq 1 .. nOrders
    /\ awaiting \in 0 .. nOrders
    /\ \A r \in reports : r.X = "FILLED" => orders[r.oid].exec = "filled"

\* The runner holds an epoch that exists, or none at all.
ActiveShape == active # NoEpoch => active.id \in EpochId

Shape == OrderShape /\ KeyShape /\ ActiveShape

LEMMA Constants ==
    /\ Prices \subseteq Nat \ {0} /\ BuyVolume \in Nat \ {0}
    /\ MaxOrders \in Nat /\ MaxEpochs \in Nat
    /\ Wallets \subseteq Nat
    /\ Paper \in BOOLEAN /\ BusDelivers \in BOOLEAN
BY ConfigAssumption DEF ConfigAssumption

\* get_active_epoch returns a copy of one of the RUNNING rows, or none.
LEMMA GetActive ==
    ASSUME NEW rows \in [EpochId -> Rows]
    PROVE  /\ GetActiveEpoch(rows) \in Copies
           /\ Running(rows) = {} => GetActiveEpoch(rows) = NoEpoch
           /\ Running(rows) # {} =>
                /\ GetActiveEpoch(rows).id \in Running(rows)
                /\ GetActiveEpoch(rows) = CopyOf(rows, GetActiveEpoch(rows).id)
<1>1. CASE Running(rows) = {}
  BY <1>1, Constants DEF GetActiveEpoch, Copies, NoEpoch
<1>2. CASE Running(rows) # {}
  <2> DEFINE e == CHOOSE e \in Running(rows) : \A f \in Running(rows) : f <= e
  <2>1. Running(rows) \subseteq 0 .. MaxEpochs
    BY Constants DEF Running, EpochId
  <2>2. \E x \in Running(rows) : \A f \in Running(rows) : f <= x
    BY <1>2, <2>1, Constants, GreatestElement
  <2>3. e \in Running(rows)
    BY <2>2
  <2>4. GetActiveEpoch(rows) = CopyOf(rows, e)
    BY <1>2 DEF GetActiveEpoch
  <2> HIDE DEF e
  <2>5. e \in EpochId /\ rows[e] \in Rows
    BY <2>3 DEF Running
  <2>6. CopyOf(rows, e) \in Copies /\ CopyOf(rows, e).id = e
    BY <2>5, Constants DEF CopyOf, Copies, Rows, EpochId
  <2> QED BY <1>2, <2>3, <2>4, <2>6
<1> QED BY <1>1, <1>2

\* After "check if we need to create an epoch" there is one to work on.
LEMMA EpochAtHand ==
    ASSUME TypeOK, Shape, MayPoll
    PROVE  /\ OpenedRows \in [EpochId -> Rows]
           /\ Working \in Copies /\ Working.id \in EpochId
           /\ (IF NeedsEpoch THEN nEpochs + 1 ELSE nEpochs) \in 0 .. MaxEpochs
<1>1. CASE NeedsEpoch
  <2>1. nEpochs + 1 \in EpochId /\ nEpochs + 1 \in 0 .. MaxEpochs
    BY <1>1, Constants DEF MayPoll, TypeOK, EpochId
  <2> DEFINE new == [NoRow EXCEPT !.status = "RUNNING"]
  <2>2. new \in Rows /\ new.status = "RUNNING"
    BY DEF Rows, NoRow
  <2>3. OpenedRows = [epochs EXCEPT ![nEpochs + 1] = new]
    BY <1>1 DEF OpenedRows
  <2> HIDE DEF new
  <2>4. OpenedRows \in [EpochId -> Rows] /\ OpenedRows[nEpochs + 1] = new
    BY <2>1, <2>2, <2>3 DEF TypeOK
  <2>5. Running(OpenedRows) # {}
    BY <2>1, <2>2, <2>4 DEF Running
  <2>6. Working = GetActiveEpoch(OpenedRows)
    BY <1>1 DEF Working
  <2>7. GetActiveEpoch(OpenedRows).id \in EpochId
    BY <2>4, <2>5, GetActive DEF Running
  <2> QED BY <1>1, <2>1, <2>4, <2>6, <2>7, GetActive
<1>2. CASE ~NeedsEpoch
  BY <1>2 DEF OpenedRows, Working, NeedsEpoch, TypeOK, Shape, ActiveShape
<1> QED BY <1>1, <1>2

-----------------------------------------------------------------------------
(* Init, and the steps group by group *)

Typed == TypeOK /\ Shape

LEMMA Defaults == NoRow \in Rows /\ NoEpoch \in Copies /\ NoOrder \in Orders
<1>1. NoRow \in Rows BY DEF NoRow, Rows
<1>2. NoEpoch \in Copies BY Constants DEF NoEpoch, Copies
<1>3. NoOrder \in Orders BY <1>2 DEF NoOrder, Orders
<1> QED BY <1>1, <1>2, <1>3

LEMMA TypedInit == Init => Typed
<1> SUFFICES ASSUME Init PROVE Typed OBVIOUS
<1>1. NoRow \in Rows /\ NoEpoch \in Copies /\ NoOrder \in Orders
  BY Defaults
<1>2. TypeOK
  <2>1. epochs \in [EpochId -> Rows] /\ orders \in [Oid -> Orders]
    BY <1>1 DEF Init
  <2>2. purchases \in Seq(Buys)
    BY DEF Init
  <2>3. active \in Copies /\ nEpochs \in 0 .. MaxEpochs /\ nOrders \in 0 .. MaxOrders
        /\ awaiting \in 0 .. MaxOrders
    BY <1>1, Constants DEF Init
  <2>4. looping \in BOOLEAN /\ cooldown \in BOOLEAN
    BY DEF Init
  <2> QED BY <2>1, <2>2, <2>3, <2>4 DEF Init, TypeOK
<1>3. Shape
  BY Constants DEF Init, Shape, OrderShape, KeyShape, ActiveShape, NoOrder, Oid
<1> QED BY <1>2, <1>3 DEF Typed

\* The shape of the orders and keys rests on five variables only.
LEMMA SameOrders ==
    ASSUME Shape, UNCHANGED <<orders, nOrders, pending, stale, awaiting, reports>>
    PROVE  OrderShape' /\ KeyShape'
BY DEF Shape, OrderShape, KeyShape

LEMMA TypedFeeds == Typed /\ Feeds => Typed'
<1> SUFFICES ASSUME Typed, Feeds PROVE Typed' OBVIOUS
<1> USE DEF Typed
<1>1. UNCHANGED <<db, reserved, looping, active, lastBuy, pending, awaiting,
                  stale, orders, nOrders, reports>>
  BY DEF Feeds, OnTicker, PriceGoesStale, OnBalances, CooldownEnds, db
<1>2. price' \in Prices \cup {0} /\ usdt' \in Int /\ cooldown' \in BOOLEAN
  <2>1. price' \in Prices \cup {price, 0} /\ usdt' \in Wallets \cup {usdt}
    BY DEF Feeds, OnTicker, PriceGoesStale, OnBalances, CooldownEnds
  <2>2. cooldown' = cooldown \/ cooldown' = FALSE
    BY DEF Feeds, OnTicker, PriceGoesStale, OnBalances, CooldownEnds
  <2>3. price' \in Prices \cup {0} /\ usdt' \in Int
    BY <2>1, Constants DEF TypeOK
  <2>4. cooldown' \in BOOLEAN
    BY <2>2 DEF TypeOK
  <2> QED BY <2>3, <2>4
<1>3. TypeOK'
  BY <1>1, <1>2 DEF TypeOK, db
<1>4. ActiveShape'
  BY <1>1 DEF Shape, ActiveShape
<1> QED BY <1>1, <1>3, <1>4, SameOrders DEF Shape

\* What every poll that gets past its gates does to the epoch and the chart.
LEMMA TypedPolled ==
    ASSUME Typed, MayPoll, OpenEpoch
    PROVE  /\ epochs' \in [EpochId -> Rows] /\ nEpochs' \in 0 .. MaxEpochs
           /\ active' \in Copies /\ ActiveShape'
BY EpochAtHand DEF Typed, OpenEpoch, ActiveShape

\* A new order is well formed, whichever side it has.
LEMMA TypedSubmit ==
    ASSUME Typed, MayPoll, NEW order \in Orders,
           order.side # "none", order.epoch = Working, order.price = price,
           Submit(order)
    PROVE  /\ orders' \in [Oid -> Orders] /\ nOrders' \in 0 .. MaxOrders
           /\ pending' \subseteq Oid /\ awaiting' \in 0 .. MaxOrders
           /\ reports' \subseteq Reports
           /\ stale' = stale => OrderShape' /\ KeyShape'
<1> DEFINE o == nOrders + 1
<1>1. o \in Oid /\ nOrders' = o /\ o \in Nat /\ pending' = pending \cup {o}
  BY Constants DEF Typed, Submit, TypeOK, Oid
<1>2. Working.id \in EpochId
  BY EpochAtHand DEF Typed
<1>3. price \in Prices /\ price \in Nat
  BY Constants DEF MayPoll, Typed, TypeOK
<1>4. CASE Paper
  <2> DEFINE new == [order EXCEPT !.exec = "filled", !.fill = price]
  <2>1. new \in Orders /\ new.side = order.side /\ new.epoch = Working
        /\ new.exec = "filled" /\ new.fill \in Prices /\ new.price \in Prices
    BY <1>3 DEF Orders
  <2>2. /\ orders' = [orders EXCEPT ![o] = new]
        /\ reports' = reports \cup {[oid |-> o, X |-> "FILLED"]} /\ awaiting' = 0
    BY <1>4 DEF Submit
  <2> HIDE DEF new
  <2>3. [oid |-> o, X |-> "FILLED"] \in Reports
    BY <1>1 DEF Reports
  <2>4. orders' \in [Oid -> Orders] /\ orders'[o] = new
        /\ \A q \in Oid \ {o} : orders'[q] = orders[q]
    BY <1>1, <2>1, <2>2 DEF Typed, TypeOK
  <2>5. OrderShape'
    BY <1>1, <1>2, <2>1, <2>4 DEF Typed, TypeOK, Shape, OrderShape, Oid
  <2>6. stale' = stale => KeyShape'
    BY <1>1, <2>1, <2>2, <2>4 DEF Typed, TypeOK, Shape, KeyShape, Oid, Reports
  <2> QED BY <1>1, <2>2, <2>3, <2>4, <2>5, <2>6, Constants DEF Typed, TypeOK, Oid
<1>5. CASE ~Paper
  <2> DEFINE new == [order EXCEPT !.exec = "sent"]
  <2>1. new \in Orders /\ new.side = order.side /\ new.epoch = Working
        /\ new.exec = "sent" /\ new.price \in Prices
    BY <1>3 DEF Orders
  <2>2. orders' = [orders EXCEPT ![o] = new] /\ reports' = reports /\ awaiting' = o
    BY <1>5 DEF Submit
  <2> HIDE DEF new
  <2>4. orders' \in [Oid -> Orders] /\ orders'[o] = new
        /\ \A q \in Oid \ {o} : orders'[q] = orders[q]
    BY <1>1, <2>1, <2>2 DEF Typed, TypeOK
  <2>5. OrderShape'
    BY <1>1, <1>2, <2>1, <2>4 DEF Typed, TypeOK, Shape, OrderShape, Oid
  <2>8. orders[o].exec # "filled"
    BY <1>1 DEF Typed, TypeOK, Shape, OrderShape
  <2>6. stale' = stale => KeyShape'
    BY <1>1, <2>1, <2>2, <2>4, <2>8 DEF Typed, TypeOK, Shape, KeyShape, Oid, Reports
  <2> QED BY <1>1, <2>2, <2>4, <2>5, <2>6, Constants DEF Typed, TypeOK, Oid
<1> QED BY <1>4, <1>5, Constants

LEMMA TypedPoll == Typed /\ Poll => Typed'
<1> SUFFICES ASSUME Typed, Poll PROVE Typed' OBVIOUS
<1>1. MayPoll /\ OpenEpoch /\ UNCHANGED <<status, purchases, looping, lastBuy, price, stale>>
  BY DEF Poll, PollHold, PollSell, PollSellBlocked, PollBudgetRejected,
         PollReservedOnly, PollBuyBlocked, PollBuy, MayEnter
<1>2. /\ epochs' \in [EpochId -> Rows] /\ nEpochs' \in 0 .. MaxEpochs
      /\ active' \in Copies /\ ActiveShape'
  BY <1>1, TypedPolled
<1>3. reserved' \in Nat
  <2>1. reserved' = reserved \/ reserved' = reserved + BuyVolume
    BY DEF Poll, PollHold, PollSell, PollSellBlocked, PollBudgetRejected,
           PollReservedOnly, PollBuyBlocked, PollBuy
  <2> QED BY <2>1, Constants DEF Typed, TypeOK
<1>4. usdt' \in Int
  <2>1. usdt' = usdt \/ usdt' = usdt - BuyVolume
    BY DEF Poll, PollHold, PollSell, PollSellBlocked, PollBudgetRejected,
           PollReservedOnly, PollBuyBlocked, PollBuy
  <2> QED BY <2>1, Constants DEF Typed, TypeOK
<1>5. cooldown' \in BOOLEAN
  <2>1. cooldown' = cooldown \/ cooldown' = TRUE
    BY DEF Poll, PollHold, PollSell, PollSellBlocked, PollBudgetRejected,
           PollReservedOnly, PollBuyBlocked, PollBuy
  <2> QED BY <2>1 DEF Typed, TypeOK
<1>6. /\ orders' \in [Oid -> Orders] /\ nOrders' \in 0 .. MaxOrders
      /\ pending' \subseteq Oid /\ awaiting' \in 0 .. MaxOrders
      /\ reports' \subseteq Reports
      /\ OrderShape' /\ KeyShape'
  <2>1. /\ Working \in Copies /\ Working.id \in EpochId /\ price \in Nat
        /\ Profit \in Int
    BY <1>1, EpochAtHand, Constants DEF Typed, TypeOK, Profit, Copies
  <2>2. CASE UNCHANGED <<orders, nOrders, pending, awaiting, reports>>
    BY <1>1, <2>2, SameOrders DEF Typed, TypeOK
  <2>3. CASE PollSell
    <3> DEFINE order == [NoOrder EXCEPT !.side = "SELL", !.epoch = Working,
                                        !.price = price, !.profit = Profit]
    <3>1. order \in Orders /\ order.side # "none" /\ order.epoch = Working
          /\ order.price = price
      BY <2>1, Defaults DEF Orders
    <3>2. Submit(order)
      BY <2>3 DEF PollSell
    <3> HIDE DEF order
    <3> QED BY <1>1, <3>1, <3>2, TypedSubmit
  <2>4. CASE PollBuy
    <3>1. PICK lucky \in BOOLEAN :
            Submit([NoOrder EXCEPT !.side = "BUY", !.epoch = Working,
                                   !.price = price, !.lucky = lucky])
      BY <2>4 DEF PollBuy
    <3> DEFINE order == [NoOrder EXCEPT !.side = "BUY", !.epoch = Working,
                                        !.price = price, !.lucky = lucky]
    <3>2. order \in Orders /\ order.side # "none" /\ order.epoch = Working
          /\ order.price = price
      BY <2>1, Defaults DEF Orders
    <3>3. Submit(order)
      BY <3>1
    <3> HIDE DEF order
    <3> QED BY <1>1, <3>2, <3>3, TypedSubmit
  <2> QED
    BY <2>2, <2>3, <2>4
    DEF Poll, PollHold, PollSellBlocked, PollBudgetRejected, PollReservedOnly, PollBuyBlocked
<1>7. TypeOK'
  BY <1>1, <1>2, <1>3, <1>4, <1>5, <1>6 DEF Typed, TypeOK
<1> QED BY <1>2, <1>6, <1>7 DEF Typed, Shape

LEMMA TypedExchange == Typed /\ Exchange => Typed'
<1> SUFFICES ASSUME Typed, Exchange PROVE Typed' OBVIOUS
<1> USE DEF Typed
<1>1. ASSUME NEW o \in Oid, ExchangeFills(o) PROVE Typed'
  <2>1. PICK p \in IF orders[o].side = "BUY" THEN Prices ELSE {orders[o].price} :
          orders' = [orders EXCEPT ![o].exec = "filled", ![o].fill = p]
    BY <1>1 DEF ExchangeFills
  <2> DEFINE new == [orders[o] EXCEPT !.exec = "filled", !.fill = p]
  <2>2. orders[o] \in Orders /\ orders[o].exec = "sent" /\ p \in Nat
    BY <1>1, Constants DEF ExchangeFills, TypeOK, Orders
  <2>3. /\ new \in Orders /\ new.side = orders[o].side /\ new.exec = "filled"
        /\ new.epoch = orders[o].epoch /\ new.price = orders[o].price /\ new.fill = p
    BY <2>2 DEF Orders
  <2>4. orders' = [orders EXCEPT ![o] = new]
    BY <2>1
  <2> HIDE DEF new
  <2>5. /\ orders' \in [Oid -> Orders] /\ orders'[o] = new
        /\ \A q \in Oid \ {o} : orders'[q] = orders[q]
    BY <2>3, <2>4 DEF TypeOK
  <2>6. UNCHANGED <<db, reserved, looping, memory, stale, nOrders>>
        /\ reports' = reports \cup {[oid |-> o, X |-> "FILLED"]}
    BY <1>1 DEF ExchangeFills
  <2>7. OrderShape'
    BY <2>1, <2>2, <2>3, <2>5, <2>6 DEF Shape, OrderShape
  <2>8. KeyShape'
    <3>1. ASSUME NEW r \in reports', r.X = "FILLED" PROVE orders'[r.oid].exec = "filled"
      <4>1. CASE r \in reports
        <5>1. r.oid \in Oid /\ orders[r.oid].exec = "filled"
          BY <3>1, <4>1 DEF TypeOK, Reports, Shape, KeyShape
        <5> QED BY <2>3, <2>5, <5>1
      <4>2. CASE r.oid = o
        BY <2>3, <2>5, <4>2
      <4> QED BY <2>6, <3>1, <4>1, <4>2
    <3> QED BY <2>6, <3>1 DEF Shape, KeyShape, memory
  <2>9. TypeOK' /\ ActiveShape'
    BY <2>5, <2>6 DEF TypeOK, Shape, ActiveShape, db, memory, Reports
  <2> QED BY <2>7, <2>8, <2>9 DEF Shape
<1>2. ASSUME NEW o \in Oid, ExchangeExpires(o) PROVE Typed'
  <2> DEFINE new == [orders[o] EXCEPT !.exec = "expired"]
  <2>2. orders[o] \in Orders /\ orders[o].exec = "sent"
    BY <1>2 DEF ExchangeExpires, TypeOK
  <2>3. /\ new \in Orders /\ new.side = orders[o].side /\ new.exec = "expired"
        /\ new.epoch = orders[o].epoch /\ new.price = orders[o].price
    BY <2>2 DEF Orders
  <2>4. orders' = [orders EXCEPT ![o] = new]
    BY <1>2 DEF ExchangeExpires
  <2> HIDE DEF new
  <2>5. /\ orders' \in [Oid -> Orders] /\ orders'[o] = new
        /\ \A q \in Oid \ {o} : orders'[q] = orders[q]
    BY <2>3, <2>4 DEF TypeOK
  <2>6. UNCHANGED <<db, reserved, looping, memory, stale, nOrders>>
        /\ reports' = reports \cup {[oid |-> o, X |-> "EXPIRED"]}
    BY <1>2 DEF ExchangeExpires
  <2>7. OrderShape'
    BY <2>2, <2>3, <2>5, <2>6 DEF Shape, OrderShape
  <2>8. KeyShape'
    <3>1. ASSUME NEW r \in reports', r.X = "FILLED" PROVE orders'[r.oid].exec = "filled"
      <4>1. r \in reports
        BY <2>6, <3>1
      <4>2. r.oid \in Oid /\ orders[r.oid].exec = "filled"
        BY <3>1, <4>1 DEF TypeOK, Reports, Shape, KeyShape
      <4> QED BY <2>2, <2>5, <4>2
    <3> QED BY <2>6, <3>1 DEF Shape, KeyShape, memory
  <2>9. TypeOK' /\ ActiveShape'
    BY <2>5, <2>6 DEF TypeOK, Shape, ActiveShape, db, memory, Reports
  <2> QED BY <2>7, <2>8, <2>9 DEF Shape
<1>3. ASSUME CallReturns PROVE Typed'
  <2>1. UNCHANGED <<db, reserved, looping, active, lastBuy, price, cooldown,
                    pending, stale, orders, nOrders, reports>> /\ awaiting' = 0
    BY <1>3 DEF CallReturns
  <2>2. usdt' \in Int
    BY <1>3, Constants DEF CallReturns, TypeOK
  <2>3. TypeOK'
    BY <2>1, <2>2, Constants DEF TypeOK, db
  <2>4. Shape'
    BY <2>1 DEF Shape, OrderShape, KeyShape, ActiveShape, TypeOK
  <2> QED BY <2>3, <2>4
<1>4. ASSUME CallRaises PROVE Typed'
  <2>1. UNCHANGED <<db, reserved, looping, active, lastBuy, price, usdt,
                    pending, stale, nOrders, reports>> /\ awaiting' = 0 /\ cooldown' = TRUE
    BY <1>4 DEF CallRaises
  <2>2. CASE orders' = orders
    BY <2>1, <2>2, Constants DEF TypeOK, db, Shape, OrderShape, KeyShape, ActiveShape
  <2>3. CASE orders[awaiting].exec = "sent"
             /\ orders' = [orders EXCEPT ![awaiting].exec = "failed"]
    <3>1. awaiting \in Oid
      BY <1>4, Constants DEF CallRaises, TypeOK, Oid
    <3> DEFINE new == [orders[awaiting] EXCEPT !.exec = "failed"]
    <3>2. orders[awaiting] \in Orders
      BY <3>1 DEF TypeOK
    <3>3. /\ new \in Orders /\ new.side = orders[awaiting].side /\ new.exec = "failed"
          /\ new.epoch = orders[awaiting].epoch /\ new.price = orders[awaiting].price
      BY <3>2 DEF Orders
    <3>4. orders' = [orders EXCEPT ![awaiting] = new]
      BY <2>3
    <3> HIDE DEF new
    <3>5. /\ orders' \in [Oid -> Orders] /\ orders'[awaiting] = new
          /\ \A q \in Oid \ {awaiting} : orders'[q] = orders[q]
      BY <3>1, <3>3, <3>4 DEF TypeOK
    <3>6. OrderShape'
      BY <2>1, <2>3, <3>1, <3>3, <3>5 DEF Shape, OrderShape
    <3>7. KeyShape'
      BY <2>1, <2>3, <3>1, <3>3, <3>5 DEF Shape, KeyShape, TypeOK, Reports
    <3>8. TypeOK' /\ ActiveShape'
      BY <2>1, <3>5, Constants DEF TypeOK, Shape, ActiveShape, db
    <3> QED BY <3>6, <3>7, <3>8 DEF Shape
  <2> QED BY <1>4, <2>2, <2>3 DEF CallRaises
<1> QED BY <1>1, <1>2, <1>3, <1>4 DEF Exchange

\* The row a fill writes is well formed, also when the handler runs late.
LEMMA TypedFill ==
    ASSUME Typed, NEW o \in Oid, [oid |-> o, X |-> "FILLED"] \in reports,
           orders[o].side = "BUY"
    PROVE  /\ PurchaseRow(o) \in Buys
           /\ UpdatedRow(o) \in Rows
           /\ orders[o].epoch.id \in EpochId /\ orders[o].epoch \in Copies
           /\ ReportedPrice(o) \in Nat
<1> USE DEF Typed
<1>1. orders[o] \in Orders /\ orders[o].epoch \in Copies /\ orders[o].price \in Nat
      /\ orders[o].lucky \in BOOLEAN
  BY DEF TypeOK, Orders
<1>2. orders[o].exec = "filled"
  BY DEF Shape, KeyShape
<1>3. orders[o].epoch.id \in EpochId /\ orders[o].fill \in Prices
      /\ orders[o].price \in Nat \ {0}
  BY <1>2, Constants DEF Shape, OrderShape
<1>4. ReportedQty(o) \in Nat
  BY <1>3, FillNumbers, Constants DEF ReportedQty
<1>5. ReportedPrice(o) \in Nat
  <2>1. CASE ReportedQty(o) > 0
    <3>1. ReportedQty(o) = BuyVolume \div orders[o].fill
      BY <2>1 DEF ReportedQty
    <3> QED BY <1>3, <2>1, <3>1, FillNumbers DEF ReportedPrice
  <2>2. CASE ~(ReportedQty(o) > 0)
    BY <1>1, <2>2 DEF ReportedPrice
  <2> QED BY <2>1, <2>2
<1>6. PurchaseRow(o) \in Buys
  BY <1>1, <1>3, <1>4, <1>5, Constants DEF PurchaseRow, Buys
<1>7. UpdatedRow(o) \in Rows
  <2>1. epochs[orders[o].epoch.id] \in Rows
    BY <1>3 DEF TypeOK
  <2>2. orders[o].epoch.num \in Nat /\ orders[o].epoch.cost \in Nat
        /\ orders[o].epoch.vol \in Nat
    BY <1>1 DEF Copies
  <2> DEFINE cost == orders[o].epoch.cost + BuyVolume
             vol  == orders[o].epoch.vol + ReportedQty(o)
             v    == IF vol > 0 THEN vol ELSE cost \div ReportedPrice(o)
  <2>3. v \in Nat
    <3>1. CASE vol > 0
      BY <3>1, <2>2, <1>4
    <3>2. CASE ~(vol > 0)
      <4>1. ReportedQty(o) = 0
        BY <3>2, <2>2, <1>4
      <4>2. ReportedPrice(o) = orders[o].price
        BY <4>1 DEF ReportedPrice
      <4>3. orders[o].price \in Nat \ {0}
        BY <1>3
      <4>4. cost \in Nat
        BY <2>2, Constants
      <4>5. cost \div orders[o].price \in Nat
        <5> HIDE DEF cost
        <5> QED BY <4>3, <4>4, SMT
      <4> QED BY <3>2, <4>2, <4>5
    <3> QED BY <3>1, <3>2
  <2>4. UpdatedRow(o) = [epochs[orders[o].epoch.id] EXCEPT
                           !.num = orders[o].epoch.num + 1, !.cost = cost, !.vol = v]
    BY DEF UpdatedRow
  <2>5. orders[o].epoch.num + 1 \in Nat /\ cost \in Nat
    BY <2>2, Constants
  <2> HIDE DEF v, cost
  <2> QED BY <2>1, <2>3, <2>4, <2>5 DEF Rows
<1> QED BY <1>1, <1>3, <1>5, <1>6, <1>7

LEMMA TypedReports == Typed /\ ReportSteps => Typed'
<1> SUFFICES ASSUME Typed, ReportSteps PROVE Typed' OBVIOUS
<1> USE DEF Typed
<1>1. ASSUME NEW o \in Oid, OnBuyFilled(o) PROVE Typed'
  <2>1. /\ [oid |-> o, X |-> "FILLED"] \in reports /\ orders[o].side = "BUY"
        /\ purchases' = Append(purchases, PurchaseRow(o))
        /\ epochs' = [epochs EXCEPT ![orders[o].epoch.id] = UpdatedRow(o)]
        /\ pending' = pending \ {o} /\ stale' = stale \ {o}
        /\ active' = AfterBuy(o, epochs')
        /\ lastBuy' \in {ReportedPrice(o), lastBuy}
        /\ UNCHANGED <<status, nEpochs, reserved, looping, price, usdt,
                       cooldown, awaiting, orders, nOrders, reports>>
    BY <1>1 DEF OnBuyFilled
  <2>2. /\ PurchaseRow(o) \in Buys /\ UpdatedRow(o) \in Rows
        /\ ReportedPrice(o) \in Nat /\ orders[o].epoch.id \in EpochId
    BY <2>1, TypedFill
  <2>3. epochs' \in [EpochId -> Rows]
    BY <2>1, <2>2 DEF TypeOK
  <2>4. purchases' \in Seq(Buys)
    BY <2>1, <2>2 DEF TypeOK
  <2>5. active' \in Copies /\ ActiveShape'
    <3>1. CASE o \in pending
      BY <2>1, <2>3, <3>1, GetActive DEF AfterBuy, ActiveShape, Running
    <3>2. CASE o \notin pending
      BY <2>1, <3>2 DEF AfterBuy, TypeOK, Shape, ActiveShape
    <3> QED BY <3>1, <3>2
  <2>6. lastBuy' \in Nat
    BY <2>1, <2>2 DEF TypeOK
  <2>7. TypeOK'
    BY <2>1, <2>3, <2>4, <2>5, <2>6 DEF TypeOK
  <2>8. OrderShape' /\ KeyShape'
    BY <2>1 DEF Shape, OrderShape, KeyShape
  <2> QED BY <2>5, <2>7, <2>8 DEF Shape
<1>2. ASSUME NEW o \in Oid, OnSellFilled(o) PROVE Typed'
  <2>1. /\ epochs' = [epochs EXCEPT ![orders[o].epoch.id].status = "CLOSED",
                                    ![orders[o].epoch.id].profit = orders[o].profit]
        /\ orders[o].side = "SELL"
        /\ pending' = pending \ {o} /\ stale' = stale \ {o}
        /\ active' = AfterSell(o)
        /\ UNCHANGED <<status, nEpochs, purchases, reserved, looping,
                       lastBuy, price, usdt, cooldown, awaiting, orders, nOrders, reports>>
    BY <1>2 DEF OnSellFilled
  <2>2. orders[o].epoch.id \in EpochId /\ orders[o].profit \in Int
    BY <2>1 DEF TypeOK, Orders, Shape, OrderShape
  <2>3. epochs' \in [EpochId -> Rows]
    <3> DEFINE e == orders[o].epoch.id
               row == [epochs[e] EXCEPT !.status = "CLOSED", !.profit = orders[o].profit]
    <3>1. row \in Rows
      BY <2>2 DEF TypeOK, Rows
    <3>2. epochs' = [epochs EXCEPT ![e] = row]
      BY <2>1
    <3> HIDE DEF row
    <3> QED BY <3>1, <3>2 DEF TypeOK
  <2>4. active' \in Copies /\ ActiveShape'
    BY <2>1, Defaults DEF AfterSell, TypeOK, Shape, ActiveShape
  <2>5. TypeOK'
    BY <2>1, <2>3, <2>4 DEF TypeOK
  <2>6. OrderShape' /\ KeyShape'
    BY <2>1 DEF Shape, OrderShape, KeyShape
  <2> QED BY <2>4, <2>5, <2>6 DEF Shape
<1>3. ASSUME ReportGone PROVE Typed'
  <2>1. reports' \subseteq reports
        /\ UNCHANGED <<db, reserved, looping, memory, stale, orders, nOrders>>
    BY <1>3 DEF ReportGone
  <2>2. TypeOK'
    BY <2>1 DEF TypeOK, db, memory
  <2>3. Shape'
    BY <2>1 DEF Shape, OrderShape, KeyShape, ActiveShape, memory
  <2> QED BY <2>2, <2>3
<1> QED BY <1>1, <1>2, <1>3 DEF ReportSteps

\* Forgetting the memory leaves nothing that could be ill formed.
LEMMA TypedForget ==
    ASSUME Typed, ForgetMemory,
           status' \in {"PAUSED", "RUNNING", "SHUTDOWN"},
           purchases' \in Seq(Buys), stale' \subseteq 1 .. nOrders, reports' \subseteq reports,
           UNCHANGED <<epochs, nEpochs, reserved, orders, nOrders>>
    PROVE  Typed'
<1> USE DEF Typed
<1>1. looping' \in BOOLEAN /\ cooldown' \in BOOLEAN
  BY DEF ForgetMemory
<1>2. active' \in Copies /\ ActiveShape'
  BY Defaults DEF ForgetMemory, ActiveShape
<1>3. lastBuy' = 0 /\ price' = 0 /\ usdt' = 0 /\ pending' = {} /\ awaiting' = 0
  BY DEF ForgetMemory
<1>4. stale' \subseteq Oid /\ awaiting' \in 0 .. MaxOrders /\ awaiting' \in 0 .. nOrders
  BY <1>3, Constants DEF TypeOK, Oid
<1>5. TypeOK'
  BY <1>1, <1>2, <1>3, <1>4 DEF TypeOK
<1>6. OrderShape' /\ KeyShape'
  BY <1>3, <1>4 DEF Shape, OrderShape, KeyShape
<1> QED BY <1>2, <1>5, <1>6 DEF Shape

LEMMA TypedLifecycle == Typed /\ Lifecycle => Typed'
<1> SUFFICES ASSUME Typed, Lifecycle PROVE Typed' OBVIOUS
<1> USE DEF Typed
<1>1. ASSUME Launch PROVE Typed'
  <2>1. /\ looping' = TRUE /\ status' = "RUNNING" /\ active' = GetActiveEpoch(epochs)
        /\ price' = 0 /\ usdt' = 0 /\ cooldown' = FALSE /\ pending' = {} /\ awaiting' = 0
        /\ UNCHANGED <<epochs, nEpochs, purchases, reserved, stale,
                       orders, nOrders, reports>>
    BY <1>1 DEF Launch
  <2>2. active' \in Copies /\ ActiveShape'
    BY <2>1, GetActive DEF TypeOK, ActiveShape, Running
  <2>3. lastBuy' \in Nat
    <3> DEFINE R == RowsOf(active'.id)
               i == CHOOSE i \in R : \A j \in R : j <= i
    <3>1. CASE active'.id # 0 /\ R # {}
      <4> DEFINE n == Len(purchases)
      <4>1. n \in Nat /\ R \subseteq 1 .. n /\ R \subseteq 0 .. n
        BY DEF TypeOK, RowsOf
      <4>2. \E x \in R : \A j \in R : j <= x
        <5> HIDE DEF R, n
        <5> QED BY <3>1, <4>1, GreatestElement
      <4>3. i \in R
        <5> HIDE DEF R
        <5> QED BY <4>2
      <4>4. lastBuy' = purchases[i].price
        BY <1>1, <3>1 DEF Launch, LastPriceOf
      <4> HIDE DEF i, R
      <4>5. purchases[i] \in Buys
        BY <4>1, <4>3 DEF TypeOK
      <4> QED BY <4>4, <4>5 DEF Buys
    <3>2. CASE ~(active'.id # 0 /\ R # {})
      BY <1>1, <3>2 DEF Launch
    <3> QED BY <3>1, <3>2
  <2>4. looping' \in BOOLEAN /\ cooldown' \in BOOLEAN
    BY <2>1
  <2>5. TypeOK'
    BY <2>1, <2>2, <2>3, <2>4, Constants DEF TypeOK
  <2>6. OrderShape' /\ KeyShape'
    BY <2>1 DEF Shape, OrderShape, KeyShape, TypeOK
  <2> QED BY <2>2, <2>5, <2>6 DEF Shape
<1>2. ASSUME NEW shutdownDb \in BOOLEAN, Stop(shutdownDb) PROVE Typed'
  <2>1. /\ ForgetMemory /\ stale' = stale \cup pending /\ status' \in {"SHUTDOWN", status}
        /\ UNCHANGED <<epochs, nEpochs, purchases, reserved, orders, nOrders, reports>>
    BY <1>2 DEF Stop
  <2>2. stale' \subseteq 1 .. nOrders
    BY <2>1 DEF Shape, KeyShape
  <2> QED BY <2>1, <2>2, TypedForget DEF TypeOK
<1>3. ASSUME Crash PROVE Typed'
  BY <1>3, TypedForget DEF Crash, TypeOK, db
<1>4. ASSUME NEW o \in Oid, CrashInFill(o) PROVE Typed'
  <2>1. purchases' \in Seq(Buys)
    BY <1>4, TypedFill DEF CrashInFill, TypeOK
  <2> QED BY <1>4, <2>1, TypedForget DEF CrashInFill, TypeOK
<1> QED BY <1>1, <1>2, <1>3, <1>4 DEF Lifecycle

\* The runner, its rows, its orders and the reports in transit always have
\* their types, and every key, copy and report refers to what exists.
LEMMA TypedAlways == Spec => []Typed
<1>1. Init => Typed
  BY TypedInit
<1>2. Typed /\ [Next]_vars => Typed'
  <2>1. CASE Next
    BY <2>1, TypedFeeds, TypedPoll, TypedExchange, TypedReports, TypedLifecycle DEF Next
  <2>2. CASE UNCHANGED vars
    BY <2>2 DEF vars, db, memory, Typed, TypeOK, Shape, OrderShape, KeyShape, ActiveShape
  <2> QED BY <2>1, <2>2
<1> QED BY <1>1, <1>2, PTL DEF Spec

\* Type correctness of the runner for every configuration ConfigAssumption
\* admits (any prices that divide the buy volume, any budget, live or paper).
THEOREM RunnerTypes == Spec => []TypeOK
<1>1. Typed => TypeOK
  BY DEF Typed
<1> QED BY <1>1, TypedAlways, PTL

-----------------------------------------------------------------------------
(* What a step may do to the orders, the keys and the ledger *)

\* An issued order keeps what it was decided on, a fill is never undone, and no key of an issued order comes back once it was popped.
OrdersKeep ==
    \A o \in 1 .. nOrders :
        /\ o \in 1 .. nOrders'
        /\ orders'[o].side = orders[o].side /\ orders'[o].epoch = orders[o].epoch
        /\ orders'[o].price = orders[o].price /\ orders'[o].profit = orders[o].profit
        /\ orders[o].exec = "filled" => orders'[o].exec = "filled"
        /\ o \in pending' \cup stale' => o \in pending \cup stale

\* A row enters the ledger for a filled buy whose key is popped by the same step.
FillRecorded(o) ==
    /\ o \in pending \cup stale /\ o \notin pending' \cup stale'
    /\ orders[o].side = "BUY" /\ [oid |-> o, X |-> "FILLED"] \in reports
    /\ purchases' = Append(purchases, PurchaseRow(o))
    /\ UNCHANGED <<orders, nOrders, reserved>>

LEMMA KeepsInPoll == Typed /\ Poll => OrdersKeep /\ purchases' = purchases
<1> SUFFICES ASSUME Typed, Poll PROVE OrdersKeep /\ purchases' = purchases OBVIOUS
<1>1. purchases' = purchases /\ stale' = stale
  BY DEF Poll, PollHold, PollSell, PollSellBlocked, PollBudgetRejected,
         PollReservedOnly, PollBuyBlocked, PollBuy
<1>2. CASE UNCHANGED <<orders, nOrders, pending>>
  BY <1>1, <1>2 DEF OrdersKeep
<1>3. ASSUME NEW order, Submit(order) PROVE OrdersKeep
  <2>1. /\ nOrders \in Nat /\ nOrders' = nOrders + 1 /\ pending' = pending \cup {nOrders + 1}
        /\ \E new : orders' = [orders EXCEPT ![nOrders + 1] = new]
    BY <1>3, Constants DEF Submit, Typed, TypeOK
  <2>2. \A o \in 1 .. nOrders : o \in Oid /\ o # nOrders + 1 /\ o \in 1 .. nOrders'
    BY <2>1, Constants DEF Typed, TypeOK, Oid
  <2>3. \A o \in 1 .. nOrders : orders'[o] = orders[o]
    BY <2>1, <2>2 DEF Typed, TypeOK
  <2> QED BY <1>1, <2>1, <2>2, <2>3 DEF OrdersKeep
<1>4. UNCHANGED <<orders, nOrders, pending>> \/ \E order : Submit(order)
  BY DEF Poll, PollHold, PollSell, PollSellBlocked, PollBudgetRejected,
         PollReservedOnly, PollBuyBlocked, PollBuy
<1> QED BY <1>1, <1>2, <1>3, <1>4

LEMMA KeepsInExchange == Typed /\ Exchange => OrdersKeep /\ purchases' = purchases
<1> SUFFICES ASSUME Typed, Exchange PROVE OrdersKeep /\ purchases' = purchases OBVIOUS
<1>1. UNCHANGED <<purchases, pending, stale, nOrders>>
  BY DEF Exchange, ExchangeFills, ExchangeExpires, CallReturns, CallRaises, db, memory
<1>2. CASE orders' = orders
  BY <1>1, <1>2 DEF OrdersKeep
<1>3. ASSUME NEW o \in Oid, orders[o].exec = "sent", NEW new,
             new.side = orders[o].side, new.epoch = orders[o].epoch,
             new.price = orders[o].price, new.profit = orders[o].profit,
             orders' = [orders EXCEPT ![o] = new]
      PROVE  OrdersKeep
  <2>1. orders'[o] = new /\ \A q \in Oid \ {o} : orders'[q] = orders[q]
    BY <1>3 DEF Typed, TypeOK
  <2>2. 1 .. nOrders \subseteq Oid
    BY Constants DEF Typed, TypeOK, Oid
  <2> QED BY <1>1, <1>3, <2>1, <2>2 DEF OrdersKeep
<1>4. ASSUME NEW o \in Oid, ExchangeFills(o) PROVE OrdersKeep
  <2>1. PICK p : orders' = [orders EXCEPT ![o].exec = "filled", ![o].fill = p]
    BY <1>4 DEF ExchangeFills
  <2> DEFINE new == [orders[o] EXCEPT !.exec = "filled", !.fill = p]
  <2>2. orders' = [orders EXCEPT ![o] = new]
    BY <2>1
  <2>3. /\ new.side = orders[o].side /\ new.epoch = orders[o].epoch
        /\ new.price = orders[o].price /\ new.profit = orders[o].profit
    BY DEF Typed, TypeOK, Orders
  <2> HIDE DEF new
  <2> QED BY <1>3, <1>4, <2>2, <2>3 DEF ExchangeFills
<1>5. ASSUME NEW o \in Oid, NEW x, orders[o].exec = "sent", orders' = [orders EXCEPT ![o].exec = x]
      PROVE  OrdersKeep
  <2> DEFINE new == [orders[o] EXCEPT !.exec = x]
  <2>1. orders' = [orders EXCEPT ![o] = new]
    BY <1>5
  <2>2. /\ new.side = orders[o].side /\ new.epoch = orders[o].epoch
        /\ new.price = orders[o].price /\ new.profit = orders[o].profit
    BY DEF Typed, TypeOK, Orders
  <2> HIDE DEF new
  <2> QED BY <1>3, <1>5, <2>1, <2>2
<1>6. ASSUME CallRaises PROVE OrdersKeep
  <2>1. awaiting \in Oid
    BY <1>6, Constants DEF CallRaises, Typed, TypeOK, Oid
  <2> QED BY <1>2, <1>5, <1>6, <2>1 DEF CallRaises
<1> QED BY <1>1, <1>2, <1>4, <1>5, <1>6 DEF Exchange, ExchangeExpires, CallReturns

LEMMA KeepsElsewhere ==
    Typed /\ (Feeds \/ ReportSteps \/ Lifecycle) =>
        /\ OrdersKeep
        /\ purchases' = purchases \/ \E o \in Oid : FillRecorded(o)
<1> SUFFICES ASSUME Typed, Feeds \/ ReportSteps \/ Lifecycle
             PROVE  /\ OrdersKeep
                    /\ purchases' = purchases \/ \E o \in Oid : FillRecorded(o)
  OBVIOUS
<1>1. CASE Feeds
  BY <1>1 DEF Feeds, OnTicker, PriceGoesStale, OnBalances, CooldownEnds, OrdersKeep, db
<1>2. ASSUME NEW o \in Oid, OnBuyFilled(o) PROVE OrdersKeep /\ FillRecorded(o)
  BY <1>2 DEF OnBuyFilled, OrdersKeep, FillRecorded, Handled
<1>3. ASSUME NEW o \in Oid, OnSellFilled(o) PROVE OrdersKeep /\ purchases' = purchases
  BY <1>3 DEF OnSellFilled, OrdersKeep
<1>4. CASE ReportGone
  BY <1>4 DEF ReportGone, OrdersKeep, db, memory
<1>5. CASE Launch
  BY <1>5 DEF Launch, OrdersKeep
<1>6. CASE Crash
  BY <1>6 DEF Crash, ForgetMemory, OrdersKeep, db
<1>7. ASSUME NEW b \in BOOLEAN, Stop(b) PROVE OrdersKeep /\ purchases' = purchases
  BY <1>7 DEF Stop, ForgetMemory, OrdersKeep
<1>8. ASSUME NEW o \in Oid, CrashInFill(o) PROVE OrdersKeep /\ FillRecorded(o)
  BY <1>8 DEF CrashInFill, ForgetMemory, OrdersKeep, FillRecorded, Handled
<1> QED BY <1>1, <1>2, <1>3, <1>4, <1>5, <1>6, <1>7, <1>8 DEF ReportSteps, Lifecycle

LEMMA StepsKeep ==
    Typed /\ [Next]_vars =>
        /\ OrdersKeep
        /\ purchases' = purchases \/ \E o \in Oid : FillRecorded(o)
<1>1. UNCHANGED vars => OrdersKeep /\ purchases' = purchases
  BY DEF vars, db, memory, OrdersKeep
<1> QED BY <1>1, KeepsInPoll, KeepsInExchange, KeepsElsewhere DEF Next

-----------------------------------------------------------------------------
(* A fill is recorded once *)

LEMMA RecordedOnceStep == Typed /\ RecordedOnce /\ [Next]_vars => RecordedOnce'
<1> SUFFICES ASSUME Typed, RecordedOnce, [Next]_vars PROVE RecordedOnce' OBVIOUS
<1> DEFINE Backed(row) == /\ row.oid \in BuyOrders' /\ orders'[row.oid].exec = "filled"
                          /\ row.oid \notin pending' \cup stale'
<1>1. Len(purchases) \in Nat
  BY DEF Typed, TypeOK
<1>2. ASSUME NEW i \in 1 .. Len(purchases) PROVE Backed(purchases[i])
  <2> DEFINE o == purchases[i].oid
  <2>1. o \in BuyOrders /\ orders[o].exec = "filled" /\ o \notin pending \cup stale
    BY <1>2 DEF RecordedOnce
  <2>2. o \in 1 .. nOrders /\ orders[o].side = "BUY"
    BY <2>1 DEF BuyOrders
  <2> QED BY <2>1, <2>2, StepsKeep DEF BuyOrders, OrdersKeep
<1>3. CASE purchases' = purchases
  BY <1>2, <1>3 DEF RecordedOnce
<1>4. ASSUME NEW o \in Oid, FillRecorded(o) PROVE RecordedOnce'
  <2>1. /\ purchases' = Append(purchases, PurchaseRow(o)) /\ PurchaseRow(o).oid = o
        /\ PurchaseRow(o) \in Buys /\ purchases \in Seq(Buys)
    BY <1>4, TypedFill DEF FillRecorded, PurchaseRow, Typed, TypeOK
  <2>2. Backed(PurchaseRow(o))
    <3>1. orders[o].exec = "filled" /\ o \in 1 .. nOrders
      BY <1>4 DEF FillRecorded, Typed, Shape, KeyShape
    <3> QED BY <1>4, <2>1, <3>1 DEF FillRecorded, BuyOrders
  <2>3. \A i \in 1 .. Len(purchases) : purchases[i].oid # o
    BY <1>4 DEF FillRecorded, RecordedOnce
  <2>4. /\ Len(purchases') = Len(purchases) + 1
        /\ \A i \in 1 .. Len(purchases) : purchases'[i] = purchases[i]
        /\ purchases'[Len(purchases) + 1] = PurchaseRow(o)
    BY <2>1
  <2>5. ASSUME NEW i \in 1 .. Len(purchases') PROVE Backed(purchases'[i])
    <3>1. i \in 1 .. Len(purchases) \/ i = Len(purchases) + 1
      BY <1>1, <2>4
    <3> HIDE DEF Backed
    <3> QED BY <1>2, <2>2, <2>4, <3>1
  <2>6. ASSUME NEW i \in 1 .. Len(purchases'), NEW j \in 1 .. Len(purchases'),
               purchases'[i].oid = purchases'[j].oid
        PROVE  i = j
    <3>1. /\ i \in 1 .. Len(purchases) \/ i = Len(purchases) + 1
          /\ j \in 1 .. Len(purchases) \/ j = Len(purchases) + 1
      BY <1>1, <2>4
    <3> QED BY <2>1, <2>3, <2>4, <2>6, <3>1 DEF RecordedOnce
  <2> QED BY <2>5, <2>6 DEF RecordedOnce
<1> QED BY <1>3, <1>4, StepsKeep

\* A fill enters louise_purchases at most once and only if it happened, for any
\* number of orders, restarts, lost, late and repeated reports.
THEOREM FillsRecordedOnce == Spec => []RecordedOnce
<1>1. Init => RecordedOnce
  BY DEF Init, RecordedOnce
<1>2. RecordedOnce /\ UNCHANGED vars => RecordedOnce'
  BY DEF vars, db, memory, RecordedOnce, BuyOrders
<1> QED BY <1>1, <1>2, RecordedOnceStep, TypedAlways, PTL DEF Spec

-----------------------------------------------------------------------------
(* Buys stay covered by the reservations *)

\* Outside the polls no order is issued and the budget is not touched.
LEMMA OnlyPollsIssue ==
    [Next]_vars => Poll \/ UNCHANGED <<nOrders, reserved>>
<1> SUFFICES ASSUME [Next]_vars PROVE Poll \/ UNCHANGED <<nOrders, reserved>> OBVIOUS
<1>1. CASE Feeds
  BY <1>1 DEF Feeds, OnTicker, PriceGoesStale, OnBalances, CooldownEnds
<1>2. CASE Exchange
  BY <1>2 DEF Exchange, ExchangeFills, ExchangeExpires, CallReturns, CallRaises
<1>3. CASE ReportSteps
  BY <1>3 DEF ReportSteps, OnBuyFilled, OnSellFilled, ReportGone
<1>4. CASE Lifecycle
  BY <1>4 DEF Lifecycle, Launch, Crash, Stop, CrashInFill
<1>5. CASE UNCHANGED vars
  BY <1>5 DEF vars
<1> QED BY <1>1, <1>2, <1>3, <1>4, <1>5 DEF Next

\* The buys among the orders after a step: at most the new order joins them.
LEMMA BuyOrdersFinite ==
    ASSUME Typed
    PROVE  IsFiniteSet(BuyOrders) /\ Cardinality(BuyOrders) \in Nat
<1>1. nOrders \in Nat
  BY Constants DEF Typed, TypeOK
<1>2. IsFiniteSet(1 .. nOrders)
  BY <1>1, FS_Interval
<1>3. BuyOrders \in SUBSET (1 .. nOrders)
  BY DEF BuyOrders
<1>4. IsFiniteSet(BuyOrders)
  BY <1>2, <1>3, FS_Subset
<1> QED BY <1>4, FS_CardinalityType

\* The new order, when a poll issues one.
LEMMA Submitted ==
    ASSUME Typed, NEW order \in Orders, Submit(order)
    PROVE  /\ nOrders' = nOrders + 1
           /\ orders'[nOrders + 1].side = order.side
           /\ orders'[nOrders + 1].epoch = order.epoch
           /\ orders'[nOrders + 1].price = order.price
           /\ orders'[nOrders + 1].profit = order.profit
<1>1. nOrders + 1 \in Oid /\ nOrders' = nOrders + 1
  BY DEF Submit
<1>2. CASE Paper
  <2> DEFINE new == [order EXCEPT !.exec = "filled", !.fill = price]
  <2>1. /\ new.side = order.side /\ new.epoch = order.epoch
        /\ new.price = order.price /\ new.profit = order.profit
    BY DEF Orders
  <2>2. orders' = [orders EXCEPT ![nOrders + 1] = new]
    BY <1>2 DEF Submit
  <2> HIDE DEF new
  <2> QED BY <1>1, <2>1, <2>2 DEF Typed, TypeOK
<1>3. CASE ~Paper
  <2> DEFINE new == [order EXCEPT !.exec = "sent"]
  <2>1. /\ new.side = order.side /\ new.epoch = order.epoch
        /\ new.price = order.price /\ new.profit = order.profit
    BY DEF Orders
  <2>2. orders' = [orders EXCEPT ![nOrders + 1] = new]
    BY <1>3 DEF Submit
  <2> HIDE DEF new
  <2> QED BY <1>1, <2>1, <2>2 DEF Typed, TypeOK
<1> QED BY <1>2, <1>3, <1>1

LEMMA SellIssued ==
    ASSUME Typed, PollSell
    PROVE  /\ nOrders' = nOrders + 1 /\ reserved' = reserved
           /\ orders'[nOrders + 1].side = "SELL" /\ orders'[nOrders + 1].epoch = Working
           /\ orders'[nOrders + 1].price = price /\ orders'[nOrders + 1].profit = Profit
<1>1. Working \in Copies /\ price \in Nat /\ Profit \in Int
  <2>1. MayPoll
    BY DEF PollSell
  <2> QED BY <2>1, EpochAtHand, Constants DEF Typed, TypeOK, Profit, Copies
<1> DEFINE order == [NoOrder EXCEPT !.side = "SELL", !.epoch = Working,
                                    !.price = price, !.profit = Profit]
<1>2. /\ order \in Orders /\ order.side = "SELL" /\ order.epoch = Working
      /\ order.price = price /\ order.profit = Profit
  BY <1>1, Defaults DEF Orders
<1>3. Submit(order) /\ reserved' = reserved
  BY DEF PollSell
<1> HIDE DEF order
<1> QED BY <1>2, <1>3, Submitted

LEMMA BuyIssued ==
    ASSUME Typed, PollBuy
    PROVE  /\ nOrders' = nOrders + 1 /\ reserved' = reserved + BuyVolume
           /\ orders'[nOrders + 1].side = "BUY" /\ orders'[nOrders + 1].epoch = Working
<1>1. Working \in Copies /\ price \in Nat
  <2>1. MayPoll
    BY DEF PollBuy, MayEnter
  <2> QED BY <2>1, EpochAtHand, Constants DEF Typed, TypeOK
<1>2. PICK lucky \in BOOLEAN :
        Submit([NoOrder EXCEPT !.side = "BUY", !.epoch = Working,
                               !.price = price, !.lucky = lucky])
  BY DEF PollBuy
<1> DEFINE order == [NoOrder EXCEPT !.side = "BUY", !.epoch = Working,
                                    !.price = price, !.lucky = lucky]
<1>3. order \in Orders /\ order.side = "BUY" /\ order.epoch = Working
  BY <1>1, Defaults DEF Orders
<1>4. Submit(order) /\ reserved' = reserved + BuyVolume
  BY <1>2 DEF PollBuy
<1> HIDE DEF order
<1> QED BY <1>3, <1>4, Submitted

\* A poll that issues nothing at most reserves, and only within the ceiling.
WithinBudget ==
    \/ reserved' = reserved
    \/ reserved' = reserved + BuyVolume /\ BudgetLeft

LEMMA NothingIssued ==
    Poll => \/ PollSell
            \/ PollBuy
            \/ UNCHANGED <<orders, nOrders>> /\ WithinBudget
BY DEF Poll, PollHold, PollSellBlocked, PollBudgetRejected, PollReservedOnly,
       PollBuyBlocked, MayEnter, WithinBudget

LEMMA BuysCoveredStep == Typed /\ BuysCovered /\ [Next]_vars => BuysCovered'
<1> SUFFICES ASSUME Typed, BuysCovered, [Next]_vars PROVE BuysCovered' OBVIOUS
<1> DEFINE c == Cardinality(BuyOrders)
<1>1. /\ c \in Nat /\ IsFiniteSet(BuyOrders) /\ BuyVolume \in Nat
      /\ reserved \in Nat /\ SpendCeiling \in Nat /\ nOrders \in Nat
  BY BuyOrdersFinite, Constants, ConfigAssumption DEF Typed, TypeOK, ConfigAssumption
<1>2. BuyVolume * c <= reserved /\ reserved <= SpendCeiling
  BY DEF BuysCovered
<1>3. CASE BuyOrders' \subseteq BuyOrders /\ WithinBudget
  <2>1. Cardinality(BuyOrders') \in Nat /\ Cardinality(BuyOrders') <= c
    BY <1>1, <1>3, FS_Subset, FS_CardinalityType
  <2>2. BuyVolume * Cardinality(BuyOrders') <= BuyVolume * c
    BY <1>1, <2>1, SMT
  <2>3. /\ BuyVolume * Cardinality(BuyOrders') \in Nat /\ BuyVolume * c \in Nat
    BY <1>1, <2>1, SMT
  <2>4. reserved' \in Nat /\ reserved <= reserved' /\ reserved' <= SpendCeiling
    BY <1>1, <1>2, <1>3 DEF BudgetLeft, WithinBudget
  <2>5. BuyVolume * Cardinality(BuyOrders') <= reserved'
    <3> HIDE DEF c
    <3> QED BY <1>1, <1>2, <2>2, <2>3, <2>4
  <2> QED BY <2>4, <2>5 DEF BuysCovered
<1>4. CASE UNCHANGED <<nOrders, reserved>>
  <2>1. BuyOrders' \subseteq BuyOrders
    BY <1>4, StepsKeep DEF OrdersKeep, BuyOrders
  <2> QED BY <1>3, <1>4, <2>1 DEF WithinBudget
<1>5. CASE PollSell
  <2>1. BuyOrders' \subseteq BuyOrders
    BY <1>1, <1>5, SellIssued, StepsKeep DEF OrdersKeep, BuyOrders
  <2> QED BY <1>3, <1>5, <2>1, SellIssued DEF WithinBudget
<1>6. CASE PollBuy
  <2> DEFINE bigger == BuyOrders \cup {nOrders + 1}
  <2>1. BuyOrders' \subseteq bigger
    BY <1>1, <1>6, BuyIssued, StepsKeep DEF OrdersKeep, BuyOrders
  <2>2. nOrders + 1 \notin BuyOrders
    BY <1>1 DEF BuyOrders
  <2>3. IsFiniteSet(bigger) /\ Cardinality(bigger) = c + 1
    BY <1>1, <2>2, FS_AddElement
  <2>4. Cardinality(BuyOrders') \in Nat /\ Cardinality(BuyOrders') <= c + 1
    <3> HIDE DEF bigger
    <3> QED BY <2>1, <2>3, FS_Subset, FS_CardinalityType
  <2>5. BuyVolume * Cardinality(BuyOrders') <= BuyVolume * c + BuyVolume
    BY <1>1, <2>4, SMT
  <2>6. /\ BuyVolume * Cardinality(BuyOrders') \in Nat /\ BuyVolume * c \in Nat
    BY <1>1, <2>4, SMT
  <2>7. reserved' = reserved + BuyVolume /\ reserved + BuyVolume <= SpendCeiling
    BY <1>6, BuyIssued DEF PollBuy, BudgetLeft
  <2> HIDE DEF c
  <2> QED BY <1>1, <1>2, <2>5, <2>6, <2>7 DEF BuysCovered
<1>7. CASE UNCHANGED <<orders, nOrders>> /\ WithinBudget
  BY <1>3, <1>7 DEF BuyOrders
<1> QED BY <1>4, <1>5, <1>6, <1>7, OnlyPollsIssue, NothingIssued

\* The money sent to the exchange never exceeds what the budget guard reserved
\* for the bot, nor the reservations their ceiling, for any number of orders
\* and any interleaving of polls, reports, restarts and failed calls.
THEOREM BuysAlwaysCovered == Spec => []BuysCovered
<1>1. Init => BuysCovered
  <2> SUFFICES ASSUME Init PROVE BuysCovered OBVIOUS
  <2>1. BuyOrders = {}
    BY DEF Init, BuyOrders
  <2>2. Cardinality(BuyOrders) = 0
    BY <2>1, FS_EmptySet
  <2> QED BY <2>2, Constants, ConfigAssumption DEF Init, BuysCovered, ConfigAssumption
<1> QED BY <1>1, BuysCoveredStep, TypedAlways, PTL DEF Spec

-----------------------------------------------------------------------------
(* The statistics never claim more purchases than the ledger has *)

\* The rows of ps that belong to epoch e, and how many they are.
RowsIn(ps, e) == {i \in 1 .. Len(ps) : ps[i].epoch = e}
Count(ps, e) == Cardinality(RowsIn(ps, e))

\* A copy of an epoch claims no more purchases than the rows ps show.
BackedBy(c, ps) == c.num <= Count(ps, c.id)

\* The strengthening: not only the rows but every copy of them that a handler
\* or a poll will write from is backed by the ledger.
StatsInv ==
    /\ StatsNeverOverstate
    /\ active # NoEpoch => BackedBy(active, purchases)
    /\ \A o \in 1 .. nOrders : BackedBy(orders[o].epoch, purchases)

LEMMA CountType ==
    ASSUME NEW ps \in Seq(Buys), NEW e
    PROVE  IsFiniteSet(RowsIn(ps, e)) /\ Count(ps, e) \in Nat
<1>1. IsFiniteSet(1 .. Len(ps))
  BY FS_Interval
<1>2. RowsIn(ps, e) \in SUBSET (1 .. Len(ps))
  BY DEF RowsIn
<1>3. IsFiniteSet(RowsIn(ps, e))
  BY <1>1, <1>2, FS_Subset
<1> QED BY <1>3, FS_CardinalityType DEF Count

\* add_purchase adds one row to its epoch and none to any other.
LEMMA RowsAppend ==
    ASSUME NEW ps \in Seq(Buys), NEW row \in Buys, NEW e
    PROVE  /\ RowsIn(Append(ps, row), e) =
                IF row.epoch = e THEN RowsIn(ps, e) \cup {Len(ps) + 1} ELSE RowsIn(ps, e)
           /\ Len(ps) + 1 \notin RowsIn(ps, e)
           /\ Append(ps, row)[Len(ps) + 1] = row
           /\ \A i \in RowsIn(ps, e) : Append(ps, row)[i] = ps[i] /\ ps[i] \in Buys
<1> DEFINE qs == Append(ps, row)
           n == Len(ps) + 1
<1>1. /\ Len(ps) \in Nat /\ Len(qs) = n /\ qs[n] = row
      /\ \A i \in 1 .. Len(ps) : qs[i] = ps[i] /\ ps[i] \in Buys
  OBVIOUS
<1>2. 1 .. n = (1 .. Len(ps)) \cup {n} /\ n \notin 1 .. Len(ps)
  BY <1>1
<1> HIDE DEF n, qs
<1>3. RowsIn(qs, e) = IF row.epoch = e THEN RowsIn(ps, e) \cup {n} ELSE RowsIn(ps, e)
  BY <1>1, <1>2 DEF RowsIn
<1>4. n \notin RowsIn(ps, e) /\ \A i \in RowsIn(ps, e) : qs[i] = ps[i] /\ ps[i] \in Buys
  BY <1>1, <1>2 DEF RowsIn
<1> QED BY <1>1, <1>3, <1>4 DEF n, qs

LEMMA CountAppend ==
    ASSUME NEW ps \in Seq(Buys), NEW row \in Buys, NEW e
    PROVE  Count(Append(ps, row), e) =
             IF row.epoch = e THEN Count(ps, e) + 1 ELSE Count(ps, e)
<1>1. Cardinality(RowsIn(ps, e) \cup {Len(ps) + 1}) = Cardinality(RowsIn(ps, e)) + 1
  <2> DEFINE S == RowsIn(ps, e)
             n == Len(ps) + 1
  <2>1. IsFiniteSet(S) /\ n \notin S
    BY CountType, RowsAppend
  <2>2. Cardinality(S \cup {n}) = Cardinality(S) + 1
    <3> HIDE DEF S, n
    <3> QED BY <2>1, FS_AddElement
  <2> QED BY <2>2
<1>2. row.epoch = e => RowsIn(Append(ps, row), e) = RowsIn(ps, e) \cup {Len(ps) + 1}
  BY RowsAppend
<1>3. row.epoch # e => RowsIn(Append(ps, row), e) = RowsIn(ps, e)
  BY RowsAppend
<1> QED BY <1>1, <1>2, <1>3 DEF Count

LEMMA CountGrows ==
    ASSUME Typed, [Next]_vars, NEW e
    PROVE  /\ Count(purchases, e) \in Nat /\ Count(purchases', e) \in Nat
           /\ Count(purchases, e) <= Count(purchases', e)
<1>1. purchases \in Seq(Buys)
  BY DEF Typed, TypeOK
<1>2. Count(purchases, e) \in Nat
  BY <1>1, CountType
<1>3. ASSUME NEW o \in Oid, FillRecorded(o) PROVE Count(purchases', e) \in Nat
                                        /\ Count(purchases, e) <= Count(purchases', e)
  <2>1. PurchaseRow(o) \in Buys /\ purchases' = Append(purchases, PurchaseRow(o))
    BY <1>3, TypedFill DEF FillRecorded
  <2>2. Count(purchases', e) = Count(purchases, e) + 1
        \/ Count(purchases', e) = Count(purchases, e)
    BY <1>1, <2>1, CountAppend
  <2> QED BY <1>2, <2>2
<1> QED BY <1>2, <1>3, StepsKeep

\* get_active_epoch of backed rows is backed.
LEMMA ActiveBacked ==
    ASSUME NEW rows \in [EpochId -> Rows], NEW ps,
           \A e \in EpochId : rows[e].num <= Count(ps, e)
    PROVE  GetActiveEpoch(rows) # NoEpoch => BackedBy(GetActiveEpoch(rows), ps)
<1> SUFFICES ASSUME GetActiveEpoch(rows) # NoEpoch
             PROVE  BackedBy(GetActiveEpoch(rows), ps)
  OBVIOUS
<1> DEFINE c == GetActiveEpoch(rows)
<1>1. c.id \in EpochId /\ c = CopyOf(rows, c.id)
  BY GetActive DEF Running
<1>2. c.num = rows[c.id].num
  <2> HIDE DEF c
  <2> QED BY <1>1 DEF CopyOf
<1> HIDE DEF c
<1>3. BackedBy(c, ps)
  BY <1>1, <1>2 DEF BackedBy
<1> QED BY <1>3 DEF c

\* Copies of the issued orders stay backed: they never change, the ledger grows.
LEMMA OrderCopiesBacked ==
    ASSUME Typed, StatsInv, [Next]_vars, NEW o \in 1 .. nOrders
    PROVE  BackedBy(orders'[o].epoch, purchases')
<1>1. orders'[o].epoch = orders[o].epoch /\ BackedBy(orders[o].epoch, purchases)
  BY StepsKeep DEF OrdersKeep, StatsInv
<1>2. o \in Oid
  BY Constants DEF Typed, TypeOK, Oid
<1>3. orders[o].epoch.num \in Nat
  BY <1>2 DEF Typed, TypeOK, Orders, Copies
<1>4. Count(purchases, orders[o].epoch.id) <= Count(purchases', orders[o].epoch.id)
      /\ Count(purchases, orders[o].epoch.id) \in Nat
      /\ Count(purchases', orders[o].epoch.id) \in Nat
  BY CountGrows
<1> QED BY <1>1, <1>3, <1>4 DEF BackedBy

LEMMA RowsBacked ==
    ASSUME Typed, StatsInv, [Next]_vars, NEW e \in EpochId
    PROVE  /\ epochs[e].num \in Nat
           /\ epochs[e].num <= Count(purchases, e) /\ epochs[e].num <= Count(purchases', e)
<1>1. epochs[e].num \in Nat
  BY DEF Typed, TypeOK, Rows
<1>2. epochs[e].num <= Count(purchases, e)
  BY DEF StatsInv, StatsNeverOverstate, Count, RowsIn, RowsOf
<1> QED BY <1>1, <1>2, CountGrows

\* A copy stays backed whatever the step, the ledger only grows.
LEMMA CopyStaysBacked ==
    ASSUME Typed, [Next]_vars, NEW c \in Copies, BackedBy(c, purchases)
    PROVE  BackedBy(c, purchases')
<1>1. c.num \in Nat
  BY DEF Copies
<1>2. /\ Count(purchases, c.id) \in Nat /\ Count(purchases', c.id) \in Nat
      /\ Count(purchases, c.id) <= Count(purchases', c.id)
  BY CountGrows
<1> QED BY <1>1, <1>2 DEF BackedBy

\* What is left to show of a step: the rows it writes, the runner's copy, and
\* the copy a new order takes.
LEMMA StatsFrom ==
    ASSUME Typed, StatsInv, [Next]_vars,
           \A e \in EpochId : epochs'[e].num <= Count(purchases', e),
           active' # NoEpoch => BackedBy(active', purchases'),
           \/ nOrders' = nOrders
           \/ nOrders' = nOrders + 1 /\ BackedBy(orders'[nOrders + 1].epoch, purchases')
    PROVE  StatsInv'
<1>1. StatsNeverOverstate'
  BY DEF StatsNeverOverstate, Count, RowsIn, RowsOf
<1>2. nOrders \in Nat
  BY Constants DEF Typed, TypeOK
<1>3. \A o \in 1 .. nOrders' : BackedBy(orders'[o].epoch, purchases')
  BY <1>2, OrderCopiesBacked
<1> QED BY <1>1, <1>3 DEF StatsInv, BackedBy, Count

LEMMA WorkingBacked ==
    ASSUME Typed, StatsInv, [Next]_vars, MayPoll
    PROVE  /\ \A e \in EpochId : OpenedRows[e].num <= Count(purchases, e)
           /\ BackedBy(Working, purchases)
<1>1. ASSUME NEW e \in EpochId PROVE OpenedRows[e].num <= Count(purchases, e)
  <2>1. epochs[e].num <= Count(purchases, e) /\ Count(purchases, e) \in Nat
    BY RowsBacked, CountGrows
  <2>2. OpenedRows[e].num \in {0, epochs[e].num}
    <3> DEFINE new == [NoRow EXCEPT !.status = "RUNNING"]
    <3>1. new.num = 0
      BY DEF NoRow
    <3>2. OpenedRows = epochs \/ OpenedRows = [epochs EXCEPT ![nEpochs + 1] = new]
      BY DEF OpenedRows
    <3> HIDE DEF new
    <3> QED BY <3>1, <3>2 DEF Typed, TypeOK
  <2> QED BY <2>1, <2>2
<1>2. OpenedRows \in [EpochId -> Rows] /\ Working.id \in EpochId
  BY EpochAtHand DEF Typed
<1>3. Working # NoEpoch
  BY <1>2 DEF NoEpoch, EpochId
<1>4. CASE NeedsEpoch
  <2>1. Working = GetActiveEpoch(OpenedRows)
    BY <1>4 DEF Working
  <2>2. GetActiveEpoch(OpenedRows) # NoEpoch => BackedBy(GetActiveEpoch(OpenedRows), purchases)
    BY <1>1, <1>2, ActiveBacked
  <2> QED BY <1>1, <1>3, <2>1, <2>2
<1>5. CASE ~NeedsEpoch
  <2>1. Working = active /\ active # NoEpoch
    BY <1>5 DEF Working, NeedsEpoch
  <2>2. BackedBy(active, purchases)
    BY <2>1 DEF StatsInv
  <2> QED BY <1>1, <2>1, <2>2
<1> QED BY <1>1, <1>4, <1>5

LEMMA StatsPoll == Typed /\ StatsInv /\ Poll => StatsInv'
<1> SUFFICES ASSUME Typed, StatsInv, Poll PROVE StatsInv' OBVIOUS
<1>1. MayPoll /\ OpenEpoch
  BY DEF Poll, PollHold, PollSell, PollSellBlocked, PollBudgetRejected,
         PollReservedOnly, PollBuyBlocked, PollBuy, MayEnter
<1>2. [Next]_vars /\ purchases' = purchases
  BY KeepsInPoll DEF Next
<1>3. /\ epochs' = OpenedRows /\ active' = Working
      /\ \A e \in EpochId : epochs'[e].num <= Count(purchases', e)
      /\ BackedBy(active', purchases')
  BY <1>1, <1>2, WorkingBacked DEF OpenEpoch
<1>4. \/ nOrders' = nOrders
      \/ nOrders' = nOrders + 1 /\ orders'[nOrders + 1].epoch = Working
  BY NothingIssued, SellIssued, BuyIssued
<1> QED BY <1>2, <1>3, <1>4, StatsFrom

\* A fill writes its copy's count plus one, and its row is the one more.
LEMMA StatsFill ==
    ASSUME Typed, StatsInv, [Next]_vars, NEW o \in Oid, FillRecorded(o)
    PROVE  UpdatedRow(o).num <= Count(purchases', orders[o].epoch.id)
<1>1. /\ PurchaseRow(o) \in Buys /\ UpdatedRow(o) \in Rows
      /\ orders[o].epoch.id \in EpochId /\ orders[o].epoch \in Copies
  BY TypedFill DEF FillRecorded
<1>2. purchases \in Seq(Buys) /\ purchases' = Append(purchases, PurchaseRow(o))
  BY DEF Typed, TypeOK, FillRecorded
<1>3. PurchaseRow(o).epoch = orders[o].epoch.id
  BY DEF PurchaseRow
<1> DEFINE c == orders[o].epoch
<1>4. Count(purchases', c.id) = Count(purchases, c.id) + 1 /\ Count(purchases, c.id) \in Nat
  BY <1>1, <1>2, <1>3, CountAppend, CountType
<1>5. o \in 1 .. nOrders
  BY DEF FillRecorded, Typed, Shape, KeyShape
<1>6. c.num <= Count(purchases, c.id) /\ c.num \in Nat
  BY <1>1, <1>5 DEF StatsInv, BackedBy, Copies
<1>7. UpdatedRow(o).num = c.num + 1
  <2>1. epochs[c.id] \in Rows
    BY <1>1 DEF Typed, TypeOK
  <2> QED BY <2>1 DEF UpdatedRow, Rows
<1> HIDE DEF c
<1>8. UpdatedRow(o).num <= Count(purchases', c.id)
  BY <1>4, <1>6, <1>7
<1> QED BY <1>8 DEF c

LEMMA StatsReports == Typed /\ StatsInv /\ ReportSteps => StatsInv'
<1> SUFFICES ASSUME Typed, StatsInv, ReportSteps PROVE StatsInv' OBVIOUS
<1>0. [Next]_vars
  BY DEF Next
<1>1. ASSUME NEW o \in Oid, OnBuyFilled(o) PROVE StatsInv'
  <2>1. /\ epochs' = [epochs EXCEPT ![orders[o].epoch.id] = UpdatedRow(o)]
        /\ active' = AfterBuy(o, epochs') /\ nOrders' = nOrders
        /\ FillRecorded(o)
    BY <1>1 DEF OnBuyFilled, FillRecorded, Handled
  <2>2. UpdatedRow(o) \in Rows /\ orders[o].epoch.id \in EpochId
    BY <2>1, TypedFill DEF FillRecorded
  <2>3. epochs' \in [EpochId -> Rows]
    BY <2>1, <2>2 DEF Typed, TypeOK
  <2>4. ASSUME NEW e \in EpochId PROVE epochs'[e].num <= Count(purchases', e)
    <3>1. CASE e = orders[o].epoch.id
      BY <1>0, <2>1, <2>2, <3>1, StatsFill DEF Typed, TypeOK
    <3>2. CASE e # orders[o].epoch.id
      BY <1>0, <2>1, <3>2, RowsBacked DEF Typed, TypeOK
    <3> QED BY <3>1, <3>2
  <2>5. active' # NoEpoch => BackedBy(active', purchases')
    <3>1. CASE o \in pending
      BY <2>1, <2>3, <2>4, <3>1, ActiveBacked DEF AfterBuy
    <3>2. CASE o \notin pending
      BY <1>0, <2>1, <3>2, CopyStaysBacked DEF AfterBuy, StatsInv, Typed, TypeOK
    <3> QED BY <3>1, <3>2
  <2> QED BY <1>0, <2>1, <2>4, <2>5, StatsFrom
<1>2. ASSUME NEW o \in Oid, OnSellFilled(o) PROVE StatsInv'
  <2> DEFINE i == orders[o].epoch.id
             row == [epochs[i] EXCEPT !.status = "CLOSED", !.profit = orders[o].profit]
  <2>1. /\ epochs' = [epochs EXCEPT ![i] = row]
        /\ active' = AfterSell(o) /\ nOrders' = nOrders
    BY <1>2 DEF OnSellFilled
  <2>2. i \in EpochId => row.num = epochs[i].num
    BY DEF Typed, TypeOK, Rows
  <2> HIDE DEF row, i
  <2>3. ASSUME NEW e \in EpochId PROVE epochs'[e].num <= Count(purchases', e)
    <3>1. epochs'[e].num = epochs[e].num
      BY <2>1, <2>2 DEF Typed, TypeOK
    <3> QED BY <1>0, <3>1, RowsBacked
  <2>4. active' # NoEpoch => BackedBy(active', purchases')
    BY <1>0, <2>1, CopyStaysBacked DEF AfterSell, StatsInv, Typed, TypeOK
  <2> QED BY <1>0, <2>1, <2>3, <2>4, StatsFrom
<1>3. ASSUME ReportGone PROVE StatsInv'
  BY <1>3 DEF ReportGone, db, memory, StatsInv, StatsNeverOverstate, RowsOf
<1> QED BY <1>1, <1>2, <1>3 DEF ReportSteps

LEMMA StatsLifecycle == Typed /\ StatsInv /\ Lifecycle => StatsInv'
<1> SUFFICES ASSUME Typed, StatsInv, Lifecycle PROVE StatsInv' OBVIOUS
<1>0. [Next]_vars
  BY DEF Next
<1>1. epochs' = epochs /\ nOrders' = nOrders
  BY DEF Lifecycle, Launch, Crash, Stop, CrashInFill, db
<1>2. \A e \in EpochId : epochs'[e].num <= Count(purchases', e)
  BY <1>0, <1>1, RowsBacked
<1>3. active' # NoEpoch => BackedBy(active', purchases')
  <2>1. active' = NoEpoch \/ active' = GetActiveEpoch(epochs)
    BY DEF Lifecycle, Launch, Crash, Stop, CrashInFill, ForgetMemory
  <2> QED BY <1>1, <1>2, <2>1, ActiveBacked DEF Typed, TypeOK
<1> QED BY <1>0, <1>1, <1>2, <1>3, StatsFrom

LEMMA StatsElsewhere == Typed /\ StatsInv /\ (Feeds \/ Exchange) => StatsInv'
<1> SUFFICES ASSUME Typed, StatsInv, Feeds \/ Exchange PROVE StatsInv' OBVIOUS
<1>0. [Next]_vars
  BY DEF Next
<1>1. UNCHANGED <<epochs, active, purchases, nOrders>>
  <2>1. CASE Feeds
    BY <2>1 DEF Feeds, OnTicker, PriceGoesStale, OnBalances, CooldownEnds, db
  <2>2. CASE Exchange
    BY <2>2 DEF Exchange, ExchangeFills, ExchangeExpires, CallReturns, CallRaises, db, memory
  <2> QED BY <2>1, <2>2
<1>2. \A e \in EpochId : epochs'[e].num <= Count(purchases', e)
  BY <1>0, <1>1, RowsBacked
<1>3. active' # NoEpoch => BackedBy(active', purchases')
  BY <1>1 DEF StatsInv
<1> QED BY <1>0, <1>1, <1>2, <1>3, StatsFrom

\* No epoch ever claims a purchase that louise_purchases does not hold, for any
\* number of orders and epochs and with fills that overwrite each other's
\* update, late copies and crashes between the two commits of a fill.
THEOREM StatsBackedByLedger == Spec => []StatsNeverOverstate
<1>1. Init => StatsInv
  <2> SUFFICES ASSUME Init PROVE StatsInv OBVIOUS
  <2>1. ASSUME NEW e \in EpochId PROVE epochs[e].num <= Cardinality(RowsOf(e))
    <3>1. epochs[e].num = 0
      BY DEF Init, NoRow
    <3>2. RowsOf(e) = {}
      BY DEF Init, RowsOf
    <3> QED BY <3>1, <3>2, FS_EmptySet
  <2>2. nOrders = 0 /\ active = NoEpoch
    BY DEF Init
  <2> QED BY <2>1, <2>2 DEF StatsInv, StatsNeverOverstate
<1>2. Typed /\ StatsInv /\ [Next]_vars => StatsInv'
  <2>1. UNCHANGED vars /\ StatsInv => StatsInv'
    BY DEF vars, db, memory, StatsInv, StatsNeverOverstate, RowsOf
  <2> QED BY <2>1, StatsPoll, StatsReports, StatsLifecycle, StatsElsewhere DEF Next
<1>3. StatsInv => StatsNeverOverstate
  BY DEF StatsInv
<1> QED BY <1>1, <1>2, <1>3, TypedAlways, PTL DEF Spec

-----------------------------------------------------------------------------
(* One running epoch, and closed ones are final, when reports are prompt *)

\* An order that may still reach the handlers: on its way to the exchange, or
\* with a report in transit.
Live(o) == orders[o].exec = "sent" \/ \E r \in reports : r.oid = o

\* The strengthening: only the newest order is live and only the newest epoch
\* runs; the runner decides on that row; what a handler may still write to runs;
\* and no runner works beside a live order of a stopped one.
EpochInv ==
    /\ \A o \in Oid : Live(o) => o = nOrders
    /\ Running(epochs) \subseteq {nEpochs}
    /\ looping => active = GetActiveEpoch(epochs)
    /\ looping => \A o \in stale : ~Live(o)
    /\ \A o \in pending \cup stale :
         Live(o) => epochs[orders[o].epoch.id].status = "RUNNING"

LEMMA EpochInit == Init => EpochInv
<1> SUFFICES ASSUME Init PROVE EpochInv OBVIOUS
<1>1. \A o \in Oid : ~Live(o)
  BY DEF Init, Live, NoOrder
<1>2. Running(epochs) = {}
  BY DEF Init, Running, NoRow
<1> QED BY <1>1, <1>2 DEF Init, EpochInv

\* What is enough for a step that leaves the epochs alone: nothing becomes live
\* and no key appears, and a runner that works afterwards either worked before
\* or starts when nothing is live.
LEMMA EpochFrame ==
    ASSUME Typed, EpochInv,
           UNCHANGED <<epochs, nEpochs, nOrders>>,
           \A o \in Oid : Live(o)' => Live(o),
           \A o \in Oid : orders'[o].epoch = orders[o].epoch,
           pending' \cup stale' \subseteq pending \cup stale,
           looping' => \/ looping /\ active' = active /\ stale' \subseteq stale
                       \/ active' = GetActiveEpoch(epochs) /\ \A o \in Oid : ~Live(o)
    PROVE  EpochInv'
<1>1. pending \cup stale \subseteq Oid
  BY DEF Typed, TypeOK
<1>2. (\A o \in Oid : Live(o) => o = nOrders)'
  BY DEF EpochInv
<1>3. (Running(epochs) \subseteq {nEpochs})'
  BY DEF EpochInv, Running
<1>4. (looping => active = GetActiveEpoch(epochs))'
  BY DEF EpochInv
<1>5. (looping => \A o \in stale : ~Live(o))'
  <2> SUFFICES ASSUME looping', NEW o \in stale' PROVE ~Live(o)'
    OBVIOUS
  <2>1. o \in Oid
    BY <1>1
  <2> QED BY <2>1 DEF EpochInv
<1>6. ASSUME NEW o \in pending' \cup stale', Live(o)'
      PROVE  epochs'[orders'[o].epoch.id].status = "RUNNING"
  <2>1. o \in Oid /\ o \in pending \cup stale
    BY <1>1, <1>6
  <2>2. Live(o) /\ orders'[o].epoch = orders[o].epoch
    BY <1>6, <2>1
  <2> QED BY <2>1, <2>2 DEF EpochInv
<1> QED BY <1>2, <1>3, <1>4, <1>5, <1>6 DEF EpochInv

LEMMA EpochFeeds == Typed /\ EpochInv /\ Feeds => EpochInv'
<1> SUFFICES ASSUME Typed, EpochInv, Feeds PROVE EpochInv' OBVIOUS
<1>1. UNCHANGED <<epochs, nEpochs, nOrders, orders, reports, pending, stale, looping, active>>
  BY DEF Feeds, OnTicker, PriceGoesStale, OnBalances, CooldownEnds, db
<1>2. \A o \in Oid : Live(o)' => Live(o)
  BY <1>1 DEF Live
<1> QED BY <1>1, <1>2, EpochFrame

\* An order the exchange or the call settles was on its way.
LEMMA EpochSettles ==
    ASSUME Typed, EpochInv, NEW o \in Oid, NEW x, x # "sent",
           orders[o].exec = "sent",
           orders'[o].exec = x, orders'[o].epoch = orders[o].epoch,
           \A q \in Oid \ {o} : orders'[q] = orders[q],
           \A r \in reports' : r \in reports \/ r.oid = o,
           UNCHANGED <<epochs, nEpochs, nOrders, pending, stale, looping, active>>
    PROVE  EpochInv'
<1>1. Live(o)
  BY DEF Live
<1>2. \A q \in Oid \ {o} : Live(q)' => Live(q)
  BY DEF Live
<1> QED BY <1>1, <1>2, EpochFrame

LEMMA EpochExchange == Typed /\ EpochInv /\ Exchange => EpochInv'
<1> SUFFICES ASSUME Typed, EpochInv, Exchange PROVE EpochInv' OBVIOUS
<1>0. UNCHANGED <<epochs, nEpochs, nOrders, pending, stale, looping, active>>
  BY DEF Exchange, ExchangeFills, ExchangeExpires, CallReturns, CallRaises, db, memory
<1>1. ASSUME NEW o \in Oid, ExchangeFills(o) PROVE EpochInv'
  <2>1. PICK p : orders' = [orders EXCEPT ![o].exec = "filled", ![o].fill = p]
    BY <1>1 DEF ExchangeFills
  <2> DEFINE new == [orders[o] EXCEPT !.exec = "filled", !.fill = p]
  <2>2. orders' = [orders EXCEPT ![o] = new]
    BY <2>1
  <2>3. new.exec = "filled" /\ new.epoch = orders[o].epoch
    BY DEF Typed, TypeOK, Orders
  <2> HIDE DEF new
  <2>4. orders'[o] = new /\ \A q \in Oid \ {o} : orders'[q] = orders[q]
    BY <2>2 DEF Typed, TypeOK
  <2>5. orders[o].exec = "sent" /\ reports' = reports \cup {[oid |-> o, X |-> "FILLED"]}
    BY <1>1 DEF ExchangeFills
  <2>6. \A r \in reports' : r \in reports \/ r.oid = o
    BY <2>5
  <2> QED BY <1>0, <2>3, <2>4, <2>5, <2>6, EpochSettles
<1>2. ASSUME NEW o \in Oid, NEW x, x # "sent", orders[o].exec = "sent",
             orders' = [orders EXCEPT ![o].exec = x],
             \A r \in reports' : r \in reports \/ r.oid = o
      PROVE  EpochInv'
  <2> DEFINE new == [orders[o] EXCEPT !.exec = x]
  <2>1. orders' = [orders EXCEPT ![o] = new]
    BY <1>2
  <2>2. new.exec = x /\ new.epoch = orders[o].epoch
    BY DEF Typed, TypeOK, Orders
  <2> HIDE DEF new
  <2>3. orders'[o] = new /\ \A q \in Oid \ {o} : orders'[q] = orders[q]
    BY <2>1 DEF Typed, TypeOK
  <2> QED BY <1>0, <1>2, <2>2, <2>3, EpochSettles
<1>3. ASSUME NEW o \in Oid, ExchangeExpires(o) PROVE EpochInv'
  <2>1. \A r \in reports' : r \in reports \/ r.oid = o
    BY <1>3 DEF ExchangeExpires
  <2> QED BY <1>2, <1>3, <2>1 DEF ExchangeExpires
<1>4. ASSUME UNCHANGED <<orders, reports>> PROVE EpochInv'
  <2>1. \A o \in Oid : Live(o)' => Live(o)
    BY <1>4 DEF Live
  <2> QED BY <1>0, <1>4, <2>1, EpochFrame
<1>5. ASSUME CallRaises PROVE EpochInv'
  <2>1. awaiting \in Oid /\ reports' = reports
    BY <1>5, Constants DEF CallRaises, Typed, TypeOK, Oid
  <2> QED BY <1>2, <1>4, <1>5, <2>1 DEF CallRaises
<1>6. ASSUME CallReturns PROVE EpochInv'
  BY <1>4, <1>6 DEF CallReturns
<1> QED BY <1>1, <1>3, <1>5, <1>6 DEF Exchange

\* "Check if we need to create an epoch" leaves one running row: the one the
\* runner works on, as the database has it.
LEMMA EpochOpened ==
    ASSUME Typed, EpochInv, MayPoll
    PROVE  /\ Running(OpenedRows) \subseteq {IF NeedsEpoch THEN nEpochs + 1 ELSE nEpochs}
           /\ Working = GetActiveEpoch(OpenedRows)
           /\ OpenedRows[Working.id].status = "RUNNING"
<1>1. OpenedRows \in [EpochId -> Rows] /\ epochs \in [EpochId -> Rows]
  BY EpochAtHand DEF Typed, TypeOK
<1>2. active = GetActiveEpoch(epochs) /\ Running(epochs) \subseteq {nEpochs}
  BY DEF EpochInv, MayPoll
<1>3. CASE NeedsEpoch
  <2>1. Running(epochs) = {}
    <3>1. active = NoEpoch
      BY <1>3 DEF NeedsEpoch
    <3>2. GetActiveEpoch(epochs).id \notin EpochId
      BY <1>2, <3>1 DEF NoEpoch, EpochId
    <3> QED BY <1>1, <3>2, GetActive DEF Running
  <2>2. nEpochs + 1 \in EpochId
    BY <1>3, Constants DEF MayPoll, Typed, TypeOK, EpochId
  <2> DEFINE new == [NoRow EXCEPT !.status = "RUNNING"]
  <2>3. new.status = "RUNNING"
    BY DEF NoRow
  <2>4. OpenedRows = [epochs EXCEPT ![nEpochs + 1] = new]
    BY <1>3 DEF OpenedRows
  <2> HIDE DEF new
  <2>5. /\ OpenedRows[nEpochs + 1].status = "RUNNING"
        /\ \A e \in EpochId \ {nEpochs + 1} : OpenedRows[e] = epochs[e]
    BY <1>1, <2>2, <2>3, <2>4
  <2>6. Running(OpenedRows) = {nEpochs + 1}
    BY <2>1, <2>2, <2>5 DEF Running
  <2>7. Working = GetActiveEpoch(OpenedRows)
    BY <1>3 DEF Working
  <2>8. Working.id \in Running(OpenedRows)
    BY <1>1, <2>6, <2>7, GetActive
  <2> QED BY <1>3, <2>6, <2>7, <2>8 DEF Running
<1>4. CASE ~NeedsEpoch
  <2>1. OpenedRows = epochs /\ Working = active /\ active # NoEpoch
    BY <1>4 DEF OpenedRows, Working, NeedsEpoch
  <2>2. active.id \in Running(epochs)
    BY <1>1, <1>2, <2>1, GetActive
  <2> QED BY <1>2, <1>4, <2>1, <2>2 DEF Running
<1> QED BY <1>3, <1>4

\* A poll waits for the earlier orders, so the order it issues is the only live
\* one, and it is for the epoch the poll works on.
LEMMA OnlyNewLive ==
    ASSUME Typed, Poll, Settled, NEW o \in Oid, Live(o)'
    PROVE  /\ o = nOrders + 1 /\ nOrders' = nOrders + 1
           /\ orders'[o].epoch = Working
<1>1. ~Live(o)
  BY DEF Settled, Live
<1>2. ~UNCHANGED <<orders, reports>>
  BY <1>1 DEF Live
<1>3. PollSell \/ PollBuy
  BY <1>2 DEF Poll, PollHold, PollSellBlocked, PollBudgetRejected, PollReservedOnly,
              PollBuyBlocked
<1>4. nOrders' = nOrders + 1 /\ orders'[nOrders + 1].epoch = Working
  BY <1>3, SellIssued, BuyIssued
<1>5. PICK order : Submit(order)
  BY <1>3 DEF PollSell, PollBuy
<1>6. /\ \E new : orders' = [orders EXCEPT ![nOrders + 1] = new]
      /\ \A r \in reports' : r \in reports \/ r.oid = nOrders + 1
  BY <1>5 DEF Submit
<1>7. ASSUME o # nOrders + 1 PROVE FALSE
  <2>1. orders'[o] = orders[o]
    BY <1>6, <1>7 DEF Typed, TypeOK
  <2> QED BY <1>1, <1>6, <1>7, <2>1 DEF Live
<1> QED BY <1>4, <1>7

LEMMA EpochPoll ==
    ASSUME ~ReportsMayLag, Typed, EpochInv, Poll
    PROVE  EpochInv'
<1>1. /\ MayPoll /\ OpenEpoch /\ looping /\ Settled
      /\ stale' = stale
  BY DEF Poll, PollHold, PollSell, PollSellBlocked, PollBudgetRejected,
         PollReservedOnly, PollBuyBlocked, PollBuy, MayEnter, MayPoll
<1>2. /\ epochs' = OpenedRows /\ active' = Working
      /\ nEpochs' = IF NeedsEpoch THEN nEpochs + 1 ELSE nEpochs
  BY <1>1 DEF OpenEpoch
<1>3. /\ Running(OpenedRows) \subseteq {nEpochs'}
      /\ Working = GetActiveEpoch(OpenedRows)
      /\ OpenedRows[Working.id].status = "RUNNING"
  BY <1>1, <1>2, EpochOpened
<1>4. pending' \cup stale' \subseteq Oid /\ stale \subseteq 1 .. nOrders /\ nOrders \in Nat
  <2>1. Typed'
    BY TypedPoll
  <2> QED BY <2>1, Constants DEF Typed, TypeOK, Shape, KeyShape
<1>5. (\A o \in Oid : Live(o) => o = nOrders)'
  BY <1>1, OnlyNewLive
<1>6. (looping => \A o \in stale : ~Live(o))'
  <2>1. ASSUME NEW o \in stale' PROVE ~Live(o)'
    <3>1. o \in 1 .. nOrders /\ o \in Oid
      BY <1>1, <1>4, <2>1
    <3>2. o # nOrders + 1
      BY <1>4, <3>1
    <3> QED BY <1>1, <3>1, <3>2, OnlyNewLive
  <2> QED BY <2>1
<1>7. (\A o \in pending \cup stale :
         Live(o) => epochs[orders[o].epoch.id].status = "RUNNING")'
  <2>1. ASSUME NEW o \in pending' \cup stale', Live(o)'
        PROVE  epochs'[orders'[o].epoch.id].status = "RUNNING"
    <3>1. o \in Oid
      BY <1>4, <2>1
    <3>2. orders'[o].epoch = Working
      BY <1>1, <2>1, <3>1, OnlyNewLive
    <3> QED BY <1>2, <1>3, <3>2
  <2> QED BY <2>1
<1>8. (Running(epochs) \subseteq {nEpochs})' /\ (looping => active = GetActiveEpoch(epochs))'
  BY <1>2, <1>3 DEF Running
<1> QED BY <1>5, <1>6, <1>7, <1>8 DEF EpochInv

\* A handler that finds its order's key writes to a running epoch.
LEMMA FillsRunningEpoch ==
    ASSUME Typed, EpochInv, NEW o \in Oid, OnBuyFilled(o) \/ OnSellFilled(o)
    PROVE  /\ Live(o) /\ o = nOrders /\ o \in pending \cup stale
           /\ orders[o].epoch.id \in EpochId
           /\ epochs[orders[o].epoch.id].status = "RUNNING"
           /\ looping => o \in pending
<1>1. /\ [oid |-> o, X |-> "FILLED"] \in reports /\ o \in pending \cup stale
      /\ orders[o].side # "none"
  BY DEF OnBuyFilled, OnSellFilled, Handled
<1>2. Live(o)
  BY <1>1 DEF Live
<1>3. orders[o].epoch.id \in EpochId
  BY <1>1 DEF Typed, Shape, OrderShape
<1> QED BY <1>1, <1>2, <1>3 DEF EpochInv

\* After a handler ran, the only order that could be live has lost its key.
LEMMA EpochHandled ==
    ASSUME Typed, EpochInv, NEW o \in Oid, OnBuyFilled(o) \/ OnSellFilled(o)
    PROVE  /\ \A q \in Oid : Live(q)' => q = nOrders'
           /\ \A q \in pending' \cup stale' : ~Live(q)'
<1>1. /\ UNCHANGED <<orders, reports, nOrders>>
      /\ pending' = pending \ {o} /\ stale' = stale \ {o}
  BY DEF OnBuyFilled, OnSellFilled
<1>2. \A q \in Oid : Live(q)' => q = nOrders
  BY <1>1 DEF Live, EpochInv
<1>3. o = nOrders
  BY FillsRunningEpoch
<1>4. pending' \cup stale' \subseteq Oid \ {o}
  BY <1>1 DEF Typed, TypeOK
<1> QED BY <1>1, <1>2, <1>3, <1>4

LEMMA EpochReports == Typed /\ EpochInv /\ ReportSteps => EpochInv'
<1> SUFFICES ASSUME Typed, EpochInv, ReportSteps PROVE EpochInv' OBVIOUS
<1>1. ASSUME NEW o \in Oid, OnBuyFilled(o) PROVE EpochInv'
  <2> DEFINE e == orders[o].epoch.id
  <2>1. /\ epochs' = [epochs EXCEPT ![e] = UpdatedRow(o)]
        /\ active' = AfterBuy(o, epochs')
        /\ UNCHANGED <<nEpochs, looping>>
    BY <1>1 DEF OnBuyFilled
  <2>2. /\ e \in EpochId /\ epochs[e].status = "RUNNING"
        /\ looping => o \in pending
    BY <1>1, FillsRunningEpoch
  <2>3. UpdatedRow(o).status = epochs[e].status
    BY <2>2 DEF UpdatedRow, Typed, TypeOK, Rows
  <2> HIDE DEF e
  <2>4. \A f \in EpochId : epochs'[f].status = epochs[f].status
    BY <2>1, <2>2, <2>3 DEF Typed, TypeOK
  <2>5. (Running(epochs) \subseteq {nEpochs})'
    BY <2>1, <2>4 DEF EpochInv, Running
  <2>6. (looping => active = GetActiveEpoch(epochs))'
    BY <2>1, <2>2 DEF AfterBuy
  <2> QED BY <1>1, <2>5, <2>6, EpochHandled DEF EpochInv
<1>2. ASSUME NEW o \in Oid, OnSellFilled(o) PROVE EpochInv'
  <2> DEFINE e == orders[o].epoch.id
             row == [epochs[e] EXCEPT !.status = "CLOSED", !.profit = orders[o].profit]
  <2>1. /\ epochs' = [epochs EXCEPT ![e] = row]
        /\ active' = AfterSell(o)
        /\ UNCHANGED <<nEpochs, looping>>
    BY <1>2 DEF OnSellFilled
  <2>2. /\ e \in EpochId /\ epochs[e].status = "RUNNING"
        /\ looping => o \in pending
    BY <1>2, FillsRunningEpoch
  <2>3. row.status = "CLOSED"
    BY <2>2 DEF Typed, TypeOK, Rows
  <2>4. epochs' \in [EpochId -> Rows]
    <3>1. Typed'
      BY <1>2, TypedReports DEF ReportSteps
    <3> QED BY <3>1 DEF Typed, TypeOK
  <2> HIDE DEF row, e
  <2>5. Running(epochs') = {}
    <3>1. epochs'[e].status = "CLOSED" /\ \A f \in EpochId \ {e} : epochs'[f] = epochs[f]
      BY <2>1, <2>2, <2>3 DEF Typed, TypeOK
    <3>2. Running(epochs) \subseteq {e}
      BY <2>2 DEF EpochInv, Running
    <3> QED BY <3>1, <3>2 DEF Running
  <2>6. (looping => active = GetActiveEpoch(epochs))'
    BY <2>1, <2>2, <2>4, <2>5, GetActive DEF AfterSell
  <2> QED BY <1>2, <2>5, <2>6, EpochHandled DEF EpochInv
<1>3. ASSUME ReportGone PROVE EpochInv'
  <2>1. /\ UNCHANGED <<epochs, nEpochs, nOrders, orders, pending, stale, looping, active>>
        /\ reports' \subseteq reports
    BY <1>3 DEF ReportGone, db, memory
  <2>2. \A o \in Oid : Live(o)' => Live(o)
    BY <2>1 DEF Live
  <2> QED BY <2>1, <2>2, EpochFrame
<1> QED BY <1>1, <1>2, <1>3 DEF ReportSteps

LEMMA EpochLifecycle ==
    ASSUME ~ReportsMayLag, Typed, EpochInv, Lifecycle
    PROVE  EpochInv'
<1>1. /\ UNCHANGED <<epochs, nEpochs, nOrders, orders>>
      /\ reports' \subseteq reports
      /\ pending' \cup stale' \subseteq pending \cup stale
  BY DEF Lifecycle, Launch, Crash, Stop, CrashInFill, ForgetMemory, db
<1>2. \A o \in Oid : Live(o)' => Live(o)
  BY <1>1 DEF Live
<1>3. looping' => active' = GetActiveEpoch(epochs) /\ \A o \in Oid : ~Live(o)
  BY DEF Lifecycle, Launch, Crash, Stop, CrashInFill, ForgetMemory, Settled, Live
<1> QED BY <1>1, <1>2, <1>3, EpochFrame

LEMMA EpochStep ==
    ASSUME ~ReportsMayLag, Typed, EpochInv, [Next]_vars
    PROVE  EpochInv'
<1>1. CASE UNCHANGED vars
  <2>1. /\ UNCHANGED <<epochs, nEpochs, nOrders, orders, reports>>
        /\ UNCHANGED <<pending, stale, looping, active>>
    BY <1>1 DEF vars, db, memory
  <2>2. \A o \in Oid : Live(o)' => Live(o)
    BY <2>1 DEF Live
  <2> QED BY <2>1, <2>2, EpochFrame
<1> QED BY <1>1, EpochFeeds, EpochPoll, EpochExchange, EpochReports, EpochLifecycle DEF Next

LEMMA EpochAlways ==
    ASSUME ~ReportsMayLag
    PROVE  Spec => [](Typed /\ EpochInv)
<1>1. Init => EpochInv
  BY EpochInit
<1>2. Typed /\ EpochInv /\ [Next]_vars => EpochInv'
  BY EpochStep
<1> QED BY <1>1, <1>2, TypedAlways, PTL DEF Spec

\* When every report is handled or lost before the next poll, the bot never has
\* two RUNNING epochs and the runner always decides on the one it has, for any
\* number of orders, stops, restarts and crashes, live or paper.  (When a report
\* may lag behind a poll the code gives this up.)
THEOREM OneEpochRuns ==
    ASSUME ~ReportsMayLag
    PROVE  Spec => []OneRunningEpoch
<1>1. Typed /\ EpochInv => OneRunningEpoch
  <2> SUFFICES ASSUME Typed, EpochInv PROVE OneRunningEpoch OBVIOUS
  <2>1. IsFiniteSet({nEpochs}) /\ Cardinality({nEpochs}) = 1
    BY FS_Singleton
  <2>2. Running(epochs) \subseteq {nEpochs}
    BY DEF EpochInv
  <2>3. Cardinality(Running(epochs)) <= 1
    BY <2>1, <2>2, FS_Subset
  <2> QED BY <2>3 DEF EpochInv, OneRunningEpoch
<1> QED BY <1>1, EpochAlways, PTL

\* Under the same hypothesis no report writes to an epoch after its close: the
\* handler of a fill always finds the row it writes RUNNING.
THEOREM ClosedEpochsStayClosed ==
    ASSUME ~ReportsMayLag
    PROVE  Spec => ClosedEpochIsFinal
<1> DEFINE Writes == \A o \in Oid : OnBuyFilled(o) \/ OnSellFilled(o) =>
                       epochs[orders[o].epoch.id].status = "RUNNING"
<1>1. Typed /\ EpochInv => Writes
  BY FillsRunningEpoch
<1>2. Spec => [][Writes]_vars
  BY <1>1, EpochAlways, PTL
<1> QED BY <1>2 DEF ClosedEpochIsFinal

-----------------------------------------------------------------------------
(* Sums over a finite set of ledger rows *)

\* The element a fold takes next, and what a function must satisfy to be the
\* fold that adds up w over the subsets of R.
Any(s) == CHOOSE x \in s : TRUE
Adds(g, w, R) ==
    g = [s \in SUBSET R |-> IF s = {} THEN 0 ELSE w[Any(s)] + g[s \ {Any(s)}]]

\* Taking an element out of a subset of a finite set makes it smaller.
LEMMA OneLess ==
    ASSUME NEW R, IsFiniteSet(R), NEW s \in SUBSET R
    PROVE  /\ Cardinality(s) \in Nat
           /\ \A x \in s : Cardinality(s \ {x}) = Cardinality(s) - 1
           /\ s # {} => Any(s) \in s
           /\ Cardinality(s) <= Cardinality(R)
<1>1. IsFiniteSet(s) /\ Cardinality(s) <= Cardinality(R)
  BY FS_Subset
<1>2. ASSUME NEW x \in s PROVE Cardinality(s \ {x}) = Cardinality(s) - 1
  BY <1>1, <1>2, FS_RemoveElement
<1>3. s # {} => Any(s) \in s
  BY DEF Any
<1> QED BY <1>1, <1>2, <1>3, FS_CardinalityType

\* A non-empty family of subsets of a finite set has a smallest member.
LEMMA SmallestSubset ==
    ASSUME NEW R, IsFiniteSet(R), NEW B, B \subseteq SUBSET R, B # {}
    PROVE  \E s \in B : \A x \in s : s \ {x} \notin B
<1> DEFINE T == {n \in Nat : \E s \in B : n = Cardinality(s)}
<1>1. T \subseteq Nat /\ T # {}
  BY OneLess
<1>2. PICK n \in T : \A m \in T : n <= m
  <2> HIDE DEF T
  <2> QED BY <1>1, LeastElement
<1>3. PICK s \in B : n = Cardinality(s)
  BY <1>2
<1>4. ASSUME NEW x \in s, s \ {x} \in B PROVE FALSE
  <2>1. Cardinality(s \ {x}) = n - 1 /\ n \in Nat /\ Cardinality(s \ {x}) \in Nat
    BY <1>3, <1>4, OneLess
  <2>2. n - 1 \in T
    BY <2>1, <1>4
  <2> QED BY <1>2, <2>1, <2>2
<1> QED BY <1>3, <1>4

\* The recursion has a solution: it is built for ever larger subsets.
LEMMA SumExists ==
    ASSUME NEW R, IsFiniteSet(R), NEW w
    PROVE  \E g : Adds(g, w, R)
<1> DEFINE Next1(g) == [s \in SUBSET R |-> IF s = {} THEN 0 ELSE w[Any(s)] + g[s \ {Any(s)}]]
           Upto(g, n) == \A s \in SUBSET R : Cardinality(s) <= n => g[s] = Next1(g)[s]
           Bad == {n \in Nat : ~ \E g : Upto(g, n)}
<1>1. Bad = {}
  <2> SUFFICES ASSUME Bad # {} PROVE FALSE
    OBVIOUS
  <2>1. PICK n \in Bad : \A m \in Bad : n <= m
    <3>1. Bad \subseteq Nat
      OBVIOUS
    <3> HIDE DEF Bad
    <3> QED BY <3>1, LeastElement
  <2>2. CASE n = 0
    <3> DEFINE g == [s \in SUBSET R |-> 0]
    <3>1. ASSUME NEW s \in SUBSET R, Cardinality(s) <= 0 PROVE s = {}
      <4>1. IsFiniteSet(s) /\ Cardinality(s) \in Nat
        BY FS_Subset, FS_CardinalityType
      <4> QED BY <3>1, <4>1, FS_EmptySet
    <3>2. Upto(g, 0)
      BY <3>1
    <3> QED BY <2>1, <2>2, <3>2
  <2>3. CASE n # 0
    <3>1. n \in Nat /\ n - 1 \in Nat /\ n - 1 \notin Bad
      <4>1. n \in Nat
        BY <2>1
      <4>2. n - 1 \in Nat /\ ~(n <= n - 1)
        BY <4>1, <2>3
      <4> HIDE DEF Bad
      <4> QED BY <2>1, <4>1, <4>2
    <3>2. PICK g : Upto(g, n - 1)
      BY <3>1
    <3> DEFINE h == Next1(g)
    <3>3. ASSUME NEW s \in SUBSET R, Cardinality(s) <= n PROVE h[s] = Next1(h)[s]
      <4>1. CASE s = {}
        BY <4>1
      <4>2. CASE s # {}
        <5> DEFINE t == s \ {Any(s)}
        <5>1. t \in SUBSET R /\ Cardinality(t) <= n - 1
          BY <3>1, <3>3, <4>2, OneLess
        <5>2. g[t] = h[t]
          BY <3>2, <5>1
        <5>3. h[s] = w[Any(s)] + g[t] /\ Next1(h)[s] = w[Any(s)] + h[t]
          BY <4>2
        <5> QED BY <5>2, <5>3
      <4> QED BY <4>1, <4>2
    <3>4. Upto(h, n)
      BY <3>3
    <3> QED BY <2>1, <3>1, <3>4
  <2> QED BY <2>2, <2>3
<1>2. Cardinality(R) \in Nat
  BY FS_CardinalityType
<1>3. PICK g : Upto(g, Cardinality(R))
  BY <1>1, <1>2
<1>4. \A s \in SUBSET R : g[s] = Next1(g)[s]
  BY <1>3, OneLess
<1> DEFINE h == Next1(g)
<1>5. \A s \in SUBSET R : s \ {Any(s)} \in SUBSET R
  OBVIOUS
<1>6. \A s \in SUBSET R : h[s \ {Any(s)}] = g[s \ {Any(s)}]
  BY <1>4, <1>5
<1>7. h = Next1(h)
  BY <1>6
<1> QED BY <1>7 DEF Adds

\* What there is to know of such a function.
AddsUp(g, w, R) ==
    /\ g[{}] = 0
    /\ \A s \in SUBSET R : s # {} => Any(s) \in s /\ g[s] = w[Any(s)] + g[s \ {Any(s)}]

LEMMA SumStep ==
    ASSUME NEW R, NEW w, NEW g, Adds(g, w, R)
    PROVE  AddsUp(g, w, R)
<1>1. \A s \in SUBSET R : s # {} => Any(s) \in s
  BY DEF Any
<1>2. \A s \in SUBSET R : g[s] = IF s = {} THEN 0 ELSE w[Any(s)] + g[s \ {Any(s)}]
  BY DEF Adds
<1> QED BY <1>1, <1>2 DEF AddsUp

LEMMA SumNat ==
    ASSUME NEW R, IsFiniteSet(R), NEW w, \A i \in R : w[i] \in Nat,
           NEW g, AddsUp(g, w, R)
    PROVE  \A s \in SUBSET R : g[s] \in Nat
<1> DEFINE Bad == {s \in SUBSET R : g[s] \notin Nat}
<1> SUFFICES ASSUME Bad # {} PROVE FALSE
  OBVIOUS
<1>1. PICK s \in Bad : \A x \in s : s \ {x} \notin Bad
  <2>1. Bad \subseteq SUBSET R
    OBVIOUS
  <2> HIDE DEF Bad
  <2> QED BY <2>1, SmallestSubset
<1>0. s \in SUBSET R /\ g[s] \notin Nat
  OBVIOUS
<1>2. s # {}
  BY <1>0 DEF AddsUp
<1>3. Any(s) \in s /\ Any(s) \in R /\ g[s] = w[Any(s)] + g[s \ {Any(s)}]
  BY <1>0, <1>2 DEF AddsUp
<1>4. g[s \ {Any(s)}] \in Nat
  BY <1>1, <1>3
<1> QED BY <1>1, <1>3, <1>4

\* Any element can be taken out first.
LEMMA SumTakes ==
    ASSUME NEW R, IsFiniteSet(R), NEW w, \A i \in R : w[i] \in Nat,
           NEW g, AddsUp(g, w, R)
    PROVE  \A s \in SUBSET R : \A x \in s : g[s] = w[x] + g[s \ {x}]
<1> DEFINE Bad == {s \in SUBSET R : \E x \in s : g[s] # w[x] + g[s \ {x}]}
<1> SUFFICES ASSUME Bad # {} PROVE FALSE
  OBVIOUS
<1>1. PICK s \in Bad : \A x \in s : s \ {x} \notin Bad
  <2>1. Bad \subseteq SUBSET R
    OBVIOUS
  <2> HIDE DEF Bad
  <2> QED BY <2>1, SmallestSubset
<1>2. PICK x \in s : g[s] # w[x] + g[s \ {x}]
  OBVIOUS
<1>3. PICK a \in s : g[s] = w[a] + g[s \ {a}]
  <2>1. s \in SUBSET R /\ s # {}
    BY <1>2
  <2>2. Any(s) \in s /\ g[s] = w[Any(s)] + g[s \ {Any(s)}]
    BY <2>1 DEF AddsUp
  <2> QED BY <2>2
<1>4. x # a
  BY <1>2, <1>3
<1>5. g[s \ {a}] = w[x] + g[(s \ {a}) \ {x}]
  <2>1. s \ {a} \in SUBSET R /\ x \in s \ {a}
    BY <1>4
  <2> QED BY <1>1, <2>1
<1>6. g[s \ {x}] = w[a] + g[(s \ {x}) \ {a}]
  <2>1. s \ {x} \in SUBSET R /\ a \in s \ {x}
    BY <1>4
  <2> QED BY <1>1, <2>1
<1> DEFINE v == (s \ {a}) \ {x}
<1>7. (s \ {x}) \ {a} = v
  OBVIOUS
<1>8. v \in SUBSET R /\ a \in R /\ x \in R
  OBVIOUS
<1>9. g[v] \in Nat /\ w[a] \in Nat /\ w[x] \in Nat
  BY <1>8, SumNat
<1>10. g[s \ {a}] = w[x] + g[v] /\ g[s \ {x}] = w[a] + g[v]
  BY <1>5, <1>6, <1>7
<1> HIDE DEF v
<1> QED BY <1>2, <1>3, <1>9, <1>10

\* The sum over a set depends only on the weights of its members.
LEMMA SumAgrees ==
    ASSUME NEW g, NEW w, NEW R, NEW h, NEW v, NEW Q,
           AddsUp(g, w, R), AddsUp(h, v, Q),
           IsFiniteSet(R), R \subseteq Q, \A i \in R : w[i] = v[i]
    PROVE  \A s \in SUBSET R : g[s] = h[s]
<1> DEFINE Bad == {s \in SUBSET R : g[s] # h[s]}
<1> SUFFICES ASSUME Bad # {} PROVE FALSE
  OBVIOUS
<1>1. PICK s \in Bad : \A x \in s : s \ {x} \notin Bad
  <2>1. Bad \subseteq SUBSET R
    OBVIOUS
  <2> HIDE DEF Bad
  <2> QED BY <2>1, SmallestSubset
<1>2. s \in SUBSET R /\ s \in SUBSET Q /\ g[s] # h[s]
  OBVIOUS
<1>3. s # {}
  BY <1>2 DEF AddsUp
<1>4. /\ Any(s) \in s /\ Any(s) \in R
      /\ g[s] = w[Any(s)] + g[s \ {Any(s)}] /\ h[s] = v[Any(s)] + h[s \ {Any(s)}]
  BY <1>2, <1>3 DEF AddsUp
<1>5. g[s \ {Any(s)}] = h[s \ {Any(s)}]
  BY <1>1, <1>4
<1> QED BY <1>1, <1>4, <1>5

\* A row more adds its weight.
LEMMA SumGrows ==
    ASSUME NEW g, NEW w, NEW R, NEW h, NEW v, NEW n,
           AddsUp(g, w, R), AddsUp(h, v, R \cup {n}),
           IsFiniteSet(R), n \notin R,
           \A i \in R : w[i] = v[i], \A i \in R \cup {n} : v[i] \in Nat
    PROVE  h[R \cup {n}] = g[R] + v[n] /\ g[R] \in Nat
<1>1. IsFiniteSet(R \cup {n}) /\ (R \cup {n}) \ {n} = R
  BY FS_AddElement
<1>2. h[R \cup {n}] = v[n] + h[R]
  <2> DEFINE Q == R \cup {n}
  <2>1. AddsUp(h, v, Q) /\ Q \in SUBSET Q /\ n \in Q /\ \A i \in Q : v[i] \in Nat
    OBVIOUS
  <2>2. IsFiniteSet(Q) /\ Q \ {n} = R
    BY <1>1
  <2> HIDE DEF Q
  <2>3. h[Q] = v[n] + h[Q \ {n}]
    BY <2>1, <2>2, SumTakes
  <2> QED BY <2>2, <2>3 DEF Q
<1>3. h[R] = g[R]
  <2> DEFINE Q == R \cup {n}
  <2>1. R \subseteq Q /\ AddsUp(h, v, Q)
    OBVIOUS
  <2> HIDE DEF Q
  <2>2. \A s \in SUBSET R : g[s] = h[s]
    BY <2>1, SumAgrees
  <2> QED BY <2>2
<1>4. g[R] \in Nat
  BY SumNat
<1> QED BY <1>2, <1>3, <1>4

\* What the rows of epoch e in ps cost and bought, and the weights these sums
\* are taken over.
CostIn(ps, e) == MapThenSumSet(LAMBDA i : ps[i].cost, RowsIn(ps, e))
QtyIn(ps, e)  == MapThenSumSet(LAMBDA i : ps[i].qty, RowsIn(ps, e))
Costs(ps, e)  == [i \in RowsIn(ps, e) |-> ps[i].cost]
Qtys(ps, e)   == [i \in RowsIn(ps, e) |-> ps[i].qty]

LEMMA CostIsSum ==
    ASSUME NEW ps \in Seq(Buys), NEW e
    PROVE  \E g : /\ AddsUp(g, Costs(ps, e), RowsIn(ps, e))
                  /\ CostIn(ps, e) = g[RowsIn(ps, e)]
<1> DEFINE R == RowsIn(ps, e)
           w == Costs(ps, e)
           P(g) == g = [s \in SUBSET R |->
                          IF s = {} THEN 0
                          ELSE LET x == CHOOSE x \in s : TRUE IN ps[x].cost + g[s \ {x}]]
           h == CHOOSE g : P(g)
<1>1. CostIn(ps, e) = h[R]
  BY DEF CostIn, MapThenSumSet, MapThenFoldSet
<1>2. \A s \in SUBSET R : s # {} => w[Any(s)] = ps[Any(s)].cost
  BY DEF Costs, Any
<1>3. \A g : Adds(g, w, R) <=> P(g)
  <2> SUFFICES ASSUME NEW g PROVE Adds(g, w, R) <=> P(g)
    OBVIOUS
  <2>1. [s \in SUBSET R |-> IF s = {} THEN 0 ELSE w[Any(s)] + g[s \ {Any(s)}]]
        = [s \in SUBSET R |-> IF s = {} THEN 0
                             ELSE LET x == CHOOSE x \in s : TRUE IN ps[x].cost + g[s \ {x}]]
    <3> HIDE DEF R, w
    <3> QED BY <1>2 DEF Any
  <2> QED BY <2>1 DEF Adds
<1>4. \E g : P(g)
  <2>1. \E g : Adds(g, w, R)
    BY CountType, SumExists
  <2> HIDE DEF P
  <2> QED BY <1>3, <2>1
<1>5. P(h)
  <2> HIDE DEF P
  <2> QED BY <1>4
<1>6. AddsUp(h, w, R)
  <2> HIDE DEF P, h, w, R
  <2> QED BY <1>3, <1>5, SumStep
<1> QED BY <1>1, <1>6

LEMMA QtyIsSum ==
    ASSUME NEW ps \in Seq(Buys), NEW e
    PROVE  \E g : /\ AddsUp(g, Qtys(ps, e), RowsIn(ps, e))
                  /\ QtyIn(ps, e) = g[RowsIn(ps, e)]
<1> DEFINE R == RowsIn(ps, e)
           w == Qtys(ps, e)
           P(g) == g = [s \in SUBSET R |->
                          IF s = {} THEN 0
                          ELSE LET x == CHOOSE x \in s : TRUE IN ps[x].qty + g[s \ {x}]]
           h == CHOOSE g : P(g)
<1>1. QtyIn(ps, e) = h[R]
  BY DEF QtyIn, MapThenSumSet, MapThenFoldSet
<1>2. \A s \in SUBSET R : s # {} => w[Any(s)] = ps[Any(s)].qty
  BY DEF Qtys, Any
<1>3. \A g : Adds(g, w, R) <=> P(g)
  <2> SUFFICES ASSUME NEW g PROVE Adds(g, w, R) <=> P(g)
    OBVIOUS
  <2>1. [s \in SUBSET R |-> IF s = {} THEN 0 ELSE w[Any(s)] + g[s \ {Any(s)}]]
        = [s \in SUBSET R |-> IF s = {} THEN 0
                             ELSE LET x == CHOOSE x \in s : TRUE IN ps[x].qty + g[s \ {x}]]
    <3> HIDE DEF R, w
    <3> QED BY <1>2 DEF Any
  <2> QED BY <2>1 DEF Adds
<1>4. \E g : P(g)
  <2>1. \E g : Adds(g, w, R)
    BY CountType, SumExists
  <2> HIDE DEF P
  <2> QED BY <1>3, <2>1
<1>5. P(h)
  <2> HIDE DEF P
  <2> QED BY <1>4
<1>6. AddsUp(h, w, R)
  <2> HIDE DEF P, h, w, R
  <2> QED BY <1>3, <1>5, SumStep
<1> QED BY <1>1, <1>6

\* add_purchase adds its cost to the sum of its epoch and to no other.
LEMMA CostAppend ==
    ASSUME NEW ps \in Seq(Buys), NEW row \in Buys, NEW e
    PROVE  /\ CostIn(ps, e) \in Nat
           /\ CostIn(Append(ps, row), e) =
                IF row.epoch = e THEN CostIn(ps, e) + row.cost ELSE CostIn(ps, e)
<1> DEFINE qs == Append(ps, row)
           R  == RowsIn(ps, e)
           n  == Len(ps) + 1
           w  == Costs(ps, e)
           v  == Costs(qs, e)
<1>1. qs \in Seq(Buys)
  OBVIOUS
<1>2. PICK g : AddsUp(g, w, R) /\ CostIn(ps, e) = g[R]
  BY CostIsSum
<1>3. PICK h : AddsUp(h, v, RowsIn(qs, e)) /\ CostIn(qs, e) = h[RowsIn(qs, e)]
  <2> HIDE DEF qs
  <2> QED BY <1>1, CostIsSum
<1>4. /\ IsFiniteSet(R) /\ n \notin R
      /\ \A i \in R : qs[i] = ps[i] /\ ps[i] \in Buys /\ i \in RowsIn(qs, e)
      /\ qs[n] = row
  <2>1. IsFiniteSet(R)
    BY CountType
  <2>2. n \notin R /\ qs[n] = row /\ \A i \in R : qs[i] = ps[i] /\ ps[i] \in Buys
    BY RowsAppend
  <2>3. RowsIn(qs, e) = IF row.epoch = e THEN R \cup {n} ELSE R
    BY RowsAppend
  <2>4. R \subseteq RowsIn(qs, e)
    <3> HIDE DEF R, qs, n
    <3> QED BY <2>3
  <2> QED BY <2>1, <2>2, <2>4
<1>5. \A i \in R : w[i] = v[i] /\ v[i] \in Nat
  BY <1>4 DEF Costs, Buys
<1>6. CostIn(ps, e) \in Nat
  <2>1. \A i \in R : w[i] \in Nat
    BY <1>5
  <2>2. R \in SUBSET R
    OBVIOUS
  <2> HIDE DEF w, R
  <2> QED BY <1>2, <1>4, <2>1, <2>2, SumNat
<1>7. CASE row.epoch = e
  <2>1. RowsIn(qs, e) = R \cup {n}
    BY <1>7, RowsAppend
  <2>2. v[n] = row.cost /\ row.cost \in Nat
    BY <1>4, <2>1 DEF Costs, Buys
  <2>3. \A i \in R \cup {n} : v[i] \in Nat
    BY <1>5, <2>2
  <2>4. \A i \in R : w[i] = v[i]
    BY <1>5
  <2> HIDE DEF w, v, R, n, qs
  <2>5. h[R \cup {n}] = g[R] + v[n]
    BY <1>2, <1>3, <1>4, <2>1, <2>3, <2>4, SumGrows
  <2> QED BY <1>2, <1>3, <1>6, <1>7, <2>1, <2>2, <2>5 DEF qs
<1>8. CASE row.epoch # e
  <2>1. RowsIn(qs, e) = R
    BY <1>8, RowsAppend
  <2>2. R \in SUBSET R /\ R \subseteq R /\ \A i \in R : w[i] = v[i]
    BY <1>5
  <2> HIDE DEF w, v, R, n, qs
  <2>3. g[R] = h[R]
    BY <1>2, <1>3, <1>4, <2>1, <2>2, SumAgrees
  <2> QED BY <1>2, <1>3, <1>6, <1>8, <2>1, <2>3 DEF qs
<1> QED BY <1>7, <1>8, <1>6

\* add_purchase adds its quantity to the sum of its epoch and to no other.
LEMMA QtyAppend ==
    ASSUME NEW ps \in Seq(Buys), NEW row \in Buys, NEW e
    PROVE  /\ QtyIn(ps, e) \in Nat
           /\ QtyIn(Append(ps, row), e) =
                IF row.epoch = e THEN QtyIn(ps, e) + row.qty ELSE QtyIn(ps, e)
<1> DEFINE qs == Append(ps, row)
           R  == RowsIn(ps, e)
           n  == Len(ps) + 1
           w  == Qtys(ps, e)
           v  == Qtys(qs, e)
<1>1. qs \in Seq(Buys)
  OBVIOUS
<1>2. PICK g : AddsUp(g, w, R) /\ QtyIn(ps, e) = g[R]
  BY QtyIsSum
<1>3. PICK h : AddsUp(h, v, RowsIn(qs, e)) /\ QtyIn(qs, e) = h[RowsIn(qs, e)]
  <2> HIDE DEF qs
  <2> QED BY <1>1, QtyIsSum
<1>4. /\ IsFiniteSet(R) /\ n \notin R
      /\ \A i \in R : qs[i] = ps[i] /\ ps[i] \in Buys /\ i \in RowsIn(qs, e)
      /\ qs[n] = row
  <2>1. IsFiniteSet(R)
    BY CountType
  <2>2. n \notin R /\ qs[n] = row /\ \A i \in R : qs[i] = ps[i] /\ ps[i] \in Buys
    BY RowsAppend
  <2>3. RowsIn(qs, e) = IF row.epoch = e THEN R \cup {n} ELSE R
    BY RowsAppend
  <2>4. R \subseteq RowsIn(qs, e)
    <3> HIDE DEF R, qs, n
    <3> QED BY <2>3
  <2> QED BY <2>1, <2>2, <2>4
<1>5. \A i \in R : w[i] = v[i] /\ v[i] \in Nat
  BY <1>4 DEF Qtys, Buys
<1>6. QtyIn(ps, e) \in Nat
  <2>1. \A i \in R : w[i] \in Nat
    BY <1>5
  <2>2. R \in SUBSET R
    OBVIOUS
  <2> HIDE DEF w, R
  <2> QED BY <1>2, <1>4, <2>1, <2>2, SumNat
<1>7. CASE row.epoch = e
  <2>1. RowsIn(qs, e) = R \cup {n}
    BY <1>7, RowsAppend
  <2>2. v[n] = row.qty /\ row.qty \in Nat
    BY <1>4, <2>1 DEF Qtys, Buys
  <2>3. \A i \in R \cup {n} : v[i] \in Nat
    BY <1>5, <2>2
  <2>4. \A i \in R : w[i] = v[i]
    BY <1>5
  <2> HIDE DEF w, v, R, n, qs
  <2>5. h[R \cup {n}] = g[R] + v[n]
    BY <1>2, <1>3, <1>4, <2>1, <2>3, <2>4, SumGrows
  <2> QED BY <1>2, <1>3, <1>6, <1>7, <2>1, <2>2, <2>5 DEF qs
<1>8. CASE row.epoch # e
  <2>1. RowsIn(qs, e) = R
    BY <1>8, RowsAppend
  <2>2. R \in SUBSET R /\ R \subseteq R /\ \A i \in R : w[i] = v[i]
    BY <1>5
  <2> HIDE DEF w, v, R, n, qs
  <2>3. g[R] = h[R]
    BY <1>2, <1>3, <1>4, <2>1, <2>2, SumAgrees
  <2> QED BY <1>2, <1>3, <1>6, <1>8, <2>1, <2>3 DEF qs
<1> QED BY <1>7, <1>8, <1>6

\* The sums of the specification are these, before and after a step.
LEMMA LedgerSums ==
    ASSUME NEW e
    PROVE  /\ LedgerCost(e) = CostIn(purchases, e) /\ LedgerQty(e) = QtyIn(purchases, e)
           /\ Cardinality(RowsOf(e)) = Count(purchases, e)
<1>1. LedgerCost(e) = CostIn(purchases, e)
  BY DEF LedgerCost, Sum, CostIn, RowsOf, RowsIn, MapThenSumSet, MapThenFoldSet
<1>2. LedgerQty(e) = QtyIn(purchases, e)
  BY DEF LedgerQty, Sum, QtyIn, RowsOf, RowsIn, MapThenSumSet, MapThenFoldSet
<1>3. Cardinality(RowsOf(e)) = Count(purchases, e)
  BY DEF RowsOf, RowsIn, Count
<1> QED BY <1>1, <1>2, <1>3

-----------------------------------------------------------------------------
(* The statistics are those of the recorded fills *)

\* What the code decides on: a row, or a copy of one, has the statistics of the
\* other one.
SameStats(a, b) == a.num = b.num /\ a.cost = b.cost /\ a.vol = b.vol
NoStats(row)    == row.num = 0 /\ row.cost = 0 /\ row.vol = 0

\* The rows rs of louise_epochs say what the rows ps of louise_purchases add up to.
RowsExact(rs, ps) ==
    \A e \in EpochId : /\ rs[e].num = Count(ps, e)
                       /\ rs[e].cost = CostIn(ps, e)
                       /\ rs[e].vol = QtyIn(ps, e)

\* The strengthening: an epoch that does not exist yet has nothing to add up, and
\* the copy a handler will compute from is still what its row says.
StatsExact ==
    /\ RowsExact(epochs, purchases)
    /\ \A e \in EpochId : e > nEpochs => NoStats(epochs[e])
    /\ \A o \in pending \cup stale :
         Live(o) => SameStats(orders[o].epoch, epochs[orders[o].epoch.id])

LEMMA ExactInit == Init => StatsExact
<1> SUFFICES ASSUME Init PROVE StatsExact OBVIOUS
<1>1. purchases = << >> /\ pending = {} /\ stale = {}
      /\ \A e \in EpochId : epochs[e].num = 0 /\ epochs[e].cost = 0 /\ epochs[e].vol = 0
  BY DEF Init, NoRow
<1>2. ASSUME NEW e \in EpochId
      PROVE  Count(purchases, e) = 0 /\ CostIn(purchases, e) = 0 /\ QtyIn(purchases, e) = 0
  <2>1. RowsIn(purchases, e) = {} /\ purchases \in Seq(Buys)
    BY <1>1 DEF RowsIn
  <2>2. Count(purchases, e) = 0
    BY <2>1, FS_EmptySet DEF Count
  <2>3. PICK g : /\ AddsUp(g, Costs(purchases, e), RowsIn(purchases, e))
                 /\ CostIn(purchases, e) = g[RowsIn(purchases, e)]
    BY <2>1, CostIsSum
  <2>4. PICK h : /\ AddsUp(h, Qtys(purchases, e), RowsIn(purchases, e))
                 /\ QtyIn(purchases, e) = h[RowsIn(purchases, e)]
    BY <2>1, QtyIsSum
  <2>5. CostIn(purchases, e) = 0
    BY <2>1, <2>3 DEF AddsUp
  <2>6. QtyIn(purchases, e) = 0
    BY <2>1, <2>4 DEF AddsUp
  <2> QED BY <2>2, <2>5, <2>6
<1> QED BY <1>1, <1>2 DEF StatsExact, RowsExact, NoStats

\* A step that leaves both tables alone, lets no key appear and nothing become
\* live.
LEMMA ExactFrame ==
    ASSUME Typed, StatsExact,
           UNCHANGED <<epochs, nEpochs, purchases>>,
           \A o \in Oid : Live(o)' => Live(o),
           \A o \in Oid : orders'[o].epoch = orders[o].epoch,
           pending' \cup stale' \subseteq pending \cup stale
    PROVE  StatsExact'
<1>1. pending \cup stale \subseteq Oid
  BY DEF Typed, TypeOK
<1>2. (\A e \in EpochId : e > nEpochs => NoStats(epochs[e]))'
  BY DEF StatsExact, NoStats
<1>4. RowsExact(epochs, purchases)'
  BY DEF StatsExact, RowsExact
<1>3. ASSUME NEW o \in pending' \cup stale', Live(o)'
      PROVE  SameStats(orders'[o].epoch, epochs'[orders'[o].epoch.id])
  <2>1. o \in Oid /\ o \in pending \cup stale
    BY <1>1, <1>3
  <2>2. Live(o) /\ orders'[o].epoch = orders[o].epoch
    BY <1>3, <2>1
  <2> QED BY <2>1, <2>2 DEF StatsExact
<1>5. (\A o \in pending \cup stale :
         Live(o) => SameStats(orders[o].epoch, epochs[orders[o].epoch.id]))'
  BY <1>3 DEF SameStats
<1> QED BY <1>2, <1>4, <1>5 DEF StatsExact

LEMMA ExactExchange == Typed /\ StatsExact /\ Exchange => StatsExact'
<1> SUFFICES ASSUME Typed, StatsExact, Exchange PROVE StatsExact' OBVIOUS
<1>1. UNCHANGED <<epochs, nEpochs, purchases, nOrders, pending, stale>>
  BY DEF Exchange, ExchangeFills, ExchangeExpires, CallReturns, CallRaises, db, memory
<1>2. \A o \in Oid : Live(o)' => Live(o)
  <2>1. awaiting # 0 => awaiting \in Oid
    BY Constants DEF Typed, TypeOK, Oid
  <2>2. ASSUME NEW o \in Oid, NEW q \in Oid, ExchangeFills(q), Live(o)' PROVE Live(o)
    <3>1. /\ orders[q].exec = "sent" /\ reports' = reports \cup {[oid |-> q, X |-> "FILLED"]}
          /\ o # q => orders'[o] = orders[o]
      BY <2>2 DEF ExchangeFills, Typed, TypeOK
    <3> QED BY <2>2, <3>1 DEF Live
  <2>3. ASSUME NEW o \in Oid, NEW q \in Oid, ExchangeExpires(q), Live(o)' PROVE Live(o)
    <3>1. /\ orders[q].exec = "sent" /\ reports' = reports \cup {[oid |-> q, X |-> "EXPIRED"]}
          /\ o # q => orders'[o] = orders[o]
      BY <2>3 DEF ExchangeExpires, Typed, TypeOK
    <3> QED BY <2>3, <3>1 DEF Live
  <2>4. ASSUME NEW o \in Oid, CallRaises, Live(o)' PROVE Live(o)
    <3>1. /\ reports' = reports
          /\ \/ orders' = orders
             \/ /\ o # awaiting => orders'[o] = orders[o]
                /\ orders[awaiting].exec = "sent"
      BY <2>1, <2>4 DEF CallRaises, Typed, TypeOK
    <3> QED BY <2>4, <3>1 DEF Live
  <2>5. ASSUME NEW o \in Oid, CallReturns, Live(o)' PROVE Live(o)
    BY <2>5 DEF CallReturns, Live
  <2> QED BY <2>2, <2>3, <2>4, <2>5 DEF Exchange
<1>3. \A o \in Oid : orders'[o].epoch = orders[o].epoch
  <2>1. ASSUME NEW o \in Oid PROVE orders'[o].epoch = orders[o].epoch
    <3>1. CASE o \in 1 .. nOrders
      BY <3>1, KeepsInExchange DEF OrdersKeep
    <3>2. CASE o \notin 1 .. nOrders
      <4>1. orders[o].exec # "sent"
        BY <3>2 DEF Typed, Shape, OrderShape
      <4>2. orders'[o] = orders[o]
        BY <4>1 DEF Exchange, ExchangeFills, ExchangeExpires, CallReturns, CallRaises,
                    Typed, TypeOK
      <4> QED BY <4>2
    <3> QED BY <3>1, <3>2
  <2> QED BY <2>1
<1> QED BY <1>1, <1>2, <1>3, ExactFrame

\* Opening an epoch adds a row without statistics.
LEMMA OpenedStats ==
    ASSUME Typed, StatsExact, MayPoll
    PROVE  /\ \A e \in EpochId : SameStats(OpenedRows[e], epochs[e])
           /\ \A e \in EpochId :
                e > (IF NeedsEpoch THEN nEpochs + 1 ELSE nEpochs) => NoStats(OpenedRows[e])
<1>1. CASE NeedsEpoch
  <2>1. nEpochs + 1 \in EpochId /\ nEpochs \in Nat /\ nEpochs + 1 > nEpochs
    BY <1>1, Constants DEF MayPoll, Typed, TypeOK, EpochId
  <2> DEFINE new == [NoRow EXCEPT !.status = "RUNNING"]
  <2>2. NoStats(new)
    BY DEF NoRow, NoStats
  <2>3. OpenedRows = [epochs EXCEPT ![nEpochs + 1] = new]
    BY <1>1 DEF OpenedRows
  <2> HIDE DEF new
  <2>4. /\ OpenedRows[nEpochs + 1] = new
        /\ \A e \in EpochId \ {nEpochs + 1} : OpenedRows[e] = epochs[e]
    BY <2>1, <2>3 DEF Typed, TypeOK
  <2>5. NoStats(epochs[nEpochs + 1])
    BY <2>1 DEF StatsExact
  <2>6. \A e \in EpochId : SameStats(OpenedRows[e], epochs[e])
    BY <2>2, <2>4, <2>5 DEF SameStats, NoStats
  <2>7. \A e \in EpochId : e > nEpochs + 1 => NoStats(OpenedRows[e])
    <3>1. \A e \in EpochId : e > nEpochs + 1 => e # nEpochs + 1 /\ e > nEpochs
      BY <2>1 DEF EpochId
    <3> QED BY <2>4, <3>1 DEF StatsExact
  <2> QED BY <1>1, <2>6, <2>7
<1>2. CASE ~NeedsEpoch
  BY <1>2 DEF OpenedRows, StatsExact, SameStats
<1> QED BY <1>1, <1>2

LEMMA ExactPoll ==
    ASSUME ~ReportsMayLag, Typed, EpochInv, StatsExact, Poll
    PROVE  StatsExact'
<1>1. MayPoll /\ OpenEpoch /\ Settled /\ purchases' = purchases
  BY DEF Poll, PollHold, PollSell, PollSellBlocked, PollBudgetRejected,
         PollReservedOnly, PollBuyBlocked, PollBuy, MayEnter, MayPoll
<1>2. epochs' = OpenedRows /\ nEpochs' = IF NeedsEpoch THEN nEpochs + 1 ELSE nEpochs
  BY <1>1 DEF OpenEpoch
<1>3. RowsExact(epochs, purchases)'
  BY <1>1, <1>2, OpenedStats DEF StatsExact, RowsExact, SameStats
<1>4. (\A e \in EpochId : e > nEpochs => NoStats(epochs[e]))'
  BY <1>1, <1>2, OpenedStats DEF NoStats
<1>5. (\A o \in pending \cup stale :
         Live(o) => SameStats(orders[o].epoch, epochs[orders[o].epoch.id]))'
  <2>1. SameStats(Working, OpenedRows[Working.id])
    <3>1. /\ OpenedRows \in [EpochId -> Rows] /\ Working.id \in EpochId
          /\ Working = GetActiveEpoch(OpenedRows)
          /\ OpenedRows[Working.id].status = "RUNNING"
      BY <1>1, EpochAtHand, EpochOpened DEF Typed
    <3>2. Running(OpenedRows) # {}
      BY <3>1 DEF Running
    <3>3. Working = CopyOf(OpenedRows, Working.id)
      BY <3>1, <3>2, GetActive
    <3>4. CopyOf(OpenedRows, Working.id).num = OpenedRows[Working.id].num
          /\ CopyOf(OpenedRows, Working.id).cost = OpenedRows[Working.id].cost
          /\ CopyOf(OpenedRows, Working.id).vol = OpenedRows[Working.id].vol
      BY DEF CopyOf
    <3> HIDE DEF Working
    <3> QED BY <3>3, <3>4 DEF SameStats
  <2>2. ASSUME NEW o \in pending' \cup stale', Live(o)'
        PROVE  SameStats(orders'[o].epoch, epochs'[orders'[o].epoch.id])
    <3>1. Typed'
      BY TypedPoll
    <3>2. o \in Oid
      BY <2>2, <3>1 DEF Typed, TypeOK
    <3>3. orders'[o].epoch = Working
      BY <1>1, <2>2, <3>2, OnlyNewLive
    <3> QED BY <1>2, <2>1, <3>3
  <2> QED BY <2>2 DEF SameStats
<1> QED BY <1>3, <1>4, <1>5 DEF StatsExact

\* What a live fill writes: its epoch's statistics and this one purchase.
LEMMA FillAdds ==
    ASSUME ~Paper, Typed, EpochInv, StatsExact, NEW o \in Oid, OnBuyFilled(o)
    PROVE  LET e == orders[o].epoch.id IN
           /\ e \in EpochId /\ e = nEpochs
           /\ UpdatedRow(o).num  = epochs[e].num + 1
           /\ UpdatedRow(o).cost = epochs[e].cost + PurchaseRow(o).cost
           /\ UpdatedRow(o).vol  = epochs[e].vol + PurchaseRow(o).qty
<1> DEFINE c == orders[o].epoch
           e == c.id
<1>1. /\ [oid |-> o, X |-> "FILLED"] \in reports /\ orders[o].side = "BUY"
      /\ Live(o) /\ o \in pending \cup stale
      /\ e \in EpochId /\ epochs[e].status = "RUNNING"
  BY FillsRunningEpoch DEF OnBuyFilled
<1>2. e = nEpochs
  BY <1>1 DEF EpochInv, Running
<1>3. c.num = epochs[e].num /\ c.cost = epochs[e].cost /\ c.vol = epochs[e].vol
  BY <1>1 DEF StatsExact, SameStats
<1>4. orders[o].fill \in Prices /\ c.vol \in Nat
  <2>1. orders[o].exec = "filled"
    BY <1>1 DEF Typed, Shape, KeyShape
  <2>2. c \in Copies
    BY DEF Typed, TypeOK, Orders
  <2> QED BY <1>1, <2>1, <2>2 DEF Typed, Shape, OrderShape, Copies
<1>5. ReportedQty(o) \in Nat \ {0}
  BY <1>4, FillNumbers DEF ReportedQty
<1>6. c.vol + ReportedQty(o) > 0
  BY <1>4, <1>5
<1>7. /\ PurchaseRow(o).cost = BuyVolume /\ PurchaseRow(o).qty = ReportedQty(o)
  BY DEF PurchaseRow
<1>8. /\ UpdatedRow(o).num = c.num + 1 /\ UpdatedRow(o).cost = c.cost + BuyVolume
      /\ UpdatedRow(o).vol = c.vol + ReportedQty(o)
  <2>1. epochs[e] \in Rows
    BY <1>1 DEF Typed, TypeOK
  <2> DEFINE v == IF c.vol + ReportedQty(o) > 0 THEN c.vol + ReportedQty(o)
                  ELSE (c.cost + BuyVolume) \div ReportedPrice(o)
  <2>2. v = c.vol + ReportedQty(o)
    BY <1>6
  <2>3. UpdatedRow(o) = [epochs[e] EXCEPT !.num = c.num + 1, !.cost = c.cost + BuyVolume,
                                          !.vol = v]
    BY DEF UpdatedRow
  <2> HIDE DEF v, c, e
  <2> QED BY <2>1, <2>2, <2>3 DEF Rows
<1> QED BY <1>1, <1>2, <1>3, <1>7, <1>8

LEMMA ExactReports ==
    ASSUME ~Paper, Typed, EpochInv, StatsExact, ReportSteps
    PROVE  StatsExact'
<1>1. ASSUME NEW o \in Oid, OnBuyFilled(o) PROVE StatsExact'
  <2> DEFINE e == orders[o].epoch.id
  <2>1. /\ epochs' = [epochs EXCEPT ![e] = UpdatedRow(o)] /\ nEpochs' = nEpochs
        /\ purchases' = Append(purchases, PurchaseRow(o)) /\ purchases \in Seq(Buys)
        /\ PurchaseRow(o) \in Buys /\ PurchaseRow(o).epoch = e
    BY <1>1, TypedFill DEF OnBuyFilled, PurchaseRow, Typed, TypeOK
  <2>2. /\ e \in EpochId /\ e = nEpochs
        /\ UpdatedRow(o).num  = epochs[e].num + 1
        /\ UpdatedRow(o).cost = epochs[e].cost + PurchaseRow(o).cost
        /\ UpdatedRow(o).vol  = epochs[e].vol + PurchaseRow(o).qty
    BY <1>1, FillAdds
  <2> HIDE DEF e
  <2>3. /\ epochs'[e] = UpdatedRow(o)
        /\ \A f \in EpochId \ {e} : epochs'[f] = epochs[f]
    BY <2>1, <2>2 DEF Typed, TypeOK
  <2>4. ASSUME NEW f \in EpochId
        PROVE  /\ epochs'[f].num = Count(purchases', f)
               /\ epochs'[f].cost = CostIn(purchases', f)
               /\ epochs'[f].vol = QtyIn(purchases', f)
    <3>1. /\ epochs[f].num = Count(purchases, f) /\ epochs[f].cost = CostIn(purchases, f)
          /\ epochs[f].vol = QtyIn(purchases, f)
      BY DEF StatsExact, RowsExact
    <3>2. CASE f = e
      BY <2>1, <2>2, <2>3, <3>1, <3>2, CountAppend, CostAppend, QtyAppend
    <3>3. CASE f # e
      BY <2>1, <2>3, <3>1, <3>3, CountAppend, CostAppend, QtyAppend
    <3> QED BY <3>2, <3>3
  <2>5. RowsExact(epochs, purchases)'
    BY <2>4 DEF RowsExact
  <2>6. (\A f \in EpochId : f > nEpochs => NoStats(epochs[f]))'
    <3>1. \A f \in EpochId : f > nEpochs => f # e
      BY <2>2 DEF EpochId
    <3> QED BY <2>1, <2>3, <3>1 DEF StatsExact, NoStats
  <2> QED BY <1>1, <2>5, <2>6, EpochHandled DEF StatsExact
<1>2. ASSUME NEW o \in Oid, OnSellFilled(o) PROVE StatsExact'
  <2> DEFINE e == orders[o].epoch.id
             row == [epochs[e] EXCEPT !.status = "CLOSED", !.profit = orders[o].profit]
  <2>1. /\ epochs' = [epochs EXCEPT ![e] = row]
        /\ UNCHANGED <<nEpochs, purchases>>
    BY <1>2 DEF OnSellFilled
  <2>2. e \in EpochId
    BY <1>2, FillsRunningEpoch
  <2>3. SameStats(row, epochs[e])
    BY <2>2 DEF Typed, TypeOK, Rows, SameStats
  <2> HIDE DEF row, e
  <2>4. \A f \in EpochId : SameStats(epochs'[f], epochs[f])
    BY <2>1, <2>2, <2>3 DEF Typed, TypeOK, SameStats
  <2>5. RowsExact(epochs, purchases)'
    BY <2>1, <2>4 DEF StatsExact, RowsExact, SameStats
  <2>6. (\A f \in EpochId : f > nEpochs => NoStats(epochs[f]))'
    BY <2>1, <2>4 DEF StatsExact, SameStats, NoStats
  <2> QED BY <1>2, <2>5, <2>6, EpochHandled DEF StatsExact
<1>3. ASSUME ReportGone PROVE StatsExact'
  <2>1. /\ UNCHANGED <<epochs, nEpochs, purchases, orders, pending, stale>>
        /\ reports' \subseteq reports
    BY <1>3 DEF ReportGone, db, memory
  <2>2. \A o \in Oid : Live(o)' => Live(o)
    BY <2>1 DEF Live
  <2> QED BY <2>1, <2>2, ExactFrame
<1> QED BY <1>1, <1>2, <1>3 DEF ReportSteps

LEMMA ExactElsewhere ==
    ASSUME ~CrashMidFill, Typed, StatsExact, Feeds \/ Lifecycle \/ UNCHANGED vars
    PROVE  StatsExact'
<1>1. /\ UNCHANGED <<epochs, nEpochs, purchases, orders>>
      /\ reports' \subseteq reports /\ pending' \cup stale' \subseteq pending \cup stale
  <2>1. CASE Feeds
    BY <2>1 DEF Feeds, OnTicker, PriceGoesStale, OnBalances, CooldownEnds, db
  <2>2. CASE Lifecycle
    BY <2>2 DEF Lifecycle, Launch, Crash, Stop, CrashInFill, ForgetMemory, db
  <2>3. CASE UNCHANGED vars
    BY <2>3 DEF vars, db, memory
  <2> QED BY <2>1, <2>2, <2>3
<1>2. \A o \in Oid : Live(o)' => Live(o)
  BY <1>1 DEF Live
<1> QED BY <1>1, <1>2, ExactFrame

LEMMA ExactStep ==
    ASSUME ~Paper, ~ReportsMayLag, ~CrashMidFill,
           Typed, EpochInv, StatsExact, [Next]_vars
    PROVE  StatsExact'
BY ExactPoll, ExactExchange, ExactReports, ExactElsewhere DEF Next

\* When orders are real, every report is handled or lost before the next poll
\* and no crash splits a fill, every epoch's num_purchases, total_cost and
\* average price are exactly those of the fills recorded for it, for any prices,
\* any number of orders and epochs, and any stops, crashes and lost or repeated
\* reports: what the exit decision and the sold quantity rest on.
THEOREM StatsAreTheLedgers ==
    ASSUME ~Paper, ~ReportsMayLag, ~CrashMidFill
    PROVE  Spec => []StatsMatchLedger
<1>1. Init => StatsExact
  BY ExactInit
<1>2. Typed /\ EpochInv /\ StatsExact /\ [Next]_vars => StatsExact'
  BY ExactStep
<1>3. Typed /\ StatsExact => StatsMatchLedger
  <2> SUFFICES ASSUME Typed, StatsExact, NEW e \in EpochId
               PROVE  /\ epochs[e].num = Cardinality(RowsOf(e))
                      /\ epochs[e].cost = LedgerCost(e)
                      /\ epochs[e].vol * LedgerCost(e) = epochs[e].cost * LedgerQty(e)
    BY DEF StatsMatchLedger
  <2>1. /\ epochs[e].num = Count(purchases, e) /\ epochs[e].cost = CostIn(purchases, e)
        /\ epochs[e].vol = QtyIn(purchases, e)
    BY DEF StatsExact, RowsExact
  <2>2. epochs[e].cost \in Nat /\ epochs[e].vol \in Nat
    BY DEF Typed, TypeOK, Rows
  <2>3. epochs[e].vol * epochs[e].cost = epochs[e].cost * epochs[e].vol
    BY <2>2
  <2> QED BY <2>1, <2>3, LedgerSums
<1> QED BY <1>1, <1>2, <1>3, EpochAlways, PTL DEF Spec

-----------------------------------------------------------------------------
(* The tables are books *)

\* What an order was decided on: a sell reached the target with the copy of the
\* epoch it carries, a buy left its copy within the daily budget.
OrdersMeant ==
    \A o \in Oid :
        /\ orders[o].side = "SELL" =>
             /\ orders[o].epoch.num > 0 /\ orders[o].price \in Prices
             /\ orders[o].profit = orders[o].epoch.vol * orders[o].price - orders[o].epoch.cost
             /\ orders[o].profit * 100 >= TargetPct * orders[o].epoch.cost
        /\ orders[o].side = "BUY" => orders[o].epoch.cost + BuyVolume <= DailyBudget

\* The epochs that exist are the first ones.
RowsInOrder ==
    \A e \in EpochId : /\ epochs[e].status = "none" <=> e > nEpochs
                       /\ e > nEpochs => epochs[e].profit = 0

LEMMA MeantIssued ==
    ASSUME Typed, Poll, nOrders' # nOrders
    PROVE  LET o == nOrders + 1 IN
        /\ nOrders' = o
        /\ orders'[o].side = "SELL" =>
             /\ orders'[o].epoch.num > 0 /\ orders'[o].price \in Prices
             /\ orders'[o].profit = orders'[o].epoch.vol * orders'[o].price - orders'[o].epoch.cost
             /\ orders'[o].profit * 100 >= TargetPct * orders'[o].epoch.cost
        /\ orders'[o].side = "BUY" => orders'[o].epoch.cost + BuyVolume <= DailyBudget
<1>1. PollSell \/ PollBuy
  BY DEF Poll, PollHold, PollSellBlocked, PollBudgetRejected, PollReservedOnly, PollBuyBlocked
<1>2. CASE PollSell
  <2>1. MayPoll /\ TakeProfit
    BY <1>2 DEF PollSell
  <2>2. price \in Prices
    BY <2>1 DEF MayPoll, Typed, TypeOK
  <2>3. /\ Working.num > 0 /\ Profit = Working.vol * price - Working.cost
        /\ Profit * 100 >= TargetPct * Working.cost
    BY <2>1 DEF TakeProfit, Profit
  <2> HIDE DEF Working, Profit
  <2> QED BY <1>2, <2>2, <2>3, SellIssued
<1>3. CASE PollBuy
  <2>1. MayPoll /\ ~OverDaily
    BY <1>3 DEF PollBuy, MayEnter
  <2>2. Working.cost + BuyVolume <= DailyBudget
    <3>1. Working.cost \in Nat
      BY <2>1, EpochAtHand DEF Typed, Copies
    <3> QED BY <2>1, <3>1, ConfigAssumption DEF OverDaily, ConfigAssumption
  <2> HIDE DEF Working
  <2> QED BY <1>3, <2>2, BuyIssued
<1> QED BY <1>1, <1>2, <1>3

LEMMA MeantStep == Typed /\ OrdersMeant /\ [Next]_vars => OrdersMeant'
<1> SUFFICES ASSUME Typed, OrdersMeant, [Next]_vars, NEW o \in Oid
             PROVE  /\ orders'[o].side = "SELL" =>
                         /\ orders'[o].epoch.num > 0 /\ orders'[o].price \in Prices
                         /\ orders'[o].profit = orders'[o].epoch.vol * orders'[o].price
                                                  - orders'[o].epoch.cost
                         /\ orders'[o].profit * 100 >= TargetPct * orders'[o].epoch.cost
                    /\ orders'[o].side = "BUY" =>
                         orders'[o].epoch.cost + BuyVolume <= DailyBudget
  BY DEF OrdersMeant
<1>1. CASE o \in 1 .. nOrders
  <2>1. /\ orders'[o].side = orders[o].side /\ orders'[o].epoch = orders[o].epoch
        /\ orders'[o].price = orders[o].price /\ orders'[o].profit = orders[o].profit
    BY <1>1, StepsKeep DEF OrdersKeep
  <2> QED BY <2>1 DEF OrdersMeant
<1>2. CASE o \notin 1 .. nOrders /\ o \in 1 .. nOrders'
  <2>1. Poll /\ nOrders' # nOrders
    BY <1>2, OnlyPollsIssue
  <2>2. nOrders' = nOrders + 1 /\ nOrders \in Nat
    BY <2>1, MeantIssued, Constants DEF Typed, TypeOK
  <2>3. o = nOrders + 1
    BY <1>2, <2>2
  <2> QED BY <2>1, <2>3, MeantIssued
<1>3. CASE o \notin 1 .. nOrders'
  <2>1. Typed'
    BY TypedFeeds, TypedPoll, TypedExchange, TypedReports, TypedLifecycle
       DEF Next, vars, db, memory, Typed, TypeOK, Shape, OrderShape, KeyShape, ActiveShape
  <2>2. orders'[o].side = "none"
    BY <1>3, <2>1 DEF Typed, TypeOK, Orders, Shape, OrderShape
  <2> QED BY <2>2
<1> QED BY <1>1, <1>2, <1>3

LEMMA InOrderInit == Init => OrdersMeant /\ RowsInOrder
<1>1. Init => OrdersMeant
  BY DEF Init, OrdersMeant, NoOrder
<1>2. ASSUME Init PROVE RowsInOrder
  <2>1. \A e \in EpochId : epochs[e].status = "none" /\ epochs[e].profit = 0
    BY <1>2 DEF Init, NoRow
  <2>2. \A e \in EpochId : e > nEpochs
    BY <1>2, Constants DEF Init, EpochId
  <2> QED BY <2>1, <2>2 DEF RowsInOrder
<1> QED BY <1>1, <1>2

-----------------------------------------------------------------------------
(* What a step does to the rows of louise_epochs *)

\* The other rows stay as they are.
RestStay(e) == \A f \in EpochId \ {e} : epochs'[f] = epochs[f]

\* The row e is opened, gets a fill at some price, is closed with a gain.
RowOpened(e) ==
    /\ RestStay(e)
    /\ epochs[e].status = "none" /\ epochs'[e].status = "RUNNING"
    /\ \A f \in EpochId : f < e => epochs[f].status = "CLOSED"
    /\ epochs'[e].num = epochs[e].num /\ epochs'[e].cost = epochs[e].cost
    /\ epochs'[e].vol = epochs[e].vol /\ epochs'[e].profit = epochs[e].profit
RowEntered(e) ==
    /\ RestStay(e)
    /\ epochs[e].status = "RUNNING" /\ epochs'[e].status = "RUNNING"
    /\ epochs[e].cost + BuyVolume <= DailyBudget
    /\ epochs'[e].num = epochs[e].num + 1 /\ epochs'[e].cost = epochs[e].cost + BuyVolume
    /\ \E p \in Prices : epochs'[e].vol = epochs[e].vol + BuyVolume \div p
    /\ epochs'[e].profit = epochs[e].profit
RowClosed(e) ==
    /\ RestStay(e)
    /\ epochs[e].status = "RUNNING" /\ epochs'[e].status = "CLOSED"
    /\ epochs[e].num > 0
    /\ \E p \in Prices :
         /\ epochs'[e].profit = epochs[e].vol * p - epochs[e].cost
         /\ epochs'[e].profit * 100 >= TargetPct * epochs[e].cost
    /\ epochs'[e].num = epochs[e].num /\ epochs'[e].cost = epochs[e].cost
    /\ epochs'[e].vol = epochs[e].vol

\* A poll that needs an epoch opens the next one: no epoch is running then.
LEMMA PollOpens ==
    ASSUME Typed, EpochInv, StatsExact, RowsInOrder, MayPoll, OpenEpoch
    PROVE  \/ epochs' = epochs /\ nEpochs' = nEpochs
           \/ /\ nEpochs + 1 \in EpochId /\ nEpochs' = nEpochs + 1
              /\ RowOpened(nEpochs + 1)
<1>1. epochs' = OpenedRows /\ nEpochs' = IF NeedsEpoch THEN nEpochs + 1 ELSE nEpochs
  BY DEF OpenEpoch
<1>2. CASE ~NeedsEpoch
  BY <1>1, <1>2 DEF OpenedRows
<1>3. CASE NeedsEpoch
  <2> DEFINE n == nEpochs + 1
             new == [NoRow EXCEPT !.status = "RUNNING"]
  <2>1. n \in EpochId /\ nEpochs \in Nat
    BY <1>3, Constants DEF MayPoll, Typed, TypeOK, EpochId
  <2>2. /\ new.status = "RUNNING" /\ new.profit = 0
        /\ new.num = 0 /\ new.cost = 0 /\ new.vol = 0
    BY DEF NoRow
  <2>3. epochs' = [epochs EXCEPT ![n] = new]
    BY <1>1, <1>3 DEF OpenedRows
  <2> HIDE DEF new
  <2>4. epochs'[n] = new /\ RestStay(n)
    BY <2>1, <2>3 DEF Typed, TypeOK, RestStay
  <2>5. Running(epochs) = {}
    <3>1. active = NoEpoch /\ active = GetActiveEpoch(epochs)
      BY <1>3 DEF NeedsEpoch, EpochInv, MayPoll
    <3>2. GetActiveEpoch(epochs).id \notin EpochId
      BY <3>1 DEF NoEpoch, EpochId
    <3> QED BY <3>2, GetActive DEF Running, Typed, TypeOK
  <2>6. ASSUME NEW f \in EpochId, f < n PROVE epochs[f].status = "CLOSED"
    <3>1. ~(f > nEpochs)
      BY <2>1, <2>6 DEF EpochId
    <3>2. epochs[f].status # "none"
      BY <3>1 DEF RowsInOrder
    <3>3. epochs[f].status \in {"none", "RUNNING", "CLOSED"}
      BY DEF Typed, TypeOK, Rows
    <3> QED BY <2>5, <3>2, <3>3 DEF Running
  <2>7. n > nEpochs
    BY <2>1
  <2>8. epochs[n].status = "none" /\ epochs[n].profit = 0
    BY <2>1, <2>7 DEF RowsInOrder
  <2>9. epochs[n].num = 0 /\ epochs[n].cost = 0 /\ epochs[n].vol = 0
    BY <2>1, <2>7 DEF StatsExact, NoStats
  <2>10. RowOpened(n)
    <3> HIDE DEF n
    <3> QED BY <2>2, <2>4, <2>6, <2>8, <2>9 DEF RowOpened
  <2> QED BY <1>1, <1>3, <2>1, <2>10
<1> QED BY <1>2, <1>3

\* A buy's report enters the fill: its order left room for it in the budget, and
\* the copy it carries is still what the row says.
LEMMA FillEnters ==
    ASSUME ~Paper, Typed, EpochInv, StatsExact, OrdersMeant, NEW o \in Oid, OnBuyFilled(o)
    PROVE  /\ orders[o].epoch.id \in EpochId /\ nEpochs' = nEpochs
           /\ RowEntered(orders[o].epoch.id)
<1> DEFINE e == orders[o].epoch.id
<1>1. /\ e \in EpochId /\ epochs[e].status = "RUNNING"
      /\ Live(o) /\ o \in pending \cup stale
  BY FillsRunningEpoch
<1>2. /\ orders[o].side = "BUY" /\ [oid |-> o, X |-> "FILLED"] \in reports
      /\ epochs' = [epochs EXCEPT ![e] = UpdatedRow(o)] /\ nEpochs' = nEpochs
  BY DEF OnBuyFilled
<1>3. orders[o].fill \in Prices
  <2>1. orders[o].exec = "filled"
    BY <1>2 DEF Typed, Shape, KeyShape
  <2> QED BY <1>2, <2>1 DEF Typed, Shape, OrderShape
<1>4. epochs[e].cost + BuyVolume <= DailyBudget
  <2>1. orders[o].epoch.cost = epochs[e].cost
    BY <1>1 DEF StatsExact, SameStats
  <2> QED BY <1>2, <2>1 DEF OrdersMeant
<1>5. /\ UpdatedRow(o).num = epochs[e].num + 1
      /\ UpdatedRow(o).cost = epochs[e].cost + BuyVolume
      /\ UpdatedRow(o).vol = epochs[e].vol + BuyVolume \div orders[o].fill
  <2>1. PurchaseRow(o).cost = BuyVolume /\ PurchaseRow(o).qty = BuyVolume \div orders[o].fill
    BY DEF PurchaseRow, ReportedQty
  <2> QED BY <2>1, FillAdds
<1>6. UpdatedRow(o).status = epochs[e].status /\ UpdatedRow(o).profit = epochs[e].profit
  BY <1>1 DEF UpdatedRow, Typed, TypeOK, Rows
<1> HIDE DEF e
<1>7. epochs'[e] = UpdatedRow(o) /\ RestStay(e)
  BY <1>1, <1>2 DEF Typed, TypeOK, RestStay
<1>8. RowEntered(e)
  BY <1>1, <1>3, <1>4, <1>5, <1>6, <1>7 DEF RowEntered
<1> QED BY <1>1, <1>2, <1>8 DEF e

\* A sell's report closes the epoch with the gain of what the ledger holds, at the
\* price the sale was decided at.
LEMMA SaleCloses ==
    ASSUME Typed, EpochInv, StatsExact, OrdersMeant, NEW o \in Oid, OnSellFilled(o)
    PROVE  /\ orders[o].epoch.id \in EpochId /\ nEpochs' = nEpochs
           /\ RowClosed(orders[o].epoch.id)
<1> DEFINE e   == orders[o].epoch.id
           row == [epochs[e] EXCEPT !.status = "CLOSED", !.profit = orders[o].profit]
<1>1. /\ e \in EpochId /\ epochs[e].status = "RUNNING"
      /\ Live(o) /\ o \in pending \cup stale
  BY FillsRunningEpoch
<1>2. /\ orders[o].side = "SELL"
      /\ epochs' = [epochs EXCEPT ![e] = row] /\ nEpochs' = nEpochs
  BY DEF OnSellFilled
<1>3. /\ orders[o].epoch.num = epochs[e].num /\ orders[o].epoch.cost = epochs[e].cost
      /\ orders[o].epoch.vol = epochs[e].vol
  BY <1>1 DEF StatsExact, SameStats
<1>4. /\ epochs[e].num > 0 /\ orders[o].price \in Prices
      /\ orders[o].profit = epochs[e].vol * orders[o].price - epochs[e].cost
      /\ orders[o].profit * 100 >= TargetPct * epochs[e].cost
  BY <1>2, <1>3 DEF OrdersMeant
<1>5. /\ row.status = "CLOSED" /\ row.profit = orders[o].profit
      /\ row.num = epochs[e].num /\ row.cost = epochs[e].cost /\ row.vol = epochs[e].vol
  BY <1>1 DEF Typed, TypeOK, Rows
<1> HIDE DEF e, row
<1>6. epochs'[e] = row /\ RestStay(e)
  BY <1>1, <1>2 DEF Typed, TypeOK, RestStay
<1>7. RowClosed(e)
  BY <1>1, <1>4, <1>5, <1>6 DEF RowClosed
<1> QED BY <1>1, <1>2, <1>7 DEF e

\* Every step of the runner leaves the rows alone or does one of the three.
LEMMA RowsMove ==
    ASSUME ~Paper, Typed, EpochInv, StatsExact, OrdersMeant, RowsInOrder, [Next]_vars
    PROVE  \/ UNCHANGED <<epochs, nEpochs>>
           \/ /\ nEpochs + 1 \in EpochId /\ nEpochs' = nEpochs + 1 /\ RowOpened(nEpochs + 1)
           \/ /\ nEpochs' = nEpochs
              /\ \E e \in EpochId : RowEntered(e) \/ RowClosed(e)
<1>1. CASE Feeds \/ Exchange \/ Lifecycle \/ UNCHANGED vars
  BY <1>1 DEF Feeds, OnTicker, PriceGoesStale, OnBalances, CooldownEnds,
              Exchange, ExchangeFills, ExchangeExpires, CallReturns, CallRaises,
              Lifecycle, Launch, Crash, Stop, CrashInFill, vars, db
<1>2. CASE Poll
  <2>1. MayPoll /\ OpenEpoch
    BY <1>2 DEF Poll, PollHold, PollSell, PollSellBlocked, PollBudgetRejected,
                PollReservedOnly, PollBuyBlocked, PollBuy, MayEnter
  <2> QED BY <2>1, PollOpens
<1>3. CASE ReportSteps
  <2>1. CASE ReportGone
    BY <2>1 DEF ReportGone, db
  <2>2. ASSUME NEW o \in Oid, OnBuyFilled(o)
        PROVE  nEpochs' = nEpochs /\ \E e \in EpochId : RowEntered(e) \/ RowClosed(e)
    BY <2>2, FillEnters
  <2>3. ASSUME NEW o \in Oid, OnSellFilled(o)
        PROVE  nEpochs' = nEpochs /\ \E e \in EpochId : RowEntered(e) \/ RowClosed(e)
    BY <2>3, SaleCloses
  <2> QED BY <1>3, <2>1, <2>2, <2>3 DEF ReportSteps
<1> QED BY <1>1, <1>2, <1>3 DEF Next

LEMMA InOrderStep ==
    ASSUME ~Paper, Typed, EpochInv, StatsExact, OrdersMeant, RowsInOrder, [Next]_vars
    PROVE  RowsInOrder'
<1>1. CASE UNCHANGED <<epochs, nEpochs>>
  BY <1>1 DEF RowsInOrder
<1>2. CASE nEpochs + 1 \in EpochId /\ nEpochs' = nEpochs + 1 /\ RowOpened(nEpochs + 1)
  <2>1. nEpochs \in Nat /\ \A e \in EpochId : e \in Nat
    BY Constants DEF Typed, TypeOK, EpochId
  <2>2. ASSUME NEW e \in EpochId, e # nEpochs + 1
        PROVE  /\ epochs'[e].status = "none" <=> e > nEpochs + 1
               /\ e > nEpochs + 1 => epochs'[e].profit = 0
    <3>1. epochs'[e] = epochs[e]
      BY <1>2, <2>2 DEF RowOpened, RestStay
    <3>2. e > nEpochs <=> e > nEpochs + 1
      BY <2>1, <2>2
    <3> QED BY <3>1, <3>2 DEF RowsInOrder
  <2>3. epochs'[nEpochs + 1].status = "RUNNING" /\ ~(nEpochs + 1 > nEpochs + 1)
    BY <1>2, <2>1 DEF RowOpened
  <2> QED BY <1>2, <2>2, <2>3 DEF RowsInOrder
<1>3. ASSUME NEW e \in EpochId, nEpochs' = nEpochs, RowEntered(e) \/ RowClosed(e)
      PROVE  RowsInOrder'
  <2>1. RestStay(e) /\ epochs[e].status # "none" /\ epochs'[e].status # "none"
    BY <1>3 DEF RowEntered, RowClosed
  <2>2. ASSUME NEW f \in EpochId
        PROVE  /\ epochs'[f].status = "none" <=> f > nEpochs
               /\ f > nEpochs => epochs'[f].profit = 0
    <3>1. CASE f = e
      BY <2>1, <3>1 DEF RowsInOrder
    <3>2. CASE f # e
      BY <2>1, <3>2 DEF RowsInOrder, RestStay
    <3> QED BY <3>1, <3>2
  <2> QED BY <1>3, <2>2 DEF RowsInOrder
<1> QED BY <1>1, <1>2, <1>3, RowsMove

-----------------------------------------------------------------------------
(* The runner keeps the books of EpochBook *)

\* What the abstract variables are of the rows, while the statistics are exact.
Mapped ==
    /\ [e \in EpochId |-> Cardinality(RowsOf(e))] = [e \in EpochId |-> epochs[e].num]
    /\ [e \in EpochId |-> LedgerCost(e)] = [e \in EpochId |-> epochs[e].cost]
    /\ [e \in EpochId |-> LedgerQty(e)] = [e \in EpochId |-> epochs[e].vol]

LEMMA MappedRows == StatsExact => Mapped
<1> SUFFICES ASSUME StatsExact PROVE Mapped OBVIOUS
<1>1. \A e \in EpochId : /\ Cardinality(RowsOf(e)) = epochs[e].num
                          /\ LedgerCost(e) = epochs[e].cost /\ LedgerQty(e) = epochs[e].vol
  BY LedgerSums DEF StatsExact, RowsExact
<1> QED BY <1>1 DEF Mapped

\* A step on the rows is the step of the books with the same name.
LEMMA OpenedIsOpen ==
    ASSUME Mapped, Mapped', NEW e \in EpochId, RowOpened(e),
           epochs \in [EpochId -> Rows], epochs' \in [EpochId -> Rows]
    PROVE  Book!Open(e)
<1>1. [f \in EpochId |-> epochs'[f].status]
        = [[f \in EpochId |-> epochs[f].status] EXCEPT ![e] = "RUNNING"]
  BY DEF RowOpened, RestStay
<1>2. /\ [f \in EpochId |-> epochs'[f].num] = [f \in EpochId |-> epochs[f].num]
      /\ [f \in EpochId |-> epochs'[f].cost] = [f \in EpochId |-> epochs[f].cost]
      /\ [f \in EpochId |-> epochs'[f].vol] = [f \in EpochId |-> epochs[f].vol]
      /\ [f \in EpochId |-> epochs'[f].profit] = [f \in EpochId |-> epochs[f].profit]
  BY DEF RowOpened, RestStay
<1>3. epochs[e].status = "none" /\ \A f \in EpochId : f < e => epochs[f].status = "CLOSED"
  BY DEF RowOpened
<1> QED BY <1>1, <1>2, <1>3 DEF Book!Open, Mapped

LEMMA EnteredIsEnter ==
    ASSUME Mapped, Mapped', NEW e \in EpochId, RowEntered(e),
           epochs \in [EpochId -> Rows], epochs' \in [EpochId -> Rows]
    PROVE  Book!Enter(e)
<1>1. PICK p \in Prices : epochs'[e].vol = epochs[e].vol + BuyVolume \div p
  BY DEF RowEntered
<1>2. /\ [f \in EpochId |-> epochs'[f].status] = [f \in EpochId |-> epochs[f].status]
      /\ [f \in EpochId |-> epochs'[f].profit] = [f \in EpochId |-> epochs[f].profit]
  BY DEF RowEntered, RestStay
<1>3. [f \in EpochId |-> epochs'[f].num]
        = [[f \in EpochId |-> epochs[f].num] EXCEPT ![e] = @ + 1]
  BY DEF RowEntered, RestStay
<1>4. [f \in EpochId |-> epochs'[f].cost]
        = [[f \in EpochId |-> epochs[f].cost] EXCEPT ![e] = @ + BuyVolume]
  BY DEF RowEntered, RestStay
<1>5. [f \in EpochId |-> epochs'[f].vol]
        = [[f \in EpochId |-> epochs[f].vol] EXCEPT ![e] = @ + BuyVolume \div p]
  BY <1>1 DEF RowEntered, RestStay
<1>6. epochs[e].status = "RUNNING" /\ epochs[e].cost + BuyVolume <= DailyBudget
  BY DEF RowEntered
<1> QED BY <1>2, <1>3, <1>4, <1>5, <1>6 DEF Book!Enter, Mapped

LEMMA ClosedIsClose ==
    ASSUME Mapped, Mapped', NEW e \in EpochId, RowClosed(e),
           epochs \in [EpochId -> Rows], epochs' \in [EpochId -> Rows]
    PROVE  Book!Close(e)
<1>1. PICK p \in Prices :
        /\ epochs'[e].profit = epochs[e].vol * p - epochs[e].cost
        /\ epochs'[e].profit * 100 >= TargetPct * epochs[e].cost
  BY DEF RowClosed
<1>2. /\ [f \in EpochId |-> epochs'[f].num] = [f \in EpochId |-> epochs[f].num]
      /\ [f \in EpochId |-> epochs'[f].cost] = [f \in EpochId |-> epochs[f].cost]
      /\ [f \in EpochId |-> epochs'[f].vol] = [f \in EpochId |-> epochs[f].vol]
  BY DEF RowClosed, RestStay
<1>3. [f \in EpochId |-> epochs'[f].status]
        = [[f \in EpochId |-> epochs[f].status] EXCEPT ![e] = "CLOSED"]
  BY DEF RowClosed, RestStay
<1> DEFINE g == epochs[e].vol * p - epochs[e].cost
<1>4. [f \in EpochId |-> epochs'[f].profit]
        = [[f \in EpochId |-> epochs[f].profit] EXCEPT ![e] = g]
  <2> HIDE DEF g
  <2>1. epochs'[e].profit = g
    BY <1>1 DEF g
  <2> QED BY <2>1 DEF RowClosed, RestStay
<1>5. g * 100 >= TargetPct * epochs[e].cost
  BY <1>1
<1>6. epochs[e].status = "RUNNING" /\ epochs[e].num > 0
  BY DEF RowClosed
<1> DEFINE held == [f \in EpochId |-> epochs[f].vol]
           paid == [f \in EpochId |-> epochs[f].cost]
<1>7. \E q \in Prices :
        LET h == held[e] * q - paid[e] IN
        /\ h * 100 >= TargetPct * paid[e]
        /\ [f \in EpochId |-> epochs'[f].profit]
             = [[f \in EpochId |-> epochs[f].profit] EXCEPT ![e] = h]
  <2>1. held[e] = epochs[e].vol /\ paid[e] = epochs[e].cost
    OBVIOUS
  <2>2. held[e] * p - paid[e] = g
    BY <2>1
  <2> HIDE DEF held, paid, g
  <2> QED BY <1>4, <1>5, <2>1, <2>2
<1>8. /\ held = [f \in EpochId |-> LedgerQty(f)]
      /\ paid = [f \in EpochId |-> LedgerCost(f)]
  BY DEF Mapped
<1>9. /\ [f \in EpochId |-> LedgerQty(f)]' = [f \in EpochId |-> LedgerQty(f)]
      /\ [f \in EpochId |-> LedgerCost(f)]' = [f \in EpochId |-> LedgerCost(f)]
      /\ [f \in EpochId |-> Cardinality(RowsOf(f))]'
           = [f \in EpochId |-> Cardinality(RowsOf(f))]
  BY <1>2 DEF Mapped
<1>10. [f \in EpochId |-> Cardinality(RowsOf(f))][e] > 0
  BY <1>6 DEF Mapped
<1> HIDE DEF held, paid
<1> QED BY <1>3, <1>6, <1>7, <1>8, <1>9, <1>10 DEF Book!Close

LEMMA BookInit == Init /\ Mapped => Book!Init
<1> SUFFICES ASSUME Init, Mapped PROVE Book!Init OBVIOUS
<1>1. \A e \in EpochId : /\ epochs[e].status = "none" /\ epochs[e].profit = 0
                          /\ epochs[e].num = 0 /\ epochs[e].cost = 0 /\ epochs[e].vol = 0
  BY DEF Init, NoRow
<1> QED BY <1>1 DEF Book!Init, Mapped

LEMMA BookStep ==
    ASSUME ~Paper, Typed, EpochInv, StatsExact, OrdersMeant, RowsInOrder, [Next]_vars,
           Typed', Mapped, Mapped'
    PROVE  [Book!Next]_Book!vars
<1>0. epochs \in [EpochId -> Rows] /\ epochs' \in [EpochId -> Rows]
  BY DEF Typed, TypeOK
<1>1. CASE UNCHANGED <<epochs, nEpochs>>
  <2>1. \A e \in EpochId : epochs'[e] = epochs[e]
    BY <1>1
  <2> QED BY <2>1 DEF Book!vars, Mapped
<1>2. CASE nEpochs + 1 \in EpochId /\ RowOpened(nEpochs + 1)
  BY <1>0, <1>2, OpenedIsOpen DEF Book!Next
<1>3. ASSUME NEW e \in EpochId, RowEntered(e) \/ RowClosed(e) PROVE Book!Next
  BY <1>0, <1>3, EnteredIsEnter, ClosedIsClose DEF Book!Next
<1> QED BY <1>1, <1>2, <1>3, RowsMove

\* When orders are real, every report is handled or lost before the next poll and
\* no crash splits a fill, the runner implements EpochBook, for any prices, budget
\* and target, any number of orders and epochs, and any stops, crashes, failed
\* calls and lost or repeated reports: louise_epochs and louise_purchases change
\* only by opening the next epoch when all the others are closed, by entering a
\* fill in the open one within the daily budget, and by closing it once, with the
\* gain of the recorded fills at a price that reached the target.
THEOREM RunnerKeepsBooks ==
    ASSUME ~Paper, ~ReportsMayLag, ~CrashMidFill
    PROVE  Spec => KeepsBooks
<1> DEFINE Inv == Typed /\ EpochInv /\ StatsExact /\ OrdersMeant /\ RowsInOrder
<1>1. Init => StatsExact /\ OrdersMeant /\ RowsInOrder
  BY ExactInit, InOrderInit
<1>2. Inv /\ [Next]_vars => StatsExact' /\ OrdersMeant' /\ RowsInOrder'
  BY ExactStep, MeantStep, InOrderStep
<1>3. Spec => []Inv
  BY <1>1, <1>2, EpochAlways, PTL DEF Spec
<1>4. Inv => Mapped
  BY MappedRows
<1>5. Init /\ Inv => Book!Init
  BY <1>4, BookInit
<1>6. ASSUME Inv, Inv', Mapped, Mapped', [Next]_vars PROVE [Book!Next]_Book!vars
  BY <1>6, BookStep
<1>7. Spec => Book!Spec
  BY <1>3, <1>4, <1>5, <1>6, PTL DEF Spec, Book!Spec
<1> QED BY <1>7 DEF KeepsBooks

=============================================================================
