-------------------------- MODULE KlineChain_proofs --------------------------
(***************************************************************************)
(* Telemetry: the chain of Heikin-Ashi values (KlineChain), for histories  *)
(* of any length and any sizes of the two fetches; and the desktop's view  *)
(* of the bots (Console), for any number of readings and any sizes of its  *)
(* timers.                                                                 *)
(***************************************************************************)
EXTENDS KlineChain, Console, SequenceTheorems, WellFoundedInduction, TLAPS

\* Chained and UnbrokenIsWhole with the row they choose as a witness.
Before(p, n) == p \in Stored /\ p < n /\ \A m \in Stored : m < n => m <= p
First(o) == o \in Stored /\ \A k \in Stored : o <= k
Linked == \A n \in Stored :
    \/ First(n) /\ rows[n].ha = {<<n, rows[n].bar>>}
    \/ \E p \in Stored : Before(p, n) /\ rows[n].ha = {<<n, rows[n].bar>>} \cup rows[p].ha

Finals(o, n) == {<<m, "final">> : m \in o .. n - 1}
Unbroken(n) == \A b \in breaks : n <= b
Whole == \A n \in Stored : Unbroken(n) =>
    \E o \in Stored : First(o) /\ rows[n].ha = Finals(o, n) \cup {<<n, rows[n].bar>>}

\* Behind a row that is no break the next one follows, and it has closed.
NoGaps == \A n \in Stored \ breaks :
    (\E m \in Stored : n < m) => n + 1 \in Stored /\ rows[n].bar = "final"

\* A batch is a stretch of candles that reaches as far as what is stored and as
\* far as the server time; of its bars only the last may still form.
TimeUpTo(n) == clock <= n \/ clock = MaxCandles + 1
Stretch(a, b) ==
    /\ a <= b /\ b <= now /\ DOMAIN batch = a .. b
    /\ \A n \in a .. b : n < b => batch[n] = "final"
    /\ \A n \in Stored : n <= b
    /\ TimeUpTo(b)
BatchSound == batch # <<>> => \E a, b \in Candles : Stretch(a, b)
Formed == (\A n \in Stored : n <= now) /\ TimeUpTo(now)

ChainInv == TypeOK /\ Formed /\ BatchSound /\ Linked /\ NoGaps /\ Whole /\ ClosedIsFinal

-----------------------------------------------------------------------------
(* Sets of candles *)

\* A set of naturals has a least element.
LEMMA Least ==
  ASSUME NEW S, S \subseteq Nat, S # {}
  PROVE  \E n \in S : \A m \in S : n <= m
<1> DEFINE R == OpToRel(<, Nat)
<1>1. IsWellFoundedOn(R, Nat)
  BY NatLessThanWellFounded
<1>2. \A x, y \in Nat : <<y, x>> \in R <=> y < x
  BY DEF OpToRel
<1> HIDE DEF R
<1>3. PICK n \in S : \A m \in S : ~ (<<m, n>> \in R)
  BY <1>1, WFMin
<1>4. n \in Nat /\ \A m \in S : m \in Nat /\ ~ (m < n)
  BY <1>2, <1>3
<1>5. \A m \in S : n <= m
  BY <1>4
<1> QED BY <1>5

\* A bounded one has a greatest element.
LEMMA Greatest ==
  ASSUME NEW N \in Nat, NEW S, S \subseteq 1 .. N, S # {}
  PROVE  \E n \in S : \A m \in S : m <= n
<1> DEFINE T == {N - s : s \in S}
<1>1. T \subseteq Nat /\ T # {}
  <2>1. \A s \in S : N - s \in Nat
    OBVIOUS
  <2> QED BY <2>1
<1>2. PICK t \in T : \A u \in T : t <= u
  <2> HIDE DEF T
  <2> QED BY <1>1, Least
<1>3. PICK n \in S : t = N - n
  OBVIOUS
<1>4. ASSUME NEW m \in S PROVE m <= n
  <2>1. t <= N - m
    BY <1>2
  <2> QED BY <2>1, <1>3
<1> QED BY <1>4

\* What Newest returns.
LEMMA NewestIs ==
  ASSUME NEW S, S \subseteq Candles, S # {}
  PROVE  Newest(S) \in S /\ \A m \in S : m <= Newest(S)
<1>1. \E n \in S : \A m \in S : m <= n
  BY KlineAssumption, Greatest DEF Candles
<1> QED BY <1>1 DEF Newest

\* The newest of S is the only element that no other exceeds.
LEMMA NewestOnly ==
  ASSUME NEW S, S \subseteq Candles, NEW p \in S, \A m \in S : m <= p
  PROVE  Newest(S) = p
<1>1. Newest(S) \in S /\ \A m \in S : m <= Newest(S)
  BY NewestIs
<1>2. p <= Newest(S) /\ Newest(S) <= p
  BY <1>1
<1>3. p \in Int /\ Newest(S) \in Int
  <2>1. Candles \subseteq Int
    BY DEF Candles
  <2> QED BY <1>1, <2>1
<1> QED BY <1>2, <1>3

-----------------------------------------------------------------------------
(* The invariant gives what the runs check *)

LEMMA LinkedIsChained == TypeOK /\ Linked => Chained
<1> SUFFICES ASSUME TypeOK, Linked, NEW n \in Stored
             PROVE  LET older == {m \in Stored : m < n} IN
                    rows[n].ha = {<<n, rows[n].bar>>} \cup
                        IF older = {} THEN {} ELSE rows[Newest(older)].ha
  BY DEF Chained
<1> DEFINE older == {m \in Stored : m < n}
<1>1. older \subseteq Candles /\ n \in Int
  BY DEF Stored, Candles
<1>2. CASE First(n) /\ rows[n].ha = {<<n, rows[n].bar>>}
  <2>1. older = {}
    BY <1>1, <1>2 DEF First, Stored, Candles
  <2> QED BY <1>2, <2>1
<1>3. CASE \E p \in Stored :
             Before(p, n) /\ rows[n].ha = {<<n, rows[n].bar>>} \cup rows[p].ha
  <2>1. PICK p \in Stored :
             Before(p, n) /\ rows[n].ha = {<<n, rows[n].bar>>} \cup rows[p].ha
    BY <1>3
  <2>2. p \in older /\ \A m \in older : m <= p
    BY <2>1 DEF Before
  <2>3. Newest(older) = p
    <3> HIDE DEF older
    <3> QED BY <1>1, <2>2, NewestOnly
  <2> QED BY <2>1, <2>2, <2>3
<1> QED BY <1>2, <1>3 DEF Linked

LEMMA WholeIsUnbroken == TypeOK /\ Whole => UnbrokenIsWhole
<1> SUFFICES ASSUME TypeOK, Whole, NEW n \in Stored, \A b \in breaks : n <= b
             PROVE  LET oldest == CHOOSE m \in Stored : \A k \in Stored : m <= k IN
                    rows[n].ha = {<<m, "final">> : m \in oldest .. n - 1} \cup {<<n, rows[n].bar>>}
  BY DEF UnbrokenIsWhole
<1> DEFINE oldest == CHOOSE m \in Stored : \A k \in Stored : m <= k
<1>1. PICK o \in Stored : First(o) /\ rows[n].ha = Finals(o, n) \cup {<<n, rows[n].bar>>}
  BY DEF Whole, Unbroken
<1>2. oldest \in Stored /\ \A k \in Stored : oldest <= k
  BY <1>1 DEF First
<1>3. oldest = o
  <2>1. oldest <= o /\ o <= oldest
    BY <1>1, <1>2 DEF First
  <2>2. oldest \in Int /\ o \in Int
    BY <1>2 DEF Stored, Candles
  <2> HIDE DEF oldest
  <2> QED BY <2>1, <2>2
<1>4. Finals(o, n) = {<<m, "final">> : m \in o .. n - 1}
  BY DEF Finals
<1> QED BY <1>1, <1>3, <1>4

-----------------------------------------------------------------------------
(* Every action keeps the invariant *)

LEMMA InitChain == Init => ChainInv
<1> SUFFICES ASSUME Init PROVE ChainInv
  OBVIOUS
<1>1. Stored = {}
  BY DEF Init, Stored
<1>2. TypeOK
  <2>1. rows \in [Candles -> Row \cup {NoRow}]
    BY DEF Init
  <2>2. now \in Candles /\ bar \in Forming /\ clock \in 1 .. MaxCandles + 1
    BY KlineAssumption DEF Init, Candles, Forming
  <2> QED BY <1>1, <2>1, <2>2 DEF Init, TypeOK
<1>3. Formed /\ BatchSound
  BY <1>1 DEF Init, Formed, BatchSound, TimeUpTo, Candles
<1>4. Linked /\ NoGaps /\ Whole /\ ClosedIsFinal
  BY <1>1 DEF Linked, NoGaps, Whole, ClosedIsFinal
<1> QED BY <1>2, <1>3, <1>4 DEF ChainInv

\* What a step that stores nothing keeps.
LEMMA NothingStored ==
  ASSUME ChainInv, UNCHANGED <<rows, breaks, unclocked>>
  PROVE  Stored' = Stored /\ Linked' /\ NoGaps' /\ Whole' /\ ClosedIsFinal'
<1>1. Stored' = Stored
  BY DEF Stored
<1>2. Linked'
  BY <1>1 DEF ChainInv, Linked, First, Before
<1>3. Whole'
  BY <1>1 DEF ChainInv, Whole, First, Unbroken, Finals
<1>4. NoGaps' /\ ClosedIsFinal'
  BY <1>1 DEF ChainInv, NoGaps, ClosedIsFinal
<1> QED BY <1>1, <1>2, <1>3, <1>4

LEMMA ExchangeKeeps == ChainInv /\ (Trade \/ CandleCloses) => ChainInv'
<1> SUFFICES ASSUME ChainInv, Trade \/ CandleCloses PROVE ChainInv'
  OBVIOUS
<1>1. UNCHANGED <<rows, bootstrapped, tick, breaks, unclocked>>
      /\ now' \in Candles /\ now <= now' /\ bar' \in Forming /\ now \in Candles
  BY KlineAssumption DEF ChainInv, TypeOK, Trade, CandleCloses, Candles, Forming
<1>2. Stored' = Stored /\ Linked' /\ NoGaps' /\ Whole' /\ ClosedIsFinal'
  BY <1>1, NothingStored
<1>3. TypeOK'
  BY <1>1, <1>2 DEF ChainInv, TypeOK, tick, Candles
<1>4. Formed'
  BY <1>1, <1>2 DEF ChainInv, TypeOK, Formed, TimeUpTo, tick, Candles, Stored
<1>5. BatchSound'
  BY <1>1, <1>2 DEF ChainInv, BatchSound, Stretch, TimeUpTo, tick, Candles
<1> QED BY <1>2, <1>3, <1>4, <1>5 DEF ChainInv

\* The steps of a tick that leave it without a batch.
LEMMA TickKeeps ==
  ChainInv /\ (TickBegins \/ TimeAnswered \/ FetchFails \/ StoreFails \/ Restart) => ChainInv'
<1> SUFFICES ASSUME ChainInv, TickBegins \/ TimeAnswered \/ FetchFails \/ StoreFails \/ Restart
             PROVE  ChainInv'
  OBVIOUS
<1>1. UNCHANGED <<exchange, rows, breaks, unclocked>>
      /\ bootstrapped' \in BOOLEAN /\ phase' \in {"idle", "time", "klines"}
  BY DEF ChainInv, TypeOK, TickBegins, TimeAnswered, FetchFails, StoreFails, Restart, exchange
<1>1a. clock' \in {clock, now, MaxCandles + 1}
  BY DEF TickBegins, TimeAnswered, FetchFails, StoreFails, Restart
<1>1b. now \in 1 .. MaxCandles /\ MaxCandles \in Nat /\ clock \in 1 .. MaxCandles + 1
  BY KlineAssumption DEF ChainInv, TypeOK, Candles
<1>1c. clock' \in 1 .. MaxCandles + 1 /\ TimeUpTo(now)'
  BY <1>1, <1>1a, <1>1b DEF ChainInv, Formed, TimeUpTo, exchange
<1>2. batch' = <<>>
  BY DEF ChainInv, TypeOK, TickBegins, TimeAnswered, FetchFails, StoreFails, Restart
<1>3. Stored' = Stored /\ Linked' /\ NoGaps' /\ Whole' /\ ClosedIsFinal'
  BY <1>1, NothingStored
<1>4. TypeOK' /\ Formed' /\ BatchSound'
  BY <1>1, <1>1c, <1>2, <1>3 DEF ChainInv, TypeOK, Formed, BatchSound, exchange
<1> QED BY <1>3, <1>4 DEF ChainInv

LEMMA AnswerKeeps == ChainInv /\ KlinesAnswered => ChainInv'
<1> SUFFICES ASSUME ChainInv, KlinesAnswered PROVE ChainInv'
  OBVIOUS
<1>1. Limit \in Nat \ {0}
  BY KlineAssumption DEF Limit
<1>2. now \in 1 .. MaxCandles /\ MaxCandles \in Nat /\ now \in Nat
  BY KlineAssumption DEF ChainInv, TypeOK, Candles
<1>3. PICK a \in Candles : a = IF now < Limit THEN 1 ELSE now - Limit + 1
  <2>1. (IF now < Limit THEN 1 ELSE now - Limit + 1) \in 1 .. MaxCandles
    BY <1>1, <1>2
  <2> QED BY <2>1 DEF Candles
<1>4. a <= now /\ {m \in Candles : now - Limit < m /\ m <= now} = a .. now
  BY <1>1, <1>2, <1>3 DEF Candles
<1>5. batch' = [n \in a .. now |-> BarOf(n)]
  BY <1>4 DEF KlinesAnswered
<1>6. UNCHANGED <<exchange, rows, bootstrapped, phase, clock, breaks, unclocked>> /\ phase = "klines"
  BY DEF KlinesAnswered
<1>7. Stored' = Stored /\ Linked' /\ NoGaps' /\ Whole' /\ ClosedIsFinal'
  BY <1>6, NothingStored
<1>8. \A n \in a .. now : BarOf(n) \in Bars /\ (n < now => BarOf(n) = "final")
  BY DEF BarOf, Bars, ChainInv, TypeOK
<1>9. TypeOK'
  <2>1. DOMAIN batch' \subseteq 1 .. now' /\ batch' \in [DOMAIN batch' -> Bars]
    BY <1>2, <1>3, <1>4, <1>5, <1>6, <1>8 DEF exchange, Candles
  <2> QED BY <2>1, <1>6, <1>7 DEF ChainInv, TypeOK, exchange
<1>10. Formed'
  BY <1>6, <1>7 DEF ChainInv, Formed, TimeUpTo, exchange
<1>11. PICK b \in Candles : b = now /\ now' = now
  BY <1>2, <1>6 DEF Candles, exchange
<1>12. Stretch(a, b)'
  <2>1. a <= b /\ b <= now' /\ DOMAIN batch' = a .. b
    BY <1>2, <1>4, <1>5, <1>11
  <2>2. \A n \in a .. b : n < b => batch'[n] = "final"
    BY <1>5, <1>8, <1>11
  <2>3. (\A n \in Stored' : n <= b) /\ TimeUpTo(b)'
    BY <1>6, <1>7, <1>11 DEF ChainInv, Formed, TimeUpTo
  <2> QED BY <2>1, <2>2, <2>3 DEF Stretch
<1>13. BatchSound'
  BY <1>12 DEF BatchSound
<1> QED BY <1>7, <1>9, <1>10, <1>13 DEF ChainInv

\* What Store leaves of the rows, when it stores the stretch from a to b.
LEMMA RowsStored ==
  ASSUME ChainInv, Store, NEW a \in Candles, NEW b \in Candles, Stretch(a, b)
  PROVE  /\ a \in 1 .. MaxCandles /\ b \in 1 .. MaxCandles /\ MaxCandles \in Nat
         /\ Oldest = a
         /\ Stored' = {n \in Stored : n < a} \cup a .. b
         /\ rows' \in [Candles -> Row \cup {NoRow}]
         /\ \A n \in Stored : n < a => rows'[n] = rows[n]
         /\ \A n \in a .. b : /\ rows'[n].bar = batch[n]
                              /\ rows'[n].closed => n < clock
                              /\ rows'[n].ha = LastBefore(a) \cup FromBatch(n)
<1>1. a \in 1 .. MaxCandles /\ b \in 1 .. MaxCandles /\ MaxCandles \in Nat /\ a <= b
  BY KlineAssumption DEF Candles, Stretch
<1>2. DOMAIN batch = a .. b
  BY DEF Stretch
<1>3. Oldest = a
  <2>1. a \in DOMAIN batch /\ \A m \in DOMAIN batch : a <= m
    BY <1>1, <1>2
  <2>2. Oldest \in DOMAIN batch /\ \A m \in DOMAIN batch : Oldest <= m
    BY <2>1 DEF Oldest
  <2>3. Oldest <= a /\ a <= Oldest /\ Oldest \in Int
    BY <1>1, <1>2, <2>1, <2>2
  <2> QED BY <1>1, <2>3
<1>4. batch # <<>> /\ rows' = Upserted
  BY DEF Store
<1>5. batch \in [a .. b -> Bars]
  BY <1>2, <1>4 DEF ChainInv, TypeOK
<1>6. LastBefore(a) \subseteq Candles \X Bars
  <2> DEFINE older == {m \in Stored : m < a}
  <2>1. CASE older = {}
    BY <2>1 DEF LastBefore
  <2>2. CASE older # {}
    <3>1. Newest(older) \in Stored /\ Newest(older) \in Candles
      BY <2>2, NewestIs DEF Stored
    <3>2. rows[Newest(older)] \in Row
      BY <3>1 DEF ChainInv, TypeOK, Stored
    <3>3. LastBefore(a) = rows[Newest(older)].ha
      BY <2>2 DEF LastBefore
    <3> HIDE DEF older
    <3> QED BY <3>2, <3>3 DEF Row
  <2> QED BY <2>1, <2>2
<1>7. ASSUME NEW n \in a .. b PROVE FromBatch(n) \subseteq Candles \X Bars
  BY <1>1, <1>2, <1>5 DEF FromBatch, Candles
<1>8. ASSUME NEW n \in a .. b
      PROVE  /\ n \in Candles
             /\ rows'[n] \in Row /\ rows'[n] # NoRow
             /\ rows'[n].bar = batch[n]
             /\ rows'[n].closed => n < clock
             /\ rows'[n].ha = LastBefore(a) \cup FromBatch(n)
  <2>1. n \in Candles
    BY <1>1 DEF Candles
  <2>2. rows'[n] = [bar |-> batch[n], closed |-> (n < clock),
                    ha |-> LastBefore(a) \cup FromBatch(n)]
    BY <1>2, <1>3, <1>4, <2>1 DEF Upserted, Averaged, Closed
  <2>3. rows'[n] \in Row
    BY <1>5, <1>6, <1>7, <2>2 DEF Row
  <2>4. rows'[n].bar # "none"
    BY <2>3 DEF Row, Bars, Forming
  <2>5. rows'[n].bar = batch[n] /\ rows'[n].ha = LastBefore(a) \cup FromBatch(n)
    BY <2>2
  <2>6. rows'[n].closed => n < clock
    <3>1. rows'[n].closed = Closed(n)
      BY <1>2, <1>3, <1>4, <2>1 DEF Upserted, Averaged
    <3> QED BY <3>1 DEF Closed
  <2> QED BY <2>1, <2>3, <2>4, <2>5, <2>6 DEF NoRow
<1>9. ASSUME NEW n \in Candles, n \notin a .. b PROVE rows'[n] = rows[n]
  BY <1>2, <1>4, <1>9 DEF Upserted
<1>10. rows' \in [Candles -> Row \cup {NoRow}]
  <2>1. rows' = [n \in Candles |-> rows'[n]]
    BY <1>4 DEF Upserted
  <2>2. \A n \in Candles : rows'[n] \in Row \cup {NoRow}
    BY <1>8, <1>9 DEF ChainInv, TypeOK
  <2> QED BY <2>1, <2>2
<1>11. ASSUME NEW n \in Candles
       PROVE  n \in Stored' <=> (n \in Stored /\ n < a) \/ n \in a .. b
  <2>1. n \in Stored => n <= b
    BY DEF Stretch
  <2>2. n \in Stored' <=> rows'[n] # NoRow
    BY DEF Stored
  <2>3. n \in Stored <=> rows[n] # NoRow
    BY DEF Stored
  <2>4. n \in a .. b \/ n < a \/ b < n
    BY <1>1 DEF Candles
  <2>5. CASE n \in a .. b
    BY <1>1, <1>8, <2>2, <2>5
  <2>6. CASE n < a
    BY <1>1, <1>9, <2>2, <2>3, <2>6
  <2>7. CASE b < n
    BY <1>1, <1>9, <2>1, <2>2, <2>3, <2>7
  <2> QED BY <2>4, <2>5, <2>6, <2>7
<1>12. Stored' = {n \in Stored : n < a} \cup a .. b
  <2>1. Stored' \subseteq Candles /\ Stored \subseteq Candles /\ a .. b \subseteq Candles
    BY <1>1 DEF Stored, Candles
  <2> QED BY <1>11, <2>1
<1>13. ASSUME NEW n \in Stored, n < a PROVE rows'[n] = rows[n]
  <2>1. n \in Candles /\ n \notin a .. b
    BY <1>1, <1>13 DEF Stored
  <2> QED BY <1>9, <2>1
<1>14. \A n \in Stored : n < a => rows'[n] = rows[n]
  BY <1>13
<1>15. \A n \in a .. b : /\ rows'[n].bar = batch[n]
                         /\ rows'[n].closed => n < clock
                         /\ rows'[n].ha = LastBefore(a) \cup FromBatch(n)
  BY <1>8
<1> QED BY <1>1, <1>3, <1>10, <1>12, <1>14, <1>15
\* What the row n of a batch continues: the row before the batch, if there is
\* one, and the bars of the batch up to n.
LEMMA Continues ==
  ASSUME ChainInv, NEW a \in Candles
  PROVE  \/ (\A m \in Stored : ~(m < a)) /\ LastBefore(a) = {}
         \/ \E p \in Stored : Before(p, a) /\ LastBefore(a) = rows[p].ha
<1> DEFINE older == {m \in Stored : m < a}
<1>1. CASE older = {}
  BY <1>1 DEF LastBefore
<1>2. CASE older # {}
  <2>1. older \subseteq Candles
    BY DEF Stored
  <2>2. Newest(older) \in older /\ \A m \in older : m <= Newest(older)
    <3> HIDE DEF older
    <3> QED BY <1>2, <2>1, NewestIs
  <2>3. PICK p \in Stored : p = Newest(older)
    BY <2>2
  <2>4. Before(p, a)
    BY <2>2, <2>3 DEF Before
  <2>5. LastBefore(a) = rows[p].ha
    BY <1>2, <2>3 DEF LastBefore
  <2> QED BY <2>4, <2>5
<1> QED BY <1>1, <1>2

\* What the bars of a batch up to n are.
LEMMA FromBatchIs ==
  ASSUME NEW a \in Int, NEW b \in Int, Stretch(a, b), NEW n \in a .. b
  PROVE  /\ FromBatch(n) = Finals(a, n) \cup {<<n, batch[n]>>}
         /\ n = a => FromBatch(n) = {<<n, batch[n]>>}
         /\ a < n => FromBatch(n) = FromBatch(n - 1) \cup {<<n, batch[n]>>}
<1>1. DOMAIN batch = a .. b /\ \A m \in a .. b : m < b => batch[m] = "final"
  BY DEF Stretch
<1>2. {k \in DOMAIN batch : k <= n} = a .. n
  BY <1>1
<1>3. FromBatch(n) = {<<m, batch[m]>> : m \in a .. n}
  BY <1>2 DEF FromBatch
<1>4. a .. n = (a .. n - 1) \cup {n} /\ \A m \in a .. n - 1 : batch[m] = "final"
  BY <1>1
<1>5. FromBatch(n) = Finals(a, n) \cup {<<n, batch[n]>>}
  BY <1>3, <1>4 DEF Finals
<1>6. ASSUME n = a PROVE FromBatch(n) = {<<n, batch[n]>>}
  <2>1. a .. n = {n}
    BY <1>6
  <2> QED BY <1>3, <2>1
<1>7. ASSUME a < n PROVE FromBatch(n) = FromBatch(n - 1) \cup {<<n, batch[n]>>}
  <2>1. {k \in DOMAIN batch : k <= n - 1} = a .. n - 1
    BY <1>1, <1>7
  <2>2. FromBatch(n - 1) = {<<m, batch[m]>> : m \in a .. n - 1}
    BY <2>1 DEF FromBatch
  <2> QED BY <1>3, <1>4, <2>2
<1> QED BY <1>5, <1>6, <1>7

\* Final bars up to a - 1 and from a on are final bars in one piece.
LEMMA FinalsJoin ==
  ASSUME NEW o \in Int, NEW a \in Int, NEW n \in Int, o < a, a <= n
  PROVE  (Finals(o, a - 1) \cup {<<a - 1, "final">>}) \cup Finals(a, n) = Finals(o, n)
<1>1. o .. n - 1 = (o .. a - 2) \cup {a - 1} \cup (a .. n - 1)
  OBVIOUS
<1>2. (a - 1) - 1 = a - 2
  OBVIOUS
<1>3. Finals(o, a - 1) = {<<m, "final">> : m \in o .. a - 2}
  BY <1>2 DEF Finals
<1> QED BY <1>1, <1>3 DEF Finals

LEMMA StoreKeeps == ChainInv /\ Store => ChainInv'
<1> SUFFICES ASSUME ChainInv, Store PROVE ChainInv'
  OBVIOUS
<1>1. PICK a \in Candles, b \in Candles : Stretch(a, b)
  BY DEF ChainInv, BatchSound, Store
<1>2. /\ a \in 1 .. MaxCandles /\ b \in 1 .. MaxCandles /\ MaxCandles \in Nat
      /\ Oldest = a
      /\ Stored' = {n \in Stored : n < a} \cup a .. b
      /\ rows' \in [Candles -> Row \cup {NoRow}]
      /\ \A n \in Stored : n < a => rows'[n] = rows[n]
      /\ \A n \in a .. b : /\ rows'[n].bar = batch[n]
                           /\ rows'[n].closed => n < clock
                           /\ rows'[n].ha = LastBefore(a) \cup FromBatch(n)
  BY <1>1, RowsStored
<1>3. /\ a <= b /\ b <= now /\ DOMAIN batch = a .. b
      /\ \A n \in a .. b : n < b => batch[n] = "final"
      /\ \A n \in Stored : n <= b
      /\ TimeUpTo(b)
  BY <1>1 DEF Stretch
<1>4. /\ batch' = <<>> /\ phase' = "idle" /\ bootstrapped' = TRUE
      /\ UNCHANGED <<now, bar, clock>>
      /\ breaks' = {n \in breaks : n < a} \cup
                   {n \in Stored : n < a /\ \A m \in Stored : m <= n}
      /\ unclocked' = IF clock > MaxCandles THEN unclocked \cup a .. b
                      ELSE unclocked \ a .. b
  BY <1>2, <1>3 DEF Store, exchange
<1>5. Stored \subseteq Candles /\ Candles \subseteq Int /\ a .. b \subseteq Candles
      /\ breaks \subseteq Stored /\ unclocked \subseteq Stored
  BY <1>2 DEF Stored, Candles, ChainInv, TypeOK
<1>6. TypeOK'
  <2>1. breaks' \subseteq Stored'
    BY <1>2, <1>4, <1>5
  <2>2. ASSUME NEW n \in unclocked' PROVE n \in Stored'
    <3>1. CASE n \in a .. b
      BY <1>2, <3>1
    <3>2. CASE n \notin a .. b
      <4>1. n \in Stored /\ n <= b /\ n \in Int
        BY <1>3, <1>4, <1>5, <3>2
      <4>2. n < a
        BY <1>2, <3>2, <4>1
      <4> QED BY <1>2, <4>1, <4>2
    <3> QED BY <3>1, <3>2
  <2> QED BY <1>2, <1>4, <2>1, <2>2 DEF ChainInv, TypeOK
<1>7. Formed' /\ BatchSound'
  <2>1. now \in Int
    BY DEF ChainInv, TypeOK, Candles
  <2>2. \A n \in Stored' : n <= now
    BY <1>2, <1>3, <1>5, <2>1
  <2> QED BY <1>4, <2>2 DEF ChainInv, Formed, BatchSound, TimeUpTo
<1>8. \A n \in Stored' : n <= b /\ n \in Candles /\ n \in Int /\ (n < a => n \in Stored)
  BY <1>2, <1>3, <1>5
<1>9. NoGaps'
  <2> SUFFICES ASSUME NEW n \in Stored', n \notin breaks', NEW m \in Stored', n < m
               PROVE  n + 1 \in Stored' /\ rows'[n].bar = "final"
    BY DEF NoGaps
  <2>1. CASE n \in a .. b
    <3>1. n < b /\ n + 1 \in a .. b
      BY <1>2, <1>8, <2>1
    <3> QED BY <1>2, <1>3, <2>1, <3>1
  <2>2. CASE n < a
    <3>1. n \in Stored /\ n \notin breaks /\ ~ \A k \in Stored : k <= n
      BY <1>4, <1>8, <2>2
    <3>2. \E k \in Stored : n < k
      BY <1>5, <1>8, <3>1
    <3>3. n + 1 \in Stored /\ rows[n].bar = "final"
      BY <3>1, <3>2 DEF ChainInv, NoGaps
    <3>4. n + 1 \in Stored'
      BY <1>2, <1>3, <1>5, <3>3
    <3> QED BY <1>2, <2>2, <3>1, <3>3, <3>4
  <2> QED BY <1>2, <2>1, <2>2
<1>10. ClosedIsFinal'
  <2> SUFFICES ASSUME NEW n \in Stored', n \notin unclocked', rows'[n].closed
               PROVE  rows'[n].bar = "final"
    BY DEF ClosedIsFinal
  <2>1. CASE n \in a .. b
    <3>1. ~ (clock > MaxCandles) /\ n < clock /\ clock \in Int
      BY <1>2, <1>4, <2>1 DEF ChainInv, TypeOK
    <3>2. clock <= b
      BY <1>2, <1>3, <3>1 DEF TimeUpTo
    <3>3. n < b
      BY <1>2, <2>1, <3>1, <3>2
    <3> QED BY <1>2, <1>3, <2>1, <3>3
  <2>2. CASE n < a
    <3>1. n \in Stored /\ n \notin unclocked /\ rows'[n] = rows[n]
      BY <1>2, <1>4, <1>8, <2>2
    <3> QED BY <3>1 DEF ChainInv, ClosedIsFinal
  <2> QED BY <1>2, <2>1, <2>2
<1>11. \A n \in Stored : n < a => n \in Stored' /\ rows'[n] = rows[n] /\ n \in Int
  BY <1>2, <1>5
<1>12. ASSUME NEW o \in Stored, First(o), o < a PROVE First(o)'
  <2>1. ASSUME NEW k \in Stored' PROVE o <= k
    <3>1. CASE k < a
      BY <1>8, <1>12, <3>1 DEF First
    <3>2. CASE k \in a .. b
      BY <1>2, <1>11, <1>12, <3>2
    <3> QED BY <1>2, <3>1, <3>2
  <2> QED BY <1>11, <1>12, <2>1 DEF First
<1>13. ASSUME NEW p \in Stored, NEW n \in Int, Before(p, n), n <= a PROVE Before(p, n)'
  <2>1. p < n /\ p < a /\ \A m \in Stored : m < n => m <= p
    BY <1>2, <1>5, <1>13 DEF Before
  <2>2. ASSUME NEW m \in Stored', m < n PROVE m <= p
    <3>1. m < a
      BY <1>2, <1>8, <1>13, <2>2
    <3> QED BY <1>8, <2>1, <2>2, <3>1
  <2> QED BY <1>11, <2>1, <2>2 DEF Before
<1>14. ASSUME \A m \in Stored : ~(m < a) PROVE First(a)'
  <2>1. a \in Stored'
    BY <1>2, <1>3
  <2>2. \A k \in Stored' : k \in a .. b
    BY <1>2, <1>14
  <2> QED BY <2>1, <2>2 DEF First
<1>15. ASSUME NEW n \in a .. b
       PROVE  /\ n \in Stored' /\ n \in Int /\ rows'[n].bar = batch[n]
              /\ rows'[n].ha = LastBefore(a) \cup FromBatch(n)
              /\ FromBatch(n) = Finals(a, n) \cup {<<n, batch[n]>>}
              /\ n = a => FromBatch(n) = {<<n, batch[n]>>}
              /\ a < n => FromBatch(n) = FromBatch(n - 1) \cup {<<n, batch[n]>>}
  <2>1. a \in Int /\ b \in Int
    BY <1>2
  <2> QED BY <1>1, <1>2, <2>1, FromBatchIs
<1>16. Linked'
  <2> SUFFICES ASSUME NEW n \in Stored'
               PROVE  \/ First(n)' /\ rows'[n].ha = {<<n, rows'[n].bar>>}
                      \/ \E p \in Stored' : /\ Before(p, n)'
                                            /\ rows'[n].ha = {<<n, rows'[n].bar>>} \cup rows'[p].ha
    BY DEF Linked
  <2>1. CASE n < a
    <3>1. n \in Stored /\ rows'[n] = rows[n] /\ n \in Int
      BY <1>8, <1>11, <2>1
    <3>2. CASE First(n) /\ rows[n].ha = {<<n, rows[n].bar>>}
      BY <1>12, <2>1, <3>1, <3>2
    <3>3. CASE \E p \in Stored : Before(p, n) /\ rows[n].ha = {<<n, rows[n].bar>>} \cup rows[p].ha
      <4>1. PICK p \in Stored : Before(p, n) /\ rows[n].ha = {<<n, rows[n].bar>>} \cup rows[p].ha
        BY <3>3
      <4>2. Before(p, n)'
        BY <1>2, <1>13, <2>1, <3>1, <4>1
      <4>3. p \in Stored' /\ rows'[p] = rows[p]
        <5>1. p \in Stored /\ p < n
          BY <4>1 DEF Before
        <5>2. p \in Int /\ n \in Int /\ a \in Int
          BY <1>2, <1>5, <3>1, <5>1
        <5>3. p < a
          BY <2>1, <5>1, <5>2
        <5> QED BY <1>11, <5>1, <5>3
      <4> QED BY <3>1, <4>1, <4>2, <4>3
    <3> QED BY <3>1, <3>2, <3>3 DEF ChainInv, Linked
  <2>2. CASE n = a
    <3>1. n \in a .. b
      BY <1>2, <1>3, <2>2
    <3>2. rows'[n].ha = LastBefore(a) \cup {<<n, rows'[n].bar>>}
      BY <1>15, <2>2, <3>1
    <3>3. CASE (\A m \in Stored : ~(m < a)) /\ LastBefore(a) = {}
      BY <1>14, <2>2, <3>2, <3>3
    <3>4. CASE \E p \in Stored : Before(p, a) /\ LastBefore(a) = rows[p].ha
      <4>1. PICK p \in Stored : Before(p, a) /\ LastBefore(a) = rows[p].ha
        BY <3>4
      <4>2. p < a /\ a \in Int /\ a <= a
        BY <1>2, <4>1 DEF Before
      <4>3. Before(p, a)' /\ p \in Stored' /\ rows'[p] = rows[p]
        BY <1>11, <1>13, <4>1, <4>2
      <4>4. rows'[n].ha = {<<n, rows'[n].bar>>} \cup rows'[p].ha
        BY <3>2, <4>1, <4>3
      <4> QED BY <2>2, <4>3, <4>4
    <3> QED BY <3>3, <3>4, Continues
  <2>3. CASE n \in a .. b /\ a < n
    <3>1. n - 1 \in a .. b
      BY <1>2, <2>3
    <3>2. rows'[n].ha = {<<n, rows'[n].bar>>} \cup rows'[n - 1].ha
      <4>1. rows'[n].ha = LastBefore(a) \cup (FromBatch(n - 1) \cup {<<n, rows'[n].bar>>})
        BY <1>15, <2>3
      <4>2. rows'[n - 1].ha = LastBefore(a) \cup FromBatch(n - 1)
        BY <1>15, <3>1
      <4> QED BY <4>1, <4>2
    <3>3. Before(n - 1, n)'
      BY <1>8, <1>15, <2>3, <3>1 DEF Before
    <3> QED BY <1>15, <3>1, <3>2, <3>3
  <2> QED BY <1>2, <2>1, <2>2, <2>3
<1>17. Whole'
  <2> SUFFICES ASSUME NEW n \in Stored', \A k \in breaks' : n <= k
               PROVE  \E o \in Stored' : First(o)' /\ rows'[n].ha = Finals(o, n) \cup {<<n, rows'[n].bar>>}
    BY DEF Whole, Unbroken, Finals
  <2>1. CASE n < a
    <3>1. n \in Stored /\ rows'[n] = rows[n] /\ n \in Int
      BY <1>8, <1>11, <2>1
    <3>2. ASSUME NEW k \in breaks PROVE n <= k
      <4>1. k \in Int
        BY <1>5
      <4>2. CASE k < a
        BY <1>4, <4>2
      <4>3. CASE a <= k
        BY <1>2, <2>1, <3>1, <4>1, <4>3
      <4> QED BY <1>2, <4>1, <4>2, <4>3
    <3>3. PICK o \in Stored : First(o) /\ rows[n].ha = Finals(o, n) \cup {<<n, rows[n].bar>>}
      BY <3>1, <3>2 DEF ChainInv, Whole, Unbroken
    <3>4. o < a
      BY <1>2, <1>5, <2>1, <3>1, <3>3 DEF First
    <3> QED BY <1>11, <1>12, <3>1, <3>3, <3>4
  <2>2. CASE n \in a .. b
    <3>1. \A k \in breaks : ~(k < a)
      BY <1>2, <1>4, <1>5, <2>2
    <3>2. \A p \in Stored : p < a => \E m \in Stored : p < m
      <4>1. \A p \in Stored : p < a => ~ \A m \in Stored : m <= p
        BY <1>2, <1>4, <1>5, <2>2
      <4> QED BY <1>5, <4>1
    <3>3. rows'[n].ha = LastBefore(a) \cup (Finals(a, n) \cup {<<n, rows'[n].bar>>})
      BY <1>15, <2>2
    <3>4. CASE (\A m \in Stored : ~(m < a)) /\ LastBefore(a) = {}
      <4>1. First(a)' /\ a \in Stored'
        BY <1>14, <3>4 DEF First
      <4>2. rows'[n].ha = Finals(a, n) \cup {<<n, rows'[n].bar>>}
        BY <3>3, <3>4
      <4> QED BY <4>1, <4>2
    <3>5. CASE \E p \in Stored : Before(p, a) /\ LastBefore(a) = rows[p].ha
      <4>1. PICK p \in Stored : Before(p, a) /\ LastBefore(a) = rows[p].ha
        BY <3>5
      <4>2. p < a /\ p \in Int /\ p \notin breaks /\ \E m \in Stored : p < m
        BY <1>5, <3>1, <3>2, <4>1 DEF Before
      <4>3. p + 1 \in Stored /\ rows[p].bar = "final"
        BY <4>2 DEF ChainInv, NoGaps
      <4>4. p = a - 1
        BY <1>2, <4>1, <4>2, <4>3 DEF Before
      <4>5. Unbroken(p)
        BY <1>2, <1>5, <3>1, <4>2 DEF Unbroken
      <4>6. PICK o \in Stored : First(o) /\ rows[p].ha = Finals(o, p) \cup {<<p, "final">>}
        BY <4>3, <4>5 DEF ChainInv, Whole
      <4>7. o <= p /\ o \in Int /\ o < a /\ a \in Int /\ n \in Int /\ a <= n
        BY <1>2, <1>5, <2>2, <4>2, <4>6 DEF First
      <4>8. LastBefore(a) = Finals(o, a - 1) \cup {<<a - 1, "final">>}
        BY <4>1, <4>4, <4>6
      <4>9. LastBefore(a) \cup Finals(a, n) = Finals(o, n)
        BY <4>7, <4>8, FinalsJoin
      <4>10. rows'[n].ha = Finals(o, n) \cup {<<n, rows'[n].bar>>}
        BY <3>3, <4>9
      <4>11. First(o)' /\ o \in Stored'
        BY <1>11, <1>12, <4>6, <4>7
      <4> QED BY <4>10, <4>11
    <3> QED BY <3>4, <3>5, Continues
  <2> QED BY <1>2, <2>1, <2>2
<1> QED BY <1>6, <1>7, <1>9, <1>10, <1>16, <1>17 DEF ChainInv

-----------------------------------------------------------------------------
LEMMA NextKeeps == ChainInv /\ [Next]_vars => ChainInv'
<1>1. ASSUME ChainInv, UNCHANGED vars PROVE ChainInv'
  <2>1. UNCHANGED <<now, bar, rows, bootstrapped, phase, clock, batch, breaks, unclocked>>
    BY <1>1 DEF vars, exchange, tick
  <2>2. Stored' = Stored /\ Linked' /\ NoGaps' /\ Whole' /\ ClosedIsFinal'
    BY <1>1, <2>1, NothingStored
  <2>3. TypeOK' /\ Formed' /\ BatchSound'
    BY <1>1, <2>1, <2>2 DEF ChainInv, TypeOK, Formed, BatchSound, Stretch, TimeUpTo
  <2> QED BY <2>2, <2>3 DEF ChainInv
<1> QED BY <1>1, ExchangeKeeps, TickKeeps, AnswerKeeps, StoreKeeps DEF Next

LEMMA ChainInvariant == Spec => []ChainInv
  BY InitChain, NextKeeps, PTL DEF Spec

\* Every variable has its type (kline_history, _bootstrapped, the locals of
\* _tick).
THEOREM KlineTypes == Spec => []TypeOK
<1>1. ChainInv => TypeOK
  BY DEF ChainInv
<1> QED BY <1>1, ChainInvariant, PTL

\* The value of a row continues that of the stored row before it, whatever the
\* batches were (store_klines_with_ha).
THEOREM RowsAreChained == Spec => []Chained
<1>1. ChainInv => Chained
  BY LinkedIsChained DEF ChainInv
<1> QED BY <1>1, ChainInvariant, PTL

\* Ingesting in chunks, failures and restarts cause no drift: behind no break a
\* value is the one of a single pass over the final bars (_tick,
\* store_klines_with_ha).
THEOREM ChunksDoNotDrift == Spec => []UnbrokenIsWhole
<1>1. ChainInv => UnbrokenIsWhole
  BY WholeIsUnbroken DEF ChainInv
<1> QED BY <1>1, ChainInvariant, PTL

\* A row stored with the server time is marked closed on its final bar only
\* (_tick).
THEOREM ClosedRowsAreFinal == Spec => []ClosedIsFinal
<1>1. ChainInv => ClosedIsFinal
  BY DEF ChainInv
<1> QED BY <1>1, ChainInvariant, PTL

-----------------------------------------------------------------------------
(* The desktop console: its constants and variables; `behind' is its `behind'. *)

\* The last of the messages of w that brings the bots brings them as they are
\* in b; or none does, and they are shown so already.
Silent(w) == \A i \in 1 .. Len(w) : w[i].bots = None
Brings(w, b) == \E i \in 1 .. Len(w) :
    w[i].bots = b /\ \A j \in 1 .. Len(w) : i < j => w[j].bots = None
Coming(w, b, p) == Brings(w, b) \/ (p = b /\ Silent(w))

\* The inductive invariant: nothing the operator has to see is lost on its way.
ConsoleInv ==
    /\ ConsoleTypeOK
    /\ ~behind /\ link = "open" /\ pushes = <<>> => Coming(wire, bots, page.bots)

\* A message of the table as it is may follow anything.
LEMMA SentNow ==
  ASSUME NEW w \in Seq(Messages), NEW m \in Messages, NEW b, m.bots = b
  PROVE  Brings(Append(w, m), b)
<1>1. /\ Len(Append(w, m)) = Len(w) + 1 /\ Len(w) \in Nat
      /\ Append(w, m)[Len(w) + 1] = m
  BY AppendProperties, LenProperties
<1>2. Append(w, m)[Len(w) + 1].bots = b
  BY <1>1
<1>3. \A j \in 1 .. Len(Append(w, m)) : ~(Len(w) + 1 < j)
  BY <1>1
<1> QED BY <1>1, <1>2, <1>3 DEF Brings

\* One without the bots, a sample whose reading failed, changes nothing.
LEMMA SentWithout ==
  ASSUME NEW w \in Seq(Messages), NEW m \in Messages, m.bots = None,
         NEW b, NEW p, Coming(w, b, p)
  PROVE  Coming(Append(w, m), b, p)
<1> DEFINE t == Append(w, m)
<1>1. /\ Len(t) = Len(w) + 1 /\ Len(w) \in Nat
      /\ \A i \in 1 .. Len(w) : t[i] = w[i]
      /\ t[Len(w) + 1] = m
  BY AppendProperties, LenProperties
<1> HIDE DEF t
<1>2. \A j \in 1 .. Len(t) : j = Len(w) + 1 \/ j \in 1 .. Len(w)
  BY <1>1
<1>3. CASE Brings(w, b)
  <2>1. PICK i \in 1 .. Len(w) : w[i].bots = b /\ \A j \in 1 .. Len(w) : i < j => w[j].bots = None
    BY <1>3 DEF Brings
  <2>2. i \in 1 .. Len(t) /\ t[i].bots = b
    BY <2>1, <1>1
  <2>3. \A j \in 1 .. Len(t) : i < j => t[j].bots = None
    BY <2>1, <1>1, <1>2
  <2> QED BY <2>2, <2>3 DEF Coming, Brings, t
<1>4. CASE p = b /\ Silent(w)
  BY <1>4, <1>1, <1>2 DEF Coming, Silent, t
<1> QED BY <1>3, <1>4 DEF Coming

\* The page takes the first message over (_applySnapshot).
LEMMA Delivered ==
  ASSUME NEW w \in Seq(Messages), w # <<>>, NEW b, b # None, NEW p, Coming(w, b, p)
  PROVE  Coming(Tail(w), b, IF Head(w).bots = None THEN p ELSE Head(w).bots)
<1> DEFINE t == Tail(w)
           q == IF Head(w).bots = None THEN p ELSE Head(w).bots
<1>1. /\ Len(t) = Len(w) - 1 /\ Len(w) \in Nat \ {0}
      /\ \A i \in 1 .. Len(t) : t[i] = w[i + 1]
      /\ Head(w) = w[1]
  BY HeadTailProperties, LenProperties, EmptySeq
<1> HIDE DEF t
<1>2. \A j \in 1 .. Len(t) : j + 1 \in 1 .. Len(w)
  BY <1>1
<1>3. CASE Brings(w, b)
  <2>1. PICK i \in 1 .. Len(w) : w[i].bots = b /\ \A j \in 1 .. Len(w) : i < j => w[j].bots = None
    BY <1>3 DEF Brings
  <2>2. CASE i = 1
    <3>1. q = b
      BY <2>1, <2>2, <1>1
    <3>2. Silent(t)
      <4>1. ASSUME NEW j \in 1 .. Len(t) PROVE t[j].bots = None
        <5>1. j + 1 \in 1 .. Len(w) /\ i < j + 1 /\ t[j] = w[j + 1]
          BY <2>2, <1>1, <1>2
        <5> QED BY <5>1, <2>1
      <4> QED BY <4>1 DEF Silent
    <3> QED BY <3>1, <3>2 DEF Coming, t
  <2>3. CASE i # 1
    <3>1. i - 1 \in 1 .. Len(t) /\ t[i - 1].bots = b
      BY <2>1, <2>3, <1>1
    <3>2. ASSUME NEW j \in 1 .. Len(t), i - 1 < j PROVE t[j].bots = None
      <4>1. j + 1 \in 1 .. Len(w) /\ i < j + 1 /\ t[j] = w[j + 1]
        BY <3>2, <1>1, <1>2
      <4> QED BY <4>1, <2>1
    <3> QED BY <3>1, <3>2 DEF Coming, Brings, t
  <2> QED BY <2>2, <2>3
<1>4. CASE p = b /\ Silent(w)
  <2>1. q = b
    BY <1>4, <1>1 DEF Silent
  <2>2. \A j \in 1 .. Len(t) : t[j].bots = None
    BY <1>4, <1>1, <1>2 DEF Silent
  <2> QED BY <2>1, <2>2 DEF Coming, Silent, t
<1> QED BY <1>3, <1>4 DEF Coming

\* A delay of _scheduleReconnect
LEMMA DelayIsShort ==
  ASSUME NEW n \in Nat \ {0}
  PROVE  Delay(n) \in 0 .. 30
<1> DEFINE k == IF n > 4 THEN 3 ELSE n - 1
<1>1. RetryDelay \in Nat
  BY ConsoleAssumption DEF ConsoleAssumption
<1>2. ASSUME NEW e \in 0 .. 3 PROVE RetryDelay * 2 ^ e \in Nat
  <2>1. CASE e = 0
    <3>1. 2 ^ e = 1
      BY <2>1
    <3> QED BY <3>1, <1>1
  <2>2. CASE e = 1
    <3>1. 2 ^ e = 2
      BY <2>2
    <3> QED BY <3>1, <1>1
  <2>3. CASE e = 2
    <3>1. 2 ^ e = 4
      BY <2>3
    <3> QED BY <3>1, <1>1
  <2>4. CASE e = 3
    <3>1. 2 ^ e = 8
      BY <2>4
    <3> QED BY <3>1, <1>1
  <2> QED BY <2>1, <2>2, <2>3, <2>4
<1>3. k \in 0 .. 3
  OBVIOUS
<1>4. RetryDelay * 2 ^ k \in Nat
  <2> HIDE DEF k
  <2> QED BY <1>2, <1>3
<1> QED BY <1>4 DEF Delay

LEMMA ConsoleStarts ==
  ConsoleInit => ConsoleInv
<1> SUFFICES ASSUME ConsoleInit PROVE ConsoleInv
  OBVIOUS
<1>1. <<>> \in Seq(Versions) /\ <<>> \in Seq(Messages)
  BY EmptySeq
<1>2. 0 \in Versions /\ [bots |-> None, account |-> FALSE] \in Messages
  BY ConsoleAssumption DEF ConsoleAssumption, Versions, Messages
<1>3. loads \in [Loads -> {Idle, Asked} \cup Versions]
  BY DEF ConsoleInit
<1>4. 0 \in 0 .. MaxAttempts /\ 0 \in 0 .. MaxFaults
  BY ConsoleAssumption DEF ConsoleAssumption
<1>5. bots = 0 /\ pushes = <<>> /\ wire = <<>> /\ link = "opening" /\ behind = TRUE
  BY DEF ConsoleInit
<1>6. ConsoleTypeOK
  <2> HIDE DEF Versions, Messages
  <2> QED BY <1>1, <1>2, <1>3, <1>4, <1>5 DEF ConsoleInit, ConsoleTypeOK, Off
<1> QED BY <1>5, <1>6 DEF ConsoleInv

LEMMA ConsoleSteps ==
  ConsoleInv /\ [ConsoleNext]_consoleVars => ConsoleInv'
<1> SUFFICES ASSUME ConsoleInv, [ConsoleNext]_consoleVars
             PROVE  ConsoleInv'
  OBVIOUS
<1> DEFINE Shown == ~behind /\ link = "open" /\ pushes = <<>> => Coming(wire, bots, page.bots)
<1>t. /\ bots \in Versions /\ pushes \in Seq(Versions) /\ last \in Messages
      /\ wire \in Seq(Messages) /\ page \in Messages
      /\ \A b \in Versions : b \in Int /\ b # None /\ b >= 0
  BY DEF ConsoleInv, ConsoleTypeOK, Versions, None
<1>s. Shown
  BY DEF ConsoleInv
<1>e. <<>> \in Seq(Versions) /\ <<>> \in Seq(Messages)
  BY EmptySeq
<1>d. ASSUME NEW n \in 1 .. MaxAttempts, Disconnected(n)
      PROVE  /\ link' = "down" /\ wire' = <<>> /\ attempts' \in 0 .. MaxAttempts
             /\ retry' \in 0 .. 30 /\ retry' # Off /\ hears' = FALSE
             /\ poll' \in {Off} \cup 0 .. PollPeriod
  <2>1. MaxAttempts \in Nat /\ PollPeriod \in Nat
    BY ConsoleAssumption DEF ConsoleAssumption
  <2>2. n \in Nat \ {0}
    BY <2>1
  <2>3. Delay(n) \in 0 .. 30
    BY <2>2, DelayIsShort
  <2>4. poll \in {Off} \cup 0 .. PollPeriod
    BY DEF ConsoleInv, ConsoleTypeOK
  <2>5. poll' \in {Off} \cup 0 .. PollPeriod
    BY <1>d, <2>1, <2>4 DEF Disconnected, FallsBack
  <2>6. link' = "down" /\ wire' = <<>> /\ attempts' = n /\ retry' = Delay(n) /\ hears' = FALSE
    BY <1>d DEF Disconnected, FallsBack
  <2>7. retry' \in 0 .. 30 /\ retry' # Off
    <3>1. \A x \in 0 .. 30 : x # Off
      BY DEF Off
    <3> QED BY <2>3, <2>6, <3>1
  <2>8. attempts' \in 0 .. MaxAttempts
    BY <2>1, <2>6
  <2> QED BY <2>5, <2>6, <2>7, <2>8
<1>b. /\ Bumped(attempts) \in 1 .. MaxAttempts
      /\ Bumped(Bumped(attempts)) \in 1 .. MaxAttempts
  <2>1. MaxAttempts \in Nat \ {0} /\ attempts \in 0 .. MaxAttempts
    BY ConsoleAssumption DEF ConsoleInv, ConsoleTypeOK, ConsoleAssumption
  <2>2. \A n \in 0 .. MaxAttempts : Bumped(n) \in 1 .. MaxAttempts
    BY <2>1 DEF Bumped
  <2>3. 1 .. MaxAttempts \subseteq 0 .. MaxAttempts
    BY <2>1
  <2> HIDE DEF Bumped
  <2> QED BY <2>1, <2>2, <2>3
<1> USE DEF engine, socket
<1>1. ASSUME RunnerWrites PROVE ConsoleInv'
  BY ConsoleAssumption, <1>1 DEF ConsoleInv, ConsoleTypeOK, RunnerWrites, Versions, ConsoleAssumption
<1>2. ASSUME NEW own \in BOOLEAN, Request(own) PROVE ConsoleInv'
  <2>1. bots' \in Versions
    BY ConsoleAssumption, <1>2, <1>t DEF Request, Versions, ConsoleAssumption
  <2>2. pushes' \in Seq(Versions) /\ pushes' # <<>>
    BY <1>2, <1>t, <2>1, AppendProperties DEF Request, Requested
  <2>3. loads' \in [Loads -> {Idle, Asked} \cup Versions]
    BY <1>2 DEF ConsoleInv, ConsoleTypeOK, Request, Loading
  <2> QED BY <1>2, <2>1, <2>2, <2>3 DEF ConsoleInv, ConsoleTypeOK, Request
<1>3. ASSUME PushPublished PROVE ConsoleInv'
  <2> DEFINE m == [bots |-> Head(pushes), account |-> FALSE]
  <2>1. Head(pushes) \in Versions /\ pushes' \in Seq(Versions)
    BY <1>3, <1>t, HeadTailProperties DEF PushPublished
  <2>2. m \in Messages /\ m.bots = Head(pushes)
    BY <2>1 DEF Messages
  <2>3. last' = m /\ wire' = IF link = "open" THEN Append(wire, m) ELSE wire
    BY <1>3 DEF PushPublished, Publish
  <2> HIDE DEF m
  <2>4. wire' \in Seq(Messages)
    BY <2>2, <2>3, <1>t, AppendProperties
  <2>5. behind' \in BOOLEAN
    BY <1>3 DEF ConsoleInv, ConsoleTypeOK, PushPublished
  <2>6. ConsoleTypeOK'
    BY <1>3, <2>1, <2>2, <2>3, <2>4, <2>5 DEF ConsoleInv, ConsoleTypeOK, PushPublished
  <2>7. ASSUME ~behind', link = "open", pushes' = <<>> PROVE Brings(Append(wire, m), bots)
    <3>1. m.bots = bots
      BY <1>3, <2>7, <2>2 DEF PushPublished
    <3> QED BY <3>1, <2>2, <1>t, SentNow
  <2>8. Shown'
    BY <1>3, <2>3, <2>7 DEF PushPublished, Coming
  <2> QED BY <2>6, <2>8 DEF ConsoleInv
<1>4. ASSUME Collect PROVE ConsoleInv'
  <2> DEFINE m == [bots |-> bots, account |-> TRUE]
  <2>1. m \in Messages /\ m.bots = bots
    BY <1>t DEF Messages
  <2>2. last' = m /\ wire' = IF link = "open" THEN Append(wire, m) ELSE wire
    BY <1>4 DEF Collect, Publish
  <2> HIDE DEF m
  <2>3. wire' \in Seq(Messages) /\ Brings(Append(wire, m), bots)
    BY <2>1, <2>2, <1>t, AppendProperties, SentNow
  <2>4. ConsoleTypeOK'
    BY <1>4, <2>1, <2>2, <2>3 DEF ConsoleInv, ConsoleTypeOK, Collect
  <2>5. Shown'
    BY <1>4, <2>2, <2>3 DEF Collect, Coming
  <2> QED BY <2>4, <2>5 DEF ConsoleInv
<1>5. ASSUME CollectFails PROVE ConsoleInv'
  <2> DEFINE m == [bots |-> None, account |-> TRUE]
  <2>1. m \in Messages /\ m.bots = None
    BY DEF Messages
  <2>2. /\ last' = m /\ wire' = IF link = "open" THEN Append(wire, m) ELSE wire
        /\ UNCHANGED <<bots, pushes, link, attempts, retry, page, hears, poll, loads, behind>>
    BY <1>5 DEF CollectFails, Publish
  <2> HIDE DEF m
  <2>3. wire' \in Seq(Messages)
    BY <2>1, <2>2, <1>t, AppendProperties
  <2>4. faults' \in 0 .. MaxFaults
    BY ConsoleAssumption, <1>5 DEF ConsoleInv, ConsoleTypeOK, CollectFails, Fault, ConsoleAssumption
  <2>5. ConsoleTypeOK'
    BY <2>1, <2>2, <2>3, <2>4 DEF ConsoleInv, ConsoleTypeOK
  <2>6. Coming(wire, bots, page.bots) => Coming(Append(wire, m), bots, page.bots)
    BY <2>1, <1>t, SentWithout
  <2>7. Shown'
    BY <2>2, <2>6, <1>s
  <2> QED BY <2>5, <2>7 DEF ConsoleInv
<1>6. ASSUME Accepted PROVE ConsoleInv'
  <2>1. UNCHANGED <<bots, pushes, last, attempts, retry, page, hears, poll, loads, faults>>
    BY <1>6 DEF Accepted
  <2>2. <<last>> \in Seq(Messages) /\ <<last>> = Append(<<>>, last)
    BY <1>t
  <2>3. wire' \in Seq(Messages) /\ behind' \in BOOLEAN
    BY <1>6, <1>e, <2>2 DEF ConsoleInv, ConsoleTypeOK, Accepted
  <2>4. ConsoleTypeOK'
    BY <1>6, <2>1, <2>3 DEF ConsoleInv, ConsoleTypeOK, Accepted
  <2>5. ASSUME ~behind' PROVE Brings(wire', bots)
    <3>1. last.bots = bots
      BY <1>6, <2>5 DEF Accepted
    <3>2. wire' = <<last>>
      BY <1>6, <3>1, <1>t DEF Accepted
    <3> QED BY <3>1, <3>2, <2>2, <1>e, <1>t, SentNow
  <2>6. Shown'
    BY <2>1, <2>5 DEF Coming
  <2> QED BY <2>4, <2>6 DEF ConsoleInv
<1>7. ASSUME Refused PROVE ConsoleInv'
  <2>1. PICK n \in 1 .. MaxAttempts : Disconnected(n)
    BY <1>7, <1>b DEF Refused
  <2> QED BY <1>7, <2>1, <1>d, <1>e DEF ConsoleInv, ConsoleTypeOK, Refused
<1>8. ASSUME Lost PROVE ConsoleInv'
  <2>1. PICK n \in 1 .. MaxAttempts : Disconnected(n)
    BY <1>8, <1>b DEF Lost
  <2>2. faults' \in 0 .. MaxFaults
    BY ConsoleAssumption, <1>8 DEF ConsoleInv, ConsoleTypeOK, Lost, Fault, ConsoleAssumption
  <2> QED BY <1>8, <2>1, <2>2, <1>d, <1>e DEF ConsoleInv, ConsoleTypeOK, Lost
<1>9. ASSUME EngineRestart PROVE ConsoleInv'
  <2>1. /\ faults' \in 0 .. MaxFaults /\ behind' = TRUE /\ pushes' \in Seq(Versions)
        /\ last' \in Messages
        /\ UNCHANGED <<bots, page, loads>>
    BY ConsoleAssumption, <1>9, <1>e DEF ConsoleInv, ConsoleTypeOK, EngineRestart, Fault, ConsoleAssumption, Messages
  <2>2. CASE link = "down" /\ UNCHANGED <<socket, wire, hears, poll>>
    BY <2>1, <2>2 DEF ConsoleInv, ConsoleTypeOK
  <2>3. CASE \E n \in 1 .. MaxAttempts : Disconnected(n)
    BY <2>1, <2>3, <1>d, <1>e DEF ConsoleInv, ConsoleTypeOK
  <2>4. link \in {"opening", "open", "down"}
    BY DEF ConsoleInv, ConsoleTypeOK
  <2> QED BY <1>9, <1>b, <2>2, <2>3, <2>4 DEF EngineRestart
<1>10. ASSUME RetryFires PROVE ConsoleInv'
  BY ConsoleAssumption, <1>10 DEF ConsoleInv, ConsoleTypeOK, RetryFires, ConsoleAssumption, Off
<1>11. ASSUME Deliver PROVE ConsoleInv'
  <2> DEFINE m == Head(wire)
             seen == IF m.bots = None THEN page.bots ELSE m.bots
  <2>1. m \in Messages /\ Tail(wire) \in Seq(Messages)
    BY <1>11, <1>t, HeadTailProperties DEF Deliver
  <2>2. /\ wire # <<>> /\ wire' = Tail(wire)
        /\ page' = [bots |-> seen, account |-> m.account]
        /\ behind' = (behind /\ ~(m.bots = bots /\ wire' = <<>>))
        /\ hears' = TRUE
        /\ UNCHANGED <<bots, pushes, last, link, attempts, retry, poll, loads, faults>>
    BY <1>11 DEF Deliver
  <2>3. page' \in Messages /\ page'.bots = seen
    BY <2>1, <2>2, <1>t DEF Messages
  <2>4. ConsoleTypeOK'
    BY <2>1, <2>2, <2>3 DEF ConsoleInv, ConsoleTypeOK
  <2>5. CASE ~behind
    <3>1. Coming(wire, bots, page.bots) => Coming(Tail(wire), bots, seen)
      BY <2>2, <1>t, Delivered
    <3>2. Shown'
      BY <3>1, <2>2, <2>3, <2>5, <1>s
    <3> QED BY <2>4, <3>2 DEF ConsoleInv
  <2>6. CASE behind
    <3>1. ASSUME ~behind' PROVE Coming(wire', bots', page'.bots)
      <4>1. m.bots = bots /\ wire' = <<>> /\ seen = bots
        BY <3>1, <2>2, <2>6, <1>t
      <4>2. Silent(wire')
        BY <4>1, LenProperties, <1>e DEF Silent
      <4> QED BY <4>1, <4>2, <2>2, <2>3 DEF Coming
    <3> QED BY <2>4, <3>1 DEF ConsoleInv
  <2>7. behind \in BOOLEAN
    BY DEF ConsoleInv, ConsoleTypeOK
  <2> QED BY <2>5, <2>6, <2>7
<1>12. ASSUME PollFires PROVE ConsoleInv'
  BY ConsoleAssumption, <1>12, <1>s DEF ConsoleInv, ConsoleTypeOK, PollFires, Loading, ConsoleAssumption
<1>13. ASSUME NEW r \in Loads, LoadAnswered(r) PROVE ConsoleInv'
  BY <1>13, <1>s DEF ConsoleInv, ConsoleTypeOK, LoadAnswered
<1>14. ASSUME NEW r \in Loads, LoadReturns(r) PROVE ConsoleInv'
  <2>1. /\ loads[r] \in Versions /\ page' = [page EXCEPT !.bots = loads[r]]
        /\ behind' = (behind \/ loads[r] # bots)
        /\ UNCHANGED <<bots, pushes, last, link, attempts, retry, wire, hears, poll, faults>>
        /\ loads' = [loads EXCEPT ![r] = Idle]
    BY <1>14 DEF LoadReturns
  <2>2. page' \in Messages /\ page'.bots = loads[r]
    BY <2>1, <1>t DEF Messages
  <2>3. ConsoleTypeOK'
    BY <2>1, <2>2 DEF ConsoleInv, ConsoleTypeOK
  <2>4. Shown'
    BY <2>1, <2>2, <1>s DEF Coming
  <2> QED BY <2>3, <2>4 DEF ConsoleInv
<1>15. ASSUME NEW r \in Loads, LoadFails(r) PROVE ConsoleInv'
  BY ConsoleAssumption, <1>15, <1>s DEF ConsoleInv, ConsoleTypeOK, LoadFails, Fault, ConsoleAssumption
<1>16. ASSUME Second PROVE ConsoleInv'
  BY ConsoleAssumption, <1>16, <1>s DEF ConsoleInv, ConsoleTypeOK, Second, Off, ConsoleAssumption
<1>17. CASE UNCHANGED consoleVars
  BY <1>17, <1>s DEF ConsoleInv, ConsoleTypeOK, consoleVars
<1>18. CASE ConsoleNext
  BY <1>18, <1>1, <1>2, <1>3, <1>4, <1>5, <1>6, <1>7, <1>8, <1>9, <1>10, <1>11, <1>12, <1>13,
     <1>14, <1>15, <1>16 DEF ConsoleNext
<1> QED BY <1>17, <1>18

LEMMA ConsoleAlways ==
  ConsoleSpec => []ConsoleInv
<1>1. ConsoleInit => ConsoleInv
  BY ConsoleStarts
<1>2. ConsoleInv /\ [ConsoleNext]_consoleVars => ConsoleInv'
  BY ConsoleSteps
<1> QED BY <1>1, <1>2, PTL DEF ConsoleSpec

\* Every variable has its type and the service tries to connect exactly when it
\* has no channel, for any delay, period and number of attempts
\* (_scheduleReconnect, _doConnect).
THEOREM ConsoleTypes ==
  ConsoleSpec => []ConsoleTypeOK
<1>1. ConsoleInv => ConsoleTypeOK
  BY DEF ConsoleInv
<1> QED BY <1>1, ConsoleAlways, PTL

\* With the stream open and nothing on its way, the page shows the bots as they
\* are unless one of the reasons of `behind' holds (_push_louise_ws, publish,
\* _applySnapshot, _loadSupplementaryData).
THEOREM QuietConsoleIsCurrent ==
  ConsoleSpec => []QuietIsCurrent
<1>1. ConsoleInv => QuietIsCurrent
  <2> SUFFICES ASSUME ConsoleInv, link = "open", wire = <<>>, pushes = <<>>, ~behind
               PROVE  page.bots = bots
    BY DEF QuietIsCurrent
  <2>1. Coming(wire, bots, page.bots)
    BY DEF ConsoleInv
  <2>2. ~Brings(wire, bots)
    BY DEF Brings
  <2> QED BY <2>1, <2>2 DEF Coming
<1> QED BY <1>1, ConsoleAlways, PTL
=============================================================================
