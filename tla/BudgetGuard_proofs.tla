------------------------ MODULE BudgetGuard_proofs ------------------------
(***************************************************************************)
(* Proofs about BudgetGuard: the rolling ceilings hold in every window,    *)
(* for every set of bots and hubs, every window length and every horizon,  *)
(* with one order of slack for each bot that checks and records apart.     *)
(***************************************************************************)
EXTENDS BudgetGuard, FiniteSetTheorems, TLAPS

LEMMA Constants ==
    /\ Window \in Nat /\ Horizon \in Nat /\ MaxSpend \in Nat /\ MaxAmount \in Nat \ {0}
    /\ HubOf \in [Bots -> Hubs] /\ Ceiling \in [Hubs -> Nat] /\ Other \in Hubs
    /\ IsFiniteSet(Bots) /\ TwoStep \subseteq Bots
BY GuardAssumption DEF GuardAssumption

-----------------------------------------------------------------------------
(* Running totals *)

\* A running total grows with time and has nothing recorded after now.
RunningTotal(f) ==
    /\ f \in [Time -> Nat]
    /\ \A s, t \in Time : s <= t => f[s] <= f[t]
    /\ \A t \in Time : t >= now => f[t] = f[now]

LEMMA SpentType ==
    ASSUME NEW f \in [Time -> Nat], NEW t \in Time
    PROVE  SpentAt(f, t) \in Int
<1>1. CASE t > Window
  <2> DEFINE c == t - Window - 1
  <2>1. c \in Time
    BY <1>1, Constants DEF Time
  <2>2. SpentAt(f, t) = f[t] - f[c]
    BY <1>1 DEF SpentAt
  <2> HIDE DEF c
  <2>3. f[t] \in Nat /\ f[c] \in Nat
    BY <2>1
  <2> QED BY <2>2, <2>3
<1>2. CASE ~(t > Window)
  <2>1. f[t] \in Nat
    OBVIOUS
  <2> QED BY <1>2, <2>1 DEF SpentAt
<1> QED BY <1>1, <1>2

\* A row stamped now adds to the window that ends now and to no earlier one.
LEMMA SpentAdd ==
    ASSUME now \in Time, NEW f, RunningTotal(f), NEW a \in Nat
    PROVE  /\ RunningTotal(Add(f, a))
           /\ SpentAt(Add(f, a), now) = SpentAt(f, now) + a
           /\ \A t \in 0 .. now : t # now => SpentAt(Add(f, a), t) = SpentAt(f, t)
<1> DEFINE g == Add(f, a)
<1>1. now \in Nat /\ Time \subseteq Nat
  BY Constants DEF Time
<1>2. g \in [Time -> Nat] /\ \A t \in Time : g[t] = IF t >= now THEN f[t] + a ELSE f[t]
  BY DEF Add, RunningTotal
<1> HIDE DEF g
<1>3. \A t \in Time : f[t] \in Nat
  BY DEF RunningTotal
<1>4. RunningTotal(g)
  BY <1>1, <1>2, <1>3 DEF RunningTotal
<1>5. ASSUME NEW t \in Time, t > Window
      PROVE  t - Window - 1 \in Time /\ t - Window - 1 < t
  BY <1>5, Constants DEF Time
<1>6. SpentAt(g, now) = SpentAt(f, now) + a
  <2>1. CASE now > Window
    <3> DEFINE c == now - Window - 1
    <3>1. c \in Time /\ c < now
      BY <1>5, <2>1
    <3>2. g[c] = f[c]
      <4> HIDE DEF c
      <4>1. ~(c >= now)
        BY <1>1, <3>1
      <4> QED BY <1>2, <3>1, <4>1
    <3>3. g[now] = f[now] + a
      BY <1>1, <1>2
    <3>4. SpentAt(g, now) = g[now] - g[c] /\ SpentAt(f, now) = f[now] - f[c]
      BY <2>1 DEF SpentAt
    <3> HIDE DEF c
    <3> QED BY <1>3, <3>1, <3>2, <3>3, <3>4
  <2>2. CASE ~(now > Window)
    BY <1>1, <1>2, <1>3, <2>2 DEF SpentAt
  <2> QED BY <2>1, <2>2
<1>7. ASSUME NEW t \in 0 .. now, t # now PROVE SpentAt(g, t) = SpentAt(f, t)
  <2>1. t \in Time /\ t < now
    BY <1>7, <1>1, Constants DEF Time
  <2>2. g[t] = f[t]
    BY <1>1, <1>2, <2>1
  <2>3. CASE t > Window
    <3> DEFINE c == t - Window - 1
    <3>1. c \in Time /\ c < t
      BY <1>5, <2>1, <2>3
    <3>2. ~(c >= now)
      <4> HIDE DEF c
      <4>1. c \in Nat /\ t \in Nat
        BY <1>1, <2>1, <3>1
      <4> QED BY <1>1, <2>1, <3>1, <4>1
    <3>3. g[c] = f[c]
      <4> HIDE DEF c
      <4> QED BY <1>2, <3>1, <3>2
    <3> HIDE DEF c
    <3> QED BY <2>2, <2>3, <3>3 DEF SpentAt, c
  <2>4. CASE ~(t > Window)
    BY <2>2, <2>4 DEF SpentAt
  <2> QED BY <2>3, <2>4
<1> QED BY <1>4, <1>6, <1>7 DEF g

\* When time passes with nothing recorded, the window can only lose rows.
LEMMA SpentTick ==
    ASSUME now \in Time, now + 1 \in Time, NEW f, RunningTotal(f)
    PROVE  SpentAt(f, now + 1) <= SpentAt(f, now)
<1>1. now \in Nat /\ now + 1 \in Nat /\ \A t \in Time : f[t] \in Nat
  BY Constants DEF Time, RunningTotal
<1>2. f[now + 1] = f[now]
  BY <1>1 DEF RunningTotal
<1>3. CASE now > Window
  <2> DEFINE c == now - Window - 1
             d == now + 1 - Window - 1
  <2>1. c \in Time /\ d \in Time /\ c <= d
    BY <1>1, <1>3, Constants DEF Time
  <2>2. f[c] <= f[d]
    <3> HIDE DEF c, d
    <3> QED BY <2>1 DEF RunningTotal
  <2>3. SpentAt(f, now) = f[now] - f[c] /\ SpentAt(f, now + 1) = f[now + 1] - f[d]
    BY <1>1, <1>3, Constants DEF SpentAt
  <2> HIDE DEF c, d
  <2> QED BY <1>1, <1>2, <2>1, <2>2, <2>3
<1>4. CASE ~(now > Window)
  <2>1. SpentAt(f, now) = f[now]
    BY <1>1, <1>4 DEF SpentAt
  <2>2. CASE now + 1 > Window
    <3> DEFINE d == now + 1 - Window - 1
    <3>1. d \in Time /\ SpentAt(f, now + 1) = f[now + 1] - f[d]
      BY <1>1, <1>4, <2>2, Constants DEF SpentAt, Time
    <3> HIDE DEF d
    <3> QED BY <1>1, <1>2, <2>1, <3>1
  <2>3. CASE ~(now + 1 > Window)
    BY <1>1, <1>2, <2>1, <2>3 DEF SpentAt
  <2> QED BY <2>2, <2>3
<1> QED BY <1>3, <1>4

-----------------------------------------------------------------------------
(* The inductive invariant *)

\* The bots whose check was answered and whose spend is not recorded yet.
Waiting     == {b \in Bots : cleared[b] > 0}
WaitingOf(h) == {b \in Waiting : HubOf[b] = h}

\* The totals f stay within lim in every window, also when each of the k waiting
\* bots records the largest order now.
BoundedBy(f, lim, k) ==
    /\ RunningTotal(f)
    /\ SpentAt(f, now) + MaxAmount * k <= lim
    /\ \A t \in 0 .. now : SpentAt(f, t) <= lim

GlobalLimit == MaxSpend + MaxAmount * Cardinality(TwoStep)
HubLimit(h) == Ceiling[h] + MaxAmount * Cardinality(TwoStepOf(h))

GuardInv ==
    /\ TypeOK
    /\ Waiting \subseteq TwoStep
    /\ BoundedBy(total, GlobalLimit, Cardinality(Waiting))
    /\ \A h \in Hubs \ {Other} :
         BoundedBy(hub[h], HubLimit(h), Cardinality(WaitingOf(h)))

LEMMA BoundedAdd ==
    ASSUME now \in Time, NEW f, NEW lim \in Nat, NEW k \in Nat, NEW j \in Nat, NEW a \in Nat,
           BoundedBy(f, lim, k), SpentAt(f, now) + a + MaxAmount * j <= lim
    PROVE  BoundedBy(Add(f, a), lim, j)
<1> DEFINE g == Add(f, a)
<1>1. RunningTotal(f) /\ now \in Nat
  BY Constants DEF BoundedBy, Time
<1>2. /\ RunningTotal(g) /\ SpentAt(g, now) = SpentAt(f, now) + a
      /\ \A t \in 0 .. now : t # now => SpentAt(g, t) = SpentAt(f, t)
  BY <1>1, SpentAdd
<1>3. SpentAt(f, now) \in Int /\ MaxAmount * j \in Nat
  BY <1>1, SpentType, Constants, SMT DEF RunningTotal
<1> HIDE DEF g
<1>4. SpentAt(g, now) + MaxAmount * j <= lim /\ SpentAt(g, now) <= lim
  BY <1>2, <1>3
<1>5. \A t \in 0 .. now : SpentAt(g, t) <= lim
  BY <1>2, <1>4 DEF BoundedBy
<1>6. BoundedBy(g, lim, j)
  BY <1>2, <1>4, <1>5 DEF BoundedBy
<1> QED BY <1>6 DEF g

\* Fewer waiting bots, or more of them within the limit, and no new row.
LEMMA BoundedKeep ==
    ASSUME NEW f, NEW lim \in Nat, NEW k \in Nat, NEW j \in Nat,
           BoundedBy(f, lim, k), SpentAt(f, now) + MaxAmount * j <= lim
    PROVE  BoundedBy(f, lim, j)
BY DEF BoundedBy

LEMMA BoundedTick ==
    ASSUME now \in Time, now' = now + 1, now' \in Time,
           NEW f, NEW lim \in Nat, NEW k \in Nat, BoundedBy(f, lim, k)
    PROVE  BoundedBy(f, lim, k)'
<1>1. RunningTotal(f) /\ now \in Nat /\ now' \in Nat
  BY Constants DEF BoundedBy, Time
<1>2. SpentAt(f, now') <= SpentAt(f, now) /\ SpentAt(f, now') \in Int /\ SpentAt(f, now) \in Int
  BY <1>1, SpentTick, SpentType DEF RunningTotal
<1>3. RunningTotal(f)'
  <2>1. f[now'] = f[now] /\ \A t \in Time : t >= now => f[t] = f[now]
    BY <1>1 DEF RunningTotal
  <2>2. \A t \in Time : t >= now' => t >= now
    BY <1>1, Constants DEF Time
  <2> QED BY <1>1, <2>1, <2>2 DEF RunningTotal, Time
<1>4. SpentAt(f, now)' = SpentAt(f, now')
  BY DEF SpentAt
<1>5. MaxAmount * k \in Nat
  BY Constants, SMT
<1>6. SpentAt(f, now') + MaxAmount * k <= lim
  BY <1>2, <1>5 DEF BoundedBy
<1>7. SpentAt(f, now') <= lim
  BY <1>2, <1>5, <1>6
<1>8. \A t \in 0 .. now' : SpentAt(f, t) <= lim
  <2>1. \A t \in 0 .. now' : t \in 0 .. now \/ t = now'
    BY <1>1
  <2> QED BY <1>7, <2>1 DEF BoundedBy
<1> QED BY <1>3, <1>6, <1>8 DEF BoundedBy, SpentAt

\* Waiting bots are two-step bots, so their orders fit the slack.
LEMMA Slackness ==
    ASSUME NEW W, NEW S, W \subseteq S, S \subseteq Bots
    PROVE  /\ Cardinality(W) \in Nat /\ Cardinality(S) \in Nat
           /\ IsFiniteSet(W)
           /\ MaxAmount * Cardinality(W) <= MaxAmount * Cardinality(S)
           /\ MaxAmount * Cardinality(W) \in Nat /\ MaxAmount * Cardinality(S) \in Nat
<1>1. IsFiniteSet(S) /\ IsFiniteSet(W) /\ Cardinality(W) <= Cardinality(S)
  <2>1. IsFiniteSet(S)
    BY Constants, FS_Subset
  <2> QED BY <2>1, FS_Subset
<1>2. Cardinality(W) \in Nat /\ Cardinality(S) \in Nat
  BY <1>1, FS_CardinalityType
<1> DEFINE w == Cardinality(W)
           n == Cardinality(S)
<1> HIDE DEF w, n
<1>3. \A x, y \in Nat : x <= y => /\ MaxAmount * x <= MaxAmount * y
                                 /\ MaxAmount * x \in Nat /\ MaxAmount * y \in Nat
  BY Constants, SMT
<1> QED BY <1>1, <1>2, <1>3

LEMMA Limits ==
    /\ GlobalLimit \in Nat
    /\ \A h \in Hubs : HubLimit(h) \in Nat /\ TwoStepOf(h) \subseteq Bots
<1>1. MaxAmount * Cardinality(TwoStep) \in Nat
  BY Slackness, Constants
<1>2. \A h \in Hubs : TwoStepOf(h) \subseteq Bots
  BY Constants DEF TwoStepOf
<1>3. \A h \in Hubs : MaxAmount * Cardinality(TwoStepOf(h)) \in Nat
  BY <1>2, Slackness
<1> QED BY <1>1, <1>2, <1>3, Constants DEF GlobalLimit, HubLimit

-----------------------------------------------------------------------------
(* The steps *)

\* The sets of waiting bots are finite, with naturals as their sizes.
LEMMA WaitingSizes ==
    ASSUME GuardInv
    PROVE  /\ Cardinality(Waiting) \in Nat
           /\ \A h \in Hubs : Cardinality(WaitingOf(h)) \in Nat
<1>1. Waiting \subseteq Bots /\ \A h \in Hubs : WaitingOf(h) \subseteq Bots
  BY DEF Waiting, WaitingOf
<1> QED BY <1>1, Slackness

\* Recording amount a for bot b: the limits still hold when what the bot's
\* check or its earlier check left room for is what gets recorded.
LEMMA InsertStep ==
    ASSUME GuardInv, NEW b \in Bots, NEW a \in Nat, Insert(b, a), now' = now,
           cleared' \in [Bots -> 0 .. MaxAmount], Waiting' \subseteq Waiting,
           SpentGlobal + a + MaxAmount * Cardinality(Waiting') <= GlobalLimit,
           HubOf[b] # Other =>
             SpentAt(hub[HubOf[b]], now) + a + MaxAmount * Cardinality(WaitingOf(HubOf[b])')
               <= HubLimit(HubOf[b]),
           \A h \in Hubs : h # HubOf[b] => WaitingOf(h)' = WaitingOf(h)
    PROVE  GuardInv'
<1>1. now \in Time /\ HubOf[b] \in Hubs /\ hub \in [Hubs -> [Time -> Nat]]
      /\ total \in [Time -> Nat]
  BY Constants DEF GuardInv, TypeOK
<1>2. total' = Add(total, a) /\ hub' = [hub EXCEPT ![HubOf[b]] = Add(hub[HubOf[b]], a)]
  BY DEF Insert
<1>3. \A f \in [Time -> Nat] : Add(f, a) \in [Time -> Nat]
  BY DEF Add
<1>4. TypeOK'
  BY <1>1, <1>2, <1>3 DEF TypeOK
<1>5. /\ Cardinality(Waiting) \in Nat /\ Cardinality(Waiting') \in Nat
      /\ \A h \in Hubs : Cardinality(WaitingOf(h)) \in Nat /\ Cardinality(WaitingOf(h)') \in Nat
  <2>1. Waiting' \subseteq Bots /\ \A h \in Hubs : WaitingOf(h)' \subseteq Bots
    BY DEF Waiting, WaitingOf
  <2> QED BY <2>1, WaitingSizes, Slackness
<1> DEFINE k == Cardinality(Waiting')
           j(h) == Cardinality(WaitingOf(h)')
<1>6. BoundedBy(Add(total, a), GlobalLimit, k)
  <2>1. BoundedBy(total, GlobalLimit, Cardinality(Waiting))
    BY DEF GuardInv
  <2>2. SpentAt(total, now) + a + MaxAmount * k <= GlobalLimit
    BY DEF SpentGlobal
  <2> HIDE DEF k
  <2> QED BY <1>1, <1>5, <2>1, <2>2, BoundedAdd, Limits DEF k
<1>7. ASSUME NEW h \in Hubs \ {Other} PROVE BoundedBy(hub'[h], HubLimit(h), j(h))
  <2>1. BoundedBy(hub[h], HubLimit(h), Cardinality(WaitingOf(h)))
    BY <1>7 DEF GuardInv
  <2>2. CASE h = HubOf[b]
    <3>1. hub'[h] = Add(hub[h], a)
      BY <1>1, <1>2, <2>2
    <3>2. SpentAt(hub[h], now) + a + MaxAmount * j(h) <= HubLimit(h)
      BY <1>7, <2>2
    <3> HIDE DEF j
    <3> QED BY <1>1, <1>5, <1>7, <2>1, <3>1, <3>2, BoundedAdd, Limits DEF j
  <2>3. CASE h # HubOf[b]
    BY <1>1, <1>2, <1>7, <2>1, <2>3
  <2> QED BY <2>2, <2>3
<1>8. Waiting' \subseteq TwoStep
  BY DEF GuardInv
<1>9. now' = now
  OBVIOUS
<1> QED BY <1>2, <1>4, <1>6, <1>7, <1>8, <1>9
        DEF GuardInv, BoundedBy, RunningTotal, SpentAt, GlobalLimit, HubLimit, TwoStepOf

\* No row is written: the totals stay, and the waiting bots fit the limits.
LEMMA NoInsertStep ==
    ASSUME GuardInv, UNCHANGED <<now, total, hub>>,
           cleared' \in [Bots -> 0 .. MaxAmount], Waiting' \subseteq TwoStep,
           SpentGlobal + MaxAmount * Cardinality(Waiting') <= GlobalLimit,
           \A h \in Hubs \ {Other} :
             SpentAt(hub[h], now) + MaxAmount * Cardinality(WaitingOf(h)') <= HubLimit(h)
    PROVE  GuardInv'
<1>1. TypeOK'
  BY DEF GuardInv, TypeOK
<1>2. BoundedBy(total, GlobalLimit, Cardinality(Waiting'))
  BY DEF GuardInv, BoundedBy, SpentGlobal
<1>3. \A h \in Hubs \ {Other} : BoundedBy(hub[h], HubLimit(h), Cardinality(WaitingOf(h)'))
  BY DEF GuardInv, BoundedBy
<1> QED BY <1>1, <1>2, <1>3
        DEF GuardInv, BoundedBy, RunningTotal, SpentAt, GlobalLimit, HubLimit, TwoStepOf

\* Waiting for nothing more than before: one bot left the waiting set.
LEMMA OneLess ==
    ASSUME GuardInv, NEW b \in Bots, cleared[b] > 0, cleared' = [cleared EXCEPT ![b] = 0]
    PROVE  /\ cleared' \in [Bots -> 0 .. MaxAmount]
           /\ b \in Waiting /\ Waiting' = Waiting \ {b}
           /\ Cardinality(Waiting') = Cardinality(Waiting) - 1
           /\ \A h \in Hubs : h # HubOf[b] => WaitingOf(h)' = WaitingOf(h)
           /\ Cardinality(WaitingOf(HubOf[b])') = Cardinality(WaitingOf(HubOf[b])) - 1
<1>1. cleared \in [Bots -> 0 .. MaxAmount] /\ MaxAmount \in Nat
  BY Constants DEF GuardInv, TypeOK
<1>2. cleared' \in [Bots -> 0 .. MaxAmount] /\ cleared'[b] = 0
      /\ \A c \in Bots \ {b} : cleared'[c] = cleared[c]
  BY <1>1
<1>3. b \in Waiting /\ Waiting' = Waiting \ {b}
  BY <1>2 DEF Waiting
<1>4. /\ b \in WaitingOf(HubOf[b])
      /\ WaitingOf(HubOf[b])' = WaitingOf(HubOf[b]) \ {b}
      /\ \A h \in Hubs : h # HubOf[b] => WaitingOf(h)' = WaitingOf(h)
  BY <1>3 DEF WaitingOf
<1>5. IsFiniteSet(Waiting) /\ IsFiniteSet(WaitingOf(HubOf[b]))
  <2>1. Waiting \subseteq Bots /\ WaitingOf(HubOf[b]) \subseteq Bots
    BY DEF Waiting, WaitingOf
  <2> QED BY <2>1, Slackness
<1>6. /\ Cardinality(Waiting \ {b}) = Cardinality(Waiting) - 1
      /\ Cardinality(WaitingOf(HubOf[b]) \ {b}) = Cardinality(WaitingOf(HubOf[b])) - 1
  BY <1>3, <1>4, <1>5, FS_RemoveElement
<1> QED BY <1>2, <1>3, <1>4, <1>6

\* What the window holds and the waiting bots may add, as numbers.
LEMMA Reach ==
    ASSUME GuardInv
    PROVE  /\ SpentGlobal \in Int
           /\ SpentGlobal + MaxAmount * Cardinality(Waiting) <= GlobalLimit
           /\ \A h \in Hubs : SpentAt(hub[h], now) \in Int
           /\ \A h \in Hubs \ {Other} :
                SpentAt(hub[h], now) + MaxAmount * Cardinality(WaitingOf(h)) <= HubLimit(h)
<1>1. now \in Time /\ total \in [Time -> Nat] /\ \A h \in Hubs : hub[h] \in [Time -> Nat]
  BY DEF GuardInv, TypeOK
<1> QED BY <1>1, SpentType DEF SpentGlobal, GuardInv, BoundedBy

LEMMA TryReserveStep ==
    ASSUME GuardInv, NEW b \in Bots, NEW a \in Amount, TryReserve(b, a)
    PROVE  GuardInv'
<1>1. /\ SpentGlobal + a <= MaxSpend
      /\ HubOf[b] # Other => SpentAt(hub[HubOf[b]], now) + a <= Ceiling[HubOf[b]]
      /\ Insert(b, a) /\ now' = now /\ cleared' = cleared
  BY DEF TryReserve, Fits, SpentHub
<1>2. a \in Nat /\ HubOf[b] \in Hubs /\ Waiting' = Waiting
      /\ \A h \in Hubs : WaitingOf(h)' = WaitingOf(h)
  BY <1>1, Constants DEF Amount, Waiting, WaitingOf
<1>3. /\ MaxAmount * Cardinality(Waiting) <= MaxAmount * Cardinality(TwoStep)
      /\ MaxAmount * Cardinality(Waiting) \in Nat /\ MaxAmount * Cardinality(TwoStep) \in Nat
  BY Slackness, Constants DEF GuardInv
<1>4. ASSUME NEW h \in Hubs
      PROVE  /\ MaxAmount * Cardinality(WaitingOf(h)) <= MaxAmount * Cardinality(TwoStepOf(h))
             /\ MaxAmount * Cardinality(WaitingOf(h)) \in Nat
             /\ MaxAmount * Cardinality(TwoStepOf(h)) \in Nat
  <2>1. WaitingOf(h) \subseteq TwoStepOf(h) /\ TwoStepOf(h) \subseteq Bots
    BY Limits DEF WaitingOf, TwoStepOf, GuardInv
  <2> QED BY <2>1, Slackness
<1>5. SpentGlobal + a + MaxAmount * Cardinality(Waiting') <= GlobalLimit
  BY <1>1, <1>2, <1>3, Reach, Constants DEF GlobalLimit
<1>6. HubOf[b] # Other =>
        SpentAt(hub[HubOf[b]], now) + a + MaxAmount * Cardinality(WaitingOf(HubOf[b])')
          <= HubLimit(HubOf[b])
  <2> DEFINE h == HubOf[b]
             w == MaxAmount * Cardinality(WaitingOf(h))
             s2 == MaxAmount * Cardinality(TwoStepOf(h))
             x == SpentAt(hub[h], now)
  <2> SUFFICES ASSUME h # Other PROVE x + a + w <= Ceiling[h] + s2
    BY <1>2 DEF HubLimit
  <2>1. x + a <= Ceiling[h] /\ w <= s2 /\ w \in Nat /\ s2 \in Nat /\ x \in Int
        /\ Ceiling[h] \in Nat
    BY <1>1, <1>2, <1>4, Reach, Constants
  <2> HIDE DEF h, w, s2, x
  <2> QED BY <1>2, <2>1
<1>7. cleared' \in [Bots -> 0 .. MaxAmount]
  BY <1>1 DEF GuardInv, TypeOK
<1> QED BY <1>1, <1>2, <1>5, <1>6, <1>7, InsertStep

LEMMA CanSpendStep ==
    ASSUME GuardInv, NEW b \in Bots, NEW a \in Amount, CanSpend(b, a)
    PROVE  GuardInv'
<1>1. /\ SpentGlobal + a <= MaxSpend
      /\ HubOf[b] # Other => SpentAt(hub[HubOf[b]], now) + a <= Ceiling[HubOf[b]]
      /\ UNCHANGED <<now, total, hub>> /\ cleared' = [cleared EXCEPT ![b] = a]
      /\ b \in TwoStep
  BY DEF CanSpend, Fits, SpentHub
<1>2. /\ a \in Nat \ {0} /\ a \in 0 .. MaxAmount /\ cleared \in [Bots -> 0 .. MaxAmount]
      /\ HubOf[b] \in Hubs
  BY Constants DEF Amount, GuardInv, TypeOK
<1>3. cleared' \in [Bots -> 0 .. MaxAmount]
  BY <1>1, <1>2
<1>4. Waiting' \subseteq TwoStep
  BY <1>1, <1>2 DEF Waiting, GuardInv
<1>5. SpentGlobal + MaxAmount * Cardinality(Waiting') <= GlobalLimit
  <2>1. /\ MaxAmount * Cardinality(Waiting') <= MaxAmount * Cardinality(TwoStep)
        /\ MaxAmount * Cardinality(Waiting') \in Nat /\ MaxAmount * Cardinality(TwoStep) \in Nat
    BY <1>4, Slackness, Constants
  <2> QED BY <1>1, <1>2, <2>1, Reach, Constants DEF GlobalLimit
<1>6. ASSUME NEW h \in Hubs \ {Other}
      PROVE  SpentAt(hub[h], now) + MaxAmount * Cardinality(WaitingOf(h)') <= HubLimit(h)
  <2>1. CASE h = HubOf[b]
    <3> DEFINE w == MaxAmount * Cardinality(WaitingOf(h)')
               s2 == MaxAmount * Cardinality(TwoStepOf(h))
               x == SpentAt(hub[h], now)
    <3>1. WaitingOf(h)' \subseteq TwoStepOf(h) /\ TwoStepOf(h) \subseteq Bots
      BY <1>4, <1>6, Limits DEF WaitingOf, TwoStepOf
    <3>2. w <= s2 /\ w \in Nat /\ s2 \in Nat
      BY <3>1, Slackness
    <3>3. x + a <= Ceiling[h] /\ x \in Int /\ Ceiling[h] \in Nat
      BY <1>1, <1>6, <2>1, Reach, Constants
    <3> HIDE DEF w, s2, x
    <3>4. x + w <= Ceiling[h] + s2
      BY <1>2, <3>2, <3>3
    <3> QED BY <3>4 DEF HubLimit, w, s2, x
  <2>2. CASE h # HubOf[b]
    <3>1. WaitingOf(h)' = WaitingOf(h)
      BY <1>1, <1>2, <2>2 DEF WaitingOf, Waiting
    <3> QED BY <1>6, <3>1, Reach
  <2> QED BY <2>1, <2>2
<1> QED BY <1>1, <1>3, <1>4, <1>5, <1>6, NoInsertStep

\* A bot stops waiting and writes no row: its order failed or was no BUY.
LEMMA LeaveStep ==
    ASSUME GuardInv, NEW b \in Bots, cleared[b] > 0, cleared' = [cleared EXCEPT ![b] = 0],
           UNCHANGED <<now, total, hub>>
    PROVE  GuardInv'
<1>1. /\ cleared' \in [Bots -> 0 .. MaxAmount] /\ Waiting' = Waiting \ {b} /\ b \in Waiting
      /\ \A h \in Hubs : h # HubOf[b] => WaitingOf(h)' = WaitingOf(h)
  BY OneLess
<1>2. Waiting' \subseteq TwoStep
  BY <1>1 DEF GuardInv
<1>3. SpentGlobal + MaxAmount * Cardinality(Waiting') <= GlobalLimit
  <2>1. MaxAmount * Cardinality(Waiting') <= MaxAmount * Cardinality(Waiting)
        /\ MaxAmount * Cardinality(Waiting') \in Nat /\ MaxAmount * Cardinality(Waiting) \in Nat
    <3>1. Waiting' \subseteq Waiting /\ Waiting \subseteq Bots
      BY <1>1 DEF Waiting
    <3> QED BY <3>1, Slackness
  <2> QED BY <2>1, Reach, Limits
<1>4. ASSUME NEW h \in Hubs \ {Other}
      PROVE  SpentAt(hub[h], now) + MaxAmount * Cardinality(WaitingOf(h)') <= HubLimit(h)
  <2>1. WaitingOf(h)' \subseteq WaitingOf(h) /\ WaitingOf(h) \subseteq Bots
    BY <1>1 DEF WaitingOf, Waiting
  <2>2. MaxAmount * Cardinality(WaitingOf(h)') <= MaxAmount * Cardinality(WaitingOf(h))
        /\ MaxAmount * Cardinality(WaitingOf(h)') \in Nat
        /\ MaxAmount * Cardinality(WaitingOf(h)) \in Nat
    BY <2>1, Slackness
  <2> QED BY <1>4, <2>2, Reach, Limits
<1> QED BY <1>1, <1>2, <1>3, <1>4, NoInsertStep

LEMMA RecordSpendStep ==
    ASSUME GuardInv, NEW b \in Bots, NEW side, RecordSpend(b, side)
    PROVE  GuardInv'
<1>1. cleared[b] > 0 /\ cleared' = [cleared EXCEPT ![b] = 0] /\ now' = now
  BY DEF RecordSpend
<1>2. CASE side # "BUY"
  BY <1>1, <1>2, LeaveStep DEF RecordSpend
<1>3. CASE side = "BUY"
  <2> DEFINE a == cleared[b]
             k == Cardinality(Waiting)
             j(h) == Cardinality(WaitingOf(h))
  <2>1. a \in Nat /\ a <= MaxAmount /\ Insert(b, a) /\ HubOf[b] \in Hubs
    <3>1. cleared \in [Bots -> 0 .. MaxAmount] /\ MaxAmount \in Nat
      BY Constants DEF GuardInv, TypeOK
    <3>2. a \in 0 .. MaxAmount
      BY <3>1
    <3>3. Insert(b, a)
      BY <1>3 DEF RecordSpend
    <3> QED BY <3>1, <3>2, <3>3, Constants
  <2>2. /\ cleared' \in [Bots -> 0 .. MaxAmount] /\ Waiting' \subseteq Waiting
        /\ Cardinality(Waiting') = k - 1
        /\ \A h \in Hubs : h # HubOf[b] => WaitingOf(h)' = WaitingOf(h)
        /\ Cardinality(WaitingOf(HubOf[b])') = j(HubOf[b]) - 1
    BY <1>1, OneLess
  <2>3. k \in Nat /\ j(HubOf[b]) \in Nat /\ k >= 1 /\ j(HubOf[b]) >= 1
    <3>1. k \in Nat /\ j(HubOf[b]) \in Nat
      BY <2>1, WaitingSizes
    <3>2. Waiting' \subseteq Bots /\ WaitingOf(HubOf[b])' \subseteq Bots
      BY DEF Waiting, WaitingOf
    <3>3. k - 1 \in Nat /\ j(HubOf[b]) - 1 \in Nat
      BY <2>2, <3>2, Slackness
    <3> HIDE DEF k, j
    <3> QED BY <3>1, <3>3
  <2>4. SpentGlobal + a + MaxAmount * Cardinality(Waiting') <= GlobalLimit
    <3>1. SpentGlobal + MaxAmount * k <= GlobalLimit /\ SpentGlobal \in Int
      BY Reach
    <3> HIDE DEF k, a
    <3>2. MaxAmount * (k - 1) = MaxAmount * k - MaxAmount /\ MaxAmount * k \in Nat
      BY <2>3, Constants, SMT
    <3> QED BY <2>1, <2>2, <3>1, <3>2, Limits, Constants
  <2>5. HubOf[b] # Other =>
          SpentAt(hub[HubOf[b]], now) + a + MaxAmount * Cardinality(WaitingOf(HubOf[b])')
            <= HubLimit(HubOf[b])
    <3> DEFINE i == j(HubOf[b])
               x == SpentAt(hub[HubOf[b]], now)
    <3> SUFFICES ASSUME HubOf[b] # Other
                 PROVE  x + a + MaxAmount * (i - 1) <= HubLimit(HubOf[b])
      BY <2>2
    <3>1. x + MaxAmount * i <= HubLimit(HubOf[b]) /\ x \in Int /\ HubLimit(HubOf[b]) \in Nat
      BY <2>1, Reach, Limits
    <3>2. i \in Nat /\ i >= 1
      BY <2>3
    <3> HIDE DEF i, x, a, j
    <3>3. MaxAmount * (i - 1) = MaxAmount * i - MaxAmount /\ MaxAmount * i \in Nat
      BY <3>2, Constants, SMT
    <3> QED BY <2>1, <3>1, <3>3, Constants
  <2> QED BY <1>1, <2>1, <2>2, <2>4, <2>5, InsertStep
<1> QED BY <1>2, <1>3

LEMMA TickStep ==
    ASSUME GuardInv, Tick
    PROVE  GuardInv'
<1>1. /\ now \in Time /\ now' = now + 1 /\ now' \in Time
      /\ UNCHANGED <<total, hub, cleared>>
  BY Constants DEF GuardInv, TypeOK, Tick, Time
<1>2. TypeOK'
  BY <1>1 DEF GuardInv, TypeOK
<1>3. Waiting' = Waiting /\ \A h \in Hubs : WaitingOf(h)' = WaitingOf(h)
  BY <1>1 DEF Waiting, WaitingOf
<1>4. BoundedBy(total, GlobalLimit, Cardinality(Waiting))'
  <2> DEFINE f == total
             k == Cardinality(Waiting)
  <2>1. BoundedBy(f, GlobalLimit, k) /\ k \in Nat /\ GlobalLimit \in Nat
    BY WaitingSizes, Limits DEF GuardInv
  <2>2. /\ RunningTotal(total)' /\ SpentAt(total, now)' + MaxAmount * k <= GlobalLimit
        /\ \A t \in 0 .. now' : SpentAt(total, t) <= GlobalLimit
    <3> HIDE DEF k
    <3> QED BY <1>1, <2>1, BoundedTick DEF BoundedBy, RunningTotal, SpentAt
  <2> QED BY <1>1, <1>3, <2>2 DEF BoundedBy, SpentAt, GlobalLimit
<1>5. ASSUME NEW h \in Hubs \ {Other}
      PROVE  BoundedBy(hub[h], HubLimit(h), Cardinality(WaitingOf(h)))'
  <2> DEFINE f == hub[h]
             k == Cardinality(WaitingOf(h))
  <2>1. BoundedBy(f, HubLimit(h), k) /\ k \in Nat /\ HubLimit(h) \in Nat
    BY <1>5, WaitingSizes, Limits DEF GuardInv
  <2>2. /\ RunningTotal(hub[h])' /\ SpentAt(hub[h], now)' + MaxAmount * k <= HubLimit(h)
        /\ \A t \in 0 .. now' : SpentAt(hub[h], t) <= HubLimit(h)
    <3> HIDE DEF k
    <3> QED BY <1>1, <2>1, BoundedTick DEF BoundedBy, RunningTotal, SpentAt
  <2> QED BY <1>1, <1>3, <2>2 DEF BoundedBy, SpentAt, HubLimit, TwoStepOf
<1> QED BY <1>2, <1>3, <1>4, <1>5 DEF GuardInv

LEMMA GuardInit == Init => GuardInv
<1> SUFFICES ASSUME Init PROVE GuardInv OBVIOUS
<1>1. TypeOK
  BY Constants DEF Init, TypeOK, Time
<1>2. Waiting = {} /\ \A h \in Hubs : WaitingOf(h) = {}
  BY DEF Init, Waiting, WaitingOf
<1>3. Cardinality({}) = 0
  BY FS_EmptySet
<1> DEFINE f == [t \in Time |-> 0]
<1>4. \A lim \in Nat : BoundedBy(f, lim, 0)
  <2>1. now = 0 /\ 0 \in Time
    BY Constants DEF Init, Time
  <2>2. RunningTotal(f)
    BY <2>1 DEF RunningTotal
  <2>3. \A t \in 0 .. now : SpentAt(f, t) = 0
    <3>1. \A t \in 0 .. now : t = 0
      BY <2>1
    <3> QED BY <2>1, <3>1, Constants DEF SpentAt
  <2>4. MaxAmount * 0 = 0
    BY Constants
  <2>5. now \in 0 .. now
    BY <2>1
  <2> HIDE DEF f
  <2> QED BY <2>2, <2>3, <2>4, <2>5 DEF BoundedBy
<1>5. total = f /\ \A h \in Hubs : hub[h] = f
  BY DEF Init
<1> HIDE DEF f
<1> QED BY <1>1, <1>2, <1>3, <1>4, <1>5, Limits DEF GuardInv

\* The totals, the clock and the amounts in hand keep their types, no window
\* holds more than its limit, and the room for the waiting bots is there.
LEMMA GuardInvariant == Spec => []GuardInv
<1>1. GuardInv /\ [Next]_vars => GuardInv'
  <2> SUFFICES ASSUME GuardInv, [Next]_vars PROVE GuardInv' OBVIOUS
  <2>1. ASSUME NEW b \in Bots, NEW a \in Amount, TryReserve(b, a) PROVE GuardInv'
    BY <2>1, TryReserveStep
  <2>2. ASSUME NEW b \in Bots, NEW a \in Amount, CanSpend(b, a) PROVE GuardInv'
    BY <2>2, CanSpendStep
  <2>3. ASSUME NEW b \in Bots, NEW side \in {"BUY", "SHORT"}, RecordSpend(b, side) PROVE GuardInv'
    BY <2>3, RecordSpendStep
  <2>4. ASSUME NEW b \in Bots, Abandon(b) PROVE GuardInv'
    BY <2>4, LeaveStep DEF Abandon
  <2>5. CASE Tick
    BY <2>5, TickStep
  <2>6. CASE UNCHANGED vars
    BY <2>6 DEF vars, GuardInv, TypeOK, Waiting, WaitingOf, BoundedBy, RunningTotal, SpentAt,
                GlobalLimit, HubLimit, TwoStepOf
  <2> QED BY <2>1, <2>2, <2>3, <2>4, <2>5, <2>6 DEF Next
<1> QED BY <1>1, GuardInit, PTL DEF Spec

\* Type correctness of the guard for every set of bots and hubs.
THEOREM GuardTypes == Spec => []TypeOK
<1>1. GuardInv => TypeOK
  BY DEF GuardInv
<1> QED BY <1>1, GuardInvariant, PTL

\* The kill switch: in every window of 24 h, wherever it ends, the recorded BUY
\* spend is within max_daily_spend_usdt plus one order per two-step bot.
THEOREM SpendWithinCeiling == Spec => []WindowWithinCeiling
<1>1. GuardInv => WindowWithinCeiling
  BY DEF GuardInv, BoundedBy, WindowWithinCeiling, GlobalLimit, Slack
<1> QED BY <1>1, GuardInvariant, PTL

\* The hub ceilings, with slack only for the hub's own two-step bots.
THEOREM HubSpendWithinShare == Spec => []HubWithinShare
<1>1. GuardInv => HubWithinShare
  BY DEF GuardInv, BoundedBy, HubWithinShare, HubLimit
<1> QED BY <1>1, GuardInvariant, PTL

\* Where every bot reserves with try_reserve, as the Louise runner does, the
\* ceiling is exact: concurrent reservations never overshoot it.
THEOREM ReserveIsExact ==
    ASSUME TwoStep = {}
    PROVE  Spec => [](\A t \in 0 .. now : SpentAt(total, t) <= MaxSpend)
<1>1. WindowWithinCeiling => \A t \in 0 .. now : SpentAt(total, t) <= MaxSpend
  <2>1. Cardinality(TwoStep) = 0
    BY FS_EmptySet
  <2>2. Slack = 0
    BY <2>1, Constants DEF Slack
  <2> QED BY <2>2, Constants DEF WindowWithinCeiling
<1> QED BY <1>1, SpendWithinCeiling, PTL

=============================================================================
