---------------------------- MODULE BudgetGuard ----------------------------
(***************************************************************************)
(* The rolling 24 h spend guard of runtime/core/budget_guard.py.           *)
(*                                                                         *)
(* budget_ledger is append only and every query of it is a sum over its    *)
(* BUY rows by time, so the ledger is kept as running totals: total[t] is  *)
(* the amount of the BUY rows stamped t or earlier, hub[h][t] the same for *)
(* the bots of hub h.  What was spent in a window is then a difference of  *)
(* two totals.  Rows of any other side are never summed and are left out.  *)
(***************************************************************************)
EXTENDS Integers, FiniteSets

CONSTANTS
    Bots,
    Hubs,
    Other,      \* the hub of the bots whose id starts with no hub's name
    HubOf,      \* _hub_from_bot_id
    Ceiling,    \* _hub_ceiling
    MaxSpend,   \* max_daily_spend_usdt
    MaxAmount,  \* largest single order
    Window,     \* 86400
    Horizon,    \* bound on the clock
    TwoStep     \* callers of can_spend and record_spend: a bot with several
                \* orders between its two calls counts once for each

ASSUME GuardAssumption ==
    /\ IsFiniteSet(Bots) /\ Other \in Hubs
    /\ HubOf \in [Bots -> Hubs]
    /\ Ceiling \in [Hubs -> Nat]
    /\ MaxSpend \in Nat /\ MaxAmount \in Nat \ {0}
    /\ Window \in Nat /\ Horizon \in Nat
    /\ TwoStep \subseteq Bots

VARIABLES
    now,        \* time.time(), in units of the model
    total,      \* running total of the BUY rows
    hub,        \* the same per hub
    cleared     \* the amount can_spend allowed a bot that has not recorded it

vars == <<now, total, hub, cleared>>

Time   == 0 .. Horizon
Amount == 1 .. MaxAmount

-----------------------------------------------------------------------------
\* SUM over the rows with ts >= t - Window, as seen at time t: the row stamped
\* exactly at the cutoff still counts.
SpentAt(f, t) == f[t] - (IF t > Window THEN f[t - Window - 1] ELSE 0)

SpentGlobal == SpentAt(total, now)

\* bot_id LIKE '<hub>%': no id starts with "other".
SpentHub(h) == IF h = Other THEN 0 ELSE SpentAt(hub[h], now)

FitsBefore(b, a) ==                                                      \* mutant
    SpentGlobal < MaxSpend /\ SpentHub(HubOf[b]) < Ceiling[HubOf[b]]
FitsGlobal(b, a) == SpentGlobal + a <= MaxSpend                          \* mutant
Fits(b, a) ==
    /\ SpentGlobal + a <= MaxSpend
    /\ SpentHub(HubOf[b]) + a <= Ceiling[HubOf[b]]

AddRefund(f, a) == [t \in Time |-> IF t >= now THEN f[t] - a ELSE f[t]]  \* mutant
Add(f, a) == [t \in Time |-> IF t >= now THEN f[t] + a ELSE f[t]]

Insert(b, a) ==
    /\ total' = Add(total, a)
    /\ hub' = [hub EXCEPT ![HubOf[b]] = Add(hub[HubOf[b]], a)]

\* try_reserve: check and insert in one BEGIN IMMEDIATE transaction.
TryReserve(b, a) ==
    /\ b \notin TwoStep
    /\ Fits(b, a)
    /\ Insert(b, a)
    /\ UNCHANGED <<now, cleared>>

\* can_spend, and the caller that goes on with its answer in hand.
CanSpend(b, a) ==
    /\ b \in TwoStep /\ cleared[b] = 0
    /\ Fits(b, a)
    /\ cleared' = [cleared EXCEPT ![b] = a]
    /\ UNCHANGED <<now, total, hub>>

\* record_spend once the order filled, without another check.  A row whose side
\* is not BUY is never summed.
RecordSpend(b, side) ==
    /\ cleared[b] > 0
    /\ IF side = "BUY" THEN Insert(b, cleared[b]) ELSE UNCHANGED <<total, hub>>
    /\ cleared' = [cleared EXCEPT ![b] = 0]
    /\ UNCHANGED now

\* The order came to nothing.
Abandon(b) ==
    /\ cleared[b] > 0
    /\ cleared' = [cleared EXCEPT ![b] = 0]
    /\ UNCHANGED <<now, total, hub>>

Tick ==
    /\ now < Horizon
    /\ now' = now + 1
    /\ UNCHANGED <<total, hub, cleared>>

-----------------------------------------------------------------------------
Init ==
    /\ now = 0
    /\ total = [t \in Time |-> 0]
    /\ hub = [h \in Hubs |-> [t \in Time |-> 0]]
    /\ cleared = [b \in Bots |-> 0]

Next ==
    \/ \E b \in Bots, a \in Amount : TryReserve(b, a) \/ CanSpend(b, a)
    \/ \E b \in Bots, side \in {"BUY", "SHORT"} : RecordSpend(b, side)
    \/ \E b \in Bots : Abandon(b)
    \/ Tick

Spec == Init /\ [][Next]_vars

-----------------------------------------------------------------------------
\* Every variable has its type.
TypeOK ==
    /\ now \in Time
    /\ total \in [Time -> Nat]
    /\ hub \in [Hubs -> [Time -> Nat]]
    /\ cleared \in [Bots -> 0 .. MaxAmount]

\* The kill switch: no window of 24 h, whenever it ends, holds more BUY spend
\* than max_daily_spend_usdt, except for one order of every bot that checks and
\* records apart.  With try_reserve alone the ceiling is exact.
Slack == MaxAmount * Cardinality(TwoStep)
WindowWithinCeiling ==
    \A t \in 0 .. now : SpentAt(total, t) <= MaxSpend + Slack

\* The same for each named hub and its share: one hub cannot take what is
\* reserved for another, and only its own bots can cause it slack.
TwoStepOf(h) == {b \in TwoStep : HubOf[b] = h}
HubWithinShare ==
    \A h \in Hubs \ {Other} : \A t \in 0 .. now :
        SpentAt(hub[h], t) <= Ceiling[h] + MaxAmount * Cardinality(TwoStepOf(h))

=============================================================================
