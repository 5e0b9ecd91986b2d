----------------------------- MODULE KlineChain -----------------------------
(***************************************************************************)
(* The candles of one symbol and interval in kline_history, each with its  *)
(* Heikin-Ashi value: KlineIngestionService (core/kline_ingestion.py)      *)
(* fetches them, TelemetryVault.store_klines_with_ha                       *)
(* (core/telemetry_vault.py) averages and stores them.                     *)
(*                                                                         *)
(* A candle is the number of its interval; its bar changes while it forms  *)
(* and is "final" once it has closed. A Heikin-Ashi value is the set of    *)
(* the bars <<candle, bar>> it was averaged from: the recursive formula    *)
(* adds the bar of its own candle to what the previous value came from.    *)
(***************************************************************************)
EXTENDS Integers

CONSTANTS
    RefreshTail, \* refresh_tail_candles
    Bootstrap,   \* bootstrap_candles
    MaxCandles   \* bound: the last candle that forms

ASSUME KlineAssumption ==
    /\ RefreshTail \in Nat \ {0}
    /\ Bootstrap \in Nat \ {0}
    /\ MaxCandles \in Nat \ {0}

Candles == 1 .. MaxCandles
Forming == {"early", "late"}
Bars == Forming \cup {"final"}
Row == [bar : Bars, closed : BOOLEAN, ha : SUBSET (Candles \X Bars)]
NoRow == [bar |-> "none", closed |-> FALSE, ha |-> {}]

VARIABLES
    now,            \* the candle that forms at the exchange
    bar,            \* its bar so far
    rows,           \* kline_history
    bootstrapped,   \* (symbol, interval) \in _bootstrapped
    phase,          \* the call _tick awaits: "time" and "klines", or "idle"
    clock,          \* server_ms: the candle it falls in, MaxCandles + 1 for None
    batch,          \* klines: the bars the exchange answered
    breaks,         \* history: rows behind which the next batch did not reach back
    unclocked       \* history: rows stored last without a server time

exchange == <<now, bar>>
tick == <<phase, clock, batch>>
vars == <<exchange, rows, bootstrapped, tick, breaks, unclocked>>

Stored == {n \in Candles : rows[n] # NoRow}
Newest(S) == CHOOSE n \in S : \A m \in S : m <= n

-----------------------------------------------------------------------------
(* The exchange *)

BarOf(n) == IF n < now THEN "final" ELSE bar

Trade ==
    /\ bar' \in Forming \ {bar}
    /\ UNCHANGED <<now, rows, bootstrapped, tick, breaks, unclocked>>

CandleCloses ==
    /\ now < MaxCandles
    /\ now' = now + 1
    /\ bar' = "early"
    /\ UNCHANGED <<rows, bootstrapped, tick, breaks, unclocked>>

-----------------------------------------------------------------------------
(* KlineIngestionService._tick *)

\* With a gateway and a bot on the symbol a tick asks for the server time;
\* without them it ends where it began. An error leaves server_ms None.
TickBegins ==
    /\ phase = "idle"
    /\ phase' = "time"
    /\ UNCHANGED <<exchange, rows, bootstrapped, clock, batch, breaks, unclocked>>
TimeAnswered ==
    /\ phase = "time"
    /\ clock' \in {now, MaxCandles + 1}
    /\ phase' = "klines"
    /\ UNCHANGED <<exchange, rows, bootstrapped, batch, breaks, unclocked>>

\* The first fetch of the process asks for the whole history.
Limit == IF bootstrapped THEN RefreshTail ELSE Bootstrap
KlinesAnswered ==
    /\ phase = "klines" /\ batch = <<>>
    /\ batch' = [n \in {m \in Candles : now - Limit < m /\ m <= now} |-> BarOf(n)]
    /\ UNCHANGED <<exchange, rows, bootstrapped, phase, clock, breaks, unclocked>>
KeepsBatch ==                                                       \* mutant
    /\ phase = "klines"
    /\ phase' = "idle"
    /\ UNCHANGED <<exchange, rows, bootstrapped, clock, batch, breaks, unclocked>>
\* No answer, or the last row of the vault cannot be read.
FetchFails ==
    /\ phase = "klines"
    /\ phase' = "idle"
    /\ batch' = <<>>
    /\ UNCHANGED <<exchange, rows, bootstrapped, clock, breaks, unclocked>>

-----------------------------------------------------------------------------
(* TelemetryVault.store_klines_with_ha *)

Oldest == CHOOSE n \in DOMAIN batch : \A m \in DOMAIN batch : n <= m

\* _get_last_ha: the value of the newest row before the batch.
LastUpTo(n) ==                                                      \* mutant
    LET older == {m \in Stored : m <= n} IN
    IF older = {} THEN {} ELSE rows[Newest(older)].ha
LastBefore(n) ==
    LET older == {m \in Stored : m < n} IN
    IF older = {} THEN {} ELSE rows[Newest(older)].ha

FromBatch(n) == {<<m, batch[m]>> : m \in {k \in DOMAIN batch : k <= n}}
ClosedByNow(n) == n < now \/ clock > MaxCandles                     \* mutant
Closed(n) == n < clock

Averaged(n) == [bar |-> batch[n], closed |-> Closed(n),
                ha |-> LastBefore(Oldest) \cup FromBatch(n)]
Ignored == [n \in Candles |->                                       \* mutant
    IF n \in DOMAIN batch \ Stored THEN Averaged(n) ELSE rows[n]]
Upserted == [n \in Candles |-> IF n \in DOMAIN batch THEN Averaged(n) ELSE rows[n]]

Store ==
    /\ batch # <<>>
    /\ rows' = Upserted
    /\ bootstrapped' = TRUE
    /\ phase' = "idle"
    /\ batch' = <<>>
    /\ breaks' = {n \in breaks : n < Oldest} \cup
                 {n \in Stored : n < Oldest /\ \A m \in Stored : m <= n}
    /\ unclocked' = IF clock > MaxCandles THEN unclocked \cup DOMAIN batch
                    ELSE unclocked \ DOMAIN batch
    /\ UNCHANGED <<exchange, clock>>

\* The database refuses the rows: the error is kept to the vault, and the
\* history counts as fetched.
StoreFails ==
    /\ batch # <<>>
    /\ bootstrapped' = TRUE
    /\ phase' = "idle"
    /\ batch' = <<>>
    /\ UNCHANGED <<exchange, rows, clock, breaks, unclocked>>

\* The process ends, or stop() cancels the tick on its way out.
Restart ==
    /\ bootstrapped' = FALSE
    /\ phase' = "idle"
    /\ batch' = <<>>
    /\ UNCHANGED <<exchange, rows, clock, breaks, unclocked>>

Init ==
    /\ now \in Candles
    /\ bar = "early"
    /\ rows = [n \in Candles |-> NoRow]
    /\ bootstrapped = FALSE
    /\ phase = "idle"
    /\ clock = now
    /\ batch = <<>>
    /\ breaks = {}
    /\ unclocked = {}

Next ==
    \/ Trade \/ CandleCloses
    \/ TickBegins \/ TimeAnswered \/ KlinesAnswered \/ FetchFails
    \/ Store \/ StoreFails \/ Restart

Spec == Init /\ [][Next]_vars

-----------------------------------------------------------------------------
(* Properties *)

\* Every variable has its type (kline_history, _bootstrapped, the locals of
\* _tick).
TypeOK ==
    /\ now \in Candles /\ bar \in Forming
    /\ rows \in [Candles -> Row \cup {NoRow}]
    /\ bootstrapped \in BOOLEAN
    /\ phase \in {"idle", "time", "klines"}
    /\ clock \in 1 .. MaxCandles + 1
    /\ batch # <<>> => /\ phase = "klines"
                       /\ DOMAIN batch \subseteq 1 .. now
                       /\ batch \in [DOMAIN batch -> Bars]
    /\ breaks \subseteq Stored /\ unclocked \subseteq Stored

\* The value of a row continues that of the stored row before it, in whatever
\* batches the two were stored ("each candle's HA is computed using the
\* immediately preceding candle's HA, either from the same batch or from DB",
\* store_klines_with_ha).
Chained == \A n \in Stored :
    LET older == {m \in Stored : m < n} IN
    rows[n].ha = {<<n, rows[n].bar>>} \cup IF older = {} THEN {} ELSE rows[Newest(older)].ha

\* No drift from ingesting in chunks, failing to store, or starting again: the
\* value of a row is the one the final bars of the whole stored history give in
\* one pass, unless a batch once fell short of the newest row then stored, and
\* no bootstrap has reached back over that place since (_tick,
\* store_klines_with_ha; tests/test_kline_ha_storage.py).
UnbrokenIsWhole == \A n \in Stored :
    (\A b \in breaks : n <= b) =>
        LET oldest == CHOOSE m \in Stored : \A k \in Stored : m <= k IN
        rows[n].ha = {<<m, "final">> : m \in oldest .. n - 1} \cup {<<n, rows[n].bar>>}

\* A row is marked closed on its final bar only, although the candle may close
\* between the two answers of the exchange, unless the server time was missing
\* when it was stored (_tick asks for the time before the klines).
ClosedIsFinal == \A n \in Stored \ unclocked : rows[n].closed => rows[n].bar = "final"
=============================================================================
