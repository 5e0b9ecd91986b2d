------------------------------ MODULE Console ------------------------------
(***************************************************************************)
(* What the desktop console shows of the bots (desktop_shell): the engine  *)
(* pushes it over one WebSocket (core/telemetry_collector.py,              *)
(* core/ws_broadcaster.py, api/routers/louise.py), the console reconnects  *)
(* when the stream is lost and reads by REST meanwhile                     *)
(* (services/telemetry_socket.dart, pages/louise_hub_page.dart).           *)
(*                                                                         *)
(* The table of bots is the number of its last change. A message says how  *)
(* it was when the message was made, and whether it brings the account.    *)
(* Timers count seconds. TelemetryHub's own polling is left out: its timer *)
(* of 8 s is cancelled at each attempt to connect, and these are at most   *)
(* twice RetryDelay apart.                                                 *)
(***************************************************************************)
EXTENDS Integers, Sequences

CONSTANTS
    Loads,          \* readings by REST that may be under way at once
    RetryDelay,     \* AppConfig.wsReconnectDelay
    MaxAttempts,    \* AppConfig.wsMaxReconnectAttempts
    PollPeriod,     \* of the page's fallback
    MaxChanges,     \* bound: changes of the bots
    MaxFaults,      \* bound: streams lost, engines restarted, failed readings
    MaxWire         \* bound: messages pushed and not brought yet

ASSUME ConsoleAssumption ==
    /\ Loads # {}
    /\ {RetryDelay, MaxAttempts, PollPeriod, MaxWire} \subseteq Nat \ {0}
    /\ {MaxChanges, MaxFaults} \subseteq Nat

Off == -1       \* a timer that does not run
None == -1      \* no message, and a message without the bots
Idle == -1      \* a place for a reading that is free
Asked == -2     \* a reading that waits for its answer
Versions == 0 .. MaxChanges
Messages == [bots : Versions \cup {None}, account : BOOLEAN]

VARIABLES
    bots,       \* louise_bots
    pushes,     \* tasks of publish_sync that have not run yet
    last,       \* Broadcaster._last_snapshot
    link,       \* the channel of the socket service
    wire,       \* what the engine has sent on it
    attempts,   \* _reconnectCount
    retry,      \* _reconnectTimer
    page,       \* _bots, and whether the page shows the account
    hears,      \* the page's _wsConnected
    poll,       \* its _restFallbackTimer
    loads,      \* its readings: Idle, Asked, or the version it got
    faults,     \* how many there have been
    behind      \* history: a change nobody will bring, or undone by an old answer

engine == <<bots, pushes, last>>
socket == <<link, attempts, retry>>
consoleVars == <<engine, socket, wire, page, hears, poll, loads, faults, behind>>

Fault == faults < MaxFaults /\ faults' = faults + 1

\* A reading that begins; the bound makes it wait for a free place.
Loading(asked) == \E r \in Loads : loads[r] = Idle /\ asked = [loads EXCEPT ![r] = Asked]

-----------------------------------------------------------------------------
(* The engine *)

\* A runner writes its bot: nobody is told.
RunnerWrites ==
    /\ bots < MaxChanges
    /\ bots' = bots + 1
    /\ behind' = TRUE
    /\ UNCHANGED <<pushes, last, socket, wire, page, hears, poll, loads, faults>>

\* A request of the router writes a bot and makes a message of the table, which
\* a task of its own will publish. The page reads the bots again after a request
\* of its own (_mutate).
Untold(v) == pushes' = pushes                                       \* mutant
Requested(v) == pushes' = Append(pushes, v)
Request(own) ==
    /\ bots < MaxChanges
    /\ bots' = bots + 1
    /\ Requested(bots')
    /\ IF own THEN Loading(loads') ELSE loads' = loads
    /\ UNCHANGED <<last, socket, wire, page, hears, poll, faults, behind>>

\* Broadcaster.publish
Publish(message) ==
    /\ last' = message
    /\ wire' = IF link = "open" THEN Append(wire, message) ELSE wire

\* The task runs; an older message than a later one of the collector may follow it.
PushPublished ==
    /\ pushes # <<>> /\ Len(wire) < MaxWire
    /\ Publish([bots |-> Head(pushes), account |-> FALSE])
    /\ pushes' = Tail(pushes)
    /\ behind' = IF pushes' = <<>> THEN behind \/ Head(pushes) # bots ELSE behind
    /\ UNCHANGED <<bots, socket, page, hears, poll, loads, faults>>

\* TelemetryCollector._loop: one sample; without the bots when reading them fails.
Collect ==
    /\ Len(wire) < MaxWire
    /\ Publish([bots |-> bots, account |-> TRUE])
    /\ UNCHANGED <<bots, pushes, socket, page, hears, poll, loads, faults, behind>>
CollectFails ==
    /\ Fault
    /\ Len(wire) < MaxWire
    /\ Publish([bots |-> None, account |-> TRUE])
    /\ UNCHANGED <<bots, pushes, socket, page, hears, poll, loads, behind>>

-----------------------------------------------------------------------------
(* TelemetrySocketService *)

\* _scheduleReconnect
Bumped(n) == (IF n >= MaxAttempts THEN 0 ELSE n) + 1
OnlyOnError(n) == IF n = 1 THEN Off ELSE RetryDelay                 \* mutant
Delay(n) == LET k == IF n > 4 THEN 3 ELSE n - 1
                d == RetryDelay * 2 ^ k
            IN IF d > 30 THEN 30 ELSE d

\* The page is told and starts its polling (connectionStream, _startRestFallback).
NotTold == hears' = FALSE /\ poll' = poll                            \* mutant
FallsBack == hears' = FALSE /\ poll' = IF poll = Off THEN PollPeriod ELSE poll

\* _setDisconnected and _scheduleReconnect, the n-th in a row.
Disconnected(n) ==
    /\ link' = "down"
    /\ wire' = <<>>
    /\ attempts' = n
    /\ retry' = Delay(n)
    /\ FallsBack

\* The engine takes the client and sends it the last message (accept).
Accepted ==
    /\ link = "opening"
    /\ link' = "open"
    /\ wire' = IF last.bots = None /\ ~last.account THEN <<>> ELSE <<last>>
    /\ behind' = (behind \/ last.bots # bots)
    /\ UNCHANGED <<engine, attempts, retry, page, hears, poll, loads, faults>>

\* It cannot be reached or says no: the channel brings an error, then its end.
Refused ==
    /\ link = "opening"
    /\ Disconnected(Bumped(Bumped(attempts)))
    /\ UNCHANGED <<engine, page, loads, faults, behind>>

\* The stream ends.
Lost ==
    /\ Fault
    /\ link = "open"
    /\ Disconnected(Bumped(attempts))
    /\ UNCHANGED <<engine, page, loads, behind>>

\* The engine restarts and its memory is lost; the HTTP client repeats a call.
EngineRestart ==
    /\ Fault
    /\ pushes' = <<>>
    /\ last' = [bots |-> None, account |-> FALSE]
    /\ CASE link = "down" -> UNCHANGED <<socket, wire, hears, poll>>
         [] link = "open" -> Disconnected(Bumped(attempts))
         [] OTHER -> Disconnected(Bumped(Bumped(attempts)))
    /\ behind' = TRUE
    /\ UNCHANGED <<bots, page, loads>>

\* _doConnect: the service counts itself connected, and the attempts start anew,
\* before anybody has answered.
RetryFires ==
    /\ retry = 0
    /\ link' = "opening"
    /\ attempts' = 0
    /\ retry' = Off
    /\ hears' = TRUE
    /\ UNCHANGED <<engine, wire, page, poll, loads, faults, behind>>

-----------------------------------------------------------------------------
(* LouiseHubPage *)

\* _applySnapshot: a message without the bots leaves them, one without the
\* account blanks it.
Deliver ==
    /\ wire # <<>>
    /\ wire' = Tail(wire)
    /\ LET m == Head(wire) IN
         /\ page' = [bots |-> IF m.bots = None THEN page.bots ELSE m.bots, account |-> m.account]
         /\ behind' = (behind /\ ~(m.bots = bots /\ wire' = <<>>))
    /\ hears' = TRUE
    /\ UNCHANGED <<engine, socket, poll, loads, faults>>

\* The fallback's timer: it stops itself when the stream is there.
PollFires ==
    /\ poll = 0
    /\ IF hears THEN poll' = Off /\ loads' = loads
       ELSE poll' = PollPeriod /\ Loading(loads')
    /\ UNCHANGED <<engine, socket, wire, page, hears, faults, behind>>

\* _loadSupplementaryData: the engine answers, the page applies it later. A call
\* that fails leaves what is shown.
LoadAnswered(r) ==
    /\ loads[r] = Asked
    /\ loads' = [loads EXCEPT ![r] = bots]
    /\ UNCHANGED <<engine, socket, wire, page, hears, poll, faults, behind>>
LoadReturns(r) ==
    /\ loads[r] \in Versions
    /\ page' = [page EXCEPT !.bots = loads[r]]
    /\ behind' = (behind \/ loads[r] # bots)
    /\ loads' = [loads EXCEPT ![r] = Idle]
    /\ UNCHANGED <<engine, socket, wire, hears, poll, faults>>
LoadFails(r) ==
    /\ Fault
    /\ loads[r] # Idle
    /\ loads' = [loads EXCEPT ![r] = Idle]
    /\ UNCHANGED <<engine, socket, wire, page, hears, poll, behind>>

-----------------------------------------------------------------------------
\* A second passes; what is due and the attempt to connect are not kept waiting.
Second ==
    /\ retry # 0 /\ poll # 0 /\ link # "opening"
    /\ retry > 0 \/ poll > 0
    /\ retry' = IF retry = Off THEN Off ELSE retry - 1
    /\ poll' = IF poll = Off THEN Off ELSE poll - 1
    /\ UNCHANGED <<engine, link, attempts, wire, page, hears, loads, faults, behind>>

\* The socket connects before the page is there to hear of it; the page begins
\* with a reading.
ConsoleInit ==
    /\ bots = 0 /\ pushes = <<>>
    /\ last = [bots |-> None, account |-> FALSE]
    /\ link = "opening" /\ wire = <<>>
    /\ attempts = 0 /\ retry = Off
    /\ page = [bots |-> None, account |-> FALSE]
    /\ hears = FALSE /\ poll = Off
    /\ \E r \in Loads : loads = [x \in Loads |-> IF x = r THEN Asked ELSE Idle]
    /\ faults = 0
    /\ behind = TRUE

ConsoleNext ==
    \/ RunnerWrites \/ \E own \in BOOLEAN : Request(own)
    \/ PushPublished \/ Collect \/ CollectFails
    \/ Accepted \/ Refused \/ Lost \/ EngineRestart \/ RetryFires
    \/ Deliver \/ PollFires
    \/ \E r \in Loads : LoadAnswered(r) \/ LoadReturns(r) \/ LoadFails(r)
    \/ Second

\* The event loops run what is due, and a call is answered. The engine may refuse
\* the stream for ever; it collects again and again.
Fairness ==
    /\ WF_consoleVars(Second) /\ WF_consoleVars(RetryFires) /\ WF_consoleVars(PollFires)
    /\ WF_consoleVars(Accepted \/ Refused) /\ WF_consoleVars(Deliver)
    /\ WF_consoleVars(PushPublished) /\ WF_consoleVars(Collect)
    /\ \A r \in Loads : WF_consoleVars(LoadAnswered(r)) /\ WF_consoleVars(LoadReturns(r))

ConsoleSpec == ConsoleInit /\ [][ConsoleNext]_consoleVars /\ Fairness

-----------------------------------------------------------------------------
(* Properties *)

\* Every variable has its type, and the service tries to connect exactly when it
\* has no channel (telemetry_socket).
ConsoleTypeOK ==
    /\ bots \in Versions
    /\ pushes \in Seq(Versions)
    /\ last \in Messages
    /\ link \in {"opening", "open", "down"}
    /\ wire \in Seq(Messages) /\ (link # "open" => wire = <<>>)
    /\ attempts \in 0 .. MaxAttempts
    /\ retry \in {Off} \cup 0 .. 30
    /\ link = "down" <=> retry # Off
    /\ page \in Messages
    /\ hears \in BOOLEAN
    /\ poll \in {Off} \cup 0 .. PollPeriod
    /\ loads \in [Loads -> {Idle, Asked} \cup Versions]
    /\ faults \in 0 .. MaxFaults
    /\ behind \in BOOLEAN

\* With the stream open and nothing on its way, the page shows the bots as they
\* are, unless a runner has changed one since, the stream was lost meanwhile, or
\* an answer was overtaken by a change (_push_louise_ws, publish,
\* _applySnapshot, _loadSupplementaryData).
QuietIsCurrent ==
    link = "open" /\ wire = <<>> /\ pushes = <<>> /\ (\A r \in Loads : loads[r] = Idle)
        => page.bots = bots \/ behind

\* Once the bots rest, the page comes to show them and keeps showing them, even
\* if the stream is refused for ever; and as long as the stream is there, the
\* account that a request's message blanks is shown again and again
\* (louise_hub_page, _push_louise_ws, _collect).
CatchesUp ==
    /\ <>[](page.bots = bots)
    /\ []<>(link = "open" => page.account)
=============================================================================
