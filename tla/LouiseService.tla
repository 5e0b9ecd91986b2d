--------------------------- MODULE LouiseService ---------------------------
(***************************************************************************)
(* Who runs: the immortality loop of api/louise_service.py starts and      *)
(* stops the runners of the Louise bots by their status column, the        *)
(* routers write that column, and api/lifespan.py takes everything down.   *)
(*                                                                         *)
(* All of it runs on one event loop, so a coroutine is only interrupted    *)
(* where it really waits.  A pass over the bots waits in one place, for a  *)
(* gateway to connect; until then and afterwards nobody else moves.        *)
(***************************************************************************)
EXTENDS Integers

CONSTANTS
    MaxBots,       \* bound: bots the operator creates
    Subaccounts,
    SubOf,         \* the subaccount column of each bot
    CallsMayFail   \* whether credentials, connections and commits may fail

ASSUME FleetAssumption ==
    /\ MaxBots \in Nat
    /\ SubOf \in [1 .. MaxBots -> Subaccounts]
    /\ Subaccounts \cap {"unbound", "failed"} = {}
    /\ CallsMayFail \in BOOLEAN

Bots == 1 .. MaxBots

VARIABLES
    nBots, status,   \* louise_bots: its rows, in order of creation
    runners,         \* keys of self.runners
    gatewayOf,       \* the gateway each runner was given
    loops,           \* tasks of each bot that run _main_loop
    gateways,        \* keys of self._gateways
    clients,         \* gateways whose _client is connected
    pass, read,      \* _check_bots: where it stands, and the rows it read
    phase, flag,     \* the lifespan, and the flag of the signal handler
    pending,         \* bots with an order in their runner's pending_orders
    asked,           \* history: bots the operator has ever told to stop
    unborn           \* history: bots whose create_bot never got past PAUSED

dbVars == <<nBots, status>>
runnerVars == <<runners, gatewayOf, loops>>
vars == <<nBots, status, runners, gatewayOf, loops, gateways, clients,
          pass, read, phase, flag, pending, asked, unborn>>

Statuses == {"NONE", "RUNNING", "PAUSED", "SHUTDOWN", "ERROR"}
Bound == Subaccounts \cup {"failed"}     \* what the variable gw may hold
Asleep == [at |-> "asleep", bot |-> 0, gw |-> "unbound"]
NoRows == [b \in Bots |-> "NONE"]

\* No coroutine stands between two of its awaits.
Yielded == pass.at # "scan"

-----------------------------------------------------------------------------
(* The routers *)

\* create_bot commits the row as PAUSED, tries a runner on it, and commits
\* RUNNING or, after any error, ERROR; when that write fails too, the row stays.
NewRow(s) ==
    /\ nBots < MaxBots
    /\ nBots' = nBots + 1
    /\ status' = [status EXCEPT ![nBots + 1] = s]
    /\ unborn' = IF s = "PAUSED" THEN unborn \cup {nBots + 1} ELSE unborn

Create ==
    /\ phase = "up" /\ Yielded
    /\ \E s \in {"RUNNING"} \cup (IF CallsMayFail THEN {"ERROR", "PAUSED"} ELSE {}) : NewRow(s)
    /\ UNCHANGED <<runnerVars, gateways, clients, pass, read, phase, flag, pending, asked>>

SetStatus(b, s) ==
    /\ phase = "up" /\ Yielded /\ b <= nBots
    /\ status' = [status EXCEPT ![b] = s]
    /\ unborn' = unborn \ {b}
    /\ UNCHANGED <<nBots, runnerVars, gateways, clients, pass, read, phase, flag, pending>>

\* pause_bot and, for a running bot, update_hemispheres; delete_bot.
PauseBot(b) == SetStatus(b, "PAUSED") /\ asked' = asked \cup {b}
DeleteBot(b) == SetStatus(b, "SHUTDOWN") /\ asked' = asked \cup {b}
ResumeBot(b) == SetStatus(b, "RUNNING") /\ UNCHANGED asked

-----------------------------------------------------------------------------
(* What a runner's start and stop do *)

\* stop: the task is cancelled, if it has not ended by itself.
StoppedAtNextPoll(S) == loops                                       \* mutant
Stopped(S) ==
    [b \in Bots |-> IF b \in S /\ loops[b] > 0 THEN loops[b] - 1 ELSE loops[b]]

StartLoop(b, g) ==
    /\ loops' = [loops EXCEPT ![b] = @ + 1]
    /\ runners' = runners \cup {b}
    /\ gatewayOf' = [gatewayOf EXCEPT ![b] = g]
    /\ status' = [status EXCEPT ![b] = "RUNNING"]

\* start writes the status before it creates the task.
StartFailsLooping(b) ==                                             \* mutant
    /\ loops' = [loops EXCEPT ![b] = @ + 1]
    /\ UNCHANGED <<runners, gatewayOf, status>>
StartFails(b) == UNCHANGED <<runnerVars, status>>

-----------------------------------------------------------------------------
(* One pass of _check_bots, newest bot first *)

PassStarts ==
    /\ phase = "up" /\ pass.at = "asleep" /\ nBots > 0
    /\ read' = status
    /\ pass' = [at |-> "scan", bot |-> nBots, gw |-> "unbound"]
    /\ UNCHANGED <<dbVars, runnerVars, gateways, clients, phase, flag, pending, asked, unborn>>

PassEnds == pass' = Asleep /\ read' = NoRows

\* To the next bot, with what gw holds by now.
Onward(g) ==
    IF pass.bot = 1 THEN PassEnds
    ELSE pass' = [at |-> "scan", bot |-> pass.bot - 1, gw |-> g] /\ UNCHANGED read

Scanning(b) == pass.at = "scan" /\ pass.bot = b
ToStop(b) == Scanning(b) /\ read[b] # "RUNNING" /\ b \in runners
ToStart(b) == Scanning(b) /\ read[b] = "RUNNING" /\ b \notin runners

LeaveAlone(b) ==
    /\ Scanning(b) /\ ~ToStop(b) /\ ~ToStart(b)
    /\ Onward(pass.gw)
    /\ UNCHANGED <<dbVars, runnerVars, gateways, clients, phase, flag, pending, asked, unborn>>

StopRunner(b) ==
    /\ ToStop(b)
    /\ loops' = Stopped({b})
    /\ runners' = runners \ {b}
    /\ gatewayOf' = [gatewayOf EXCEPT ![b] = "unbound"]
    /\ status' = [status EXCEPT ![b] = "SHUTDOWN"]
    /\ pending' = pending \ {b}
    /\ Onward(pass.gw)
    /\ UNCHANGED <<nBots, gateways, clients, phase, flag, asked, unborn>>

\* The task is cancelled, the commit of the status raises: the runner stays.
StopFails(b) ==
    /\ CallsMayFail /\ ToStop(b)
    /\ loops' = Stopped({b})
    /\ Onward(pass.gw)
    /\ UNCHANGED <<dbVars, runners, gatewayOf, gateways, clients, phase, flag, pending, asked, unborn>>

\* resolve_pair_for_bot finds no credentials, or raises and ends the pass.
NoCredentials(b) ==
    /\ CallsMayFail /\ ToStart(b)
    /\ Onward(pass.gw) \/ PassEnds
    /\ UNCHANGED <<dbVars, runnerVars, gateways, clients, phase, flag, pending, asked, unborn>>

\* gw.start() waits for the exchange.
AskGateway(b) ==
    /\ ToStart(b) /\ SubOf[b] \notin gateways
    /\ pass' = [pass EXCEPT !.at = "starting"]
    /\ UNCHANGED <<dbVars, runnerVars, gateways, clients, read, phase, flag, pending, asked, unborn>>

\* The runner is built on gw and started.  A gw that this pass never assigned
\* is an unbound local variable: the error ends the pass.
BeginWithNone(b, g) ==                                              \* mutant
    (StartLoop(b, g) \/ (CallsMayFail /\ StartFails(b))) /\ Onward(g)
Begin(b, g) ==
    \/ g = "unbound" /\ UNCHANGED <<runnerVars, status>> /\ PassEnds
    \/ g # "unbound" /\ StartLoop(b, g) /\ Onward(g)
    \/ g # "unbound" /\ CallsMayFail /\ StartFails(b) /\ Onward(g)

KnownGateway(b) ==
    /\ ToStart(b) /\ SubOf[b] \in gateways
    /\ Begin(b, pass.gw)
    /\ UNCHANGED <<nBots, gateways, clients, phase, flag, pending, asked, unborn>>

Awaiting(b) == pass.at = "starting" /\ pass.bot = b

GatewayUp(b) ==
    /\ Awaiting(b)
    /\ gateways' = gateways \cup {SubOf[b]}
    /\ clients' = clients \cup {SubOf[b]}
    /\ Begin(b, SubOf[b])
    /\ UNCHANGED <<nBots, phase, flag, pending, asked, unborn>>

\* gw was assigned before start() raised.
GatewayFails(b) ==
    /\ CallsMayFail /\ Awaiting(b)
    /\ Onward("failed")
    /\ UNCHANGED <<dbVars, runnerVars, gateways, clients, phase, flag, pending, asked, unborn>>

PassStep ==
    \E b \in Bots : \/ LeaveAlone(b) \/ StopRunner(b) \/ StopFails(b)
                    \/ NoCredentials(b) \/ AskGateway(b) \/ KnownGateway(b)

-----------------------------------------------------------------------------
(* What the loops do meanwhile *)

PlaceOrder(b) ==
    /\ Yielded /\ loops[b] > 0 /\ gatewayOf[b] \in clients
    /\ pending' = pending \cup {b}
    /\ UNCHANGED <<dbVars, runnerVars, gateways, clients, pass, read, phase, flag, asked, unborn>>

\* The execution report of the last order out.
Answered(b) ==
    /\ Yielded /\ b \in pending /\ clients # {}
    /\ pending' = pending \ {b}
    /\ UNCHANGED <<dbVars, runnerVars, gateways, clients, pass, read, phase, flag, asked, unborn>>

\* _main_loop looks at the shutdown flag and leaves.
LoopEnds(b) ==
    /\ Yielded /\ flag /\ loops[b] > 0
    /\ loops' = [loops EXCEPT ![b] = @ - 1]
    /\ UNCHANGED <<dbVars, runners, gatewayOf, gateways, clients, pass, read, phase, flag,
                   pending, asked, unborn>>

-----------------------------------------------------------------------------
(* Shutdown, crash and restart *)

Signal ==
    /\ phase = "up" /\ Yielded /\ ~flag
    /\ flag' = TRUE
    /\ UNCHANGED <<dbVars, runnerVars, gateways, clients, pass, read, phase, pending, asked, unborn>>

\* stop_immortality cancels the task, also while it waits for a gateway ...
KeepPass == UNCHANGED <<pass, read>>                                \* mutant
CancelPass == PassEnds
ShutdownBegins ==
    /\ phase = "up" /\ Yielded
    /\ phase' = "leaving"
    /\ CancelPass
    /\ UNCHANGED <<dbVars, runnerVars, gateways, clients, flag, pending, asked, unborn>>

\* ... awaits its end, stops the runners, which keep their status ...
RunnersStopWriting ==                                               \* mutant
    /\ phase = "leaving" /\ pass.at = "asleep"
    /\ phase' = "stopping"
    /\ loops' = Stopped(runners)
    /\ status' = [b \in Bots |-> IF b \in runners THEN "SHUTDOWN" ELSE status[b]]
    /\ UNCHANGED <<nBots, runners, gatewayOf, gateways, clients, pass, read, flag,
                   pending, asked, unborn>>
RunnersStop ==
    /\ phase = "leaving" /\ pass.at = "asleep"
    /\ phase' = "stopping"
    /\ loops' = Stopped(runners)
    /\ UNCHANGED <<dbVars, runners, gatewayOf, gateways, clients, pass, read, flag,
                   pending, asked, unborn>>

\* ... and closes the gateways, which lose their clients.
GatewayStops(s) ==
    /\ phase = "stopping" /\ s \in clients
    /\ clients' = clients \ {s}
    /\ UNCHANGED <<dbVars, runnerVars, gateways, pass, read, phase, flag, pending, asked, unborn>>

\* Step 2 of the lifespan: what the runners have pending is cancelled through
\* the client of their gateway, if there is one.
CancelPending ==
    /\ phase = "stopping" /\ gateways \cap clients = {}
    /\ phase' = "exited"
    /\ pending' = {b \in pending : gatewayOf[b] \notin clients}
    /\ UNCHANGED <<dbVars, runnerVars, gateways, clients, pass, read, flag, asked, unborn>>

ForgetMemory ==
    /\ runners' = {} /\ gateways' = {} /\ clients' = {} /\ pending' = {}
    /\ gatewayOf' = [b \in Bots |-> "unbound"]
    /\ loops' = [b \in Bots |-> 0]
    /\ flag' = FALSE
    /\ PassEnds

Crash ==
    /\ phase \notin {"exited", "crashed"}
    /\ phase' = "crashed" /\ ForgetMemory
    /\ UNCHANGED <<dbVars, asked, unborn>>

\* The process dies between the two commits of create_bot.
CrashInCreate ==
    /\ phase = "up" /\ Yielded
    /\ NewRow("PAUSED")
    /\ phase' = "crashed" /\ ForgetMemory
    /\ UNCHANGED asked

Boot ==
    /\ phase \in {"exited", "crashed"}
    /\ phase' = "up" /\ ForgetMemory
    /\ UNCHANGED <<dbVars, asked, unborn>>

-----------------------------------------------------------------------------
Init ==
    /\ nBots = 0 /\ status = NoRows
    /\ runners = {} /\ gateways = {} /\ clients = {} /\ pending = {} /\ asked = {} /\ unborn = {}
    /\ gatewayOf = [b \in Bots |-> "unbound"]
    /\ loops = [b \in Bots |-> 0]
    /\ pass = Asleep /\ read = NoRows
    /\ phase = "up" /\ flag = FALSE

Routers == Create \/ \E b \in Bots : PauseBot(b) \/ DeleteBot(b) \/ ResumeBot(b)
Service == PassStarts \/ PassStep \/ \E b \in Bots : GatewayUp(b) \/ GatewayFails(b)
Runners == \E b \in Bots : PlaceOrder(b) \/ Answered(b) \/ LoopEnds(b)
Lifespan ==
    \/ Signal \/ ShutdownBegins \/ RunnersStop \/ CancelPending \/ Crash \/ CrashInCreate \/ Boot
    \/ \E s \in Subaccounts : GatewayStops(s)

Next == Routers \/ Service \/ Runners \/ Lifespan

\* The event loop runs what is ready; nothing is assumed of the exchange.
Fairness ==
    /\ WF_vars(PassStarts) /\ WF_vars(PassStep)
    /\ WF_vars(RunnersStop) /\ WF_vars(CancelPending)
    /\ \A s \in Subaccounts : WF_vars(GatewayStops(s))
Spec == Init /\ [][Next]_vars /\ Fairness

-----------------------------------------------------------------------------
\* Every variable has its type, and no runner is built without a gateway.
TypeOK ==
    /\ nBots \in 0 .. MaxBots /\ status \in [Bots -> Statuses] /\ read \in [Bots -> Statuses]
    /\ runners \subseteq Bots /\ pending \subseteq runners /\ asked \subseteq Bots
    /\ unborn \subseteq Bots
    /\ gatewayOf \in [Bots -> Bound \cup {"unbound"}]
    /\ \A b \in runners : gatewayOf[b] \in Bound
    /\ loops \in [Bots -> Nat]
    /\ gateways \subseteq Subaccounts /\ clients \subseteq gateways
    /\ pass \in [at : {"asleep", "scan", "starting"}, bot : 0 .. MaxBots,
                 gw : Bound \cup {"unbound"}]
    /\ phase \in {"up", "leaving", "stopping", "exited", "crashed"} /\ flag \in BOOLEAN

\* A bot has at most one loop, and a loop belongs to a runner the service can
\* still stop: through failed starts and stops, stale passes, flag and crash
\* (_check_bots, start, stop).  LouiseRunner relies on it.
OneOwnedLoop == \A b \in Bots : loops[b] <= IF b \in runners THEN 1 ELSE 0

\* After a graceful shutdown nothing trades: no loop, no connection, no pass
\* that could start one (stop_immortality).
QuietOnceExited ==
    phase = "exited" => /\ \A b \in Bots : loops[b] = 0
                        /\ clients = {} /\ pass = Asleep

\* A bot only ever stops for good because the operator told it to: neither a
\* shutdown, a crash nor a failed call takes it from the list of those to be
\* resumed (stop(shutdown_db=False), the status written by stop).  The one
\* exception is a bot that never got that far: create_bot commits PAUSED first,
\* and a crash or a failed write before its next commit leaves the row so,
\* until the operator sets its status (routers/louise.py:372-405).
StoppedOnlyOnRequest ==
    \A b \in 1 .. nBots : status[b] \in {"PAUSED", "SHUTDOWN"} => b \in asked \cup unborn

\* A shutdown ends, also when a pass waits for an exchange that is silent
\* (stop_immortality cancels the task it awaits).
ShutdownCompletes == phase = "leaving" ~> phase \in {"exited", "crashed"}

=============================================================================
