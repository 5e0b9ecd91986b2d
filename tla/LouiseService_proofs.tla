----------------------- MODULE LouiseService_proofs -----------------------
(***************************************************************************)
(* Proofs about LouiseService, for any number of bots and subaccounts:     *)
(* types, one owned loop per bot, nothing left running after a graceful    *)
(* shutdown, and no bot stopped for good unasked.                          *)
(***************************************************************************)
EXTENDS LouiseService, TLAPS

LEMMA Parameters ==
    /\ MaxBots \in Nat /\ SubOf \in [Bots -> Subaccounts] /\ Bots = 1 .. MaxBots
    /\ "unbound" \notin Bound /\ Subaccounts \subseteq Bound /\ "failed" \in Bound
BY FleetAssumption DEF FleetAssumption, Bots, Bound

-----------------------------------------------------------------------------
(* The inductive invariant *)

\* told is the set of bots the operator has told to stop.
Excused(s, b, told) == s \in {"PAUSED", "SHUTDOWN"} => b \in told

\* What a row that was read says of its bot, if that bot has a runner.
RowRead(s, b, running, told) ==
    /\ s # "NONE"
    /\ b \in running => s # "ERROR" /\ Excused(s, b, told)

\* A pass that is under way is that of a live service, stands at a bot that
\* exists, and the bot whose gateway it asked for still has no runner and was
\* read as running.
PassSound ==
    /\ pass.at = "asleep" => pass = Asleep
    /\ phase # "up" => pass = Asleep
    /\ pass.at # "asleep" => pass.bot \in 1 .. nBots
    /\ pass.at = "starting" => pass.bot \notin runners /\ read[pass.bot] = "RUNNING"

\* The rows the bots have, and those the pass has read and will still use.
RowsSound ==
    /\ runners \subseteq 1 .. nBots
    /\ \A b \in 1 .. nBots : status[b] # "NONE" /\ Excused(status[b], b, asked \cup unborn)
    /\ \A b \in runners : status[b] # "ERROR"
    /\ pass.at # "asleep" => \A b \in 1 .. pass.bot : RowRead(read[b], b, runners, asked)

\* A bot whose creation was cut short is out of everybody's sight: it has no
\* runner, and no pass read it as running.
UnbornSound ==
    \A b \in unborn :
        /\ b \in 1 .. nBots /\ b \notin runners /\ status[b] = "PAUSED"
        /\ pass.at # "asleep" /\ b <= pass.bot => read[b] # "RUNNING"

Quiet ==
    /\ phase \in {"stopping", "exited"} => \A b \in Bots : loops[b] = 0
    /\ phase = "exited" => clients = {}

ServiceInv == TypeOK /\ OneOwnedLoop /\ PassSound /\ RowsSound /\ UnbornSound /\ Quiet

-----------------------------------------------------------------------------
(* What a step of the pass leaves behind *)

\* The pass ends, or stands at the next bot with the same rows.
PassMoved ==
    \/ pass' = Asleep /\ read' = NoRows
    \/ /\ read' = read /\ pass.bot - 1 \in 1 .. nBots
       /\ \E g \in Bound \cup {"unbound"} :
            pass' = [at |-> "scan", bot |-> pass.bot - 1, gw |-> g]

LEMMA OnwardMoves ==
    ASSUME ServiceInv, pass.at # "asleep", NEW g \in Bound \cup {"unbound"}, Onward(g)
    PROVE  PassMoved
<1>1. nBots \in Nat /\ pass.bot \in 1 .. nBots
  BY Parameters DEF ServiceInv, TypeOK, PassSound
<1>2. CASE pass.bot = 1
  BY <1>2 DEF Onward, PassEnds, PassMoved
<1>3. CASE pass.bot # 1
  BY <1>1, <1>3 DEF Onward, PassMoved
<1> QED BY <1>2, <1>3

\* What Begin does to the runners: nothing, or one loop for one new runner.
Begun(b) ==
    \/ UNCHANGED <<runnerVars, status>>
    \/ \E g \in Bound : StartLoop(b, g)

LEMMA BeginMoves ==
    ASSUME ServiceInv, pass.at # "asleep", NEW b \in Bots, NEW g \in Bound \cup {"unbound"},
           Begin(b, g)
    PROVE  PassMoved /\ Begun(b)
<1>1. CASE g = "unbound" /\ UNCHANGED <<runnerVars, status>> /\ PassEnds
  BY <1>1 DEF PassEnds, PassMoved, Begun
<1>2. CASE g # "unbound" /\ StartLoop(b, g) /\ Onward(g)
  BY <1>2, OnwardMoves DEF Begun
<1>3. CASE g # "unbound" /\ CallsMayFail /\ StartFails(b) /\ Onward(g)
  BY <1>3, OnwardMoves DEF Begun, StartFails
<1> QED BY <1>1, <1>2, <1>3 DEF Begin

LEMMA PassMovedTypes ==
    ASSUME ServiceInv, PassMoved
    PROVE  /\ pass' \in [at : {"asleep", "scan", "starting"}, bot : 0 .. MaxBots,
                         gw : Bound \cup {"unbound"}]
           /\ read' \in [Bots -> Statuses]
<1>1. nBots \in 0 .. MaxBots /\ read \in [Bots -> Statuses]
  BY DEF ServiceInv, TypeOK
<1>2. CASE pass' = Asleep /\ read' = NoRows
  <2>1. 0 \in 0 .. MaxBots
    BY Parameters
  <2>2. NoRows \in [Bots -> Statuses]
    BY DEF NoRows, Statuses
  <2> QED BY <1>2, <2>1, <2>2 DEF Asleep
<1>3. CASE /\ read' = read /\ pass.bot - 1 \in 1 .. nBots
           /\ \E g \in Bound \cup {"unbound"} :
                pass' = [at |-> "scan", bot |-> pass.bot - 1, gw |-> g]
  <2>1. pass.bot - 1 \in 0 .. MaxBots
    BY <1>1, <1>3, Parameters
  <2> QED BY <1>1, <1>3, <2>1
<1> QED BY <1>2, <1>3 DEF PassMoved

-----------------------------------------------------------------------------
(* Types *)

LEMMA TypeStep ==
    ASSUME ServiceInv, Next
    PROVE  TypeOK'
<1> USE Parameters
<1>1. TypeOK /\ nBots \in Nat
  BY DEF ServiceInv, TypeOK
<1>2. CASE Create
  <2>1. nBots + 1 \in 0 .. MaxBots
    BY <1>1, <1>2 DEF Create, NewRow, TypeOK
  <2>2. nBots + 1 \in Bots
    BY <1>1, <2>1
  <2> QED BY <1>1, <1>2, <2>1, <2>2 DEF Create, NewRow, TypeOK, Statuses, runnerVars
<1>3. ASSUME NEW b \in Bots, PauseBot(b) \/ DeleteBot(b) \/ ResumeBot(b)
      PROVE  TypeOK'
  BY <1>1, <1>3 DEF PauseBot, DeleteBot, ResumeBot, SetStatus, TypeOK, Statuses, runnerVars
<1>4. CASE PassStarts
  BY <1>1, <1>4 DEF PassStarts, TypeOK, runnerVars, dbVars
<1>5. ASSUME NEW b \in Bots, LeaveAlone(b) \/ NoCredentials(b)
      PROVE  TypeOK'
  <2>1. pass.at # "asleep" /\ pass.gw \in Bound \cup {"unbound"}
    BY <1>1, <1>5 DEF LeaveAlone, NoCredentials, ToStart, Scanning, TypeOK
  <2>2. PassMoved
    BY <1>5, <2>1, OnwardMoves DEF LeaveAlone, NoCredentials, PassEnds, PassMoved
  <2>3. UNCHANGED <<dbVars, runnerVars, gateways, clients, phase, flag, pending, asked, unborn>>
    BY <1>5 DEF LeaveAlone, NoCredentials
  <2> QED BY <1>1, <2>2, <2>3, PassMovedTypes DEF TypeOK, runnerVars, dbVars
<1>6. ASSUME NEW b \in Bots, StopRunner(b)
      PROVE  TypeOK'
  <2>1. pass.at # "asleep" /\ pass.gw \in Bound \cup {"unbound"}
    BY <1>1, <1>6 DEF StopRunner, ToStop, Scanning, TypeOK
  <2>2. PassMoved
    BY <1>6, <2>1, OnwardMoves DEF StopRunner
  <2>3. loops' \in [Bots -> Nat]
    BY <1>1, <1>6 DEF StopRunner, Stopped, TypeOK
  <2>4. /\ runners' \subseteq Bots /\ pending' \subseteq runners' /\ runners' = runners \ {b}
        /\ gatewayOf' \in [Bots -> Bound \cup {"unbound"}]
        /\ \A c \in runners' : gatewayOf'[c] \in Bound
    BY <1>1, <1>6 DEF StopRunner, TypeOK
  <2>5. status' \in [Bots -> Statuses]
    BY <1>1, <1>6 DEF StopRunner, TypeOK, Statuses
  <2>6. UNCHANGED <<nBots, gateways, clients, phase, flag, asked, unborn>>
    BY <1>6 DEF StopRunner
  <2> QED BY <1>1, <2>2, <2>3, <2>4, <2>5, <2>6, PassMovedTypes DEF TypeOK
<1>7. ASSUME NEW b \in Bots, StopFails(b)
      PROVE  TypeOK'
  <2>1. pass.at # "asleep" /\ pass.gw \in Bound \cup {"unbound"}
    BY <1>1, <1>7 DEF StopFails, ToStop, Scanning, TypeOK
  <2>2. PassMoved
    BY <1>7, <2>1, OnwardMoves DEF StopFails
  <2>3. loops' \in [Bots -> Nat]
    BY <1>1, <1>7 DEF StopFails, Stopped, TypeOK
  <2>4. UNCHANGED <<dbVars, runners, gatewayOf, gateways, clients, phase, flag, pending, asked, unborn>>
    BY <1>7 DEF StopFails
  <2> QED BY <1>1, <2>2, <2>3, <2>4, PassMovedTypes DEF TypeOK, dbVars
<1>8. ASSUME NEW b \in Bots, AskGateway(b)
      PROVE  TypeOK'
  <2>1. pass' \in [at : {"asleep", "scan", "starting"}, bot : 0 .. MaxBots,
                   gw : Bound \cup {"unbound"}]
    BY <1>1, <1>8 DEF AskGateway, TypeOK
  <2>2. UNCHANGED <<dbVars, runnerVars, gateways, clients, read, phase, flag, pending, asked, unborn>>
    BY <1>8 DEF AskGateway
  <2> QED BY <1>1, <2>1, <2>2 DEF TypeOK, dbVars, runnerVars
<1>9. ASSUME NEW b \in Bots, KnownGateway(b) \/ GatewayUp(b)
      PROVE  TypeOK'
  <2>1. pass.at # "asleep" /\ pass.gw \in Bound \cup {"unbound"}
    BY <1>1, <1>9 DEF KnownGateway, GatewayUp, ToStart, Scanning, Awaiting, TypeOK
  <2>2. PassMoved /\ Begun(b)
    <3>1. SubOf[b] \in Bound
      OBVIOUS
    <3> QED BY <1>9, <2>1, <3>1, BeginMoves DEF KnownGateway, GatewayUp
  <2>3. UNCHANGED <<nBots, phase, flag, pending, asked, unborn>>
    BY <1>9 DEF KnownGateway, GatewayUp
  <2>4. gateways' \subseteq Subaccounts /\ clients' \subseteq gateways'
    BY <1>1, <1>9 DEF KnownGateway, GatewayUp, TypeOK
  <2>5. /\ status' \in [Bots -> Statuses] /\ loops' \in [Bots -> Nat]
        /\ runners' \subseteq Bots /\ runners \subseteq runners'
        /\ gatewayOf' \in [Bots -> Bound \cup {"unbound"}]
        /\ \A c \in runners' : gatewayOf'[c] \in Bound
    <3>1. CASE UNCHANGED <<runnerVars, status>>
      BY <1>1, <3>1 DEF TypeOK, runnerVars
    <3>2. ASSUME NEW g \in Bound, StartLoop(b, g)
          PROVE  /\ status' \in [Bots -> Statuses] /\ loops' \in [Bots -> Nat]
                 /\ runners' \subseteq Bots /\ runners \subseteq runners'
                 /\ gatewayOf' \in [Bots -> Bound \cup {"unbound"}]
                 /\ \A c \in runners' : gatewayOf'[c] \in Bound
      BY <1>1, <3>2 DEF TypeOK, StartLoop, Statuses
    <3> QED BY <2>2, <3>1, <3>2 DEF Begun
  <2> QED BY <1>1, <2>2, <2>3, <2>4, <2>5, PassMovedTypes DEF TypeOK
<1>10. ASSUME NEW b \in Bots, GatewayFails(b)
      PROVE  TypeOK'
  <2>1. pass.at # "asleep"
    BY <1>10 DEF GatewayFails, Awaiting
  <2>2. PassMoved
    BY <1>10, <2>1, OnwardMoves DEF GatewayFails
  <2>3. UNCHANGED <<dbVars, runnerVars, gateways, clients, phase, flag, pending, asked, unborn>>
    BY <1>10 DEF GatewayFails
  <2> QED BY <1>1, <2>2, <2>3, PassMovedTypes DEF TypeOK, runnerVars, dbVars
<1>11. ASSUME NEW b \in Bots, PlaceOrder(b)
      PROVE  TypeOK'
  <2>1. b \in runners
    BY <1>1, <1>11 DEF ServiceInv, OneOwnedLoop, TypeOK, PlaceOrder
  <2> QED BY <1>1, <1>11, <2>1 DEF TypeOK, PlaceOrder, runnerVars, dbVars
<1>12. ASSUME NEW b \in Bots, Answered(b)
      PROVE  TypeOK'
  BY <1>1, <1>12 DEF TypeOK, Answered, runnerVars, dbVars
<1>13. ASSUME NEW b \in Bots, LoopEnds(b)
      PROVE  TypeOK'
  <2>1. loops' \in [Bots -> Nat]
    BY <1>1, <1>13 DEF TypeOK, LoopEnds
  <2>2. UNCHANGED <<dbVars, runners, gatewayOf, gateways, clients, pass, read, phase, flag, pending, asked, unborn>>
    BY <1>13 DEF LoopEnds
  <2> QED BY <1>1, <2>1, <2>2 DEF TypeOK, dbVars
<1>14. CASE Signal
  BY <1>1, <1>14 DEF TypeOK, Signal, runnerVars, dbVars
<1>15. CASE ShutdownBegins
  <2>1. PassMoved
    BY <1>15 DEF ShutdownBegins, CancelPass, PassEnds, PassMoved
  <2> QED BY <1>1, <1>15, <2>1, PassMovedTypes DEF TypeOK, ShutdownBegins, runnerVars, dbVars
<1>16. CASE RunnersStop
  <2>1. loops' \in [Bots -> Nat]
    BY <1>1, <1>16 DEF RunnersStop, Stopped, TypeOK
  <2>2. UNCHANGED <<dbVars, runners, gatewayOf, gateways, clients, pass, read, flag, pending, asked, unborn>>
        /\ phase' = "stopping"
    BY <1>16 DEF RunnersStop
  <2> QED BY <1>1, <2>1, <2>2 DEF TypeOK, dbVars
<1>17. ASSUME NEW g \in Subaccounts, GatewayStops(g)
      PROVE  TypeOK'
  BY <1>1, <1>17 DEF TypeOK, GatewayStops, runnerVars, dbVars
<1>18. CASE CancelPending
  BY <1>1, <1>18 DEF TypeOK, CancelPending, runnerVars, dbVars
<1>19. CASE Crash \/ Boot
  <2>1. PassMoved
    BY <1>19 DEF Crash, Boot, ForgetMemory, PassEnds, PassMoved
  <2>2. gatewayOf' \in [Bots -> Bound \cup {"unbound"}] /\ loops' \in [Bots -> Nat]
    BY <1>19 DEF Crash, Boot, ForgetMemory
  <2>3. /\ runners' = {} /\ gateways' = {} /\ clients' = {} /\ pending' = {} /\ flag' = FALSE
        /\ phase' \in {"up", "crashed"} /\ UNCHANGED <<nBots, status, asked, unborn>>
    BY <1>19 DEF Crash, Boot, ForgetMemory, dbVars
  <2> QED BY <1>1, <2>1, <2>2, <2>3, PassMovedTypes DEF TypeOK
<1>20. CASE CrashInCreate
  <2>1. PassMoved
    BY <1>20 DEF CrashInCreate, ForgetMemory, PassEnds, PassMoved
  <2>2. gatewayOf' \in [Bots -> Bound \cup {"unbound"}] /\ loops' \in [Bots -> Nat]
    BY <1>20 DEF CrashInCreate, ForgetMemory
  <2>3. /\ runners' = {} /\ gateways' = {} /\ clients' = {} /\ pending' = {} /\ flag' = FALSE
        /\ phase' = "crashed" /\ asked' = asked
    BY <1>20 DEF CrashInCreate, ForgetMemory
  <2>4. nBots + 1 \in Bots /\ nBots' = nBots + 1
    BY <1>1, <1>20 DEF CrashInCreate, NewRow, TypeOK
  <2>5. /\ status' \in [Bots -> Statuses]
        /\ unborn' \subseteq Bots
    <3>1. /\ status' = [status EXCEPT ![nBots + 1] = "PAUSED"]
          /\ unborn' = unborn \cup {nBots + 1}
      BY <1>20 DEF CrashInCreate, NewRow
    <3>2. status \in [Bots -> Statuses] /\ "PAUSED" \in Statuses /\ unborn \subseteq Bots
      BY <1>1 DEF TypeOK, Statuses
    <3>3. status' \in [Bots -> Statuses]
      BY <3>1, <3>2
    <3>4. unborn' \subseteq Bots
      BY <2>4, <3>1, <3>2
    <3> QED BY <3>3, <3>4
  <2>6. nBots' \in 0 .. MaxBots
    BY <1>1, <2>4
  <2>7. /\ pass' \in [at : {"asleep", "scan", "starting"}, bot : 0 .. MaxBots,
                      gw : Bound \cup {"unbound"}]
        /\ read' \in [Bots -> Statuses]
    BY <2>1, PassMovedTypes
  <2> QED BY <1>1, <2>2, <2>3, <2>5, <2>6, <2>7 DEF TypeOK
<1> QED BY <1>2, <1>3, <1>4, <1>5, <1>6, <1>7, <1>8, <1>9, <1>10, <1>11, <1>12, <1>13, <1>14,
           <1>15, <1>16, <1>17, <1>18, <1>19, <1>20
        DEF Next, Routers, Service, PassStep, Runners, Lifespan

-----------------------------------------------------------------------------
(* One owned loop per bot *)

\* The steps that leave runners and loops alone, and those that do not.
LEMMA LoopSteps ==
    ASSUME ServiceInv, Next
    PROVE  \/ UNCHANGED runnerVars
           \/ \E b \in Bots : StopRunner(b) \/ StopFails(b) \/ LoopEnds(b)
           \/ \E b \in Bots : b \notin runners /\ Begun(b)
           \/ RunnersStop \/ Crash \/ CrashInCreate \/ Boot
<1> USE Parameters
<1>1. ASSUME NEW b \in Bots, KnownGateway(b)
      PROVE  b \notin runners /\ Begun(b)
  <2>1. pass.at # "asleep" /\ pass.gw \in Bound \cup {"unbound"} /\ b \notin runners
    BY <1>1 DEF ServiceInv, TypeOK, KnownGateway, ToStart, Scanning
  <2> QED BY <1>1, <2>1, BeginMoves DEF KnownGateway
<1>2. ASSUME NEW b \in Bots, GatewayUp(b)
      PROVE  b \notin runners /\ Begun(b)
  <2>1. pass.at # "asleep" /\ SubOf[b] \in Bound /\ b \notin runners
    BY <1>2 DEF ServiceInv, PassSound, GatewayUp, Awaiting
  <2> QED BY <1>2, <2>1, BeginMoves DEF GatewayUp
<1>3. Routers \/ Signal \/ ShutdownBegins \/ CancelPending \/ PassStarts
        \/ (\E g \in Subaccounts : GatewayStops(g))
        => UNCHANGED runnerVars
  BY DEF Routers, Create, PauseBot, DeleteBot, ResumeBot, SetStatus, Signal, ShutdownBegins,
         CancelPending, PassStarts, GatewayStops
<1>4. ASSUME NEW b \in Bots,
             LeaveAlone(b) \/ NoCredentials(b) \/ AskGateway(b) \/ GatewayFails(b)
               \/ PlaceOrder(b) \/ Answered(b)
      PROVE  UNCHANGED runnerVars
  BY <1>4 DEF LeaveAlone, NoCredentials, AskGateway, GatewayFails, PlaceOrder, Answered
<1> QED BY <1>1, <1>2, <1>3, <1>4 DEF Next, Service, PassStep, Runners, Lifespan

LEMMA LoopsStep ==
    ASSUME ServiceInv, Next
    PROVE  OneOwnedLoop'
<1>1. loops \in [Bots -> Nat] /\ runners \subseteq Bots
  BY DEF ServiceInv, TypeOK
<1>2. \A c \in Bots : loops[c] <= IF c \in runners THEN 1 ELSE 0
  BY DEF ServiceInv, OneOwnedLoop
<1>3. CASE UNCHANGED runnerVars
  BY <1>2, <1>3 DEF OneOwnedLoop, runnerVars
<1>4. ASSUME NEW b \in Bots, StopRunner(b)
      PROVE  OneOwnedLoop'
  <2>1. loops' = Stopped({b}) /\ runners' = runners \ {b} /\ b \in runners
    BY <1>4 DEF StopRunner, ToStop
  <2> QED BY <1>1, <1>2, <2>1 DEF OneOwnedLoop, Stopped
<1>5. ASSUME NEW b \in Bots, StopFails(b)
      PROVE  OneOwnedLoop'
  <2>1. loops' = Stopped({b}) /\ runners' = runners
    BY <1>5 DEF StopFails
  <2> QED BY <1>1, <1>2, <2>1 DEF OneOwnedLoop, Stopped
<1>6. ASSUME NEW b \in Bots, LoopEnds(b)
      PROVE  OneOwnedLoop'
  <2>1. loops' = [loops EXCEPT ![b] = @ - 1] /\ runners' = runners
    BY <1>6 DEF LoopEnds
  <2> QED BY <1>1, <1>2, <2>1 DEF OneOwnedLoop
<1>7. ASSUME NEW b \in Bots, b \notin runners, Begun(b)
      PROVE  OneOwnedLoop'
  <2>1. CASE UNCHANGED <<runnerVars, status>>
    BY <1>2, <2>1 DEF OneOwnedLoop, runnerVars
  <2>2. ASSUME NEW g \in Bound, StartLoop(b, g)
        PROVE  OneOwnedLoop'
    <3>1. loops' = [loops EXCEPT ![b] = @ + 1] /\ runners' = runners \cup {b}
      BY <2>2 DEF StartLoop
    <3>2. loops[b] = 0
      BY <1>1, <1>2, <1>7
    <3> QED BY <1>1, <1>2, <3>1, <3>2 DEF OneOwnedLoop
  <2> QED BY <1>7, <2>1, <2>2 DEF Begun
<1>8. CASE RunnersStop
  <2>1. loops' = Stopped(runners) /\ runners' = runners
    BY <1>8 DEF RunnersStop
  <2> QED BY <1>1, <1>2, <2>1 DEF OneOwnedLoop, Stopped
<1>9. CASE Crash \/ CrashInCreate \/ Boot
  BY <1>9 DEF Crash, CrashInCreate, Boot, ForgetMemory, OneOwnedLoop
<1> QED BY <1>3, <1>4, <1>5, <1>6, <1>7, <1>8, <1>9, LoopSteps

-----------------------------------------------------------------------------
(* The pass, and what is left after a shutdown *)

\* Where a step leaves the pass.
LEMMA PassSteps ==
    ASSUME ServiceInv, Next
    PROVE  \/ UNCHANGED <<pass, read, phase, runners>> /\ nBots' \in {nBots, nBots + 1}
           \/ PassStarts \/ \E b \in Bots : AskGateway(b)
           \/ pass.at # "asleep" /\ PassMoved /\ UNCHANGED <<nBots, phase, asked, unborn>>
           \/ pass' = Asleep
<1> USE Parameters
<1>1. ASSUME NEW b \in Bots,
             LeaveAlone(b) \/ NoCredentials(b) \/ StopRunner(b) \/ StopFails(b)
               \/ GatewayFails(b) \/ KnownGateway(b) \/ GatewayUp(b)
      PROVE  pass.at # "asleep" /\ PassMoved /\ UNCHANGED <<nBots, phase, asked, unborn>>
  <2>1. pass.at # "asleep" /\ pass.gw \in Bound \cup {"unbound"} /\ SubOf[b] \in Bound
    BY <1>1 DEF ServiceInv, TypeOK, LeaveAlone, NoCredentials, StopRunner, StopFails, ToStop,
                ToStart, Scanning, GatewayFails, KnownGateway, GatewayUp, Awaiting
  <2>2. PassMoved
    BY <1>1, <2>1, OnwardMoves, BeginMoves
       DEF LeaveAlone, NoCredentials, StopRunner, StopFails, GatewayFails, KnownGateway, GatewayUp,
           PassEnds, PassMoved
  <2>3. UNCHANGED <<nBots, phase, asked, unborn>>
    BY <1>1 DEF LeaveAlone, NoCredentials, StopRunner, StopFails, GatewayFails, KnownGateway,
                GatewayUp, dbVars
  <2> QED BY <2>1, <2>2, <2>3
<1>2. Routers \/ Signal => UNCHANGED <<pass, read, phase, runners>> /\ nBots' \in {nBots, nBots + 1}
  BY DEF Routers, Create, NewRow, PauseBot, DeleteBot, ResumeBot, SetStatus, Signal, runnerVars, dbVars
<1>3. Runners => UNCHANGED <<pass, read, phase, runners>> /\ nBots' \in {nBots, nBots + 1}
  BY DEF Runners, PlaceOrder, Answered, LoopEnds, runnerVars, dbVars
<1>4. CASE ShutdownBegins \/ Crash \/ CrashInCreate \/ Boot
  BY <1>4 DEF ShutdownBegins, Crash, CrashInCreate, Boot, CancelPass, ForgetMemory, PassEnds
<1>5. CASE RunnersStop \/ CancelPending \/ \E g \in Subaccounts : GatewayStops(g)
  <2>1. phase # "up" /\ UNCHANGED pass
    BY <1>5 DEF RunnersStop, CancelPending, GatewayStops
  <2> QED BY <2>1 DEF ServiceInv, PassSound
<1> QED BY <1>1, <1>2, <1>3, <1>4, <1>5 DEF Next, Service, PassStep, Lifespan

LEMMA PassStepSound ==
    ASSUME ServiceInv, Next
    PROVE  PassSound'
<1>1. nBots \in Nat /\ PassSound
  BY Parameters DEF ServiceInv, TypeOK
<1>2. CASE UNCHANGED <<pass, read, phase, runners>> /\ nBots' \in {nBots, nBots + 1}
  BY <1>1, <1>2 DEF PassSound
<1>3. CASE PassStarts
  <2>1. pass' = [at |-> "scan", bot |-> nBots, gw |-> "unbound"] /\ nBots > 0
        /\ phase' = "up" /\ nBots' = nBots
    BY <1>3 DEF PassStarts, dbVars
  <2> QED BY <1>1, <2>1 DEF PassSound
<1>4. ASSUME NEW b \in Bots, AskGateway(b)
      PROVE  PassSound'
  <2>1. /\ pass'.at = "starting" /\ pass'.bot = pass.bot /\ pass.bot = b /\ pass.at = "scan"
        /\ b \notin runners /\ read[b] = "RUNNING" /\ UNCHANGED <<nBots, phase, runners, read>>
    BY <1>4 DEF AskGateway, ToStart, Scanning, ServiceInv, TypeOK, dbVars, runnerVars
  <2>2. phase = "up"
    BY <1>1, <2>1 DEF PassSound, Asleep
  <2> QED BY <1>1, <2>1, <2>2 DEF PassSound
<1>5. CASE pass.at # "asleep" /\ PassMoved /\ UNCHANGED <<nBots, phase>>
  <2>1. phase = "up"
    BY <1>1, <1>5 DEF PassSound, Asleep
  <2>2. CASE pass' = Asleep
    BY <2>2 DEF PassSound, Asleep
  <2>3. ASSUME NEW g, pass.bot - 1 \in 1 .. nBots,
               pass' = [at |-> "scan", bot |-> pass.bot - 1, gw |-> g]
        PROVE  PassSound'
    BY <1>5, <2>1, <2>3 DEF PassSound
  <2> QED BY <1>5, <2>2, <2>3 DEF PassMoved
<1>6. CASE pass' = Asleep
  BY <1>6 DEF PassSound, Asleep
<1> QED BY <1>2, <1>3, <1>4, <1>5, <1>6, PassSteps

LEMMA QuietStep ==
    ASSUME ServiceInv, Next
    PROVE  Quiet'
<1> USE Parameters
<1>1. Quiet /\ loops \in [Bots -> Nat] /\ clients \subseteq gateways /\ PassSound /\ OneOwnedLoop
  BY DEF ServiceInv, TypeOK
<1>2. CASE RunnersStop
  <2>1. phase' = "stopping" /\ loops' = Stopped(runners)
    BY <1>2 DEF RunnersStop
  <2>2. \A b \in Bots : loops'[b] = 0
    BY <1>1, <2>1 DEF OneOwnedLoop, Stopped
  <2> QED BY <2>1, <2>2 DEF Quiet
<1>3. CASE CancelPending
  BY <1>1, <1>3 DEF CancelPending, Quiet, runnerVars
<1>4. ASSUME NEW g \in Subaccounts, GatewayStops(g)
      PROVE  Quiet'
  BY <1>1, <1>4 DEF GatewayStops, Quiet, runnerVars
<1>5. CASE ShutdownBegins \/ Crash \/ CrashInCreate \/ Boot
  BY <1>5 DEF ShutdownBegins, Crash, CrashInCreate, Boot, Quiet
<1>6. CASE Routers \/ Signal \/ PassStarts
  <2>1. phase = "up" /\ phase' = phase
    BY <1>6 DEF Routers, Create, PauseBot, DeleteBot, ResumeBot, SetStatus, Signal, PassStarts
  <2> QED BY <2>1 DEF Quiet
<1>7. CASE PassStep \/ \E b \in Bots : GatewayUp(b) \/ GatewayFails(b)
  <2>1. pass.at # "asleep" /\ phase' = phase
    BY <1>7 DEF PassStep, LeaveAlone, NoCredentials, StopRunner, StopFails, AskGateway,
                KnownGateway, GatewayUp, GatewayFails, ToStop, ToStart, Scanning, Awaiting
  <2>2. phase = "up"
    BY <1>1, <2>1 DEF PassSound, Asleep
  <2> QED BY <2>1, <2>2 DEF Quiet
<1>8. ASSUME NEW b \in Bots, PlaceOrder(b) \/ Answered(b)
      PROVE  Quiet'
  BY <1>1, <1>8 DEF PlaceOrder, Answered, Quiet, runnerVars
<1>9. ASSUME NEW b \in Bots, LoopEnds(b)
      PROVE  Quiet'
  <2>1. phase \notin {"stopping", "exited"} /\ phase' = phase
    BY <1>1, <1>9 DEF LoopEnds, Quiet
  <2> QED BY <2>1 DEF Quiet
<1> QED BY <1>2, <1>3, <1>4, <1>5, <1>6, <1>7, <1>8, <1>9 DEF Next, Service, Runners, Lifespan

-----------------------------------------------------------------------------
(* The rows *)

\* A pass that moves on leaves rows behind it, whatever it did to its own bot.
LEMMA MovedRows ==
    ASSUME ServiceInv, pass.at # "asleep", PassMoved, asked' = asked,
           runners' \subseteq runners \cup {pass.bot}
    PROVE  pass'.at # "asleep" =>
             \A b \in 1 .. pass'.bot : RowRead(read'[b], b, runners', asked')
<1>1. /\ nBots \in Nat /\ pass.bot \in 1 .. nBots
      /\ \A b \in 1 .. pass.bot : RowRead(read[b], b, runners, asked)
  BY Parameters DEF ServiceInv, TypeOK, PassSound, RowsSound
<1>2. CASE pass' = Asleep
  BY <1>2 DEF Asleep
<1>3. ASSUME NEW g, read' = read, pass' = [at |-> "scan", bot |-> pass.bot - 1, gw |-> g]
      PROVE  \A b \in 1 .. pass'.bot : RowRead(read'[b], b, runners', asked')
  <2> SUFFICES ASSUME NEW b \in 1 .. pass.bot - 1
               PROVE  RowRead(read[b], b, runners', asked)
    BY <1>3
  <2>1. b \in 1 .. pass.bot /\ b # pass.bot
    BY <1>1
  <2> QED BY <1>1, <2>1 DEF RowRead
<1> QED BY <1>2, <1>3 DEF PassMoved

LEMMA RowsStep ==
    ASSUME ServiceInv, Next
    PROVE  RowsSound'
<1> USE Parameters
<1>1. /\ nBots \in 0 .. MaxBots /\ status \in [Bots -> Statuses] /\ RowsSound /\ UnbornSound
      /\ pass.at # "asleep" => pass.bot \in 1 .. nBots
  BY DEF ServiceInv, TypeOK, PassSound
<1>2. CASE Create \/ CrashInCreate
  <2>1. /\ nBots' = nBots + 1 /\ nBots + 1 \in Bots /\ asked' = asked
        /\ runners' \subseteq runners
        /\ \/ UNCHANGED <<pass, read, runners>>
           \/ pass' = Asleep
        /\ \E s \in {"RUNNING", "ERROR", "PAUSED"} :
             /\ status' = [status EXCEPT ![nBots + 1] = s]
             /\ unborn' = IF s = "PAUSED" THEN unborn \cup {nBots + 1} ELSE unborn
    <3>1. nBots + 1 \in Bots /\ nBots' = nBots + 1
      BY <1>1, <1>2 DEF Create, CrashInCreate, NewRow
    <3>2. CASE Create
      BY <3>1, <3>2 DEF Create, NewRow, runnerVars
    <3>3. CASE CrashInCreate
      <4>1. asked' = asked /\ runners' = {} /\ pass' = Asleep
        BY <3>3 DEF CrashInCreate, ForgetMemory, PassEnds
      <4>2. /\ status' = [status EXCEPT ![nBots + 1] = "PAUSED"]
            /\ unborn' = unborn \cup {nBots + 1}
        BY <3>3 DEF CrashInCreate, NewRow
      <4> QED BY <3>1, <4>1, <4>2
    <3> QED BY <1>2, <3>2, <3>3
  <2>2. \A b \in 1 .. nBots : status'[b] = status[b]
    BY <1>1, <2>1
  <2>3. \A b \in 1 .. nBots' : status'[b] # "NONE" /\ Excused(status'[b], b, asked' \cup unborn')
    BY <1>1, <2>1, <2>2 DEF RowsSound, Excused
  <2>4. runners' \subseteq 1 .. nBots' /\ \A b \in runners' : status'[b] # "ERROR"
    BY <1>1, <2>1, <2>2 DEF RowsSound
  <2>5. pass'.at # "asleep" => \A b \in 1 .. pass'.bot : RowRead(read'[b], b, runners', asked')
    BY <1>1, <2>1 DEF RowsSound, Asleep
  <2> QED BY <2>3, <2>4, <2>5 DEF RowsSound
<1>3. ASSUME NEW b \in Bots, PauseBot(b) \/ DeleteBot(b) \/ ResumeBot(b)
      PROVE  RowsSound'
  <2>1. /\ \E s \in {"PAUSED", "SHUTDOWN", "RUNNING"} :
             status' = [status EXCEPT ![b] = s] /\ (s = "RUNNING" \/ b \in asked')
        /\ unborn' = unborn \ {b}
        /\ asked \subseteq asked' /\ UNCHANGED <<nBots, runners, pass, read>>
    BY <1>3 DEF PauseBot, DeleteBot, ResumeBot, SetStatus, runnerVars
  <2> QED BY <1>1, <2>1 DEF RowsSound, RowRead, Excused
<1>4. CASE PassStarts
  <2>1. /\ read' = status /\ pass'.bot = nBots
        /\ UNCHANGED <<nBots, status, runners, asked, unborn>>
    BY <1>4 DEF PassStarts, dbVars, runnerVars
  <2>2. \A b \in 1 .. nBots : RowRead(status[b], b, runners, asked)
    BY <1>1 DEF RowsSound, UnbornSound, RowRead, Excused
  <2> QED BY <1>1, <2>1, <2>2 DEF RowsSound
<1>5. ASSUME NEW b \in Bots,
             LeaveAlone(b) \/ NoCredentials(b) \/ StopFails(b) \/ GatewayFails(b)
      PROVE  RowsSound'
  <2>1. pass.at # "asleep" /\ pass.gw \in Bound \cup {"unbound"}
    BY <1>5 DEF ServiceInv, TypeOK, LeaveAlone, NoCredentials, StopFails, ToStop, ToStart,
                Scanning, GatewayFails, Awaiting
  <2>2. PassMoved
    BY <1>5, <2>1, OnwardMoves
       DEF LeaveAlone, NoCredentials, StopFails, GatewayFails, PassEnds, PassMoved
  <2>3. UNCHANGED <<nBots, status, runners, asked, unborn>>
    BY <1>5 DEF LeaveAlone, NoCredentials, StopFails, GatewayFails, dbVars, runnerVars
  <2> QED BY <1>1, <2>1, <2>2, <2>3, MovedRows DEF RowsSound, Excused
<1>6. ASSUME NEW b \in Bots, StopRunner(b)
      PROVE  RowsSound'
  <2>1. /\ pass.at # "asleep" /\ pass.gw \in Bound \cup {"unbound"}
        /\ pass.bot = b /\ read[b] # "RUNNING" /\ b \in runners
        /\ status' = [status EXCEPT ![b] = "SHUTDOWN"] /\ runners' = runners \ {b}
        /\ UNCHANGED <<nBots, asked, unborn>>
    BY <1>6 DEF ServiceInv, TypeOK, StopRunner, ToStop, Scanning
  <2>2. PassMoved
    BY <1>6, <2>1, OnwardMoves DEF StopRunner
  <2>3. b \in asked
    <3>1. b \in 1 .. pass.bot
      BY <1>1, <2>1
    <3>2. /\ read[b] # "NONE" /\ Excused(read[b], b, asked) /\ read[b] # "ERROR"
          /\ read[b] \in Statuses
      BY <1>1, <2>1, <3>1 DEF RowsSound, RowRead, ServiceInv, TypeOK
    <3> QED BY <2>1, <3>2 DEF Statuses, Excused
  <2>4. pass'.at # "asleep" => \A c \in 1 .. pass'.bot : RowRead(read'[c], c, runners', asked')
    BY <2>1, <2>2, MovedRows
  <2>5. \A c \in 1 .. nBots : status'[c] # "NONE" /\ Excused(status'[c], c, asked \cup unborn)
    BY <1>1, <2>1, <2>3 DEF RowsSound, Excused
  <2>6. runners' \subseteq 1 .. nBots /\ \A c \in runners' : status'[c] # "ERROR"
    BY <1>1, <2>1 DEF RowsSound
  <2> QED BY <2>1, <2>4, <2>5, <2>6 DEF RowsSound
<1>7. ASSUME NEW b \in Bots, AskGateway(b)
      PROVE  RowsSound'
  <2>1. /\ pass'.bot = pass.bot /\ pass.at # "asleep"
        /\ UNCHANGED <<nBots, status, runners, asked, unborn, read>>
    BY <1>7 DEF ServiceInv, TypeOK, AskGateway, ToStart, Scanning, dbVars, runnerVars
  <2> QED BY <1>1, <2>1 DEF RowsSound, Excused
<1>8. ASSUME NEW b \in Bots, KnownGateway(b) \/ GatewayUp(b)
      PROVE  RowsSound'
  <2>1. /\ pass.at # "asleep" /\ pass.gw \in Bound \cup {"unbound"} /\ pass.bot = b
        /\ SubOf[b] \in Bound /\ UNCHANGED <<nBots, asked, unborn>>
    BY <1>8 DEF ServiceInv, TypeOK, KnownGateway, GatewayUp, ToStart, Scanning, Awaiting
  <2>2. PassMoved /\ Begun(b)
    BY <1>8, <2>1, BeginMoves DEF KnownGateway, GatewayUp
  <2>3. CASE UNCHANGED <<runnerVars, status>>
    BY <1>1, <2>1, <2>2, <2>3, MovedRows DEF RowsSound, Excused, runnerVars
  <2>4. ASSUME NEW g \in Bound, StartLoop(b, g)
        PROVE  RowsSound'
    <3>1. runners' = runners \cup {b} /\ status' = [status EXCEPT ![b] = "RUNNING"]
      BY <2>4 DEF StartLoop
    <3>2. pass'.at # "asleep" => \A c \in 1 .. pass'.bot : RowRead(read'[c], c, runners', asked')
      BY <2>1, <2>2, <3>1, MovedRows
    <3>3. \A c \in 1 .. nBots : status'[c] # "NONE" /\ Excused(status'[c], c, asked \cup unborn)
      BY <1>1, <3>1 DEF RowsSound, Excused
    <3>4. b \in 1 .. nBots
      BY <1>1, <2>1
    <3>5. runners' \subseteq 1 .. nBots /\ \A c \in runners' : status'[c] # "ERROR"
      BY <1>1, <3>1, <3>4 DEF RowsSound
    <3> QED BY <2>1, <3>2, <3>3, <3>5 DEF RowsSound
  <2> QED BY <2>2, <2>3, <2>4 DEF Begun
<1>9. ASSUME UNCHANGED <<nBots, status, runners, pass, read, asked, unborn>>
      PROVE  RowsSound'
  BY <1>1, <1>9 DEF RowsSound, Excused
<1>10. Runners \/ Signal \/ RunnersStop \/ CancelPending
         \/ (\E g \in Subaccounts : GatewayStops(g))
         => UNCHANGED <<nBots, status, runners, pass, read, asked, unborn>>
  BY DEF Runners, PlaceOrder, Answered, LoopEnds, Signal, RunnersStop, CancelPending, GatewayStops,
         dbVars, runnerVars
<1>11. CASE ShutdownBegins \/ Crash \/ Boot
  <2>1. pass'.at = "asleep" /\ runners' \subseteq runners /\ UNCHANGED <<nBots, status, asked, unborn>>
    BY <1>11 DEF ShutdownBegins, Crash, Boot, CancelPass, ForgetMemory, PassEnds, Asleep, dbVars,
                 runnerVars
  <2> QED BY <1>1, <2>1 DEF RowsSound, Excused
<1> QED BY <1>2, <1>3, <1>4, <1>5, <1>6, <1>7, <1>8, <1>9, <1>10, <1>11
        DEF Next, Routers, Service, PassStep, Lifespan

\* The bots whose creation was cut short.
LEMMA UnbornStep ==
    ASSUME ServiceInv, Next
    PROVE  UnbornSound'
<1> USE Parameters
<1>1. /\ nBots \in 0 .. MaxBots /\ status \in [Bots -> Statuses] /\ UnbornSound
      /\ runners \subseteq 1 .. nBots /\ unborn \subseteq Bots
      /\ pass.at # "asleep" => pass.bot \in 1 .. nBots
  BY DEF ServiceInv, TypeOK, PassSound, RowsSound
\* A pass that moved on looks at rows it has read, of which it drops its own.
<1>2. ASSUME pass.at # "asleep", PassMoved, UNCHANGED <<nBots, unborn>>,
             \A b \in unborn : b \notin runners' /\ status'[b] = status[b]
      PROVE  UnbornSound'
  <2>1. CASE pass' = Asleep
    BY <1>1, <1>2, <2>1 DEF UnbornSound, Asleep
  <2>2. ASSUME NEW g, read' = read, pass' = [at |-> "scan", bot |-> pass.bot - 1, gw |-> g]
        PROVE  UnbornSound'
    <3> SUFFICES ASSUME NEW b \in unborn
                 PROVE  /\ b \in 1 .. nBots /\ status[b] = "PAUSED"
                        /\ b <= pass.bot - 1 => read[b] # "RUNNING"
      BY <1>2, <2>2 DEF UnbornSound
    <3>1. b \in Int /\ pass.bot \in Int
      BY <1>1, <1>2
    <3> QED BY <1>1, <1>2, <3>1 DEF UnbornSound
  <2> QED BY <1>2, <2>1, <2>2 DEF PassMoved
<1>3. CASE Create
  <2>1. /\ nBots' = nBots + 1 /\ nBots + 1 \in Bots /\ UNCHANGED <<runners, pass, read>>
        /\ \E s \in {"RUNNING", "ERROR", "PAUSED"} :
             /\ status' = [status EXCEPT ![nBots + 1] = s]
             /\ unborn' = IF s = "PAUSED" THEN unborn \cup {nBots + 1} ELSE unborn
    <3>1. nBots + 1 \in Bots
      BY <1>1, <1>3 DEF Create, NewRow
    <3> QED BY <1>3, <3>1 DEF Create, NewRow, runnerVars
  <2>2. \A b \in unborn' : b \in unborn \/ (b = nBots + 1 /\ status'[b] = "PAUSED")
    BY <1>1, <2>1
  <2>3. \A b \in unborn : status'[b] = "PAUSED" /\ b \in 1 .. nBots'
    BY <1>1, <2>1 DEF UnbornSound
  <2>4. nBots + 1 \notin runners /\ (pass.at # "asleep" => ~(nBots + 1 <= pass.bot))
    BY <1>1
  <2>5. nBots + 1 \in 1 .. nBots'
    BY <1>1, <2>1
  <2> QED BY <1>1, <2>1, <2>2, <2>3, <2>4, <2>5 DEF UnbornSound
<1>4. CASE CrashInCreate
  <2>1. /\ nBots' = nBots + 1 /\ nBots + 1 \in Bots /\ runners' = {} /\ pass' = Asleep
        /\ status' = [status EXCEPT ![nBots + 1] = "PAUSED"]
        /\ unborn' = unborn \cup {nBots + 1}
    BY <1>1, <1>4 DEF CrashInCreate, NewRow, ForgetMemory, PassEnds
  <2>2. \A b \in unborn' : b \in 1 .. nBots' /\ status'[b] = "PAUSED"
    BY <1>1, <2>1 DEF UnbornSound
  <2> QED BY <2>1, <2>2 DEF UnbornSound, Asleep
<1>5. ASSUME NEW b \in Bots, PauseBot(b) \/ DeleteBot(b) \/ ResumeBot(b)
      PROVE  UnbornSound'
  <2>1. /\ \E s : status' = [status EXCEPT ![b] = s]
        /\ unborn' = unborn \ {b} /\ UNCHANGED <<nBots, runners, pass, read>>
    BY <1>5 DEF PauseBot, DeleteBot, ResumeBot, SetStatus, runnerVars
  <2> QED BY <1>1, <2>1 DEF UnbornSound
<1>6. CASE PassStarts
  <2>1. read' = status /\ UNCHANGED <<nBots, status, runners, unborn>>
    BY <1>6 DEF PassStarts, dbVars, runnerVars
  <2> QED BY <1>1, <2>1 DEF UnbornSound
<1>7. ASSUME NEW b \in Bots,
             LeaveAlone(b) \/ NoCredentials(b) \/ StopFails(b) \/ GatewayFails(b)
      PROVE  UnbornSound'
  <2>1. pass.at # "asleep" /\ pass.gw \in Bound \cup {"unbound"}
    BY <1>7 DEF ServiceInv, TypeOK, LeaveAlone, NoCredentials, StopFails, ToStop, ToStart,
                Scanning, GatewayFails, Awaiting
  <2>2. PassMoved
    BY <1>7, <2>1, OnwardMoves
       DEF LeaveAlone, NoCredentials, StopFails, GatewayFails, PassEnds, PassMoved
  <2>3. UNCHANGED <<nBots, status, runners, unborn>>
    BY <1>7 DEF LeaveAlone, NoCredentials, StopFails, GatewayFails, dbVars, runnerVars
  <2> QED BY <1>1, <1>2, <2>1, <2>2, <2>3 DEF UnbornSound
<1>8. ASSUME NEW b \in Bots, StopRunner(b)
      PROVE  UnbornSound'
  <2>1. /\ pass.at # "asleep" /\ pass.gw \in Bound \cup {"unbound"} /\ b \in runners
        /\ status' = [status EXCEPT ![b] = "SHUTDOWN"] /\ runners' = runners \ {b}
        /\ UNCHANGED <<nBots, unborn>>
    BY <1>8 DEF ServiceInv, TypeOK, StopRunner, ToStop, Scanning
  <2>2. PassMoved
    BY <1>8, <2>1, OnwardMoves DEF StopRunner
  <2>3. \A c \in unborn : c # b /\ c \notin runners' /\ status'[c] = status[c]
    BY <1>1, <2>1 DEF UnbornSound
  <2> QED BY <1>2, <2>1, <2>2, <2>3
<1>9. ASSUME NEW b \in Bots, AskGateway(b)
      PROVE  UnbornSound'
  <2>1. /\ pass'.bot = pass.bot /\ pass.at # "asleep"
        /\ UNCHANGED <<nBots, status, runners, unborn, read>>
    BY <1>9 DEF ServiceInv, TypeOK, AskGateway, ToStart, Scanning, dbVars, runnerVars
  <2> QED BY <1>1, <2>1 DEF UnbornSound
\* The bot that gets a runner was read as running.
<1>10. ASSUME NEW b \in Bots, KnownGateway(b) \/ GatewayUp(b)
       PROVE  UnbornSound'
  <2>1. /\ pass.at # "asleep" /\ pass.gw \in Bound \cup {"unbound"} /\ pass.bot = b
        /\ SubOf[b] \in Bound /\ UNCHANGED <<nBots, unborn>> /\ read[b] = "RUNNING"
    BY <1>10 DEF ServiceInv, TypeOK, PassSound, KnownGateway, GatewayUp, ToStart, Scanning, Awaiting
  <2>2. PassMoved /\ Begun(b)
    BY <1>10, <2>1, BeginMoves DEF KnownGateway, GatewayUp
  <2>3. b \notin unborn
    BY <1>1, <2>1 DEF UnbornSound
  <2>4. \A c \in unborn : c \notin runners' /\ status'[c] = status[c]
    <3>1. CASE UNCHANGED <<runnerVars, status>>
      BY <1>1, <3>1 DEF UnbornSound, runnerVars
    <3>2. ASSUME NEW g \in Bound, StartLoop(b, g)
          PROVE  \A c \in unborn : c \notin runners' /\ status'[c] = status[c]
      BY <1>1, <2>3, <3>2 DEF UnbornSound, StartLoop
    <3> QED BY <2>2, <3>1, <3>2 DEF Begun
  <2> QED BY <1>2, <2>1, <2>2, <2>4
<1>11. Runners \/ Signal \/ RunnersStop \/ CancelPending
         \/ (\E g \in Subaccounts : GatewayStops(g))
         => UNCHANGED <<nBots, status, runners, pass, read, unborn>>
  BY DEF Runners, PlaceOrder, Answered, LoopEnds, Signal, RunnersStop, CancelPending, GatewayStops,
         dbVars, runnerVars
<1>12. ASSUME UNCHANGED <<nBots, status, runners, pass, read, unborn>>
       PROVE  UnbornSound'
  BY <1>1, <1>12 DEF UnbornSound
<1>13. CASE ShutdownBegins \/ Crash \/ Boot
  <2>1. pass'.at = "asleep" /\ runners' \subseteq runners /\ UNCHANGED <<nBots, status, unborn>>
    BY <1>13 DEF ShutdownBegins, Crash, Boot, CancelPass, ForgetMemory, PassEnds, Asleep, dbVars,
                 runnerVars
  <2> QED BY <1>1, <2>1 DEF UnbornSound
<1> QED BY <1>3, <1>4, <1>5, <1>6, <1>7, <1>8, <1>9, <1>10, <1>11, <1>12, <1>13
        DEF Next, Routers, Service, PassStep, Lifespan

-----------------------------------------------------------------------------
(* The invariant and the theorems *)

LEMMA InitInv == Init => ServiceInv
<1> USE Parameters
<1> SUFFICES ASSUME Init PROVE ServiceInv
  OBVIOUS
<1>1. TypeOK
  <2>1. NoRows \in [Bots -> Statuses] /\ 0 \in 0 .. MaxBots
    BY DEF NoRows, Statuses
  <2>2. Asleep \in [at : {"asleep", "scan", "starting"}, bot : 0 .. MaxBots,
                    gw : Bound \cup {"unbound"}]
    BY <2>1 DEF Asleep
  <2> QED BY <2>1, <2>2 DEF Init, TypeOK
<1>2. OneOwnedLoop /\ Quiet
  BY DEF Init, OneOwnedLoop, Quiet
<1>3. PassSound /\ RowsSound /\ UnbornSound
  BY DEF Init, PassSound, RowsSound, UnbornSound, Asleep
<1> QED BY <1>1, <1>2, <1>3 DEF ServiceInv

LEMMA StepInv == ServiceInv /\ [Next]_vars => ServiceInv'
<1> SUFFICES ASSUME ServiceInv, [Next]_vars PROVE ServiceInv'
  OBVIOUS
<1>1. CASE Next
  BY <1>1, TypeStep, LoopsStep, PassStepSound, RowsStep, UnbornStep, QuietStep DEF ServiceInv
<1>2. CASE UNCHANGED vars
  <2>1. TypeOK' /\ OneOwnedLoop' /\ Quiet'
    BY <1>2 DEF vars, ServiceInv, TypeOK, OneOwnedLoop, Quiet
  <2>2. PassSound' /\ RowsSound' /\ UnbornSound'
    BY <1>2 DEF vars, ServiceInv, PassSound, RowsSound, UnbornSound
  <2> QED BY <2>1, <2>2 DEF ServiceInv
<1> QED BY <1>1, <1>2

\* Every variable of the service has its type, and no runner is built without
\* a gateway, whatever fails and whoever calls (_check_bots).
THEOREM ServiceTypes == Spec => []TypeOK
<1>1. ServiceInv => TypeOK
  BY DEF ServiceInv
<1> QED BY InitInv, StepInv, <1>1, PTL DEF Spec

\* No bot ever has two loops, and every loop belongs to a registered runner
\* (_check_bots, start, stop), for any number of bots and subaccounts.
THEOREM OneLoopPerBot == Spec => []OneOwnedLoop
<1>1. ServiceInv => OneOwnedLoop
  BY DEF ServiceInv
<1> QED BY InitInv, StepInv, <1>1, PTL DEF Spec

\* A graceful shutdown leaves no loop, no connection and no pass behind
\* (stop_immortality).
THEOREM ShutdownLeavesNothing == Spec => []QuietOnceExited
<1>1. ServiceInv => QuietOnceExited
  BY DEF ServiceInv, Quiet, PassSound, QuietOnceExited
<1> QED BY InitInv, StepInv, <1>1, PTL DEF Spec

\* Only the operator takes a bot out of those that a restart resumes, but for
\* bots whose creation a crash or a failed write cut short (stop_immortality,
\* _check_bots, the routers).
THEOREM OnlyTheOperatorStops == Spec => []StoppedOnlyOnRequest
<1>1. ServiceInv => StoppedOnlyOnRequest
  BY DEF ServiceInv, RowsSound, Excused, StoppedOnlyOnRequest
<1> QED BY InitInv, StepInv, <1>1, PTL DEF Spec

=============================================================================
