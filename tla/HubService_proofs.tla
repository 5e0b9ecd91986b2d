------------------------- MODULE HubService_proofs -------------------------
(***************************************************************************)
(* Proofs about HubService, for any number of bots and of concurrent       *)
(* requests: types, the ownership of loops, what may override the          *)
(* operator, and that every step is one that Fleet allows.                 *)
(***************************************************************************)
EXTENDS HubService, TLAPS

LEMMA Parameters ==
    /\ MaxBots \in Nat /\ Bots = 1 .. MaxBots /\ 0 \notin Bots
    /\ MaxTasks \in Nat /\ Tasks = 1 .. MaxTasks /\ 0 \notin Tasks
BY HubAssumption DEF HubAssumption, Bots, Tasks

-----------------------------------------------------------------------------
(* Types *)

\* A request that is under way is about a bot and waits where its kind waits.
CallersSound == \A c \in Callers :
    \/ caller[c] = Free
    \/ /\ caller[c].bot \in Bots
       /\ \/ caller[c].op = "start" /\ caller[c].at \in {"staged", "syncing"}
          \/ /\ caller[c].op \in {"stop", "delete", "stop_all"}
             /\ \/ caller[c].at = "closing"
                \/ caller[c].at = "gathering" /\ caller[c].task \in Tasks

\* The watchdog holds a bot while it waits for it, and only then.
WatchSound ==
    /\ watch.at \in {"throttled", "syncing"} => watch.bot \in Bots
    /\ watch.at \notin {"throttled", "syncing"} => watch.bot = 0

HubInv == TypeOK /\ CallersSound /\ WatchSound

LEMMA InitHub == Init => HubInv
<1> SUFFICES ASSUME Init PROVE HubInv
  OBVIOUS
<1> USE Parameters DEF Init, Free, Off
<1>1. TypeOK
  BY DEF TypeOK, Stages, Request_, Zones
<1>2. CallersSound /\ WatchSound
  BY DEF CallersSound, WatchSound
<1> QED BY <1>1, <1>2 DEF HubInv

\* What start() does to the runner of a bot.
LEMMA StartTypes ==
    ASSUME TypeOK, NEW b \in Bots, RunnerStart(b)
    PROVE  /\ task' \in [Bots -> Tasks \cup {0}] /\ loops' \in [Bots -> [Tasks -> Stages]]
           /\ stopFlag' \in [Bots -> BOOLEAN]
<1>1. CASE UNCHANGED runnerVars
  BY <1>1 DEF TypeOK, runnerVars
<1>2. CASE ~Running(b)
  <2>1. PICK t \in Tasks : /\ task' = [task EXCEPT ![b] = t]
                           /\ loops' = [loops EXCEPT ![b][t] = "waiting"]
    BY <1>2 DEF RunnerStart, Unawaited
  <2>2. loops[b] \in [Tasks -> Stages] /\ "waiting" \in Stages
    BY DEF TypeOK, Stages
  <2>3. [loops[b] EXCEPT ![t] = "waiting"] \in [Tasks -> Stages]
    BY <2>2
  <2>4. loops' = [loops EXCEPT ![b] = [loops[b] EXCEPT ![t] = "waiting"]]
    BY <2>1
  <2>5. loops' \in [Bots -> [Tasks -> Stages]]
    BY <2>3, <2>4 DEF TypeOK
  <2>6. task' \in [Bots -> Tasks \cup {0}] /\ stopFlag' \in [Bots -> BOOLEAN]
    BY <1>2, <2>1 DEF TypeOK, RunnerStart
  <2> QED BY <2>5, <2>6
<1> QED BY <1>1, <1>2 DEF RunnerStart

\* What the first part of stop() does to the runner and to its caller.
LEMMA StopTypes ==
    ASSUME HubInv, NEW c \in Callers, NEW b \in Bots, NEW op \in {"stop", "delete", "stop_all"},
           StopBegins(c, op, b)
    PROVE  /\ task' = task /\ loops' \in [Bots -> [Tasks -> Stages]]
           /\ stopFlag' \in [Bots -> BOOLEAN]
           /\ caller' \in [Callers -> Request_] /\ CallersSound'
<1> USE Parameters
<1>1. task' = task /\ loops' \in [Bots -> [Tasks -> Stages]] /\ stopFlag' \in [Bots -> BOOLEAN]
  BY DEF HubInv, TypeOK, StopBegins, CancelTask, Running, Stages
<1>2. task[b] \in Tasks \cup {0} /\ caller \in [Callers -> Request_]
  BY DEF HubInv, TypeOK
<1>3. caller' \in [Callers -> Request_]
  BY <1>2 DEF StopBegins, Request_
<1>4. CallersSound'
  BY <1>2 DEF HubInv, CallersSound, StopBegins
<1> QED BY <1>1, <1>3, <1>4

MarksTyped == raced' \subseteq Bots /\ slipped' \subseteq Bots \X Tasks

LEMMA RequestTypes ==
    ASSUME HubInv, NEW c \in Callers, Request(c), MarksTyped
    PROVE  HubInv'
<1> USE Parameters
<1>1. CASE \E b \in Bots : StartRequest(c, b)
  <2> PICK b \in Bots : StartRequest(c, b)
    BY <1>1
  <2>1. PICK at \in {"staged", "syncing"} :
          caller' = [caller EXCEPT ![c] = [Free EXCEPT !.op = "start", !.bot = b, !.at = at]]
    BY DEF StartRequest, Slots
  <2>2. caller' \in [Callers -> Request_] /\ CallersSound'
    BY <2>1 DEF MarksTyped, HubInv, TypeOK, CallersSound, Free, Request_
  <2>3. TypeOK' /\ WatchSound'
    BY <2>2 DEF MarksTyped, HubInv, TypeOK, WatchSound, StartRequest, runnerVars, envVars
  <2> QED BY <2>2, <2>3 DEF HubInv
<1>2. CASE \E b \in Bots : StopRequest(c, b) \/ DeleteRequest(c, b) \/ (b \in recs /\ StopAllRequest(c))
  <2> PICK b \in Bots : StopRequest(c, b) \/ DeleteRequest(c, b) \/ StopAllRequest(c)
    BY <1>2
  <2>1. \E d \in Bots : \E op \in {"stop", "delete", "stop_all"} : StopBegins(c, op, d)
    BY DEF StopRequest, DeleteRequest, StopAllRequest, HubInv, TypeOK
  <2>2. /\ task' = task /\ loops' \in [Bots -> [Tasks -> Stages]]
        /\ stopFlag' \in [Bots -> BOOLEAN]
        /\ caller' \in [Callers -> Request_] /\ CallersSound'
    BY <2>1, StopTypes
  <2>3. UNCHANGED <<recs, watch, coordVars, envVars>> /\ desired' \in [Bots -> BOOLEAN]
    BY DEF StopRequest, DeleteRequest, StopAllRequest, HubInv, TypeOK, hubVars
  <2> QED BY <2>2, <2>3 DEF MarksTyped, HubInv, TypeOK, WatchSound, coordVars, envVars
<1>3. StopAllRequest(c) => \E b \in Bots : b \in recs
  BY DEF StopAllRequest, HubInv, TypeOK
<1> QED BY <1>1, <1>2, <1>3 DEF Request

LEMMA AnswerTypes ==
    ASSUME HubInv, NEW c \in Callers, Answer(c), MarksTyped
    PROVE  HubInv'
<1> USE Parameters
<1>1. caller \in [Callers -> Request_]
  BY DEF MarksTyped, HubInv, TypeOK
<1>2. CASE StagedWakes(c)
  <2>1. caller' \in [Callers -> Request_] /\ CallersSound'
    BY <1>1, <1>2 DEF HubInv, StagedWakes, CallersSound, Request_, Free
  <2> QED BY <1>2, <2>1
       DEF MarksTyped, HubInv, TypeOK, WatchSound, StagedWakes, hubVars, runnerVars, coordVars, envVars
<1>3. CASE StartReturns(c)
  <2>1. caller[c].bot \in Bots
    BY <1>3 DEF HubInv, StartReturns, CallersSound, Free
  <2>2. /\ task' \in [Bots -> Tasks \cup {0}] /\ loops' \in [Bots -> [Tasks -> Stages]]
        /\ stopFlag' \in [Bots -> BOOLEAN]
    BY <1>3, <2>1, StartTypes DEF HubInv, StartReturns
  <2>3. caller' \in [Callers -> Request_] /\ CallersSound'
    BY <1>1, <1>3 DEF HubInv, StartReturns, CallersSound, Request_, Free
  <2> QED BY <1>3, <2>1, <2>2, <2>3 DEF MarksTyped, HubInv, TypeOK, WatchSound, StartReturns, hubVars, envVars
<1>4. CASE StartFails(c) \/ StopReturns(c) \/ DeleteReturns(c) \/ StopAllReturns(c)
  <2>1. caller' = [caller EXCEPT ![c] = Free] /\ UNCHANGED <<runnerVars, watch, envVars, desired>>
    BY <1>4 DEF StartFails, StopReturns, DeleteReturns, StopAllReturns, hubVars
  <2>2. caller' \in [Callers -> Request_] /\ CallersSound'
    BY <1>1, <2>1 DEF HubInv, CallersSound, Request_, Free
  <2>3. recs' \subseteq Bots /\ tracked' \subseteq Bots /\ staged' \subseteq Bots
    BY <1>4 DEF MarksTyped, HubInv, TypeOK, StartFails, StopReturns, DeleteReturns, StopAllReturns, hubVars, coordVars
  <2> QED BY <2>1, <2>2, <2>3 DEF MarksTyped, HubInv, TypeOK, WatchSound, runnerVars, envVars
<1>5. CASE GatherReturns(c)
  <2>1. caller' \in [Callers -> Request_] /\ CallersSound'
    BY <1>1, <1>5 DEF HubInv, GatherReturns, CallersSound, Request_, Free
  <2>2. task' \in [Bots -> Tasks \cup {0}]
    BY <1>5 DEF MarksTyped, HubInv, TypeOK, GatherReturns
  <2> QED BY <1>5, <2>1, <2>2 DEF MarksTyped, HubInv, TypeOK, WatchSound, GatherReturns, hubVars, coordVars, envVars
<1> QED BY <1>2, <1>3, <1>4, <1>5 DEF Answer

WatchType == [at : {"off", "interval", "scan", "throttled", "syncing"},
              bot : Bots \cup {0}, left : SUBSET Bots]

LEMMA WatchMoves ==
    ASSUME HubInv,
           WatchStarts \/ WatchStops \/ PassBegins \/ PassEnds \/ WatchWakes \/ ResumeFails
             \/ \E b \in Bots : Admitted(b)
    PROVE  watch' \in WatchType /\ WatchSound'
<1> USE DEF WatchType
<1>1. recs \subseteq Bots /\ watch.left \subseteq Bots /\ watch.bot \in Bots \cup {0}
      /\ watch \in WatchType
  BY DEF MarksTyped, HubInv, TypeOK
<1>2. CASE WatchStarts \/ WatchStops \/ PassBegins \/ PassEnds
  BY <1>1, <1>2 DEF WatchSound, WatchStarts, WatchStops, PassBegins, PassEnds, Waiting, Off
<1>3. CASE WatchWakes \/ ResumeFails
  BY <1>1, <1>3 DEF HubInv, WatchSound, WatchWakes, ResumeFails
<1>4. CASE \E b \in Bots : Admitted(b)
  <2> PICK b \in Bots : Admitted(b)
    BY <1>4
  <2>1. \E at \in {"throttled", "syncing"} :
          watch' = [at |-> at, bot |-> b, left |-> {x \in watch.left : x > b}]
    BY DEF Admitted
  <2> QED BY <1>1, <2>1 DEF WatchSound
<1> QED BY <1>2, <1>3, <1>4

LEMMA WatchTypes ==
    ASSUME HubInv, WatchStarts \/ WatchStops \/ WatchStep, MarksTyped
    PROVE  HubInv'
<1> USE Parameters
<1>1. CASE Resumed
  <2>1. watch.bot \in Bots
    BY <1>1 DEF Resumed, HubInv, WatchSound
  <2>2. /\ task' \in [Bots -> Tasks \cup {0}] /\ loops' \in [Bots -> [Tasks -> Stages]]
        /\ stopFlag' \in [Bots -> BOOLEAN]
    BY <1>1, <2>1, StartTypes DEF HubInv, Resumed
  <2>3. watch' \in WatchType /\ WatchSound'
    BY <1>1 DEF MarksTyped, HubInv, TypeOK, WatchType, WatchSound, Resumed
  <2> QED BY <1>1, <2>1, <2>2, <2>3 DEF MarksTyped, HubInv, TypeOK, WatchType, CallersSound, Resumed, hubVars, envVars
<1>2. CASE WatchStarts \/ WatchStops \/ PassBegins \/ PassEnds \/ WatchWakes \/ ResumeFails
           \/ \E b \in Bots : Admitted(b)
  <2>1. watch' \in WatchType /\ WatchSound'
    BY <1>2, WatchMoves
  <2>2. UNCHANGED <<hubVars, runnerVars, caller, coordVars, envVars>>
    BY <1>2 DEF WatchStarts, WatchStops, PassBegins, PassEnds, WatchWakes, ResumeFails, Admitted
  <2> QED BY <2>1, <2>2
       DEF MarksTyped, HubInv, TypeOK, WatchType, CallersSound, hubVars, runnerVars, coordVars, envVars
<1> QED BY <1>1, <1>2 DEF WatchStep

LEMMA LoopTypes ==
    ASSUME HubInv, NEW b \in Bots, NEW t \in Tasks, LoopStep(b, t), MarksTyped
    PROVE  HubInv'
<1>1. \E at \in Stages : LoopTo(b, t, at)
  BY DEF LoopStep, LoopEnds, CycleAllowed, Throttled, ThrottleOver, CycleEnds, CancelArrives, Stages
<1>2. PICK at \in Stages : loops' = [loops EXCEPT ![b][t] = at]
  BY <1>1 DEF LoopTo
<1>3. loops[b] \in [Tasks -> Stages]
  BY DEF MarksTyped, HubInv, TypeOK
<1>4. [loops[b] EXCEPT ![t] = at] \in [Tasks -> Stages]
  BY <1>3
<1>5. loops' = [loops EXCEPT ![b] = [loops[b] EXCEPT ![t] = at]]
  BY <1>2
<1>6. loops' \in [Bots -> [Tasks -> Stages]]
  BY <1>4, <1>5 DEF MarksTyped, HubInv, TypeOK
<1>7. UNCHANGED <<hubVars, task, stopFlag, caller, watch, coordVars, envVars>>
  BY <1>1 DEF LoopTo
<1> QED BY <1>6, <1>7
     DEF MarksTyped, HubInv, TypeOK, CallersSound, WatchSound, hubVars, coordVars, envVars

LEMMA RestartTypes ==
    ASSUME HubInv, Restart, MarksTyped
    PROVE  HubInv'
<1> USE Parameters
<1>1. TypeOK'
  BY DEF MarksTyped, HubInv, TypeOK, Restart, Free, Off, Stages, Request_, Zones, hubVars
<1>2. CallersSound' /\ WatchSound'
  BY DEF Restart, CallersSound, WatchSound, Free, Off
<1> QED BY <1>1, <1>2 DEF HubInv

LEMMA StepHub == HubInv /\ [Next]_vars => HubInv'
<1> SUFFICES ASSUME HubInv, [Next]_vars PROVE HubInv'
  OBVIOUS
<1>1. CASE UNCHANGED vars
  BY <1>1 DEF HubInv, TypeOK, CallersSound, WatchSound, vars
<1>2. CASE Restart /\ raced' = {} /\ slipped' = {}
  BY <1>2, RestartTypes DEF MarksTyped
<1>3. CASE Move /\ Witness
  <2>1. MarksTyped
    BY <1>3 DEF Witness, Races, Slips, MarksTyped
  <2>2. CASE \E c \in Callers : Request(c) \/ Answer(c)
    BY <2>1, <2>2, RequestTypes, AnswerTypes
  <2>3. CASE WatchStarts \/ WatchStops \/ WatchStep
    BY <2>1, <2>3, WatchTypes
  <2>4. CASE \E b \in Bots, t \in Tasks : LoopStep(b, t)
    BY <2>1, <2>4, LoopTypes
  <2>5. CASE Reading \/ PanicLock
    <3>1. zone' \in Zones /\ panic' \in BOOLEAN
      BY <2>5 DEF Reading, PanicLock, HubInv, TypeOK
    <3>2. UNCHANGED <<hubVars, runnerVars, caller, watch, coordVars>>
      BY <2>5 DEF Reading, PanicLock
    <3> QED BY <2>1, <3>1, <3>2
         DEF MarksTyped, HubInv, TypeOK, CallersSound, WatchSound, hubVars, runnerVars, coordVars
  <2> QED BY <1>3, <2>2, <2>3, <2>4, <2>5 DEF Move
<1> QED BY <1>1, <1>2, <1>3 DEF Next

\* The types of the hub's fields hold in every reachable state.
THEOREM HubTypes == Spec => []TypeOK
<1>1. HubInv => TypeOK
  BY DEF HubInv
<1> QED BY InitHub, StepHub, <1>1, PTL DEF Spec

-----------------------------------------------------------------------------
(* The ownership of loops *)

\* A stop() waits for its runner's loop, unless that one slipped in.
GatherSound == \A c \in Callers, b \in Bots :
    /\ caller[c].at = "gathering" /\ caller[c].bot = b
    /\ Running(b) /\ <<b, task[b]>> \notin slipped
    => caller[c].task = task[b]

OwnInv == HubInv /\ LoopsOwned /\ GatherSound

\* What a step makes of a mark.
LEMMA Slipped ==
    ASSUME Slips, NEW b \in Bots, NEW t \in Tasks
    PROVE  <<b, t>> \in slipped' <=>
             Alive(b, t)' /\ (<<b, t>> \in slipped \/ (~Alive(b, t) /\ Halting(b)))
BY DEF Slips

\* A step that brings no loop up and begins no gather.
LEMMA OwnFrame ==
    ASSUME OwnInv, Slips, task' = task,
           \A b \in Bots, t \in Tasks : Alive(b, t)' => Alive(b, t),
           \A c \in Callers : caller'[c].at = "gathering" => caller'[c] = caller[c]
    PROVE  (LoopsOwned /\ GatherSound)'
<1> USE Parameters
<1>1. LoopsOwned'
  <2> SUFFICES ASSUME NEW b \in Bots, NEW t \in Tasks, Alive(b, t)', task'[b] # t
               PROVE  <<b, t>> \in slipped'
    BY DEF LoopsOwned
  <2>1. Alive(b, t) /\ task[b] # t
    OBVIOUS
  <2>2. <<b, t>> \in slipped
    BY <2>1 DEF OwnInv, LoopsOwned
  <2> QED BY <2>2, Slipped
<1>2. GatherSound'
  <2> SUFFICES ASSUME NEW c \in Callers, NEW b \in Bots,
                      caller'[c].at = "gathering", caller'[c].bot = b,
                      Running(b)', <<b, task'[b]>> \notin slipped'
               PROVE  caller'[c].task = task'[b]
    BY DEF GatherSound
  <2>1. task[b] \in Tasks /\ Alive(b, task[b])' /\ Alive(b, task[b])
    BY DEF Running, OwnInv, HubInv, TypeOK
  <2>2. <<b, task[b]>> \notin slipped
    BY <2>1, Slipped
  <2>3. Running(b)
    BY <2>1 DEF Running
  <2> QED BY <2>2, <2>3 DEF OwnInv, GatherSound
<1> QED BY <1>1, <1>2

\* A loop that is started while a stop() of its bot waits is marked.
LEMMA StartOwned ==
    ASSUME OwnInv, Slips, NEW b \in Bots, RunnerStart(b),
           \A c \in Callers : caller'[c].at = "gathering" => caller'[c] = caller[c]
    PROVE  (LoopsOwned /\ GatherSound)'
<1> USE Parameters
<1>1. CASE UNCHANGED runnerVars
  BY <1>1, OwnFrame DEF Alive, runnerVars
<1>2. CASE ~Running(b) /\ ~UNCHANGED runnerVars
  <2>1. PICK t \in Tasks : /\ task' = [task EXCEPT ![b] = t] /\ ~Alive(b, t)
                           /\ loops' = [loops EXCEPT ![b][t] = "waiting"]
    BY <1>2 DEF RunnerStart, Unawaited
  <2>2. /\ \A x \in Bots : task'[x] = IF x = b THEN t ELSE task[x]
        /\ \A x \in Bots, y \in Tasks :
             loops'[x][y] = IF x = b /\ y = t THEN "waiting" ELSE loops[x][y]
    BY <2>1 DEF OwnInv, HubInv, TypeOK
  <2>3. LoopsOwned'
    <3> SUFFICES ASSUME NEW x \in Bots, NEW y \in Tasks, Alive(x, y)', task'[x] # y
                 PROVE  <<x, y>> \in slipped'
      BY DEF LoopsOwned
    <3>1. Alive(x, y)
      BY <2>2 DEF Alive
    <3>2. task[x] # y
      BY <1>2, <2>2, <3>1 DEF Running
    <3>3. <<x, y>> \in slipped
      BY <3>1, <3>2 DEF OwnInv, LoopsOwned
    <3> QED BY <3>3, Slipped
  <2>4. GatherSound'
    <3> SUFFICES ASSUME NEW c \in Callers, NEW x \in Bots,
                        caller'[c].at = "gathering", caller'[c].bot = x,
                        Running(x)', <<x, task'[x]>> \notin slipped'
                 PROVE  caller'[c].task = task'[x]
      BY DEF GatherSound
    <3>1. caller'[c] = caller[c]
      OBVIOUS
    <3>2. x # b
      <4>1. SUFFICES ASSUME x = b PROVE FALSE
        OBVIOUS
      <4>2. Halting(b)
        BY <3>1, <4>1 DEF Halting
      <4>3. Alive(b, t)' /\ task'[b] = t
        BY <2>2 DEF Alive
      <4> QED BY <2>1, <4>1, <4>2, <4>3, Slipped
    <3>3. task'[x] = task[x] /\ task[x] \in Tasks /\ Alive(x, task[x])' /\ Alive(x, task[x])
      BY <2>2, <3>2 DEF Running, Alive, OwnInv, HubInv, TypeOK
    <3>4. <<x, task[x]>> \notin slipped
      BY <3>3, Slipped
    <3>5. Running(x)
      BY <3>3 DEF Running
    <3> QED BY <3>1, <3>3, <3>4, <3>5 DEF OwnInv, GatherSound
  <2> QED BY <2>3, <2>4
<1> QED BY <1>1, <1>2 DEF RunnerStart

LEMMA StopOwned ==
    ASSUME OwnInv, Slips, NEW c \in Callers, NEW b \in Bots, NEW op, StopBegins(c, op, b)
    PROVE  (LoopsOwned /\ GatherSound)'
<1> USE Parameters
<1>1. task' = task
  BY DEF StopBegins, CancelTask
<1>2. \A x \in Bots, t \in Tasks : Alive(x, t)' <=> Alive(x, t)
  BY DEF OwnInv, HubInv, TypeOK, Alive, Running, StopBegins, CancelTask
<1>3. /\ caller'[c].bot = b /\ caller'[c].task = task[b]
      /\ \A d \in Callers \ {c} : caller'[d] = caller[d]
  BY DEF OwnInv, HubInv, TypeOK, StopBegins
<1>4. LoopsOwned'
  BY <1>1, <1>2, Slipped DEF OwnInv, LoopsOwned
<1>5. GatherSound'
  <2> SUFFICES ASSUME NEW d \in Callers, NEW x \in Bots,
                      caller'[d].at = "gathering", caller'[d].bot = x,
                      Running(x)', <<x, task'[x]>> \notin slipped'
               PROVE  caller'[d].task = task'[x]
    BY DEF GatherSound
  <2>1. CASE d = c
    BY <1>1, <1>3, <2>1
  <2>2. CASE d # c
    <3>1. task[x] \in Tasks /\ Alive(x, task[x])' /\ Alive(x, task[x])
      BY <1>1, <1>2 DEF Running, OwnInv, HubInv, TypeOK
    <3>2. <<x, task[x]>> \notin slipped /\ Running(x)
      BY <1>1, <3>1, Slipped DEF Running
    <3> QED BY <1>1, <1>3, <2>2, <3>2 DEF OwnInv, GatherSound
  <2> QED BY <2>1, <2>2
<1> QED BY <1>4, <1>5

\* What a gather forgets when it returns had slipped in.
LEMMA GatherOwned ==
    ASSUME OwnInv, Slips, NEW c \in Callers, GatherReturns(c)
    PROVE  (LoopsOwned /\ GatherSound)'
<1> USE Parameters
<1> DEFINE b == caller[c].bot
<1>1. b \in Bots /\ caller[c].task \in Tasks /\ caller[c].at = "gathering" /\ ~Alive(b, caller[c].task)
  BY DEF OwnInv, HubInv, GatherReturns, CallersSound, Free
<1>2. /\ \A x \in Bots : task'[x] = IF x = b THEN 0 ELSE task[x]
      /\ \A x \in Bots, t \in Tasks : Alive(x, t)' <=> Alive(x, t)
      /\ caller'[c].at = "closing" /\ \A d \in Callers \ {c} : caller'[d] = caller[d]
  BY <1>1 DEF OwnInv, HubInv, TypeOK, GatherReturns, Alive
<1> HIDE DEF b
<1>3. LoopsOwned'
  <2> SUFFICES ASSUME NEW x \in Bots, NEW t \in Tasks, Alive(x, t)', task'[x] # t
               PROVE  <<x, t>> \in slipped'
    BY DEF LoopsOwned
  <2>1. Alive(x, t)
    BY <1>2
  <2>2. CASE task[x] # t
    <3>1. <<x, t>> \in slipped
      BY <2>1, <2>2 DEF OwnInv, LoopsOwned
    <3> QED BY <3>1, Slipped
  <2>3. CASE task[x] = t
    <3>1. x = b /\ Running(b)
      BY <1>2, <2>1, <2>3 DEF Running
    <3>2. <<b, t>> \in slipped
      BY <1>1, <2>1, <2>3, <3>1 DEF OwnInv, GatherSound, b
    <3> QED BY <3>1, <3>2, Slipped
  <2> QED BY <2>2, <2>3
<1>4. GatherSound'
  <2> SUFFICES ASSUME NEW d \in Callers, NEW x \in Bots,
                      caller'[d].at = "gathering", caller'[d].bot = x,
                      Running(x)', <<x, task'[x]>> \notin slipped'
               PROVE  caller'[d].task = task'[x]
    BY DEF GatherSound
  <2>1. d # c /\ caller'[d] = caller[d] /\ x # b /\ task'[x] = task[x]
    BY <1>2 DEF Running
  <2>2. task[x] \in Tasks /\ Alive(x, task[x])' /\ Alive(x, task[x])
    BY <1>2, <2>1 DEF Running, OwnInv, HubInv, TypeOK
  <2>3. <<x, task[x]>> \notin slipped /\ Running(x)
    BY <2>1, <2>2, Slipped DEF Running
  <2> QED BY <2>1, <2>3 DEF OwnInv, GatherSound
<1> QED BY <1>3, <1>4

LEMMA OwnStep ==
    ASSUME OwnInv, Move, Slips
    PROVE  (LoopsOwned /\ GatherSound)'
<1> USE Parameters
<1>1. ASSUME NEW c \in Callers, StartReturns(c)
      PROVE  (LoopsOwned /\ GatherSound)'
  <2>1. caller[c].bot \in Bots
    BY <1>1 DEF OwnInv, HubInv, StartReturns, CallersSound, Free
  <2>2. \A d \in Callers : caller'[d].at = "gathering" => caller'[d] = caller[d]
    BY <1>1 DEF StartReturns, Free, OwnInv, HubInv, TypeOK
  <2> QED BY <1>1, <2>1, <2>2, StartOwned DEF StartReturns
<1>2. CASE Resumed
  <2>1. watch.bot \in Bots
    BY <1>2 DEF OwnInv, HubInv, Resumed, WatchSound
  <2> QED BY <1>2, <2>1, StartOwned DEF Resumed
<1>3. ASSUME NEW c \in Callers, NEW b \in Bots, StopRequest(c, b) \/ DeleteRequest(c, b)
      PROVE  (LoopsOwned /\ GatherSound)'
  BY <1>3, StopOwned DEF StopRequest, DeleteRequest
<1>4. ASSUME NEW c \in Callers, StopAllRequest(c)
      PROVE  (LoopsOwned /\ GatherSound)'
  BY <1>4, StopOwned DEF StopAllRequest, OwnInv, HubInv, TypeOK
<1>5. ASSUME NEW c \in Callers, GatherReturns(c)
      PROVE  (LoopsOwned /\ GatherSound)'
  BY <1>5, GatherOwned
<1>6. ASSUME NEW c \in Callers,
             \/ \E b \in Bots : StartRequest(c, b)
             \/ StagedWakes(c) \/ StartFails(c) \/ StopReturns(c) \/ DeleteReturns(c)
             \/ StopAllReturns(c)
      PROVE  (LoopsOwned /\ GatherSound)'
  <2>1. UNCHANGED runnerVars
    BY <1>6 DEF StartRequest, StagedWakes, StartFails, StopReturns, DeleteReturns, StopAllReturns
  <2>2. \A d \in Callers : caller'[d].at = "gathering" => caller'[d] = caller[d]
    <3>1. caller \in [Callers -> Request_]
      BY DEF OwnInv, HubInv, TypeOK
    <3>2. CASE \E b \in Bots : StartRequest(c, b)
      BY <3>1, <3>2 DEF StartRequest, Slots, Free
    <3>3. CASE StagedWakes(c)
      BY <3>1, <3>3 DEF StagedWakes, Request_
    <3>4. CASE StartFails(c) \/ StopReturns(c) \/ DeleteReturns(c) \/ StopAllReturns(c)
      BY <3>1, <3>4 DEF StartFails, StopReturns, DeleteReturns, StopAllReturns, Free
    <3> QED BY <1>6, <3>2, <3>3, <3>4
  <2> QED BY <2>1, <2>2, OwnFrame DEF Alive, runnerVars
<1>7. CASE \/ WatchStarts \/ WatchStops \/ PassBegins \/ PassEnds \/ WatchWakes \/ ResumeFails
           \/ (\E b \in Bots : Admitted(b)) \/ Reading \/ PanicLock
  <2>1. UNCHANGED <<runnerVars, caller>>
    BY <1>7 DEF WatchStarts, WatchStops, PassBegins, PassEnds, WatchWakes, ResumeFails,
                Admitted, Reading, PanicLock
  <2> QED BY <2>1, OwnFrame DEF Alive, runnerVars
<1>8. ASSUME NEW b \in Bots, NEW t \in Tasks, LoopStep(b, t)
      PROVE  (LoopsOwned /\ GatherSound)'
  <2>1. Alive(b, t) /\ \E at \in Stages : LoopTo(b, t, at)
    BY <1>8 DEF LoopStep, LoopEnds, CycleAllowed, Throttled, ThrottleOver, CycleEnds,
                CancelArrives, Stages, Alive
  <2>2. UNCHANGED <<task, caller>> /\ \E at \in Stages : loops' = [loops EXCEPT ![b][t] = at]
    BY <2>1 DEF LoopTo
  <2>3. \A x \in Bots, y \in Tasks : Alive(x, y)' => Alive(x, y)
    BY <2>1, <2>2 DEF OwnInv, HubInv, TypeOK, Alive
  <2> QED BY <2>2, <2>3, OwnFrame
<1> QED BY <1>1, <1>2, <1>3, <1>4, <1>5, <1>6, <1>7, <1>8
     DEF Move, Request, Answer, WatchStep

LEMMA OwnSteps == OwnInv /\ [Next]_vars => OwnInv'
<1>1. ASSUME OwnInv, UNCHANGED vars PROVE (LoopsOwned /\ GatherSound)'
  BY <1>1 DEF OwnInv, LoopsOwned, GatherSound, Running, Alive, vars
<1>2. ASSUME OwnInv, Move, Witness PROVE (LoopsOwned /\ GatherSound)'
  BY <1>2, OwnStep DEF Witness
<1>3. ASSUME Restart PROVE (LoopsOwned /\ GatherSound)'
  BY <1>3 DEF Restart, LoopsOwned, GatherSound, Running, Alive, Free
<1> QED BY <1>1, <1>2, <1>3, StepHub DEF OwnInv, Next

\* A loop runs outside its runner's _task only if it was started while a stop()
\* of its bot was waiting in its gather, whatever starts, stops, deletes and the
\* watchdog do at the same time (_base_runner.py: start, stop).
THEOREM LoopsAlwaysOwned == Spec => []LoopsOwned
<1>1. Init => OwnInv
  BY InitHub DEF Init, OwnInv, LoopsOwned, GatherSound, Running, Alive, Free
<1>2. OwnInv => LoopsOwned
  BY DEF OwnInv
<1> QED BY <1>1, <1>2, OwnSteps, PTL DEF Spec

-----------------------------------------------------------------------------
(* What may override the operator *)

Wanted(b) == b \in recs /\ desired[b]
Stops(c, b) == caller[c].bot = b /\ caller[c].op \in {"stop", "delete"}

\* The stop of c still waits for the loop it has cancelled.
Held(c) ==
    /\ caller[c].at = "gathering" /\ caller[c].task = task[caller[c].bot]
    /\ loops[caller[c].bot][caller[c].task] = "cancelled"

\* Where a start and a stop of a bot meet, the bot is marked; so is one whose loop
\* comes up under a stop, one that is being started though it is not wanted any
\* more, and one that the watchdog remembers though it was deleted.
RaceInv ==
    /\ \A b \in Bots : Starting(b) /\ Stopping(b) => b \in raced
    /\ \A c \in Callers, b \in Bots : Stops(c, b) /\ Running(b) => b \in raced \/ Held(c)
    /\ \A b \in Bots : b \in Granted /\ ~Wanted(b) => b \in raced
    /\ \A b \in Bots : b \in watch.left /\ b \notin recs => b \in raced
    /\ RunsOnlyAsWanted

\* A mark stays until the next stop begins.
LEMMA MarkStays ==
    ASSUME Witness, NEW b \in Bots, b \in raced, Stopping(b) \/ ~Stopping(b)'
    PROVE  b \in raced'
BY DEF Witness, Races

LEMMA Marked ==
    ASSUME Witness
    PROVE  \A b \in Bots : Starting(b)' /\ Stopping(b)' => b \in raced'
BY DEF Witness, Races

\* A step that begins or ends no stop, brings no loop up and grants no start of
\* an unwanted bot.
LEMMA RaceFrame ==
    ASSUME RaceInv, Witness,
           \A b \in Bots : Stopping(b)' <=> Stopping(b),
           \A b \in Bots : Running(b)' => Running(b),
           \A b \in Bots : Wanted(b) => Wanted(b)',
           \A b \in Bots : b \in Granted' => b \in Granted \/ Wanted(b)' \/ b \in raced,
           \A b \in Bots : b \in watch'.left => b \in watch.left \/ b \in recs,
           recs' = recs,
           \A c \in Callers, b \in Bots :
             Stops(c, b)' /\ Running(b)' => Stops(c, b) /\ (Held(c) => Held(c)')
    PROVE  RaceInv'
<1>1. \A b \in raced \cap Bots : b \in raced'
  BY MarkStays
<1>2. \A b \in Bots : Starting(b)' /\ Stopping(b)' => b \in raced'
  BY Marked
<1>3. \A c \in Callers, b \in Bots : Stops(c, b)' /\ Running(b)' => b \in raced' \/ Held(c)'
  BY <1>1 DEF RaceInv
<1>4. \A b \in Bots : b \in Granted' /\ ~Wanted(b)' => b \in raced'
  BY <1>1 DEF RaceInv
<1>5. \A b \in Bots : b \in watch'.left /\ b \notin recs' => b \in raced'
  BY <1>1 DEF RaceInv
<1>6. RunsOnlyAsWanted'
  <2>1. \A b \in Bots : Running(b) /\ ~Stopping(b) /\ ~Wanted(b) => b \in raced
    BY DEF RaceInv, RunsOnlyAsWanted, Wanted
  <2>2. \A b \in Bots : Running(b)' /\ ~Stopping(b)' /\ ~Wanted(b)' => b \in raced'
    BY <1>1, <2>1
  <2> QED BY <2>2 DEF RunsOnlyAsWanted, Wanted
<1> QED BY <1>2, <1>3, <1>4, <1>5, <1>6 DEF RaceInv

\* A start that comes through.
LEMMA RaceStart ==
    ASSUME HubInv, RaceInv, Witness, NEW b \in Bots, b \in Granted, RunnerStart(b),
           UNCHANGED hubVars,
           \A x \in Bots : Stopping(x)' <=> Stopping(x),
           Granted' \subseteq Granted, watch'.left = watch.left,
           \A c \in Callers : \A x \in Bots : Stops(c, x)' => Stops(c, x) /\ caller'[c] = caller[c]
    PROVE  RaceInv'
<1>1. \A x \in raced \cap Bots : x \in raced'
  BY MarkStays
<1>2. \A x \in Bots : Starting(x)' /\ Stopping(x)' => x \in raced'
  BY Marked
<1>3. \A x \in Bots \ {b} : (Running(x)' <=> Running(x)) /\ task'[x] = task[x] /\ loops'[x] = loops[x]
  BY DEF HubInv, TypeOK, RunnerStart, Running, Alive, runnerVars
<1>4. \A x \in Bots : Wanted(x)' <=> Wanted(x)
  BY DEF Wanted, hubVars
<1>5. Starting(b)
  BY DEF Granted, Starting
<1>6. \A c \in Callers, x \in Bots : Stops(c, x)' /\ Running(x)' => x \in raced' \/ Held(c)'
  <2> SUFFICES ASSUME NEW c \in Callers, NEW x \in Bots, Stops(c, x)', Running(x)'
               PROVE  x \in raced' \/ Held(c)'
    OBVIOUS
  <2>1. CASE x = b
    BY <1>1, <1>5, <2>1 DEF RaceInv, Stopping, Stops
  <2>2. CASE x # b
    <3>1. Stops(c, x) /\ Running(x) /\ caller'[c] = caller[c] /\ caller[c].bot = x
      BY <1>3, <2>2 DEF Stops
    <3>2. x \in raced \/ Held(c)
      BY <3>1 DEF RaceInv
    <3>3. Held(c) => Held(c)'
      BY <1>3, <2>2, <3>1 DEF Held
    <3> QED BY <1>1, <3>2, <3>3
  <2> QED BY <2>1, <2>2
<1>7. \A x \in Bots : x \in Granted' /\ ~Wanted(x)' => x \in raced'
  BY <1>1, <1>4 DEF RaceInv
<1>8. \A x \in Bots : x \in watch'.left /\ x \notin recs' => x \in raced'
  BY <1>1 DEF RaceInv, hubVars
<1>9. RunsOnlyAsWanted'
  <2>1. \A x \in Bots : Running(x) /\ ~Stopping(x) /\ ~Wanted(x) => x \in raced
    BY DEF RaceInv, RunsOnlyAsWanted, Wanted
  <2>2. ~Wanted(b) => b \in raced
    BY DEF RaceInv
  <2>3. \A x \in Bots : Running(x)' /\ ~Stopping(x)' /\ ~Wanted(x)' => x \in raced'
    BY <1>1, <1>3, <1>4, <2>1, <2>2
  <2> QED BY <2>3 DEF RunsOnlyAsWanted, Wanted
<1> QED BY <1>2, <1>6, <1>7, <1>8, <1>9 DEF RaceInv

\* A stop or a delete that begins.
LEMMA RaceStop ==
    ASSUME HubInv, RaceInv, Witness, NEW c \in Callers, NEW b \in Bots, b \in recs,
           caller[c] = Free, NEW op \in {"stop", "delete"}, StopBegins(c, op, b),
           UNCHANGED <<recs, watch>>, \A x \in Bots \ {b} : desired'[x] = desired[x]
    PROVE  RaceInv'
<1> USE Parameters
<1>1. caller \in [Callers -> Request_] /\ Stopping(b)'
  BY DEF HubInv, TypeOK, StopBegins, Stopping
<1>2. \A d \in Callers \ {c} : caller'[d] = caller[d]
  BY <1>1 DEF StopBegins
<1>3. /\ caller'[c].bot = b /\ caller'[c].op = op /\ caller'[c].task = task[b]
      /\ task[b] # 0 => caller'[c].at = "gathering"
  BY <1>1 DEF StopBegins
<1>4. \A x \in Bots \ {b} : Stopping(x)' <=> Stopping(x)
  BY <1>2, <1>3 DEF Stopping, Free
<1>5. \A x \in (raced \cap Bots) \ {b} : x \in raced'
  BY <1>4, MarkStays
<1>6. \A x \in Bots : Starting(x)' /\ Stopping(x)' => x \in raced'
  BY Marked
<1>7. /\ task' = task /\ \A x \in Bots \ {b} : loops'[x] = loops[x]
      /\ \A x \in Bots : Running(x)' => Running(x)
      /\ Running(b)' => loops'[b][task[b]] = "cancelled" /\ task[b] # 0
  BY DEF HubInv, TypeOK, StopBegins, CancelTask, Running, Alive
<1>8. ASSUME NEW d \in Callers, NEW x \in Bots, Stops(d, x)', Running(x)'
      PROVE  x \in raced' \/ Held(d)'
  <2>1. CASE d = c
    BY <1>3, <1>7, <1>8, <2>1 DEF Stops, Held
  <2>2. CASE d # c /\ x # b
    <3>1. caller'[d] = caller[d] /\ Stops(d, x) /\ Running(x)
      BY <1>2, <1>7, <1>8, <2>2 DEF Stops
    <3>2. Held(d) => Held(d)'
      BY <1>7, <2>2, <3>1 DEF Held, Stops
    <3> QED BY <1>5, <2>2, <3>1, <3>2 DEF RaceInv
  <2>3. CASE d # c /\ x = b
    <3>1. caller'[d] = caller[d] /\ Stops(d, b) /\ Running(b)
      BY <1>2, <1>7, <1>8, <2>3 DEF Stops
    <3>2. Stopping(b)
      BY <3>1 DEF Stops, Stopping
    <3>3. b \in raced => b \in raced'
      BY <3>2, MarkStays
    <3>4. Held(d) => Held(d)'
      BY <1>7, <1>8, <2>3, <3>1 DEF Held, Stops
    <3> QED BY <2>3, <3>1, <3>3, <3>4 DEF RaceInv
  <2> QED BY <2>1, <2>2, <2>3
<1>9. \A x \in Bots : x \in Granted' => x \in Granted /\ Starting(x)'
  BY <1>1, <1>2, <1>3 DEF Granted, Starting
<1>10. \A x \in Bots : x \in Granted' /\ ~Wanted(x)' => x \in raced'
  <2>1. \A x \in Bots \ {b} : Wanted(x)' <=> Wanted(x)
    BY DEF Wanted
  <2> QED BY <1>1, <1>5, <1>6, <1>9, <2>1 DEF RaceInv
<1>11. \A x \in Bots : x \in watch'.left /\ x \notin recs' => x \in raced'
  BY <1>5 DEF RaceInv
<1>12. RunsOnlyAsWanted'
  <2>1. \A x \in Bots \ {b} : Wanted(x)' <=> Wanted(x)
    BY DEF Wanted
  <2>2. \A x \in Bots : Running(x) /\ ~Stopping(x) /\ ~Wanted(x) => x \in raced
    BY DEF RaceInv, RunsOnlyAsWanted, Wanted
  <2>3. \A x \in Bots : Running(x)' /\ ~Stopping(x)' /\ ~Wanted(x)' => x \in raced'
    BY <1>1, <1>4, <1>5, <1>7, <2>1, <2>2
  <2> QED BY <2>3 DEF RunsOnlyAsWanted, Wanted
<1> QED BY <1>6, <1>8, <1>10, <1>11, <1>12 DEF RaceInv

\* A stop or a delete that ends: no loop is up that it has not seen come.
LEMMA RaceReturn ==
    ASSUME HubInv, RaceInv, Witness, NEW c \in Callers, NEW b \in Bots, Stops(c, b),
           caller[c].at = "closing", caller' = [caller EXCEPT ![c] = Free],
           recs \ {b} \subseteq recs', recs' \subseteq recs, UNCHANGED <<runnerVars, watch, desired>>
    PROVE  RaceInv'
<1> USE Parameters
<1>1. /\ caller'[c] = Free /\ \A d \in Callers \ {c} : caller'[d] = caller[d]
      /\ Stopping(b)
  BY DEF HubInv, TypeOK, Stops, Stopping
<1>2. \A x \in Bots \ {b} : Stopping(x)' <=> Stopping(x)
  BY <1>1 DEF Stopping, Stops, Free
<1>3. \A x \in raced \cap Bots : x \in raced'
  BY <1>1, <1>2, MarkStays
<1>4. \A x \in Bots : Starting(x)' /\ Stopping(x)' => x \in raced'
  BY Marked
<1>5. \A x \in Bots : (Running(x)' <=> Running(x)) /\ (x \in Granted' => x \in Granted)
  BY <1>1 DEF Running, Alive, runnerVars, Granted, Free
<1>6. \A x \in Bots \ {b} : Wanted(x) => Wanted(x)'
  BY DEF Wanted
<1>7. ~Held(c)
  BY DEF Held
<1>8. ASSUME NEW d \in Callers, NEW x \in Bots, Stops(d, x)', Running(x)'
      PROVE  x \in raced' \/ Held(d)'
  <2>1. d # c /\ caller'[d] = caller[d] /\ Stops(d, x)
    BY <1>1, <1>8 DEF Stops, Free
  <2>2. Held(d) => Held(d)'
    BY <2>1 DEF Held, runnerVars
  <2> QED BY <1>3, <1>5, <1>8, <2>1, <2>2 DEF RaceInv
<1>9. \A x \in Bots : x \in Granted' /\ ~Wanted(x)' => x \in raced'
  <2>1. b \in Granted => b \in raced
    BY <1>1 DEF RaceInv, Granted, Starting
  <2> QED BY <1>3, <1>5, <1>6, <2>1 DEF RaceInv
<1>10. \A x \in Bots : x \in watch'.left /\ x \notin recs' => x \in raced'
  <2>1. b \in watch.left => b \in raced
    BY <1>1 DEF RaceInv, Starting
  <2> QED BY <1>3, <2>1 DEF RaceInv
<1>11. RunsOnlyAsWanted'
  <2>1. Running(b) => b \in raced
    BY <1>7 DEF RaceInv
  <2>2. \A x \in Bots : Running(x) /\ ~Stopping(x) /\ ~Wanted(x) => x \in raced
    BY DEF RaceInv, RunsOnlyAsWanted, Wanted
  <2>3. \A x \in Bots : Running(x)' /\ ~Stopping(x)' /\ ~Wanted(x)' => x \in raced'
    BY <1>2, <1>3, <1>5, <1>6, <2>1, <2>2
  <2> QED BY <2>3 DEF RunsOnlyAsWanted, Wanted
<1> QED BY <1>4, <1>8, <1>9, <1>10, <1>11 DEF RaceInv

LEMMA RequestRace ==
    ASSUME HubInv, RaceInv, Witness, NEW c \in Callers, Request(c)
    PROVE  RaceInv'
<1> USE Parameters
<1>1. caller \in [Callers -> Request_] /\ recs \subseteq Bots
  BY DEF HubInv, TypeOK
<1>2. CASE \E b \in Bots : StartRequest(c, b)
  <2> PICK b \in Bots : StartRequest(c, b)
    BY <1>2
  <2>1. /\ caller[c] = Free /\ caller'[c].op = "start" /\ caller'[c].bot = b
        /\ \A d \in Callers \ {c} : caller'[d] = caller[d]
        /\ b \in recs /\ desired' = [desired EXCEPT ![b] = TRUE]
        /\ UNCHANGED <<recs, task, loops, watch>>
    BY <1>1 DEF StartRequest, Slots, Free, runnerVars
  <2>2. \A d \in Callers : caller'[d].op \in {"stop", "delete"} => caller'[d] = caller[d]
    BY <2>1
  <2>3. \A x \in Bots : Stopping(x)' <=> Stopping(x)
    BY <2>1, <2>2 DEF Stopping, Free
  <2>4. /\ \A x \in Bots : Running(x)' => Running(x)
        /\ \A x \in Bots : Wanted(x) => Wanted(x)'
        /\ \A x \in Bots : x \in Granted' => x \in Granted \/ Wanted(x)' \/ x \in raced
    BY <2>1 DEF Running, Alive, Wanted, Granted, HubInv, TypeOK
  <2>5. \A d \in Callers, x \in Bots :
          Stops(d, x)' /\ Running(x)' => Stops(d, x) /\ (Held(d) => Held(d)')
    BY <2>1, <2>2 DEF Stops, Held
  <2> QED BY <2>1, <2>3, <2>4, <2>5, RaceFrame
<1>3. ASSUME NEW b \in Bots, StopRequest(c, b) \/ DeleteRequest(c, b)
      PROVE  RaceInv'
  <2>1. /\ b \in recs /\ caller[c] = Free
        /\ UNCHANGED <<recs, watch>> /\ \A x \in Bots \ {b} : desired'[x] = desired[x]
        /\ \E op \in {"stop", "delete"} : StopBegins(c, op, b)
    BY <1>3 DEF StopRequest, DeleteRequest, hubVars, HubInv, TypeOK
  <2> QED BY <2>1, RaceStop
<1>4. CASE StopAllRequest(c)
  <2> PICK b \in recs : StopBegins(c, "stop_all", b)
    BY <1>4 DEF StopAllRequest
  <2>1. /\ caller[c] = Free /\ caller'[c].op = "stop_all"
        /\ \A d \in Callers \ {c} : caller'[d] = caller[d]
        /\ UNCHANGED <<hubVars, watch, task>>
    BY <1>1, <1>4 DEF StopAllRequest, StopBegins, CancelTask
  <2>2. /\ \A x \in Bots : Running(x)' => Running(x)
        /\ \A x \in Bots, t \in Tasks : loops[x][t] = "cancelled" => loops'[x][t] = "cancelled"
    BY <1>1 DEF StopBegins, CancelTask, Running, Alive, HubInv, TypeOK
  <2>3. \A x \in Bots : Stopping(x)' <=> Stopping(x)
    BY <2>1 DEF Stopping, Free
  <2>4. /\ \A x \in Bots : Wanted(x) => Wanted(x)'
        /\ \A x \in Bots : x \in Granted' => x \in Granted
        /\ recs' = recs /\ watch'.left = watch.left
    BY <2>1 DEF Wanted, Granted, hubVars
  <2>5. \A d \in Callers, x \in Bots :
          Stops(d, x)' /\ Running(x)' => Stops(d, x) /\ (Held(d) => Held(d)')
    <3>1. \A d \in Callers, x \in Bots : Stops(d, x)' => d # c /\ Stops(d, x) /\ caller'[d] = caller[d]
      BY <2>1 DEF Stops
    <3>2. \A d \in Callers, x \in Bots : Stops(d, x) /\ Held(d) => caller[d].task \in Tasks
      BY DEF Stops, Held, HubInv, CallersSound, Free
    <3> QED BY <2>1, <2>2, <3>1, <3>2 DEF Stops, Held
  <2> QED BY <2>2, <2>3, <2>4, <2>5, RaceFrame
<1> QED BY <1>2, <1>3, <1>4 DEF Request

LEMMA AnswerRace ==
    ASSUME HubInv, RaceInv, Witness, NEW c \in Callers, Answer(c)
    PROVE  RaceInv'
<1> USE Parameters
<1>1. caller \in [Callers -> Request_] /\ recs \subseteq Bots
  BY DEF HubInv, TypeOK
<1>2. CASE StagedWakes(c) \/ StartFails(c) \/ StopAllReturns(c)
  <2>1. /\ \A d \in Callers \ {c} : caller'[d] = caller[d]
        /\ caller[c].op \notin {"stop", "delete"} /\ caller'[c].op \notin {"stop", "delete"}
        /\ caller'[c].op = "start" => caller[c].op = "start" /\ caller'[c].bot = caller[c].bot
        /\ UNCHANGED <<hubVars, runnerVars, watch>>
    <3>1. CASE StagedWakes(c)
      BY <1>1, <3>1 DEF StagedWakes, Request_, HubInv, CallersSound, Free
    <3>2. CASE StartFails(c) \/ StopAllReturns(c)
      BY <1>1, <3>2 DEF StartFails, StopAllReturns, HubInv, CallersSound, Free
    <3> QED BY <1>2, <3>1, <3>2
  <2>2. \A x \in Bots : Stopping(x)' <=> Stopping(x)
    BY <2>1 DEF Stopping
  <2>3. /\ \A x \in Bots : Running(x)' => Running(x)
        /\ \A x \in Bots : Wanted(x) => Wanted(x)'
        /\ \A x \in Bots : x \in Granted' => x \in Granted
        /\ recs' = recs /\ watch'.left = watch.left
    BY <2>1 DEF Running, Alive, Wanted, Granted, hubVars, runnerVars
  <2>4. \A d \in Callers, x \in Bots :
          Stops(d, x)' /\ Running(x)' => Stops(d, x) /\ (Held(d) => Held(d)')
    BY <2>1 DEF Stops, Held, runnerVars
  <2> QED BY <2>2, <2>3, <2>4, RaceFrame
<1>3. CASE StartReturns(c)
  <2>1. caller[c].bot \in Bots /\ caller[c].op = "start"
    BY <1>3 DEF HubInv, StartReturns, CallersSound, Free
  <2>2. caller'[c] = Free /\ \A d \in Callers \ {c} : caller'[d] = caller[d]
    BY <1>1, <1>3 DEF StartReturns
  <2>3. \A x \in Bots : Stopping(x)' <=> Stopping(x)
    BY <2>1, <2>2 DEF Stopping, Free
  <2>4. /\ caller[c].bot \in Granted /\ RunnerStart(caller[c].bot)
        /\ UNCHANGED hubVars /\ watch'.left = watch.left
    BY <1>3, <2>1 DEF StartReturns, Granted
  <2>5. Granted' \subseteq Granted
    BY <1>3, <2>2 DEF StartReturns, Granted, Free
  <2>6. \A d \in Callers : \A x \in Bots : Stops(d, x)' => Stops(d, x) /\ caller'[d] = caller[d]
    BY <2>2 DEF Stops, Free
  <2> QED BY <2>1, <2>3, <2>4, <2>5, <2>6, RaceStart
<1>4. CASE GatherReturns(c)
  <2> DEFINE b == caller[c].bot
  <2>1. b \in Bots
    BY <1>4 DEF HubInv, GatherReturns, CallersSound, Free
  <2>2. /\ \A d \in Callers \ {c} : caller'[d] = caller[d]
        /\ caller'[c].op = caller[c].op /\ caller'[c].bot = b
        /\ caller[c].at = "gathering" /\ ~Alive(b, caller[c].task)
        /\ UNCHANGED <<hubVars, loops, watch>>
        /\ task' = [task EXCEPT ![b] = 0]
    BY <1>1, <1>4 DEF GatherReturns, Request_
  <2>3. \A x \in Bots : Stopping(x)' <=> Stopping(x)
    BY <2>2 DEF Stopping
  <2>4. /\ \A x \in Bots : Running(x)' => Running(x) /\ x # b
        /\ \A x \in Bots : Wanted(x) => Wanted(x)'
        /\ \A x \in Bots : x \in Granted' => x \in Granted
        /\ recs' = recs /\ watch'.left = watch.left
    BY <2>1, <2>2 DEF Running, Alive, Wanted, Granted, hubVars, HubInv, TypeOK
  <2>5. \A d \in Callers, x \in Bots :
          Stops(d, x)' /\ Running(x)' => Stops(d, x) /\ (Held(d) => Held(d)')
    <3>1. \A d \in Callers, x \in Bots :
            Stops(d, x)' /\ Running(x)' => d # c /\ x # b /\ Stops(d, x) /\ caller'[d] = caller[d]
      BY <2>2, <2>4 DEF Stops
    <3>2. \A x \in Bots \ {b} : task'[x] = task[x] /\ loops'[x] = loops[x]
      BY <2>1, <2>2 DEF HubInv, TypeOK
    <3> QED BY <3>1, <3>2 DEF Stops, Held
  <2> QED BY <2>3, <2>4, <2>5, RaceFrame
<1>5. CASE StopReturns(c) \/ DeleteReturns(c)
  <2>1. caller[c].bot \in Bots /\ Stops(c, caller[c].bot)
    BY <1>5 DEF HubInv, StopReturns, DeleteReturns, CallersSound, Free, Stops
  <2>2. /\ caller[c].at = "closing" /\ caller' = [caller EXCEPT ![c] = Free]
        /\ recs \ {caller[c].bot} \subseteq recs' /\ recs' \subseteq recs
        /\ UNCHANGED <<runnerVars, watch, desired>>
    BY <1>5 DEF StopReturns, DeleteReturns, hubVars
  <2> QED BY <2>1, <2>2, RaceReturn
<1> QED BY <1>2, <1>3, <1>4, <1>5 DEF Answer

LEMMA WatchRace ==
    ASSUME HubInv, RaceInv, Witness, WatchStarts \/ WatchStops \/ WatchStep
    PROVE  RaceInv'
<1> USE Parameters
<1>1. CASE Resumed
  <2>1. watch.bot \in Bots /\ watch.bot \in Granted /\ RunnerStart(watch.bot)
        /\ UNCHANGED <<hubVars, caller>>
    BY <1>1 DEF Resumed, HubInv, WatchSound, Granted
  <2>2. watch'.left = watch.left /\ watch'.bot = 0
    BY <1>1 DEF Resumed, HubInv, TypeOK
  <2>3. Granted' \subseteq Granted
    BY <2>1, <2>2 DEF Granted
  <2>4. \A x \in Bots : Stopping(x)' <=> Stopping(x)
    BY <2>1 DEF Stopping
  <2>5. \A c \in Callers : \A x \in Bots : Stops(c, x)' => Stops(c, x) /\ caller'[c] = caller[c]
    BY <2>1 DEF Stops
  <2> QED BY <2>1, <2>2, <2>3, <2>4, <2>5, RaceStart
<1>2. CASE WatchStarts \/ WatchStops \/ PassBegins \/ PassEnds \/ WatchWakes \/ ResumeFails
           \/ \E b \in Bots : Admitted(b)
  <2>1. UNCHANGED <<hubVars, runnerVars, caller>>
    BY <1>2 DEF WatchStarts, WatchStops, PassBegins, PassEnds, WatchWakes, ResumeFails, Admitted
  <2>2. \A b \in Bots :
          /\ b \in watch'.left => b \in watch.left \/ b \in recs
          /\ watch'.bot = b => watch.bot = b \/ (desired[b] /\ b \in watch.left)
    <3>1. CASE WatchStarts \/ WatchStops \/ PassBegins \/ PassEnds
      BY <3>1 DEF WatchStarts, WatchStops, PassBegins, PassEnds, Off, Waiting
    <3>2. CASE WatchWakes \/ ResumeFails
      <4>1. watch \in WatchType
        BY DEF HubInv, TypeOK, WatchType
      <4>2. watch'.left = watch.left /\ watch'.bot \in {0, watch.bot}
        BY <3>2, <4>1 DEF WatchWakes, ResumeFails, WatchType
      <4> QED BY <4>2
    <3>3. CASE \E b \in Bots : Admitted(b)
      <4> PICK b \in Bots : Admitted(b)
        BY <3>3
      <4>1. /\ desired[b] /\ b \in watch.left
            /\ \E at \in {"throttled", "syncing"} :
                 watch' = [at |-> at, bot |-> b, left |-> {x \in watch.left : x > b}]
        BY DEF Admitted, Missed
      <4> QED BY <4>1
    <3> QED BY <1>2, <3>1, <3>2, <3>3
  <2>4. \A b \in Bots : b \in Granted' => b \in Granted \/ Wanted(b)' \/ b \in raced
    BY <2>1, <2>2 DEF Granted, Wanted, hubVars, RaceInv
  <2>5. /\ \A x \in Bots : Stopping(x)' <=> Stopping(x)
        /\ \A x \in Bots : Running(x)' => Running(x)
        /\ \A x \in Bots : Wanted(x) => Wanted(x)'
        /\ recs' = recs
    BY <2>1 DEF Stopping, Running, Alive, Wanted, hubVars, runnerVars
  <2>6. \A d \in Callers, x \in Bots :
          Stops(d, x)' /\ Running(x)' => Stops(d, x) /\ (Held(d) => Held(d)')
    BY <2>1 DEF Stops, Held, runnerVars
  <2> QED BY <2>2, <2>4, <2>5, <2>6, RaceFrame
<1> QED BY <1>1, <1>2 DEF WatchStep

LEMMA LoopRace ==
    ASSUME HubInv, RaceInv, Witness,
           (\E b \in Bots, t \in Tasks : LoopStep(b, t)) \/ Reading \/ PanicLock
    PROVE  RaceInv'
<1> USE Parameters
<1>1. /\ UNCHANGED <<hubVars, task, caller, watch>>
      /\ \A x \in Bots, t \in Tasks :
           loops'[x][t] # "ended" => loops[x][t] # "ended"
      /\ \A x \in Bots, t \in Tasks :
           loops[x][t] = "cancelled" => loops'[x][t] \in {"cancelled", "ended"}
  <2>1. CASE Reading \/ PanicLock
    BY <2>1 DEF Reading, PanicLock, runnerVars
  <2>2. CASE \E b \in Bots, t \in Tasks : LoopStep(b, t)
    <3> PICK b \in Bots, t \in Tasks : LoopStep(b, t)
      BY <2>2
    <3>1. PICK at \in Stages : LoopTo(b, t, at) /\ loops[b][t] # "ended"
                               /\ (loops[b][t] = "cancelled" => at = "ended")
      BY DEF LoopStep, LoopEnds, CycleAllowed, Throttled, ThrottleOver, CycleEnds,
             CancelArrives, Stages
    <3>2. loops' = [loops EXCEPT ![b][t] = at] /\ UNCHANGED <<hubVars, task, caller, watch>>
      BY <3>1 DEF LoopTo
    <3>3. \A x \in Bots, y \in Tasks :
            loops'[x][y] = IF x = b /\ y = t THEN at ELSE loops[x][y]
      BY <3>2 DEF HubInv, TypeOK
    <3> QED BY <3>1, <3>2, <3>3
  <2> QED BY <2>1, <2>2
<1>2. \A x \in Bots : task[x] \in Tasks \cup {0}
  BY DEF HubInv, TypeOK
<1>3. /\ \A x \in Bots : Stopping(x)' <=> Stopping(x)
      /\ \A x \in Bots : Running(x)' => Running(x)
      /\ \A x \in Bots : Wanted(x) => Wanted(x)'
      /\ \A x \in Bots : x \in Granted' => x \in Granted
      /\ recs' = recs /\ watch'.left = watch.left
  BY <1>1, <1>2 DEF Stopping, Running, Alive, Wanted, Granted, hubVars
<1>4. \A d \in Callers, x \in Bots :
        Stops(d, x)' /\ Running(x)' => Stops(d, x) /\ (Held(d) => Held(d)')
  <2> SUFFICES ASSUME NEW d \in Callers, NEW x \in Bots, Stops(d, x)', Running(x)'
               PROVE  Stops(d, x) /\ (Held(d) => Held(d)')
    OBVIOUS
  <2>1. Stops(d, x) /\ caller[d].bot = x /\ task' = task /\ task[x] # 0 /\ loops'[x][task[x]] # "ended"
    BY <1>1 DEF Stops, Running, Alive
  <2> QED BY <1>1, <1>2, <2>1 DEF Held
<1> QED BY <1>3, <1>4, RaceFrame

LEMMA RaceStep == HubInv /\ RaceInv /\ [Next]_vars => RaceInv'
<1> SUFFICES ASSUME HubInv, RaceInv, [Next]_vars PROVE RaceInv'
  OBVIOUS
<1>1. CASE UNCHANGED vars
  BY <1>1 DEF RaceInv, RunsOnlyAsWanted, Starting, Stopping, Running, Alive, Wanted, Stops,
              Held, Granted, vars
<1>2. CASE Restart /\ raced' = {} /\ slipped' = {}
  BY <1>2, Parameters DEF Restart, RaceInv, RunsOnlyAsWanted, Starting, Stopping, Running, Alive,
              Wanted, Stops, Held, Granted, Free, Off
<1>3. CASE Move /\ Witness
  BY <1>3, RequestRace, AnswerRace, WatchRace, LoopRace DEF Move
<1> QED BY <1>1, <1>2, <1>3 DEF Next

\* Only a start that was under way while the operator stopped or deleted the bot
\* can leave it running against the operator's last word.
THEOREM OperatorHasLastWord == Spec => []RunsOnlyAsWanted
<1>1. Init => RaceInv
  BY Parameters DEF Init, RaceInv, RunsOnlyAsWanted, Starting, Stopping, Running, Alive, Wanted,
              Stops, Held, Granted, Free, Off
<1>2. RaceInv => RunsOnlyAsWanted
  BY DEF RaceInv
<1> QED BY <1>1, <1>2, InitHub, StepHub, RaceStep, PTL DEF Spec

-----------------------------------------------------------------------------
(* Every step is one that Fleet allows *)

FleetStep == [Promised!Next]_(Promised!vars)

LEMMA FleetStutters ==
    ASSUME Asked' = Asked, Granted' = Granted, Live' = Live, Halts' = Halts, Strays' = Strays
    PROVE  FleetStep
BY DEF FleetStep, Promised!vars

LEMMA FleetMoves ==
    ASSUME NEW b \in Bots,
           \/ Promised!Ask(b) \/ Promised!Revoke(b) \/ Promised!Stop(b) \/ Promised!EndStop(b)
           \/ Promised!Grant(b) \/ Promised!Launch(b) \/ Promised!Settle(b)
           \/ Promised!Halt(b) \/ Promised!Lose(b) \/ Promised!Fade(b)
    PROVE  FleetStep
BY DEF FleetStep, Promised!Next

LEMMA FleetSettles ==
    ASSUME Asked' = Asked, Live' = Live, Halts' = Halts, Strays' = Strays,
           NEW b \in Bots, Granted' \in {Granted, Granted \ {b}}
    PROVE  FleetStep
<1>1. CASE Granted' = Granted
  BY <1>1, FleetStutters
<1>2. CASE Granted' = Granted \ {b}
  BY <1>2, FleetMoves DEF Promised!Settle
<1> QED BY <1>1, <1>2

\* Who has a loop and who has lost one depends on the runners alone, and who
\* is being stopped on the requests alone.
LEMMA SameLoops ==
    ASSUME task' = task, loops' = loops
    PROVE  Live' = Live /\ Strays' = Strays
BY DEF Live, Strays, Running, Alive

LEMMA SameHalts ==
    ASSUME caller \in [Callers -> Request_], NEW c \in Callers,
           \A d \in Callers \ {c} : caller'[d] = caller[d],
           caller[c].at # "gathering", caller'[c].at # "gathering"
    PROVE  Halts' = Halts
BY DEF Halts, Halting

\* A start that comes through launches the bot, or finds it alive.
LEMMA FleetStarts ==
    ASSUME HubInv, NEW b \in Granted, RunnerStart(b), Asked' = Asked, Halts' = Halts,
           Granted' \in {Granted, Granted \ {b}}
    PROVE  FleetStep
<1> USE Parameters
<1>0. b \in Bots
  BY DEF Granted
<1>1. CASE UNCHANGED runnerVars
  <2>1. Live' = Live /\ Strays' = Strays
    BY <1>1, SameLoops DEF runnerVars
  <2> QED BY <1>0, <2>1, FleetSettles
<1>2. CASE ~Running(b) /\ ~UNCHANGED runnerVars
  <2>1. PICK t \in Tasks : /\ task' = [task EXCEPT ![b] = t] /\ ~Alive(b, t)
                           /\ loops' = [loops EXCEPT ![b][t] = "waiting"]
    BY <1>2 DEF RunnerStart, Unawaited
  <2>2. /\ \A x \in Bots : task'[x] = IF x = b THEN t ELSE task[x]
        /\ \A x \in Bots, y \in Tasks :
             loops'[x][y] = IF x = b /\ y = t THEN "waiting" ELSE loops[x][y]
    BY <2>1, <1>0 DEF HubInv, TypeOK
  <2>3. b \notin Live
    BY <1>2 DEF Live
  <2>4. Live' = Live \cup {b}
    <3>1. \A x \in Bots : task[x] \in Tasks \cup {0}
      BY DEF HubInv, TypeOK
    <3>2. \A x \in Bots : Running(x)' <=> x = b \/ Running(x)
      BY <1>2, <2>2, <3>1 DEF Running, Alive
    <3> QED BY <1>0, <3>2 DEF Live
  <2>5. Strays' = Strays
    <3>1. \A x \in Bots, y \in Tasks :
            Alive(x, y)' /\ y # task'[x] <=> Alive(x, y) /\ y # task[x]
      BY <1>2, <2>1, <2>2 DEF Alive, Running
    <3> QED BY <3>1 DEF Strays
  <2> QED BY <1>0, <2>3, <2>4, <2>5, FleetMoves DEF Promised!Launch
<1> QED BY <1>1, <1>2 DEF RunnerStart

\* stop() cancels a loop but does not end it, and waits for it if there is one.
LEMMA StopKeepsLive ==
    ASSUME HubInv, NEW c \in Callers, caller[c] = Free, NEW op, NEW b \in Bots,
           StopBegins(c, op, b)
    PROVE  Live' = Live /\ Strays' = Strays /\ Halts' \in {Halts, Halts \cup {b}}
<1> USE Parameters
<1>1. task' = task
  BY DEF StopBegins, CancelTask
<1>2. ASSUME NEW x \in Bots, NEW t \in Tasks
      PROVE  Alive(x, t)' <=> Alive(x, t)
  BY DEF HubInv, TypeOK, StopBegins, CancelTask, Running, Alive
<1>3. \A x \in Bots : task[x] \in Tasks \cup {0}
  BY DEF HubInv, TypeOK
<1>4. Live' = Live
  BY <1>1, <1>2, <1>3 DEF Live, Running
<1>5. Strays' = Strays
  BY <1>1, <1>2 DEF Strays
<1>6. /\ caller'[c].bot = b /\ \A d \in Callers \ {c} : caller'[d] = caller[d]
      /\ caller[c].at # "gathering"
  BY DEF HubInv, TypeOK, StopBegins, Free
<1>7. Halts' \in {Halts, Halts \cup {b}}
  <2>1. CASE caller'[c].at = "gathering"
    BY <1>6, <2>1 DEF Halts, Halting
  <2>2. CASE caller'[c].at # "gathering"
    BY <1>6, <2>2 DEF Halts, Halting
  <2> QED BY <2>1, <2>2
<1> QED BY <1>4, <1>5, <1>7

LEMMA RequestFleet ==
    ASSUME HubInv, NEW c \in Callers, Request(c)
    PROVE  FleetStep
<1> USE Parameters
<1>1. caller \in [Callers -> Request_] /\ recs \subseteq Bots /\ desired \in [Bots -> BOOLEAN]
  BY DEF HubInv, TypeOK
<1>2. ASSUME NEW b \in Bots, StartRequest(c, b)
      PROVE  FleetStep
  <2>1. /\ caller[c] = Free /\ caller'[c].op = "start" /\ caller'[c].bot = b
        /\ caller'[c].at # "gathering"
        /\ \A d \in Callers \ {c} : caller'[d] = caller[d]
        /\ desired' = [desired EXCEPT ![b] = TRUE]
        /\ UNCHANGED <<task, loops, watch>>
    BY <1>1, <1>2 DEF StartRequest, Slots, Free, runnerVars
  <2>2. Asked' = Asked \cup {b}
    BY <1>1, <2>1 DEF Asked
  <2>3. Granted' = Granted \cup {b}
    BY <2>1 DEF Granted, Free
  <2>4. Live' = Live /\ Strays' = Strays
    BY <2>1, SameLoops
  <2>5. Halts' = Halts
    BY <1>1, <2>1, SameHalts DEF Free
  <2> QED BY <2>2, <2>3, <2>4, <2>5, FleetMoves DEF Promised!Ask
<1>3. ASSUME NEW b \in Bots, NEW op \in {"stop", "delete", "stop_all"},
             caller[c] = Free, StopBegins(c, op, b), UNCHANGED watch
      PROVE  Granted' = Granted
  <2>1. caller'[c].op = op /\ \A d \in Callers \ {c} : caller'[d] = caller[d]
    BY <1>1, <1>3 DEF StopBegins
  <2> QED BY <1>3, <2>1 DEF Granted, Free
<1>4. ASSUME NEW b \in Bots, StopRequest(c, b)
      PROVE  FleetStep
  <2>1. /\ Live' = Live /\ Strays' = Strays /\ Halts' \in {Halts, Halts \cup {b}}
        /\ Granted' = Granted
    BY <1>3, <1>4, StopKeepsLive DEF StopRequest
  <2>2. Asked' = Asked \ {b}
    BY <1>1, <1>4 DEF StopRequest, Asked
  <2> QED BY <2>1, <2>2, FleetMoves DEF Promised!Revoke
<1>5. ASSUME NEW b \in Bots, NEW op \in {"delete", "stop_all"},
             caller[c] = Free, StopBegins(c, op, b), UNCHANGED <<watch, desired>>
      PROVE  FleetStep
  <2>1. /\ Live' = Live /\ Strays' = Strays /\ Halts' \in {Halts, Halts \cup {b}}
        /\ Granted' = Granted /\ Asked' = Asked
    BY <1>3, <1>5, StopKeepsLive DEF Asked
  <2>2. CASE Halts' = Halts
    BY <2>1, <2>2, FleetStutters
  <2>3. CASE Halts' = Halts \cup {b}
    BY <2>1, <2>3, FleetMoves DEF Promised!Stop
  <2> QED BY <2>1, <2>2, <2>3
<1>6. ASSUME NEW b \in Bots, DeleteRequest(c, b)
      PROVE  FleetStep
  BY <1>5, <1>6 DEF DeleteRequest, hubVars
<1>7. CASE StopAllRequest(c)
  <2>1. PICK b \in Bots : StopBegins(c, "stop_all", b)
    BY <1>1, <1>7 DEF StopAllRequest
  <2> QED BY <1>5, <1>7, <2>1 DEF StopAllRequest, hubVars
<1> QED BY <1>2, <1>4, <1>6, <1>7 DEF Request

\* A gather that returns ends a stop, and loses the loop that slipped in.
LEMMA GatherFleet ==
    ASSUME HubInv, NEW c \in Callers, GatherReturns(c)
    PROVE  FleetStep
<1> USE Parameters
<1> DEFINE b == caller[c].bot
<1>1. b \in Bots /\ caller[c].at = "gathering"
  BY DEF HubInv, GatherReturns, CallersSound, Free
<1>2. /\ \A x \in Bots : task'[x] = IF x = b THEN 0 ELSE task[x]
      /\ caller'[c].at = "closing" /\ caller'[c].bot = b /\ caller'[c].op = caller[c].op
      /\ \A d \in Callers \ {c} : caller'[d] = caller[d]
      /\ UNCHANGED <<hubVars, loops, watch>>
  BY <1>1 DEF HubInv, TypeOK, GatherReturns, Request_
<1>3. Granted' = Granted /\ Asked' = Asked
  BY <1>2 DEF Granted, Asked, hubVars
<1>4. b \in Halts /\ Halts' \in {Halts, Halts \ {b}}
  <2>1. b \in Halts
    BY <1>1 DEF Halts, Halting
  <2>2. CASE \E d \in Callers \ {c} : caller[d].at = "gathering" /\ caller[d].bot = b
    BY <1>1, <1>2, <2>2 DEF Halts, Halting
  <2>3. CASE ~\E d \in Callers \ {c} : caller[d].at = "gathering" /\ caller[d].bot = b
    BY <1>1, <1>2, <2>3 DEF Halts, Halting
  <2> QED BY <2>1, <2>2, <2>3
<1>5. \A x \in Bots : task[x] \in Tasks \cup {0}
  BY DEF HubInv, TypeOK
<1> HIDE DEF b
<1>6. Live' = Live \ {b}
  BY <1>1, <1>2 DEF Live, Running, Alive
<1>7. CASE Running(b)
  <2>1. Strays' = Strays \cup {b}
    <3>1. \A x \in Bots : x # b => task'[x] = task[x]
      BY <1>2
    <3>2. task[b] \in Tasks /\ loops'[b][task[b]] # "ended" /\ task[b] # task'[b]
      BY <1>1, <1>2, <1>5, <1>7 DEF Running, Alive
    <3> QED BY <1>1, <1>2, <3>1, <3>2 DEF Strays, Alive
  <2>2. b \in Live
    BY <1>1, <1>7 DEF Live
  <2> QED BY <1>1, <1>3, <1>4, <1>6, <2>1, <2>2, FleetMoves DEF Promised!Lose
<1>8. CASE ~Running(b)
  <2>1. Live' = Live
    BY <1>6, <1>8 DEF Live
  <2>2. Strays' = Strays
    <3>1. \A x \in Bots, y \in Tasks :
            Alive(x, y)' /\ y # task'[x] <=> Alive(x, y) /\ y # task[x]
      BY <1>2, <1>8 DEF Alive, Running
    <3> QED BY <3>1 DEF Strays
  <2>3. CASE Halts' = Halts
    BY <1>3, <2>1, <2>2, <2>3, FleetStutters
  <2>4. CASE Halts' = Halts \ {b}
    BY <1>1, <1>3, <2>1, <2>2, <2>4, FleetMoves DEF Promised!EndStop
  <2> QED BY <1>4, <2>3, <2>4
<1> QED BY <1>7, <1>8

LEMMA AnswerFleet ==
    ASSUME HubInv, NEW c \in Callers, Answer(c)
    PROVE  FleetStep
<1> USE Parameters
<1>1. caller \in [Callers -> Request_]
  BY DEF HubInv, TypeOK
<1>2. CASE StagedWakes(c)
  <2>1. /\ caller'[c].op = caller[c].op /\ caller'[c].bot = caller[c].bot
        /\ caller[c].at = "staged" /\ caller'[c].at = "syncing"
        /\ \A d \in Callers \ {c} : caller'[d] = caller[d]
        /\ UNCHANGED <<hubVars, task, loops, watch>>
    BY <1>1, <1>2 DEF StagedWakes, Request_, runnerVars
  <2>2. Granted' = Granted /\ Asked' = Asked
    BY <2>1 DEF Granted, Asked, hubVars
  <2>3. Live' = Live /\ Strays' = Strays /\ Halts' = Halts
    BY <1>1, <2>1, SameLoops, SameHalts
  <2> QED BY <2>2, <2>3, FleetStutters
<1>3. CASE StartReturns(c) \/ StartFails(c)
  <2>1. caller[c].bot \in Granted
    BY <1>3 DEF HubInv, StartReturns, StartFails, CallersSound, Free, Granted
  <2>2. /\ caller'[c] = Free /\ \A d \in Callers \ {c} : caller'[d] = caller[d]
        /\ caller[c].at = "syncing" /\ UNCHANGED <<hubVars, watch>>
    BY <1>1, <1>3 DEF StartReturns, StartFails
  <2>3. Granted' \in {Granted, Granted \ {caller[c].bot}} /\ Asked' = Asked
    BY <2>2 DEF Granted, Asked, Free, hubVars
  <2>4. caller[c].bot \in Bots
    BY <2>1 DEF Granted
  <2>5. Halts' = Halts
    BY <1>1, <2>2, SameHalts DEF Free
  <2>6. CASE StartReturns(c)
    BY <2>1, <2>3, <2>5, <2>6, FleetStarts DEF StartReturns
  <2>7. CASE StartFails(c)
    <3>1. Live' = Live /\ Strays' = Strays
      BY <2>7, SameLoops DEF StartFails, runnerVars
    <3> QED BY <2>3, <2>4, <2>5, <3>1, FleetSettles
  <2> QED BY <1>3, <2>6, <2>7
<1>4. CASE StopReturns(c) \/ DeleteReturns(c) \/ StopAllReturns(c)
  <2>1. /\ caller'[c] = Free /\ \A d \in Callers \ {c} : caller'[d] = caller[d]
        /\ caller[c].op # "start" /\ caller[c].at = "closing"
        /\ UNCHANGED <<desired, task, loops, watch>>
    BY <1>1, <1>4 DEF StopReturns, DeleteReturns, StopAllReturns, hubVars, runnerVars
  <2>2. Granted' = Granted /\ Asked' = Asked
    BY <2>1 DEF Granted, Asked, Free
  <2>3. Live' = Live /\ Strays' = Strays /\ Halts' = Halts
    BY <1>1, <2>1, SameLoops, SameHalts DEF Free
  <2> QED BY <2>2, <2>3, FleetStutters
<1>5. CASE GatherReturns(c)
  BY <1>5, GatherFleet
<1> QED BY <1>2, <1>3, <1>4, <1>5 DEF Answer

LEMMA WatchFleet ==
    ASSUME HubInv, WatchStarts \/ WatchStops \/ WatchStep
    PROVE  FleetStep
<1> USE Parameters
<1>1. watch \in WatchType /\ WatchSound
  BY DEF HubInv, TypeOK, WatchType
<1>2. CASE Resumed
  <2>1. watch.bot \in Granted /\ watch'.bot = 0 /\ UNCHANGED <<hubVars, caller>>
    BY <1>1, <1>2 DEF Resumed, WatchSound, WatchType, Granted
  <2>2. Granted' \in {Granted, Granted \ {watch.bot}} /\ Asked' = Asked /\ Halts' = Halts
    BY <2>1 DEF Granted, Asked, Halts, Halting, hubVars
  <2> QED BY <1>2, <2>1, <2>2, FleetStarts DEF Resumed
<1>3. CASE WatchStarts \/ WatchStops \/ PassBegins \/ PassEnds \/ WatchWakes \/ ResumeFails
  <2>1. watch'.bot \in {0, watch.bot} /\ UNCHANGED <<hubVars, task, loops, caller>>
    <3>1. CASE WatchStarts \/ WatchStops \/ PassBegins \/ PassEnds
      BY <3>1 DEF WatchStarts, WatchStops, PassBegins, PassEnds, Off, Waiting, runnerVars
    <3>2. CASE WatchWakes \/ ResumeFails
      BY <1>1, <3>2 DEF WatchWakes, ResumeFails, WatchType, runnerVars
    <3> QED BY <1>3, <3>1, <3>2
  <2>2. Asked' = Asked /\ Live' = Live /\ Strays' = Strays /\ Halts' = Halts
    BY <2>1, SameLoops DEF Asked, Halts, Halting, hubVars
  <2>3. CASE watch.bot \in Bots
    <3>1. Granted' \in {Granted, Granted \ {watch.bot}}
      BY <2>1, <2>3 DEF Granted
    <3> QED BY <2>2, <2>3, <3>1, FleetSettles
  <2>4. CASE watch.bot = 0
    <3>1. Granted' = Granted
      BY <2>1, <2>4 DEF Granted
    <3> QED BY <2>2, <3>1, FleetStutters
  <2> QED BY <1>1, <2>3, <2>4 DEF WatchType
<1>4. ASSUME NEW b \in Bots, Admitted(b)
      PROVE  FleetStep
  <2>1. /\ watch.bot = 0 /\ watch'.bot = b /\ desired[b] /\ ~Running(b)
        /\ UNCHANGED <<hubVars, task, loops, caller>>
    BY <1>1, <1>4 DEF Admitted, Missed, WatchSound, runnerVars
  <2>2. Asked' = Asked /\ Live' = Live /\ Strays' = Strays /\ Halts' = Halts
    BY <2>1, SameLoops DEF Asked, Halts, Halting, hubVars
  <2>3. b \in Asked /\ b \notin Live
    BY <2>1 DEF Asked, Live
  <2>4. Granted' = Granted \cup {b}
    BY <2>1 DEF Granted
  <2> QED BY <2>2, <2>3, <2>4, FleetMoves DEF Promised!Grant
<1> QED BY <1>2, <1>3, <1>4 DEF WatchStep

LEMMA LoopFleet ==
    ASSUME HubInv, (\E b \in Bots, t \in Tasks : LoopStep(b, t)) \/ Reading \/ PanicLock
    PROVE  FleetStep
<1> USE Parameters
<1>1. CASE Reading \/ PanicLock
  <2>1. UNCHANGED <<hubVars, runnerVars, caller, watch>>
    BY <1>1 DEF Reading, PanicLock
  <2>2. Asked' = Asked /\ Granted' = Granted /\ Halts' = Halts
    BY <2>1 DEF Asked, Granted, Halts, Halting, hubVars
  <2>3. Live' = Live /\ Strays' = Strays
    BY <2>1, SameLoops DEF runnerVars
  <2> QED BY <2>2, <2>3, FleetStutters
<1>2. ASSUME NEW b \in Bots, NEW t \in Tasks, LoopStep(b, t)
      PROVE  FleetStep
  <2>1. PICK at \in Stages : LoopTo(b, t, at) /\ loops[b][t] # "ended"
    BY <1>2 DEF LoopStep, LoopEnds, CycleAllowed, Throttled, ThrottleOver, CycleEnds,
                CancelArrives, Stages
  <2>2. loops' = [loops EXCEPT ![b][t] = at] /\ UNCHANGED <<hubVars, task, caller, watch>>
    BY <2>1 DEF LoopTo
  <2>3. \A x \in Bots, y \in Tasks :
          Alive(x, y)' <=> IF x = b /\ y = t THEN at # "ended" ELSE Alive(x, y)
    BY <2>2 DEF HubInv, TypeOK, Alive
  <2>4. Asked' = Asked /\ Granted' = Granted /\ Halts' = Halts
    BY <2>2 DEF Asked, Granted, Halts, Halting, hubVars
  <2>5. Alive(b, t) /\ \A x \in Bots : task[x] \in Tasks \cup {0}
    BY <2>1 DEF Alive, HubInv, TypeOK
  <2>6. CASE at # "ended"
    <3>1. \A x \in Bots, y \in Tasks : Alive(x, y)' <=> Alive(x, y)
      BY <2>3, <2>5, <2>6
    <3>2. Live' = Live
      BY <2>2, <2>5, <3>1 DEF Live, Running
    <3>3. Strays' = Strays
      BY <2>2, <3>1 DEF Strays
    <3> QED BY <2>4, <3>2, <3>3, FleetStutters
  <2>7. CASE at = "ended" /\ task[b] = t
    <3>1. Live' = Live \ {b}
      BY <2>2, <2>3, <2>5, <2>7 DEF Live, Running
    <3>2. Strays' = Strays
      BY <2>2, <2>3, <2>7 DEF Strays
    <3> QED BY <2>4, <3>1, <3>2, FleetMoves DEF Promised!Halt
  <2>8. CASE at = "ended" /\ task[b] # t
    <3>1. Live' = Live
      BY <2>2, <2>3, <2>5, <2>8 DEF Live, Running
    <3>2. CASE \E y \in Tasks \ {t} : Alive(b, y) /\ y # task[b]
      <4>1. Strays' = Strays
        BY <2>2, <2>3, <3>2 DEF Strays
      <4> QED BY <2>4, <3>1, <4>1, FleetStutters
    <3>3. CASE ~\E y \in Tasks \ {t} : Alive(b, y) /\ y # task[b]
      <4>1. Strays' = Strays \ {b}
        BY <2>2, <2>3, <2>8, <3>3 DEF Strays
      <4> QED BY <2>4, <3>1, <4>1, FleetMoves DEF Promised!Fade
    <3> QED BY <3>2, <3>3
  <2> QED BY <2>6, <2>7, <2>8
<1> QED BY <1>1, <1>2

LEMMA RestartFleet ==
    ASSUME Restart
    PROVE  FleetStep
<1>1. Asked' = Asked /\ Live' = {} /\ Granted' = {} /\ Halts' = {} /\ Strays' = {}
  BY Parameters
     DEF Restart, Asked, Live, Running, Alive, Granted, Halts, Halting, Strays, Free, Off, hubVars
<1> QED BY <1>1 DEF FleetStep, Promised!Next, Promised!Crash

LEMMA StepFleet == HubInv /\ [Next]_vars => FleetStep
<1> SUFFICES ASSUME HubInv, [Next]_vars PROVE FleetStep
  OBVIOUS
<1>1. CASE UNCHANGED vars
  <2>1. Asked' = Asked /\ Live' = Live /\ Granted' = Granted /\ Halts' = Halts /\ Strays' = Strays
    BY <1>1, SameLoops DEF Asked, Granted, Halts, Halting, vars
  <2> QED BY <2>1, FleetStutters
<1>2. CASE Restart
  BY <1>2, RestartFleet
<1>3. CASE Move
  BY <1>3, RequestFleet, AnswerFleet, WatchFleet, LoopFleet DEF Move
<1> QED BY <1>1, <1>2, <1>3 DEF Next

\* The hub implements Fleet: a runner gets a loop only if it has none and only by
\* a start that was granted while the operator wanted the bot, and it loses one
\* that is alive only to a stop() of its bot.
THEOREM HubKeepsPromise == Spec => KeepsPromise
<1>1. Init => Promised!Init
  BY Parameters
     DEF Init, Promised!Init, Asked, Live, Running, Alive, Granted, Halts, Halting, Strays, Free, Off
<1>2. HubInv /\ [Next]_vars => [Promised!Next]_(Promised!vars)
  BY StepFleet DEF FleetStep
<1> QED BY <1>1, <1>2, InitHub, StepHub, PTL DEF Spec, KeepsPromise, Promised!Spec
=============================================================================
