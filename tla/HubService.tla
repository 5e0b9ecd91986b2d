----------------------------- MODULE HubService -----------------------------
(***************************************************************************)
(* The hub family of bots: api/base_hub_service.py keeps the records and   *)
(* the desired state and watches over it, bot/_base_runner.py owns the     *)
(* task of a bot's loop, core/bot_coordinator.py and                       *)
(* core/weight_governor.py say when a bot may start and when a cycle may   *)
(* run.                                                                    *)
(*                                                                         *)
(* Everything runs on one event loop: an action is what a coroutine does   *)
(* from one await that waits to the next.  The requests of the operator    *)
(* are concurrent coroutines (Callers); the watchdog is another one, and   *)
(* so is the loop of every runner.                                         *)
(***************************************************************************)
EXTENDS Integers

CONSTANTS
    MaxBots,    \* bots of the hub, numbered in the order of its dictionary
    Callers,    \* requests that may be under way at once
    Switchers,  \* bound: those of them that start or stop a bot
    Enders,     \* bound: those of them that delete a bot or stop all
    MaxTasks    \* bound: tasks of one bot that are alive or still awaited

ASSUME HubAssumption ==
    /\ MaxBots \in Nat
    /\ MaxTasks \in Nat
    /\ Switchers \subseteq Callers /\ Enders \subseteq Callers

Bots == 1 .. MaxBots
Tasks == 1 .. MaxTasks

VARIABLES
    recs, desired,  \* _bots and their desired_running; both are saved at once
    task,           \* _task of each runner, 0 for None
    loops,          \* where each task of a bot's _loop stands
    stopFlag,       \* _stop of each runner
    caller,         \* the operator's requests
    watch,          \* _immortal_loop: where it stands, its bot, the bots left
    staged,         \* _staged of the coordinator
    tracked,        \* its _active, and the governor's _bots
    zone,           \* of the last weight reading
    panic,          \* whether PANIC.lock exists
    raced,          \* history: bots whose last stop met a start under way
    slipped         \* history: loops alive that were started during a gather

hubVars == <<recs, desired>>
runnerVars == <<task, loops, stopFlag>>
coordVars == <<staged, tracked>>
envVars == <<zone, panic>>
vars == <<recs, desired, task, loops, stopFlag, caller, watch, staged, tracked,
          zone, panic, raced, slipped>>

Zones == {"GREEN", "YELLOW", "RED"}
Free == [op |-> "none", bot |-> 0, at |-> "free", task |-> 0]
Off == [at |-> "off", bot |-> 0, left |-> {}]
Waiting == [at |-> "interval", bot |-> 0, left |-> {}]

\* The watchdog does not stand between two of its awaits.
Yielded == watch.at # "scan"

Alive(b, t) == loops[b][t] # "ended"
RunningOnceStarted(b) == task[b] # 0                                \* mutant
Running(b) == task[b] # 0 /\ Alive(b, task[b])

-----------------------------------------------------------------------------
(* BaseStrategyRunner: start and stop *)

TaskCounter(b) == {task[b] + 1}                                     \* mutant
Unawaited(b) == {t \in Tasks :
    ~Alive(b, t) /\ \A c \in Callers : caller[c].bot = b => caller[c].task # t}

\* start(): nothing if the task runs, else the flag is cleared and a task made.
RunnerStart(b) ==
    IF Running(b) THEN UNCHANGED runnerVars
    ELSE /\ \E t \in Unawaited(b) :
              /\ task' = [task EXCEPT ![b] = t]
              /\ loops' = [loops EXCEPT ![b][t] = "waiting"]
         /\ stopFlag' = [stopFlag EXCEPT ![b] = FALSE]

\* stop() up to its first await: the gather if there is a task, else the client.
ForgetTask(b) ==                                                    \* mutant
    /\ task' = [task EXCEPT ![b] = 0]
    /\ UNCHANGED loops
CancelTask(b) ==
    /\ loops' = IF Running(b) THEN [loops EXCEPT ![b][task[b]] = "cancelled"] ELSE loops
    /\ UNCHANGED task

StopBegins(c, op, b) ==
    /\ stopFlag' = [stopFlag EXCEPT ![b] = TRUE]
    /\ CancelTask(b)
    /\ caller' = [caller EXCEPT ![c] =
         [op |-> op, bot |-> b, at |-> IF task[b] = 0 THEN "closing" ELSE "gathering",
          task |-> task[b]]]

\* gather() resumes stop() two iterations of the event loop after the task has
\* ended: a start may have come between, and its task is forgotten here.
GatherReturns(c) ==
    /\ Yielded /\ caller[c].at = "gathering" /\ ~Alive(caller[c].bot, caller[c].task)
    /\ task' = [task EXCEPT ![caller[c].bot] = 0]
    /\ caller' = [caller EXCEPT ![c].at = "closing", ![c].task = 0]
    /\ UNCHANGED <<hubVars, loops, stopFlag, watch, coordVars, envVars>>

-----------------------------------------------------------------------------
(* Requests of the operator *)

\* The delay the coordinator computes: none or some seconds.
Slots ==
    IF tracked = {} THEN (IF zone = "GREEN" THEN {"syncing"} ELSE {"staged"})
    ELSE {"staged", "syncing"}

StartRequest(c, b) ==
    /\ Yielded /\ c \in Switchers /\ caller[c] = Free /\ b \in recs
    /\ desired' = [desired EXCEPT ![b] = TRUE]
    /\ staged' = staged \cup {b}
    /\ \E at \in Slots :
         caller' = [caller EXCEPT ![c] = [Free EXCEPT !.op = "start", !.bot = b, !.at = at]]
    /\ UNCHANGED <<recs, runnerVars, watch, tracked, envVars>>

StagedWakes(c) ==
    /\ Yielded /\ caller[c].at = "staged"
    /\ caller' = [caller EXCEPT ![c].at = "syncing"]
    /\ UNCHANGED <<hubVars, runnerVars, watch, coordVars, envVars>>

\* sync_time() returned: the rest of _start_runner.
StartReturns(c) ==
    /\ Yielded /\ caller[c].at = "syncing"
    /\ RunnerStart(caller[c].bot)
    /\ tracked' = tracked \cup {caller[c].bot}
    /\ caller' = [caller EXCEPT ![c] = Free]
    /\ UNCHANGED <<hubVars, watch, staged, envVars>>

StartFails(c) ==
    /\ Yielded /\ caller[c].at = "syncing"
    /\ tracked' = tracked \ {caller[c].bot}
    /\ staged' = staged \ {caller[c].bot}
    /\ caller' = [caller EXCEPT ![c] = Free]
    /\ UNCHANGED <<hubVars, runnerVars, watch, envVars>>

StopRequest(c, b) ==
    /\ Yielded /\ c \in Switchers /\ caller[c] = Free /\ b \in recs
    /\ desired' = [desired EXCEPT ![b] = FALSE]
    /\ StopBegins(c, "stop", b)
    /\ UNCHANGED <<recs, watch, coordVars, envVars>>

DeleteRequest(c, b) ==
    /\ Yielded /\ c \in Enders /\ caller[c] = Free /\ b \in recs
    /\ StopBegins(c, "delete", b)
    /\ UNCHANGED <<hubVars, watch, coordVars, envVars>>

\* stop_all stops one record after the other: each is a request of its own here.
StopAllRequest(c) ==
    /\ Yielded /\ c \in Enders /\ caller[c] = Free
    /\ \E b \in recs : StopBegins(c, "stop_all", b)
    /\ UNCHANGED <<hubVars, watch, coordVars, envVars>>

\* The client is closed and stop() returns into its caller.
StopReturns(c) ==
    /\ Yielded /\ caller[c].at = "closing" /\ caller[c].op = "stop"
    /\ tracked' = tracked \ {caller[c].bot}
    /\ staged' = staged \ {caller[c].bot}
    /\ caller' = [caller EXCEPT ![c] = Free]
    /\ UNCHANGED <<hubVars, runnerVars, watch, envVars>>

\* The second of two deletes finds no record and raises: the same end.
DeleteReturns(c) ==
    /\ Yielded /\ caller[c].at = "closing" /\ caller[c].op = "delete"
    /\ recs' = recs \ {caller[c].bot}
    /\ caller' = [caller EXCEPT ![c] = Free]
    /\ UNCHANGED <<desired, runnerVars, watch, coordVars, envVars>>

StopAllReturns(c) ==
    /\ Yielded /\ caller[c].at = "closing" /\ caller[c].op = "stop_all"
    /\ caller' = [caller EXCEPT ![c] = Free]
    /\ UNCHANGED <<hubVars, runnerVars, watch, coordVars, envVars>>

-----------------------------------------------------------------------------
(* The watchdog: _immortal_loop *)

WatchStarts ==
    /\ watch = Off
    /\ watch' = Waiting
    /\ UNCHANGED <<hubVars, runnerVars, caller, coordVars, envVars>>

\* stop_immortality cancels it wherever it waits.
WatchStops ==
    /\ Yielded /\ watch # Off
    /\ watch' = Off
    /\ UNCHANGED <<hubVars, runnerVars, caller, coordVars, envVars>>

PassBegins ==
    /\ watch.at = "interval"
    /\ watch' = [at |-> "scan", bot |-> 0, left |-> recs]
    /\ UNCHANGED <<hubVars, runnerVars, caller, coordVars, envVars>>

MissedStopped(b) == ~Running(b)                                     \* mutant
Missed(b) == desired[b] /\ ~Running(b)

\* The governor refuses in the RED zone; in the YELLOW zone the watchdog sleeps.
Admitted(b) ==
    /\ watch.at = "scan" /\ b \in watch.left /\ Missed(b) /\ zone # "RED"
    /\ watch' = [at |-> IF zone = "YELLOW" THEN "throttled" ELSE "syncing",
                 bot |-> b, left |-> {x \in watch.left : x > b}]
    /\ UNCHANGED <<hubVars, runnerVars, caller, coordVars, envVars>>

\* The bots not admitted: not missed, or the zone is RED, or no credentials.
PassEnds ==
    /\ watch.at = "scan"
    /\ watch' = Waiting
    /\ UNCHANGED <<hubVars, runnerVars, caller, coordVars, envVars>>

WatchWakes ==
    /\ watch.at = "throttled"
    /\ watch' = [watch EXCEPT !.at = "syncing"]
    /\ UNCHANGED <<hubVars, runnerVars, caller, coordVars, envVars>>

Resumed ==
    /\ watch.at = "syncing"
    /\ RunnerStart(watch.bot)
    /\ tracked' = tracked \cup {watch.bot}
    /\ watch' = [watch EXCEPT !.at = "scan", !.bot = 0]
    /\ UNCHANGED <<hubVars, caller, staged, envVars>>

ResumeFails ==
    /\ watch.at = "syncing"
    /\ watch' = [watch EXCEPT !.at = "scan", !.bot = 0]
    /\ UNCHANGED <<hubVars, runnerVars, caller, coordVars, envVars>>

-----------------------------------------------------------------------------
(* BaseStrategyRunner._loop *)

LoopTo(b, t, at) ==
    /\ loops' = [loops EXCEPT ![b][t] = at]
    /\ UNCHANGED <<hubVars, task, stopFlag, caller, watch, coordVars, envVars>>

\* The top of the loop: a sleep is over, or the task has just been created.
LoopEnds(b, t) ==
    /\ Yielded /\ \/ loops[b][t] = "waiting" /\ (stopFlag[b] \/ panic)
                  \/ loops[b][t] = "throttled" /\ stopFlag[b]
    /\ LoopTo(b, t, "ended")

CycleAllowed(b, t) ==
    /\ Yielded /\ loops[b][t] = "waiting" /\ ~stopFlag[b] /\ ~panic /\ zone = "GREEN"
    /\ LoopTo(b, t, "cycle")

Throttled(b, t) ==
    /\ Yielded /\ loops[b][t] = "waiting" /\ ~stopFlag[b] /\ ~panic /\ zone = "YELLOW"
    /\ LoopTo(b, t, "throttled")

ThrottleOver(b, t) ==
    /\ Yielded /\ loops[b][t] = "throttled" /\ ~stopFlag[b]
    /\ LoopTo(b, t, "cycle")

\* run_once returned or raised; after an error the client is made anew.
CycleEnds(b, t) ==
    /\ Yielded /\ loops[b][t] = "cycle"
    /\ LoopTo(b, t, "waiting")

CancelArrives(b, t) ==
    /\ Yielded /\ loops[b][t] = "cancelled"
    /\ LoopTo(b, t, "ended")

-----------------------------------------------------------------------------
(* Surroundings *)

\* Only the operator's protocols and the injection endpoint feed a reading.
Reading ==
    /\ Yielded /\ \E z \in Zones \ {zone} : zone' = z
    /\ UNCHANGED <<hubVars, runnerVars, caller, watch, coordVars, panic>>

PanicLock ==
    /\ Yielded /\ panic' = ~panic
    /\ UNCHANGED <<hubVars, runnerVars, caller, watch, coordVars, zone>>

\* The records and their desired state are all that survives.
Restart ==
    /\ task' = [b \in Bots |-> 0]
    /\ loops' = [b \in Bots |-> [t \in Tasks |-> "ended"]]
    /\ stopFlag' = [b \in Bots |-> FALSE]
    /\ caller' = [c \in Callers |-> Free]
    /\ watch' = Off
    /\ staged' = {} /\ tracked' = {}
    /\ zone' = "GREEN"
    /\ UNCHANGED <<hubVars, panic>>

-----------------------------------------------------------------------------
Init ==
    /\ recs = Bots /\ desired = [b \in Bots |-> FALSE]
    /\ task = [b \in Bots |-> 0]
    /\ loops = [b \in Bots |-> [t \in Tasks |-> "ended"]]
    /\ stopFlag = [b \in Bots |-> FALSE]
    /\ caller = [c \in Callers |-> Free]
    /\ watch = Off
    /\ staged = {} /\ tracked = {}
    /\ zone = "GREEN" /\ panic = FALSE
    /\ raced = {} /\ slipped = {}

Request(c) ==
    \/ \E b \in Bots : StartRequest(c, b) \/ StopRequest(c, b) \/ DeleteRequest(c, b)
    \/ StopAllRequest(c)

Answer(c) ==
    \/ StagedWakes(c) \/ StartReturns(c) \/ StartFails(c) \/ GatherReturns(c)
    \/ StopReturns(c) \/ DeleteReturns(c) \/ StopAllReturns(c)

WatchStep ==
    \/ PassBegins \/ PassEnds \/ WatchWakes \/ Resumed \/ ResumeFails
    \/ \E b \in Bots : Admitted(b)

LoopStep(b, t) ==
    \/ LoopEnds(b, t) \/ CycleAllowed(b, t) \/ Throttled(b, t)
    \/ ThrottleOver(b, t) \/ CycleEnds(b, t) \/ CancelArrives(b, t)

Move ==
    \/ \E c \in Callers : Request(c) \/ Answer(c)
    \/ WatchStarts \/ WatchStops \/ WatchStep
    \/ \E b \in Bots, t \in Tasks : LoopStep(b, t)
    \/ Reading \/ PanicLock

\* A start of b is under way, or the watchdog's pass holds its record and may
\* come to it; a stop or a delete of b is under way.
Starting(b) ==
    \/ watch.bot = b \/ b \in watch.left
    \/ \E c \in Callers : caller[c].bot = b /\ caller[c].op = "start"
Stopping(b) == \E c \in Callers : caller[c].bot = b /\ caller[c].op \in {"stop", "delete"}

\* A stop(), of whatever request, waits for a task of b.
Halting(b) == \E c \in Callers : caller[c].at = "gathering" /\ caller[c].bot = b

\* A stop begins with a clean slate and is marked when it meets a start.
Races == raced' = {b \in Bots :
    \/ b \in raced /\ (Stopping(b) \/ ~Stopping(b)')
    \/ Starting(b)' /\ Stopping(b)'}

\* A loop is marked for its life when it is started during such a wait.
Slips == slipped' = {bt \in Bots \X Tasks :
    /\ Alive(bt[1], bt[2])'
    /\ bt \in slipped \/ (~Alive(bt[1], bt[2]) /\ Halting(bt[1]))}

Witness == Races /\ Slips

Next == (Move /\ Witness) \/ (Restart /\ raced' = {} /\ slipped' = {})

(***************************************************************************)
(* The event loop runs what is ready, and requests time out.  The          *)
(* credentials, the time sync and the API fuse are assumed to be good      *)
(* again and again.                                                        *)
(***************************************************************************)
Fairness ==
    /\ WF_watch(WatchStep)
    /\ \A c \in Callers : SF_caller(Answer(c))
    /\ SF_watch(Resumed)
    /\ \A b \in Bots : SF_watch(Admitted(b))
    /\ \A b \in Bots, t \in Tasks : SF_loops(LoopStep(b, t))

Spec == Init /\ [][Next]_vars /\ Fairness

-----------------------------------------------------------------------------
(* What it implements *)

Granted == {b \in Bots :
    watch.bot = b \/ \E c \in Callers : caller[c].op = "start" /\ caller[c].bot = b}

Asked == {b \in Bots : desired[b]}
Live == {b \in Bots : Running(b)}
Halts == {b \in Bots : Halting(b)}
Strays == {b \in Bots : \E t \in Tasks : Alive(b, t) /\ t # task[b]}

Promised == INSTANCE Fleet
    WITH wanted <- Asked, granted <- Granted, live <- Live, halting <- Halts, stray <- Strays

-----------------------------------------------------------------------------
(* Properties *)

Stages == {"ended", "waiting", "throttled", "cycle", "cancelled"}
Request_ == [op : {"none", "start", "stop", "delete", "stop_all"}, bot : Bots \cup {0},
             at : {"free", "staged", "syncing", "gathering", "closing"},
             task : Tasks \cup {0}]

\* The types of the fields of BaseHubService, BaseStrategyRunner and BotCoordinator.
TypeOK ==
    /\ recs \subseteq Bots /\ desired \in [Bots -> BOOLEAN]
    /\ task \in [Bots -> Tasks \cup {0}] /\ loops \in [Bots -> [Tasks -> Stages]]
    /\ stopFlag \in [Bots -> BOOLEAN]
    /\ caller \in [Callers -> Request_]
    /\ watch \in [at : {"off", "interval", "scan", "throttled", "syncing"},
                  bot : Bots \cup {0}, left : SUBSET Bots]
    /\ staged \subseteq Bots /\ tracked \subseteq Bots
    /\ zone \in Zones /\ panic \in BOOLEAN
    /\ raced \subseteq Bots /\ slipped \subseteq Bots \X Tasks

\* A loop runs outside its runner's _task, where no stop() could cancel it and
\* nothing keeps the bot from getting another, only if it was started while a
\* stop() of that bot was waiting in its gather: no other interleaving of starts,
\* stops, deletes and the watchdog lets one slip (_base_runner.py: start, stop).
LoopsOwned ==
    \A b \in Bots, t \in Tasks : Alive(b, t) => task[b] = t \/ <<b, t>> \in slipped

\* A runner's loop that is left once no stop and no delete of its bot is under
\* way, though the bot is not wanted, was being started when the last of them was
\* made or while it lasted: only such a start can override the operator
\* (base_hub_service.py: start_instance, _immortal_loop).
RunsOnlyAsWanted ==
    \A b \in Bots : Running(b) /\ ~Stopping(b) /\ ~(b \in recs /\ desired[b]) => b \in raced

\* The hub keeps the promise of Fleet: a runner gets a loop only if it has none,
\* and only by a start that was under way since the operator asked for it or since
\* the watchdog saw it wanted and without a loop; a runner loses a loop that is
\* alive only to a stop() of its bot, and a loop that is lost only ends.
KeepsPromise == Promised!Spec

\* A bot the operator wants is brought back and goes through its cycles for ever,
\* whatever ended its loop before, while the watchdog is on and the zone not RED.
DesiredTrades == \A b \in Bots :
    <>[](/\ b \in recs /\ desired[b] /\ ~panic /\ watch # Off /\ zone # "RED"
         /\ \A c \in Callers : caller[c].op \in {"none", "start"})
      => []<>(\E t \in Tasks : loops[b][t] = "cycle")
=============================================================================
