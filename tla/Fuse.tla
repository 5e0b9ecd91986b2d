------------------------------- MODULE Fuse -------------------------------
(***************************************************************************)
(* The two circuit breakers in front of the exchange: ApiFuse              *)
(* (runtime/core/api_fuse.py) for the request weight and OrderFuse         *)
(* (runtime/core/order_fuse.py) for the order rate.  They are one state    *)
(* machine with two sets of parameters; an order-rate error trips both.    *)
(*                                                                         *)
(* Responses arrive from many tasks at once, so a reading or an error may  *)
(* come at any time, also for a call that left before the fuse tripped.    *)
(* Times are ages that stop counting once no comparison tells them apart.  *)
(***************************************************************************)
EXTENDS Integers

CONSTANTS
    Fuses,      \* the fuses, "api" and "order" among them
    Base,       \* base_cooldown_sec
    MaxCool,    \* max_cooldown_sec
    Grace,      \* _GRACE_WINDOW_SEC
    Factor,     \* 2 ** (streak - 1)
    MaxStreak   \* a streak at which Base * Factor reaches MaxCool

ASSUME FuseAssumption ==
    /\ {"api", "order"} \subseteq Fuses
    /\ Base \in [Fuses -> Nat \ {0}]
    /\ MaxCool \in [Fuses -> Nat \ {0}]
    /\ Grace \in [Fuses -> Nat \ {0}]
    /\ MaxStreak \in Nat \ {0}
    /\ Factor \in [1 .. MaxStreak -> Nat \ {0}] /\ Factor[1] = 1
    /\ \A s \in 1 .. MaxStreak - 1 : Factor[s + 1] = 2 * Factor[s]
    /\ \A f \in Fuses : Base[f] <= MaxCool[f] /\ MaxCool[f] <= Base[f] * Factor[MaxStreak]

VARIABLES
    fuse,    \* the fields of each fuse, with ages for its two timestamps
    owed,    \* history: how much of the last trip's cooldown is still to pass
    calm,    \* history: time since that cooldown ended, up to Grace
    climb    \* history: the cooldown the table of api_fuse.py calls for at that trip

vars == <<fuse, owed, calm, climb>>

Lesser(a, b) == IF a <= b THEN a ELSE b

\* base_cooldown_sec * 2 ** (streak - 1), capped.
EscalatedUncapped(f, s) == Base[f] * Factor[s]                     \* mutant
Escalated(f, s) == Lesser(Base[f] * Factor[s], MaxCool[f])

-----------------------------------------------------------------------------
(* The operations of one fuse, as what they leave in its fields *)

\* "Still hot" or the first trip of a streak: the streak grows.
NextStreak(f) ==
    IF fuse[f].sinceReset < Grace[f] \/ fuse[f].streak = 0
    THEN Lesser(fuse[f].streak + 1, MaxStreak)
    ELSE 1

\* _trip, which leaves a tripped fuse and its timer alone.
TrippedAnew(f, force) ==
    [fuse[f] EXCEPT
        !.tripped = TRUE, !.age = 0, !.streak = NextStreak(f),
        !.cooldown = IF force THEN MaxCool[f] ELSE Escalated(f, NextStreak(f))]
TripRestarting(f, force) == TrippedAnew(f, force)                   \* mutant
Trip(f, force) == IF fuse[f].tripped THEN fuse[f] ELSE TrippedAnew(f, force)

\* is_tripped: the fuse resets itself when it is asked after the cooldown.
ExpiredAtBase(f) == fuse[f].tripped /\ fuse[f].age >= Base[f]       \* mutant
Expired(f) == fuse[f].tripped /\ fuse[f].age >= fuse[f].cooldown
AskedKeepingClock(f) ==                                             \* mutant
    IF Expired(f) THEN [fuse[f] EXCEPT !.tripped = FALSE] ELSE fuse[f]
Asked(f) ==
    IF Expired(f) THEN [fuse[f] EXCEPT !.tripped = FALSE, !.sinceReset = 0]
    ELSE fuse[f]

Cleared(f) ==
    [fuse[f] EXCEPT !.tripped = FALSE, !.streak = 0, !.cooldown = Base[f],
                    !.sinceReset = 0]

Aged(f) ==
    [fuse[f] EXCEPT !.age = Lesser(@ + 1, MaxCool[f]),
                    !.sinceReset = Lesser(@ + 1, Grace[f])]

-----------------------------------------------------------------------------
\* The docstring's table, read off the history and not off the code's streak:
\* a trip within the grace window after the last cooldown is the next of its
\* run and calls for twice as much as that one did, any other starts a run.
Climbed(f) == IF calm[f] < Grace[f] THEN Lesser(2 * climb[f], MaxCool[f]) ELSE Base[f]

\* What the history remembers of the trips of a step.
NoteTrips(S) ==
    LET new == {f \in S : ~fuse[f].tripped} IN
    /\ owed'  = [f \in Fuses |-> IF f \in new THEN fuse'[f].cooldown ELSE owed[f]]
    /\ calm'  = [f \in Fuses |-> IF f \in new THEN 0 ELSE calm[f]]
    /\ climb' = [f \in Fuses |-> IF f \in new THEN Climbed(f) ELSE climb[f]]

TripAll(S, force) ==
    /\ fuse' = [f \in Fuses |-> IF f \in S THEN Trip(f, force) ELSE fuse[f]]
    /\ NoteTrips(S)

\* check_weight / check_order_count at or above the threshold.
HighReading(f) == TripAll({f}, FALSE)

\* is_tripped, by a caller or from a reading that is low or missing.
Query(f) ==
    /\ fuse' = [fuse EXCEPT ![f] = Asked(f)]
    /\ UNCHANGED <<owed, calm, climb>>

\* on_error_code with a fatal code; -1015 is fed to the order fuse as well.
\* 429 and 418 do what -1003 does.
FatalCodes == {"-1003", "-1015"}
FusesOf(code) == IF code = "-1015" THEN {"api", "order"} ELSE {"api"}
FatalError(code) == TripAll(FusesOf(code), TRUE)

ManualReset(f) ==
    /\ fuse' = [fuse EXCEPT ![f] = Cleared(f)]
    /\ owed' = [owed EXCEPT ![f] = 0]
    /\ calm' = [calm EXCEPT ![f] = Grace[f]]
    /\ UNCHANGED climb

Tick ==
    /\ fuse' = [f \in Fuses |-> Aged(f)]
    /\ owed' = [f \in Fuses |-> IF owed[f] > 0 THEN owed[f] - 1 ELSE 0]
    /\ calm' = [f \in Fuses |-> IF owed[f] > 0 THEN 0 ELSE Lesser(calm[f] + 1, Grace[f])]
    /\ UNCHANGED climb

-----------------------------------------------------------------------------
Init ==
    /\ fuse = [f \in Fuses |-> [tripped |-> FALSE, age |-> 0, streak |-> 0,
                                sinceReset |-> Grace[f], cooldown |-> Base[f]]]
    /\ owed = [f \in Fuses |-> 0]
    /\ calm = [f \in Fuses |-> Grace[f]]
    /\ climb = [f \in Fuses |-> Base[f]]

Next ==
    \/ Tick
    \/ \E f \in Fuses : HighReading(f) \/ Query(f) \/ ManualReset(f)
    \/ \E code \in FatalCodes : FatalError(code)

\* Time passes and the runners keep asking before their calls.
Fairness == WF_vars(Tick) /\ \A f \in Fuses : WF_vars(Query(f))
Spec == Init /\ [][Next]_vars /\ Fairness

-----------------------------------------------------------------------------
\* Every variable has its type; a cooldown is never below the base nor above
\* the ceiling, whatever the streak.
TypeOK ==
    /\ fuse \in [Fuses -> [tripped : BOOLEAN, age : Nat, sinceReset : Nat,
                           cooldown : Nat, streak : 0 .. MaxStreak]]
    /\ \A f \in Fuses :
         /\ fuse[f].cooldown \in Base[f] .. MaxCool[f]
         /\ fuse[f].age \in 0 .. MaxCool[f]
         /\ fuse[f].sinceReset \in 0 .. Grace[f]
    /\ owed \in [Fuses -> Nat] /\ calm \in [Fuses -> Nat] /\ climb \in [Fuses -> Nat]

\* While any of a trip's cooldown is left the fuse blocks: no reading, query or
\* error that arrives meanwhile opens it (is_tripped, _trip).
BlockedWhileOwed == \A f \in Fuses : owed[f] > 0 => fuse[f].tripped

\* A fuse that trips again within the grace window after its last cooldown
\* ended blocks for twice what the table called for the last time, up to the
\* ceiling: the n-th trip of such a run blocks for Base * 2^(n-1) or more,
\* whatever mix of readings and fatal codes made the run and however late the
\* fuse was asked to reset (_trip's streak against is_tripped's lazy reset).
\* It compares with the table and not with the cooldown before: after a fatal
\* code that one is the ceiling and the next trip's may be shorter.
HotTripsClimb == \A f \in Fuses : fuse[f].tripped => fuse[f].cooldown >= climb[f]

\* A tripped fuse opens again, although high readings keep arriving while it
\* is tripped: _trip does not reset the timer.
FuseReopens == \A f \in Fuses : fuse[f].tripped ~> ~fuse[f].tripped

=============================================================================
