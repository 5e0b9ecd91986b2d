------------------------------- MODULE Fleet -------------------------------
(***************************************************************************)
(* What a hub of bots promises its operator (api/base_hub_service.py,      *)
(* bot/_base_runner.py): a bot has one loop that its runner knows or none, *)
(* and a loop comes to life only to carry out a start that was granted     *)
(* while the operator wanted the bot.  A loop may get out of its runner's  *)
(* reach, but only while a stop of the bot waits for another one to end,   *)
(* and then it can only end.  HubService implements this module.           *)
(***************************************************************************)
CONSTANT Bots

VARIABLES
    wanted,    \* the bots the operator wants to run: all that is on disk
    granted,   \* the bots a start of which is under way
    live,      \* the bots whose runner has a loop that is alive
    halting,   \* the bots a stop of which waits for a loop to end
    stray      \* the bots with a loop alive that their runner has lost

vars == <<wanted, granted, live, halting, stray>>

\* The operator asks for a bot: a start of it is under way at once.
Ask(b) ==
    /\ wanted' = wanted \cup {b}
    /\ granted' = granted \cup {b}
    /\ UNCHANGED <<live, halting, stray>>

\* The operator does not want it any more; what is under way goes on.
Revoke(b) ==
    /\ wanted' = wanted \ {b}
    /\ halting' \in {halting, halting \cup {b}}
    /\ UNCHANGED <<granted, live, stray>>

\* A stop that leaves the wish as it is, on the way to a delete or to an exit.
Stop(b) ==
    /\ halting' = halting \cup {b}
    /\ UNCHANGED <<wanted, granted, live, stray>>

\* The watchdog brings back a bot that is wanted and not alive.
Grant(b) ==
    /\ b \in wanted \ live
    /\ granted' = granted \cup {b}
    /\ UNCHANGED <<wanted, live, halting, stray>>

\* A start succeeds; another one of the same bot may still be under way.
Launch(b) ==
    /\ b \in granted \ live
    /\ live' = live \cup {b}
    /\ granted' \in {granted, granted \ {b}}
    /\ UNCHANGED <<wanted, halting, stray>>

\* A start ends without a new loop: it failed, or the bot is alive already.
Settle(b) ==
    /\ granted' = granted \ {b}
    /\ UNCHANGED <<wanted, live, halting, stray>>

Halt(b) ==
    /\ live' = live \ {b}
    /\ UNCHANGED <<wanted, granted, halting, stray>>

\* The last stop of a bot is over.
EndStop(b) ==
    /\ halting' = halting \ {b}
    /\ UNCHANGED <<wanted, granted, live, stray>>

\* A stop forgets the loop that was launched while it waited for another.
Lose(b) ==
    /\ b \in live \cap halting
    /\ live' = live \ {b}
    /\ stray' = stray \cup {b}
    /\ halting' \in {halting, halting \ {b}}
    /\ UNCHANGED <<wanted, granted>>

\* The last of the loops that were lost ends.
Fade(b) ==
    /\ stray' = stray \ {b}
    /\ UNCHANGED <<wanted, granted, live, halting>>

Crash ==
    /\ granted' = {} /\ live' = {} /\ halting' = {} /\ stray' = {}
    /\ UNCHANGED wanted

Init == wanted = {} /\ granted = {} /\ live = {} /\ halting = {} /\ stray = {}

Next ==
    \/ \E b \in Bots :
         \/ Ask(b) \/ Revoke(b) \/ Stop(b) \/ EndStop(b)
         \/ Grant(b) \/ Launch(b) \/ Settle(b)
         \/ Halt(b) \/ Lose(b) \/ Fade(b)
    \/ Crash

Spec == Init /\ [][Next]_vars
=============================================================================
