----------------------------- MODULE EpochBook -----------------------------
(***************************************************************************)
(* The books a Louise bot promises to keep (runtime/bot/louise.py,         *)
(* runtime/core/louise_db.py): epochs are traded one after the other, a    *)
(* fill is entered in the open one and only while the daily budget has     *)
(* room for it, and an epoch is closed once, with the gain its position    *)
(* has at a price that reaches the target.  There are no polls, orders,    *)
(* reports, copies or restarts here: LouiseRunner has them, and implements *)
(* this module when its reports are prompt.                                *)
(***************************************************************************)
EXTENDS Integers

CONSTANTS Epochs, Prices, BuyVolume, TargetPct, DailyBudget

VARIABLES
    state,  \* "none", "RUNNING" or "CLOSED", for each epoch
    buys,   \* how many fills its ledger has
    paid,   \* what they cost
    held,   \* the quantity they bought
    gain    \* what its close realised

vars == <<state, buys, paid, held, gain>>

\* An epoch begins when all the earlier ones are closed.
Open(e) ==
    /\ state[e] = "none"
    /\ \A f \in Epochs : f < e => state[f] = "CLOSED"
    /\ state' = [state EXCEPT ![e] = "RUNNING"]
    /\ UNCHANGED <<buys, paid, held, gain>>

\* A buy fills at some price, and its epoch pays for it.
Enter(e) ==
    /\ state[e] = "RUNNING"
    /\ buys' = [buys EXCEPT ![e] = @ + 1]
    /\ paid[e] + BuyVolume <= DailyBudget
    /\ paid' = [paid EXCEPT ![e] = @ + BuyVolume]
    /\ \E p \in Prices : held' = [held EXCEPT ![e] = @ + BuyVolume \div p]
    /\ UNCHANGED <<state, gain>>

\* The position is sold at a price that reaches the target.
Close(e) ==
    /\ state[e] = "RUNNING" /\ buys[e] > 0
    /\ state' = [state EXCEPT ![e] = "CLOSED"]
    /\ \E p \in Prices :
         LET g == held[e] * p - paid[e] IN
         /\ g * 100 >= TargetPct * paid[e]
         /\ gain' = [gain EXCEPT ![e] = g]
    /\ UNCHANGED <<buys, paid, held>>

Init ==
    /\ state = [e \in Epochs |-> "none"]
    /\ buys = [e \in Epochs |-> 0] /\ paid = [e \in Epochs |-> 0]
    /\ held = [e \in Epochs |-> 0] /\ gain = [e \in Epochs |-> 0]

Next == \E e \in Epochs : Open(e) \/ Enter(e) \/ Close(e)

Spec == Init /\ [][Next]_vars

=============================================================================
