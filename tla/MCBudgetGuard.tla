--------------------------- MODULE MCBudgetGuard ---------------------------
(* A small instance of BudgetGuard: two hubs and the hub of unlisted ids, one *)
(* bot that still checks and records in two calls, and a clock that runs     *)
(* several times the window.                                                 *)
EXTENDS BudgetGuard

MCBots    == {"louise1", "dorothy1", "dorothy2", "misc1"}
MCHubs    == {"louise", "dorothy", "other"}
MCHubOf   == [b \in MCBots |-> CASE b = "louise1" -> "louise"
                                 [] b = "misc1" -> "other"
                                 [] OTHER -> "dorothy"]
MCCeiling == [h \in MCHubs |-> CASE h = "louise" -> 3 [] h = "dorothy" -> 2 [] OTHER -> 1]
=============================================================================
