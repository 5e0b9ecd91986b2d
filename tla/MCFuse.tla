------------------------------ MODULE MCFuse ------------------------------
(* Small cooldowns with the shape of the real ones: the API fuse's grace is *)
(* shorter than its base cooldown and its ceiling no power of two times the *)
(* base, the order fuse's grace is longer than its base cooldown.           *)
EXTENDS Fuse

MCFuses   == {"api", "order"}
MCBase    == [f \in MCFuses |-> IF f = "api" THEN 2 ELSE 1]
MCMaxCool == [f \in MCFuses |-> IF f = "api" THEN 5 ELSE 4]
MCFactor  == <<1, 2, 4>>
MCGrace   == [f \in MCFuses |-> IF f = "api" THEN 1 ELSE 2]
=============================================================================
