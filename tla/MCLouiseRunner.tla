-------------------------- MODULE MCLouiseRunner --------------------------
(* LouiseRunner with a bound on the orders that come to nothing: expired or   *)
(* never placed ones, and those whose report was lost.                        *)
EXTENDS LouiseRunner

MCFewLost ==
    Cardinality(pending \cup stale)
      + Cardinality({o \in 1 .. nOrders : orders[o].exec \in {"expired", "failed"}}) <= 2
=============================================================================
