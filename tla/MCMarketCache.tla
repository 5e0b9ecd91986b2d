--------------------------- MODULE MCMarketCache ---------------------------
(* MarketCache for TLC: the two keys the runners fetch, of which the data of
   one change, and one key of a price feed. *)
EXTENDS MarketCache

MCKeys == {"tickers", "account", "symbol_ticker"}
MCTTL == [k \in MCKeys |-> 1]
MCMaxVersion == [k \in MCKeys |-> IF k = "tickers" THEN 1 ELSE 0]
=============================================================================
