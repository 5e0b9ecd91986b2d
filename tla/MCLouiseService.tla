-------------------------- MODULE MCLouiseService --------------------------
(* Bots of two subaccounts in alternation: the service meets a subaccount   *)
(* again after another one.                                                 *)
EXTENDS LouiseService

MCSubOf == [b \in Bots |-> IF b % 2 = 1 THEN "accu" ELSE "bluechip"]
=============================================================================
