-------------------------- MODULE MCThrottlerStats ----------------------------
(***************************************************************************)
(* Instances of ThrottlerStats for TLC: jobs 1, 2, ...; the odd ones are   *)
(* primary.                                                                *)
(***************************************************************************)
EXTENDS ThrottlerStats

OddArePrimary == [j \in Jobs |-> IF j % 2 = 1 THEN 0 ELSE 1]

===============================================================================
