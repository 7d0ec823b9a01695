-------------------------- MODULE MCThrottlingProxy --------------------------
(***************************************************************************)
(* A small instance of ThrottlingProxy: two primary connections and the    *)
(* worker of their priority.  The smaller target is what one of them takes *)
(* up, so that the other has to wait; the larger one leaves room for both. *)
(***************************************************************************)
EXTENDS ThrottlingProxy, TLC

CONSTANTS p1, p2, t0

MCJobIdOf == p1 :> 1 @@ p2 :> 2
MCPrioOf == p1 :> 0 @@ p2 :> 0

MCThreads == {t0}
MCThreadPrio == t0 :> 0

\* Targets, primary and secondary.
OneOne == 0 :> 1 @@ 1 :> 1
OneTwo == 0 :> 1 @@ 1 :> 2

===============================================================================
