----------------------------- MODULE MCThrottler -----------------------------
(***************************************************************************)
(* A small instance of Throttler: one scheduler thread per priority, as in *)
(* the proxies, a primary job p1 and secondary jobs s1 and s2, the first   *)
(* of which shares its id with p1 as the copies of a duplicated request    *)
(* do.  The primary target leaves room for p1 until it is lowered.         *)
(***************************************************************************)
EXTENDS Throttler, TLC

CONSTANTS p1, s1, s2, t0, t1

MCJobs == {p1, s1, s2}
MCJobIdOf == p1 :> 1 @@ s1 :> 1 @@ s2 :> 2
MCPrioOf == p1 :> 0 @@ s1 :> 1 @@ s2 :> 1

MCThreads == {t0, t1}
MCThreadPrio == t0 :> 0 @@ t1 :> 1

\* Targets, primary and secondary.  With ZeroOne for its targets BlockedOnlyByTwoZeros
\* fails as it does with OneOne.
TwoOne == 0 :> 2 @@ 1 :> 1
OneOne == 0 :> 1 @@ 1 :> 1
ZeroOne == 0 :> 0 @@ 1 :> 1

===============================================================================
