-------------------------- MODULE MCRouteCapacity --------------------------
(***************************************************************************)
(* Instances of RouteCapacity for TLC: two runs, whose payloads name y and *)
(* x, or y alone; y may be too narrow for the second item.  The answer to  *)
(* the first may tell when its window is reset, the second what is left.   *)
(***************************************************************************)
EXTENDS RouteCapacity, TLC

CONSTANTS x, y, r, q

MCRunOf    == <<r, q>>
MCNeed     == <<1, 2>>
MCRequests == (x :> 1) @@ (y :> 1)
MCTokens   == (x :> 2) @@ (y :> 2)
MCNarrow   == (x :> 2) @@ (y :> 1)
MCAccounts == (r :> <<y, x>>) @@ (q :> <<y>>)
MCObserved == <<{"nothing", "reset"}, {"budget"}>>
MCSilent   == <<{"nothing"}, {"nothing"}>>
MCShared   == (r :> <<x, y>>) @@ (q :> <<x, y>>)
=============================================================================
