--------------------------- MODULE MCRoutingEngine ----------------------------
(***************************************************************************)
(* Three daemons; the unit of time is an hour and scores are thousandths.  *)
(***************************************************************************)
EXTENDS RoutingEngine, TLC

CONSTANTS a, b, c

(* _calcDynamicAlpha and _calcDynamicGamma for an average of 0 (cold start), *)
(* 1, 2, ... hours.                                                          *)
AlphaOf == <<435, 306, 230, 176, 134, 100>>
GammaOf == <<863, 908, 935, 953, 968, 980>>

HourlyAlpha == [avg \in Time |-> IF avg = 0 THEN 500 ELSE AlphaOf[avg]]

HourlyKeep ==
    [avg \in Time |->
        LET kept[k \in Time] ==
            IF k = 0 THEN Scale
            ELSE RoundedUp(kept[k - 1] * (IF avg = 0 THEN 840 ELSE GammaOf[avg]), Scale)
        IN kept]

Interchangeable == Permutations(Node)
=============================================================================
