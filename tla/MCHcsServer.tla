------------------------------ MODULE MCHcsServer ------------------------------
(* HcsServer with three routes: two models in the high tier, one in the medium. *)
EXTENDS HcsServer

ConfiguredRoutes == <<"a", "b", "c">>
RouteTier  == [r \in {"a", "b", "c"} |-> IF r = "c" THEN "medium" ELSE "high"]
RouteModel == [r \in {"a", "b", "c"} |-> IF r = "a" THEN "m1" ELSE IF r = "b" THEN "m2" ELSE "m3"]
=============================================================================
