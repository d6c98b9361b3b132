---------------------------- MODULE MCGpuBroker ----------------------------
(* The broker on a small instance, for TLC.                                  *)
EXTENDS GpuBroker, TLC

CONSTANTS b1, b2, b3, v1, v2

\* b1 and b2 are two connections of the same VM: a restart overtaking a teardown.
ThreeBackends == {b1, b2, b3}
TwoVms == {v1, v2}
SharedId == b1 :> v1 @@ b2 :> v1 @@ b3 :> v2
SomeStream == {b1, b3}

Caps == [v \in Vms |-> 6]
Rates == [v \in Vms |-> IF v = v1 THEN 2 ELSE 1]
Sizes == {3}
=============================================================================
