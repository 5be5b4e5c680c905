--------------------------- MODULE MCMobileQueue ---------------------------
(* Instances of MobileQueue for TLC. *)
EXTENDS MobileQueue, TLC

CONSTANTS a1, a2, bad, good, atStop, wholeTrip, stop, trip

\* One trip of the first account: a POD of its stop and one of the whole trip.
TripOfPods == [p \in Pods |-> trip]
StopOfPods == [p \in Pods |-> IF p = atStop THEN stop ELSE NoStop]
DriverOfTrip == trip :> a1

=============================================================================
