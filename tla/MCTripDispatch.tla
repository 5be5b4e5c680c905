--------------------------- MODULE MCTripDispatch ---------------------------
(***************************************************************************)
(* Finite instances of TripDispatch.                                       *)
(***************************************************************************)
EXTENDS TripDispatch, TLC

CONSTANTS b1, b2, t1, t2, t3, d1, d2, v1, w1, w2, o1, o2

\* Offers of the booking b1 to one driver or to two.
ForFirst == [o \in Offers |->
               [booking |-> b1, driver |-> IF o = o1 THEN d1 ELSE d2, vehicle |-> v1]]

\* t1, once delivered, is in time for every other trip.
LateTwo == {<<t2, t1>>}

Symmetric == Permutations(Requests)

SymmetricTrips == Permutations(Trips) \cup Permutations(Bookings)

=============================================================================
