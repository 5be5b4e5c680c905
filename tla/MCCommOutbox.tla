---------------------------- MODULE MCCommOutbox ----------------------------
(***************************************************************************)
(* A finite instance of CommOutbox.                                        *)
(***************************************************************************)
EXTENDS CommOutbox, TLC

CONSTANTS w1, w2, inv, trip, pod

\* An invoice goes by e-mail, a dispatch to a phone, the POD receipt to either.
Contacts ==
    (inv :> {"email"}) @@ (trip :> {"whatsapp"}) @@ (pod :> {"email", "whatsapp"})

=============================================================================
