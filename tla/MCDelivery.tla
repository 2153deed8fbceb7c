----------------------------- MODULE MCDelivery -----------------------------
(***************************************************************************)
(* Two users with a device each; each sends one message.                   *)
(***************************************************************************)
EXTENDS Delivery, TLC

CONSTANTS alice, bob, phone, laptop, m1, m2

MCOwner  == (phone :> alice) @@ (laptop :> bob)
MCAuthor == (m1 :> phone) @@ (m2 :> laptop)
=============================================================================
