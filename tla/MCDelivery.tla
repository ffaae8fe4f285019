----------------------------- MODULE MCDelivery -----------------------------
(* Instances of Delivery for TLC; the .cfg files give the constants.       *)
EXTENDS Delivery
=============================================================================
