---------------------------- MODULE MCKasaPoller ----------------------------
(* Instances of KasaPoller for TLC; the .cfg files give the bounds. *)
EXTENDS KasaPoller
=============================================================================
