------------------------------ MODULE MCSpool ------------------------------
(* Instances of Spool for TLC; the .cfg files give the constants.          *)
EXTENDS Spool
=============================================================================
