-------------------------- MODULE MCWiimInventory --------------------------
(* Instances of WiimInventory for TLC; the .cfg files give the constants.  *)
EXTENDS WiimInventory

CONSTANTS d1, d2, h1

\* Nothing, or one of the renderers, is on file.
MCOnFile == {Nothing, [d \in {d1} |-> "facts"]}
=============================================================================
