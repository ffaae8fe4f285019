---------------------------- MODULE MCEnvPoller ----------------------------
(* Instances of EnvPoller for TLC; the .cfg files give the bounds. *)
EXTENDS EnvPoller
=============================================================================
