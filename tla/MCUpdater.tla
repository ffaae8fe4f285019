----------------------------- MODULE MCUpdater -----------------------------
(***************************************************************************)
(* Three revisions: good builds a healthy system of its own for each       *)
(* contents of the machine values, docs changes nothing that is built (it  *)
(* builds what good builds), bad builds an unhealthy one.                  *)
(***************************************************************************)
EXTENDS Updater

CONSTANTS good, docs, bad, m1, m2

MCSystem == {"installed", "good1", "good2", "bad1", "bad2"}

MCBuild ==
    [d \in Release \X Machine |->
        CASE d[1] = bad /\ d[2] = m1 -> "bad1"
          [] d[1] = bad              -> "bad2"
          [] d[2] = m1               -> "good1"
          [] OTHER                   -> "good2"]

MCHealthy == {"installed", "good1", "good2"}

MCInstalled == [system |-> "installed", machine |-> m1]
=============================================================================
