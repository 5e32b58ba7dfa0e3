--------------------------- MODULE ServerLifecycle ---------------------------
(***************************************************************************)
(* The lifecycle the server orchestrator promises (spec section 4.6):      *)
(* constructed -> running -> ready -> shutting down -> stopped.  A runtime *)
(* that ends before it is ready goes from running to shutting down, since  *)
(* run() shuts down on any exit of the runtime; a server that began        *)
(* shutting down eventually is stopped.                                    *)
(***************************************************************************)
VARIABLE phase

Phases == {"constructed", "running", "ready", "stopping", "stopped"}

TypeOK == phase \in Phases

Init == phase = "constructed"

Start == phase = "constructed" /\ phase' = "running"

BecomeReady == phase = "running" /\ phase' = "ready"

BeginShutdown == phase \in {"running", "ready"} /\ phase' = "stopping"

Finish == phase = "stopping" /\ phase' = "stopped"

Next == Start \/ BecomeReady \/ BeginShutdown \/ Finish

Spec == Init /\ [][Next]_phase

FairSpec == Spec /\ WF_phase(Finish)
=============================================================================
