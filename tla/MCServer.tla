------------------------------ MODULE MCServer ------------------------------
(* Model-checking instance of Server.tla: every combination of a saver     *)
(* and a DHT handler is a separate run (the constants are set per cfg).    *)
EXTENDS Server
=============================================================================
