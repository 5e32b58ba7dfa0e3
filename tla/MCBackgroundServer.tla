-------------------------- MODULE MCBackgroundServer --------------------------
(* Model-checking instance of BackgroundServer.tla; the constants are set  *)
(* per cfg.                                                                *)
EXTENDS BackgroundServer
=============================================================================
