------------------------------ MODULE MC_PanelRpc ------------------------------
(* Two threads; enough requests and processes for two losses of the connection. *)
EXTENDS PanelRpc

CONSTANTS gui, camera

MCThreads == {gui, camera}
================================================================================
