---------------------------- MODULE MCServerRun ----------------------------
(* TLC instance of ServerRun.                                              *)
EXTENDS ServerRun
=============================================================================
