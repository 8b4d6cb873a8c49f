--------------------------- MODULE MCControlServer ----------------------------
(* A small instance of ControlServer: more clients than permits, and a channel *)
(* that holds one request.                                                     *)
EXTENDS ControlServer
===============================================================================
