---------------------------- MODULE MCWSConnection ----------------------------
(* TLC instances of WSConnection; no symmetry, sockets are numbered. *)
EXTENDS WSConnection
=============================================================================
