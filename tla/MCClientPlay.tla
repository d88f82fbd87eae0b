---------------------------- MODULE MCClientPlay ----------------------------
(* Two tournaments of a session, one key.                                  *)
EXTENDS ClientPlay
=============================================================================
