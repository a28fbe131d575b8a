---------------------------- MODULE MCTransports ----------------------------
(***************************************************************************)
(* Three requests, each over one transport.  They are interchangeable: a   *)
(* request is told from another by what it has done only.                  *)
(***************************************************************************)
EXTENDS Transports, TLC

CONSTANTS r1, r2, r3

Requests == Permutations({r1, r2, r3})
=============================================================================
