---------------------------- MODULE MCAppService ----------------------------
(***************************************************************************)
(* A small instance of the service: one run that asks twice, two users.    *)
(***************************************************************************)
EXTENDS AppService

CONSTANTS t1, u1, u2
=============================================================================
