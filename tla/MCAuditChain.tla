---------------------------- MODULE MCAuditChain ----------------------------
(***************************************************************************)
(* A small instance of the chain: a task whose rows are verified, a second *)
(* one whose rows can turn up among them, and one reader.                  *)
(***************************************************************************)
EXTENDS AuditChain

CONSTANTS t1, t2, a, b, u

MCAppends == [t \in Tasks |-> IF t = t1 THEN 3 ELSE 1]
=============================================================================
