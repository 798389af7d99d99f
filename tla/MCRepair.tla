----------------------------- MODULE MCRepair ------------------------------
(***************************************************************************)
(* Small instances of Repair for TLC.                                      *)
(***************************************************************************)
EXTENDS Repair

CONSTANTS n1, n2, n3, n4, t1, t2

(* A and C share no node, B meets both; the replicas of D are not in the   *)
(* repaired datacenters.                                                   *)
FourSets == [A |-> {n1, n2}, B |-> {n2, n3}, C |-> {n3, n4}, D |-> {}]
FourRanges == [A |-> {1}, B |-> {2}, C |-> {3}, D |-> {4}]

TwoTables == <<t1, t2>>
=============================================================================
