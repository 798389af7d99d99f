------------------------------ MODULE MCBackup ------------------------------
(***************************************************************************)
(* Small instances of Backup for TLC.                                      *)
(***************************************************************************)
EXTENDS Backup, TLC

CONSTANTS n1, n2, A, B, a, b

(* File a has new content at times, b comes and goes. *)
Changing == {a :> "x" @@ b :> "x", a :> "y"}
OneNode == n1 :> Changing
TwoNodes == n1 :> Changing @@ n2 :> {<<>>}
Three == [k \in Tasks |-> 3]
TwoAndOne == A :> 2 @@ B :> 1
Keep == A :> [retention |-> 1, days |-> 0] @@ B :> [retention |-> 0, days |-> 1]
=============================================================================
