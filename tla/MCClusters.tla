----------------------------- MODULE MCClusters -----------------------------
(***************************************************************************)
(* Small instances of Clusters for TLC.                                    *)
(***************************************************************************)
EXTENDS Clusters

CONSTANTS h1, h2

TwoKinds == <<"tls", "cql">>
NoneOrAll == {{}, Kinds}
OneTask == <<"repair">>
(* Secrets and the periodic update come together in one call only. *)
FourScenes == {[has |-> {"clients"}, calls |-> 2, ring |-> {h1}],
               [has |-> {"secrets"}, calls |-> 2, ring |-> {h1}],
               [has |-> {"updates"}, calls |-> 2, ring |-> {h1, h2}],
               [has |-> {"updates", "secrets"}, calls |-> 1, ring |-> {h1, h2}]}
RingSets == {{h1}, {h1, h2}}
=============================================================================
