----------------------------- MODULE MCRestore ------------------------------
(***************************************************************************)
(* Small instances of Restore for TLC.                                     *)
(***************************************************************************)
EXTENDS Restore, TLC

CONSTANTS h1, h2, d1, d2, a, b, c

(* Two sstables of one data center, one of another. *)
DirOf == a :> "dir1" @@ b :> "dir1" @@ c :> "dir2"
DCOf == a :> d1 @@ b :> d1 @@ c :> d2
Ranks == "dir1" :> 1 @@ "dir2" :> 2
Order == h1 :> 1 @@ h2 :> 2
TypeOf == [s \in SSTables |-> [id |-> "uuid", versioned |-> FALSE]]
One == [x \in SSTables \cup Hosts |-> 1]
Ten == [x \in SSTables |-> 10]
Both == [h \in Hosts |-> DCs]
=============================================================================
