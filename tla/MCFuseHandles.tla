--------------------------- MODULE MCFuseHandles ---------------------------
(***************************************************************************)
(* Two FUSE threads; two of the three files of the directory at a time, one *)
(* of them the link Current; one attribute, one update of a file or link.  *)
(***************************************************************************)
EXTENDS FuseHandles

MCSizes == <<1, 3>>
Lengths == [v \in 0 .. MaxVersion |-> MCSizes[v + 1]]
Symmetry == Permutations(Threads) \cup Permutations(Nodes)
=============================================================================
