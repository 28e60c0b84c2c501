---------------------------- MODULE MCObjectTree ----------------------------
(***************************************************************************)
(* A gateway with a file "a" and a directory, in which there are another   *)
(* file "a" and a directory with an empty file. The binding of the second  *)
(* "a" states no size, that of the empty file a wrong one.                 *)
(***************************************************************************)
EXTENDS ObjectTree

CONSTANTS root, dir, sub, top, low, empty, nameA, nameD, nameS, nameE

MCObjects == {root, dir, sub, top, low, empty}
MCFiles == {top, low, empty}
MCBindings == [x \in {root, dir, sub} |->
                 CASE x = root -> <<dir, top>> [] x = dir -> <<low, sub>> [] x = sub -> <<empty>>]
MCName == [x \in MCObjects |-> CASE x = dir -> nameD [] x = sub -> nameS [] x = empty -> nameE [] OTHER -> nameA]
MCStated == [x \in MCFiles |-> IF x = low THEN 0 ELSE 1]
MCLength == [x \in MCFiles |-> CASE x = top -> 2 [] x = low -> 1 [] x = empty -> 0]
=============================================================================
