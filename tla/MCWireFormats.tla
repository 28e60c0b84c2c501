--------------------------- MODULE MCWireFormats ----------------------------
(***************************************************************************)
(* The loops of MCDescriptors and the structures of MCStructures. A        *)
(* behaviour parses one.                                                   *)
(***************************************************************************)
EXTENDS MCDescriptors, MCStructures

(* A loop or a structure; the other is empty.                              *)
EitherInit ==
  \/ DInit /\ Handed(Module(<<>>, <<>>))
  \/ BInit /\ Begin(Loop(Ts, FALSE, <<>>))
EitherNext == \/ DNext /\ UNCHANGED bvars
              \/ BNext /\ UNCHANGED dvars
Spec == EitherInit /\ [][EitherNext]_<<dvars, bvars>> /\ WF_dvars(DNext /\ UNCHANGED bvars)
=============================================================================
