----------------------------- MODULE MCSession -----------------------------
(* Values for the constants of Session that a .cfg cannot write.           *)
EXTENDS Session

(* With PIPE_BUF at 2: a chunk of one atomic write; one that has a byte    *)
(* before its sync word; one with no sync word at all; one that is longer  *)
(* than the pipe has room for.                                             *)
ChunkShapes == {[size |-> 2, lead |-> 0], [size |-> 3, lead |-> 1],
                [size |-> 1, lead |-> 1], [size |-> 4, lead |-> 0]}

(* -o fileloop=1 and -o fileloop=-1                                        *)
OnceMoreOrForever == {1, -1}
=============================================================================
