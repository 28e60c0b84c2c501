----------------------------- MODULE ObjectTree -----------------------------
(***************************************************************************)
(* The file system of an object carousel, built out of its BIOP messages   *)
(* in whatever order the modules hold them (dsm-cc/biop.c, the end of      *)
(* dii_create_filesystem() in dsm-cc/dii.c, and the CREATE_ and UPDATE_    *)
(* macros of fsutils.h they use).                                          *)
(*                                                                         *)
(* A message is about one object: the gateway and a directory bind names   *)
(* to objects, a file brings contents. What cannot be placed yet waits     *)
(* under a `stepfather`, and reparenting places it at the end. A dentry is *)
(* known by its inode, the object's key. An object whose name is taken     *)
(* where it is to be created gets the dentry that has it (CREATE_COMMON):  *)
(* that is `clashed`, and the carousel is not parsed again after it.       *)
(***************************************************************************)
EXTENDS Integers, FiniteSets, SequencesExt

CONSTANTS
  Objects,   \* the objects, by key
  Root,      \* the service gateway
  Stepfather,
  Files,     \* the objects that are files
  Bindings,  \* per directory, its objects in the order of its message
  Name,      \* the name each object is bound to
  Stated,    \* the size a file's binding states, 0 where it has no object info
  Length,    \* the length of the contents in a file's message
  Passes,    \* bound: how often the file system is created
  Nil        \* no object, NULL, no name ("")

Directories == Objects \ Files

(* What the directories of S among dirs bind is in S.                      *)
Closed(S, dirs) == \A d \in S \cap dirs : ToSet(Bindings[d]) \subseteq S

(* The messages describe a tree: every other object is bound once, names   *)
(* in a directory differ, and bindings lead from the gateway to all.       *)
ASSUME ObjectTreeAssumption ==
  /\ Files \subseteq Objects /\ Root \in Directories
  /\ Stepfather \notin Objects /\ Nil \notin Objects \cup {Stepfather}
  /\ Passes \in Nat /\ Bindings \in [Directories -> Seq(Objects \ {Root})]
  /\ \A i \in Objects \ {Root} :
       \E d \in Directories : \A c \in Directories : i \in ToSet(Bindings[c]) <=> c = d
  /\ \A d \in Directories : \A m, n \in DOMAIN Bindings[d] :
       Name[Bindings[d][m]] = Name[Bindings[d][n]] => m = n
  /\ \A S \in SUBSET Objects : Root \in S /\ Closed(S, Directories) => S = Objects
  /\ Stated \in [Files -> Nat] /\ Length \in [Files -> Nat]

VARIABLES
  tree,     \* the dentries, their lists of children, and clashed
  rootKnown,\* the gateway's key is the inode of the root
  handled,  \* objects whose message has been parsed in this pass
  placed,   \* objects the messages of a pass led to from the gateway
  phase,    \* "messages", "reparent", "over"
  pass

objects == <<tree, rootKnown, handled, placed, phase, pass>>

Raw == "memory that malloc() returned"  \* of any size, 0 too: never NULL

(* A dentry: the list it is in, its parent pointer (which reparenting does *)
(* not set), the inode that priv says it belongs to.                       *)
Absent == [list |-> Nil, parent |-> Nil, name |-> Nil, size |-> 0,
           contents |-> Nil, owed |-> Nil]
Exists(st, i) == i = Root \/ st.dentry[i] # Absent

(* fsutils_find_by_inode(): i is among what is below p in the tree, which  *)
(* is in every set that has the children of p and of its own members.      *)
Under(st, i, p) ==
  \A S \in SUBSET Objects :
    (\A k \in Objects : st.dentry[k].list \in S \cup {p} => k \in S) => i \in S

(* fsutils_get_child(): the first of that name, or Nil.                   *)
Child(st, p, name) ==
  LET kids == st.kids[p]
      named == {n \in DOMAIN kids : st.dentry[kids[n]].name = name}
  IN IF named = {} THEN Nil ELSE kids[Min(named)]

Unlinked(st, i) ==
  LET l == st.dentry[i].list
  IN IF l = Nil THEN st ELSE [st EXCEPT !.kids[l] = RemoveFirst(@, i)]

(* list_add_tail(): the dentry of i hangs under p.                         *)
Hung(st, p, i, dentry) ==
  [st EXCEPT !.dentry[i] = [dentry EXCEPT !.list = p], !.kids[p] = Append(@, i)]

(* list_del() and free(); what is below i can no longer be reached.        *)
Disposed(st, i) ==
  LET gone == {k \in Objects \ {Root} : k = i \/ Under(st, k, i)}
      left == Unlinked(st, i).kids
  IN [dentry |-> [k \in Objects |-> IF k \in gone THEN Absent ELSE st.dentry[k]],
      kids |-> [k \in DOMAIN left |-> IF k \in gone THEN <<>> ELSE left[k]],
      clashed |-> st.clashed]

(* CREATE_COMMON(): a dentry of that name is taken for the new one.        *)
Created(st, p, i, new) ==
  LET taken == Child(st, p, new.name)
  IN IF taken # Nil
     THEN [st |-> [st EXCEPT !.clashed = TRUE], id |-> taken]
     ELSE [st |-> Hung(st, p, i, [new EXCEPT !.parent = p]), id |-> i]

(* Mutant of Renamed: the dentry is not taken off its old list.            *)
Renamed_StaysLinked(st, p, i, name) ==
  LET named == [st EXCEPT !.dentry[i].name = name]
  IN IF st.dentry[i].parent = p THEN named
     ELSE Hung(named, p, i, [named.dentry[i] EXCEPT !.parent = p])

(* UPDATE_NAME() and UPDATE_PARENT().                                      *)
Renamed(st, p, i, name) ==
  LET named == [st EXCEPT !.dentry[i].name = name]
  IN IF st.dentry[i].parent = p THEN named
     ELSE Hung(Unlinked(named, i), p, i, [named.dentry[i] EXCEPT !.parent = p])

NewFile(i, name, size) ==
  [Absent EXCEPT !.name = name, !.size = size, !.contents = IF size = 0 THEN Nil ELSE Raw]
NewDir(i) == [Absent EXCEPT !.name = Name[i]]

(* UPDATE_COMMON(): of no contents there is nothing to copy into what      *)
(* malloc(0) returns.                                                      *)
Overwritten(st, i, contents, size) ==
  IF st.dentry[i].size = size /\ size = 0 THEN st
  ELSE [st EXCEPT !.dentry[i] =
         [@ EXCEPT !.contents = IF size = 0 THEN Raw ELSE contents, !.size = size]]

(* CREATE_SIMPLE_FILE(), and what stands for it where a directory is bound *)
(* (biop.c:684-690, CREATE_SIMPLE_DIRECTORY()).                            *)
Simple(st, p, i, new) ==
  IF Under(st, i, p) THEN [st |-> Renamed(st, p, i, Name[i]), id |-> i]
  ELSE Created(st, p, i, new)

-----------------------------------------------------------------------------
Owing(r, d) == [r.st EXCEPT !.dentry[r.id].owed = d]

(* Mutant of Taken: the file that waited is not copied.                    *)
Taken_Nothing(st, id, tmp) == st

Taken(st, id, tmp) == Overwritten(st, id, tmp.contents, tmp.size)

(* A file is bound: under the stepfather, and where its directory is known *)
(* there, with what the stepfather's has, which goes.                      *)
FileBound(st, d, found, i) ==
  LET new == NewFile(i, Name[i], Stated[i])
      waits == IF Under(st, i, Stepfather) THEN i ELSE Child(st, Stepfather, Name[i])
      tmp == IF waits = Nil THEN new ELSE st.dentry[waits]
      rest == IF waits = Nil THEN st
              ELSE [Disposed(st, waits) EXCEPT !.clashed = @ \/ waits # i]
      to == Simple(rest, d, i, new)
  IN IF found THEN Taken(to.st, to.id, tmp)
     ELSE Owing(Simple(st, Stepfather, i, new), d)

DirBound(st, d, found, i) ==
  IF found THEN Simple(st, d, i, NewDir(i)).st
  ELSE Owing(Simple(st, Stepfather, i, NewDir(i)), d)

(* biop_create_children_dentries().                                        *)
ChildBound(st, d, found, i) ==
  IF i \in Files THEN FileBound(st, d, found, i) ELSE DirBound(st, d, found, i)
Bound(st, d, found) ==
  FoldLeft(LAMBDA s, i : ChildBound(s, d, found, i), st, Bindings[d])

(* biop_update_file_dentry(): a file no directory has bound yet gets a     *)
(* dentry without a name. One that UPDATE_COMMON() has emptied is taken    *)
(* for that of another object, and its message is refused.                 *)
Filled(st, i) ==
  LET r == IF Under(st, i, Root) \/ Under(st, i, Stepfather) THEN [st |-> st, id |-> i]
           ELSE Created(st, Stepfather, i, NewFile(i, Nil, Length[i]))
      old == r.st.dentry[r.id]
  IN IF old.size # Length[i] /\ old.size = 0 /\ old.contents # Nil THEN r.st
     ELSE Overwritten(r.st, r.id, i, Length[i])

-----------------------------------------------------------------------------
(* biop_create_filesystem_dentries(): one message. The gateway's key       *)
(* becomes the inode of the root first.                                    *)
Handle(i) ==
  /\ handled' = handled \cup {i}
  /\ UNCHANGED <<placed, phase, pass>>

DirMessage(d) ==
  /\ phase = "messages" /\ d \in Directories \ handled
  /\ tree' = Bound(tree, d, d = Root \/ Under(tree, d, Root))
  /\ rootKnown' = (rootKnown \/ d = Root)
  /\ Handle(d)

FileMessage(i) ==
  /\ phase = "messages" /\ i \in Files \ handled
  /\ tree' = Filled(tree, i)
  /\ Handle(i)
  /\ UNCHANGED rootKnown

(* The modules end, or break off: an object of a kind that is not known    *)
(* ends the parsing of its module.                                         *)
ModulesEnd ==
  /\ phase = "messages"
  /\ phase' = "reparent"
  /\ UNCHANGED <<tree, rootKnown, handled, placed, pass>>

ParentKnown(d) == \/ d = Root /\ rootKnown
                  \/ d # Root /\ (Under(tree, d, Root) \/ Under(tree, d, Stepfather))

(* biop_reparent_orphaned_dentries(): one entry of the stepfather's list.  *)
Reparent ==
  /\ phase = "reparent" /\ tree.kids[Stepfather] # <<>>
  /\ LET i == Head(tree.kids[Stepfather])
         d == tree.dentry[i].owed
     IN tree' = IF d = Nil \/ ~ParentKnown(d) THEN Disposed(tree, i)
                ELSE Hung(Unlinked(tree, i), d, i, [tree.dentry[i] EXCEPT !.owed = Nil])
  /\ UNCHANGED <<rootKnown, handled, placed, phase, pass>>

(* What the messages lead to: what is bound by a directory they lead to.   *)
HomeOf(i) == CHOOSE d \in Directories : i \in ToSet(Bindings[d])
LedTo(i) ==
  \A S \in SUBSET Objects :
    placed \subseteq S /\ Closed(S, handled \cap Directories) => i \in S

Over ==
  /\ phase = "reparent" /\ tree.kids[Stepfather] = <<>>
  /\ phase' = "over"
  /\ placed' = {i \in Objects : LedTo(i)}
  /\ UNCHANGED <<tree, rootKnown, handled, pass>>

(* A new version of the DII has the file system created again, on top of   *)
(* what is there.                                                          *)
Again ==
  /\ phase = "over" /\ pass < Passes /\ ~tree.clashed
  /\ phase' = "messages" /\ pass' = pass + 1 /\ handled' = {}
  /\ UNCHANGED <<tree, rootKnown, placed>>

TreeInit ==
  /\ tree = [dentry |-> [i \in Objects |-> Absent],
             kids |-> [p \in Objects \cup {Stepfather} |-> <<>>], clashed |-> FALSE]
  /\ rootKnown = FALSE
  /\ handled = {} /\ placed = {Root}
  /\ phase = "messages" /\ pass = 1

TreeNext == \/ \E i \in Objects : DirMessage(i) \/ FileMessage(i)
        \/ ModulesEnd \/ Reparent \/ Over \/ Again

TreeSpec == TreeInit /\ [][TreeNext]_objects

-----------------------------------------------------------------------------
(* Every dentry is in one list, once, whatever clashed; when the file      *)
(* system is done, none is left under the stepfather, which is a variable  *)
(* of a function that returns. After a clash two directories may have      *)
(* become each other's parents, which no path leads to.                    *)
HangsOnce ==
  /\ \A p \in DOMAIN tree.kids : IsInjective(tree.kids[p])
  /\ \A i \in Objects \ {Root}, p \in DOMAIN tree.kids :
       i \in ToSet(tree.kids[p]) <=> Exists(tree, i) /\ tree.dentry[i].list = p
  /\ phase = "over" /\ ~tree.clashed =>
       \A i \in Objects \ {Root} : Exists(tree, i) => Under(tree, i, Root)

(* Every object that the messages lead to is in its directory under its    *)
(* name, and nothing else, if no two objects of one name met under the     *)
(* stepfather.                                                             *)
BoundAsSent ==
  phase = "over" /\ ~tree.clashed =>
    \A i \in Objects \ {Root} :
      /\ Exists(tree, i) <=> i \in placed
      /\ i \in placed => tree.dentry[i].list = HomeOf(i) /\ tree.dentry[i].name = Name[i]

(* The tree is the carousel's whatever the order of the messages, which    *)
(* name objects before they bring them (biop_update_file_dentry(),         *)
(* biop_reparent_orphaned_dentries()).                                     *)
TreeRight == HangsOnce /\ BoundAsSent

Sent(i, file) == file.size = Length[i] /\ (Length[i] > 0 => file.contents = i)
Unwritten(i, file) == file.size = Stated[i] /\ (Stated[i] > 0 => file.contents = Raw)

(* A file has its own contents, in their length, whatever the order of the *)
(* messages and the size its binding states. Until its message comes it    *)
(* has memory nobody wrote to, of the size stated, and when the file       *)
(* system is created once more a directory brings that back: for good      *)
(* where no size is stated, since the message is then refused.             *)
ContentsRight ==
  phase = "over" /\ ~tree.clashed =>
    \A i \in Files : Exists(tree, i) =>
      \/ Sent(i, tree.dentry[i])
      \/ Unwritten(i, tree.dentry[i]) /\ (i \notin handled \/ pass > 1)
=============================================================================
