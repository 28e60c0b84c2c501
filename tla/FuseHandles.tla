---------------------------- MODULE FuseHandles ----------------------------
(***************************************************************************)
(* FUSE's threads on one directory and its files, against the parser       *)
(* thread, which creates the files, replaces their contents and frees the  *)
(* directory (demuxfs.c, xattr.c, and fsutils.[ch] for the parser).        *)
(*                                                                         *)
(* A step ends where another thread may come between: at a mutex, and      *)
(* between two looks at something no mutex protects. The parser does not   *)
(* ask for refcount, the list of children and the attributes are walked    *)
(* without a lock (read_lock() and write_lock() are empty): the use of     *)
(* something another thread has freed or is changing is a `fault', after   *)
(* which the program has no defined behaviour and the model stops.         *)
(***************************************************************************)
EXTENDS Integers, FiniteSets, SequencesExt

CONSTANTS
  Threads,     \* FUSE's threads
  Parser,      \* the parser thread
  Dir,         \* the directory
  Nodes,       \* the dentries calloc() may return for its files
  Names,       \* names of its files
  Link,        \* the name among them that is a symbolic link, "Current"
  Attrs,       \* names of extended attributes a user may set ("user.*")
  Format,      \* the attribute the parser gives a file, "system.format"
  Sizes,       \* sizes of the contents of a file, one per version
  MaxVersion,  \* bound: updates of one file
  Null         \* NULL, nobody, nothing

ASSUME HandlesAssumption ==
  /\ IsFiniteSet(Threads) /\ Parser \notin Threads /\ Null \notin Threads \cup {Parser}
  /\ IsFiniteSet(Nodes) /\ Dir \notin Nodes /\ Null \notin Nodes \cup {Dir}
  /\ Null \notin Names \cup Attrs /\ Format \notin Attrs \cup {Null} /\ Link \in Names
  /\ MaxVersion \in Nat /\ Sizes \in [0 .. MaxVersion -> Nat]

VARIABLES
  node,      \* the dentries: alive or freed, name, contents, size, attributes...
  children,  \* Dir's list of children
  thread,    \* what each FUSE thread is about
  handle,    \* fi->fh: the dentry the thread has opened, as it sees it
  parser,    \* what the parser thread is about
  fault      \* freed or changing memory was used

vars == <<node, children, thread, handle, parser, fault>>

Dentries == Nodes \cup {Dir}

NewNode(name) == [alive |-> TRUE, name |-> name, version |-> 0, size |-> Sizes[0],
                  attrs |-> <<>>, refcount |-> 0, mutex |-> Null]
FreedNode == [NewNode(Null) EXCEPT !.alive = FALSE]

(* A thread: the operation, the dentry and attribute it is about, what it  *)
(* has read so far, the names it has listed and those it owes.             *)
Idle == [op |-> "idle", on |-> Null, attr |-> Null, seen |-> 0, listed |-> <<>>, owed |-> {}]
At(op, n, seen) == [Idle EXCEPT !.op = op, !.on = n, !.seen = seen]

Goto(t, state) == thread' = [thread EXCEPT ![t] = state]
Doing(t, op) == thread[t].op = op /\ ~fault
Alive(n) == n # Null /\ node[n].alive

(* Mutant of Unlocked: the mutex is not waited for.                        *)
Unlocked_Always(n) == TRUE

(* pthread_mutex_lock() goes on.                                           *)
Unlocked(n) == node[n].mutex = Null

Fails == fault' = TRUE /\ UNCHANGED <<node, children, thread, handle, parser>>

(* A thread is in the middle of a change of n's attributes.                *)
AttrsBusy(n) == \/ parser.op = "format" /\ parser.on = n
                \/ \E t \in Threads : thread[t].op \in {"setting", "removing"} /\ thread[t].on = n

-----------------------------------------------------------------------------
(* fsutils_get_dentry(): what a path leads to.                             *)
Files == IF Alive(Dir) THEN {n \in ToSet(children) : node[n].name # Link} ELSE {}
Links == IF Alive(Dir) THEN {n \in ToSet(children) : node[n].name = Link} ELSE {}
Paths == IF Alive(Dir) THEN {Dir} \cup Files ELSE {}

(* demuxfs_open(), demuxfs_opendir(): the path is resolved without a lock. *)
OpenLookup(t) ==
  /\ Doing(t, "idle") /\ handle[t] = Null
  /\ \E n \in Paths : Goto(t, At("open", n, 0))
  /\ UNCHANGED <<node, children, handle, parser, fault>>

OpenLock(t) ==
  /\ Doing(t, "open")
  /\ LET n == thread[t].on
     IN IF ~Alive(n) THEN Fails
        ELSE /\ Unlocked(n)
             /\ node' = [node EXCEPT ![n].mutex = t]
             /\ Goto(t, At("opened", n, node[n].refcount))
             /\ UNCHANGED <<children, handle, parser, fault>>

OpenUnlock(t) ==
  /\ Doing(t, "opened")
  /\ LET n == thread[t].on
     IN IF ~Alive(n) THEN Fails
        ELSE /\ node' = [node EXCEPT ![n].refcount = thread[t].seen + 1, ![n].mutex = Null]
             /\ handle' = [handle EXCEPT ![t] = n]
             /\ Goto(t, Idle)
             /\ UNCHANGED <<children, parser, fault>>

(* demuxfs_release(), demuxfs_releasedir(): the handle may be stale.       *)
ReleaseLock(t) ==
  /\ Doing(t, "idle") /\ handle[t] # Null
  /\ LET n == handle[t]
     IN IF ~Alive(n) THEN Fails
        ELSE /\ Unlocked(n)
             /\ node' = [node EXCEPT ![n].mutex = t]
             /\ Goto(t, At("release", n, node[n].refcount))
             /\ UNCHANGED <<children, handle, parser, fault>>

ReleaseUnlock(t) ==
  /\ Doing(t, "release")
  /\ LET n == thread[t].on
     IN IF ~Alive(n) THEN Fails
        ELSE /\ node' = [node EXCEPT ![n].refcount = thread[t].seen - 1, ![n].mutex = Null]
             /\ handle' = [handle EXCEPT ![t] = Null]
             /\ Goto(t, Idle)
             /\ UNCHANGED <<children, parser, fault>>

(* demuxfs_read() of a file that is no snapshot: contents and size are     *)
(* looked at, then the mutex is taken, and they are used.                  *)
ReadCheck(t) ==
  /\ Doing(t, "idle") /\ handle[t] \notin {Null, Dir}
  /\ IF ~Alive(handle[t]) THEN Fails
     ELSE /\ node[handle[t]].size > 0
          /\ Goto(t, At("read", handle[t], 0))
          /\ UNCHANGED <<node, children, handle, parser, fault>>

ReadLock(t) ==
  /\ Doing(t, "read")
  /\ LET n == thread[t].on
     IN IF ~Alive(n) THEN Fails
        ELSE /\ Unlocked(n)
             /\ node' = [node EXCEPT ![n].mutex = t]
             /\ Goto(t, At("copy", n, node[n].size))
             /\ UNCHANGED <<children, handle, parser, fault>>

(* memcpy() of the contents, to the size read before; the thread keeps     *)
(* what it got until its next operation.                                   *)
ReadCopy(t) ==
  /\ Doing(t, "copy")
  /\ LET n == thread[t].on
     IN IF ~Alive(n) THEN Fails
        ELSE /\ node' = [node EXCEPT ![n].mutex = Null]
             /\ Goto(t, [thread[t] EXCEPT !.op = "got", !.listed = <<node[n].version>>])
             /\ UNCHANGED <<children, handle, parser, fault>>

Done(t) ==
  /\ Doing(t, "got") \/ Doing(t, "listed")
  /\ Goto(t, Idle)
  /\ UNCHANGED <<node, children, handle, parser, fault>>

(* demuxfs_readlink() prints the contents without the mutex, under which   *)
(* the parser frees them.                                                  *)
Readlink(t) ==
  /\ Doing(t, "idle")
  /\ \E n \in Links : IF node[n].mutex = Parser THEN Fails
                      ELSE /\ Goto(t, At("got", n, node[n].size))
                           /\ UNCHANGED <<node, children, handle, parser, fault>>

-----------------------------------------------------------------------------
(* demuxfs_readdir() steps from entry to entry of the children, or walks   *)
(* off the end ("listed"); nothing keeps the parser from the list.         *)
NextChild(n) == LET i == IF n = Dir THEN 0 ELSE CHOOSE j \in 1 .. Len(children) : children[j] = n
                IN IF i = Len(children) THEN Null ELSE children[i + 1]

WalkTo(t, next, listed) ==
  Goto(t, [thread[t] EXCEPT !.op = IF next = Null THEN "listed" ELSE "readdir",
                            !.on = next, !.listed = listed])

ReaddirStart(t) ==
  /\ Doing(t, "idle") /\ handle[t] = Dir
  /\ IF ~Alive(Dir) THEN Fails
     ELSE /\ LET first == NextChild(Dir)
             IN Goto(t, [Idle EXCEPT !.op = IF first = Null THEN "listed" ELSE "readdir",
                                     !.on = first, !.owed = ToSet(children)])
          /\ UNCHANGED <<node, children, handle, parser, fault>>

ReaddirStep(t) ==
  /\ Doing(t, "readdir")
  /\ LET n == thread[t].on
     IN IF ~Alive(n) THEN Fails
        ELSE /\ WalkTo(t, NextChild(n), Append(thread[t].listed, node[n].name))
             /\ UNCHANGED <<node, children, handle, parser, fault>>

-----------------------------------------------------------------------------
(* demuxfs_setxattr() of a path: XATTR_CREATE and XATTR_REPLACE are judged *)
(* by a walk of the attributes before the mutex is taken.                  *)
HasAttr(n, a) == a \in ToSet(node[n].attrs)

SetCheck(t) ==
  /\ Doing(t, "idle")
  /\ \E n \in Files, a \in Attrs, flag \in {"none", "create", "replace"} :
       /\ \/ flag = "none"
          \/ flag = "create" /\ (AttrsBusy(n) \/ ~HasAttr(n, a))
          \/ flag = "replace" /\ (AttrsBusy(n) \/ HasAttr(n, a))
       /\ IF flag # "none" /\ AttrsBusy(n) THEN Fails
          ELSE /\ Goto(t, [At("set", n, 0) EXCEPT !.attr = a])
               /\ UNCHANGED <<node, children, handle, parser, fault>>

SetLock(t) ==
  /\ Doing(t, "set")
  /\ LET n == thread[t].on
     IN IF ~Alive(n) THEN Fails
        ELSE /\ Unlocked(n)
             /\ IF AttrsBusy(n) THEN Fails
                ELSE /\ node' = [node EXCEPT ![n].mutex = t]
                     /\ Goto(t, [thread[t] EXCEPT !.op = "setting"])
                     /\ UNCHANGED <<children, handle, parser, fault>>

(* Mutant of AttrSet: the old value is not removed first.                  *)
AttrSet_KeepsOld(attrs, a) == Append(attrs, a)

(* xattr_remove(), xattr_add().                                            *)
AttrSet(attrs, a) == Append(RemoveFirst(attrs, a), a)

SetStore(t) ==
  /\ Doing(t, "setting")
  /\ LET n == thread[t].on
     IN IF ~Alive(n) THEN Fails
        ELSE /\ node' = [node EXCEPT ![n].attrs = AttrSet(@, thread[t].attr), ![n].mutex = Null]
             /\ Goto(t, Idle)
             /\ UNCHANGED <<children, handle, parser, fault>>

(* demuxfs_removexattr(), of any attribute and without the mutex: the walk *)
(* finds the attribute, xattr_free() unlinks it.                           *)
RemoveFind(t) ==
  /\ Doing(t, "idle")
  /\ \E n \in Files, a \in Attrs \cup {Format} :
       /\ AttrsBusy(n) \/ HasAttr(n, a)
       /\ IF AttrsBusy(n) THEN Fails
          ELSE /\ Goto(t, [At("removing", n, 0) EXCEPT !.attr = a])
               /\ UNCHANGED <<node, children, handle, parser, fault>>

RemoveFree(t) ==
  /\ Doing(t, "removing")
  /\ LET n == thread[t].on
     IN IF ~Alive(n) THEN Fails
        ELSE /\ node' = [node EXCEPT ![n].attrs = RemoveFirst(@, thread[t].attr)]
             /\ Goto(t, Idle)
             /\ UNCHANGED <<children, handle, parser, fault>>

(* demuxfs_listxattr(), and demuxfs_getxattr(), which is its first walk    *)
(* alone: one walk to see what room is needed, one to copy. Attributes     *)
(* that came between the two do not fit.                                   *)
ListMeasure(t) ==
  /\ Doing(t, "idle")
  /\ \E n \in Files :
       IF AttrsBusy(n) THEN Fails
       ELSE /\ Goto(t, At("list", n, Len(node[n].attrs)))
            /\ UNCHANGED <<node, children, handle, parser, fault>>

ListCopy(t) ==
  /\ Doing(t, "list")
  /\ LET n == thread[t].on
     IN IF ~Alive(n) \/ AttrsBusy(n) \/ Len(node[n].attrs) > thread[t].seen THEN Fails
        ELSE /\ Goto(t, Idle)
             /\ UNCHANGED <<node, children, handle, parser, fault>>

-----------------------------------------------------------------------------
(* The parser thread. A step of it is `parser`: what it does, on what.     *)
Parsing(op) == parser.op = op /\ ~fault
ParserAt(op, n) == parser' = [op |-> op, on |-> n]

(* Mutant of ChildNamed: fsutils_get_child() finds nothing.                *)
ChildNamed_Never(name) == {}

(* fsutils_get_child().                                                    *)
ChildNamed(name) == {n \in ToSet(children) : node[n].name = name}

(* CREATE_FILE_BIN() and CREATE_SYMLINK() of what is not there: linked at  *)
(* the end of the list; a file is then given its format, without the mutex *)
CreateFile ==
  /\ Parsing("idle") /\ Alive(Dir)
  /\ \E name \in Names, n \in Nodes :
       /\ ChildNamed(name) = {} /\ n \notin ToSet(children)
       /\ node' = [node EXCEPT ![n] = NewNode(name)]
       /\ children' = Append(children, n)
       /\ ParserAt(IF name = Link THEN "idle" ELSE "created", n)
  /\ UNCHANGED <<thread, handle, fault>>

FormatFind ==
  /\ Parsing("created")
  /\ LET n == parser.on
     IN IF AttrsBusy(n) THEN Fails
        ELSE /\ ParserAt(IF HasAttr(n, Format) THEN "idle" ELSE "format", n)
             /\ UNCHANGED <<node, children, thread, handle, fault>>

FormatAdd ==
  /\ Parsing("format")
  /\ node' = [node EXCEPT ![parser.on].attrs = Append(@, Format)]
  /\ ParserAt("idle", Null)
  /\ UNCHANGED <<children, thread, handle, fault>>

(* CREATE_FILE_BIN() and fsutils_create_version_dir() of what is there:    *)
(* the contents are replaced, then a file's size, under the mutex.         *)
UpdateContents ==
  /\ Parsing("idle") /\ Alive(Dir)
  /\ \E name \in Names : \E n \in ChildNamed(name) :
       /\ Unlocked(n) /\ node[n].version < MaxVersion
       /\ node' = [node EXCEPT ![n].version = @ + 1, ![n].mutex = Parser]
       /\ ParserAt("update", n)
  /\ UNCHANGED <<children, thread, handle, fault>>

UpdateSize ==
  /\ Parsing("update")
  /\ LET n == parser.on
     IN node' = [node EXCEPT ![n].size = IF node[n].name = Link THEN @ ELSE Sizes[node[n].version],
                             ![n].mutex = Null]
  /\ ParserAt("idle", Null)
  /\ UNCHANGED <<children, thread, handle, fault>>

(* fsutils_dispose_tree() of Dir: its children, one by one, then itself.   *)
(* A mutex somebody holds is destroyed with the rest.                      *)
Dispose(n) == /\ IF node[n].mutex # Null \/ AttrsBusy(n) THEN fault' = TRUE ELSE UNCHANGED fault
              /\ node' = [node EXCEPT ![n] = FreedNode]

DisposeChild ==
  /\ \/ Parsing("idle") /\ Alive(Dir)
     \/ Parsing("dispose")
  /\ children # <<>>
  /\ Dispose(Head(children))
  /\ children' = Tail(children)
  /\ ParserAt("dispose", Dir)
  /\ UNCHANGED <<thread, handle>>

DisposeDir ==
  /\ \/ Parsing("idle") /\ Alive(Dir)
     \/ Parsing("dispose")
  /\ children = <<>>
  /\ Dispose(Dir)
  /\ ParserAt("idle", Null)
  /\ UNCHANGED <<children, thread, handle>>

-----------------------------------------------------------------------------
Init ==
  /\ node = [n \in Dentries |-> IF n = Dir THEN NewNode(Null) ELSE FreedNode]
  /\ children = <<>>
  /\ thread = [t \in Threads |-> Idle]
  /\ handle = [t \in Threads |-> Null]
  /\ parser = [op |-> "idle", on |-> Null]
  /\ fault = FALSE

FuseStep(t) ==
  \/ OpenLookup(t) \/ OpenLock(t) \/ OpenUnlock(t)
  \/ ReleaseLock(t) \/ ReleaseUnlock(t)
  \/ ReadCheck(t) \/ ReadLock(t) \/ ReadCopy(t) \/ Readlink(t)
  \/ ReaddirStart(t) \/ ReaddirStep(t) \/ Done(t)
  \/ SetCheck(t) \/ SetLock(t) \/ SetStore(t)
  \/ RemoveFind(t) \/ RemoveFree(t)
  \/ ListMeasure(t) \/ ListCopy(t)

ParserStep ==
  \/ CreateFile \/ FormatFind \/ FormatAdd
  \/ UpdateContents \/ UpdateSize
  \/ DisposeChild \/ DisposeDir

Next == (\E t \in Threads : FuseStep(t)) \/ ParserStep

Spec == Init /\ [][Next]_vars

-----------------------------------------------------------------------------
(* Every dentry that is not freed is Dir or among its children, once.      *)
TypeOK ==
  /\ \A n \in Nodes : node[n].alive <=> n \in ToSet(children)
  /\ IsInjective(children)
  /\ \A t \in Threads : handle[t] \in Dentries \cup {Null}

(* The count of a dentry's users is right: however opens and closes of two *)
(* threads interleave, refcount is the number of threads that hold it open *)
(* (demuxfs_open(), demuxfs_release()).                                    *)
RefcountRight ==
  fault \/ \A n \in Dentries :
             node[n].alive => node[n].refcount = Cardinality({t \in Threads : handle[t] = n})

(* What a read() returns is one version of the file: as many bytes as the  *)
(* contents it copied has, though the parser replaces contents and size in *)
(* two steps and read() looks at both before it takes the mutex.           *)
NotTorn ==
  \A t \in Threads : thread[t].op = "got" /\ thread[t].listed # <<>> =>
                     thread[t].seen = Sizes[Head(thread[t].listed)]

(* A listing is right though the parser adds files meanwhile and no lock   *)
(* is taken: no name twice, and every file that was there when it began    *)
(* and is there when it ends (demuxfs_readdir(), CREATE_COMMON).           *)
Listed ==
  \A t \in Threads : thread[t].op = "listed" =>
    /\ IsInjective(thread[t].listed)
    /\ \A n \in thread[t].owed : Alive(n) => node[n].name \in ToSet(thread[t].listed)

(* No attribute is on a file twice, whoever sets it and however often, the *)
(* parser its format, the threads theirs (demuxfs_setxattr(), xattr.c).    *)
AttrsUnique == \A n \in Nodes : IsInjective(node[n].attrs)
=============================================================================
