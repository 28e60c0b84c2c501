-------------------------- MODULE FuseHandlesProofs --------------------------
(***************************************************************************)
(* Proofs about FuseHandles: however many threads FUSE has and however     *)
(* many files the directory, refcount is the number of threads that hold a *)
(* dentry open, a read() copies one version of a file, a listing has each  *)
(* file once and no attribute is on a file twice.                          *)
(***************************************************************************)
EXTENDS FuseHandles, FiniteSetTheorems, WellFoundedInduction, TLAPS

-----------------------------------------------------------------------------
(* A thread between pthread_mutex_lock() and pthread_mutex_unlock().       *)
Busy == {"opened", "release", "copy", "setting"}

(* Records, of what types some of their fields may be.                     *)
IsNode(r) ==
  r = [alive |-> r.alive, name |-> r.name, version |-> r.version, size |-> r.size,
       attrs |-> r.attrs, refcount |-> r.refcount, mutex |-> r.mutex]
IsThread(r) ==
  r = [op |-> r.op, on |-> r.on, attr |-> r.attr, seen |-> r.seen, listed |-> r.listed,
       owed |-> r.owed]

Shape ==
  /\ node = [n \in Dentries |-> node[n]] /\ \A n \in Dentries : IsNode(node[n])
  /\ thread = [t \in Threads |-> thread[t]]
  /\ \A t \in Threads : IsThread(thread[t]) /\ thread[t].on \in Dentries \cup {Null}
  /\ handle \in [Threads -> Dentries \cup {Null}]
  /\ children \in Seq(Nodes)
  /\ parser.op \in {"idle", "created", "format", "update", "dispose"}

(* A mutex is held by the thread that is at work under it.                 *)
MutexRight ==
  \A n \in Dentries : Alive(n) =>
    /\ node[n].mutex \in Threads \cup {Parser, Null}
    /\ \A t \in Threads : node[n].mutex = t <=> thread[t].op \in Busy /\ thread[t].on = n
    /\ node[n].mutex = Parser <=> parser.op = "update" /\ parser.on = n

(* What a thread saw under a mutex is still so.                            *)
SeenRight ==
  \A t \in Threads :
    LET n == thread[t].on IN
    /\ thread[t].op \in {"opened", "release"} /\ Alive(n) => thread[t].seen = node[n].refcount
    /\ thread[t].op = "release" => handle[t] = n
    /\ thread[t].op \in {"open", "opened"} => handle[t] = Null
    /\ thread[t].op \in {"read", "copy"} => n \in Nodes
    /\ thread[t].op = "copy" /\ Alive(n) => thread[t].seen = node[n].size
    /\ thread[t].op \in {"open", "opened", "read", "copy"} /\ Alive(n) => node[n].name # Link
    /\ Alive(handle[t]) => node[handle[t]].name # Link

Users(n) == {t \in Threads : handle[t] = n}
CountRight == \A n \in Dentries : Alive(n) => node[n].refcount = Cardinality(Users(n))

SizeRight ==
  \A n \in Nodes : Alive(n) =>
    /\ node[n].version \in 0 .. MaxVersion
    /\ node[n].name # Link /\ node[n].mutex # Parser => node[n].size = Sizes[node[n].version]

(* As long as the directory is not being freed, nothing is stale.          *)
Steady == Alive(Dir) /\ parser.op # "dispose"
NothingStale ==
  /\ \A n \in Nodes : Alive(n) => n \in ToSet(children)
  /\ Steady =>
       /\ \A n \in ToSet(children) : Alive(n)
       /\ \A t \in Threads : /\ handle[t] # Null => Alive(handle[t])
                             /\ thread[t].on # Null => Alive(thread[t].on)
  /\ parser.op \in {"created", "format", "update"} =>
       Alive(Dir) /\ parser.on \in Nodes /\ Alive(parser.on)
  /\ Alive(Dir) => node[Dir].name # Link

Inner == Shape /\ MutexRight /\ SeenRight /\ CountRight /\ SizeRight /\ NothingStale
IInv == (~fault => Inner) /\ NotTorn

-----------------------------------------------------------------------------
LEMMA Distinct ==
  /\ Dir \in Dentries /\ Nodes \subseteq Dentries /\ Null \notin Dentries /\ Dir \notin Nodes
  /\ Parser \notin Threads /\ Null \notin Threads /\ Null # Parser
  /\ Link \in Names /\ Null \notin Names
<1> QED BY HandlesAssumption DEF Dentries

LEMMA Sequences ==
  /\ \A s \in Seq(Nodes), n \in Nodes : Append(s, n) \in Seq(Nodes) /\ ToSet(Append(s, n)) = ToSet(s) \cup {n}
  /\ \A s \in Seq(Nodes) : ToSet(s) \subseteq Nodes
  /\ \A s \in Seq(Nodes) : s # <<>> => Tail(s) \in Seq(Nodes) /\ Head(s) \in Nodes
                                        /\ ToSet(s) \subseteq {Head(s)} \cup ToSet(Tail(s))
<1>1. ASSUME NEW s \in Seq(Nodes), NEW n \in Nodes
      PROVE  Append(s, n) \in Seq(Nodes) /\ ToSet(Append(s, n)) = ToSet(s) \cup {n}
  <2>1. Append(s, n) \in Seq(Nodes) /\ DOMAIN Append(s, n) = 1 .. Len(s) + 1 /\ DOMAIN s = 1 .. Len(s)
        /\ Len(s) \in Nat
    OBVIOUS
  <2>2. Append(s, n)[Len(s) + 1] = n /\ \A i \in 1 .. Len(s) : Append(s, n)[i] = s[i]
    OBVIOUS
  <2> QED BY <2>1, <2>2 DEF ToSet
<1>2. \A s \in Seq(Nodes) : ToSet(s) \subseteq Nodes
  BY DEF ToSet
<1>3. ASSUME NEW s \in Seq(Nodes), s # <<>>
      PROVE  Tail(s) \in Seq(Nodes) /\ Head(s) \in Nodes /\ ToSet(s) \subseteq {Head(s)} \cup ToSet(Tail(s))
  <2>1. Tail(s) \in Seq(Nodes) /\ Head(s) \in Nodes
    BY <1>3
  <2>2. ASSUME NEW i \in DOMAIN s, i # 1 PROVE s[i] \in ToSet(Tail(s))
    <3>1. i - 1 \in DOMAIN Tail(s) /\ Tail(s)[i - 1] = s[i]
      BY <1>3, <2>2
    <3> QED BY <3>1 DEF ToSet
  <2> QED BY <1>3, <2>1, <2>2 DEF ToSet
<1> QED BY <1>1, <1>2, <1>3

(* Parts of a record.                                                      *)
LEMMA NodeMade ==
  ASSUME NEW name
  PROVE  IsNode(NewNode(name)) /\ NewNode(name).alive /\ NewNode(name).name = name
         /\ NewNode(name).version = 0 /\ NewNode(name).size = Sizes[0]
         /\ NewNode(name).refcount = 0 /\ NewNode(name).mutex = Null
<1>1. IsNode(NewNode(name))
  BY DEF NewNode, IsNode
<1>2. NewNode(name).alive
  BY DEF NewNode
<1> QED BY <1>1, <1>2 DEF NewNode

LEMMA NodeFreed == IsNode(FreedNode) /\ FreedNode.alive = FALSE
<1>1. ASSUME NEW w PROVE IsNode([NewNode(Null) EXCEPT !.alive = w])
  <2>1. [NewNode(Null) EXCEPT !.alive = w] =
          [alive |-> w, name |-> Null, version |-> 0, size |-> Sizes[0],
           attrs |-> <<>>, refcount |-> 0, mutex |-> Null]
    BY DEF NewNode
  <2> QED BY <2>1 DEF IsNode
<1>2. IsNode(FreedNode)
  BY <1>1 DEF FreedNode
<1>3. FreedNode.alive = FALSE
  BY DEF FreedNode, NewNode
<1> QED BY <1>2, <1>3

LEMMA ThreadIdle == IsThread(Idle) /\ Idle.op = "idle" /\ Idle.on = Null /\ Idle.listed = <<>>
<1> QED BY DEF Idle, IsThread

(* What some steps make of a thread, named for the provers' sake.          *)
Got(r, op, x) == [r EXCEPT !.op = op, !.listed = x]
Listing(r, op, on, x) == [r EXCEPT !.op = op, !.on = on, !.listed = x]
Owing(r, op, on, x) == [r EXCEPT !.op = op, !.on = on, !.owed = x]

LEMMA ThreadGot ==
  ASSUME NEW r, IsThread(r), NEW op, NEW x
  PROVE  LET q == Got(r, op, x) IN
         IsThread(q) /\ q.op = op /\ q.on = r.on /\ q.seen = r.seen /\ q.listed = x
<1>1. Got(r, op, x) = [[r EXCEPT !.op = op] EXCEPT !.listed = x]
  BY DEF IsThread, Got
<1> DEFINE p == [r EXCEPT !.op = op]
<1>2. IsThread(p) /\ p.op = op /\ p.on = r.on /\ p.seen = r.seen /\ p.listed = r.listed
  BY DEF IsThread
<1> HIDE DEF p
<1>4. LET q == [p EXCEPT !.listed = x] IN
      IsThread(q) /\ q.op = op /\ q.on = r.on /\ q.seen = r.seen /\ q.listed = x
  BY <1>2 DEF IsThread
<1> QED BY <1>1, <1>4 DEF p

LEMMA ThreadListed ==
  ASSUME NEW r, IsThread(r), NEW op, NEW on, NEW x
  PROVE  LET q == Listing(r, op, on, x) IN
         IsThread(q) /\ q.op = op /\ q.on = on /\ q.seen = r.seen /\ q.listed = x /\ q.owed = r.owed
<1>1. Listing(r, op, on, x) = [[[r EXCEPT !.op = op] EXCEPT !.on = on] EXCEPT !.listed = x]
  BY DEF IsThread, Listing
<1> DEFINE p == [r EXCEPT !.op = op]
<1>2. IsThread(p) /\ p.op = op /\ p.on = r.on /\ p.seen = r.seen /\ p.listed = r.listed /\ p.owed = r.owed
  BY DEF IsThread
<1> HIDE DEF p
<1> DEFINE w == [p EXCEPT !.on = on]
<1>3. IsThread(w) /\ w.op = op /\ w.on = on /\ w.seen = r.seen /\ w.listed = r.listed /\ w.owed = r.owed
  BY <1>2 DEF IsThread
<1> HIDE DEF w
<1>4. LET q == [w EXCEPT !.listed = x] IN
      IsThread(q) /\ q.op = op /\ q.on = on /\ q.seen = r.seen /\ q.listed = x /\ q.owed = r.owed
  BY <1>3 DEF IsThread
<1> QED BY <1>1, <1>4 DEF p, w

LEMMA ThreadOwed ==
  ASSUME NEW r, IsThread(r), NEW op, NEW on, NEW x
  PROVE  LET q == Owing(r, op, on, x) IN
         IsThread(q) /\ q.op = op /\ q.on = on /\ q.seen = r.seen /\ q.listed = r.listed /\ q.owed = x
<1>1. Owing(r, op, on, x) = [[[r EXCEPT !.op = op] EXCEPT !.on = on] EXCEPT !.owed = x]
  BY DEF IsThread, Owing
<1> DEFINE p == [r EXCEPT !.op = op]
<1>2. IsThread(p) /\ p.op = op /\ p.on = r.on /\ p.seen = r.seen /\ p.listed = r.listed
  BY DEF IsThread
<1> HIDE DEF p
<1> DEFINE w == [p EXCEPT !.on = on]
<1>3. IsThread(w) /\ w.op = op /\ w.on = on /\ w.seen = r.seen /\ w.listed = r.listed
  BY <1>2 DEF IsThread
<1> HIDE DEF w
<1>4. LET q == [w EXCEPT !.owed = x] IN
      IsThread(q) /\ q.op = op /\ q.on = on /\ q.seen = r.seen /\ q.listed = r.listed /\ q.owed = x
  BY <1>3 DEF IsThread
<1> QED BY <1>1, <1>4 DEF p, w

LEMMA ThreadAt ==
  ASSUME NEW op, NEW n, NEW seen
  PROVE  IsThread(At(op, n, seen)) /\ At(op, n, seen).op = op /\ At(op, n, seen).on = n
         /\ At(op, n, seen).seen = seen /\ At(op, n, seen).listed = <<>>
<1>1. At(op, n, seen) = [[[Idle EXCEPT !.op = op] EXCEPT !.on = n] EXCEPT !.seen = seen]
  BY ThreadIdle DEF At, IsThread
<1> DEFINE p == [Idle EXCEPT !.op = op]
           w == [p EXCEPT !.on = n]
<1>2. IsThread(p) /\ p.op = op /\ p.listed = <<>>
  BY ThreadIdle DEF IsThread
<1>3. IsThread(w) /\ w.op = op /\ w.on = n /\ w.listed = <<>>
  <2> HIDE DEF p
  <2> QED BY <1>2 DEF IsThread
<1>4. LET q == [w EXCEPT !.seen = seen] IN
      IsThread(q) /\ q.op = op /\ q.on = n /\ q.seen = seen /\ q.listed = <<>>
  <2> HIDE DEF w
  <2> QED BY <1>3 DEF IsThread
<1> QED BY <1>1, <1>4

-----------------------------------------------------------------------------
(* A thread t goes on to s, and n, if it changed, to r; everything else is *)
(* as it was.                                                              *)
Turn(t, s) ==
  /\ thread' = [thread EXCEPT ![t] = s]
  /\ IsThread(s) /\ s.on \in Dentries \cup {Null}
  /\ Steady /\ s.on # Null => Alive(s.on)
  /\ UNCHANGED <<children, parser, fault>>
Same(n, r) == /\ node' = [node EXCEPT ![n] = r]
              /\ IsNode(r) /\ r.alive = node[n].alive /\ r.name = node[n].name
              /\ r.version = node[n].version /\ r.size = node[n].size

LEMMA TurnFacts ==
  ASSUME Inner, NEW t \in Threads, NEW s, Turn(t, s)
  PROVE  /\ thread'[t] = s /\ \A u \in Threads \ {t} : thread'[u] = thread[u]
         /\ thread' = [u \in Threads |-> thread'[u]]
         /\ \A u \in Threads : IsThread(thread'[u]) /\ thread'[u].on \in Dentries \cup {Null}
         /\ children' = children /\ parser' = parser /\ fault' = fault
<1> QED BY DEF Inner, Shape, Turn

(* Without a mutex, a thread only looks.                                   *)
LEMMA LookKeeps ==
  ASSUME Inner, NotTorn, NEW t \in Threads, NEW s, Turn(t, s), UNCHANGED <<node, handle>>,
         thread[t].op \notin Busy, s.op \notin Busy,
         s.op = "open" => handle[t] = Null,
         s.op = "read" => s.on \in Nodes,
         s.op \in {"open", "read"} /\ Alive(s.on) => node[s.on].name # Link,
         s.op = "got" => s.listed = <<>>
  PROVE  Inner' /\ NotTorn'
<1>1. /\ thread'[t] = s /\ \A u \in Threads \ {t} : thread'[u] = thread[u]
      /\ thread' = [u \in Threads |-> thread'[u]]
      /\ \A u \in Threads : IsThread(thread'[u]) /\ thread'[u].on \in Dentries \cup {Null}
      /\ children' = children /\ parser' = parser /\ fault' = fault
  BY TurnFacts
<1>2. node' = node /\ handle' = handle
  OBVIOUS
<1>3. Shape'
  BY <1>1, <1>2 DEF Inner, Shape
<1>4. MutexRight'
  BY <1>1, <1>2 DEF Inner, MutexRight, Alive
<1>5. SeenRight'
  <2> SUFFICES ASSUME NEW u \in Threads
               PROVE  LET n == thread'[u].on IN
    /\ thread'[u].op \in {"opened", "release"} /\ Alive(n) => thread'[u].seen = node[n].refcount
    /\ thread'[u].op = "release" => handle[u] = n
    /\ thread'[u].op \in {"open", "opened"} => handle[u] = Null
    /\ thread'[u].op \in {"read", "copy"} => n \in Nodes
    /\ thread'[u].op = "copy" /\ Alive(n) => thread'[u].seen = node[n].size
    /\ thread'[u].op \in {"open", "opened", "read", "copy"} /\ Alive(n) => node[n].name # Link
    /\ Alive(handle[u]) => node[handle[u]].name # Link
    BY <1>2 DEF SeenRight, Alive
  <2>1. CASE u = t
    BY <1>1, <2>1 DEF Busy, Inner, SeenRight
  <2>2. CASE u # t
    BY <1>1, <2>2 DEF Inner, SeenRight
  <2> QED BY <2>1, <2>2
<1>6. CountRight' /\ SizeRight'
  BY <1>2 DEF Inner, CountRight, SizeRight, Users, Alive
<1>7. NothingStale'
  <2>1. Steady' = Steady
    BY <1>1, <1>2 DEF Steady, Alive
  <2>2. Steady => \A u \in Threads : thread'[u].on # Null => Alive(thread'[u].on)
    BY <1>1 DEF Turn, Inner, NothingStale
  <2> QED BY <1>1, <1>2, <2>1, <2>2 DEF Inner, NothingStale, Alive
<1>8. NotTorn'
  BY <1>1 DEF NotTorn
<1> QED BY <1>3, <1>4, <1>5, <1>6, <1>7, <1>8 DEF Inner

(* pthread_mutex_lock() of a dentry, and what is looked at then.           *)
LEMMA LockKeeps ==
  ASSUME Inner, NotTorn, NEW t \in Threads, NEW s, NEW n \in Dentries, NEW r,
         Turn(t, s), handle' = handle, Same(n, r), Alive(n),
         r.refcount = node[n].refcount, node[n].mutex = Null, r.mutex = t,
         thread[t].op \notin Busy, s.op \in Busy, s.on = n,
         s.op \in {"opened", "release"} => s.seen = node[n].refcount,
         s.op = "release" => handle[t] = n,
         s.op = "opened" => handle[t] = Null,
         s.op = "copy" => n \in Nodes /\ s.seen = node[n].size,
         s.op \in {"opened", "copy"} => node[n].name # Link
  PROVE  Inner' /\ NotTorn'
<1>1. /\ thread'[t] = s /\ \A u \in Threads \ {t} : thread'[u] = thread[u]
      /\ thread' = [u \in Threads |-> thread'[u]]
      /\ \A u \in Threads : IsThread(thread'[u]) /\ thread'[u].on \in Dentries \cup {Null}
      /\ children' = children /\ parser' = parser /\ fault' = fault
  BY TurnFacts
<1>2. /\ node'[n] = r /\ \A m \in Dentries \ {n} : node'[m] = node[m]
      /\ node' = [m \in Dentries |-> node'[m]] /\ \A m \in Dentries : IsNode(node'[m])
      /\ \A m \in Dentries : /\ node'[m].alive = node[m].alive /\ node'[m].name = node[m].name
                             /\ node'[m].version = node[m].version /\ node'[m].size = node[m].size
                             /\ node'[m].refcount = node[m].refcount
  BY DEF Same, Inner, Shape
<1>3. \A m \in Dentries \cup {Null} : Alive(m)' = Alive(m)
  BY <1>2, Distinct DEF Alive
<1>4. Shape'
  BY <1>1, <1>2 DEF Inner, Shape
<1>5. MutexRight'
  <2> SUFFICES ASSUME NEW m \in Dentries, Alive(m)
               PROVE  /\ node'[m].mutex \in Threads \cup {Parser, Null}
                      /\ \A u \in Threads : node'[m].mutex = u <=> thread'[u].op \in Busy /\ thread'[u].on = m
                      /\ node'[m].mutex = Parser <=> parser.op = "update" /\ parser.on = m
    BY <1>1, <1>3 DEF MutexRight
  <2>1. /\ node[m].mutex \in Threads \cup {Parser, Null}
        /\ \A u \in Threads : node[m].mutex = u <=> thread[u].op \in Busy /\ thread[u].on = m
        /\ node[m].mutex = Parser <=> parser.op = "update" /\ parser.on = m
    BY DEF Inner, MutexRight
  <2>2. CASE m = n
    BY <1>1, <1>2, <2>1, <2>2, Distinct
  <2>3. CASE m # n
    BY <1>1, <1>2, <2>1, <2>3
  <2> QED BY <2>2, <2>3
<1>6. SeenRight'
  <2> SUFFICES ASSUME NEW u \in Threads
               PROVE  LET m == thread'[u].on IN
    /\ thread'[u].op \in {"opened", "release"} /\ Alive(m) => thread'[u].seen = node[m].refcount
    /\ thread'[u].op = "release" => handle[u] = m
    /\ thread'[u].op \in {"open", "opened"} => handle[u] = Null
    /\ thread'[u].op \in {"read", "copy"} => m \in Nodes
    /\ thread'[u].op = "copy" /\ Alive(m) => thread'[u].seen = node[m].size
    /\ thread'[u].op \in {"open", "opened", "read", "copy"} /\ Alive(m) => node[m].name # Link
    /\ Alive(handle[u]) => node[handle[u]].name # Link
    <3>1. \A u \in Threads : handle[u] \in Dentries \cup {Null} /\ thread'[u].on \in Dentries \cup {Null}
      BY <1>1 DEF Inner, Shape
    <3>2. Null \notin Dentries
      BY Distinct
    <3> QED BY <1>2, <1>3, <3>1, <3>2 DEF SeenRight, Alive
  <2>1. CASE u = t
    BY <1>1, <2>1 DEF Busy, Inner, SeenRight
  <2>2. CASE u # t
    BY <1>1, <2>2 DEF Inner, SeenRight
  <2> QED BY <2>1, <2>2
<1>7. CountRight'
  BY <1>2, <1>3 DEF Inner, CountRight, Users
<1>8. SizeRight'
  BY <1>2, <1>3, Distinct DEF Inner, SizeRight
<1>9. NothingStale'
  <2>1. Steady' = Steady
    BY <1>1, <1>3, Distinct DEF Steady
  <2>2. Steady => \A u \in Threads : thread'[u].on # Null => Alive(thread'[u].on)
    BY <1>1 DEF Turn, Inner, NothingStale
  <2>3. ToSet(children) \subseteq Nodes
    BY Sequences DEF Inner, Shape
  <2>4. handle \in [Threads -> Dentries \cup {Null}]
    BY DEF Inner, Shape
  <2> QED BY <1>1, <1>2, <1>3, <2>1, <2>2, <2>3, <2>4, Distinct DEF Inner, NothingStale
<1>10. NotTorn'
  BY <1>1 DEF NotTorn, Busy
<1> QED BY <1>4, <1>5, <1>6, <1>7, <1>8, <1>9, <1>10 DEF Inner

(* pthread_mutex_unlock(), with refcount and the handle as they are then.  *)
LEMMA UnlockKeeps ==
  ASSUME Inner, NotTorn, NEW t \in Threads, NEW s, NEW n \in Dentries, NEW r, NEW h,
         Turn(t, s), Same(n, r), Alive(n), r.mutex = Null,
         handle' = [handle EXCEPT ![t] = h],
         h = handle[t] \/ (h = n /\ handle[t] = Null) \/ (h = Null /\ handle[t] = n),
         h = n => node[n].name # Link,
         r.refcount = Cardinality(Users(n)'),
         thread[t].op \in Busy, thread[t].on = n, s.op \in {"idle", "got"},
         s.op = "got" /\ s.listed # <<>> => s.seen = Sizes[Head(s.listed)]
  PROVE  Inner' /\ NotTorn'
<1>1. /\ thread'[t] = s /\ \A u \in Threads \ {t} : thread'[u] = thread[u]
      /\ thread' = [u \in Threads |-> thread'[u]]
      /\ \A u \in Threads : IsThread(thread'[u]) /\ thread'[u].on \in Dentries \cup {Null}
      /\ children' = children /\ parser' = parser /\ fault' = fault
  BY TurnFacts
<1>2. /\ node'[n] = r /\ \A m \in Dentries \ {n} : node'[m] = node[m]
      /\ node' = [m \in Dentries |-> node'[m]] /\ \A m \in Dentries : IsNode(node'[m])
      /\ \A m \in Dentries : /\ node'[m].alive = node[m].alive /\ node'[m].name = node[m].name
                             /\ node'[m].version = node[m].version /\ node'[m].size = node[m].size
  BY DEF Same, Inner, Shape
<1>3. \A m \in Dentries \cup {Null} : Alive(m)' = Alive(m)
  BY <1>2, Distinct DEF Alive
<1>4. /\ handle' \in [Threads -> Dentries \cup {Null}]
      /\ handle'[t] = h /\ \A u \in Threads \ {t} : handle'[u] = handle[u]
  BY DEF Inner, Shape
<1>5. Shape'
  BY <1>1, <1>2, <1>4 DEF Inner, Shape
<1>6. node[n].mutex = t
  BY DEF Inner, MutexRight
<1>7. MutexRight'
  <2> SUFFICES ASSUME NEW m \in Dentries, Alive(m)
               PROVE  /\ node'[m].mutex \in Threads \cup {Parser, Null}
                      /\ \A u \in Threads : node'[m].mutex = u <=> thread'[u].op \in Busy /\ thread'[u].on = m
                      /\ node'[m].mutex = Parser <=> parser.op = "update" /\ parser.on = m
    BY <1>1, <1>3 DEF MutexRight
  <2>1. /\ node[m].mutex \in Threads \cup {Parser, Null}
        /\ \A u \in Threads : node[m].mutex = u <=> thread[u].op \in Busy /\ thread[u].on = m
        /\ node[m].mutex = Parser <=> parser.op = "update" /\ parser.on = m
    BY DEF Inner, MutexRight
  <2>2. s.op \notin Busy
    BY DEF Busy
  <2>3. CASE m = n
    BY <1>1, <1>2, <1>6, <2>1, <2>2, <2>3, Distinct
  <2>4. CASE m # n
    BY <1>1, <1>2, <2>1, <2>2, <2>4
  <2> QED BY <2>3, <2>4
<1>8. \A u \in Threads \ {t} : thread[u].op \in Busy => thread[u].on # n
  BY <1>6 DEF Inner, MutexRight
<1>9. SeenRight'
  <2> SUFFICES ASSUME NEW u \in Threads
               PROVE  LET m == thread'[u].on IN
    /\ thread'[u].op \in {"opened", "release"} /\ Alive(m) => thread'[u].seen = node'[m].refcount
    /\ thread'[u].op = "release" => handle'[u] = m
    /\ thread'[u].op \in {"open", "opened"} => handle'[u] = Null
    /\ thread'[u].op \in {"read", "copy"} => m \in Nodes
    /\ thread'[u].op = "copy" /\ Alive(m) => thread'[u].seen = node[m].size
    /\ thread'[u].op \in {"open", "opened", "read", "copy"} /\ Alive(m) => node[m].name # Link
    /\ Alive(handle'[u]) => node[handle'[u]].name # Link
    <3>1. \A u \in Threads : handle'[u] \in Dentries \cup {Null} /\ thread'[u].on \in Dentries \cup {Null}
      BY <1>1, <1>4
    <3>2. Null \notin Dentries
      BY Distinct
    <3> QED BY <1>2, <1>3, <3>1, <3>2 DEF SeenRight, Alive
  <2>1. CASE u = t
    <3>1. thread'[u].op \in {"idle", "got"} /\ handle'[u] = h
      BY <1>1, <1>4, <2>1
    <3>2. Alive(h) => node[h].name # Link
      BY DEF Inner, SeenRight, Alive
    <3> QED BY <3>1, <3>2
  <2>2. CASE u # t
    <3>1. thread'[u] = thread[u] /\ handle'[u] = handle[u]
      BY <1>1, <1>4, <2>2
    <3>2. thread[u].op \in {"opened", "release"} /\ Alive(thread[u].on) =>
            node'[thread[u].on].refcount = node[thread[u].on].refcount
      BY <1>1, <1>2, <1>8, <2>2, <3>1 DEF Busy, Alive
    <3> QED BY <3>1, <3>2 DEF Inner, SeenRight
  <2> QED BY <2>1, <2>2
<1>10. CountRight'
  <2> SUFFICES ASSUME NEW m \in Dentries, Alive(m)
               PROVE  node'[m].refcount = Cardinality(Users(m)')
    BY <1>3 DEF CountRight
  <2>1. CASE m = n
    BY <1>2, <2>1
  <2>2. CASE m # n
    <3>1. Users(m)' = Users(m)
      BY <1>4, <2>2, Distinct DEF Users
    <3> QED BY <1>2, <2>2, <3>1 DEF Inner, CountRight
  <2> QED BY <2>1, <2>2
<1>11. SizeRight'
  BY <1>2, <1>3, <1>6, Distinct DEF Inner, SizeRight
<1>12. NothingStale'
  <2>1. Steady' = Steady
    BY <1>1, <1>3, Distinct DEF Steady
  <2>2. Steady => \A u \in Threads : thread'[u].on # Null => Alive(thread'[u].on)
    BY <1>1 DEF Turn, Inner, NothingStale
  <2>3. ToSet(children) \subseteq Nodes
    BY Sequences DEF Inner, Shape
  <2>4. Steady => \A u \in Threads : handle'[u] # Null => Alive(handle'[u])
    BY <1>4 DEF Inner, NothingStale
  <2> QED BY <1>1, <1>2, <1>3, <1>4, <2>1, <2>2, <2>3, <2>4, Distinct DEF Inner, NothingStale
<1>13. NotTorn'
  BY <1>1 DEF NotTorn
<1> QED BY <1>5, <1>7, <1>9, <1>10, <1>11, <1>12, <1>13 DEF Inner

(* demuxfs_removexattr() and the parser's xattr_add(): attributes alone    *)
(* change.                                                                 *)
Attributed(n, r) ==
  /\ node' = [node EXCEPT ![n] = r]
  /\ IsNode(r) /\ r.alive = node[n].alive /\ r.name = node[n].name
  /\ r.version = node[n].version /\ r.size = node[n].size
  /\ r.refcount = node[n].refcount /\ r.mutex = node[n].mutex

LEMMA AttributesKeep ==
  ASSUME Inner, NotTorn, NEW n \in Dentries, NEW r, Attributed(n, r),
         UNCHANGED <<children, handle, fault>>,
         \A t \in Threads :
           \/ /\ thread'[t].op = thread[t].op /\ thread'[t].on = thread[t].on
              /\ thread'[t].seen = thread[t].seen /\ thread'[t].listed = thread[t].listed
           \/ thread[t].op = "removing" /\ thread'[t] = Idle,
         thread' = [t \in Threads |-> thread'[t]],
         \A t \in Threads : IsThread(thread'[t]),
         \/ parser' = parser
         \/ /\ parser.op \in {"created", "format"} /\ parser'.op \in {"idle", "format"}
            /\ parser'.op = "format" => parser'.on = parser.on
  PROVE  Inner' /\ NotTorn'
<1>1. /\ \A m \in Dentries \ {n} : node'[m] = node[m]
      /\ node' = [m \in Dentries |-> node'[m]] /\ \A m \in Dentries : IsNode(node'[m])
      /\ \A m \in Dentries : /\ node'[m].alive = node[m].alive /\ node'[m].name = node[m].name
                             /\ node'[m].version = node[m].version /\ node'[m].size = node[m].size
                             /\ node'[m].refcount = node[m].refcount /\ node'[m].mutex = node[m].mutex
  BY DEF Attributed, Inner, Shape
<1>2. \A m \in Dentries \cup {Null} : Alive(m)' = Alive(m)
  BY <1>1, Distinct DEF Alive
<1>3. ASSUME NEW t \in Threads
      PROVE  \/ /\ thread'[t].op = thread[t].op /\ thread'[t].on = thread[t].on
                /\ thread'[t].seen = thread[t].seen /\ thread'[t].listed = thread[t].listed
             \/ thread[t].op = "removing" /\ thread'[t].op = "idle" /\ thread'[t].on = Null
  BY ThreadIdle
<1>4. Shape'
  BY <1>1, <1>3 DEF Inner, Shape
<1>5. MutexRight'
  <2> SUFFICES ASSUME NEW m \in Dentries, Alive(m)
               PROVE  /\ node[m].mutex \in Threads \cup {Parser, Null}
                      /\ \A u \in Threads : node[m].mutex = u <=> thread'[u].op \in Busy /\ thread'[u].on = m
                      /\ node[m].mutex = Parser <=> parser'.op = "update" /\ parser'.on = m
    BY <1>1, <1>2 DEF MutexRight
  <2>1. \A u \in Threads : thread'[u].op \in Busy /\ thread'[u].on = m
                             <=> thread[u].op \in Busy /\ thread[u].on = m
    BY <1>3 DEF Busy
  <2> QED BY <2>1 DEF Inner, MutexRight
<1>6. SeenRight'
  <2> SUFFICES ASSUME NEW u \in Threads
               PROVE  LET m == thread'[u].on IN
    /\ thread'[u].op \in {"opened", "release"} /\ Alive(m) => thread'[u].seen = node[m].refcount
    /\ thread'[u].op = "release" => handle[u] = m
    /\ thread'[u].op \in {"open", "opened"} => handle[u] = Null
    /\ thread'[u].op \in {"read", "copy"} => m \in Nodes
    /\ thread'[u].op = "copy" /\ Alive(m) => thread'[u].seen = node[m].size
    /\ thread'[u].op \in {"open", "opened", "read", "copy"} /\ Alive(m) => node[m].name # Link
    /\ Alive(handle[u]) => node[handle[u]].name # Link
    <3>1. \A u \in Threads : handle[u] \in Dentries \cup {Null} /\ thread'[u].on \in Dentries \cup {Null}
      BY <1>3 DEF Inner, Shape
    <3>2. Null \notin Dentries
      BY Distinct
    <3> QED BY <1>1, <1>2, <3>1, <3>2 DEF SeenRight, Alive
  <2>1. CASE thread'[u].op = "idle"
    BY <2>1 DEF Inner, SeenRight
  <2>2. CASE thread'[u].op # "idle"
    BY <1>3, <2>2 DEF Inner, SeenRight
  <2> QED BY <2>1, <2>2
<1>7. CountRight' /\ SizeRight'
  <2>1. CountRight'
    BY <1>1, <1>2 DEF Inner, CountRight, Users
  <2>2. SizeRight'
    BY <1>1, <1>2, Distinct DEF Inner, SizeRight
  <2> QED BY <2>1, <2>2
<1>8. NothingStale'
  <2>1. Steady' = Steady
    BY <1>1, <1>2, Distinct DEF Steady
  <2>2. ToSet(children) \subseteq Nodes
    BY Sequences DEF Inner, Shape
  <2>3. handle \in [Threads -> Dentries \cup {Null}]
    BY DEF Inner, Shape
  <2>4. Steady => \A u \in Threads : thread'[u].on # Null => Alive(thread'[u].on)
    BY <1>3 DEF Inner, NothingStale
  <2>5. parser'.op \in {"created", "format", "update"} =>
          parser.op \in {"created", "format", "update"} /\ parser'.on = parser.on
    OBVIOUS
  <2> QED BY <1>1, <1>2, <1>3, <2>1, <2>2, <2>3, <2>4, <2>5, Distinct DEF Inner, NothingStale, Shape
<1>9. NotTorn'
  BY <1>3 DEF NotTorn
<1> QED BY <1>4, <1>5, <1>6, <1>7, <1>8, <1>9 DEF Inner

-----------------------------------------------------------------------------
(* A step that uses what is freed or changing.                             *)
LEMMA FailsKeeps ==
  ASSUME NotTorn, Fails
  PROVE  IInv'
<1> QED BY DEF Fails, NotTorn, IInv

(* What steps that give a mutex back or take it make of a dentry.          *)
Counted(r, x, y) == [[r EXCEPT !.refcount = x] EXCEPT !.mutex = y]
Given(r, x, y) == [[r EXCEPT !.attrs = x] EXCEPT !.mutex = y]
Renewed(r, x, y) == [[r EXCEPT !.version = x] EXCEPT !.mutex = y]
Resized(r, x, y) == [[r EXCEPT !.size = x] EXCEPT !.mutex = y]

LEMMA CountedFields ==
  ASSUME NEW r, IsNode(r), NEW x, NEW y
  PROVE  LET q == Counted(r, x, y) IN
         /\ IsNode(q) /\ q.mutex = y
         /\ q.alive = r.alive /\ q.name = r.name /\ q.attrs = r.attrs
         /\ q.version = r.version /\ q.size = r.size /\ q.refcount = x
<1> DEFINE p == [r EXCEPT !.refcount = x]
<1>1. IsNode(p) /\ p.alive = r.alive /\ p.name = r.name /\ p.attrs = r.attrs
     /\ p.version = r.version /\ p.size = r.size /\ p.refcount = x
  BY DEF IsNode
<1> HIDE DEF p
<1>2. LET q == [p EXCEPT !.mutex = y] IN
      /\ IsNode(q) /\ q.mutex = y
      /\ q.alive = r.alive /\ q.name = r.name /\ q.attrs = r.attrs
      /\ q.version = r.version /\ q.size = r.size /\ q.refcount = x
  BY <1>1 DEF IsNode
<1> QED BY <1>2 DEF Counted, p

LEMMA GivenFields ==
  ASSUME NEW r, IsNode(r), NEW x, NEW y
  PROVE  LET q == Given(r, x, y) IN
         /\ IsNode(q) /\ q.mutex = y
         /\ q.alive = r.alive /\ q.name = r.name /\ q.attrs = x
         /\ q.version = r.version /\ q.size = r.size /\ q.refcount = r.refcount
<1> DEFINE p == [r EXCEPT !.attrs = x]
<1>1. IsNode(p) /\ p.alive = r.alive /\ p.name = r.name /\ p.attrs = x
     /\ p.version = r.version /\ p.size = r.size /\ p.refcount = r.refcount
  BY DEF IsNode
<1> HIDE DEF p
<1>2. LET q == [p EXCEPT !.mutex = y] IN
      /\ IsNode(q) /\ q.mutex = y
      /\ q.alive = r.alive /\ q.name = r.name /\ q.attrs = x
      /\ q.version = r.version /\ q.size = r.size /\ q.refcount = r.refcount
  BY <1>1 DEF IsNode
<1> QED BY <1>2 DEF Given, p

LEMMA RenewedFields ==
  ASSUME NEW r, IsNode(r), NEW x, NEW y
  PROVE  LET q == Renewed(r, x, y) IN
         /\ IsNode(q) /\ q.mutex = y
         /\ q.alive = r.alive /\ q.name = r.name /\ q.attrs = r.attrs
         /\ q.version = x /\ q.size = r.size /\ q.refcount = r.refcount
<1> DEFINE p == [r EXCEPT !.version = x]
<1>1. IsNode(p) /\ p.alive = r.alive /\ p.name = r.name /\ p.attrs = r.attrs
     /\ p.version = x /\ p.size = r.size /\ p.refcount = r.refcount
  BY DEF IsNode
<1> HIDE DEF p
<1>2. LET q == [p EXCEPT !.mutex = y] IN
      /\ IsNode(q) /\ q.mutex = y
      /\ q.alive = r.alive /\ q.name = r.name /\ q.attrs = r.attrs
      /\ q.version = x /\ q.size = r.size /\ q.refcount = r.refcount
  BY <1>1 DEF IsNode
<1> QED BY <1>2 DEF Renewed, p

LEMMA ResizedFields ==
  ASSUME NEW r, IsNode(r), NEW x, NEW y
  PROVE  LET q == Resized(r, x, y) IN
         /\ IsNode(q) /\ q.mutex = y
         /\ q.alive = r.alive /\ q.name = r.name /\ q.attrs = r.attrs
         /\ q.version = r.version /\ q.size = x /\ q.refcount = r.refcount
<1> DEFINE p == [r EXCEPT !.size = x]
<1>1. IsNode(p) /\ p.alive = r.alive /\ p.name = r.name /\ p.attrs = r.attrs
     /\ p.version = r.version /\ p.size = x /\ p.refcount = r.refcount
  BY DEF IsNode
<1> HIDE DEF p
<1>2. LET q == [p EXCEPT !.mutex = y] IN
      /\ IsNode(q) /\ q.mutex = y
      /\ q.alive = r.alive /\ q.name = r.name /\ q.attrs = r.attrs
      /\ q.version = r.version /\ q.size = x /\ q.refcount = r.refcount
  BY <1>1 DEF IsNode
<1> QED BY <1>2 DEF Resized, p

(* What fsutils_get_dentry() finds is there.                               *)
LEMMA PathsThere ==
  ASSUME Inner
  PROVE  /\ \A n \in Paths : n \in Dentries /\ (Steady => Alive(n)) /\ (Alive(n) => node[n].name # Link)
         /\ Files \subseteq Paths /\ Files \subseteq Nodes /\ Links \subseteq ToSet(children)
         /\ ToSet(children) \subseteq Nodes
         /\ \A n \in ToSet(children) : Steady => Alive(n)
<1>1. ToSet(children) \subseteq Nodes
  BY Sequences DEF Inner, Shape
<1>2. \A n \in ToSet(children) : Steady => Alive(n)
  BY DEF Inner, NothingStale
<1>3. Files \subseteq Paths /\ Files \subseteq ToSet(children) /\ Links \subseteq ToSet(children)
  BY DEF Paths, Files, Links
<1>4. \A n \in Files : node[n].name # Link
  BY DEF Files
<1>5. \A n \in Paths : n \in Files \/ (n = Dir /\ Alive(Dir))
  BY DEF Paths
<1>6. Alive(Dir) => node[Dir].name # Link
  BY DEF Inner, NothingStale
<1> QED BY <1>1, <1>2, <1>3, <1>4, <1>5, <1>6, Distinct DEF Paths

LEMMA NextChildThere ==
  ASSUME Inner, NEW n \in Dentries, Alive(n)
  PROVE  NextChild(n) \in ToSet(children) \cup {Null}
<1>1. children \in Seq(Nodes) /\ Len(children) \in Nat /\ DOMAIN children = 1 .. Len(children)
  BY DEF Inner, Shape
<1>2. ASSUME NEW k \in 1 .. Len(children), k # Len(children)
      PROVE  children[k + 1] \in ToSet(children)
  <2>1. k + 1 \in 1 .. Len(children)
    <3> DEFINE l == Len(children)
    <3>1. k \in 1 .. l /\ k # l /\ l \in Nat
      BY <1>1, <1>2
    <3> HIDE DEF l
    <3>2. k + 1 \in 1 .. l
      BY <3>1
    <3> QED BY <3>2 DEF l
  <2> QED BY <1>1, <2>1 DEF ToSet
<1>3. CASE n = Dir
  BY <1>1, <1>3 DEF NextChild, ToSet
<1>4. CASE n # Dir
  <2>1. n \in ToSet(children)
    BY <1>4 DEF Inner, NothingStale, Dentries
  <2>2. PICK j \in 1 .. Len(children) : children[j] = n
    BY <1>1, <2>1 DEF ToSet
  <2> DEFINE i == CHOOSE k \in 1 .. Len(children) : children[k] = n
  <2>3. i \in 1 .. Len(children)
    BY <2>2
  <2>4. NextChild(n) = IF i = Len(children) THEN Null ELSE children[i + 1]
    BY <1>4 DEF NextChild
  <2> HIDE DEF i
  <2> QED BY <1>2, <2>3, <2>4
<1> QED BY <1>3, <1>4

-----------------------------------------------------------------------------
(* Steps without a mutex.                                                  *)
LEMMA OpenLookupKeeps ==
  ASSUME Inner, NotTorn, NEW t \in Threads, OpenLookup(t)
  PROVE  IInv'
<1>1. PICK n \in Paths : Goto(t, At("open", n, 0))
  BY DEF OpenLookup
<1> DEFINE s == At("open", n, 0)
<1>2. IsThread(s) /\ s.op = "open" /\ s.on = n /\ s.listed = <<>>
  BY ThreadAt
<1> HIDE DEF s
<1>3. n \in Dentries /\ (Steady => Alive(n)) /\ (Alive(n) => node[n].name # Link)
  BY PathsThere
<1>4. Turn(t, s)
  BY <1>1, <1>2, <1>3 DEF Turn, Goto, OpenLookup, s
<1>5. thread[t].op = "idle" /\ handle[t] = Null /\ UNCHANGED <<node, handle>>
  BY DEF OpenLookup, Doing
<1> QED BY <1>2, <1>3, <1>4, <1>5, LookKeeps DEF Busy, IInv

LEMMA ReadCheckKeeps ==
  ASSUME Inner, NotTorn, NEW t \in Threads, ReadCheck(t)
  PROVE  IInv'
<1>1. CASE Fails
  BY <1>1, FailsKeeps
<1>2. CASE ~Fails
  <2> DEFINE n == handle[t]
             s == At("read", n, 0)
  <2>1. IsThread(s) /\ s.op = "read" /\ s.on = n /\ s.listed = <<>>
    BY ThreadAt
  <2> HIDE DEF s
  <2>2. n \in Nodes /\ n \in Dentries
    BY DEF Inner, Shape, ReadCheck, Dentries
  <2>3. Alive(n) /\ node[n].name # Link
    BY <1>2 DEF Inner, SeenRight, ReadCheck
  <2>4. Turn(t, s)
    BY <1>2, <2>1, <2>2, <2>3 DEF Turn, Goto, ReadCheck, s
  <2>5. thread[t].op = "idle" /\ UNCHANGED <<node, handle>>
    BY <1>2 DEF ReadCheck, Doing
  <2>6. /\ thread[t].op \notin Busy /\ s.op \notin Busy
        /\ s.op = "open" => handle[t] = Null
        /\ s.op = "got" => s.listed = <<>>
    BY <2>1, <2>5 DEF Busy
  <2>7. Inner' /\ NotTorn'
    BY <2>1, <2>2, <2>3, <2>4, <2>5, <2>6, LookKeeps
  <2> QED BY <2>7 DEF IInv
<1> QED BY <1>1, <1>2

LEMMA DoneKeeps ==
  ASSUME Inner, NotTorn, NEW t \in Threads, Done(t)
  PROVE  IInv'
<1>1. Turn(t, Idle)
  BY ThreadIdle DEF Turn, Done, Goto
<1>2. thread[t].op \in {"got", "listed"} /\ UNCHANGED <<node, handle>>
  BY DEF Done, Doing
<1> QED BY <1>1, <1>2, ThreadIdle, LookKeeps, Distinct DEF Busy, IInv

LEMMA ReadlinkKeeps ==
  ASSUME Inner, NotTorn, NEW t \in Threads, Readlink(t)
  PROVE  IInv'
<1>1. CASE Fails
  BY <1>1, FailsKeeps
<1>2. CASE ~Fails
  <2>1. PICK n \in Links : Goto(t, At("got", n, node[n].size)) /\ UNCHANGED <<node, children, handle, parser, fault>>
    BY <1>2 DEF Readlink
  <2> DEFINE s == At("got", n, node[n].size)
  <2>2. IsThread(s) /\ s.op = "got" /\ s.on = n /\ s.listed = <<>>
    BY ThreadAt
  <2> HIDE DEF s
  <2>3. n \in Dentries /\ (Steady => Alive(n))
    BY PathsThere DEF Dentries
  <2>4. Turn(t, s)
    BY <2>1, <2>2, <2>3 DEF Turn, Goto, s
  <2>5. thread[t].op = "idle"
    BY DEF Readlink, Doing
  <2> QED BY <2>1, <2>2, <2>4, <2>5, LookKeeps DEF Busy, IInv
<1> QED BY <1>1, <1>2

LEMMA ReaddirStartKeeps ==
  ASSUME Inner, NotTorn, NEW t \in Threads, ReaddirStart(t)
  PROVE  IInv'
<1>1. CASE Fails
  BY <1>1, FailsKeeps
<1>2. CASE ~Fails
  <2> DEFINE n == NextChild(Dir)
             s == [Idle EXCEPT !.op = IF n = Null THEN "listed" ELSE "readdir",
                               !.on = n, !.owed = ToSet(children)]
  <2>1. n \in ToSet(children) \cup {Null}
    BY <1>2, NextChildThere, Distinct DEF ReaddirStart
  <2>2. IsThread(s) /\ s.op \in {"listed", "readdir"} /\ s.on = n
    <3> DEFINE op == IF n = Null THEN "listed" ELSE "readdir"
    <3>1. op \in {"listed", "readdir"}
      OBVIOUS
    <3> HIDE DEF n, op
    <3>2. s = Owing(Idle, op, n, ToSet(children))
      BY DEF Owing, op
    <3> HIDE DEF s
    <3> QED BY <3>1, <3>2, ThreadIdle, ThreadOwed
  <2>3. Goto(t, s) /\ UNCHANGED <<node, children, handle, parser, fault>>
    BY <1>2 DEF ReaddirStart
  <2> HIDE DEF s, n
  <2>4. n \in Dentries \cup {Null} /\ (Steady /\ n # Null => Alive(n))
    BY <2>1, PathsThere DEF Dentries
  <2>5. Turn(t, s)
    BY <2>2, <2>3, <2>4 DEF Turn, Goto
  <2>6. thread[t].op = "idle"
    BY DEF ReaddirStart, Doing
  <2> QED BY <2>2, <2>3, <2>5, <2>6, LookKeeps DEF Busy, IInv
<1> QED BY <1>1, <1>2

LEMMA ReaddirStepKeeps ==
  ASSUME Inner, NotTorn, NEW t \in Threads, ReaddirStep(t)
  PROVE  IInv'
<1>1. CASE Fails
  BY <1>1, FailsKeeps
<1>2. CASE ~Fails
  <2> DEFINE n == NextChild(thread[t].on)
             w == Append(thread[t].listed, node[thread[t].on].name)
             s == [thread[t] EXCEPT !.op = IF n = Null THEN "listed" ELSE "readdir",
                                    !.on = n, !.listed = w]
  <2>1. n \in ToSet(children) \cup {Null}
    <3>1. Alive(thread[t].on) /\ thread[t].on \in Dentries
      BY <1>2 DEF ReaddirStep, Alive, Inner, Shape
    <3> QED BY <3>1, NextChildThere
  <2>2. IsThread(s) /\ s.op \in {"listed", "readdir"} /\ s.on = n
    <3> DEFINE op == IF n = Null THEN "listed" ELSE "readdir"
    <3>1. op \in {"listed", "readdir"} /\ IsThread(thread[t])
      BY DEF Inner, Shape
    <3> HIDE DEF n, w, op
    <3>2. s = Listing(thread[t], op, n, w)
      BY DEF Listing, op
    <3> HIDE DEF s
    <3> QED BY <3>1, <3>2, ThreadListed
  <2>3. Goto(t, s) /\ UNCHANGED <<node, children, handle, parser, fault>>
    BY <1>2 DEF ReaddirStep, WalkTo
  <2> HIDE DEF s, n, w
  <2>4. n \in Dentries \cup {Null} /\ (Steady /\ n # Null => Alive(n))
    BY <2>1, PathsThere DEF Dentries
  <2>5. Turn(t, s)
    BY <2>2, <2>3, <2>4 DEF Turn, Goto
  <2>6. thread[t].op = "readdir"
    BY DEF ReaddirStep, Doing
  <2> QED BY <2>2, <2>3, <2>5, <2>6, LookKeeps DEF Busy, IInv
<1> QED BY <1>1, <1>2

(* The first half of setxattr() and of removexattr().                      *)
LEMMA FindKeeps ==
  ASSUME Inner, NotTorn, NEW t \in Threads, NEW n \in Files, NEW a, NEW op \in {"set", "removing"},
         thread[t].op = "idle", Goto(t, [At(op, n, 0) EXCEPT !.attr = a]),
         UNCHANGED <<node, children, handle, parser, fault>>
  PROVE  IInv'
<1> DEFINE p == At(op, n, 0)
           s == [p EXCEPT !.attr = a]
<1>1. IsThread(p) /\ p.op = op /\ p.on = n
  BY ThreadAt
<1>2. IsThread(s) /\ s.op = op /\ s.on = n
  <2> HIDE DEF p
  <2> QED BY <1>1 DEF IsThread
<1>3. Goto(t, s)
  OBVIOUS
<1> HIDE DEF p, s
<1>4. n \in Dentries /\ (Steady => Alive(n))
  BY PathsThere
<1>5. Turn(t, s)
  BY <1>2, <1>3, <1>4 DEF Turn, Goto
<1> QED BY <1>2, <1>5, LookKeeps DEF Busy, IInv

LEMMA SetCheckKeeps ==
  ASSUME Inner, NotTorn, NEW t \in Threads, SetCheck(t)
  PROVE  IInv'
<1>1. CASE Fails
  BY <1>1, FailsKeeps
<1>2. CASE ~Fails
  <2>1. PICK n \in Files, a \in Attrs : Goto(t, [At("set", n, 0) EXCEPT !.attr = a])
                                        /\ UNCHANGED <<node, children, handle, parser, fault>>
    BY <1>2 DEF SetCheck
  <2> QED BY <2>1, FindKeeps DEF SetCheck, Doing
<1> QED BY <1>1, <1>2

LEMMA RemoveFindKeeps ==
  ASSUME Inner, NotTorn, NEW t \in Threads, RemoveFind(t)
  PROVE  IInv'
<1>1. CASE Fails
  BY <1>1, FailsKeeps
<1>2. CASE ~Fails
  <2>1. PICK n \in Files, a \in Attrs \cup {Format} :
          Goto(t, [At("removing", n, 0) EXCEPT !.attr = a])
          /\ UNCHANGED <<node, children, handle, parser, fault>>
    BY <1>2 DEF RemoveFind
  <2> QED BY <2>1, FindKeeps DEF RemoveFind, Doing
<1> QED BY <1>1, <1>2

LEMMA ListMeasureKeeps ==
  ASSUME Inner, NotTorn, NEW t \in Threads, ListMeasure(t)
  PROVE  IInv'
<1>1. CASE Fails
  BY <1>1, FailsKeeps
<1>2. CASE ~Fails
  <2>1. PICK n \in Files : Goto(t, At("list", n, Len(node[n].attrs)))
                           /\ UNCHANGED <<node, children, handle, parser, fault>>
    BY <1>2 DEF ListMeasure
  <2> DEFINE s == At("list", n, Len(node[n].attrs))
  <2>2. IsThread(s) /\ s.op = "list" /\ s.on = n
    BY ThreadAt
  <2> HIDE DEF s
  <2>3. Turn(t, s)
    BY <2>1, <2>2, PathsThere DEF Turn, Goto, s
  <2>4. thread[t].op = "idle"
    BY DEF ListMeasure, Doing
  <2> QED BY <2>1, <2>2, <2>3, <2>4, LookKeeps DEF Busy, IInv
<1> QED BY <1>1, <1>2

LEMMA ListCopyKeeps ==
  ASSUME Inner, NotTorn, NEW t \in Threads, ListCopy(t)
  PROVE  IInv'
<1>1. CASE Fails
  BY <1>1, FailsKeeps
<1>2. CASE ~Fails
  <2>1. Turn(t, Idle) /\ UNCHANGED <<node, handle>>
    BY <1>2, ThreadIdle DEF Turn, ListCopy, Goto
  <2>2. thread[t].op = "list"
    BY DEF ListCopy, Doing
  <2> QED BY <2>1, <2>2, ThreadIdle, LookKeeps DEF Busy, IInv
<1> QED BY <1>1, <1>2

-----------------------------------------------------------------------------
(* pthread_mutex_lock().                                                   *)
LEMMA OpenLockKeeps ==
  ASSUME Inner, NotTorn, NEW t \in Threads, OpenLock(t)
  PROVE  IInv'
<1>1. CASE Fails
  BY <1>1, FailsKeeps
<1>2. CASE ~Fails
  <2> DEFINE n == thread[t].on
             r == [node[n] EXCEPT !.mutex = t]
             s == At("opened", n, node[n].refcount)
  <2>1. Alive(n) /\ n \in Dentries /\ node[n].mutex = Null
    BY <1>2 DEF OpenLock, Unlocked, Alive, Inner, Shape
  <2>2. IsThread(s) /\ s.op = "opened" /\ s.on = n /\ s.seen = node[n].refcount
    <3> HIDE DEF n
    <3> QED BY ThreadAt
  <2>3. IsNode(r) /\ r.alive = node[n].alive /\ r.name = node[n].name /\ r.version = node[n].version
        /\ r.size = node[n].size /\ r.refcount = node[n].refcount /\ r.mutex = t
    <3> HIDE DEF n
    <3>1. IsNode(node[n])
      BY <2>1 DEF Inner, Shape
    <3> QED BY <3>1 DEF IsNode
  <2>4. /\ node' = [node EXCEPT ![n] = r] /\ thread' = [thread EXCEPT ![t] = s]
        /\ UNCHANGED <<children, handle, parser, fault>>
    BY <1>2, <2>1 DEF OpenLock, Goto
  <2>5. thread[t].op = "open" /\ handle[t] = Null /\ node[n].name # Link
    BY <1>2, <2>1 DEF OpenLock, Doing, Inner, SeenRight, NothingStale
  <2> HIDE DEF n, r, s
  <2>6. Turn(t, s) /\ Same(n, r)
    BY <2>1, <2>2, <2>3, <2>4 DEF Turn, Same
  <2>7. Inner' /\ NotTorn'
    BY <2>1, <2>2, <2>3, <2>4, <2>5, <2>6, LockKeeps DEF Busy
  <2> QED BY <2>7 DEF IInv
<1> QED BY <1>1, <1>2

LEMMA ReleaseLockKeeps ==
  ASSUME Inner, NotTorn, NEW t \in Threads, ReleaseLock(t)
  PROVE  IInv'
<1>1. CASE Fails
  BY <1>1, FailsKeeps
<1>2. CASE ~Fails
  <2> DEFINE n == handle[t]
             r == [node[n] EXCEPT !.mutex = t]
             s == At("release", n, node[n].refcount)
  <2>1. Alive(n) /\ n \in Dentries /\ node[n].mutex = Null
    BY <1>2 DEF ReleaseLock, Unlocked, Alive, Inner, Shape
  <2>2. IsThread(s) /\ s.op = "release" /\ s.on = n /\ s.seen = node[n].refcount
    <3> HIDE DEF n
    <3> QED BY ThreadAt
  <2>3. IsNode(r) /\ r.alive = node[n].alive /\ r.name = node[n].name /\ r.version = node[n].version
        /\ r.size = node[n].size /\ r.refcount = node[n].refcount /\ r.mutex = t
    <3> HIDE DEF n
    <3>1. IsNode(node[n])
      BY <2>1 DEF Inner, Shape
    <3> QED BY <3>1 DEF IsNode
  <2>4. /\ node' = [node EXCEPT ![n] = r] /\ thread' = [thread EXCEPT ![t] = s]
        /\ UNCHANGED <<children, handle, parser, fault>>
    BY <1>2, <2>1 DEF ReleaseLock, Goto
  <2>5. thread[t].op = "idle" /\ handle[t] = n
    BY <1>2, <2>1 DEF ReleaseLock, Doing, Inner, SeenRight, NothingStale
  <2> HIDE DEF n, r, s
  <2>6. Turn(t, s) /\ Same(n, r)
    BY <2>1, <2>2, <2>3, <2>4 DEF Turn, Same
  <2>7. Inner' /\ NotTorn'
    BY <2>1, <2>2, <2>3, <2>4, <2>5, <2>6, LockKeeps DEF Busy
  <2> QED BY <2>7 DEF IInv
<1> QED BY <1>1, <1>2

LEMMA ReadLockKeeps ==
  ASSUME Inner, NotTorn, NEW t \in Threads, ReadLock(t)
  PROVE  IInv'
<1>1. CASE Fails
  BY <1>1, FailsKeeps
<1>2. CASE ~Fails
  <2> DEFINE n == thread[t].on
             r == [node[n] EXCEPT !.mutex = t]
             s == At("copy", n, node[n].size)
  <2>1. Alive(n) /\ n \in Dentries /\ node[n].mutex = Null
    BY <1>2 DEF ReadLock, Unlocked, Alive, Inner, Shape
  <2>2. IsThread(s) /\ s.op = "copy" /\ s.on = n /\ s.seen = node[n].size
    <3> HIDE DEF n
    <3> QED BY ThreadAt
  <2>3. IsNode(r) /\ r.alive = node[n].alive /\ r.name = node[n].name /\ r.version = node[n].version
        /\ r.size = node[n].size /\ r.refcount = node[n].refcount /\ r.mutex = t
    <3> HIDE DEF n
    <3>1. IsNode(node[n])
      BY <2>1 DEF Inner, Shape
    <3> QED BY <3>1 DEF IsNode
  <2>4. /\ node' = [node EXCEPT ![n] = r] /\ thread' = [thread EXCEPT ![t] = s]
        /\ UNCHANGED <<children, handle, parser, fault>>
    BY <1>2, <2>1 DEF ReadLock, Goto
  <2>5. thread[t].op = "read" /\ n \in Nodes /\ node[n].name # Link
    BY <1>2, <2>1 DEF ReadLock, Doing, Inner, SeenRight, NothingStale
  <2> HIDE DEF n, r, s
  <2>6. Turn(t, s) /\ Same(n, r)
    BY <2>1, <2>2, <2>3, <2>4 DEF Turn, Same
  <2>7. Inner' /\ NotTorn'
    BY <2>1, <2>2, <2>3, <2>4, <2>5, <2>6, LockKeeps DEF Busy
  <2> QED BY <2>7 DEF IInv
<1> QED BY <1>1, <1>2

LEMMA SetLockKeeps ==
  ASSUME Inner, NotTorn, NEW t \in Threads, SetLock(t)
  PROVE  IInv'
<1>1. CASE Fails
  BY <1>1, FailsKeeps
<1>2. CASE ~Fails
  <2> DEFINE n == thread[t].on
             r == [node[n] EXCEPT !.mutex = t]
             s == [thread[t] EXCEPT !.op = "setting"]
  <2>1. Alive(n) /\ n \in Dentries /\ node[n].mutex = Null
    BY <1>2 DEF SetLock, Unlocked, Alive, Inner, Shape
  <2>2. IsThread(s) /\ s.op = "setting" /\ s.on = n
    BY DEF Inner, Shape, IsThread
  <2>3. IsNode(r) /\ r.alive = node[n].alive /\ r.name = node[n].name /\ r.version = node[n].version
        /\ r.size = node[n].size /\ r.refcount = node[n].refcount /\ r.mutex = t
    <3> HIDE DEF n
    <3>1. IsNode(node[n])
      BY <2>1 DEF Inner, Shape
    <3> QED BY <3>1 DEF IsNode
  <2>4. /\ node' = [node EXCEPT ![n] = r] /\ thread' = [thread EXCEPT ![t] = s]
        /\ UNCHANGED <<children, handle, parser, fault>>
    BY <1>2, <2>1 DEF SetLock, Goto
  <2>5. thread[t].op = "set"
    BY <1>2, <2>1 DEF SetLock, Doing, Inner, SeenRight, NothingStale
  <2> HIDE DEF n, r, s
  <2>6. Turn(t, s) /\ Same(n, r)
    BY <2>1, <2>2, <2>3, <2>4 DEF Turn, Same
  <2>7. Inner' /\ NotTorn'
    BY <2>1, <2>2, <2>3, <2>4, <2>5, <2>6, LockKeeps DEF Busy
  <2> QED BY <2>7 DEF IInv
<1> QED BY <1>1, <1>2

-----------------------------------------------------------------------------
(* Counting those who have a dentry open.                                  *)
LEMMA OneMoreUser ==
  ASSUME Inner, NEW n \in Dentries, NEW t \in Threads, handle[t] = Null, handle' = [handle EXCEPT ![t] = n]
  PROVE  Cardinality(Users(n)') = Cardinality(Users(n)) + 1
<1>1. Users(n)' = Users(n) \cup {t} /\ t \notin Users(n)
  BY Distinct DEF Users, Inner, Shape
<1>2. IsFiniteSet(Users(n))
  BY HandlesAssumption, FS_Subset DEF Users
<1> QED BY <1>1, <1>2, FS_AddElement

LEMMA OneUserLess ==
  ASSUME Inner, NEW n \in Dentries, NEW t \in Threads, handle[t] = n, handle' = [handle EXCEPT ![t] = Null]
  PROVE  Cardinality(Users(n)') = Cardinality(Users(n)) - 1
<1>1. Users(n)' = Users(n) \ {t} /\ t \in Users(n)
  BY Distinct DEF Users, Inner, Shape
<1>2. IsFiniteSet(Users(n))
  BY HandlesAssumption, FS_Subset DEF Users
<1> QED BY <1>1, <1>2, FS_RemoveElement

(* pthread_mutex_unlock().                                                 *)
LEMMA OpenUnlockKeeps ==
  ASSUME Inner, NotTorn, NEW t \in Threads, OpenUnlock(t)
  PROVE  IInv'
<1>1. CASE Fails
  BY <1>1, FailsKeeps
<1>2. CASE ~Fails
  <2>0. PICK n \in Dentries : n = thread[t].on /\ Alive(n)
    BY <1>2 DEF OpenUnlock, Alive, Inner, Shape
  <2> DEFINE x == thread[t].seen + 1
             r == Counted(node[n], x, Null)
  <2>1. IsNode(node[n])
    BY DEF Inner, Shape
  <2>2. thread[t].op = "opened" /\ handle[t] = Null /\ node[n].name # Link
        /\ thread[t].seen = Cardinality(Users(n))
    BY <1>2, <2>0, <2>1 DEF OpenUnlock, Doing, Inner, SeenRight, CountRight
  <2>3. /\ node' = [node EXCEPT ![n].refcount = x, ![n].mutex = Null]
        /\ handle' = [handle EXCEPT ![t] = n] /\ thread' = [thread EXCEPT ![t] = Idle]
        /\ UNCHANGED <<children, parser, fault>>
    BY <1>2, <2>0, <2>1 DEF OpenUnlock, Goto
  <2>4. Cardinality(Users(n)') = x
    BY <2>0, <2>1, <2>2, <2>3, OneMoreUser
  <2> HIDE DEF x, r
  <2>5. node' = [node EXCEPT ![n] = r]
    BY <2>3 DEF r, Counted, Inner, Shape
  <2>6. Turn(t, Idle) /\ Same(n, r) /\ r.mutex = Null /\ r.refcount = x
    <3>1. Turn(t, Idle)
      BY <2>3, ThreadIdle DEF Turn
    <3>2. /\ IsNode(r) /\ r.mutex = Null /\ r.alive = node[n].alive /\ r.name = node[n].name
          /\ r.version = node[n].version /\ r.size = node[n].size /\ r.refcount = x
      BY <2>1, CountedFields DEF r
    <3> QED BY <2>5, <3>1, <3>2 DEF Same
  <2>7. Inner' /\ NotTorn'
    BY <2>0, <2>1, <2>2, <2>3, <2>4, <2>6, ThreadIdle, UnlockKeeps DEF Busy
  <2> QED BY <2>7 DEF IInv
<1> QED BY <1>1, <1>2

LEMMA ReleaseUnlockKeeps ==
  ASSUME Inner, NotTorn, NEW t \in Threads, ReleaseUnlock(t)
  PROVE  IInv'
<1>1. CASE Fails
  BY <1>1, FailsKeeps
<1>2. CASE ~Fails
  <2>0. PICK n \in Dentries : n = thread[t].on /\ Alive(n)
    BY <1>2 DEF ReleaseUnlock, Alive, Inner, Shape
  <2> DEFINE x == thread[t].seen - 1
             r == Counted(node[n], x, Null)
  <2>1. IsNode(node[n])
    BY DEF Inner, Shape
  <2>2. thread[t].op = "release" /\ handle[t] = n /\ thread[t].seen = Cardinality(Users(n))
    BY <1>2, <2>0, <2>1 DEF ReleaseUnlock, Doing, Inner, SeenRight, CountRight
  <2>3. /\ node' = [node EXCEPT ![n].refcount = x, ![n].mutex = Null]
        /\ handle' = [handle EXCEPT ![t] = Null] /\ thread' = [thread EXCEPT ![t] = Idle]
        /\ UNCHANGED <<children, parser, fault>>
    BY <1>2, <2>0, <2>1 DEF ReleaseUnlock, Goto
  <2>4. Cardinality(Users(n)') = x
    BY <2>0, <2>1, <2>2, <2>3, OneUserLess
  <2> HIDE DEF x, r
  <2>5. node' = [node EXCEPT ![n] = r]
    BY <2>3 DEF r, Counted, Inner, Shape
  <2>6. Turn(t, Idle) /\ Same(n, r) /\ r.mutex = Null /\ r.refcount = x
    <3>1. Turn(t, Idle)
      BY <2>3, ThreadIdle DEF Turn
    <3>2. /\ IsNode(r) /\ r.mutex = Null /\ r.alive = node[n].alive /\ r.name = node[n].name
          /\ r.version = node[n].version /\ r.size = node[n].size /\ r.refcount = x
      BY <2>1, CountedFields DEF r
    <3> QED BY <2>5, <3>1, <3>2 DEF Same
  <2>7. Inner' /\ NotTorn'
    BY <2>0, <2>1, <2>2, <2>3, <2>4, <2>6, ThreadIdle, UnlockKeeps, Distinct DEF Busy
  <2> QED BY <2>7 DEF IInv
<1> QED BY <1>1, <1>2

LEMMA ReadCopyKeeps ==
  ASSUME Inner, NotTorn, NEW t \in Threads, ReadCopy(t)
  PROVE  IInv'
<1>1. CASE Fails
  BY <1>1, FailsKeeps
<1>2. CASE ~Fails
  <2>0. PICK n \in Dentries : n = thread[t].on /\ Alive(n)
    BY <1>2 DEF ReadCopy, Alive, Inner, Shape
  <2> DEFINE r == [node[n] EXCEPT !.mutex = Null]
             s == Got(thread[t], "got", <<node[n].version>>)
  <2>1. IsNode(node[n]) /\ IsThread(thread[t])
    BY DEF Inner, Shape
  <2>2. /\ thread[t].op = "copy" /\ n \in Nodes /\ node[n].name # Link
        /\ thread[t].seen = node[n].size
        /\ Alive(handle[t]) => node[handle[t]].name # Link
    BY <1>2, <2>0, <2>1 DEF ReadCopy, Doing, Inner, SeenRight
  <2>3. /\ node' = [node EXCEPT ![n] = r] /\ thread' = [thread EXCEPT ![t] = s]
        /\ UNCHANGED <<children, handle, parser, fault>>
    BY <1>2, <2>0, <2>1 DEF ReadCopy, Goto, Got
  <2>4. node[n].mutex = t
    BY <2>0, <2>1, <2>2 DEF Inner, MutexRight, Busy
  <2>5. thread[t].seen = Sizes[node[n].version]
    BY <2>0, <2>1, <2>2, <2>4, Distinct DEF Inner, SizeRight
  <2>6. handle' = [handle EXCEPT ![t] = handle[t]] /\ node[n].refcount = Cardinality(Users(n)')
    BY <2>0, <2>1, <2>3 DEF Inner, Shape, CountRight, Users
  <2>7. /\ IsNode(r) /\ r.alive = node[n].alive /\ r.name = node[n].name /\ r.version = node[n].version
        /\ r.size = node[n].size /\ r.refcount = node[n].refcount /\ r.mutex = Null
    BY <2>0, <2>1 DEF IsNode
  <2>8. /\ IsThread(s) /\ s.op = "got" /\ s.on = n /\ s.seen = thread[t].seen
        /\ s.listed = <<node[n].version>>
    BY <2>0, <2>1, ThreadGot
  <2> HIDE DEF r, s
  <2>9. Turn(t, s) /\ Same(n, r)
    BY <2>0, <2>1, <2>3, <2>7, <2>8 DEF Turn, Same
  <2>10. s.listed # <<>> => s.seen = Sizes[Head(s.listed)]
    BY <2>5, <2>8
  <2>11. Inner' /\ NotTorn'
    BY <2>0, <2>1, <2>2, <2>6, <2>7, <2>8, <2>9, <2>10, UnlockKeeps DEF Busy
  <2> QED BY <2>11 DEF IInv
<1> QED BY <1>1, <1>2

LEMMA SetStoreKeeps ==
  ASSUME Inner, NotTorn, NEW t \in Threads, SetStore(t)
  PROVE  IInv'
<1>1. CASE Fails
  BY <1>1, FailsKeeps
<1>2. CASE ~Fails
  <2>0. PICK n \in Dentries : n = thread[t].on /\ Alive(n)
    BY <1>2 DEF SetStore, Alive, Inner, Shape
  <2> DEFINE x == AttrSet(node[n].attrs, thread[t].attr)
             r == Given(node[n], x, Null)
  <2>1. IsNode(node[n])
    BY DEF Inner, Shape
  <2>2. thread[t].op = "setting" /\ (Alive(handle[t]) => node[handle[t]].name # Link)
    BY <1>2 DEF SetStore, Doing, Inner, SeenRight
  <2>3. /\ node' = [node EXCEPT ![n].attrs = x, ![n].mutex = Null]
        /\ thread' = [thread EXCEPT ![t] = Idle] /\ UNCHANGED <<children, handle, parser, fault>>
    BY <1>2, <2>0, <2>1 DEF SetStore, Goto
  <2>4. handle' = [handle EXCEPT ![t] = handle[t]] /\ node[n].refcount = Cardinality(Users(n)')
    BY <2>0, <2>1, <2>3 DEF Inner, Shape, CountRight, Users
  <2> HIDE DEF x, r
  <2>5. node' = [node EXCEPT ![n] = r]
    BY <2>3 DEF r, Given, Inner, Shape
  <2>6. Turn(t, Idle) /\ Same(n, r) /\ r.mutex = Null /\ r.refcount = node[n].refcount
    <3>1. Turn(t, Idle)
      BY <2>3, ThreadIdle DEF Turn
    <3>2. /\ IsNode(r) /\ r.mutex = Null /\ r.alive = node[n].alive /\ r.name = node[n].name
          /\ r.version = node[n].version /\ r.size = node[n].size /\ r.refcount = node[n].refcount
      BY <2>1, GivenFields DEF r
    <3> QED BY <2>5, <3>1, <3>2 DEF Same
  <2>7. Inner' /\ NotTorn'
    BY <2>0, <2>1, <2>2, <2>4, <2>6, ThreadIdle, UnlockKeeps DEF Busy
  <2> QED BY <2>7 DEF IInv
<1> QED BY <1>1, <1>2

LEMMA RemoveFreeKeeps ==
  ASSUME Inner, NotTorn, NEW t \in Threads, RemoveFree(t)
  PROVE  IInv'
<1>1. CASE Fails
  BY <1>1, FailsKeeps
<1>2. CASE ~Fails
  <2>0. PICK n \in Dentries : n = thread[t].on
    BY <1>2 DEF RemoveFree, Alive, Inner, Shape
  <2> DEFINE x == RemoveFirst(node[n].attrs, thread[t].attr)
             r == [node[n] EXCEPT !.attrs = x]
  <2>1. IsNode(node[n])
    BY DEF Inner, Shape
  <2>2. /\ node' = [node EXCEPT ![n] = r] /\ thread' = [thread EXCEPT ![t] = Idle]
        /\ UNCHANGED <<children, handle, parser, fault>> /\ thread[t].op = "removing"
    BY <1>2, <2>0 DEF RemoveFree, Goto, Doing
  <2>3. /\ IsNode(r) /\ r.alive = node[n].alive /\ r.name = node[n].name /\ r.version = node[n].version
        /\ r.size = node[n].size /\ r.refcount = node[n].refcount /\ r.mutex = node[n].mutex
    <3> HIDE DEF x
    <3> QED BY <2>1 DEF IsNode
  <2> HIDE DEF r
  <2>4. Attributed(n, r)
    BY <2>2, <2>3 DEF Attributed
  <2>5. /\ thread'[t] = Idle /\ \A u \in Threads \ {t} : thread'[u] = thread[u]
        /\ thread' = [u \in Threads |-> thread'[u]] /\ \A u \in Threads : IsThread(thread'[u])
    BY <2>2, ThreadIdle DEF Inner, Shape
  <2>6. Inner' /\ NotTorn'
    BY <2>1, <2>2, <2>4, <2>5, AttributesKeep
  <2> QED BY <2>6 DEF IInv
<1> QED BY <1>1, <1>2

-----------------------------------------------------------------------------
(* The parser thread.  What no thread is at, is free to change.            *)
LEMMA NobodyAt ==
  ASSUME Inner, NEW n \in Dentries, Alive(n) => node[n].mutex \in {Null, Parser}, Alive(n) \/ Steady
  PROVE  \A t \in Threads : ~(thread[t].op \in Busy /\ thread[t].on = n)
<1>1. Alive(n) => \A t \in Threads : ~(thread[t].op \in Busy /\ thread[t].on = n)
  BY Distinct DEF Inner, MutexRight
<1>2. ~Alive(n) /\ Steady => \A t \in Threads : thread[t].on # n
  BY Distinct DEF Inner, NothingStale
<1> QED BY <1>1, <1>2

LEMMA CreateFileKeeps ==
  ASSUME Inner, NotTorn, CreateFile
  PROVE  IInv'
<1>1. PICK name \in Names, n \in Nodes :
        /\ n \notin ToSet(children)
        /\ node' = [node EXCEPT ![n] = NewNode(name)]
        /\ children' = Append(children, n)
        /\ ParserAt(IF name = Link THEN "idle" ELSE "created", n)
  BY DEF CreateFile
<1>2. /\ parser.op = "idle" /\ Alive(Dir) /\ UNCHANGED <<thread, handle, fault>>
      /\ parser'.op \in {"idle", "created"} /\ parser'.on = n
  BY <1>1 DEF CreateFile, Parsing, ParserAt
<1>3. n \in Dentries /\ n # Dir /\ ~Alive(n) /\ Steady
  BY <1>1, <1>2, Distinct DEF Inner, NothingStale, Steady
<1>4. /\ node'[n] = NewNode(name) /\ \A m \in Dentries \ {n} : node'[m] = node[m]
      /\ node' = [m \in Dentries |-> node'[m]] /\ \A m \in Dentries : IsNode(node'[m])
  BY <1>1, <1>3, NodeMade DEF Inner, Shape
<1>5. /\ Alive(n)' /\ \A m \in (Dentries \cup {Null}) \ {n} : Alive(m)' = Alive(m)
  BY <1>3, <1>4, NodeMade, Distinct DEF Alive
<1>6. /\ children' \in Seq(Nodes) /\ ToSet(children') = ToSet(children) \cup {n}
      /\ ToSet(children) \subseteq Nodes
  BY <1>1, Sequences DEF Inner, Shape
<1>7. \A t \in Threads : thread[t].on # n /\ handle[t] # n
  BY <1>3, Distinct DEF Inner, NothingStale
<1>8. Shape'
  BY <1>2, <1>4, <1>6 DEF Inner, Shape
<1>9. MutexRight'
  BY <1>2, <1>4, <1>5, <1>7, NodeMade, Distinct DEF Inner, MutexRight
<1>10. SeenRight'
  <2>1. \A t \in Threads : thread[t].on \in Dentries \cup {Null} /\ handle[t] \in Dentries \cup {Null}
    BY DEF Inner, Shape
  <2> SUFFICES ASSUME NEW t \in Threads
               PROVE  LET m == thread[t].on IN
    /\ thread[t].op \in {"opened", "release"} /\ Alive(m) => thread[t].seen = node[m].refcount
    /\ thread[t].op = "release" => handle[t] = m
    /\ thread[t].op \in {"open", "opened"} => handle[t] = Null
    /\ thread[t].op \in {"read", "copy"} => m \in Nodes
    /\ thread[t].op = "copy" /\ Alive(m) => thread[t].seen = node[m].size
    /\ thread[t].op \in {"open", "opened", "read", "copy"} /\ Alive(m) => node[m].name # Link
    /\ Alive(handle[t]) => node[handle[t]].name # Link
    BY <1>2, <1>4, <1>5, <1>7, <2>1, Distinct DEF SeenRight, Alive
  <2> QED BY DEF Inner, SeenRight
<1>11. CountRight'
  <2>1. Users(n)' = {} /\ \A m \in Dentries : Users(m)' = Users(m)
    BY <1>2, <1>7 DEF Users
  <2>2. Cardinality(Users(n)') = 0
    BY <2>1, FS_EmptySet
  <2>3. ASSUME NEW m \in Dentries, m # n, Alive(m)
        PROVE  node'[m].refcount = Cardinality(Users(m)')
    BY <1>4, <2>1, <2>3 DEF Inner, CountRight
  <2>4. node'[n].refcount = 0
    BY <1>4, NodeMade
  <2> QED BY <1>5, <2>2, <2>3, <2>4 DEF CountRight
<1>12. SizeRight'
  <2>1. 0 \in 0 .. MaxVersion
    BY HandlesAssumption
  <2> QED BY <1>4, <1>5, <2>1, NodeMade, Distinct DEF Inner, SizeRight
<1>13. NothingStale'
  <2>1. handle \in [Threads -> Dentries \cup {Null}]
        /\ \A t \in Threads : thread[t].on \in Dentries \cup {Null}
    BY DEF Inner, Shape
  <2> QED BY <1>1, <1>2, <1>3, <1>4, <1>5, <1>6, <2>1, Distinct DEF Inner, NothingStale, Steady
<1>14. NotTorn'
  BY <1>2 DEF NotTorn
<1> QED BY <1>8, <1>9, <1>10, <1>11, <1>12, <1>13, <1>14 DEF Inner, IInv

LEMMA FormatFindKeeps ==
  ASSUME Inner, NotTorn, FormatFind
  PROVE  IInv'
<1>1. CASE Fails
  BY <1>1, FailsKeeps
<1>2. CASE ~Fails
  <2>1. PICK n \in Dentries : n = parser.on
    BY Distinct DEF FormatFind, Parsing, Inner, NothingStale
  <2>2. /\ parser.op = "created" /\ parser'.op \in {"idle", "format"} /\ parser'.on = n
        /\ UNCHANGED <<node, children, thread, handle, fault>>
    BY <1>2, <2>1 DEF FormatFind, Parsing, ParserAt
  <2>3. Attributed(n, node[n])
    BY <2>2 DEF Attributed, Inner, Shape
  <2>4. thread' = [t \in Threads |-> thread'[t]] /\ \A t \in Threads : IsThread(thread'[t])
    BY <2>2 DEF Inner, Shape
  <2>5. Inner' /\ NotTorn'
    BY <2>1, <2>2, <2>3, <2>4, AttributesKeep
  <2> QED BY <2>5 DEF IInv
<1> QED BY <1>1, <1>2

LEMMA FormatAddKeeps ==
  ASSUME Inner, NotTorn, FormatAdd
  PROVE  IInv'
<1>1. PICK n \in Dentries : n = parser.on
  BY Distinct DEF FormatAdd, Parsing, Inner, NothingStale
<1> DEFINE x == Append(node[n].attrs, Format)
           r == [node[n] EXCEPT !.attrs = x]
<1>2. /\ parser.op = "format" /\ parser'.op = "idle" /\ UNCHANGED <<children, thread, handle, fault>>
      /\ node' = [node EXCEPT ![n] = r]
  BY <1>1 DEF FormatAdd, Parsing, ParserAt
<1>3. IsNode(node[n])
  BY DEF Inner, Shape
<1>4. /\ IsNode(r) /\ r.alive = node[n].alive /\ r.name = node[n].name /\ r.version = node[n].version
      /\ r.size = node[n].size /\ r.refcount = node[n].refcount /\ r.mutex = node[n].mutex
  <2> HIDE DEF x
  <2> QED BY <1>3 DEF IsNode
<1> HIDE DEF r
<1>5. Attributed(n, r)
  BY <1>2, <1>4 DEF Attributed
<1>6. thread' = [t \in Threads |-> thread'[t]] /\ \A t \in Threads : IsThread(thread'[t])
  BY <1>2 DEF Inner, Shape
<1>7. Inner' /\ NotTorn'
  BY <1>1, <1>2, <1>5, <1>6, AttributesKeep
<1> QED BY <1>7 DEF IInv

(* The parser locks n, or gives it back, with other contents or size.      *)
LEMMA ReplaceKeeps ==
  ASSUME Inner, NotTorn, NEW n \in Nodes, NEW r, node' = [node EXCEPT ![n] = r],
         IsNode(r), r.alive = node[n].alive, r.name = node[n].name, r.refcount = node[n].refcount,
         Alive(n), Steady, UNCHANGED <<children, thread, handle, fault>>,
         \/ parser.op = "idle" /\ node[n].mutex = Null /\ r.mutex = Parser
            /\ parser'.op = "update" /\ parser'.on = n
         \/ parser.op = "update" /\ parser.on = n /\ r.mutex = Null /\ parser'.op = "idle",
         r.version \in 0 .. MaxVersion,
         r.name # Link /\ r.mutex # Parser => r.size = Sizes[r.version]
  PROVE  IInv'
<1>1. n \in Dentries /\ n # Dir /\ node[n].mutex \in {Null, Parser}
  BY Distinct DEF Inner, MutexRight
<1>2. /\ node'[n] = r /\ \A m \in Dentries \ {n} : node'[m] = node[m]
      /\ node' = [m \in Dentries |-> node'[m]] /\ \A m \in Dentries : IsNode(node'[m])
      /\ \A m \in Dentries : /\ node'[m].alive = node[m].alive /\ node'[m].name = node[m].name
                             /\ node'[m].refcount = node[m].refcount
  BY <1>1 DEF Inner, Shape
<1>3. \A m \in Dentries \cup {Null} : Alive(m)' = Alive(m)
  BY <1>2, Distinct DEF Alive
<1>4. \A t \in Threads : ~(thread[t].op \in Busy /\ thread[t].on = n)
  BY <1>1, NobodyAt
<1>5. Shape'
  BY <1>2 DEF Inner, Shape
<1>6. MutexRight'
  <2> SUFFICES ASSUME NEW m \in Dentries, Alive(m)
               PROVE  /\ node'[m].mutex \in Threads \cup {Parser, Null}
                      /\ \A u \in Threads : node'[m].mutex = u <=> thread[u].op \in Busy /\ thread[u].on = m
                      /\ node'[m].mutex = Parser <=> parser'.op = "update" /\ parser'.on = m
    BY <1>3 DEF MutexRight
  <2>1. CASE m = n
    BY <1>2, <1>4, <2>1, Distinct
  <2>2. CASE m # n
    BY <1>2, <2>2 DEF Inner, MutexRight
  <2> QED BY <2>1, <2>2
<1>7. SeenRight'
  <2>1. \A t \in Threads : thread[t].on \in Dentries \cup {Null} /\ handle[t] \in Dentries \cup {Null}
    BY DEF Inner, Shape
  <2> SUFFICES ASSUME NEW t \in Threads
               PROVE  LET m == thread[t].on IN
    /\ thread[t].op \in {"opened", "release"} /\ Alive(m) => thread[t].seen = node'[m].refcount
    /\ thread[t].op = "release" => handle[t] = m
    /\ thread[t].op \in {"open", "opened"} => handle[t] = Null
    /\ thread[t].op \in {"read", "copy"} => m \in Nodes
    /\ thread[t].op = "copy" /\ Alive(m) => thread[t].seen = node'[m].size
    /\ thread[t].op \in {"open", "opened", "read", "copy"} /\ Alive(m) => node'[m].name # Link
    /\ Alive(handle[t]) => node'[handle[t]].name # Link
    BY <1>3, <2>1 DEF SeenRight
  <2>2. thread[t].op = "copy" => thread[t].on # n
    BY <1>4 DEF Busy
  <2> QED BY <1>2, <2>1, <2>2, Distinct DEF Inner, SeenRight, Alive
<1>8. CountRight'
  BY <1>2, <1>3 DEF Inner, CountRight, Users
<1>9. SizeRight'
  <2> SUFFICES ASSUME NEW m \in Nodes, Alive(m)
               PROVE  /\ node'[m].version \in 0 .. MaxVersion
                      /\ node'[m].name # Link /\ node'[m].mutex # Parser
                           => node'[m].size = Sizes[node'[m].version]
    BY <1>3, Distinct DEF SizeRight
  <2>1. CASE m = n
    BY <1>2, <2>1
  <2>2. CASE m # n
    BY <1>2, <2>2, Distinct DEF Inner, SizeRight
  <2> QED BY <2>1, <2>2
<1>10. NothingStale'
  <2>1. handle \in [Threads -> Dentries \cup {Null}] /\ ToSet(children) \subseteq Nodes
        /\ \A t \in Threads : thread[t].on \in Dentries \cup {Null}
    BY Sequences DEF Inner, Shape
  <2>2. Steady' /\ (parser'.op \in {"created", "format", "update"} => parser'.on = n)
    BY <1>3, Distinct DEF Steady
  <2> QED BY <1>1, <1>2, <1>3, <2>1, <2>2, Distinct DEF Inner, NothingStale, Steady
<1>11. NotTorn'
  BY DEF NotTorn
<1> QED BY <1>5, <1>6, <1>7, <1>8, <1>9, <1>10, <1>11 DEF Inner, IInv

LEMMA UpdateContentsKeeps ==
  ASSUME Inner, NotTorn, UpdateContents
  PROVE  IInv'
<1>1. PICK n \in ToSet(children) :
        /\ node[n].mutex = Null /\ node[n].version < MaxVersion
        /\ node' = [node EXCEPT ![n].version = node[n].version + 1, ![n].mutex = Parser]
        /\ ParserAt("update", n)
  BY DEF UpdateContents, Unlocked, ChildNamed
<1>2. /\ parser.op = "idle" /\ Steady /\ UNCHANGED <<children, thread, handle, fault>>
      /\ parser'.op = "update" /\ parser'.on = n
  BY <1>1 DEF UpdateContents, Parsing, ParserAt, Steady
<1>3. n \in Nodes /\ n \in Dentries /\ Alive(n) /\ IsNode(node[n])
  <2>1. n \in Nodes /\ Alive(n)
    BY <1>2, PathsThere
  <2> QED BY <2>1 DEF Inner, Shape, Dentries
<1> DEFINE x == node[n].version + 1
           r == Renewed(node[n], x, Parser)
<1>4. x \in 0 .. MaxVersion
  <2>1. node[n].version \in 0 .. MaxVersion
    BY <1>3 DEF Inner, SizeRight
  <2> QED BY <1>1, <2>1, HandlesAssumption
<1>5. node' = [node EXCEPT ![n] = r]
  <2> HIDE DEF x
  <2>1. node' = [node EXCEPT ![n].version = x, ![n].mutex = Parser]
    BY <1>1 DEF x
  <2> QED BY <1>3, <2>1 DEF Renewed, Inner, Shape
<1> HIDE DEF x
<1>6. /\ IsNode(r) /\ r.mutex = Parser /\ r.alive = node[n].alive /\ r.name = node[n].name
      /\ r.version = x /\ r.refcount = node[n].refcount
  BY <1>3, RenewedFields
<1> HIDE DEF r
<1> QED BY <1>1, <1>2, <1>3, <1>4, <1>5, <1>6, ReplaceKeeps

LEMMA UpdateSizeKeeps ==
  ASSUME Inner, NotTorn, UpdateSize
  PROVE  IInv'
<1>1. PICK n \in Nodes : n = parser.on /\ Alive(n) /\ Alive(Dir)
  BY DEF UpdateSize, Parsing, Inner, NothingStale
<1> DEFINE x == IF node[n].name = Link THEN node[n].size ELSE Sizes[node[n].version]
           r == Resized(node[n], x, Null)
<1>2. /\ parser.op = "update" /\ Steady /\ UNCHANGED <<children, thread, handle, fault>>
      /\ parser'.op = "idle"
      /\ node' = [node EXCEPT ![n].size = x, ![n].mutex = Null]
  BY <1>1 DEF UpdateSize, Parsing, ParserAt, Steady
<1>3. n \in Dentries /\ IsNode(node[n])
  BY DEF Inner, Shape, Dentries
<1>4. node[n].version \in 0 .. MaxVersion
  BY <1>1 DEF Inner, SizeRight
<1>5. node[n].name # Link => x = Sizes[node[n].version]
  OBVIOUS
<1> HIDE DEF x
<1>6. node' = [node EXCEPT ![n] = r]
  BY <1>2, <1>3 DEF Resized, Inner, Shape
<1>7. /\ IsNode(r) /\ r.mutex = Null /\ r.alive = node[n].alive /\ r.name = node[n].name
      /\ r.version = node[n].version /\ r.size = x /\ r.refcount = node[n].refcount
  BY <1>3, ResizedFields
<1> HIDE DEF r
<1> QED BY <1>1, <1>2, <1>4, <1>5, <1>6, <1>7, ReplaceKeeps

(* A dentry is freed, unless somebody is at work on it.                    *)
LEMMA DisposeKeeps ==
  ASSUME Inner, NotTorn, NEW n \in Dentries, Dispose(n), UNCHANGED <<thread, handle>>, ~fault,
         parser.op \in {"idle", "dispose"}, parser'.op \in {"idle", "dispose"},
         parser'.op = "dispose" \/ n = Dir,
         children' \in Seq(Nodes), ToSet(children) \subseteq {n} \cup ToSet(children')
  PROVE  IInv'
<1>1. NotTorn'
  BY DEF NotTorn
<1>2. CASE fault'
  BY <1>1, <1>2 DEF IInv
<1>3. CASE ~fault'
  <2>1. node' = [node EXCEPT ![n] = FreedNode] /\ node[n].mutex = Null
    BY <1>3 DEF Dispose
  <2>2. /\ node'[n] = FreedNode /\ \A m \in Dentries \ {n} : node'[m] = node[m]
        /\ node' = [m \in Dentries |-> node'[m]] /\ \A m \in Dentries : IsNode(node'[m])
    BY <2>1, NodeFreed DEF Inner, Shape
  <2>3. \A m \in Dentries \cup {Null} : Alive(m)' <=> Alive(m) /\ m # n
    BY <2>2, NodeFreed, Distinct DEF Alive
  <2>4. ~Steady'
    BY <2>3, Distinct DEF Steady
  <2>5. Shape'
    BY <2>2 DEF Inner, Shape
  <2>6. MutexRight'
    BY <2>2, <2>3 DEF Inner, MutexRight
  <2>7. SeenRight'
    <3>1. \A t \in Threads : thread[t].on \in Dentries \cup {Null} /\ handle[t] \in Dentries \cup {Null}
      BY DEF Inner, Shape
    <3> SUFFICES ASSUME NEW t \in Threads
                 PROVE  LET m == thread[t].on IN
    /\ thread[t].op \in {"opened", "release"} /\ Alive(m)' => thread[t].seen = node'[m].refcount
    /\ thread[t].op = "release" => handle[t] = m
    /\ thread[t].op \in {"open", "opened"} => handle[t] = Null
    /\ thread[t].op \in {"read", "copy"} => m \in Nodes
    /\ thread[t].op = "copy" /\ Alive(m)' => thread[t].seen = node'[m].size
    /\ thread[t].op \in {"open", "opened", "read", "copy"} /\ Alive(m)' => node'[m].name # Link
    /\ Alive(handle[t])' => node'[handle[t]].name # Link
      BY DEF SeenRight
    <3> QED BY <2>2, <2>3, <3>1, Distinct DEF Inner, SeenRight, Alive
  <2>8. CountRight'
    BY <2>2, <2>3 DEF Inner, CountRight, Users
  <2>9. SizeRight'
    BY <2>2, <2>3, Distinct DEF Inner, SizeRight
  <2>10. NothingStale'
    BY <2>2, <2>3, <2>4, Distinct DEF Inner, NothingStale
  <2> QED BY <1>1, <2>5, <2>6, <2>7, <2>8, <2>9, <2>10 DEF Inner, IInv
<1> QED BY <1>2, <1>3

LEMMA DisposeChildKeeps ==
  ASSUME Inner, NotTorn, DisposeChild
  PROVE  IInv'
<1> DEFINE n == Head(children)
<1>1. children \in Seq(Nodes) /\ children # <<>>
  BY DEF Inner, Shape, DisposeChild
<1>2. n \in Dentries /\ children' \in Seq(Nodes) /\ ToSet(children) \subseteq {n} \cup ToSet(children')
  BY <1>1, Sequences, Distinct DEF DisposeChild
<1>3. /\ Dispose(n) /\ UNCHANGED <<thread, handle>> /\ ~fault
      /\ parser.op \in {"idle", "dispose"} /\ parser'.op = "dispose"
  BY DEF DisposeChild, Parsing, ParserAt
<1> HIDE DEF n
<1> QED BY <1>2, <1>3, DisposeKeeps

LEMMA DisposeDirKeeps ==
  ASSUME Inner, NotTorn, DisposeDir
  PROVE  IInv'
<1>1. children \in Seq(Nodes) /\ children' = children
  BY DEF Inner, Shape, DisposeDir
<1>2. /\ Dispose(Dir) /\ UNCHANGED <<thread, handle>> /\ ~fault
      /\ parser.op \in {"idle", "dispose"} /\ parser'.op = "idle"
  BY DEF DisposeDir, Parsing, ParserAt
<1> QED BY <1>1, <1>2, DisposeKeeps, Distinct

-----------------------------------------------------------------------------
LEMMA InitIInv == Init => IInv
<1> SUFFICES ASSUME Init PROVE IInv
  OBVIOUS
<1>1. /\ node[Dir] = NewNode(Null) /\ \A n \in Dentries \ {Dir} : node[n] = FreedNode
      /\ node = [n \in Dentries |-> node[n]]
  BY Distinct DEF Init
<1>2. /\ \A t \in Threads : thread[t] = Idle /\ handle[t] = Null
      /\ thread = [t \in Threads |-> thread[t]]
      /\ children = <<>> /\ parser.op = "idle"
  BY DEF Init
<1>3. Alive(Dir) /\ \A n \in Dentries \cup {Null} : Alive(n) => n = Dir
  BY <1>1, NodeMade, NodeFreed, Distinct DEF Alive
<1>4. Shape
  <2>1. \A n \in Dentries : IsNode(node[n])
    BY <1>1, NodeMade, NodeFreed
  <2>2. \A t \in Threads : IsThread(thread[t]) /\ thread[t].on \in Dentries \cup {Null}
    BY <1>2, ThreadIdle
  <2>3. handle \in [Threads -> Dentries \cup {Null}]
    BY DEF Init
  <2> QED BY <1>1, <1>2, <2>1, <2>2, <2>3 DEF Shape
<1>5. MutexRight
  BY <1>1, <1>2, <1>3, NodeMade, ThreadIdle, Distinct DEF MutexRight, Busy
<1>6. SeenRight
  <2>1. ~Alive(Null)
    BY DEF Alive
  <2> QED BY <1>2, <2>1, ThreadIdle DEF SeenRight
<1>7. CountRight
  <2>1. Users(Dir) = {}
    BY <1>2, Distinct DEF Users
  <2> QED BY <1>1, <1>3, <2>1, FS_EmptySet, NodeMade DEF CountRight
<1>8. SizeRight
  BY <1>3, Distinct DEF SizeRight
<1>9. NothingStale
  <2>1. ToSet(children) = {}
    BY <1>2 DEF ToSet
  <2> QED BY <1>1, <1>2, <1>3, <2>1, NodeMade, ThreadIdle, Distinct DEF NothingStale
<1>10. NotTorn
  BY <1>2, ThreadIdle DEF NotTorn
<1> QED BY <1>4, <1>5, <1>6, <1>7, <1>8, <1>9, <1>10 DEF Inner, IInv

LEMMA FuseStepKeeps ==
  ASSUME Inner, NotTorn, NEW t \in Threads, FuseStep(t)
  PROVE  IInv'
<1>1. CASE OpenLookup(t) \/ OpenLock(t) \/ OpenUnlock(t)
  BY <1>1, OpenLookupKeeps, OpenLockKeeps, OpenUnlockKeeps
<1>2. CASE ReleaseLock(t) \/ ReleaseUnlock(t)
  BY <1>2, ReleaseLockKeeps, ReleaseUnlockKeeps
<1>3. CASE ReadCheck(t) \/ ReadLock(t) \/ ReadCopy(t) \/ Readlink(t)
  BY <1>3, ReadCheckKeeps, ReadLockKeeps, ReadCopyKeeps, ReadlinkKeeps
<1>4. CASE ReaddirStart(t) \/ ReaddirStep(t) \/ Done(t)
  BY <1>4, ReaddirStartKeeps, ReaddirStepKeeps, DoneKeeps
<1>5. CASE SetCheck(t) \/ SetLock(t) \/ SetStore(t)
  BY <1>5, SetCheckKeeps, SetLockKeeps, SetStoreKeeps
<1>6. CASE RemoveFind(t) \/ RemoveFree(t)
  BY <1>6, RemoveFindKeeps, RemoveFreeKeeps
<1>7. CASE ListMeasure(t) \/ ListCopy(t)
  BY <1>7, ListMeasureKeeps, ListCopyKeeps
<1> QED BY <1>1, <1>2, <1>3, <1>4, <1>5, <1>6, <1>7 DEF FuseStep

(* Every step is of a program that has not used what is freed.             *)
LEMMA StepsWithoutFault ==
  ASSUME Next PROVE ~fault
<1>1. ASSUME NEW t \in Threads, FuseStep(t) PROVE ~fault
  BY <1>1 DEF FuseStep, OpenLookup, OpenLock, OpenUnlock, ReleaseLock, ReleaseUnlock, ReadCheck,
              ReadLock, ReadCopy, Readlink, ReaddirStart, ReaddirStep, Done, SetCheck, SetLock,
              SetStore, RemoveFind, RemoveFree, ListMeasure, ListCopy, Doing
<1>2. ASSUME ParserStep PROVE ~fault
  BY <1>2 DEF ParserStep, CreateFile, FormatFind, FormatAdd, UpdateContents, UpdateSize,
              DisposeChild, DisposeDir, Parsing
<1> QED BY <1>1, <1>2 DEF Next

LEMMA NextIInv == IInv /\ [Next]_vars => IInv'
<1> SUFFICES ASSUME IInv, [Next]_vars PROVE IInv'
  OBVIOUS
<1>1. CASE Next
  <2>1. Inner /\ NotTorn
    BY <1>1, StepsWithoutFault DEF IInv
  <2>2. ASSUME NEW t \in Threads, FuseStep(t) PROVE IInv'
    BY <2>1, <2>2, FuseStepKeeps
  <2>3. CASE CreateFile \/ FormatFind \/ FormatAdd
    BY <2>1, <2>3, CreateFileKeeps, FormatFindKeeps, FormatAddKeeps
  <2>4. CASE UpdateContents \/ UpdateSize
    BY <2>1, <2>4, UpdateContentsKeeps, UpdateSizeKeeps
  <2>5. CASE DisposeChild \/ DisposeDir
    BY <2>1, <2>5, DisposeChildKeeps, DisposeDirKeeps
  <2> QED BY <1>1, <2>2, <2>3, <2>4, <2>5 DEF Next, ParserStep
<1>2. CASE UNCHANGED vars
  BY <1>2 DEF vars, IInv, NotTorn, Inner, Shape, MutexRight, SeenRight, CountRight, SizeRight,
              NothingStale, Steady, Users, Alive
<1> QED BY <1>1, <1>2

LEMMA AlwaysIInv == Spec => []IInv
<1> QED BY InitIInv, NextIInv, PTL DEF Spec

-----------------------------------------------------------------------------
(* What a listing and the attributes need beyond IInv.                     *)
(*                                                                         *)
(* The list of children: whatever the parser does, each is there once, and *)
(* no two have one name.                                                   *)
ChildrenRight ==
  /\ children \in Seq(Nodes) /\ IsInjective(children)
  /\ \A n \in Nodes : Alive(n) <=> n \in ToSet(children)
  /\ \A n \in ToSet(children) : node[n].name \in Names
  /\ \A m, n \in ToSet(children) : node[m].name = node[n].name => m = n

(* m is n, or comes after it in the list.                                  *)
After(n, m) == \E i, j \in DOMAIN children : i <= j /\ children[i] = n /\ children[j] = m

(* A listing that has come to n: what is owed was listed or is still to    *)
(* come, and nothing that is still to come was listed.                     *)
Walk(t) ==
  LET n == thread[t].on
      listed == thread[t].listed
  IN  /\ n \in Nodes /\ listed \in Seq(Names)
      /\ Alive(n) =>
           /\ IsInjective(listed)
           /\ \A m \in thread[t].owed : Alive(m) => After(n, m) \/ node[m].name \in ToSet(listed)
           /\ \A m \in Nodes : After(n, m) => node[m].name \notin ToSet(listed)
      /\ Steady => \A x \in ToSet(listed) : \E m \in ToSet(children) : node[m].name = x
Owes(t) == /\ thread[t].owed \subseteq Nodes
           /\ Steady => thread[t].owed \subseteq ToSet(children)
ListedBy(t) ==
  /\ IsInjective(thread[t].listed)
  /\ \A n \in thread[t].owed : Alive(n) => node[n].name \in ToSet(thread[t].listed)
WalkRight(t) == /\ thread[t].op = "readdir" => Walk(t) /\ Owes(t)
                /\ thread[t].op = "listed" => ListedBy(t) /\ Owes(t)
WalksRight == \A t \in Threads : WalkRight(t)

(* Attributes: the parser adds its own where it found that it is missing.  *)
AttrsRight ==
  /\ \A n \in Nodes : node[n].attrs \in Seq(Attrs \cup {Format}) /\ IsInjective(node[n].attrs)
  /\ \A t \in Threads : thread[t].op \in {"set", "setting"} => thread[t].attr \in Attrs
  /\ parser.op = "format" => Format \notin ToSet(node[parser.on].attrs)

More == ChildrenRight /\ WalksRight /\ AttrsRight

-----------------------------------------------------------------------------
(* A step that leaves the list and what is on it alone.                    *)
Kept == /\ children' = children
        /\ \A n \in Dentries : node'[n].alive = node[n].alive /\ node'[n].name = node[n].name
AttrsKept == \A n \in Dentries : node'[n].attrs = node[n].attrs
Others(ops) == \A u \in Threads : thread'[u] = thread[u] \/ thread'[u].op \notin ops

LEMMA KeptAlive ==
  ASSUME Kept, ChildrenRight
  PROVE  /\ \A n \in Dentries \cup {Null} : Alive(n)' = Alive(n)
         /\ ChildrenRight' /\ \A n, m : After(n, m)' = After(n, m)
         /\ \A n \in Nodes : node'[n].name = node[n].name
         /\ ToSet(children) \subseteq Nodes /\ ToSet(children') = ToSet(children)
         /\ parser'.op = "dispose" \/ parser.op # "dispose" => (Steady' => Steady)
<1>1. \A n \in Dentries \cup {Null} : Alive(n)' = Alive(n)
  BY Distinct DEF Kept, Alive
<1>2. ToSet(children) \subseteq Nodes /\ ToSet(children') = ToSet(children)
  BY Sequences DEF ChildrenRight, Kept
<1>3. \A n \in Nodes : node'[n].name = node[n].name
  BY Distinct DEF Kept
<1>4. \A n, m : After(n, m)' = After(n, m)
  BY DEF After, Kept
<1>5. ChildrenRight'
  BY <1>1, <1>2, <1>3, Distinct DEF ChildrenRight, Kept
<1>6. parser'.op = "dispose" \/ parser.op # "dispose" => (Steady' => Steady)
  BY <1>1, Distinct DEF Steady
<1> QED BY <1>1, <1>2, <1>3, <1>4, <1>5, <1>6

LEMMA KeptWalks ==
  ASSUME Kept, ChildrenRight, WalksRight, Others({"readdir", "listed"}),
         parser'.op = "dispose" \/ parser.op # "dispose"
  PROVE  ChildrenRight' /\ WalksRight'
<1>1. /\ \A n \in Dentries \cup {Null} : Alive(n)' = Alive(n)
      /\ ChildrenRight' /\ \A n, m : After(n, m)' = After(n, m)
      /\ \A n \in Nodes : node'[n].name = node[n].name
      /\ ToSet(children) \subseteq Nodes /\ ToSet(children') = ToSet(children)
      /\ Steady' => Steady
  BY KeptAlive
<1>2. ASSUME NEW t \in Threads PROVE WalkRight(t)'
  <2>1. CASE thread'[t] = thread[t] /\ thread[t].op = "readdir"
    <3>1. Walk(t) /\ Owes(t)
      BY <2>1 DEF WalksRight, WalkRight
    <3>2. Owes(t)'
      BY <1>1, <2>1, <3>1 DEF Owes
    <3>3. Walk(t)'
      BY <1>1, <2>1, <3>1, Distinct DEF Walk, Owes
    <3> QED BY <2>1, <3>2, <3>3 DEF WalkRight
  <2>2. CASE thread'[t] = thread[t] /\ thread[t].op = "listed"
    <3>1. ListedBy(t) /\ Owes(t)
      BY <2>2 DEF WalksRight, WalkRight
    <3>2. Owes(t)' /\ ListedBy(t)'
      BY <1>1, <2>2, <3>1, Distinct DEF Owes, ListedBy
    <3> QED BY <2>2, <3>2 DEF WalkRight
  <2>3. CASE thread'[t].op \notin {"readdir", "listed"}
    BY <2>3 DEF WalkRight
  <2> QED BY <2>1, <2>2, <2>3 DEF Others
<1> QED BY <1>1, <1>2 DEF WalksRight

-----------------------------------------------------------------------------
(* xattr_remove(): the first of that name goes.                            *)
LEMMA MinOfNat == ASSUME NEW I, I \subseteq Nat, I # {} PROVE Min(I) \in I
<1> DEFINE R == OpToRel(<, Nat)
<1>1. IsWellFoundedOn(R, Nat)
  BY NatLessThanWellFounded
<1>2. \A i, j \in Nat : j < i => <<j, i>> \in R
  BY DEF OpToRel
<1> HIDE DEF R
<1>3. PICK i \in I : \A j \in I : ~ (<<j, i>> \in R)
  BY <1>1, WFMin
<1>4. \A j \in I : i \in Nat /\ j \in Nat /\ ~ (j < i)
  BY <1>2, <1>3
<1>5. \A j \in I : i <= j
  BY <1>4
<1> QED BY <1>5 DEF Min
LEMMA FirstRemoved ==
  ASSUME NEW S, NEW s \in Seq(S), NEW a
  PROVE  /\ RemoveFirst(s, a) \in Seq(S)
         /\ ToSet(RemoveFirst(s, a)) \subseteq ToSet(s)
         /\ IsInjective(s) => IsInjective(RemoveFirst(s, a)) /\ a \notin ToSet(RemoveFirst(s, a))
<1> DEFINE I == {i \in 1 .. Len(s) : s[i] = a}
           k == Min(I)
           r == RemoveFirst(s, a)
<1>1. CASE I = {}
  <2>1. r = s
    BY <1>1 DEF RemoveFirst
  <2>2. a \notin ToSet(s)
    BY <1>1 DEF ToSet
  <2> QED BY <2>1, <2>2
<1>2. CASE I # {}
  <2>1. r = SubSeq(s, 1, k - 1) \o SubSeq(s, k + 1, Len(s))
    BY <1>2 DEF RemoveFirst, RemoveAt, SelectInSeq
  <2>2. k \in 1 .. Len(s) /\ s[k] = a /\ Len(s) \in Nat
    <3>1. Len(s) \in Nat OBVIOUS
    <3>2. I \subseteq Nat BY <3>1
    <3>3. k \in I
      BY <1>2, <3>2, MinOfNat
    <3> QED BY <3>1, <3>3
  <2> HIDE DEF k
  <2>3. r \in Seq(S) /\ Len(r) = Len(s) - 1 /\ \A i \in 1 .. Len(s) - 1 : r[i] = IF i < k THEN s[i] ELSE s[i + 1]
    <3> DEFINE u == SubSeq(s, 1, k - 1)
               v == SubSeq(s, k + 1, Len(s))
    <3>1. u \in Seq(S) /\ Len(u) = k - 1 /\ \A i \in 1 .. k - 1 : u[i] = s[i]
      BY <2>2
    <3>2. v \in Seq(S) /\ Len(v) = Len(s) - k /\ \A i \in 1 .. Len(s) - k : v[i] = s[i + k]
      BY <2>2
    <3> HIDE DEF u, v
    <3>3. r = u \o v
      BY <2>1 DEF u, v
    <3> HIDE DEF r
    <3>4. r \in Seq(S) /\ Len(r) = Len(u) + Len(v)
      <4>1. \A p, q \in Seq(S) : p \o q \in Seq(S) /\ Len(p \o q) = Len(p) + Len(q)
        OBVIOUS
      <4> QED BY <3>1, <3>2, <3>3, <4>1
    <3>5. \A i \in 1 .. Len(s) - 1 : r[i] = IF i < k THEN u[i] ELSE v[i - Len(u)]
      BY <2>2, <3>1, <3>2, <3>3
    <3>6. ASSUME NEW i \in 1 .. Len(s) - 1 PROVE r[i] = IF i < k THEN s[i] ELSE s[i + 1]
      <4>1. CASE i < k
        BY <2>2, <3>1, <3>5, <4>1
      <4>2. CASE ~ (i < k)
        <5>1. i - Len(u) = i - (k - 1) /\ i - (k - 1) \in 1 .. Len(s) - k /\ (i - (k - 1)) + k = i + 1
          BY <2>2, <3>1, <4>2
        <5> QED BY <3>2, <3>5, <4>2, <5>1
      <4> QED BY <4>1, <4>2
    <3> QED BY <2>2, <3>1, <3>2, <3>4, <3>6
  <2> HIDE DEF r
  <2>4. DOMAIN r = 1 .. Len(s) - 1 /\ DOMAIN s = 1 .. Len(s)
    BY <2>3
  <2>5. ToSet(r) \subseteq ToSet(s)
    <3>1. \A i \in DOMAIN r : \E j \in DOMAIN s : r[i] = s[j]
      <4> TAKE i \in DOMAIN r
      <4>1. i \in DOMAIN s /\ i + 1 \in DOMAIN s
        BY <2>2, <2>4
      <4>2. r[i] = s[i] \/ r[i] = s[i + 1]
        BY <2>3, <2>4
      <4> QED BY <4>1, <4>2
    <3> QED BY <3>1 DEF ToSet
  <2>6. ASSUME IsInjective(s) PROVE IsInjective(r) /\ a \notin ToSet(r)
    <3>1. \A i, j \in 1 .. Len(s) : s[i] = s[j] => i = j
      BY <2>4, <2>6 DEF IsInjective
    <3>2. IsInjective(r)
      BY <2>2, <2>3, <2>4, <3>1 DEF IsInjective
    <3>3. a \notin ToSet(r)
      BY <2>2, <2>3, <2>4, <3>1 DEF ToSet
    <3> QED BY <3>2, <3>3
  <2> QED BY <2>3, <2>5, <2>6 DEF r
<1> QED BY <1>1, <1>2

(* list_add_tail() of what is not there.                                  *)
LEMMA OneAdded ==
  ASSUME NEW S, NEW s \in Seq(S), NEW a \in S
  PROVE  /\ Append(s, a) \in Seq(S) /\ ToSet(Append(s, a)) = ToSet(s) \cup {a}
         /\ IsInjective(s) /\ a \notin ToSet(s) => IsInjective(Append(s, a))
<1> DEFINE q == Append(s, a)
<1>1. q \in Seq(S) /\ DOMAIN q = 1 .. Len(s) + 1 /\ DOMAIN s = 1 .. Len(s) /\ Len(s) \in Nat
  OBVIOUS
<1>2. q[Len(s) + 1] = a /\ \A i \in 1 .. Len(s) : q[i] = s[i]
  OBVIOUS
<1> HIDE DEF q
<1>3. ToSet(q) = ToSet(s) \cup {a}
  BY <1>1, <1>2 DEF ToSet
<1>4. ASSUME IsInjective(s), a \notin ToSet(s) PROVE IsInjective(q)
  <2>1. \A i \in DOMAIN s : s[i] # a
    BY <1>4 DEF ToSet
  <2> QED BY <1>1, <1>2, <1>4, <2>1 DEF IsInjective
<1> QED BY <1>1, <1>3, <1>4 DEF q

-----------------------------------------------------------------------------
LEMMA StillMore ==
  ASSUME More, UNCHANGED <<node, children, thread, parser>>
  PROVE  More'
<1>1. ChildrenRight' /\ WalksRight'
  BY KeptWalks DEF More, Kept, Others
<1>2. AttrsRight'
  BY DEF More, AttrsRight
<1> QED BY <1>1, <1>2 DEF More

LEMMA FailsMore == ASSUME More, Fails PROVE More'
<1> QED BY StillMore DEF Fails

(* A thread goes on, dentries stay as they are but for counts and mutexes. *)
LEMMA ThreadMore ==
  ASSUME Inner, More, NEW t \in Threads, NEW s, thread' = [thread EXCEPT ![t] = s],
         Kept, AttrsKept, parser' = parser, s.op \notin {"readdir", "listed"},
         s.op \in {"set", "setting"} => s.attr \in Attrs
  PROVE  More'
<1>1. \A u \in Threads : thread'[u] = IF u = t THEN s ELSE thread[u]
  BY DEF Inner, Shape
<1>2. ChildrenRight' /\ WalksRight'
  BY <1>1, KeptWalks DEF More, Others
<1>3. AttrsRight'
  <2>1. parser.op = "format" => parser.on \in Dentries
    BY Distinct DEF Inner, NothingStale
  <2> QED BY <1>1, <2>1, Distinct DEF More, AttrsKept, AttrsRight
<1> QED BY <1>2, <1>3 DEF More

LEMMA LookMore ==
  ASSUME Inner, More, NEW t \in Threads, NEW s, Goto(t, s),
         UNCHANGED <<node, children, parser>>, s.op \notin {"readdir", "listed"},
         s.op \in {"set", "setting"} => s.attr \in Attrs
  PROVE  More'
<1>1. Kept /\ AttrsKept
  BY DEF Kept, AttrsKept
<1> QED BY <1>1, ThreadMore DEF Goto

(* pthread_mutex_lock() of a dentry.                                       *)
LEMMA LockMore ==
  ASSUME Inner, More, NEW t \in Threads, NEW s, Goto(t, s), NEW n \in Dentries, NEW x,
         node' = [node EXCEPT ![n].mutex = x],
         UNCHANGED <<children, parser>>, s.op \notin {"readdir", "listed"},
         s.op \in {"set", "setting"} => s.attr \in Attrs
  PROVE  More'
<1> DEFINE r == [node[n] EXCEPT !.mutex = x]
<1>1. r.alive = node[n].alive /\ r.name = node[n].name /\ r.attrs = node[n].attrs
  <2>1. IsNode(node[n])
    BY DEF Inner, Shape
  <2> QED BY <2>1 DEF IsNode
<1>2. node' = [node EXCEPT ![n] = r]
  OBVIOUS
<1>3. Kept /\ AttrsKept
  <2> HIDE DEF r
  <2> QED BY <1>1, <1>2 DEF Kept, AttrsKept, Inner, Shape
<1> QED BY <1>3, ThreadMore DEF Goto

LEMMA ThreadAttr ==
  ASSUME NEW op, NEW n, NEW seen, NEW a
  PROVE  LET q == [At(op, n, seen) EXCEPT !.attr = a] IN q.op = op /\ q.attr = a
<1> DEFINE p == At(op, n, seen)
<1>1. IsThread(p) /\ p.op = op
  BY ThreadAt
<1> HIDE DEF p
<1>2. LET q == [p EXCEPT !.attr = a] IN q.op = op /\ q.attr = a
  BY <1>1 DEF IsThread
<1> QED BY <1>2 DEF p

-----------------------------------------------------------------------------
(* FUSE's threads, but for readdir() and changes of attributes.            *)
LEMMA OpenMore ==
  ASSUME Inner, More, NEW t \in Threads, OpenLookup(t) \/ OpenLock(t) \/ OpenUnlock(t)
  PROVE  More'
<1>1. CASE Fails
  BY <1>1, FailsMore
<1>2. CASE OpenLookup(t)
  <2>1. PICK n \in Paths : Goto(t, At("open", n, 0)) /\ UNCHANGED <<node, children, parser>>
    BY <1>2 DEF OpenLookup
  <2> QED BY <2>1, ThreadAt, LookMore
<1>3. CASE OpenLock(t) /\ ~Fails
  <2>1. PICK n \in Dentries : n = thread[t].on
    BY <1>3 DEF OpenLock, Alive, Inner, Shape
  <2> DEFINE s == At("opened", n, node[n].refcount)
  <2>2. /\ Goto(t, s) /\ UNCHANGED <<children, parser>>
        /\ node' = [node EXCEPT ![n].mutex = t]
    BY <1>3, <2>1 DEF OpenLock
  <2>3. s.op \notin {"readdir", "listed", "set", "setting"}
    BY ThreadAt
  <2> HIDE DEF s
  <2> QED BY <2>1, <2>2, <2>3, LockMore
<1>4. CASE OpenUnlock(t) /\ ~Fails
  <2>1. PICK n \in Dentries : n = thread[t].on
    BY <1>4 DEF OpenUnlock, Alive, Inner, Shape
  <2> DEFINE x == thread[t].seen + 1
             r == Counted(node[n], x, Null)
  <2>2. /\ Goto(t, Idle) /\ UNCHANGED <<children, parser>>
        /\ node' = [node EXCEPT ![n].refcount = x, ![n].mutex = Null]
    BY <1>4, <2>1 DEF OpenUnlock
  <2> HIDE DEF x
  <2>3. node' = [node EXCEPT ![n] = r]
    BY <2>2 DEF Counted, Inner, Shape
  <2>4. r.alive = node[n].alive /\ r.name = node[n].name /\ r.attrs = node[n].attrs
    BY CountedFields DEF Inner, Shape
  <2> HIDE DEF r
  <2>5. Idle.op \notin {"readdir", "listed", "set", "setting"}
    BY ThreadIdle
  <2>6. Kept /\ AttrsKept
    BY <2>2, <2>3, <2>4 DEF Kept, AttrsKept, Inner, Shape
  <2> QED BY <2>2, <2>5, <2>6, ThreadMore DEF Goto
<1> QED BY <1>1, <1>2, <1>3, <1>4

LEMMA ReleaseMore ==
  ASSUME Inner, More, NEW t \in Threads, ReleaseLock(t) \/ ReleaseUnlock(t)
  PROVE  More'
<1>1. CASE Fails
  BY <1>1, FailsMore
<1>2. CASE ReleaseLock(t) /\ ~Fails
  <2>1. PICK n \in Dentries : n = handle[t]
    BY <1>2 DEF ReleaseLock, Alive, Inner, Shape
  <2> DEFINE s == At("release", n, node[n].refcount)
  <2>2. /\ Goto(t, s) /\ UNCHANGED <<children, parser>>
        /\ node' = [node EXCEPT ![n].mutex = t]
    BY <1>2, <2>1 DEF ReleaseLock
  <2>3. s.op \notin {"readdir", "listed", "set", "setting"}
    BY ThreadAt
  <2> HIDE DEF s
  <2> QED BY <2>1, <2>2, <2>3, LockMore
<1>3. CASE ReleaseUnlock(t) /\ ~Fails
  <2>1. PICK n \in Dentries : n = thread[t].on
    BY <1>3 DEF ReleaseUnlock, Alive, Inner, Shape
  <2> DEFINE x == thread[t].seen - 1
             r == Counted(node[n], x, Null)
  <2>2. /\ Goto(t, Idle) /\ UNCHANGED <<children, parser>>
        /\ node' = [node EXCEPT ![n].refcount = x, ![n].mutex = Null]
    BY <1>3, <2>1 DEF ReleaseUnlock
  <2> HIDE DEF x
  <2>3. node' = [node EXCEPT ![n] = r]
    BY <2>2 DEF Counted, Inner, Shape
  <2>4. r.alive = node[n].alive /\ r.name = node[n].name /\ r.attrs = node[n].attrs
    BY CountedFields DEF Inner, Shape
  <2> HIDE DEF r
  <2>5. Idle.op \notin {"readdir", "listed", "set", "setting"}
    BY ThreadIdle
  <2>6. Kept /\ AttrsKept
    BY <2>2, <2>3, <2>4 DEF Kept, AttrsKept, Inner, Shape
  <2> QED BY <2>2, <2>5, <2>6, ThreadMore DEF Goto
<1> QED BY <1>1, <1>2, <1>3

LEMMA ReadMore ==
  ASSUME Inner, More, NEW t \in Threads,
         ReadCheck(t) \/ ReadLock(t) \/ ReadCopy(t) \/ Readlink(t) \/ Done(t)
  PROVE  More'
<1>1. CASE Fails
  BY <1>1, FailsMore
<1>2. CASE ReadCheck(t) /\ ~Fails
  <2>1. Goto(t, At("read", handle[t], 0)) /\ UNCHANGED <<node, children, parser>>
    BY <1>2 DEF ReadCheck
  <2> QED BY <2>1, ThreadAt, LookMore
<1>3. CASE ReadLock(t) /\ ~Fails
  <2>1. PICK n \in Dentries : n = thread[t].on
    BY <1>3 DEF ReadLock, Alive, Inner, Shape
  <2> DEFINE s == At("copy", n, node[n].size)
  <2>2. /\ Goto(t, s) /\ UNCHANGED <<children, parser>>
        /\ node' = [node EXCEPT ![n].mutex = t]
    BY <1>3, <2>1 DEF ReadLock
  <2>3. s.op \notin {"readdir", "listed", "set", "setting"}
    BY ThreadAt
  <2> HIDE DEF s
  <2> QED BY <2>1, <2>2, <2>3, LockMore
<1>4. CASE ReadCopy(t) /\ ~Fails
  <2>1. PICK n \in Dentries : n = thread[t].on
    BY <1>4 DEF ReadCopy, Alive, Inner, Shape
  <2> DEFINE s == Got(thread[t], "got", <<node[n].version>>)
  <2>2. /\ Goto(t, s) /\ UNCHANGED <<children, parser>>
        /\ node' = [node EXCEPT ![n].mutex = Null]
    BY <1>4, <2>1 DEF ReadCopy, Got
  <2>3. s.op = "got"
    BY ThreadGot DEF Inner, Shape
  <2> HIDE DEF s
  <2> QED BY <2>2, <2>3, LockMore
<1>5. CASE Readlink(t) /\ ~Fails
  <2>1. PICK n \in Links : Goto(t, At("got", n, node[n].size)) /\ UNCHANGED <<node, children, parser>>
    BY <1>5 DEF Readlink
  <2> QED BY <2>1, ThreadAt, LookMore
<1>6. CASE Done(t)
  BY <1>6, ThreadIdle, LookMore DEF Done
<1> QED BY <1>1, <1>2, <1>3, <1>4, <1>5, <1>6

LEMMA ListMore ==
  ASSUME Inner, More, NEW t \in Threads, ListMeasure(t) \/ ListCopy(t)
  PROVE  More'
<1>1. CASE Fails
  BY <1>1, FailsMore
<1>2. CASE ListMeasure(t) /\ ~Fails
  <2>1. PICK n \in Files : Goto(t, At("list", n, Len(node[n].attrs)))
                           /\ UNCHANGED <<node, children, parser>>
    BY <1>2 DEF ListMeasure
  <2> QED BY <2>1, ThreadAt, LookMore
<1>3. CASE ListCopy(t) /\ ~Fails
  BY <1>3, ThreadIdle, LookMore DEF ListCopy
<1> QED BY <1>1, <1>2, <1>3

-----------------------------------------------------------------------------
(* demuxfs_setxattr(), demuxfs_removexattr().                              *)
LEMMA FindMore ==
  ASSUME Inner, More, NEW t \in Threads, SetCheck(t) \/ RemoveFind(t)
  PROVE  More'
<1>1. CASE Fails
  BY <1>1, FailsMore
<1>2. CASE SetCheck(t) /\ ~Fails
  <2>1. PICK n \in Files, a \in Attrs : Goto(t, [At("set", n, 0) EXCEPT !.attr = a])
                                        /\ UNCHANGED <<node, children, parser>>
    BY <1>2 DEF SetCheck
  <2> DEFINE s == [At("set", n, 0) EXCEPT !.attr = a]
  <2>2. s.op = "set" /\ s.attr = a
    BY ThreadAttr
  <2> HIDE DEF s
  <2>3. Goto(t, s)
    BY <2>1 DEF s
  <2> QED BY <2>1, <2>2, <2>3, LookMore
<1>3. CASE RemoveFind(t) /\ ~Fails
  <2>1. PICK n \in Files, a \in Attrs \cup {Format} :
          Goto(t, [At("removing", n, 0) EXCEPT !.attr = a]) /\ UNCHANGED <<node, children, parser>>
    BY <1>3 DEF RemoveFind
  <2> DEFINE s == [At("removing", n, 0) EXCEPT !.attr = a]
  <2>2. s.op = "removing"
    BY ThreadAttr
  <2>3. Goto(t, s)
    BY <2>1
  <2> HIDE DEF s
  <2> QED BY <2>1, <2>2, <2>3, LookMore
<1> QED BY <1>1, <1>2, <1>3

LEMMA SetLockMore ==
  ASSUME Inner, More, NEW t \in Threads, SetLock(t)
  PROVE  More'
<1>1. CASE Fails
  BY <1>1, FailsMore
<1>2. CASE ~Fails
  <2>1. PICK n \in Dentries : n = thread[t].on
    BY <1>2 DEF SetLock, Alive, Inner, Shape
  <2> DEFINE s == [thread[t] EXCEPT !.op = "setting"]
  <2>2. /\ Goto(t, s) /\ UNCHANGED <<children, parser>>
        /\ node' = [node EXCEPT ![n].mutex = t]
    BY <1>2, <2>1 DEF SetLock
  <2>3. s.op = "setting" /\ s.attr = thread[t].attr
    BY DEF Inner, Shape, IsThread
  <2>4. thread[t].attr \in Attrs
    BY DEF SetLock, Doing, More, AttrsRight
  <2> HIDE DEF s
  <2> QED BY <2>2, <2>3, <2>4, LockMore
<1> QED BY <1>1, <1>2

(* The attributes of n change to x: none twice, and no Format that was not *)
(* there.                                                                  *)
LEMMA ChangeMore ==
  ASSUME Inner, More, NEW t \in Threads, Goto(t, Idle), NEW n \in Dentries, NEW r,
         node' = [node EXCEPT ![n] = r],
         r.alive = node[n].alive, r.name = node[n].name,
         n \in Nodes => /\ r.attrs \in Seq(Attrs \cup {Format}) /\ IsInjective(r.attrs)
                        /\ Format \in ToSet(r.attrs) => Format \in ToSet(node[n].attrs),
         UNCHANGED <<children, parser>>
  PROVE  More'
<1>1. \A u \in Threads : thread'[u] = IF u = t THEN Idle ELSE thread[u]
  BY DEF Inner, Shape, Goto
<1>2. \A m \in Dentries : node'[m] = IF m = n THEN r ELSE node[m]
  BY DEF Inner, Shape
<1>3. Kept
  BY <1>2 DEF Kept
<1>4. ChildrenRight' /\ WalksRight'
  BY <1>1, <1>3, ThreadIdle, KeptWalks DEF More, Others
<1>5. AttrsRight'
  <2>1. parser.op = "format" => parser.on \in Nodes
    BY Distinct DEF Inner, NothingStale
  <2>2. \A u \in Threads : thread'[u].op \in {"set", "setting"} => thread'[u].attr \in Attrs
    BY <1>1, ThreadIdle DEF More, AttrsRight
  <2>3. \A m \in Nodes : node'[m].attrs \in Seq(Attrs \cup {Format}) /\ IsInjective(node'[m].attrs)
    BY <1>2, Distinct DEF More, AttrsRight
  <2>4. parser.op = "format" => Format \notin ToSet(node'[parser.on].attrs)
    BY <1>2, <2>1, Distinct DEF More, AttrsRight
  <2> QED BY <2>2, <2>3, <2>4 DEF AttrsRight
<1> QED BY <1>4, <1>5 DEF More

LEMMA SetStoreMore ==
  ASSUME Inner, More, NEW t \in Threads, SetStore(t)
  PROVE  More'
<1>1. CASE Fails
  BY <1>1, FailsMore
<1>2. CASE ~Fails
  <2>1. PICK n \in Dentries : n = thread[t].on
    BY <1>2 DEF SetStore, Alive, Inner, Shape
  <2> DEFINE a == thread[t].attr
             x == AttrSet(node[n].attrs, a)
             r == Given(node[n], x, Null)
  <2>2. /\ Goto(t, Idle) /\ UNCHANGED <<children, parser>>
        /\ node' = [node EXCEPT ![n].attrs = x, ![n].mutex = Null]
    BY <1>2, <2>1 DEF SetStore, Inner, Shape, IsNode
  <2>3. a \in Attrs /\ a # Format
    BY HandlesAssumption DEF SetStore, Doing, More, AttrsRight
  <2>4. ASSUME n \in Nodes
        PROVE  /\ x \in Seq(Attrs \cup {Format}) /\ IsInjective(x)
               /\ Format \in ToSet(x) => Format \in ToSet(node[n].attrs)
    <3> DEFINE s == node[n].attrs
               p == RemoveFirst(s, a)
    <3>1. s \in Seq(Attrs \cup {Format}) /\ IsInjective(s)
      BY <2>4 DEF More, AttrsRight
    <3>2. p \in Seq(Attrs \cup {Format}) /\ ToSet(p) \subseteq ToSet(s) /\ IsInjective(p) /\ a \notin ToSet(p)
      BY <3>1, FirstRemoved
    <3>3. x = Append(p, a)
      BY DEF AttrSet
    <3> HIDE DEF p, x, a
    <3> QED BY <2>3, <3>2, <3>3, OneAdded
  <2> HIDE DEF x
  <2>5. node' = [node EXCEPT ![n] = r]
    BY <2>2 DEF Given, Inner, Shape
  <2>6. r.alive = node[n].alive /\ r.name = node[n].name /\ r.attrs = x
    BY GivenFields DEF Inner, Shape
  <2> HIDE DEF r
  <2> QED BY <2>2, <2>4, <2>5, <2>6, ChangeMore
<1> QED BY <1>1, <1>2

LEMMA RemoveFreeMore ==
  ASSUME Inner, More, NEW t \in Threads, RemoveFree(t)
  PROVE  More'
<1>1. CASE Fails
  BY <1>1, FailsMore
<1>2. CASE ~Fails
  <2>1. PICK n \in Dentries : n = thread[t].on
    BY <1>2 DEF RemoveFree, Alive, Inner, Shape
  <2> DEFINE a == thread[t].attr
             x == RemoveFirst(node[n].attrs, a)
             r == [node[n] EXCEPT !.attrs = x]
  <2>2. /\ Goto(t, Idle) /\ UNCHANGED <<children, parser>> /\ node' = [node EXCEPT ![n] = r]
    BY <1>2, <2>1 DEF RemoveFree
  <2>3. ASSUME n \in Nodes
        PROVE  /\ x \in Seq(Attrs \cup {Format}) /\ IsInjective(x)
               /\ Format \in ToSet(x) => Format \in ToSet(node[n].attrs)
    <3>1. node[n].attrs \in Seq(Attrs \cup {Format}) /\ IsInjective(node[n].attrs)
      BY <2>3 DEF More, AttrsRight
    <3> QED BY <3>1, FirstRemoved
  <2> HIDE DEF x
  <2>4. r.alive = node[n].alive /\ r.name = node[n].name /\ r.attrs = x
    BY DEF Inner, Shape, IsNode
  <2> HIDE DEF r
  <2> QED BY <2>2, <2>3, <2>4, ChangeMore
<1> QED BY <1>1, <1>2

-----------------------------------------------------------------------------
(* demuxfs_readdir().                                                      *)
LEMMA WalkMore ==
  ASSUME Inner, More, NEW t \in Threads, NEW s, Goto(t, s), UNCHANGED <<node, children, parser>>,
         s.op \in {"readdir", "listed"}, WalkRight(t)'
  PROVE  More'
<1>1. \A u \in Threads : thread'[u] = IF u = t THEN s ELSE thread[u]
  BY DEF Inner, Shape, Goto
<1>2. Kept /\ AttrsKept
  BY DEF Kept, AttrsKept
<1>3. ASSUME NEW u \in Threads, u # t PROVE WalkRight(u)'
  BY <1>1, <1>3 DEF More, WalksRight, WalkRight, Walk, Owes, ListedBy, After, Alive, Steady
<1>4. WalksRight'
  BY <1>3 DEF WalksRight
<1>5. ChildrenRight'
  BY <1>2, KeptAlive DEF More
<1>6. AttrsRight'
  BY <1>1 DEF More, AttrsRight
<1> QED BY <1>4, <1>5, <1>6 DEF More

LEMMA EmptyIsInjective ==
  /\ IsInjective(<<>>) /\ ToSet(<<>>) = {}
<1>1. DOMAIN <<>> = {}
  OBVIOUS
<1> QED BY <1>1 DEF IsInjective, ToSet

LEMMA ReaddirStartMore ==
  ASSUME Inner, More, NEW t \in Threads, ReaddirStart(t)
  PROVE  More'
<1>1. CASE Fails
  BY <1>1, FailsMore
<1>2. CASE ~Fails
  <2>0. PICK n : n = NextChild(Dir)
    OBVIOUS
  <2> DEFINE op == IF n = Null THEN "listed" ELSE "readdir"
             s == Owing(Idle, op, n, ToSet(children))
  <2>1. Goto(t, s) /\ UNCHANGED <<node, children, parser>>
    BY <1>2, <2>0 DEF ReaddirStart, Owing
  <2>2. s.op = op /\ s.on = n /\ s.listed = <<>> /\ s.owed = ToSet(children)
    BY ThreadIdle, ThreadOwed
  <2>3. /\ children \in Seq(Nodes) /\ Len(children) \in Nat /\ DOMAIN children = 1 .. Len(children)
        /\ ToSet(children) \subseteq Nodes
    BY Sequences DEF Inner, Shape
  <2>4. n = IF Len(children) = 0 THEN Null ELSE children[1]
    BY <2>0 DEF NextChild
  <2> HIDE DEF s
  <2>5. thread'[t] = s
    BY <2>1 DEF Goto, Inner, Shape
  <2>6. Owes(t)'
    BY <2>1, <2>2, <2>3, <2>5 DEF Owes
  <2>7. CASE Len(children) = 0
    <3>1. n = Null /\ ToSet(children) = {}
      BY <2>3, <2>4, <2>7 DEF ToSet
    <3>2. ListedBy(t)'
      BY <2>2, <2>5, <3>1, EmptyIsInjective DEF ListedBy
    <3>3. WalkRight(t)'
      BY <2>2, <2>5, <2>6, <3>1, <3>2 DEF WalkRight
    <3> QED BY <2>1, <2>2, <3>3, WalkMore
  <2>8. CASE Len(children) # 0
    <3>1. n = children[1] /\ 1 \in DOMAIN children /\ n \in Nodes /\ n # Null
      BY <2>3, <2>4, <2>8, Distinct
    <3>2. \A m \in ToSet(children) : After(n, m)
      BY <2>3, <3>1 DEF After, ToSet
    <3>3. <<>> \in Seq(Names)
      OBVIOUS
    <3>4. \A m \in ToSet(children) : After(n, m)'
      BY <2>1, <3>2 DEF After
    <3>6. Walk(t)'
      BY <2>2, <2>5, <3>1, <3>3, <3>4, EmptyIsInjective DEF Walk
    <3>7. WalkRight(t)'
      BY <2>2, <2>5, <2>6, <3>1, <3>6 DEF WalkRight
    <3> QED BY <2>1, <2>2, <3>1, <3>7, WalkMore
  <2> QED BY <2>7, <2>8
<1> QED BY <1>1, <1>2

LEMMA ReaddirStepMore ==
  ASSUME Inner, More, NEW t \in Threads, ReaddirStep(t)
  PROVE  More'
<1>1. CASE Fails
  BY <1>1, FailsMore
<1>2. CASE ~Fails
  <2>1. thread[t].op = "readdir" /\ Walk(t) /\ Owes(t)
    BY DEF ReaddirStep, Doing, More, WalksRight, WalkRight
  <2>2. PICK n \in Nodes : n = thread[t].on /\ Alive(n)
    BY <1>2, <2>1 DEF ReaddirStep, Walk
  <2>3. /\ children \in Seq(Nodes) /\ Len(children) \in Nat /\ DOMAIN children = 1 .. Len(children)
        /\ ToSet(children) \subseteq Nodes
        /\ \A i, j \in 1 .. Len(children) : children[i] = children[j] => i = j
    BY Sequences DEF Inner, Shape, More, ChildrenRight, IsInjective
  <2>4. PICK k \in 1 .. Len(children) : children[k] = n
    BY <2>2, <2>3 DEF More, ChildrenRight, ToSet
  <2> DEFINE next == NextChild(n)
             op == IF next = Null THEN "listed" ELSE "readdir"
             w == Append(thread[t].listed, node[n].name)
             s == Listing(thread[t], op, next, w)
  <2>5. Goto(t, s) /\ UNCHANGED <<node, children, parser>>
    <3>1. WalkTo(t, next, w) /\ UNCHANGED <<node, children, parser>>
      BY <1>2, <2>2 DEF ReaddirStep
    <3> HIDE DEF next, w
    <3> QED BY <3>1 DEF WalkTo, Listing
  <2>6. s.op = op /\ s.on = next /\ s.listed = w /\ s.owed = thread[t].owed
    <3>1. IsThread(thread[t])
      BY DEF Inner, Shape
    <3> HIDE DEF op, next, w
    <3> QED BY <3>1, ThreadListed
  <2>7. next = IF k = Len(children) THEN Null ELSE children[k + 1]
    <3>1. n # Dir
      BY Distinct
    <3> DEFINE c == CHOOSE j \in 1 .. Len(children) : children[j] = n
    <3>2. c \in 1 .. Len(children) /\ children[c] = n
      BY <2>4
    <3>3. next = IF c = Len(children) THEN Null ELSE children[c + 1]
      BY <3>1 DEF NextChild
    <3> HIDE DEF c
    <3>4. c = k
      BY <2>3, <2>4, <3>2
    <3> QED BY <3>3, <3>4
  <2> HIDE DEF next, s
  <2>8. /\ thread[t].listed \in Seq(Names) /\ IsInjective(thread[t].listed)
        /\ \A m \in thread[t].owed : Alive(m) => After(n, m) \/ node[m].name \in ToSet(thread[t].listed)
        /\ \A m \in Nodes : After(n, m) => node[m].name \notin ToSet(thread[t].listed)
        /\ Steady => \A x \in ToSet(thread[t].listed) : \E m \in ToSet(children) : node[m].name = x
    BY <2>1, <2>2 DEF Walk
  <2>9. n \in ToSet(children) /\ node[n].name \in Names
    BY <2>2 DEF More, ChildrenRight
  <2>10. After(n, n)
    BY <2>3, <2>4 DEF After
  <2>11. w \in Seq(Names) /\ IsInjective(w) /\ ToSet(w) = ToSet(thread[t].listed) \cup {node[n].name}
    BY <2>8, <2>9, <2>10, OneAdded
  <2> HIDE DEF w
  <2>12. thread'[t] = s
    BY <2>5 DEF Goto, Inner, Shape
  <2>13. Owes(t)'
    BY <2>1, <2>5, <2>6, <2>12 DEF Owes, Steady, Alive
  <2>14. \A i \in DOMAIN children : children[i] = n => i = k
    BY <2>3, <2>4
  <2>15. CASE k = Len(children)
    <3>1. \A m : After(n, m) => m = n
      BY <2>3, <2>4, <2>14, <2>15 DEF After
    <3>2. ListedBy(t)'
      BY <2>5, <2>6, <2>8, <2>11, <2>12, <3>1 DEF ListedBy, Alive
    <3>3. WalkRight(t)'
      BY <2>6, <2>7, <2>12, <2>13, <2>15, <3>2 DEF WalkRight
    <3> QED BY <2>5, <2>6, <2>7, <2>15, <3>3, WalkMore
  <2>16. CASE k # Len(children)
    <3>1. next = children[k + 1] /\ k + 1 \in DOMAIN children /\ next \in Nodes /\ next # Null
      <4>1. next = children[k + 1]
        BY <2>7, <2>16
      <4>2. k + 1 \in 1 .. Len(children)
        <5> DEFINE l == Len(children)
        <5>1. k \in 1 .. l /\ k # l /\ l \in Nat
          BY <2>3, <2>16
        <5> HIDE DEF l
        <5>2. k + 1 \in 1 .. l
          BY <5>1
        <5> QED BY <5>2 DEF l
      <4>3. children[k + 1] \in Nodes
        BY <2>3, <4>2
      <4> QED BY <2>3, <4>1, <4>2, <4>3, Distinct
    <3>2. \A m : After(n, m) => m = n \/ After(next, m)
      <4> SUFFICES ASSUME NEW m, NEW i \in DOMAIN children, NEW j \in DOMAIN children,
                          i <= j, children[i] = n, children[j] = m, m # n
                   PROVE  After(next, m)
        BY DEF After
      <4>1. i = k /\ k + 1 <= j
        BY <2>3, <2>14
      <4> QED BY <3>1, <4>1 DEF After
    <3>3. \A m : After(next, m) => After(n, m) /\ m # n /\ m \in ToSet(children)
      <4> SUFFICES ASSUME NEW m, NEW i \in DOMAIN children, NEW j \in DOMAIN children,
                          i <= j, children[i] = next, children[j] = m
                   PROVE  After(n, m) /\ m # n /\ m \in ToSet(children)
        BY DEF After
      <4>1. i = k + 1 /\ k <= j /\ j # k
        BY <2>3, <3>1
      <4> QED BY <2>3, <2>4, <2>14, <4>1 DEF After, ToSet
    <3>4. \A m \in Nodes : After(next, m) => node[m].name # node[n].name
      BY <2>9, <3>3 DEF More, ChildrenRight
    <3>5. \A m \in thread[t].owed : Alive(m) => After(next, m) \/ node[m].name \in ToSet(w)
      BY <2>8, <2>11, <3>2
    <3>6. \A m \in Nodes : After(next, m) => node[m].name \notin ToSet(w)
      BY <2>8, <2>11, <3>3, <3>4
    <3>7. Steady => \A x \in ToSet(w) : \E m \in ToSet(children) : node[m].name = x
      BY <2>8, <2>9, <2>11
    <3>8. Walk(t)'
      BY <2>5, <2>6, <2>11, <2>12, <3>1, <3>5, <3>6, <3>7 DEF Walk, After, Alive, Steady
    <3>9. WalkRight(t)'
      BY <2>6, <2>12, <2>13, <3>1, <3>8 DEF WalkRight
    <3> QED BY <2>5, <2>6, <3>1, <3>9, WalkMore
  <2> QED BY <2>15, <2>16
<1> QED BY <1>1, <1>2

-----------------------------------------------------------------------------
(* The parser thread.                                                      *)
LEMMA ParserMore ==
  ASSUME Inner, More, thread' = thread, Kept, AttrsKept, parser.op # "dispose",
         parser'.op = "format" => parser'.on \in Nodes /\ Format \notin ToSet(node[parser'.on].attrs)
  PROVE  More'
<1>1. ChildrenRight' /\ WalksRight'
  BY KeptWalks DEF More, Others
<1>2. AttrsRight'
  BY Distinct DEF More, AttrsKept, AttrsRight
<1> QED BY <1>1, <1>2 DEF More

LEMMA FieldsMade ==
  /\ \A name : NewNode(name).attrs = <<>> /\ NewNode(name).alive /\ NewNode(name).name = name
  /\ FreedNode.attrs = <<>> /\ FreedNode.alive = FALSE
  /\ <<>> \in Seq(Attrs \cup {Format}) /\ IsInjective(<<>>)
<1>1. \A name : NewNode(name).attrs = <<>>
  BY DEF NewNode
<1>2. FreedNode.attrs = <<>>
  BY DEF FreedNode, NewNode
<1>3. <<>> \in Seq(Attrs \cup {Format})
  OBVIOUS
<1> QED BY <1>1, <1>2, <1>3, NodeMade, NodeFreed, EmptyIsInjective

LEMMA CreateFileMore ==
  ASSUME Inner, More, CreateFile
  PROVE  More'
<1>1. PICK name \in Names, n \in Nodes :
        /\ ChildNamed(name) = {} /\ n \notin ToSet(children)
        /\ node' = [node EXCEPT ![n] = NewNode(name)]
        /\ children' = Append(children, n)
        /\ ParserAt(IF name = Link THEN "idle" ELSE "created", n)
  BY DEF CreateFile
<1>2. /\ thread' = thread /\ parser'.op \in {"idle", "created"} /\ Steady
      /\ \A m \in Dentries : node'[m] = IF m = n THEN NewNode(name) ELSE node[m]
  BY <1>1 DEF CreateFile, Parsing, ParserAt, Steady, Inner, Shape
<1>3. /\ children \in Seq(Nodes) /\ Len(children) \in Nat /\ DOMAIN children = 1 .. Len(children)
      /\ ToSet(children) \subseteq Nodes
  BY Sequences DEF Inner, Shape
<1>4. /\ children' \in Seq(Nodes) /\ ToSet(children') = ToSet(children) \cup {n}
      /\ IsInjective(children')
  BY <1>1, <1>3, OneAdded DEF More, ChildrenRight
<1>5. /\ DOMAIN children' = 1 .. Len(children) + 1 /\ children'[Len(children) + 1] = n
      /\ \A i \in 1 .. Len(children) : children'[i] = children[i]
  BY <1>1, <1>3
<1>6. \A m \in ToSet(children) : node[m].name # name /\ m # n
  BY <1>1 DEF ChildNamed
<1>7. \A m \in Nodes : Alive(m)' <=> Alive(m) \/ m = n
  BY <1>2, FieldsMade, Distinct DEF Alive
<1>8. node'[n].name = name /\ \A m \in Nodes \ {n} : node'[m].name = node[m].name
  BY <1>2, FieldsMade, Distinct
<1>9. ChildrenRight'
  <2>1. \A m \in Nodes : Alive(m)' <=> m \in ToSet(children')
    BY <1>4, <1>7 DEF More, ChildrenRight
  <2>2. \A m \in ToSet(children') : node'[m].name \in Names
    BY <1>3, <1>4, <1>8 DEF More, ChildrenRight
  <2>3. \A m, p \in ToSet(children') : node'[m].name = node'[p].name => m = p
    BY <1>3, <1>4, <1>6, <1>8 DEF More, ChildrenRight
  <2> QED BY <1>4, <2>1, <2>2, <2>3 DEF ChildrenRight
<1>10. \A m, p : After(m, p) => After(m, p)'
  BY <1>3, <1>5 DEF After
<1>11. \A m, p : After(m, p)' /\ m # n => After(m, p) \/ p = n
  <2> SUFFICES ASSUME NEW m, NEW p, NEW i \in DOMAIN children', NEW j \in DOMAIN children',
                      i <= j, children'[i] = m, children'[j] = p, m # n, p # n
               PROVE  After(m, p)
    BY DEF After
  <2>1. i \in DOMAIN children /\ j \in DOMAIN children
    BY <1>3, <1>5
  <2> QED BY <1>3, <1>5, <2>1 DEF After
<1>12. ASSUME NEW t \in Threads PROVE WalkRight(t)'
  <2>1. CASE thread[t].op = "readdir"
    <3>1. Walk(t) /\ Owes(t)
      BY <2>1 DEF More, WalksRight, WalkRight
    <3>0. PICK m : m = thread[t].on
      OBVIOUS
    <3>2. m \in Nodes /\ Alive(m) /\ m # n
      BY <3>0, <1>1, <1>2, <3>1, Distinct DEF Walk, Inner, NothingStale, More, ChildrenRight
    <3>3. \A p \in thread[t].owed : p \in Nodes /\ p # n
      BY <1>1, <1>2, <3>1 DEF Owes
    <3>4. \A x \in ToSet(thread[t].listed) : x # name /\ \E p \in ToSet(children) : node[p].name = x
      <4>1. \A x \in ToSet(thread[t].listed) : \E p \in ToSet(children) : node[p].name = x
        BY <1>2, <3>1 DEF Walk
      <4> QED BY <1>6, <4>1
    <3>5. \A p \in thread[t].owed : Alive(p)' => After(m, p)' \/ node'[p].name \in ToSet(thread[t].listed)
      <4>1. \A p \in thread[t].owed : Alive(p) => After(m, p) \/ node[p].name \in ToSet(thread[t].listed)
        BY <3>0, <3>1, <3>2 DEF Walk
      <4>2. \A p \in thread[t].owed : Alive(p)' => Alive(p) /\ node'[p].name = node[p].name
        BY <1>7, <1>8, <3>3
      <4> QED BY <1>10, <4>1, <4>2
    <3>6. \A p \in Nodes : After(m, p)' => node'[p].name \notin ToSet(thread[t].listed)
      <4>1. \A p \in Nodes : After(m, p) => node[p].name \notin ToSet(thread[t].listed)
        BY <3>0, <3>1, <3>2 DEF Walk
      <4>2. \A p \in Nodes \ {n} : After(m, p)' => After(m, p) /\ node'[p].name = node[p].name
        BY <1>8, <1>11, <3>2
      <4> QED BY <1>8, <3>4, <4>1, <4>2
    <3>7. \A x \in ToSet(thread[t].listed) : \E p \in ToSet(children') : node'[p].name = x
      BY <1>3, <1>4, <1>6, <1>8, <3>4
    <3>8. Walk(t)'
      BY <1>2, <3>0, <3>1, <3>2, <3>5, <3>6, <3>7 DEF Walk
    <3>9. Owes(t)'
      BY <1>2, <1>4, <3>1 DEF Owes
    <3> QED BY <1>2, <2>1, <3>8, <3>9 DEF WalkRight
  <2>2. CASE thread[t].op = "listed"
    <3>1. ListedBy(t) /\ Owes(t)
      BY <2>2 DEF More, WalksRight, WalkRight
    <3>2. \A p \in thread[t].owed : p \in Nodes /\ p # n
      BY <1>1, <1>2, <3>1 DEF Owes
    <3>3. ListedBy(t)' /\ Owes(t)'
      BY <1>2, <1>4, <1>7, <1>8, <3>1, <3>2 DEF ListedBy, Owes
    <3> QED BY <1>2, <2>2, <3>3 DEF WalkRight
  <2>3. CASE thread[t].op \notin {"readdir", "listed"}
    BY <1>2, <2>3 DEF WalkRight
  <2> QED BY <2>1, <2>2, <2>3
<1>13. AttrsRight'
  <2>1. \A m \in Nodes : node'[m].attrs \in Seq(Attrs \cup {Format}) /\ IsInjective(node'[m].attrs)
    BY <1>2, FieldsMade, Distinct, ZenonT(60) DEF More, AttrsRight
  <2> QED BY <1>2, <2>1 DEF More, AttrsRight
<1> QED BY <1>9, <1>12, <1>13 DEF More, WalksRight

LEMMA FormatFindMore ==
  ASSUME Inner, More, FormatFind
  PROVE  More'
<1>1. CASE Fails
  BY <1>1, FailsMore
<1>2. CASE ~Fails
  <2>1. PICK n \in Nodes : n = parser.on
    BY DEF FormatFind, Parsing, Inner, NothingStale
  <2>2. /\ parser.op = "created" /\ UNCHANGED <<node, children, thread>> /\ parser'.on = n
        /\ parser'.op = "format" => Format \notin ToSet(node[n].attrs)
    BY <1>2, <2>1 DEF FormatFind, Parsing, ParserAt, HasAttr
  <2>3. Kept /\ AttrsKept
    BY <2>2 DEF Kept, AttrsKept
  <2> QED BY <2>1, <2>2, <2>3, ParserMore
<1> QED BY <1>1, <1>2

LEMMA FormatAddMore ==
  ASSUME Inner, More, FormatAdd
  PROVE  More'
<1>1. PICK n \in Nodes : n = parser.on
  BY DEF FormatAdd, Parsing, Inner, NothingStale
<1> DEFINE x == Append(node[n].attrs, Format)
           r == [node[n] EXCEPT !.attrs = x]
<1>2. /\ parser.op = "format" /\ parser'.op = "idle" /\ UNCHANGED <<children, thread>>
      /\ node' = [node EXCEPT ![n] = r] /\ n \in Dentries
  BY <1>1, Distinct DEF FormatAdd, Parsing, ParserAt
<1>3. x \in Seq(Attrs \cup {Format}) /\ IsInjective(x)
  <2>1. /\ node[n].attrs \in Seq(Attrs \cup {Format}) /\ IsInjective(node[n].attrs)
        /\ Format \notin ToSet(node[n].attrs)
    BY <1>1, <1>2 DEF More, AttrsRight
  <2> QED BY <2>1, OneAdded
<1> HIDE DEF x
<1>4. r.alive = node[n].alive /\ r.name = node[n].name /\ r.attrs = x
  BY <1>2 DEF Inner, Shape, IsNode
<1> HIDE DEF r
<1>5. \A m \in Dentries : node'[m] = IF m = n THEN r ELSE node[m]
  BY <1>2 DEF Inner, Shape
<1>6. Kept
  BY <1>2, <1>4, <1>5 DEF Kept
<1>7. ChildrenRight' /\ WalksRight'
  BY <1>2, <1>6, KeptWalks DEF More, Others
<1>8. AttrsRight'
  BY <1>2, <1>3, <1>4, <1>5, Distinct DEF More, AttrsRight
<1> QED BY <1>7, <1>8 DEF More

LEMMA UpdateMore ==
  ASSUME Inner, More, UpdateContents \/ UpdateSize
  PROVE  More'
<1>1. ASSUME NEW n \in Dentries, NEW r, node' = [node EXCEPT ![n] = r],
             r.alive = node[n].alive, r.name = node[n].name, r.attrs = node[n].attrs,
             UNCHANGED <<children, thread>>, parser.op # "dispose", parser'.op # "format"
      PROVE  More'
  <2>1. Kept /\ AttrsKept
    BY <1>1 DEF Kept, AttrsKept, Inner, Shape
  <2> QED BY <1>1, <2>1, ParserMore
<1>2. CASE UpdateContents
  <2>1. PICK n \in ToSet(children) :
          /\ node' = [node EXCEPT ![n].version = node[n].version + 1, ![n].mutex = Parser]
          /\ ParserAt("update", n)
    BY <1>2 DEF UpdateContents, ChildNamed
  <2>2. n \in Dentries /\ UNCHANGED <<children, thread>> /\ parser.op = "idle" /\ parser'.op = "update"
    BY <1>2, <2>1, PathsThere, Distinct DEF UpdateContents, Parsing, ParserAt
  <2> DEFINE x == node[n].version + 1
             r == Renewed(node[n], x, Parser)
  <2> HIDE DEF x
  <2>3. node' = [node EXCEPT ![n] = r]
    BY <2>1 DEF x, Renewed, Inner, Shape
  <2>4. r.alive = node[n].alive /\ r.name = node[n].name /\ r.attrs = node[n].attrs
    BY <2>2, RenewedFields DEF Inner, Shape
  <2> HIDE DEF r
  <2> QED BY <1>1, <2>2, <2>3, <2>4
<1>3. CASE UpdateSize
  <2>1. PICK n \in Nodes : n = parser.on
    BY <1>3 DEF UpdateSize, Parsing, Inner, NothingStale
  <2> DEFINE x == IF node[n].name = Link THEN node[n].size ELSE Sizes[node[n].version]
             r == Resized(node[n], x, Null)
  <2>2. /\ node' = [node EXCEPT ![n].size = x, ![n].mutex = Null]
        /\ n \in Dentries /\ UNCHANGED <<children, thread>> /\ parser.op = "update" /\ parser'.op = "idle"
    BY <1>3, <2>1, Distinct DEF UpdateSize, Parsing, ParserAt
  <2> HIDE DEF x
  <2>3. node' = [node EXCEPT ![n] = r]
    BY <2>2 DEF Resized, Inner, Shape
  <2>4. r.alive = node[n].alive /\ r.name = node[n].name /\ r.attrs = node[n].attrs
    BY <2>2, ResizedFields DEF Inner, Shape
  <2> HIDE DEF r
  <2> QED BY <1>1, <2>2, <2>3, <2>4
<1> QED BY <1>2, <1>3

(* A dentry is freed: what comes after another in the list still does.     *)
LEMMA DisposeMore ==
  ASSUME Inner, More, NEW n \in Dentries, Dispose(n), thread' = thread,
         parser'.op \in {"idle", "dispose"}, parser'.op = "dispose" \/ n = Dir,
         children' \in Seq(Nodes), IsInjective(children'),
         n # Dir => n \in ToSet(children), ToSet(children') = ToSet(children) \ {n},
         \A a, b : a # n => (After(a, b)' <=> After(a, b))
  PROVE  More'
<1>1. \A m \in Dentries : node'[m] = IF m = n THEN FreedNode ELSE node[m]
  BY DEF Dispose, Inner, Shape
<1>2. \A m \in Dentries : Alive(m)' <=> Alive(m) /\ m # n
  BY <1>1, FieldsMade, Distinct DEF Alive
<1>3. ~Steady'
  BY <1>2, Distinct DEF Steady
<1>4. ToSet(children) \subseteq Nodes
  BY PathsThere
<1>5. ChildrenRight'
  BY <1>1, <1>2, <1>4, Distinct DEF More, ChildrenRight
<1>6. ASSUME NEW t \in Threads PROVE WalkRight(t)'
  <2>1. CASE thread[t].op = "readdir"
    <3>1. Walk(t) /\ Owes(t)
      BY <2>1 DEF More, WalksRight, WalkRight
    <3>2. Owes(t)'
      BY <1>3, <3>1 DEF Owes
    <3>3. CASE ~Alive(thread[t].on)'
      BY <1>3, <2>1, <3>1, <3>2, <3>3 DEF Walk, WalkRight
    <3>4. CASE Alive(thread[t].on)'
      <4>1. thread[t].on \in Nodes /\ thread[t].on # n /\ Alive(thread[t].on)
        BY <1>2, <3>1, <3>4, Distinct DEF Walk
      <4>2. \A m \in thread[t].owed : Alive(m)' =>
              After(thread[t].on, m)' \/ node'[m].name \in ToSet(thread[t].listed)
        BY <1>1, <1>2, <3>1, <4>1, Distinct DEF Walk, Owes
      <4>3. \A m \in Nodes : After(thread[t].on, m) => m # n
        <5> SUFFICES ASSUME After(thread[t].on, n), n \in Nodes PROVE FALSE
          OBVIOUS
        <5>1. After(thread[t].on, n)' /\ n \notin ToSet(children')
          BY <4>1
        <5> QED BY <5>1 DEF After, ToSet
      <4>4. \A m \in Nodes : After(thread[t].on, m)' => node'[m].name \notin ToSet(thread[t].listed)
        BY <1>1, <3>1, <4>1, <4>3, Distinct DEF Walk
      <4>5. Walk(t)'
        BY <1>3, <3>1, <4>1, <4>2, <4>4 DEF Walk
      <4> QED BY <2>1, <3>2, <4>5 DEF WalkRight
    <3> QED BY <3>3, <3>4
  <2>2. CASE thread[t].op = "listed"
    <3>1. ListedBy(t) /\ Owes(t)
      BY <2>2 DEF More, WalksRight, WalkRight
    <3>2. ListedBy(t)' /\ Owes(t)'
      BY <1>1, <1>2, <1>3, <3>1, Distinct DEF ListedBy, Owes
    <3> QED BY <2>2, <3>2 DEF WalkRight
  <2>3. CASE thread[t].op \notin {"readdir", "listed"}
    BY <2>3 DEF WalkRight
  <2> QED BY <2>1, <2>2, <2>3
<1>7. AttrsRight'
  <2>1. \A m \in Nodes : node'[m].attrs \in Seq(Attrs \cup {Format}) /\ IsInjective(node'[m].attrs)
    BY <1>1, FieldsMade, Distinct DEF More, AttrsRight
  <2> QED BY <2>1 DEF More, AttrsRight
<1> QED BY <1>5, <1>6, <1>7 DEF More, WalksRight

LEMMA DisposeChildMore ==
  ASSUME Inner, More, DisposeChild
  PROVE  More'
<1> DEFINE n == Head(children)
<1>1. /\ children \in Seq(Nodes) /\ children # <<>> /\ children' = Tail(children)
      /\ Len(children) \in Nat \ {0} /\ DOMAIN children = 1 .. Len(children)
      /\ \A i, j \in 1 .. Len(children) : children[i] = children[j] => i = j
  BY DEF Inner, Shape, DisposeChild, More, ChildrenRight, IsInjective
<1>2. /\ n = children[1] /\ n \in Nodes /\ children' \in Seq(Nodes)
      /\ DOMAIN children' = 1 .. Len(children) - 1
      /\ \A i \in 1 .. Len(children) - 1 : children'[i] = children[i + 1]
  BY <1>1
<1>3. Dispose(n) /\ thread' = thread /\ parser'.op = "dispose"
  BY DEF DisposeChild, ParserAt
<1> HIDE DEF n
<1>4. IsInjective(children')
  BY <1>1, <1>2 DEF IsInjective
<1>5. n \in ToSet(children) /\ ToSet(children') = ToSet(children) \ {n}
  <2>1. n \in ToSet(children) /\ n \notin ToSet(children')
    BY <1>1, <1>2 DEF ToSet
  <2>2. ToSet(children') \subseteq ToSet(children)
    <3>1. \A i \in 1 .. Len(children) - 1 : i + 1 \in DOMAIN children
      BY <1>1
    <3> QED BY <1>2, <3>1 DEF ToSet
  <2>3. ASSUME NEW i \in DOMAIN children, children[i] # n PROVE children[i] \in ToSet(children')
    <3>1. i - 1 \in DOMAIN children' /\ children'[i - 1] = children[i]
      BY <1>1, <1>2, <2>3
    <3> QED BY <3>1 DEF ToSet
  <2> QED BY <2>1, <2>2, <2>3 DEF ToSet
<1>6. ASSUME NEW a, NEW b, a # n PROVE After(a, b)' <=> After(a, b)
  <2>1. ASSUME NEW i \in DOMAIN children', NEW j \in DOMAIN children', i <= j,
               children'[i] = a, children'[j] = b
        PROVE  After(a, b)
    <3>1. i + 1 \in DOMAIN children /\ j + 1 \in DOMAIN children /\ i + 1 <= j + 1
          /\ children[i + 1] = a /\ children[j + 1] = b
      BY <1>1, <1>2, <2>1
    <3> QED BY <3>1 DEF After
  <2>2. ASSUME NEW i \in DOMAIN children, NEW j \in DOMAIN children, i <= j,
               children[i] = a, children[j] = b
        PROVE  After(a, b)'
    <3>1. i # 1
      BY <1>2, <1>6, <2>2
    <3>2. i - 1 \in DOMAIN children' /\ j - 1 \in DOMAIN children' /\ i - 1 <= j - 1
          /\ children'[i - 1] = a /\ children'[j - 1] = b
      BY <1>1, <1>2, <2>2, <3>1
    <3> QED BY <3>2 DEF After
  <2> QED BY <2>1, <2>2 DEF After
<1> QED BY <1>2, <1>3, <1>4, <1>5, <1>6, DisposeMore, Distinct

LEMMA DisposeDirMore ==
  ASSUME Inner, More, DisposeDir
  PROVE  More'
<1>1. /\ children \in Seq(Nodes) /\ children' = children /\ IsInjective(children)
      /\ Dispose(Dir) /\ thread' = thread /\ parser'.op = "idle"
  BY DEF Inner, Shape, DisposeDir, ParserAt, More, ChildrenRight
<1>2. Dir \notin ToSet(children) /\ Dir \in Dentries
  BY PathsThere, Distinct
<1>3. \A a, b : After(a, b)' <=> After(a, b)
  BY <1>1 DEF After
<1> QED BY <1>1, <1>2, <1>3, DisposeMore

-----------------------------------------------------------------------------
LEMMA InitMore == Init => More
<1> SUFFICES ASSUME Init PROVE More
  OBVIOUS
<1>1. /\ children = <<>> /\ parser.op = "idle" /\ \A t \in Threads : thread[t].op = "idle"
      /\ \A n \in Nodes : node[n] = FreedNode
  BY ThreadIdle, Distinct DEF Init
<1>2. ToSet(children) = {} /\ children \in Seq(Nodes) /\ IsInjective(children)
  BY <1>1, EmptyIsInjective
<1>3. ChildrenRight
  BY <1>1, <1>2, FieldsMade, Distinct DEF ChildrenRight, Alive
<1>4. WalksRight
  BY <1>1 DEF WalksRight, WalkRight
<1>5. AttrsRight
  BY <1>1, FieldsMade DEF AttrsRight
<1> QED BY <1>3, <1>4, <1>5 DEF More

LEMMA NextMore == IInv /\ More /\ [Next]_vars => More'
<1> SUFFICES ASSUME IInv, More, [Next]_vars PROVE More'
  OBVIOUS
<1>1. CASE Next
  <2>1. Inner
    BY <1>1, StepsWithoutFault DEF IInv
  <2>2. ASSUME NEW t \in Threads, FuseStep(t) PROVE More'
    BY <2>1, <2>2, OpenMore, ReleaseMore, ReadMore, ListMore, FindMore, SetLockMore, SetStoreMore,
       RemoveFreeMore, ReaddirStartMore, ReaddirStepMore DEF FuseStep
  <2>3. CASE ParserStep
    BY <2>1, <2>3, CreateFileMore, FormatFindMore, FormatAddMore, UpdateMore, DisposeChildMore,
       DisposeDirMore DEF ParserStep
  <2> QED BY <1>1, <2>2, <2>3 DEF Next
<1>2. CASE UNCHANGED vars
  BY <1>2, StillMore DEF vars
<1> QED BY <1>1, <1>2

LEMMA AlwaysMore == Spec => []More
<1> QED BY AlwaysIInv, InitMore, NextMore, PTL DEF Spec

-----------------------------------------------------------------------------
(* demuxfs_open(), demuxfs_release(): for any number of threads, and until *)
(* a freed dentry is used, refcount is the number of open handles.         *)
THEOREM HandlesCounted == Spec => []RefcountRight
<1>1. IInv => RefcountRight
  <2> SUFFICES ASSUME Inner, NEW n \in Dentries, node[n].alive
               PROVE  node[n].refcount = Cardinality({t \in Threads : handle[t] = n})
    BY DEF IInv, RefcountRight
  <2>1. Alive(n)
    BY Distinct DEF Alive
  <2> QED BY <2>1 DEF Inner, CountRight, Users
<1> QED BY <1>1, AlwaysIInv, PTL

(* demuxfs_read(), CREATE_FILE_BIN(): for any number of threads, files and *)
(* versions, a read copies as many bytes as the contents it copies has.    *)
THEOREM ReadsWhole == Spec => []NotTorn
<1>1. IInv => NotTorn
  BY DEF IInv
<1> QED BY <1>1, AlwaysIInv, PTL

(* demuxfs_readdir(), CREATE_COMMON, fsutils_dispose_tree(): however many  *)
(* threads list the directory while the parser adds to it and frees it, a  *)
(* listing has no name twice and every file that was there all along.      *)
THEOREM ListsAreRight == Spec => []Listed
<1>1. More => Listed
  BY DEF More, WalksRight, WalkRight, ListedBy, Listed
<1> QED BY <1>1, AlwaysMore, PTL

(* demuxfs_setxattr(), demuxfs_removexattr(), xattr.c: for any number of   *)
(* threads and attributes, no attribute is on a file twice.                *)
THEOREM AttributesOnce == Spec => []AttrsUnique
<1>1. More => AttrsUnique
  BY DEF More, AttrsRight, AttrsUnique
<1> QED BY <1>1, AlwaysMore, PTL
=============================================================================
