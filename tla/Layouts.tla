------------------------------ MODULE Layouts ------------------------------
(***************************************************************************)
(* The words in which TableProofs speaks of layouts, of the bytes they     *)
(* come to and of the files made of them: where a field stands, what is    *)
(* read of it there, and what of the layout a part of the files tells.     *)
(***************************************************************************)
EXTENDS Descriptors

(* y stands in z, n elements from its beginning.                           *)
Stands(n, y, z) == \A u \in 1 .. Len(y) : z[n + u] = y[u]

(* What a field of whole bytes comes to.                                   *)
Pair(v) == <<v \div 256, v % 256>>
Triple(v) == <<v \div (256 * 256)>> \o Pair(v % (256 * 256))
FieldBytes(width, value) ==
  IF width = 8 THEN value
  ELSE IF width = 16 THEN FlattenSeq([u \in DOMAIN value |-> Pair(value[u])])
  ELSE FlattenSeq([u \in DOMAIN value |-> Triple(value[u])])

(* Layouts whose fields are of whole bytes.                                *)
Small(value, limit) == \A u \in DOMAIN value : value[u] < limit
FieldOf(layout, k) == FieldBytes(layout[k].width, layout[k].value)
Fields(layout) == [k \in DOMAIN layout |-> FieldOf(layout, k)]
WholeBytes(layout) ==
  /\ IsLayout(layout)
  /\ \A k \in DOMAIN layout :
       /\ layout[k].width \in {8, 16, 24}
       /\ Small(layout[k].value, Limit(layout[k].width))

-----------------------------------------------------------------------------
(* The fields of a layout have names of their own, and no directories.     *)
Named(layout) ==
  /\ Len(layout) \in Nat /\ DOMAIN layout = 1 .. Len(layout)
  /\ \A k \in DOMAIN layout : layout[k].nrs = <<>> /\ layout[k].name # "reserved"
  /\ \A j, k \in DOMAIN layout : layout[j].name = layout[k].name => j = k
(* A file for each field, except perhaps for an empty text.                *)
Made(parts, layout) ==
  /\ DOMAIN parts = DOMAIN layout
  /\ \A k \in DOMAIN layout :
       \/ parts[k] = Bin(layout[k].name, layout[k].value)
       \/ layout[k].value = <<>> /\ parts[k] = NoFiles

(* Where the fields of a layout begin, if its bytes begin at base.         *)
FieldsAt(off, layout, base, p) ==
  /\ off[0] = base /\ off[Len(layout)] = base + Len(Bytes(layout))
  /\ \A k \in 1 .. Len(layout) :
       /\ off[k - 1] \in Nat /\ off[k] = off[k - 1] + Len(FieldOf(layout, k))
       /\ Stands(off[k - 1], FieldOf(layout, k), p)

(* The number x is the byte read at i.                                   *)
ByteAt(p, i, x) ==
  x = <<U8(p, i)>> /\ \A name : File(name, U8(p, i)) = Bin(name, x)

(* The text x is what is copied from i on, as far as it goes.              *)
CopiedFrom(p, i, x) ==
  /\ Len(x) \in Nat /\ (Len(x) = 0 => x = <<>>)
  /\ \A name : Str(name, Copy(p, i, Len(x))) = Bin(name, x)

IsShape(shape) ==
  /\ Len(shape) \in Nat /\ DOMAIN shape = 1 .. Len(shape)
  /\ \A k \in DOMAIN shape : shape[k][2] \in {8, 16, 24} /\ shape[k][1] # "reserved"
  /\ \A j, k \in DOMAIN shape : shape[j][1] = shape[k][1] => j = k

(* Of several fields: their first bytes, one after the other.              *)
FieldStarts(off, d, n, base, p) ==
  /\ off[0] = base /\ off[n] = base + BodyLength(d) /\ BodyLength(d) \in Nat
  /\ \A k \in 1 .. n :
       /\ k \in 1 .. Len(d.layout) /\ off[k - 1] \in Nat
       /\ off[k] = off[k - 1] + Len(FieldOf(d.layout, k))
       /\ Stands(off[k - 1], FieldOf(d.layout, k), p)

(* A length at i and its text, and a second length and its text.           *)
TwoTextsAt(p, i, layout, end) ==
  LET a == Len(layout[3].value)
      b == Len(layout[5].value)
  IN /\ a \in Nat /\ b \in Nat /\ end = i + 1 + a + 1 + b
     /\ U8(p, i) = a /\ (\A name : File(name, U8(p, i)) = Bin(name, layout[2].value))
     /\ CopiedFrom(p, i + 1, layout[3].value)
     /\ U8(p, i + 1 + a) = b
     /\ (\A name : File(name, U8(p, i + 1 + a)) = Bin(name, layout[4].value))
     /\ CopiedFrom(p, i + 1 + a + 1, layout[5].value)

(* Five fields, the first and the last but one of one byte.                *)
Fives(shape) ==
  /\ Len(shape) = 5 /\ IsShape(shape)
  /\ shape[1][2] = 8
  /\ shape[2][2] = 8 /\ shape[2][3] = "length" /\ shape[3][2] = 8 /\ shape[3][3] = "text"
  /\ shape[4][2] = 8 /\ shape[4][3] = "length" /\ shape[5][2] = 8 /\ shape[5][3] = "text"

-----------------------------------------------------------------------------
(* The kth field of a layout has this width and this value.                *)
FieldAt(layout, k, width, value) ==
  /\ k \in 1 .. Len(layout) /\ layout[k].width = width /\ layout[k].value = value
  /\ value \in Seq(Nat) /\ Small(value, Limit(width))
NumberAt(layout, k, width, v) == v \in Nat /\ v < Limit(width) /\ FieldAt(layout, k, width, <<v>>)

(* Two numbers of a layout taken as one leave its bytes as they are.       *)
Joined(M, layout, k, w, v) ==
  /\ IsLayout(M) /\ Bytes(M) = Bytes(layout) /\ Len(M) + 1 = Len(layout)
  /\ NumberAt(M, k, w, v)
  /\ \A i \in 1 .. Len(M) : /\ i < k => M[i] = layout[i]
                            /\ i > k => M[i] = layout[i + 1]

(* A layout all of whose fields are of whole bytes.                        *)
AllWhole(layout, n) ==
  Len(layout) = n /\ \A k \in 1 .. n : \E w \in {8, 16, 24} : \E x : FieldAt(layout, k, w, x)
ReadsByte(layout, k, p, i, v) == Len(FieldOf(layout, k)) = 1 /\ U8(p, i) = v
ReadsWord(layout, k, p, i, v) == Len(FieldOf(layout, k)) = 2 /\ U16(p, i) = v
ReadsTriple(layout, k, p, i, v) == Len(FieldOf(layout, k)) = 3 /\ U24(p, i) = v
ReadsHalves(layout, k, p, i, x) == Len(FieldOf(layout, k)) = 4 /\ U32(p, i) = x
ReadsBytes(layout, k, p, i, x) ==
  /\ Len(x) \in Nat /\ (Len(x) = 0 => x = <<>>)
  /\ Len(FieldOf(layout, k)) = Len(x) /\ Copy(p, i, Len(x)) = x

-----------------------------------------------------------------------------
(* What a layout tells under a key, and files that show nothing else.      *)
KeyOf(name) == <<name, <<>>>>
Tells(told, key) == IF key \in DOMAIN told THEN told[key] ELSE <<>>
Agrees(made, told) == \A key \in DOMAIN made : made[key] = Tells(told, key)

(* Fields without directories whose names, but for reserved ones, are      *)
(* their own.                                                              *)
Flat(layout) ==
  /\ Len(layout) \in Nat /\ DOMAIN layout = 1 .. Len(layout)
  /\ \A k \in DOMAIN layout : layout[k].nrs = <<>>
  /\ \A j, k \in DOMAIN layout : layout[j].name = layout[k].name => j = k \/ layout[k].name = "reserved"

(* Two numbers of a layout taken as one, and its other fields.             *)
Merged(M, layout, k, w, v) ==
  /\ IsLayout(M) /\ Bytes(M) = Bytes(layout) /\ Len(M) + 1 = Len(layout)
  /\ NumberAt(M, k, w, v)
  /\ \A j, u, x : FieldAt(layout, j, u, x) /\ j < k => FieldAt(M, j, u, x)
  /\ \A i, j, u, x : FieldAt(layout, i, u, x) /\ j \in Nat /\ j > k /\ i = j + 1 => FieldAt(M, j, u, x)
  /\ \A j, u, n : NumberAt(layout, j, u, n) /\ j < k => NumberAt(M, j, u, n)
  /\ \A i, j, u, n : NumberAt(layout, i, u, n) /\ j \in Nat /\ j > k /\ i = j + 1 => NumberAt(M, j, u, n)

Follows(j, k) == k \in Nat /\ j = k + 1
Fits(a, b, w, k, i, m) ==
  a \in 1 .. 24 /\ b \in 1 .. 24 /\ a + b <= 24 /\ w = a + b /\ i = k + 1 /\ m = Limit(b)
Puts(v, h, m, l) == v = h * m + l

(* A layout of n fields and these bytes.                                   *)
LaidOut(layout, n, bytes) == IsLayout(layout) /\ Len(layout) = n /\ Bytes(layout) = bytes

(* The jth field of the one is the ith of the other.                       *)
Moves(i, j, k) == j \in Nat /\ k \in Nat /\ (IF j < k THEN i = j ELSE j > k /\ i = j + 1)

-----------------------------------------------------------------------------
(* The fields of a layout from the kth on stand at i, and end there.       *)
StandFrom(layout, k, i, p, end) ==
  \E off : /\ off[k - 1] = i /\ off[Len(layout)] = end
           /\ \A j \in 1 .. Len(layout) :
                /\ off[j - 1] \in Nat /\ off[j] = off[j - 1] + Len(FieldOf(layout, j))
                /\ Stands(off[j - 1], FieldOf(layout, j), p)

(* Field by field, what is read of it and where the next one stands.       *)
Onward(m, k, j, i, n) == m = k + 1 /\ j = i + n

(* What a descriptor of a shape has.                                       *)
Shapely(shape, n) ==
  /\ n \in Nat /\ Len(shape) = n /\ DOMAIN shape = 1 .. n
  /\ \A j, k \in 1 .. n : shape[j][1] = shape[k][1] => j = k \/ shape[k][1] = "reserved"
HeldAt(layout, k, w, what) ==
  /\ FieldAt(layout, k, w, layout[k].value)
  /\ what \in {"number", "length"} =>
       NumberAt(layout, k, w, layout[k].value[1]) /\ layout[k].value = <<layout[k].value[1]>>
  /\ what = "length" => layout[k].value[1] = Len(layout[k + 1].value)
  /\ what = "halves" => Len(layout[k].value) = 2
  /\ what = "code" => Len(layout[k].value) = 3
  /\ what \in {"text", "code"} => \A u \in DOMAIN layout[k].value : layout[k].value[u] > 0

-----------------------------------------------------------------------------
(* A part of the files that agrees with the layout and has these names.    *)
Covers(part, layout, names) ==
  Agrees(part, Told(layout)) /\ \A name \in names : KeyOf(name) \in DOMAIN part

Together(parts, layout, named, n, all) ==
  /\ n \in Nat /\ DOMAIN parts = 1 .. n /\ \A k \in 1 .. n : Covers(parts[k], layout, named[k])
  /\ \A name \in all : \E k \in 1 .. n : name \in named[k]
(* Where the last field ends, the layout does.                             *)
Ends(k, n, i, base, l) == n \in Nat /\ k = n + 1 /\ base \in Nat /\ l \in Int /\ i = base + l
EndsAt(end, base, bytes) == end = base + Len(bytes)
OfLength(bytes, l) == Len(bytes) = l
(* The names are all that a layout tells.                                  *)
AllNamed(layout, names) ==
  \A k \in DOMAIN layout : layout[k].name = "reserved" \/ layout[k].value = <<>> \/ layout[k].name \in names

(* What a parser makes of a number, of bytes and of a text.                *)
HasNumber(layout, k, name, v) ==
  /\ k \in DOMAIN layout /\ layout[k].name = name /\ name # "reserved"
  /\ v \in Nat /\ layout[k].value = <<v>>
HasBytes(layout, k, name, x) ==
  k \in DOMAIN layout /\ layout[k].name = name /\ name # "reserved" /\ layout[k].value = x
HasText(layout, k, name, x) ==
  HasBytes(layout, k, name, x) /\ x \in Seq(Nat) /\ \A u \in DOMAIN x : x[u] > 0
HasNone(layout, name) == \A k \in DOMAIN layout : layout[k].name # name

(* A field of a shape by its value.                                        *)
NumberIs(layout, k, w, v) ==
  NumberAt(layout, k, w, v) /\ layout[k].value = <<v>> /\ v \in Nat /\ v < Limit(w)
BytesIs(layout, k, w, x) ==
  FieldAt(layout, k, w, x) /\ layout[k].value = x /\ x \in Seq(Nat)
=============================================================================
