----------------------------- MODULE WireFormat -----------------------------
(***************************************************************************)
(* Bytes as the parsers of demuxfs read them, the layouts in which a       *)
(* multiplexer writes them, and the files a parser makes of them.          *)
(*                                                                         *)
(* A layout is a sequence of fields, each with the numbers of the          *)
(* directories it belongs in, a width in bits and its units of that width. *)
(* Bytes() writes a layout as the standards do, most significant bit       *)
(* first; the parsers never see the layout. Files are a function from      *)
(* names (with the numbers of their directories) to contents: one number,  *)
(* or the bytes of a text. 32-bit numbers are kept as their two halves.    *)
(***************************************************************************)
EXTENDS Integers, SequencesExt

Byte == 0 .. 255

Field(name, width, value) ==
  <<[name |-> name, nrs |-> <<>>, width |-> width, value |-> value]>>
Num(name, width, v) == Field(name, width, <<v>>)
Long(name, hi, lo) == Field(name, 16, <<hi, lo>>)
Text(name, bytes) == Field(name, 8, bytes)
Reserved(width) == Num("reserved", width, 2^width - 1)
In(nr, layout) == [k \in DOMAIN layout |-> [layout[k] EXCEPT !.nrs = <<nr>> \o @]]

(* The powers of two, as far as fields are wide. The numbers of a field    *)
(* are below that of its width.                                            *)
Powers == <<1, 2, 4, 8, 16, 32, 64, 128, 256, 512, 1024, 2048, 4096, 8192, 16384, 32768, 65536,
            131072, 262144, 524288, 1048576, 2097152, 4194304, 8388608, 16777216>>
Widths == 1..(Len(Powers) - 1)
Limit(width) == Powers[width + 1]
Bits(width, v) == [b \in 1..width |-> (v \div Limit(width - b)) % 2]
(* FlattenSeq() of the parts, by halves: as deep as the logarithm of their *)
(* number, where there may be hundreds.                                    *)
Concat(parts) ==
  LET Span[r \in (DOMAIN parts) \X (DOMAIN parts)] ==
        LET m == (r[1] + r[2]) \div 2
        IN IF r[2] <= r[1] THEN parts[r[1]] ELSE Span[<<r[1], m>>] \o Span[<<m + 1, r[2]>>]
  IN IF parts = <<>> THEN <<>> ELSE Span[<<1, Len(parts)>>]
BitsOf(layout) ==
  Concat([k \in DOMAIN layout |->
    Concat([u \in DOMAIN layout[k].value |-> Bits(layout[k].width, layout[k].value[u])])])
Octets(bits) ==
  LET At(k) == 8 * k - 8
  IN [k \in 1..(Len(bits) \div 8) |->
        128 * bits[At(k) + 1] + 64 * bits[At(k) + 2] + 32 * bits[At(k) + 3] + 16 * bits[At(k) + 4]
        + 8 * bits[At(k) + 5] + 4 * bits[At(k) + 6] + 2 * bits[At(k) + 7] + bits[At(k) + 8]]
Bytes(layout) == Octets(BitsOf(layout))
(* A layout as layouts are: of fields no wider than these.                 *)
IsLayout(layout) ==
  /\ Len(layout) \in Nat /\ DOMAIN layout = 1..Len(layout)
  /\ \A k \in DOMAIN layout :
       layout[k].width \in Widths /\ layout[k].value \in Seq(Nat)

(* What a layout tells: empty texts and reserved bits tell nothing.        *)
Told(layout) ==
  LET told == {k \in DOMAIN layout : layout[k].name # "reserved" /\ layout[k].value # <<>>}
      Key(k) == <<layout[k].name, layout[k].nrs>>
  IN [key \in {Key(k) : k \in told} |->
        layout[CHOOSE k \in told : Key(k) = key].value]

(* Offsets count from 0, as in C. The reader of a signed char, of byteops.h*)
(* (which make every byte unsigned), and of memcpy().                      *)
U8(p, i) == p[i + 1]
S8(p, i) == IF U8(p, i) < 128 THEN U8(p, i) ELSE U8(p, i) - 256
U16(p, i) == U8(p, i) * 256 + U8(p, i + 1)
U24(p, i) == U8(p, i) * 256 * 256 + U16(p, i + 1)
U32(p, i) == <<U16(p, i), U16(p, i + 2)>>
Copy(p, i, n) == SubSeq(p, i + 1, i + n)
(* width bits of a byte, of which shift bits are to the right.             *)
Part(p, i, shift, width) == (U8(p, i) \div 2^shift) % 2^width

NoFiles == [key \in {} |-> <<>>]
Bin(name, bytes) == [key \in {<<name, <<>>>>} |-> bytes]
File(name, v) == Bin(name, <<v>>)
(* A text ends at its first NUL.                                           *)
Str(name, bytes) ==
  LET nuls == {k \in DOMAIN bytes : bytes[k] = 0}
  IN Bin(name, IF nuls = {} THEN bytes ELSE SubSeq(bytes, 1, (CHOOSE k \in nuls : \A m \in nuls : k <= m) - 1))

(* What is created later updates what has that name.                       *)
Files(parts) ==
  [key \in UNION {DOMAIN parts[k] : k \in DOMAIN parts} |->
     LET last == CHOOSE k \in DOMAIN parts :
                   key \in DOMAIN parts[k] /\ \A m \in DOMAIN parts : m > k => key \notin DOMAIN parts[m]
     IN parts[last][key]]
Dir(nr, files) ==
  [key \in {<<key[1], <<nr>> \o key[2]>> : key \in DOMAIN files} |->
     files[<<key[1], Tail(key[2])>>]]
(* The directories first .. first + n - 1 of a loop.                       *)
Dirs(first, n, FilesOf(_)) ==
  Files([k \in 1..(IF n < 0 THEN 0 ELSE n) |-> Dir(first + k - 1, FilesOf(k - 1))])
Filled(files) == [key \in {k \in DOMAIN files : files[k] # <<>>} |-> files[key]]
=============================================================================
