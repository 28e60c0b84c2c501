---------------------------- MODULE BiopMessages ----------------------------
(***************************************************************************)
(* The structures of an object carousel on the wire: the IOR of a DSI, the *)
(* module info of a DII, and the BIOP messages of a module                 *)
(* (dsm-cc/iop.c, dsm-cc/biop.c). What the messages do to the tree of      *)
(* objects is ObjectTree; here they are only taken out of the module.      *)
(*                                                                         *)
(* Each parser is given the buffer and an offset, and tells what it read   *)
(* and the offset behind it. A key, and the inode made of it, is a 32-bit  *)
(* number in halves.                                                       *)
(***************************************************************************)
EXTENDS WireFormat

Fil == <<102, 105, 108>>
Dirc == <<100, 105, 114>>
Srg == <<115, 114, 103>>

(* A number that is a length or a count, and one that must be compared.    *)
N32(b, i) == U32(b, i)[1] * 2^16 + U32(b, i)[2]
BiopProfile == <<18771, 20230>>       \* 0x49534f06
DeliveryParaUse == 22                 \* BIOP_DELIVERY_PARA_USE
ObjectUse == 23                       \* BIOP_OBJECT_USE

(* Where n skips get one to.                                               *)
After(i, n, Skip(_)) ==
  LET At[k \in Nat] == IF k = 0 THEN i ELSE Skip(At[k-1])
  IN At[IF n < 0 THEN 0 ELSE n]
-----------------------------------------------------------------------------
(* A key of one to four bytes; a longer one is not read, and takes four.   *)
biop_parse_object_location(b, i) ==
  LET length == U8(b, i + 13)
      k == i + 14
  IN [key |-> CASE length = 1 -> <<0, U8(b, k)>>
                [] length = 2 -> <<0, U16(b, k)>>
                [] length = 3 -> <<U8(b, k), U16(b, k + 1)>>
                [] length = 4 -> U32(b, k)
                [] OTHER -> <<0, 0>>,
      next |-> k + (IF length \in 1..4 THEN length ELSE 4),
      files |-> <<Bin("object_location_tag", U32(b, i)), File("object_location_length", U8(b, i + 4)),
                  Bin("carousel_id", U32(b, i + 5)), File("module_id", U16(b, i + 9)),
                  File("version_major", U8(b, i + 11)), File("version_minor", U8(b, i + 12)),
                  File("object_key_length", IF length \in 1..4 THEN length ELSE 4)>>]

biop_parse_connbinder(b, i) ==
  LET At[k \in Nat] ==
        IF k = 0 THEN i + 6
        ELSE At[k-1] + 6 + (CASE U16(b, At[k-1] + 2) = DeliveryParaUse -> 11
                              [] U16(b, At[k-1] + 2) = ObjectUse -> 1
                              [] OTHER -> 0)
      TapAt(t) == Files(<<
        File("tap_id", U16(b, t)), File("tap_use", U16(b, t + 2)), File("association_tag", U16(b, t + 4)),
        IF U16(b, t + 2) # DeliveryParaUse THEN NoFiles
        ELSE Files(<<File("selector_length", U8(b, t + 6)), File("selector_type", U16(b, t + 7)),
                     Bin("transaction_id", U32(b, t + 9)), Bin("timeout", U32(b, t + 13))>>)>>)
      Tap(k) == TapAt(At[k])
  IN <<Bin("connbinder_tag", U32(b, i)), File("connbinder_length", U8(b, i + 4)),
       File("tap_count", U8(b, i + 5)), Dirs(1, U8(b, i + 5), Tap)>>

biop_parse_profile_body(b, i) ==
  LET Located(location) ==
     [key |-> location.key,
      files |-> <<Bin("profile_id_tag", U32(b, i)), Bin("profile_data_length", U32(b, i + 4)),
                  File("profile_data_byte_order", U8(b, i + 8)), File("component_count", U8(b, i + 9)),
                  Bin("object_key", location.key)>>
                \o location.files \o biop_parse_connbinder(b, location.next)]
  IN Located(biop_parse_object_location(b, i + 10))

(* The files of the profiles are those of the first.                       *)
iop_create_tagged_profiles_dentries(b, i) ==
  IF U32(b, i) = BiopProfile THEN biop_parse_profile_body(b, i).files ELSE <<>>

(* Profiles one behind the other by the lengths they state; the key is     *)
(* that of the first BIOP profile.                                         *)
iop_parse_tagged_profiles(b, i, count) ==
  LET Next(at) == at + 8 + N32(b, at + 4)
      bodies == {k \in 0..(count - 1) : U32(b, After(i, k, Next)) = BiopProfile}
      FirstOf(found) == CHOOSE k \in found : \A m \in found : k <= m
  IN [key |-> IF bodies = {} THEN <<0, 0>>
              ELSE biop_parse_profile_body(b, After(i, FirstOf(bodies), Next)).key,
      next |-> After(i, count, Next)]

(* The type is followed by a gap up to a multiple of four, of which as many*)
(* bytes are shown as the type is beyond one.                              *)
GapBytes(length) == IF length % 4 = 0 THEN 0 ELSE 4 - (length % 4)
iop_create_ior_dentries(b, i) ==
  LET length == N32(b, i)
      at == i + 4 + length + GapBytes(length)
      gap == [k \in 1..(length % 4) |-> IF k <= GapBytes(length) THEN U8(b, i + 3 + length + k) ELSE 0]
  IN Files(<<Bin("type_id_length", U32(b, i)), Str("type_id", Copy(b, i + 4, length)),
             Bin("alignment_gap", gap), Bin("tagged_profiles_count", U32(b, at))>>
           \o (IF N32(b, at) = 0 THEN <<>> ELSE iop_create_tagged_profiles_dentries(b, at + 4)))

iop_parse_ior(b, i) ==
  LET at == i + 4 + N32(b, i) + GapBytes(N32(b, i))
  IN iop_parse_tagged_profiles(b, at + 4, N32(b, at))

(* The selector of a tap is not skipped.                                   *)
biop_parse_module_info(b, i) ==
  LET taps == U8(b, i + 12)
      Tap(k) == LET t == i + 13 + 7 * k IN Files(<<
        File("tap_id", U16(b, t)), File("tap_use", U16(b, t + 2)),
        File("association_tag", U16(b, t + 4)), File("selector_length", U8(b, t + 6))>>)
      at == i + 13 + 7 * taps
  IN Files(<<Bin("module_timeout", U32(b, i)), Bin("block_timeout", U32(b, i + 4)),
             Bin("min_block_time", U32(b, i + 8)), File("taps_count", taps), Dirs(1, taps, Tap),
             File("user_info_length", U8(b, at)), Bin("user_info", Copy(b, at + 1, U8(b, at)))>>)
-----------------------------------------------------------------------------
biop_parse_message_header(b, i) == i + 12

biop_get_sub_header_inode(key) == U32(key, 0)

(* Descriptors are skipped as many times as they have bytes, by their      *)
(* lengths alone: right only where there are none.                         *)
biop_parse_message_sub_header(b, i) ==
  LET key == Copy(b, i + 1, U8(b, i))
      k == i + 1 + U8(b, i)
      fixed == IF Copy(b, k + 4, 3) = Fil THEN 8 ELSE 0
      Skip(at) == at + U8(b, at + 1)
      services == After(k + 10 + fixed, U16(b, k + 8) - fixed, Skip)
      SkipContext(at) == at + 6 + U16(b, at + 4)
  IN [key |-> biop_get_sub_header_inode(key),
      next |-> After(services + 1, U8(b, services), SkipContext)]

biop_parse_name(b, i) ==
  LET k == i + 2 + U8(b, i + 1)
  IN [name |-> Copy(b, i + 2, U8(b, i + 1)), kind |-> Copy(b, k + 1, 3), next |-> k + 1 + U8(b, k)]

biop_parse_descriptor(b, i) == i + 2 + U8(b, i + 1)

(* One binding; its descriptors, too, are parsed as many times as they     *)
(* have bytes.                                                             *)
Binding(b, i) ==
  LET Skip(at) == biop_parse_descriptor(b, at)
      Informed(name, key, at, length, fixed) ==
        [said |-> [name |-> name.name, kind |-> name.kind, key |-> key,
                   size |-> IF fixed = 8 THEN N32(b, at + 6) ELSE 0],
         next |-> After(at + 2 + fixed, length - fixed, Skip)]
      Referred(name, ior) ==
        Informed(name, ior.key, ior.next, U16(b, ior.next),
                 IF U16(b, ior.next) > 0 /\ name.kind = Fil THEN 8 ELSE 0)
      Named(name) == Referred(name, iop_parse_ior(b, name.next + 1))
  IN Named(biop_parse_name(b, i))

biop_parse_directory_message(b, i, kind) ==
  LET Bindings(at, count) ==
        LET Read[k \in Nat] == Binding(b, IF k = 1 THEN at ELSE Read[k-1].next)
        IN [k \in 1..count |-> Read[k].said]
      Said(sub) ==
        [said |-> [kind |-> kind, key |-> sub.key, contents |-> <<>>,
                   bindings |-> Bindings(sub.next + 6, U16(b, sub.next + 4))],
         next |-> sub.next + 4 + N32(b, sub.next)]
  IN Said(biop_parse_message_sub_header(b, i))

(* Mutant of biop_parse_file_message: the four bytes of the body's length  *)
(* are taken for a part of the body.                                       *)
biop_parse_file_message_LengthInBody(b, i) ==
  LET Said(sub) ==
        [said |-> [kind |-> Fil, key |-> sub.key, bindings |-> <<>>,
                   contents |-> Copy(b, sub.next + 8, N32(b, sub.next + 4))],
         next |-> sub.next + N32(b, sub.next)]
  IN Said(biop_parse_message_sub_header(b, i))

biop_parse_file_message(b, i) ==
  LET Said(sub) ==
        [said |-> [kind |-> Fil, key |-> sub.key, bindings |-> <<>>,
                   contents |-> Copy(b, sub.next + 8, N32(b, sub.next + 4))],
         next |-> sub.next + 4 + N32(b, sub.next)]
  IN Said(biop_parse_message_sub_header(b, i))

(* The kind of the object, looked for behind a key whose length is taken   *)
(* for that of its first byte (biop.c:750).                                *)
Lookahead(b, i) == Copy(b, i + 1 + U8(b, i + 1) + 4 + 4, 3)
=============================================================================
