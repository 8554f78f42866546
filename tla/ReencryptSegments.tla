------------------------- MODULE ReencryptSegments -------------------------
(***************************************************************************)
(* The arithmetic of LUKS2 reencryption (lib/luks2/luks2_reencrypt.c): the *)
(* segments a hotzone is described with before and after it is converted,  *)
(* and where an interrupted reencryption goes on.                          *)
(*                                                                         *)
(* All sizes are in blocks, the unit that is written atomically and that   *)
(* has one checksum.  An IV is the number of the block counted from the    *)
(* start of the data.  A configuration c is a record:                      *)
(*   mode   "reencrypt", "encrypt" or "decrypt"                            *)
(*   dir    "forward" or "backward"                                        *)
(*   res    rh->rp: "checksum", "journal", "datashift" or "none"           *)
(*   mres   rh->rp_moved_segment: "checksum", "journal" or "unset"         *)
(*   size   blocks of user data                                            *)
(*   hot    blocks that fit in the hotzone (without data shift)            *)
(*   shift  data shift, 0 unless res = "datashift"                         *)
(*   moved  size of the moved first segment, 0 without one                 *)
(*   head   data offset where data stay in place                           *)
(*   attached  the header is on the data device                            *)
(***************************************************************************)
EXTENDS Integers, Sequences

Dynamic == -1

(* Offsets of the data before and after, and of the moved segment, on the  *)
(* data device, and the blocks of that device.  Encryption with data shift *)
(* puts the moved segment behind a gap at the end, decryption with data    *)
(* shift puts it where the header was.                                     *)
OldOffset(c) == IF c.mode = "encrypt" /\ c.moved > 0 THEN 0 ELSE c.head
NewOffset(c) ==
  CASE c.dir = "forward"                          -> c.head - c.shift
    [] c.mode = "encrypt"                         -> c.head
    [] OTHER                                      -> c.head + c.shift
MovedOffset(c) == IF c.mode = "encrypt" THEN c.size + c.shift ELSE 0
DeviceBlocks(c) ==
  IF c.mode = "encrypt" /\ c.moved > 0 THEN c.size + 2 * c.shift
  ELSE IF c.dir = "backward" THEN c.head + c.size + c.shift ELSE c.head + c.size

OldKey(c) == IF c.mode = "encrypt" THEN "plain" ELSE "old"
NewKey(c) == IF c.mode = "decrypt" THEN "plain" ELSE "new"

EncryptShift(c) ==
  c.mode = "encrypt" /\ c.dir = "backward" /\ c.res = "datashift" /\ c.moved > 0
DecryptShift(c) ==
  c.mode = "decrypt" /\ c.dir = "forward" /\ c.res = "datashift" /\ c.moved > 0

(* No moved segment: the segments do not depend on one. *)
InPlace(c) == ~EncryptShift(c) /\ ~DecryptShift(c)

-----------------------------------------------------------------------------
(* Segments.  keys are the digests assigned to the segment. *)

Segment(type, off, iv, size, hot) ==
  [type |-> type, off |-> off, iv |-> iv, size |-> size, hot |-> hot, keys |-> {}]

(* json_segment_get_size: 0 for a dynamic segment. *)
SizeOf(s) == IF s.size = Dynamic THEN 0 ELSE s.size

(* reencrypt_make_segment_new, reencrypt_make_segment_reencrypt *)
NewSegment(c, off, iv, size, hot) ==
  IF c.mode = "decrypt" THEN Segment("linear", off, 0, size, hot)
                        ELSE Segment("crypt", off, iv, size, hot)

(* reencrypt_make_segment_old *)
OldSegment(c, off, iv, size) ==
  IF c.mode = "encrypt" THEN Segment("linear", off, 0, size, FALSE)
                        ELSE Segment("crypt", off, iv, size, FALSE)

OfType(segs, type) == {i \in DOMAIN segs : segs[i].type = type}
First(S) == CHOOSE i \in S : \A j \in S : i <= j
Last(S)  == CHOOSE i \in S : \A j \in S : j <= i

(* json_segments_segment_in_reencrypt *)
HotIndexes(segs) == {i \in DOMAIN segs : segs[i].hot}
InReencryption(segs) == HotIndexes(segs) # {}
HotIndex(segs) == First(HotIndexes(segs))

If(cond, segs) == IF cond THEN segs ELSE <<>>

(* reencrypt_make_hot_segments: r is the context, segs the segments of the *)
(* header.  <<>> stands for a failure.                                     *)
HotSegments(c, r, segs) ==
  LET n == NewOffset(c)
      tmp == r.offset + r.length
      fixed == IF r.fixed THEN r.devsize - tmp ELSE Dynamic
      hot == <<NewSegment(c, n + r.offset, r.offset, r.length, TRUE)>>
      old == If(tmp < r.devsize,
                <<OldSegment(c, n + c.shift + tmp, tmp, fixed)>>)
      new == If(tmp < r.devsize, <<NewSegment(c, n + tmp, tmp, fixed, FALSE)>>)
      linear == OfType(segs, "linear")
      crypt == OfType(segs, "crypt")
      sg == Last(linear)
  IN
  CASE EncryptShift(c) ->
         If(linear # {},
            SubSeq(segs, 1, sg - 1)
            \o If(SizeOf(segs[sg]) > r.length,
                  <<[segs[sg] EXCEPT !.size = SizeOf(segs[sg]) - r.length]>>)
            \o hot
            \o If(crypt # {}, <<segs[First(crypt)]>>))
    [] DecryptShift(c) ->
         If(r.offset > 0, <<segs[1]>>)
         \o If(r.offset > 0 /\ r.progress > 0,
               <<NewSegment(c, n + SizeOf(segs[1]), 0, r.progress, FALSE)>>)
         \o hot
         \o IF r.offset = 0 /\ Len(segs) > 1 THEN <<segs[2]>> ELSE old
    [] InPlace(c) /\ c.dir = "forward" ->
         If(r.offset > 0, <<NewSegment(c, n, 0, r.offset, FALSE)>>) \o hot \o old
    [] InPlace(c) /\ c.dir = "backward" ->
         If(r.offset > 0, <<[segs[1] EXCEPT !.size = r.offset]>>) \o hot \o new

(* reencrypt_make_post_segments *)
PostSegments(c, r, hot) ==
  LET n == NewOffset(c)
      i == HotIndex(hot)
      last == i = Len(hot)
      done == r.offset + r.length
  IN
  CASE EncryptShift(c) ->
         LET size == (IF last THEN 0 ELSE SizeOf(hot[i + 1])) + r.length
             seg == IF last THEN [hot[i] EXCEPT !.hot = FALSE]
                    ELSE [hot[i + 1] EXCEPT !.off = r.offset + n, !.iv = r.offset]
         IN SubSeq(hot, 1, i - 1)
            \o <<[seg EXCEPT !.size = IF i > 1 THEN size ELSE Dynamic]>>
    [] DecryptShift(c) ->
         IF i = 1 THEN <<NewSegment(c, n, 0, Dynamic, FALSE)>>
         ELSE <<hot[1],
                NewSegment(c, n + c.moved, c.shift,
                           IF last THEN Dynamic ELSE r.length + r.progress, FALSE)>>
              \o If(~last, <<hot[i + 1]>>)
    [] InPlace(c) /\ c.dir = "forward" ->
         <<NewSegment(c, n, 0, IF last THEN Dynamic ELSE done, FALSE)>>
         \o If(~last,
               <<IF r.fixed THEN [hot[i + 1] EXCEPT !.size = r.devsize - done]
                            ELSE hot[i + 1]>>)
    [] InPlace(c) /\ c.dir = "backward" ->
         If(i > 1, <<hot[i - 1]>>)
         \o <<NewSegment(c, n + r.offset, r.offset,
                         IF r.fixed /\ r.offset > 0 THEN r.devsize - r.offset
                                                    ELSE Dynamic, FALSE)>>

(* reencrypt_assign_segments, reencrypt_assign_segments_simple: which      *)
(* volume keys each segment is bound to.                                   *)
AssignDigests(c, segs, hot) ==
  LET count == Len(segs)
      rseg == IF InReencryption(segs) THEN HotIndex(segs) ELSE 0
      forward == c.dir = "forward"
      key(i) ==
        IF c.mode = "encrypt" THEN {"new"}
        ELSE IF c.mode = "decrypt" THEN {"old"}
        ELSE IF i = rseg THEN {"old", "new"}
        ELSE IF hot THEN IF i = 1 /\ rseg > 1 THEN {IF forward THEN "new" ELSE "old"}
                         ELSE IF i = rseg + 1 THEN {IF forward THEN "old" ELSE "new"}
                         ELSE {}
        ELSE IF i = 1 THEN {IF forward \/ count = 1 THEN "new" ELSE "old"}
        ELSE IF i = 2 THEN {IF forward THEN "old" ELSE "new"}
        ELSE {}
  IN [i \in 1..count |->
        [segs[i] EXCEPT !.keys = IF segs[i].type = "crypt" THEN key(i) ELSE {}]]

(* hdr_validate_segments, validate_segment_intervals *)
ValidSegments(segs) ==
  /\ Len(segs) > 0
  /\ \A i \in DOMAIN segs :
       /\ segs[i].size # 0
       /\ segs[i].size = Dynamic => i = Len(segs)
       /\ segs[i].type = "crypt" => segs[i].keys # {}
       /\ \A j \in DOMAIN segs \ {i} :
            segs[i].off >= segs[j].off =>
              segs[j].size # Dynamic /\ segs[i].off >= segs[j].off + segs[j].size

-----------------------------------------------------------------------------
(* The context of a run *)

NoContext == [offset |-> 0, length |-> 0, progress |-> 0, devsize |-> 0,
              fixed |-> FALSE, hot |-> <<>>, post |-> <<>>]

Lesser(a, b) == IF a < b THEN a ELSE b

(* Start of each segment in the user's data. *)
Starts(segs) ==
  LET start[i \in 1..(Len(segs) + 1)] ==
        IF i = 1 THEN 0 ELSE start[i - 1] + SizeOf(segs[i - 1])
  IN start

(* LUKS2_get_data_size *)
HasDynamic(segs) == \E i \in DOMAIN segs : segs[i].size = Dynamic
DataSize(segs) == Starts(segs)[Len(segs) + 1]

(* Mutant: the segments are not looked at. *)
ReencryptOffsetMut(c, segs, devsize, length) == [offset |-> 0, length |-> length]

(* reencrypt_offset and what it does to the length; an offset of -1 is an  *)
(* error.                                                                  *)
ReencryptOffset(c, segs, devsize, length) ==
  LET at(off, len) == [offset |-> off, length |-> len]
      linear == OfType(segs, "linear")
      crypt == OfType(segs, "crypt")
      sizes[i \in 0..Len(segs)] ==
        IF i = 0 THEN 0
        ELSE sizes[i - 1] + IF i \in linear THEN SizeOf(segs[i]) ELSE 0
      tmp == sizes[Len(segs)] - c.shift
      left == IF Len(segs) = 1 THEN devsize ELSE SizeOf(segs[1])
  IN
  IF InReencryption(segs) THEN at(segs[HotIndex(segs)].off - NewOffset(c), length)
  ELSE IF c.dir = "forward" /\ c.mode = "decrypt" /\ c.moved > 0 THEN
    IF crypt \subseteq {1} THEN at(0, length)
    ELSE at(Lesser(segs[Last(crypt)].off - c.shift, devsize), length)
  ELSE IF c.dir = "forward" THEN
    IF Len(segs) = 1 THEN at(0, length)
    ELSE IF Len(segs) = 2 /\ SizeOf(segs[1]) > 0 THEN at(SizeOf(segs[1]), length)
    ELSE at(-1, length)
  ELSE IF c.mode = "encrypt" /\ c.moved > 0 THEN
    IF Len(segs) = 1 THEN at(0, length)
    ELSE IF tmp < 0 THEN at(-1, length)
    ELSE IF tmp > 0 /\ tmp < c.shift THEN at(c.shift, tmp) ELSE at(tmp, length)
  ELSE IF Len(segs) > 2 THEN at(-1, length)
  ELSE at(left - Lesser(left, length), Lesser(left, length))

(* reencrypt_context_init with reencrypt_length; fixedsize is 0 if unset. *)
ContextInit(c, segs, size, fixedsize) ==
  LET devsize == IF fixedsize > 0 THEN fixedsize ELSE size
      o == ReencryptOffset(c, segs, devsize,
                           IF c.res = "datashift" THEN c.shift ELSE c.hot)
      length == Lesser(o.length, devsize - o.offset)
      progress ==
        IF c.dir = "backward" THEN devsize - o.offset - length
        ELSE IF c.moved = 0 THEN o.offset
        ELSE IF o.offset = MovedOffset(c) THEN devsize - c.moved
        ELSE o.offset - c.moved
  IN IF o.offset < 0 \/ o.offset > devsize \/ length <= 0 THEN NoContext
     ELSE [NoContext EXCEPT !.offset = o.offset, !.length = length,
             !.progress = progress, !.devsize = devsize, !.fixed = fixedsize > 0]

(* LUKS2_reencrypt_check_device_size, reencrypt_load_clean *)
LoadClean(c, segs) ==
  ContextInit(c, segs,
    DeviceBlocks(c) - NewOffset(c) - (IF c.dir = "forward" THEN c.shift ELSE 0), 0)

(* reencrypt_load_crashed, reencrypt_make_segments_crashed *)
LoadCrashed(c, segs) ==
  LET r == ContextInit(c, segs, DeviceBlocks(c) - NewOffset(c),
                       IF HasDynamic(segs) THEN 0 ELSE DataSize(segs))
      rl == [r EXCEPT !.length = SizeOf(segs[HotIndex(segs)]), !.hot = segs]
  IN IF r = NoContext THEN r ELSE [rl EXCEPT !.post = PostSegments(c, rl, segs)]

(* reencrypt_context_update *)
ContextUpdate(c, r) ==
  LET o == r.offset - c.shift
      next ==
        IF c.dir = "backward" THEN
          IF c.res = "datashift" /\ c.mode = "encrypt" THEN
            IF r.offset = 0 \/ o = 0 THEN [r EXCEPT !.offset = 0, !.length = c.shift]
            ELSE IF o < c.shift THEN [r EXCEPT !.offset = c.shift, !.length = o]
            ELSE [r EXCEPT !.offset = o]
          ELSE [r EXCEPT !.offset = r.offset - Lesser(r.offset, r.length),
                         !.length = Lesser(r.offset, r.length)]
        ELSE IF r.devsize = r.offset + r.length /\ DecryptShift(c)
          THEN [r EXCEPT !.offset = 0, !.length = c.moved]
          ELSE [r EXCEPT !.offset = r.offset + r.length,
                         !.length = Lesser(r.length, r.devsize - (r.offset + r.length))]
  IN [next EXCEPT !.progress = r.progress + r.length, !.hot = <<>>, !.post = <<>>]

-----------------------------------------------------------------------------
(* The segments crypt_reencrypt_init stores: reencrypt_set_encrypt_segments, *)
(* reencrypt_set_decrypt_shift_segments, or the one segment of the device.   *)
InitSegments(c) ==
  CASE EncryptShift(c) ->
         <<Segment("linear", MovedOffset(c), 0, c.moved, FALSE)>>
         \o If(c.size > c.moved,
               <<Segment("linear", c.shift, 0, c.size - c.moved, FALSE)>>)
    [] DecryptShift(c) ->
         AssignDigests(c, <<Segment("crypt", 0, 0, c.moved, FALSE)>>
           \o If(c.size > c.moved,
                 <<Segment("crypt", c.head + c.moved, c.moved, Dynamic, FALSE)>>), FALSE)
    [] OTHER ->
         LET s == OldSegment(c, OldOffset(c), 0, Dynamic) IN
         <<IF s.type = "crypt" THEN [s EXCEPT !.keys = {"old"}] ELSE s>>
=============================================================================
