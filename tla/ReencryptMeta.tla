--------------------------- MODULE ReencryptMeta ---------------------------
(***************************************************************************)
(* The reencryption metadata of a LUKS2 header: the reencrypt keyslot with *)
(* its resilience parameters, the digest that covers it, the version of    *)
(* the online-reencrypt requirement, and how the parameters of a command   *)
(* are checked against them (lib/luks2/luks2_keyslot_reenc.c,              *)
(* luks2_reencrypt_digest.c, the parameter checks of luks2_reencrypt.c and *)
(* of src/utils_reencrypt.c).                                              *)
(*                                                                         *)
(* A header h is a record: req (version of the requirement, 0 without),    *)
(* ks (the reencrypt keyslot), moved (size of backup-moved-segment, 0      *)
(* without), old and new (volume keys of backup-previous and backup-final, *)
(* "none" for plaintext), digest (what it was computed over; at most one   *)
(* element) and slots (keyslot -> passphrase and volume key).              *)
(* Parameters p are res, hash, shift; "unset" is a null pointer.           *)
(* A result that may be an error is a set: empty is the error.             *)
(***************************************************************************)
EXTENDS Naturals, FiniteSets, Sequences

CONSTANTS
  Hashes,   \* hash algorithms the crypto backend has
  AreaSize, \* units of the reencrypt keyslot's area
  HashSize  \* units of area a checksum takes

ASSUME MetaConstants ==
  /\ Hashes # {} /\ "unset" \notin Hashes
  /\ AreaSize \in Nat \ {0} /\ HashSize \in Nat \ {0}

Resiliences == {"none", "journal", "checksum", "datashift", "datashift-checksum", "datashift-journal"}
Checksummed(t) == t \in {"checksum", "datashift-checksum"}
Shifted(t)     == t \in {"datashift", "datashift-checksum", "datashift-journal"}
SubShift(t)    == t \in {"datashift-checksum", "datashift-journal"}

NoArea == [type |-> "unset", hash |-> "unset", block |-> 0, shift |-> 0]
NoKs   == [mode |-> "none", dir |-> "none", area |-> NoArea]

-----------------------------------------------------------------------------
(* The keyslot area *)

reencrypt_keyslot_area_jobj(p, align) ==
  [type  |-> p.res,
   hash  |-> IF Checksummed(p.res) THEN p.hash ELSE "unset",
   block |-> IF Checksummed(p.res) THEN align ELSE 0,
   shift |-> IF Shifted(p.res) THEN p.shift ELSE 0]

update_block_size(area, align) ==
  IF Checksummed(area.type) THEN {[area EXCEPT !.block = align]} ELSE {}

\* The size of datashift-checksum is not looked at: its type is taken by the
\* first branch.
reenc_keyslot_validate(ks) ==
  /\ ks.mode \in {"reencrypt", "encrypt", "decrypt"} /\ ks.dir \in {"forward", "backward"}
  /\ Checksummed(ks.area.type) => ks.area.hash # "unset" /\ ks.area.block > 0
  /\ ks.area.type \in {"datashift", "datashift-journal"} => ks.area.shift > 0

\* Without a requested resilience a checksum area always needs the update: the
\* test for the stored sector_size is true when it is there.
reenc_keyslot_update_needed(area, p, align) ==
  IF p.res = "unset" THEN Checksummed(area.type)
  ELSE \/ p.res # area.type
       \/ Checksummed(area.type) /\ (area.hash # p.hash \/ area.block # align)
       \/ Shifted(area.type) /\ area.shift # p.shift

reenc_keyslot_update_is_valid(area, p) ==
  /\ p.res = "datashift" <=> area.type = "datashift"
  /\ SubShift(p.res) <=> SubShift(area.type)
  /\ Shifted(area.type) => p.shift = area.shift

reenc_keyslot_update(ks, p, align) ==
  LET areas == IF p.res = "unset" THEN update_block_size(ks.area, align)
               ELSE IF reenc_keyslot_update_is_valid(ks.area, p)
                    THEN {reencrypt_keyslot_area_jobj(p, align)} ELSE {}
  IN  {k \in {[ks EXCEPT !.area = a] : a \in areas} : reenc_keyslot_validate(k)}

\* rp_moved_segment: how the moved segment is protected.
load_resilience_secondary(area) ==
  CASE area.type = "datashift-checksum" -> "checksum"
    [] area.type = "datashift-journal"  -> "journal"
    [] OTHER                            -> "not_set"

LUKS2_reencrypt_max_hotzone_size(area, prot) ==
  IF prot = "journal" THEN AreaSize ELSE (AreaSize \div HashSize) * area.block

MovedFits(ks, size) ==
  LET prot == load_resilience_secondary(ks.area)
  IN  prot # "not_set" => size > 0 /\ size <= LUKS2_reencrypt_max_hotzone_size(ks.area, prot)

-----------------------------------------------------------------------------
(* The digest *)

reenc_keyslot_serialize(ks) ==
  LET a == ks.area
      common == <<ks.mode, ks.dir, a.type>>
  IN  CASE a.type = "datashift-checksum" -> <<common, a.hash, a.block, a.shift>>
        [] a.type \in {"datashift", "datashift-journal"} -> <<common, a.shift>>
        [] a.type = "checksum" -> <<common, a.hash, a.block>>
        [] OTHER -> <<common>>

backup_segments_serialize(h) == <<h.moved>>

\* keys: the volume keys the caller has unlocked.
reencrypt_assembly_verification_data(h, keys, version) ==
  IF {h.old, h.new} \ {"none"} \subseteq keys
  THEN {[ver |-> version, old |-> h.old, new |-> h.new,
         ks |-> reenc_keyslot_serialize(h.ks), segs |-> backup_segments_serialize(h)]}
  ELSE {}

digest_create(h, keys, version) ==
  {[h EXCEPT !.digest = {d}] : d \in reencrypt_assembly_verification_data(h, keys, version)}

\* Digests of different areas are of different lengths; they are compared as
\* hashes of the bytes, so only equal data verify.
LUKS2_reencrypt_digest_verify(h, keys) ==
  LET data == reencrypt_assembly_verification_data(h, keys, h.req)
  IN  data # {} /\ h.digest # {} /\ \A d \in data, e \in h.digest :
        /\ d.ver = e.ver /\ d.old = e.old /\ d.new = e.new /\ d.segs = e.segs
        /\ Len(d.ks) = Len(e.ks) /\ d.ks = e.ks

-----------------------------------------------------------------------------
(* Parameters of a command *)

reencrypt_verify_checksum_params(p) == p.hash \in Hashes
reencrypt_verify_datashift_params(p) == p.shift > 0

reencrypt_verify_resilience_params(p, moved) ==
  CASE p.res = "unset"                 -> TRUE
    [] p.res \in {"journal", "none"}   -> p.shift = 0 /\ ~moved
    [] p.res = "checksum"              -> p.shift = 0 /\ ~moved /\ reencrypt_verify_checksum_params(p)
    [] p.res = "datashift"             -> reencrypt_verify_datashift_params(p)
    [] p.res = "datashift-checksum"    -> /\ moved /\ reencrypt_verify_datashift_params(p)
                                          /\ reencrypt_verify_checksum_params(p)
    [] p.res = "datashift-journal"     -> moved /\ reencrypt_verify_datashift_params(p)
    [] OTHER                           -> FALSE

RepairNeeded(h) == h.req > 0 /\ (h.req < 2 \/ h.digest = {})

\* What crypt_reencrypt_status reports; nothing but the flag when a repair is needed.
LUKS2_reencrypt_get_params(h) ==
  IF RepairNeeded(h) THEN [mode |-> "reencrypt", res |-> "unset", hash |-> "unset", shift |-> 0]
  ELSE [mode |-> h.ks.mode, res |-> h.ks.area.type, hash |-> h.ks.area.hash, shift |-> h.ks.area.shift]

decrypt_verify_and_set_params(p, res) ==
  CASE res = "unset"                    -> {p}
    [] res \in {"datashift", "none"}    -> {}
    [] res = "journal"                  -> {[p EXCEPT !.res = "datashift-journal"]}
    [] res = "checksum"                 -> {[p EXCEPT !.res = "datashift-checksum"]}
    [] SubShift(res)                    -> {[p EXCEPT !.res = res]}
    [] OTHER                            -> {}

\* The options of a command that resumes, against the parameters of the header.
\* op is "encrypt", "decrypt" or "reencrypt".  With an option --resilience and a
\* header that needs repair the process dies (a null string is compared).
reencrypt_verify_and_update_params(p, op, res, hash) ==
  LET asked ==
        IF SubShift(p.res) THEN decrypt_verify_and_set_params(p, res)
        ELSE IF SubShift(res) THEN {} ELSE {[p EXCEPT !.res = res]}
      hashed(q) ==
        [q EXCEPT !.hash = IF hash # "unset" THEN hash
                           ELSE IF @ = "unset" /\ Checksummed(q.res) THEN "sha256" ELSE @]
  IN  IF (op \in {"encrypt", "decrypt"} /\ p.mode # op) \/ (res # "unset" /\ p.res = "unset") THEN {}
      ELSE IF res = "unset" THEN {[p EXCEPT !.res = "unset"]}
      ELSE IF (p.res = "datashift") # (res = "datashift") THEN {}
      ELSE {hashed(q) : q \in asked}

-----------------------------------------------------------------------------
(* The writers of the metadata *)

\* LUKS2_keyslot_reencrypt_allocate and LUKS2_keyslot_reencrypt_digest_create of
\* an initialization, up to the requirement flag that commits it.
Initialized(h, mode, dir, p, moved, old, new, align, keys, version) ==
  LET ks == [mode |-> mode, dir |-> dir, area |-> reencrypt_keyslot_area_jobj(p, align)]
      g  == [h EXCEPT !.ks = ks, !.moved = moved, !.old = old, !.new = new, !.req = version]
  IN  IF reencrypt_verify_resilience_params(p, moved > 0) /\ reenc_keyslot_validate(ks)
      THEN digest_create(g, keys, version) ELSE {}

KeyslotUpdateMut(h, p, align, keys) ==
  IF ~LUKS2_reencrypt_digest_verify(h, keys) THEN {}
  ELSE UNION {digest_create([h EXCEPT !.ks = k], keys, h.req) : k \in reenc_keyslot_update(h.ks, p, align)}

LUKS2_keyslot_reencrypt_update(h, p, align, keys) ==
  IF ~LUKS2_reencrypt_digest_verify(h, keys) THEN {}
  ELSE UNION {digest_create([h EXCEPT !.ks = k], keys, h.req) :
                k \in {x \in reenc_keyslot_update(h.ks, p, align) : MovedFits(x, h.moved)}}

repair_version(h) ==
  IF h.ks.mode = "decrypt" /\ SubShift(h.ks.area.type) /\ h.moved > 0 THEN 3 ELSE 2

reencrypt_repair(h, keys) ==
  {[g EXCEPT !.req = repair_version(h)] : g \in digest_create(h, keys, repair_version(h))}
=============================================================================
