------------------------------- MODULE DmTable -------------------------------
(***************************************************************************)
(* Device-mapper tables as lib/libdevmapper.c writes and reads them back,  *)
(* the probing of what the kernel's targets can do, and the dm-crypt,      *)
(* dm-verity and dm-integrity devices kept through them.                   *)
(*                                                                         *)
(* The library keeps no record of an active device: refresh, resize and    *)
(* close start from the text the kernel returns for its table, so an       *)
(* option survives only if the builder and the parser agree on it.  The    *)
(* commands run one after another on one mapping; Activation.tla has their *)
(* interleavings and the two tables of a device.                           *)
(*                                                                         *)
(* A table is [type, spec, opts, count, size, ro]: the positional          *)
(* parameters, the optional ones as tuples <<word, argument, ...>>, the    *)
(* number of arguments the text announces, the length and the read-only    *)
(* bit.  Sizes are in units of the data device.                            *)
(***************************************************************************)
EXTENDS Naturals, Sequences, FiniteSets, Functions, FiniteSetsExt

CONSTANTS Kernels,       \* [ver, getver, backport]: target versions, whether the ioctl interface has
                         \* GET_TARGET_VERSION, the options taken although the version says no
          CryptReqs, VerityReqs, IntegrityReqs, \* [tgt, flags] a user opens
          Formats,       \* dm-integrity targets a user formats
          MaxDisk,       \* largest data device, in units
          MaxCmds        \* bound: commands in a behaviour

ASSUME DmTableAssumption == MaxDisk \in Nat /\ MaxCmds \in Nat

VARIABLES
  kernel,  \* the running kernel, one of Kernels
  mods,    \* targets whose module is loaded
  lib,     \* _dm_flags of the process: getver known, targets whose version was seen
  disk,    \* size of the data device
  sb,      \* the dm-integrity superblock, and the units whose tags are valid
  table,   \* the live table, or NoTable
  asked,   \* history: what the API was last asked for, and granted
  last,    \* history: the last command
  cmds

vars == <<kernel, mods, lib, disk, sb, table, asked, last, cmds>>

NoTable == [type |-> "none"]
NoSb == [fmt |-> FALSE]
NoAsk == [tgt |-> [type |-> "none"], flags |-> {}, size |-> 0]
NewLib == [getver |-> FALSE, checked |-> {}]
Active == table.type # "none"

\* ---------------------------------------------------- target versions
\* _dm_satisfies_version: the version `a' is at least `t'.
_dm_satisfies_version(t, a) ==
  \/ a[1] > t[1]
  \/ a[1] = t[1] /\ a[2] > t[2]
  \/ a[1] = t[1] /\ a[2] = t[2] /\ a[3] >= t[3]

\* The first version of a target that has an option.
crypt_compat ==
  [allow_discards |-> <<1, 11, 0>>, same_cpu_crypt |-> <<1, 14, 0>>,
   submit_from_crypt_cpus |-> <<1, 14, 0>>, sector_size |-> <<1, 17, 0>>,
   keyring |-> <<1, 18, 1>>, no_read_workqueue |-> <<1, 22, 0>>, no_write_workqueue |-> <<1, 22, 0>>]
verity_compat ==
  [ignore_corruption |-> <<1, 3, 0>>, restart_on_corruption |-> <<1, 3, 0>>,
   ignore_zero_blocks |-> <<1, 3, 0>>, check_at_most_once |-> <<1, 3, 0>>,
   use_fec_from_device |-> <<1, 3, 0>>, fec_start |-> <<1, 3, 0>>, fec_blocks |-> <<1, 3, 0>>,
   fec_roots |-> <<1, 3, 0>>, root_hash_sig_key_desc |-> <<1, 5, 0>>,
   panic_on_corruption |-> <<1, 7, 0>>, try_verify_in_tasklet |-> <<1, 9, 0>>]
integrity_compat ==
  [recalculate |-> <<1, 2, 0>>, bitmap |-> <<1, 3, 0>>, fix_padding |-> <<1, 4, 0>>,
   allow_discards |-> <<1, 6, 0>>, fix_hmac |-> <<1, 7, 0>>, reset_recalculate |-> <<1, 8, 0>>]
Compat == [crypt |-> crypt_compat, verity |-> verity_compat, integrity |-> integrity_compat]

Has(t) == {f \in DOMAIN Compat[t] : _dm_satisfies_version(Compat[t][f], kernel.ver[t])}

\* A probing context: the process and the loaded modules.
Env == [lib |-> lib, mods |-> mods]

\* _dm_check_target loads the module with DM_DEVICE_GET_TARGET_VERSION, once
\* the library knows that the kernel has the ioctl; it learns that only from
\* the DM_DEVICE_LIST_VERSIONS that follows.
_dm_check_target(e, t) == IF e.lib.getver THEN [e EXCEPT !.mods = @ \union {t}] ELSE e
_dm_check_versions(e, t) ==
  IF t \in e.lib.checked THEN e
  ELSE LET l == _dm_check_target(e, t)
       IN [l EXCEPT !.lib = [getver |-> kernel.getver, checked |-> @.checked \union l.mods]]

\* dm_flags: what the process sees of the target; nothing, and an error, when
\* its version is not listed.
dm_flags(e, t) == IF t \in e.lib.checked THEN Has(t) ELSE {}

\* ---------------------------------------------------- the kernel
\* External: options without a version, and the ones a version brings.
Unversioned ==
  [crypt |-> {"iv_large_sectors", "integrity"}, verity |-> {},
   integrity |-> {"journal_sectors", "journal_watermark", "commit_time", "interleave_sectors",
                  "block_size", "buffer_sectors", "internal_hash", "journal_mac",
                  "journal_crypt", "meta_device"}]
Bitmap == {"sectors_per_bit", "bitmap_flush_interval"}
WithBitmap(words) == words \union (IF "bitmap" \in words THEN Bitmap ELSE {})
Takes(t) == WithBitmap(Unversioned[t] \union Has(t) \union kernel.backport)

Words(opts) == {w[1] : w \in opts}
Arg(opts, word) == CHOOSE w \in opts : w[1] = word

\* External: the size dm-integrity offers on a superblock; it follows the device
\* since the version that brought discards (DM_INTEGRITY_RESIZE_SUPPORTED).
Provided(s) == IF "allow_discards" \in Has("integrity") THEN disk ELSE s.provided

\* External: dm-integrity recalculates keyed tags only if told that the old,
\* insecure way is meant, or with fixed HMACs and a keyed journal MAC.
Keyed(opts, word) == word \in Words(opts) /\ Arg(opts, word)[3] # "NULL"
RecalcRefused(opts) ==
  /\ Words(opts) \intersect {"recalculate", "reset_recalculate"} # {}
  /\ "legacy_recalculate" \notin Words(opts)
  /\ IF "fix_hmac" \in Words(opts)
     THEN Keyed(opts, "internal_hash") /\ ~Keyed(opts, "journal_mac")
     ELSE Keyed(opts, "internal_hash") \/ Keyed(opts, "journal_mac")

\* External: DM_TABLE_LOAD parses what it is told to parse and knows its words;
\* fec and the signature key are pairs.
Weight(w) == IF w[1] \in {"use_fec_from_device", "fec_start", "fec_blocks", "fec_roots",
                          "root_hash_sig_key_desc"} THEN 2 ELSE 1
Arguments(opts) == MapThenSumSet(Weight, opts)
Parses(t, s, takes) ==
  /\ Words(t.opts) \subseteq takes
  /\ t.count = Arguments(t.opts)
  /\ t.type = "crypt" /\ t.spec.key = "ring" => "keyring" \in takes
  /\ t.type = "integrity" =>
       /\ t.spec.mode = "B" => "bitmap" \in takes
       /\ t.spec.format \/ (s.fmt /\ t.size <= Provided(s))
       /\ "journal_watermark" \in Words(t.opts) => Arg(t.opts, "journal_watermark")[2] <= 100
       /\ ~RecalcRefused(t.opts)
TableLoad(t, s) == Parses(t, s, Takes(t.type))

\* ---------------------------------------------------- building a table
\* cipher_dm2c: CIPHER-MODE-IV as it is, or a crypto API template around
\* MODE(CIPHER) and an "integrity:TAG:NAME" option.
cipher_dm2c(c, integ) ==
  [capi |-> integ # "NULL", c |-> c,
   wrap |-> CASE integ \in {"NULL", "none"} -> "-"
              [] integ = "aead" /\ c.mode = "ccm" -> "rfc4309"
              [] integ = "aead" -> "-"
              [] integ = "poly1305" -> "rfc7539"
              [] OTHER -> "authenc",
   auth |-> IF integ \in {"NULL", "none", "aead"} THEN "-" ELSE integ]
IntegrityName(integ) == IF integ = "none" THEN "none" ELSE "aead"

CryptFlags == (DOMAIN crypt_compat \union {"iv_large_sectors"}) \ {"keyring", "sector_size"}

get_dm_crypt_params(tgt, flags) ==
  [spec |-> [cipher |-> cipher_dm2c(tgt.cipher, tgt.integ),
             key |-> IF tgt.cipher.c = "cipher_null" THEN "-"
                     ELSE IF "keyring" \in flags THEN "ring" ELSE "hex"],
   opts |-> {<<f>> : f \in flags \intersect CryptFlags}
              \union (IF tgt.sector # 512 THEN {<<"sector_size", tgt.sector>>} ELSE {})
              \union (IF tgt.integ # "NULL" THEN {<<"integrity", tgt.tag, IntegrityName(tgt.integ)>>}
                      ELSE {}),
   count |-> Cardinality(flags \intersect CryptFlags)
               + (IF tgt.integ # "NULL" THEN 1 ELSE 0) + (IF tgt.sector # 512 THEN 1 ELSE 0)]

\* "These flags are not compatible": panic wins over restart, both over ignore.
CorruptionFlags(flags) ==
  LET f == IF "panic_on_corruption" \in flags THEN flags \ {"restart_on_corruption"} ELSE flags
  IN IF f \intersect {"restart_on_corruption", "panic_on_corruption"} # {}
     THEN f \ {"ignore_corruption"} ELSE f
VerityFlags == {"ignore_corruption", "restart_on_corruption", "panic_on_corruption",
                "ignore_zero_blocks", "check_at_most_once", "try_verify_in_tasklet"}

get_dm_verity_params(tgt, flags) ==
  LET f == CorruptionFlags(flags) \intersect VerityFlags
  IN [spec |-> [root |-> tgt.root, hash |-> tgt.hash,
                salt |-> IF tgt.salt_size = 0 THEN <<>> ELSE <<tgt.salt_size>>],
      opts |-> {<<w>> : w \in f}
                 \union (IF tgt.fec.roots # 0
                         THEN {<<"use_fec_from_device", "fecdev">>, <<"fec_start", tgt.fec.start>>,
                               <<"fec_blocks", tgt.fec.blocks>>, <<"fec_roots", tgt.fec.roots>>}
                         ELSE {})
                 \union (IF tgt.sig THEN {<<"root_hash_sig_key_desc", "desc">>} ELSE {}),
      count |-> Cardinality(f) + (IF tgt.fec.roots # 0 THEN 8 ELSE 0) + (IF tgt.sig THEN 2 ELSE 0)]

\* The numeric parameters of dm-integrity.  In bitmap mode the watermark and
\* the commit time carry sectors_per_bit and the flush interval.
NumFields == {"journal_size", "journal_watermark", "journal_commit_time",
              "interleave_sectors", "sector_size", "buffer_sectors"}
NumWord(f, flags) ==
  CASE f = "journal_size" -> "journal_sectors"
    [] f = "journal_watermark" -> IF "bitmap" \in flags THEN "sectors_per_bit" ELSE "journal_watermark"
    [] f = "journal_commit_time" -> IF "bitmap" \in flags THEN "bitmap_flush_interval" ELSE "commit_time"
    [] f = "sector_size" -> "block_size"
    [] OTHER -> f
AlgFields == {"integrity", "journal_integrity", "journal_crypt"}
AlgWord == [integrity |-> "internal_hash", journal_integrity |-> "journal_mac",
            journal_crypt |-> "journal_crypt"]
BoolFields == {"fix_padding", "fix_hmac", "legacy_recalculate", "meta_device"}
IntegrityFlags == {"recalculate", "reset_recalculate", "allow_discards"}
IntegrityMode(flags) ==
  CASE "bitmap" \in flags -> "B"
    [] "recovery" \in flags -> "R"
    [] "no_journal" \in flags -> "D"
    [] OTHER -> "J"

get_dm_integrity_params(tgt, flags) ==
  LET num == {f \in NumFields : tgt.num[f] # 0}
      alg == {f \in AlgFields : tgt.alg[f][1] # "NULL"}
  IN [spec |-> [tag |-> tgt.tag, mode |-> IntegrityMode(flags), format |-> FALSE],
      opts |-> {<<NumWord(f, flags), tgt.num[f]>> : f \in num}
                 \union {<<AlgWord[f], tgt.alg[f][1], tgt.alg[f][2]>> : f \in alg}
                 \union {<<b>> : b \in tgt.bools} \union {<<f>> : f \in flags \intersect IntegrityFlags},
      count |-> Cardinality(num) + Cardinality(alg) + Cardinality(tgt.bools)
                  + Cardinality(flags \intersect IntegrityFlags)]

Target(type, p, sz, ro) ==
  [type |-> type, spec |-> p.spec, opts |-> p.opts, count |-> p.count, size |-> sz, ro |-> ro]
_create_dm_targets_params(tgt, flags, sz) ==
  Target(tgt.type,
         CASE tgt.type = "crypt" -> get_dm_crypt_params(tgt, flags)
           [] tgt.type = "verity" -> get_dm_verity_params(tgt, flags)
           [] tgt.type = "integrity" -> get_dm_integrity_params(tgt, flags),
         sz, "readonly" \in flags)

\* ---------------------------------------------------- reading it back
\* External: the text of DM_DEVICE_TABLE.  dm-integrity also prints what its
\* constructor filled in, and "recalculate" for as long as it is at it.
Implicit(t, s) ==
  LET B == t.spec.mode = "B"
      dflt == {<<"journal_sectors", s.jsize>>, <<"interleave_sectors", s.il>>, <<"buffer_sectors", 128>>,
               IF B THEN <<"sectors_per_bit", 32768>> ELSE <<"journal_watermark", 50>>,
               IF B THEN <<"bitmap_flush_interval", 10000>> ELSE <<"commit_time", 10000>>}
  IN {w \in dflt : w[1] \notin Words(t.opts)}
WithOpts(t, opts) == [t EXCEPT !.opts = opts, !.count = Arguments(opts)]
TableStatus(t, s) ==
  IF t.type # "integrity" THEN t
  ELSE WithOpts(t, (t.opts \ {<<"recalculate">>}) \union Implicit(t, s)
                     \union (IF s.recalc THEN {<<"recalculate">>} ELSE {}))

\* crypt_capi_to_cipher: the inverse of cipher_dm2c.
crypt_capi_to_cipher(d, iname) ==
  [cipher |-> d.c,
   integ |-> CASE ~d.capi -> iname
               [] d.wrap = "rfc4309" -> "aead"
               [] d.wrap \in {"rfc7539", "authenc"} -> d.auth
               [] OTHER -> iname]

One(opts, word, default) == IF word \in Words(opts) THEN Arg(opts, word)[2] ELSE default

_dm_target_query_crypt(t) ==
  LET iname == IF "integrity" \in Words(t.opts) THEN Arg(t.opts, "integrity")[3] ELSE "NULL"
      c == crypt_capi_to_cipher(t.spec.cipher, iname)
  IN [ok |-> Words(t.opts) \subseteq CryptFlags \union {"integrity", "sector_size"},
      tgt |-> [type |-> "crypt", cipher |-> c.cipher, integ |-> c.integ,
               tag |-> One(t.opts, "integrity", 0), sector |-> One(t.opts, "sector_size", 512)],
      flags |-> (Words(t.opts) \intersect CryptFlags)
                  \union (IF t.spec.key = "ring" THEN {"keyring"} ELSE {})]

QuerySalt(spec) == IF spec.salt = <<>> THEN 0 ELSE spec.salt[1]
_dm_target_query_verity(t) ==
  [ok |-> Words(t.opts) \subseteq DOMAIN verity_compat,
   tgt |-> [type |-> "verity", root |-> t.spec.root, hash |-> t.spec.hash,
            salt_size |-> QuerySalt(t.spec),
            fec |-> [start |-> One(t.opts, "fec_start", 0), blocks |-> One(t.opts, "fec_blocks", 0),
                     roots |-> One(t.opts, "fec_roots", 0)],
            sig |-> "root_hash_sig_key_desc" \in Words(t.opts)],
   flags |-> Words(t.opts) \intersect VerityFlags]

\* journal_size is computed in 32 bits: val times SECTOR_SIZE wraps at 2^23
\* sectors.  The bitmap words land in the journal's fields.
QueryNum(opts, f) ==
  CASE f = "journal_size" -> One(opts, "journal_sectors", 0) % 8388608
    [] f = "journal_watermark" -> One(opts, "sectors_per_bit", One(opts, "journal_watermark", 0))
    [] f = "journal_commit_time" -> One(opts, "bitmap_flush_interval", One(opts, "commit_time", 0))
    [] f = "sector_size" -> One(opts, "block_size", 512)
    [] OTHER -> One(opts, f, 0)
QueryAlg(opts, f) ==
  IF AlgWord[f] \in Words(opts) THEN <<Arg(opts, AlgWord[f])[2], Arg(opts, AlgWord[f])[3]>>
  ELSE <<"NULL", "NULL">>
ModeFlags(mode) ==
  CASE mode = "D" -> {"no_journal"}
    [] mode = "R" -> {"recovery"}
    [] mode = "B" -> {"no_journal", "bitmap"}
    [] OTHER -> {}
IntegrityWords ==
  Unversioned["integrity"] \union Bitmap \union BoolFields \union IntegrityFlags

_dm_target_query_integrity(t) ==
  [ok |-> Words(t.opts) \subseteq IntegrityWords,
   tgt |-> [type |-> "integrity", tag |-> t.spec.tag,
            num |-> [f \in NumFields |-> QueryNum(t.opts, f)],
            alg |-> [f \in AlgFields |-> QueryAlg(t.opts, f)],
            bools |-> Words(t.opts) \intersect BoolFields],
   flags |-> ModeFlags(t.spec.mode) \union (Words(t.opts) \intersect IntegrityFlags)]

\* dm_target_query and the read-only bit of dm_query_device; every argument
\* announced must be there, and no other.
QueryText(t) ==
  [CASE t.type = "crypt" -> _dm_target_query_crypt(t)
     [] t.type = "verity" -> _dm_target_query_verity(t)
     [] t.type = "integrity" -> _dm_target_query_integrity(t)
   EXCEPT !.ok = @ /\ t.count = Arguments(t.opts),
          !.flags = @ \union (IF t.ro THEN {"readonly"} ELSE {})]
dm_target_query(t, s) == QueryText(TableStatus(t, s))

\* ---------------------------------------------------- create and reload
\* A command works on what the system is: the probing context, the superblock
\* and the live table; `ok' says whether the last call of it returned 0.
Sys == [e |-> Env, sb |-> sb, tab |-> table, ok |-> TRUE]
Fail(y) == [y EXCEPT !.ok = FALSE]

\* External: options that start a recalculation.
Starts(opts) == {<<"recalculate">>, <<"reset_recalculate">>} \intersect opts # {}

\* External: a table that becomes live.  Loading one pulls its module in;
\* dm-integrity updates its superblock.
Live(y, t) ==
  [y EXCEPT !.tab = t, !.ok = TRUE, !.e.mods = @ \union {t.type},
            !.sb = IF t.type # "integrity" THEN y.sb
                   ELSE [y.sb EXCEPT !.provided = Provided(y.sb),
                                     !.recalc = y.sb.recalc \/ Starts(t.opts)]]
Refused(y, t) == Fail([y EXCEPT !.e.mods = @ \union {t.type}])
Load(y, t) == IF TableLoad(t, y.sb) THEN Live(y, t) ELSE Refused(y, t)

Probe(y, t) == [y EXCEPT !.e = _dm_check_versions(@, t)]

\* check_retry: a dm-crypt table is tried again without what the target has no
\* support for; the paired options go together.
Pair(a, b, flags, seen) ==
  IF flags \intersect {a, b} # {} /\ seen \intersect {a, b} = {} THEN {a, b} ELSE {}
check_retry(flags, seen) ==
  flags \ (({"allow_discards", "keyring"} \ seen)
             \union Pair("same_cpu_crypt", "submit_from_crypt_cpus", flags, seen)
             \union Pair("no_read_workqueue", "no_write_workqueue", flags, seen))

Retry(y, tgt, flags, sz) ==
  LET less == check_retry(flags, dm_flags(y.e, tgt.type))
  IN IF tgt.type = "crypt" /\ tgt.type \in y.e.lib.checked /\ less # flags
     THEN Load(y, _create_dm_targets_params(tgt, less, sz)) ELSE y
AfterTry(y, tgt, flags, sz) == IF y.ok THEN y ELSE Retry(Probe(y, tgt.type), tgt, flags, sz)
dm_create_device(y, tgt, flags, sz) ==
  AfterTry(Load(Probe(y, tgt.type), _create_dm_targets_params(tgt, flags, sz)), tgt, flags, sz)

ReloadProbed(y, tgt, flags, sz) ==
  Load(y, _create_dm_targets_params(tgt,
            flags \ ({"recalculate"} \ dm_flags(y.e, "integrity")), sz))
dm_reload_device(y, tgt, flags, sz) ==
  ReloadProbed(Probe(Probe(y, tgt.type), "integrity"), tgt, flags, sz)

\* crypt_compare_dm_devices: the parameters that must not change.  Those of the
\* dm-integrity journal may be implicit and are not compared.
_compare_crypt_devices(a, b) == a = b
_compare_integrity_devices(a, b) ==
  a.tag = b.tag /\ a.num["sector_size"] = b.num["sector_size"] /\ a.alg = b.alg
crypt_compare_dm_devices(a, b) ==
  /\ a.type = b.type
  /\ IF a.type = "crypt" THEN _compare_crypt_devices(a, b) ELSE _compare_integrity_devices(a, b)

\* device_block_adjust: a size of 0 is the whole device, one beyond it an error.
device_block_adjust(sz) == IF sz = 0 THEN disk ELSE sz
Fits(sz) == sz <= disk

\* _reload_device: the queried target with the new flags, the read-only bit of
\* the active table and the new size.
KeepReadonly(flags, active) == (flags \ {"readonly"}) \union (active \intersect {"readonly"})
ReloadAs(y, q, tgt, flags, sz) ==
  IF ~q.ok \/ ~crypt_compare_dm_devices(tgt, q.tgt) \/ ~Fits(sz) THEN Fail(y)
  ELSE dm_reload_device(y, q.tgt, KeepReadonly(flags, q.flags), sz)
ReloadQueried(y, tgt, flags, sz) == ReloadAs(y, dm_target_query(y.tab, y.sb), tgt, flags, sz)
_reload_device(y, tgt, flags, sz) ==
  IF tgt.type = "crypt" /\ tgt.tag # 0 THEN Fail(y) ELSE ReloadQueried(y, tgt, flags, sz)

\* dm_integrity_target_set: the first probe may only learn how to load the
\* module, so it is made before the flags are asked for.
SupportedFix(e, fix, legacy, compat) ==
  IF legacy \in compat THEN {} ELSE {fix} \intersect dm_flags(e, "integrity")
TargetSet(y, tgt, tag, compat, padding) ==
  [y |-> y,
   tgt |-> [type |-> "integrity", tag |-> tag, num |-> tgt.num, alg |-> tgt.alg,
            bools |-> padding \union SupportedFix(y.e, "fix_hmac", "legacy_hmac", compat)
                        \union (compat \intersect {"legacy_recalculate", "meta_device"})]]
SecondProbe(y, tgt, tag, compat) ==
  TargetSet(Probe(y, "integrity"), tgt, tag, compat,
            SupportedFix(y.e, "fix_padding", "legacy_padding", compat))
dm_integrity_target_set(y, tgt, tag, compat) ==
  SecondProbe(Probe(Probe(y, "integrity"), "integrity"), tgt, tag, compat)

\* ---------------------------------------------------- dm-integrity
\* Tag sizes: of a stand-alone device by its hash, of an authenticated cipher
\* by its IV mode and its integrity algorithm.
INTEGRITY_hash_tag_size(alg) ==
  CASE alg = "crc32c" -> 4 [] alg = "xxhash64" -> 8 [] alg \in {"sha256", "hmac(sha256)"} -> 32
    [] OTHER -> 0
IvTagSize(c) ==
  CASE c.iv # "random" -> 0
    [] c.mode = "gcm" -> 12
    [] c.mode = "ccm" -> 8
    [] c.c = "aegis256" /\ c.mode = "" -> 32
    [] c.mode \in {"xts", "ctr", ""} -> 16
    [] OTHER -> 0
INTEGRITY_tag_size(integ, c) ==
  CASE integ \in {"NULL", "none"} -> IvTagSize(c)
    [] integ = "aead" -> IvTagSize(c) + 16
    [] integ = "hmac(sha256)" -> IvTagSize(c) + 32
    [] integ = "poly1305" -> (IF IvTagSize(c) # 0 THEN 12 ELSE 0) + 16

\* INTEGRITY_read_sb and _crypt_load_integrity: the superblock gives the tag and
\* sector size, the caller what may be tuned.
_crypt_load_integrity(s, tgt) == [tgt EXCEPT !.num["sector_size"] = s.sector]

\* INTEGRITY_create_dmd_device keeps a recalculation going that the superblock
\* says is not finished.
Recalculating(s, flags) == IF s.recalc THEN flags \union {"recalculate"} ELSE flags

CreateSet(set, flags) ==
  dm_create_device(set.y, set.tgt, Recalculating(set.y.sb, flags), set.y.sb.provided)
INTEGRITY_activate(y, tgt, compat, flags) ==
  CreateSet(dm_integrity_target_set(y, tgt, y.sb.tag, compat), flags)
ReloadSet(set, flags) == _reload_device(set.y, set.tgt, Recalculating(set.y.sb, flags), set.y.tab.size)
INTEGRITY_activate_refresh(y, tgt, flags) ==
  ReloadSet(dm_integrity_target_set(y, tgt, tgt.tag, {}), flags)

\* INTEGRITY_format: a temporary device makes the kernel write the superblock.
Superblock(f, tgt) ==
  [fmt |-> TRUE, tag |-> tgt.tag, sector |-> f.num["sector_size"],
   jsize |-> IF f.num["journal_size"] = 0 THEN 16 ELSE f.num["journal_size"],
   il |-> IF f.num["interleave_sectors"] = 0 THEN 32768 ELSE f.num["interleave_sectors"],
   fix |-> tgt.bools \intersect {"fix_padding", "fix_hmac"},
   compat |-> f.compat, provided |-> disk, recalc |-> FALSE, valid |-> {}]
FormatTable(tgt) == [_create_dm_targets_params(tgt, {}, 8) EXCEPT !.spec.format = TRUE]
FormatSet(set, f) ==
  IF TableLoad(FormatTable(set.tgt), set.y.sb)
  THEN [set.y EXCEPT !.e.mods = @ \union {"integrity"}, !.sb = Superblock(f, set.tgt)]
  ELSE Refused(set.y, set.tgt)
INTEGRITY_format(y, f, tag) == FormatSet(dm_integrity_target_set(y, f, tag, f.compat), f)

\* _crypt_format_integrity: the head of the device is wiped first.
_crypt_format_integrity(y, f) ==
  INTEGRITY_format([y EXCEPT !.sb = NoSb], f,
                   IF f.tag # 0 THEN f.tag ELSE INTEGRITY_hash_tag_size(f.alg["integrity"][1]))

\* _wipe_data_device: without a journal, through a temporary device; it may be
\* interrupted.
WipeAndRemove(y, done) ==
  IF y.ok /\ done THEN [y EXCEPT !.tab = NoTable, !.sb.valid = 1..y.sb.provided]
  ELSE Fail([y EXCEPT !.tab = NoTable])
_wipe_data_device(y, f, done) ==
  WipeAndRemove(INTEGRITY_activate(y, f, f.compat, {"no_journal"}), done)

\* _init_by_name_verity, _init_by_name_integrity: the context of an active
\* device is what its table says; crypt_get_integrity_info reads it from there.
_init_by_name_verity(q) == q.ok /\ q.tgt.type = "verity"
_init_by_name_integrity(q) == q.ok /\ q.tgt.type = "integrity"
crypt_get_integrity_info(q) == [num |-> q.tgt.num, alg |-> q.tgt.alg, tag |-> q.tgt.tag]

\* ---------------------------------------------------- resize
\* crypt_resize: a dm-integrity device is first reloaded as it is, for the
\* kernel to put the new maximum into the superblock.
ResizeFlagsMut(q) == {}
ResizeFlags(q) == q.flags
ReloadMax(y, n) == y.tab.type = "integrity" /\ n = 0
ResizeTo(y, tgt, flags, goal) ==
  CASE ~y.ok -> y
    [] y.ok /\ ~Fits(goal) -> Fail(y)
    [] y.ok /\ Fits(goal) /\ goal = y.tab.size -> y
    [] OTHER -> _reload_device(y, tgt, flags, goal)
ResizeReloaded(y, tgt, flags, n) ==
  ResizeTo(y, tgt, flags, IF ReloadMax(y, n) THEN y.sb.provided ELSE device_block_adjust(n))
ResizeSet(set, flags, n) ==
  ResizeReloaded(IF ReloadMax(set.y, n) THEN _reload_device(set.y, set.tgt, flags, set.y.tab.size) ELSE set.y,
                 set.tgt, flags, n)
ResizeQueried(y, q, n) ==
  IF ~q.ok \/ y.tab.type = "verity" THEN Fail(y)
  ELSE ResizeSet(IF y.tab.type = "integrity"
                 THEN dm_integrity_target_set(y, crypt_get_integrity_info(q), q.tgt.tag, {})
                 ELSE [y |-> y, tgt |-> q.tgt], ResizeFlags(q), n)
crypt_resize(y, n) == ResizeQueried(y, dm_target_query(y.tab, y.sb), n)

\* action_resize of integritysetup: what was added is wiped, or recalculated.
Added(old, new) == (old + 1)..new
NewDevSizeMut(n, y) == n
NewDevSize(n, y) == IF n = 0 THEN y.tab.size ELSE n
WipeAdded(y, old, done) ==
  IF done /\ y.tab.spec.mode # "R" /\ ~y.tab.ro
  THEN [y EXCEPT !.sb.valid = @ \union Added(old, y.tab.size)] ELSE Fail(y)
Recalculated(y) == [y |-> y, size |-> TRUE, flags |-> y.ok]
AfterResize(y, q, old, new, wipe, done) ==
  CASE ~y.ok \/ new <= old -> [y |-> y, size |-> y.ok, flags |-> FALSE]
    [] y.ok /\ new > old /\ wipe -> [y |-> WipeAdded(y, old, done), size |-> TRUE, flags |-> FALSE]
    [] OTHER -> Recalculated(INTEGRITY_activate_refresh(y, crypt_get_integrity_info(q), {"recalculate"}))
ResizeDone(y, q, old, n, wipe, done) == AfterResize(y, q, old, NewDevSize(n, y), wipe, done)
ResizeActive(y, q, n, wipe, done) ==
  IF _init_by_name_integrity(q)
  THEN ResizeDone(crypt_resize(y, n), q, y.tab.size, n, wipe, done)
  ELSE [y |-> Fail(y), size |-> FALSE, flags |-> FALSE]
action_resize(y, n, wipe, done) == ResizeActive(y, dm_target_query(y.tab, y.sb), n, wipe, done)

\* ---------------------------------------------------- commands
Done(y, op, old) ==
  /\ cmds < MaxCmds
  /\ lib' = y.e.lib /\ mods' = y.e.mods /\ sb' = y.sb /\ table' = y.tab
  /\ last' = [op |-> op, ok |-> y.ok, old |-> old]
  /\ cmds' = cmds + 1
  /\ UNCHANGED <<kernel, disk>>

Init ==
  /\ kernel \in Kernels /\ mods = {} /\ lib = NewLib
  /\ disk = 1 /\ sb = NoSb /\ table = NoTable /\ asked = NoAsk
  /\ last = [op |-> "none", ok |-> TRUE, old |-> 0] /\ cmds = 0

\* The next command is a new process.
NewProcess == /\ lib # NewLib /\ lib' = NewLib
              /\ UNCHANGED <<kernel, mods, disk, sb, table, asked, last, cmds>>
\* Idle modules are unloaded.
Rmmod == /\ mods \ {table.type} # {} /\ mods' = mods \intersect {table.type}
         /\ UNCHANGED <<kernel, lib, disk, sb, table, asked, last, cmds>>
GrowDisk == /\ disk < MaxDisk /\ disk' = disk + 1
            /\ UNCHANGED <<kernel, mods, lib, sb, table, asked, last, cmds>>
\* The kernel has recalculated the tags.
RecalcDone ==
  /\ table.type = "integrity" /\ table.spec.mode # "R" /\ sb.recalc
  /\ sb' = [sb EXCEPT !.recalc = FALSE, !.valid = 1..sb.provided]
  /\ UNCHANGED <<kernel, mods, lib, disk, table, asked, last, cmds>>

\* An open or a refresh that returned 0 grants what it was asked for.
Granted(y, op, tgt, flags) ==
  /\ Done(y, op, 0)
  /\ asked' = IF y.ok THEN [tgt |-> tgt, flags |-> flags, size |-> y.tab.size] ELSE asked

\* The volume key goes through the keyring unless the cipher has none.
UseKeyring(tgt, flags) == IF tgt.cipher.c = "cipher_null" THEN flags \ {"keyring"} ELSE flags

\* _create_device and LUKS2_activate on a fresh name.
OpenCrypt(r) ==
  LET tgt == [r.tgt EXCEPT !.tag = IF r.tgt.integ = "NULL" THEN 0 ELSE INTEGRITY_tag_size(r.tgt.integ, r.tgt.cipher)]
      flags == UseKeyring(tgt, r.flags)
  IN ~Active /\ Granted(dm_create_device(Sys, tgt, flags, disk), "open", tgt, flags)

\* A verity device is always read-only; the signature goes through the keyring
\* and only its description into the table.
VERITY_activate(y, tgt, flags) == dm_create_device(y, tgt, flags, disk)
crypt_activate_by_signed_key(y, tgt, flags) == VERITY_activate(y, tgt, flags \union {"readonly"})
OpenVerity(r) ==
  /\ ~Active
  /\ Granted(crypt_activate_by_signed_key(Sys, r.tgt, r.flags), "open", r.tgt, r.flags \union {"readonly"})

OpenIntegrity(r) ==
  LET tgt == _crypt_load_integrity(sb, r.tgt)
  IN /\ ~Active /\ sb.fmt
     /\ Granted(INTEGRITY_activate(Sys, tgt, r.compat, r.flags), "open",
                [type |-> "integrity", tag |-> sb.tag, num |-> tgt.num, alg |-> tgt.alg], r.flags)

Formatted(y, f, wipe, done) == IF y.ok /\ wipe THEN _wipe_data_device(y, f, done) ELSE y
action_format(f, wipe, done) ==
  /\ ~Active
  /\ Done(Formatted(_crypt_format_integrity(Sys, f), f, wipe, done), "format", 0)
  /\ UNCHANGED asked

Refresh(opts) ==
  LET flags == UseKeyring(asked.tgt, opts)
  IN /\ table.type = "crypt"
     /\ Granted(ReloadQueried(Sys, asked.tgt, flags, disk), "refresh",
                asked.tgt, KeepReadonly(flags, asked.flags))

\* What a resize granted: the size, and the recalculation it started.
Resized(r, op) ==
  /\ Done(r.y, op, table.size)
  /\ asked' = [asked EXCEPT
                 !.size = IF r.size THEN r.y.tab.size ELSE @,
                 !.flags = IF r.flags THEN KeepReadonly({"recalculate"}, @) ELSE @]
ResizedTo(y) == Resized([y |-> y, size |-> y.ok, flags |-> FALSE], "resize")
ResizeCrypt(n) == table.type \in {"crypt", "verity"} /\ ResizedTo(crypt_resize(Sys, n))
ResizeOp(wipe) == IF wipe THEN "resize_wipe" ELSE "resize"
ResizeIntegrity(n, wipe, done) ==
  table.type = "integrity" /\ Resized(action_resize(Sys, n, wipe, done), ResizeOp(wipe))

\* crypt_deactivate through crypt_init_by_name, which reads the table.
Known(q) ==
  CASE table.type = "verity" -> _init_by_name_verity(q)
    [] table.type = "integrity" -> _init_by_name_integrity(q)
    [] OTHER -> q.ok
Close ==
  /\ Active /\ Known(dm_target_query(table, sb))
  /\ Done([Sys EXCEPT !.tab = NoTable], "close", 0)
  /\ asked' = NoAsk

Next ==
  \/ NewProcess \/ Rmmod \/ GrowDisk \/ RecalcDone \/ Close
  \/ \E r \in CryptReqs : OpenCrypt(r)
  \/ \E r \in VerityReqs : OpenVerity(r)
  \/ \E r \in IntegrityReqs : OpenIntegrity(r)
  \/ \E f \in Formats, wipe \in BOOLEAN, done \in BOOLEAN : action_format(f, wipe, done)
  \/ \E r \in CryptReqs : Refresh(r.flags)
  \/ \E n \in 0..MaxDisk : ResizeCrypt(n)
  \/ \E n \in 0..MaxDisk, wipe \in BOOLEAN, done \in BOOLEAN : ResizeIntegrity(n, wipe, done)

Spec == Init /\ [][Next]_vars

\* ---------------------------------------------------- properties
\* What a set of options means to the target: the builder resolves options
\* that exclude each other, and the state of a recalculation is the kernel's.
Meaning(type, flags) ==
  CASE type = "verity" -> CorruptionFlags(flags)
    [] type = "integrity" -> ModeFlags(IntegrityMode(flags))
                               \union (flags \intersect {"allow_discards", "readonly"})
    [] OTHER -> flags
\* A parameter the user left to the kernel may be anything.
SameTarget(a, q) ==
  IF a.type # "integrity" THEN a = q
  ELSE /\ crypt_compare_dm_devices(a, q)
       /\ \A f \in NumFields : a.num[f] \in {0, q.num[f]}
\* Options of dm-crypt that may be missing: those the kernel has no support
\* for, and only if it did not take the request as it was.
MayDrop(a) ==
  IF a.tgt.type # "crypt" \/ TableLoad(_create_dm_targets_params(a.tgt, a.flags, a.size), sb) THEN {}
  ELSE {"allow_discards", "keyring", "same_cpu_crypt", "submit_from_crypt_cpus",
        "no_read_workqueue", "no_write_workqueue"} \ Has("crypt")

\* After any sequence of open, refresh and resize (dm_create_device,
\* dm_reload_device, crypt_resize, _reload_device) the live table can be read
\* back, and reads as the target, the options and the size last asked for:
\* nothing is lost on the way through the table's text, and only what the
\* kernel cannot do is left out.
TableAsAsked ==
  Active =>
    LET q == dm_target_query(table, sb)
        want == Meaning(table.type, asked.flags)
        got == Meaning(table.type, q.flags)
    IN /\ q.ok /\ SameTarget(asked.tgt, q.tgt)
       /\ table.size = asked.size
       /\ got \subseteq want
       /\ want \ got \subseteq MayDrop(asked)

\* An integritysetup resize that grew the device and returned 0 leaves no
\* added sector with a tag nobody will write: with --wipe it was wiped, on any
\* kernel; without, the kernel recalculates (action_resize, crypt_resize).
\* Excepted is a resize without --wipe on a target older than 1.2, where
\* dm_reload_device drops the flag and action_resize returns 0 all the same:
\* ResizeRecalculates.
GrownIsProtected ==
  /\ last.ok /\ table.type = "integrity"
  /\ \/ last.op = "resize_wipe"
     \/ last.op = "resize" /\ "recalculate" \in Has("integrity")
  => sb.recalc \/ Added(last.old, table.size) \subseteq sb.valid

\* man/integritysetup.8.adoc:78-79, of resize without --wipe: "After resize, the
\* *recalculating* flag is set."  Of a resize that grew the device and returned
\* 0 (action_resize, dm_reload_device); no kernel is excepted.
ResizeRecalculates ==
  last.op = "resize" /\ last.ok /\ table.type = "integrity"
    => sb.recalc \/ Added(last.old, table.size) \subseteq sb.valid

\* A format on a kernel that can be asked for a target's version uses the fixed
\* padding and the fixed HMAC if the target has them, whatever was probed or
\* loaded before (dm_integrity_target_set, INTEGRITY_format).
FixesUsed ==
  sb.fmt /\ kernel.getver =>
    /\ "legacy_padding" \notin sb.compat /\ "fix_padding" \in Has("integrity") => "fix_padding" \in sb.fix
    /\ "legacy_hmac" \notin sb.compat /\ "fix_hmac" \in Has("integrity") => "fix_hmac" \in sb.fix
====
