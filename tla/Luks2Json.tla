------------------------------ MODULE Luks2Json ------------------------------
(***************************************************************************)
(* The LUKS2 metadata document and the functions that read it, change it   *)
(* in memory and validate it (lib/luks2/luks2_keyslot.c, luks2_digest.c,   *)
(* luks2_token.c, luks2_json_format.c, luks2_json_metadata.c).             *)
(*                                                                         *)
(* A document is a record                                                  *)
(*   keyslots      slot number -> [off, len, salt, prio, type]             *)
(*   digests       digest id -> [key, keyslots, segments]                  *)
(*   tokens        token id -> [pass, reply, keyslots]                     *)
(*   segments      segment id -> [off, len, crypt, flags, cipher]          *)
(*   requirements  the mandatory requirements of the config section        *)
(* Offsets and lengths of keyslot areas count the 4096-byte units of the   *)
(* binary keyslots area; `areas' maps each unit to what is stored there.   *)
(* A digest is represented by the key it verifies, a token by what its     *)
(* handler replies: 0 and a passphrase, or an error.  JSON objects are iterated in the order *)
(* in which their members were added, which the document does not keep: a  *)
(* function whose answer depends on it is a set of outcomes.               *)
(***************************************************************************)
EXTENDS Integers, FiniteSets, Sequences, SequencesExt, Functions

CONSTANTS
  KEYSLOTS_MAX,   \* LUKS2_KEYSLOTS_MAX
  TOKENS_MAX,     \* LUKS2_TOKENS_MAX
  DIGEST_MAX,     \* LUKS2_DIGEST_MAX
  MinOffset,      \* get_min_offset: first unit after both header copies
  MaxOffset       \* get_max_offset: end of the keyslots area

ASSUME LimitsAssumption ==
  /\ KEYSLOTS_MAX \in Nat /\ TOKENS_MAX \in Nat /\ DIGEST_MAX \in Nat
  /\ MinOffset \in Nat \ {0} /\ MaxOffset \in Nat /\ MinOffset < MaxOffset

EPERM  == -1
ENOENT == -2
EAGAIN == -11
EINVAL == -22
ENOSPC == -28
ENOANO == -55
ETXTBSY == -26

ANY_SLOT == -1
ANY_TOKEN == -1
ANY_DIGEST == -1
ANY_SEGMENT == -1
DEFAULT_SEGMENT == -2

PRIO_IGNORE == 0
PRIO_NORMAL == 1
PRIO_PREFER == 2

\* The error r, or v when r is none.
OnSuccess(r, v) == IF r < 0 THEN r ELSE v

\* f without the argument x: json_object_object_del.
Without(f, x) == [y \in DOMAIN f \ {x} |-> f[y]]
\* f with x mapped to v: json_object_object_add.
With(f, x, v) == [y \in DOMAIN f \cup {x} |-> IF y = x THEN v ELSE f[y]]
\* The lowest number below max that is not in use.
LowestFree(f, max) ==
  LET free == {i \in 0..(max - 1) : i \notin DOMAIN f}
  IN IF free = {} THEN EINVAL ELSE CHOOSE i \in free : \A j \in free : i <= j
------------------------------------------------------------------------------
\* Room in the keyslots area.

\* The selection sort of the searches.
SortedAreas(doc) ==
  SetToSortSeq({doc.keyslots[s] : s \in DOMAIN doc.keyslots},
               LAMBDA a, b : a.off < b.off)

\* First fit: the loop over the sorted areas, which do not overlap, stops at the
\* lowest offset, at the start or behind an area, where len units are free.
LUKS2_find_area_gap(doc, len) ==
  LET ks == doc.keyslots
      ends == {ks[s].off + ks[s].len : s \in DOMAIN ks}
      fits == {o \in {MinOffset} \cup ends :
                 /\ o + len <= MaxOffset
                 /\ \A s \in DOMAIN ks : o + len <= ks[s].off \/ ks[s].off + ks[s].len <= o}
  IN IF fits = {} THEN EINVAL ELSE CHOOSE o \in fits : \A x \in fits : o <= x

\* The first of the largest gaps, as [off, len]; len = 0 is "no space".
LUKS2_find_area_max_gap(doc) ==
  LET Step(at, a) ==
        [off |-> a.off + a.len,
         gap |-> IF at.off < a.off /\ a.off - at.off > at.gap.len
                   THEN [off |-> at.off, len |-> a.off - at.off] ELSE at.gap]
      end == [off |-> MaxOffset, len |-> 1]
  IN FoldLeft(Step, [off |-> MinOffset, gap |-> [off |-> 0, len |-> 0]],
              Append(SortedAreas(doc), end)).gap

LUKS2_keyslot_find_empty(doc, keylength) ==
  LET i == LowestFree(doc.keyslots, KEYSLOTS_MAX)
  IN IF i < 0 THEN EINVAL
     ELSE IF keylength > 0 /\ LUKS2_find_area_gap(doc, keylength) < 0 THEN ENOSPC
     ELSE i
------------------------------------------------------------------------------
\* Digests: which key a keyslot holds and which segment a key decrypts.

LUKS2_digest_by_keyslot(doc, s) ==
  LET ds == {d \in DOMAIN doc.digests : s \in doc.digests[d].keyslots}
  IN IF ds = {} THEN ENOENT ELSE CHOOSE d \in ds : TRUE

LUKS2_digest_by_segment(doc, seg) ==
  LET ds == {d \in DOMAIN doc.digests : seg \in doc.digests[d].segments}
  IN IF ds = {} THEN ENOENT ELSE CHOOSE d \in ds : TRUE

LUKS2_digest_verify_by_digest(doc, d, key) ==
  IF d \notin DOMAIN doc.digests THEN EINVAL
  ELSE IF doc.digests[d].key = key THEN d ELSE EPERM

VerifyFound(doc, d, key) == OnSuccess(d, LUKS2_digest_verify_by_digest(doc, d, key))
LUKS2_digest_verify(doc, key, s) == VerifyFound(doc, LUKS2_digest_by_keyslot(doc, s), key)

LUKS2_digest_any_matching(doc, key) ==
  LET ds == {d \in DOMAIN doc.digests : doc.digests[d].key = key}
  IN IF ds = {} THEN ENOENT ELSE CHOOSE d \in ds : \A e \in ds : d <= e

\* A digest of `key' under a free id, referenced by nothing yet.
LUKS2_digest_create(doc, key) ==
  [doc EXCEPT !.digests =
     With(doc.digests, LowestFree(doc.digests, DIGEST_MAX),
          [key |-> key, keyslots |-> {}, segments |-> {}])]

\* Keyslot s joins (assign) or leaves digest d, or every digest.
LUKS2_digest_assign(doc, s, d, assign) ==
  [doc EXCEPT !.digests = [e \in DOMAIN doc.digests |->
     IF d \in {e, ANY_DIGEST}
       THEN [doc.digests[e] EXCEPT !.keyslots = IF assign THEN @ \cup {s} ELSE @ \ {s}]
       ELSE doc.digests[e]]]

\* A segment joins or leaves digest d, or every digest.
LUKS2_digest_segment_assign(doc, seg, d, assign) ==
  [doc EXCEPT !.digests = [e \in DOMAIN doc.digests |->
     IF d \in {e, ANY_DIGEST}
       THEN [doc.digests[e] EXCEPT !.segments = IF assign THEN @ \cup {seg} ELSE @ \ {seg}]
       ELSE doc.digests[e]]]

digest_unused(dig) == dig.keyslots = {} /\ dig.segments = {}

\* Every header write first drops the digests nothing refers to.
LUKS2_digests_erase_unused(doc) ==
  [doc EXCEPT !.digests =
     Restrict(doc.digests, {d \in DOMAIN doc.digests : ~digest_unused(doc.digests[d])})]
------------------------------------------------------------------------------
\* Segments and requirements.

json_segment_is_backup(seg) ==
  seg.flags \cap {"backup-final", "backup-previous", "backup-moved-segment"} # {}
json_segments_count(doc) ==
  Cardinality({i \in DOMAIN doc.segments : ~json_segment_is_backup(doc.segments[i])})

\* The segment new keyslots belong to: the final one of a reencryption, else 0.
LUKS2_get_default_segment(doc) ==
  LET final == {i \in DOMAIN doc.segments : "backup-final" \in doc.segments[i].flags}
  IN IF final # {} THEN CHOOSE i \in final : TRUE
     ELSE IF json_segments_count(doc) >= 1 THEN 0 ELSE EINVAL

OnlineFlags == {"online-reencrypt", "online-reencrypt-v2", "online-reencrypt-v3"}
reencrypt_candidate_flag(f) == f \in OnlineFlags \cup {"online-reencrypt-v9"}
get_requirement_by_name(f) ==
  CASE f \in OnlineFlags -> "ONLINE"
    [] f = "offline-reencrypt" -> "OFFLINE"
    [] OTHER -> "UNKNOWN"
LUKS2_config_get_requirements(doc) == {get_requirement_by_name(f) : f \in doc.requirements}

\* 0 when nothing but the masked requirements is set.
LUKS2_unmet_requirements(doc, mask) ==
  LET reqs == LUKS2_config_get_requirements(doc)
  IN IF "UNKNOWN" \in reqs THEN ETXTBSY ELSE IF reqs \ mask # {} THEN EINVAL ELSE 0
------------------------------------------------------------------------------
\* What a keyslot is good for.

SameDigest(d, e) == OnSuccess(d, IF d = e THEN 1 ELSE 0)
_keyslot_for_segment(doc, s, seg) ==
  SameDigest(LUKS2_digest_by_keyslot(doc, s), LUKS2_digest_by_segment(doc, seg))

\* 0 when the keyslot holds the key of the segment.
IfAny(count) == OnSuccess(count, IF count >= 1 THEN 0 ELSE ENOENT)
KeyslotForSegment(doc, s, seg) == OnSuccess(seg, IfAny(_keyslot_for_segment(doc, s, seg)))
LUKS2_keyslot_for_segment(doc, s, seg) ==
  IF seg = ANY_SEGMENT THEN 0
  ELSE KeyslotForSegment(doc, s, IF seg = DEFAULT_SEGMENT THEN LUKS2_get_default_segment(doc) ELSE seg)

LUKS2_keyslot_active_count(doc, seg) ==
  Cardinality({s \in DOMAIN doc.keyslots : LUKS2_keyslot_for_segment(doc, s, seg) = 0})

LUKS2_keyslot_unbound(doc, s) ==
  LET d == LUKS2_digest_by_keyslot(doc, s) IN d >= 0 /\ doc.digests[d].segments = {}

LUKS2_keyslot_info(doc, s) ==
  IF s \notin 0..(KEYSLOTS_MAX - 1) THEN "INVALID"
  ELSE IF s \notin DOMAIN doc.keyslots THEN "INACTIVE"
  ELSE IF LUKS2_digest_by_keyslot(doc, s) < 0 \/ LUKS2_keyslot_unbound(doc, s) THEN "UNBOUND"
  ELSE IF LUKS2_keyslot_active_count(doc, DEFAULT_SEGMENT) = 1
            /\ LUKS2_keyslot_for_segment(doc, s, DEFAULT_SEGMENT) = 0 THEN "ACTIVE_LAST"
  ELSE "ACTIVE"

LUKS2_keyslot_priority_get(doc, s) ==
  IF s \in DOMAIN doc.keyslots THEN doc.keyslots[s].prio ELSE -1
------------------------------------------------------------------------------
\* Opening a keyslot: the area is decrypted with the key derived from the
\* passphrase and the keyslot's salt, merged, and verified by the digest.

\* What the area of a keyslot yields for a passphrase: NoKey stands for the
\* random looking candidate of a wrong passphrase or of a damaged area.
NoKey == "garbage"
luks2_keyslot_get_key(doc, areas, s, pass) ==
  LET k == doc.keyslots[s]
      units == k.off..(k.off + k.len - 1)
  IN IF /\ \A u \in units : areas[u].salt = k.salt /\ areas[u].pass = pass
        /\ \A u \in units : areas[u].part = u - k.off /\ areas[u].of = k.len
       THEN areas[k.off].key ELSE NoKey

_open_and_verify(doc, areas, s, pass) ==
  OnSuccess(LUKS2_digest_verify(doc, luks2_keyslot_get_key(doc, areas, s, pass), s), s)

LUKS2_open_and_verify(doc, areas, s, seg, pass) ==
  IF s \notin DOMAIN doc.keyslots THEN ENOENT
  ELSE IF doc.keyslots[s].type # "luks2" THEN ENOENT
  ELSE OnSuccess(LUKS2_keyslot_for_segment(doc, s, seg), _open_and_verify(doc, areas, s, pass))

\* The outcomes of trying every keyslot of one priority: the first one that
\* opens ends the loop, otherwise the result is that of the last one tried.
LoopResults(res) ==
  LET stops == res \ {EPERM, ENOENT}
  IN IF res = {} THEN {ENOENT} ELSE IF stops # {} THEN stops ELSE res
LUKS2_keyslot_open_priority(doc, areas, prio, seg, pass) ==
  LoopResults({LUKS2_open_and_verify(doc, areas, s, seg, pass) :
                 s \in {t \in DOMAIN doc.keyslots : doc.keyslots[t].prio = prio}})

LUKS2_keyslot_open(doc, areas, s, seg, pass) ==
  IF s # ANY_SLOT THEN {LUKS2_open_and_verify(doc, areas, s, seg, pass)}
  ELSE UNION {IF p \notin {EPERM, ENOENT} THEN {p}
              ELSE {IF p = EPERM /\ r = ENOENT THEN p ELSE r :
                      r \in LUKS2_keyslot_open_priority(doc, areas, PRIO_NORMAL, seg, pass)} :
                p \in LUKS2_keyslot_open_priority(doc, areas, PRIO_PREFER, seg, pass)}

------------------------------------------------------------------------------
\* Changes of the keyslots section in memory.

\* luks2_keyslot_alloc: room in the area, a fresh salt, normal priority.
luks2_keyslot_alloc(doc, s, len, salt) ==
  [doc EXCEPT !.keyslots = With(@, s,
     [off |-> LUKS2_find_area_gap(doc, len), len |-> len, salt |-> salt,
      prio |-> PRIO_NORMAL, type |-> "luks2"])]

\* luks2_keyslot_update: new PBKDF parameters and salt, same area.
luks2_keyslot_update(doc, s, salt) ==
  [doc EXCEPT !.keyslots = With(@, s, [@[s] EXCEPT !.salt = salt])]

LUKS2_keyslot_priority_set(doc, s, prio) ==
  [doc EXCEPT !.keyslots = With(@, s, [@[s] EXCEPT !.prio = prio])]

\* Both keyslot objects change their number; references by number stay.
LUKS2_keyslot_swap(doc, s, t) ==
  [doc EXCEPT !.keyslots = With(With(@, s, @[t]), t, @[s])]
------------------------------------------------------------------------------
\* Tokens.

\* Keyslot s joins or leaves token t, or every token.
LUKS2_token_assign(doc, s, t, assign) ==
  [doc EXCEPT !.tokens = [u \in DOMAIN doc.tokens |->
     IF t \in {u, ANY_TOKEN}
       THEN [doc.tokens[u] EXCEPT !.keyslots = IF assign THEN @ \cup {s} ELSE @ \ {s}]
       ELSE doc.tokens[u]]]

LUKS2_token_is_assigned(doc, s, t) ==
  IF t \in DOMAIN doc.tokens /\ s \in doc.tokens[t].keyslots THEN 0 ELSE ENOENT

LUKS2_token_assignment_copy(doc, from, to) ==
  [doc EXCEPT !.tokens = [u \in DOMAIN doc.tokens |->
     IF LUKS2_token_is_assigned(doc, from, u) = 0
       THEN [doc.tokens[u] EXCEPT !.keyslots = @ \cup {to}] ELSE doc.tokens[u]]]

OrNoEntry(res) == IF res = {} THEN {ENOENT} ELSE res
token_is_usable(doc, tok, seg, prio) ==
  LET good == {s \in tok.keyslots : LUKS2_keyslot_priority_get(doc, s) >= prio}
  IN IF \E s \in tok.keyslots : LUKS2_keyslot_priority_get(doc, s) < 0 THEN {EINVAL}
     ELSE OrNoEntry({LUKS2_keyslot_for_segment(doc, s, seg) : s \in good} \ {ENOENT})

\* What the handler returned: 0, or the error it is translated to (a wrong
\* value or EPERM of an external handler means "not usable").
translate_errno(reply) == IF reply > 0 \/ reply \in {EINVAL, EPERM} THEN ENOENT ELSE reply

token_open(doc, t, seg, prio) ==
  {OnSuccess(r, translate_errno(doc.tokens[t].reply)) :
     r \in token_is_usable(doc, doc.tokens[t], seg, prio)}

break_loop_retval(r) == r \notin {ENOENT, EPERM, EAGAIN, ENOANO}

\* The most significant error seen so far.
update_return_errno(r, stored) ==
  CASE stored = ENOANO -> stored
    [] r = ENOANO -> r
    [] r = EAGAIN -> r
    [] r = EPERM /\ stored # EAGAIN -> r
    [] OTHER -> stored

\* The keyslots of a token at or above a priority, opened with its passphrase.
PreferEPERM(res) == IF EPERM \in res THEN {EPERM} ELSE res
LUKS2_keyslot_open_by_token(doc, areas, t, seg, prio) ==
  LET good == {s \in doc.tokens[t].keyslots : LUKS2_keyslot_priority_get(doc, s) >= prio}
  IN PreferEPERM(LoopResults(
       {LUKS2_open_and_verify(doc, areas, s, seg, doc.tokens[t].pass) : s \in good}))

\* One token: its handler, then its keyslots.
TokenTry(doc, areas, t, seg, prio) ==
  UNION {IF r < 0 THEN {r} ELSE LUKS2_keyslot_open_by_token(doc, areas, t, seg, prio) :
           r \in token_open(doc, t, seg, prio)}

\* All tokens not blocked, in every order: <<result, stored error, blocked>>.
MergeTries(tries, stored, blocked) ==
  LET Fatal == {r \in UNION Range(tries) : break_loop_retval(r)}
      All == {f \in [DOMAIN tries -> {ENOENT, EPERM, EAGAIN, ENOANO}] : \A t \in DOMAIN f : f[t] \in tries[t]}
      Merge(f) == FoldFunction(update_return_errno, stored, f)
  IN IF Fatal # {} THEN {<<r, stored, blocked>> : r \in Fatal}
     ELSE {<<Merge(f), Merge(f), blocked \cup {t \in DOMAIN f : f[t] = ENOANO}>> : f \in All}
token_open_priority(doc, areas, seg, prio, stored, blocked) ==
  MergeTries([t \in DOMAIN doc.tokens \ blocked |-> TokenTry(doc, areas, t, seg, prio)], stored, blocked)

\* CRYPT_ANY_TOKEN: tokens with a preferred keyslot first, then normal ones.
token_open_any(doc, areas, seg) ==
  LET Round(S, prio) ==
        UNION {IF break_loop_retval(p[1]) THEN {p}
               ELSE token_open_priority(doc, areas, seg, prio, p[2], p[3]) : p \in S}
  IN {p[1] : p \in FoldLeft(Round, {<<ENOENT, ENOENT, {}>>}, <<PRIO_PREFER, PRIO_NORMAL>>)}

LUKS2_token_unlock_key(doc, areas, t, seg) ==
  IF t = ANY_TOKEN THEN token_open_any(doc, areas, seg)
  ELSE IF t \in DOMAIN doc.tokens THEN TokenTry(doc, areas, t, seg, PRIO_IGNORE)
  ELSE {ENOENT}

\* The passphrase of a token whether or not a keyslot is assigned to it.
LUKS2_token_unlock_passphrase(doc, t) ==
  IF t \in DOMAIN doc.tokens THEN translate_errno(doc.tokens[t].reply) ELSE ENOENT
------------------------------------------------------------------------------
\* Validation, one operator per check of LUKS2_hdr_validate.

hdr_validate_requirements(doc) ==
  Cardinality({f \in doc.requirements : reencrypt_candidate_flag(f)}) <= 1

hdr_validate_tokens(doc) ==
  \A t \in DOMAIN doc.tokens : doc.tokens[t].keyslots \subseteq DOMAIN doc.keyslots

hdr_validate_digests(doc) ==
  \A d \in DOMAIN doc.digests :
    /\ doc.digests[d].keyslots \subseteq DOMAIN doc.keyslots
    /\ doc.digests[d].segments \subseteq DOMAIN doc.segments

segment_has_digest(doc, i) == \E d \in DOMAIN doc.digests : i \in doc.digests[d].segments
hdr_validate_crypt_segment(doc, i) == doc.segments[i].crypt => segment_has_digest(doc, i)

\* Regular segments 0..n-1: only the last may be dynamic (len 0), no overlap.
validate_segment_intervals(doc, n) ==
  LET sg == doc.segments IN
  /\ \A i \in 0..(n - 2) : sg[i].len # 0
  /\ \A i, j \in 0..(n - 1) :
       i # j => ~(sg[i].off >= sg[j].off /\ (sg[j].len = 0 \/ sg[i].off < sg[j].off + sg[j].len))

\* With the online requirement both backup segments exist and every regular
\* segment looks like one of them.
validate_reencrypt_segments(doc, n) ==
  LET back(f) == {i \in DOMAIN doc.segments : i >= n /\ f \in doc.segments[i].flags}
      same(i, f) == \E b \in back(f) : doc.segments[b].crypt = doc.segments[i].crypt
                                       /\ doc.segments[b].cipher = doc.segments[i].cipher
  IN "ONLINE" \in LUKS2_config_get_requirements(doc) =>
       /\ back("backup-final") # {} /\ back("backup-previous") # {}
       /\ \A i \in 0..(n - 1) : IF "in-reencryption" \in doc.segments[i].flags
                                  THEN same(i, "backup-final")
                                  ELSE same(i, "backup-final") \/ same(i, "backup-previous")

\* Segments are numbered without a gap, the regular ones before the backups.
hdr_validate_segments(doc) ==
  LET n == json_segments_count(doc) IN
  /\ n >= 1
  /\ DOMAIN doc.segments = 0..(Cardinality(DOMAIN doc.segments) - 1)
  /\ \A i \in 0..(n - 1) : ~json_segment_is_backup(doc.segments[i])
  /\ \A i \in DOMAIN doc.segments : hdr_validate_crypt_segment(doc, i)
  /\ validate_segment_intervals(doc, n)
  /\ validate_reencrypt_segments(doc, n)

validate_intervals(ks) ==
  \A i \in DOMAIN ks :
    /\ ks[i].off >= MinOffset
    /\ ks[i].len # 0
    /\ ks[i].off + ks[i].len <= MaxOffset
    /\ \A j \in DOMAIN ks \ {i} : ~(ks[i].off >= ks[j].off /\ ks[i].off < ks[j].off + ks[j].len)

hdr_validate_areas(doc) == validate_intervals(doc.keyslots)

\* The keyslots area fits before the lowest segment (offset 0: detached header).
hdr_validate_config(doc) ==
  \A i \in DOMAIN doc.segments : doc.segments[i].off = 0 \/ doc.segments[i].off >= MaxOffset

LUKS2_keyslots_validate(doc) ==
  LET reenc == {s \in DOMAIN doc.keyslots : doc.keyslots[s].type = "reencrypt"} IN
  /\ \A s \in DOMAIN doc.keyslots \ reenc :
       Cardinality({d \in DOMAIN doc.digests : s \in doc.digests[d].keyslots}) = 1
  /\ "ONLINE" \in LUKS2_config_get_requirements(doc) => reenc # {}
  /\ reenc # {} => \E f \in doc.requirements : reencrypt_candidate_flag(f)
  /\ Cardinality(reenc) <= 1

LUKS2_hdr_validate(doc) ==
  /\ hdr_validate_requirements(doc)
  /\ hdr_validate_tokens(doc)
  /\ hdr_validate_digests(doc)
  /\ hdr_validate_segments(doc)
  /\ hdr_validate_config(doc)
  /\ hdr_validate_areas(doc)
  /\ LUKS2_keyslots_validate(doc)
------------------------------------------------------------------------------
\* LUKS2_generate_hdr: no keyslots, the volume key's digest on segment 0.
LUKS2_generate_hdr(key) ==
  [keyslots |-> << >>, tokens |-> << >>, requirements |-> {},
   digests |-> [d \in {0} |-> [key |-> key, keyslots |-> {}, segments |-> {0}]],
   segments |-> [i \in {0} |-> [off |-> MaxOffset, len |-> 0, crypt |-> TRUE,
                                flags |-> {}, cipher |-> "data"]]]
==============================================================================
