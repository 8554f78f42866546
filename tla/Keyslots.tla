------------------------------ MODULE Keyslots ------------------------------
(***************************************************************************)
(* Several library contexts manage the keyslots and tokens of one LUKS2    *)
(* device: the keyslot and token functions of lib/setup.c, the keyslot and *)
(* token code below it, and the commands of src/cryptsetup.c that call it. *)
(*                                                                         *)
(* A context works on its own copy of the document.  A command reads that  *)
(* copy and the keyslot areas, then runs a plan: steps that each change    *)
(* the copy, take the write lock, compare sequence ids, write a keyslot    *)
(* area and the header, and unlock.  One locked section is one action      *)
(* (DeviceLock shows that it excludes readers and other writers) except    *)
(* that the process may be killed, or an I/O may fail, between its area    *)
(* write and its header write.  The header write is atomic: Luks2Header    *)
(* shows that the two copies implement a register.                         *)
(***************************************************************************)
EXTENDS Luks2Json, TLC

CONSTANTS
  Procs,         \* library contexts
  Pass,          \* passphrases
  TokenPass,     \* those that a new token may hold
  VolumeKeys,    \* keys; VK is the one the device was formatted with
  VK,
  InitPass,      \* <<passphrase>> of keyslot 0, 1, ... at the start
  MaxEvents,     \* bound: commands started, kills and I/O errors together
  MaxFaults      \* bound: kills and I/O errors

ASSUME KeyslotsAssumption ==
  /\ VK \in VolumeKeys /\ TokenPass \subseteq Pass
  /\ NoKey \notin VolumeKeys                  \* a digest tells a key from garbage
  /\ InitPass \in Seq(Pass) /\ InitPass # << >>
  /\ Len(InitPass) <= KEYSLOTS_MAX /\ MinOffset + Len(InitPass) <= MaxOffset
  /\ DIGEST_MAX > 0 /\ TOKENS_MAX > 0
  /\ MaxEvents \in Nat /\ MaxFaults \in Nat

VARIABLES
  disk,     \* [doc, seq]: the header on the device
  areas,    \* unit -> what the keyslots area holds there
  ctx,      \* per context: [st, doc, seq, plan]
  salts,    \* salts drawn so far: every keyslot store draws a fresh one
  keep,     \* ghost: sets of <<passphrase, key>>, one of each must work
  revoked,  \* ghost: salts of the keyslots whose removal was acknowledged
  forced,   \* ghost: removal of the last keyslot confirmed, or change in place
  failed,   \* ghost: contexts whose sequence id is ahead after a failed write
  overrun,  \* ghost: one of those has passed the check of the sequence id
  ops, faults

vars == <<disk, areas, ctx, salts, keep, revoked, forced, failed, overrun, ops, faults>>

Slots == 0..(KEYSLOTS_MAX - 1)
Units == MinOffset..(MaxOffset - 1)
KeyLength(k) == IF k = VK THEN 1 ELSE 2
Junk == [salt |-> 0, pass |-> "none", key |-> NoKey, part |-> 0, of |-> 0]
Unloaded == [st |-> "none", doc |-> << >>, seq |-> 0, plan |-> << >>]
------------------------------------------------------------------------------
\* The memory part of one step of a plan.

\* crypt_keyslot_add_by_key and crypt_keyslot_change_by_passphrase: the digest
\* (a new one where d is not there yet), the tokens, then the keyslot itself.
StoreDoc(doc, st) ==
  LET d0 == IF st.digest \in DOMAIN doc.digests THEN doc ELSE LUKS2_digest_create(doc, st.key)
      d1 == LUKS2_digest_assign(d0, st.slot, st.digest, TRUE)
      d2 == IF st.copy = ANY_SLOT THEN d1 ELSE LUKS2_token_assignment_copy(d1, st.copy, st.slot)
      d3 == IF st.token = ANY_TOKEN THEN d2 ELSE LUKS2_token_assign(d2, st.slot, st.token, TRUE)
  IN IF st.slot \in DOMAIN d3.keyslots
       THEN luks2_keyslot_update(d3, st.slot, salts + 1)
       ELSE luks2_keyslot_alloc(d3, st.slot, KeyLength(st.key), salts + 1)

\* Mutant: the keyslots keep their numbers.
SwappedMut(doc, st) == doc
\* luks2_keyslot_wipe and the deletion of the keyslot object, after the swap
\* a changed passphrase asks for.
Swapped(doc, st) == IF st.swap = ANY_SLOT THEN doc ELSE LUKS2_keyslot_swap(doc, st.swap, st.slot)
WipeDoc(doc, st) ==
  IF st.only THEN doc
  ELSE LET d1 == LUKS2_digest_assign(Swapped(doc, st), st.slot, ANY_DIGEST, FALSE)
           d2 == LUKS2_token_assign(d1, st.slot, ANY_TOKEN, FALSE)
       IN [d2 EXCEPT !.keyslots = Without(@, st.slot)]

\* update_volume_key_segment_digest: the default segment gets another digest.
SetKeyDoc(doc, d) ==
  LET seg == LUKS2_get_default_segment(doc)
  IN LUKS2_digest_segment_assign(LUKS2_digest_segment_assign(doc, seg, ANY_DIGEST, FALSE), seg, d, TRUE)

\* LUKS2_token_create: add or replace a token; toks = {} removes it.
TokenDoc(doc, t, toks) ==
  [doc EXCEPT !.tokens = IF toks = {} THEN Without(@, t) ELSE With(@, t, CHOOSE k \in toks : TRUE)]

MemoryChange(doc, st) ==
  CASE st.do = "store"    -> StoreDoc(doc, st)
    [] st.do = "wipe"     -> WipeDoc(doc, st)
    [] st.do = "setkey"   -> SetKeyDoc(doc, st.digest)
    [] st.do = "token"    -> TokenDoc(doc, st.token, st.toks)
    [] st.do = "assign"   -> LUKS2_token_assign(doc, st.slot, st.token, st.assign)
    [] st.do = "priority" -> LUKS2_keyslot_priority_set(doc, st.slot, st.prio)

\* The area part: luks2_keyslot_set_key, or the wipe of the area.
SlotUnits(doc, s) == doc.keyslots[s].off..(doc.keyslots[s].off + doc.keyslots[s].len - 1)
StoreArea(doc, st) ==
  [u \in Units |-> IF u \in SlotUnits(doc, st.slot)
     THEN [salt |-> doc.keyslots[st.slot].salt, pass |-> st.pass, key |-> st.key,
           part |-> u - doc.keyslots[st.slot].off, of |-> doc.keyslots[st.slot].len]
     ELSE areas[u]]
WipeArea(doc, s) == [u \in Units |-> IF u \in SlotUnits(doc, s) THEN Junk ELSE areas[u]]
------------------------------------------------------------------------------
\* What a command decides before its first locked section.

Reads(p) == ctx[p].doc
Ready(p) == ctx[p].st = "idle" /\ ops + faults < MaxEvents
onlyLUKS(doc) == LUKS2_unmet_requirements(doc, {}) = 0

Begin(p, plan) ==
  /\ ctx' = [ctx EXCEPT ![p] = [st |-> "busy", doc |-> ctx[p].doc, seq |-> ctx[p].seq, plan |-> plan]]
  /\ ops' = ops + 1
  /\ UNCHANGED <<disk, areas, salts, keep, revoked, failed, overrun, faults>>

KeyOf(doc, s) == doc.digests[LUKS2_digest_by_keyslot(doc, s)].key
\* The pairs a keyslot holds, and its salt: what removing it takes away.
Holds(doc, s) == {<<x, KeyOf(doc, s)>> : x \in {y \in Pass : s \in LUKS2_keyslot_open(doc, areas, s, ANY_SEGMENT, y)}}
SaltOf(doc, s) == doc.keyslots[s].salt

\* The steps of a plan.  drop, into, gain and revoke feed the ghosts: the pairs
\* the user gives up, what replaces them, what is newly promised, and the salts
\* that must be gone.
StoreStep(s, pass, key, digest, token, copy, drop, into, gain) ==
  [do |-> "store", slot |-> s, pass |-> pass, key |-> key, digest |-> digest,
   token |-> token, copy |-> copy, drop |-> drop, into |-> into, gain |-> gain, revoke |-> {}]
WipeStep(s, only, swap, drop, into, revoke) ==
  [do |-> "wipe", slot |-> s, only |-> only, swap |-> swap,
   drop |-> drop, into |-> into, gain |-> {}, revoke |-> revoke]
SetKeyStep(digest) ==
  [do |-> "setkey", digest |-> digest, drop |-> {}, into |-> {}, gain |-> {}, revoke |-> {}]
TokenStep(t, toks) ==
  [do |-> "token", token |-> t, toks |-> toks, drop |-> {}, into |-> {}, gain |-> {}, revoke |-> {}]
AssignStep(t, s, assign) ==
  [do |-> "assign", token |-> t, slot |-> s, assign |-> assign,
   drop |-> {}, into |-> {}, gain |-> {}, revoke |-> {}]
PriorityStep(s, prio) ==
  [do |-> "priority", slot |-> s, prio |-> prio, drop |-> {}, into |-> {}, gain |-> {}, revoke |-> {}]

\* crypt_load.
Load(p) ==
  /\ ctx[p].st \in {"none", "idle"}
  /\ ctx' = [ctx EXCEPT ![p] = [st |-> "idle", doc |-> disk.doc,
                                seq |-> disk.seq, plan |-> << >>]]
  /\ ctx'[p] # ctx[p]
  /\ failed' = failed \ {p}
  /\ UNCHANGED <<disk, areas, salts, keep, revoked, forced, overrun, ops, faults>>

\* keyslot_verify_or_find_empty: a free keyslot number, asked for or found.
keyslot_verify_or_find_empty(doc, s) ==
  LET n == IF s = ANY_SLOT THEN LUKS2_keyslot_find_empty(doc, 0) ELSE s
  IN IF LUKS2_keyslot_info(doc, n) = "INACTIVE" THEN n ELSE EINVAL

\* The volume key a keyslot context yields: from a passphrase, a token or the
\* key itself (get_luks2_volume_key_by_*).
ContextKeys(doc, kc) ==
  CASE kc.type = "pass"  -> {KeyOf(doc, s) : s \in {r \in LUKS2_keyslot_open(doc, areas, ANY_SLOT, DEFAULT_SEGMENT, kc.pass) : r >= 0}}
    [] kc.type = "token" -> {KeyOf(doc, s) : s \in {r \in LUKS2_token_unlock_key(doc, areas, kc.token, DEFAULT_SEGMENT) : r >= 0}}
    [] kc.type = "key"   -> {kc.key}

\* A device without an active keyslot takes one by the key alone.
KeyContexts(doc) ==
  [type : {"key"}, key : {VK}]
    \cup IF LUKS2_keyslot_active_count(doc, DEFAULT_SEGMENT) = 0 THEN {}
         ELSE [type : {"pass"}, pass : Pass] \cup [type : {"token"}, token : {ANY_TOKEN}]

\* The new keyslot number and the digest it joins; the passphrase is given, or
\* comes from a token that then gets the new keyslot.
crypt_keyslot_add_by_keyslot_context(p, key, new, pass, tok) ==
  LET doc == Reads(p)
      s == keyslot_verify_or_find_empty(doc, new)
      d == LUKS2_digest_by_segment(doc, LUKS2_get_default_segment(doc))
  IN /\ tok # ANY_TOKEN => LUKS2_token_unlock_passphrase(doc, tok) = 0 /\ pass = doc.tokens[tok].pass
     /\ s >= 0 /\ LUKS2_digest_verify_by_digest(doc, d, key) = d
     /\ LUKS2_find_area_gap(doc, KeyLength(key)) >= 0
     /\ Begin(p, <<StoreStep(s, pass, key, d, tok, ANY_SLOT, {}, {}, {{<<pass, key>>}})>>)

\* action_luksAddKey.
AddKey(p) ==
  /\ Ready(p) /\ onlyLUKS(Reads(p))
  /\ \E key \in UNION {ContextKeys(Reads(p), kc) : kc \in KeyContexts(Reads(p))},
        new \in Slots \cup {ANY_SLOT},
        tok \in {ANY_TOKEN} \cup DOMAIN Reads(p).tokens, pass \in Pass :
       crypt_keyslot_add_by_keyslot_context(p, key, new, pass, tok)
  /\ UNCHANGED forced

\* luksAddUnboundKey: CRYPT_VOLUME_KEY_NO_SEGMENT, a key with its own digest.
AddUnboundKey(p) ==
  LET doc == Reads(p) IN
  /\ Ready(p) /\ onlyLUKS(doc)
  /\ \E key \in VolumeKeys \ {VK}, pass \in Pass :
       LET s == keyslot_verify_or_find_empty(doc, ANY_SLOT)
           d == LowestFree(doc.digests, DIGEST_MAX)
       IN /\ s >= 0 /\ d >= 0 /\ LUKS2_find_area_gap(doc, KeyLength(key)) >= 0
          /\ Begin(p, <<StoreStep(s, pass, key, d, ANY_TOKEN, ANY_SLOT, {}, {}, {{<<pass, key>>}})>>)
  /\ UNCHANGED forced

\* verify_and_update_segment_digest (CRYPT_VOLUME_KEY_SET): the key of an
\* existing keyslot becomes the volume key.
SetVolumeKey(p) ==
  LET doc == Reads(p) IN
  /\ Ready(p) /\ onlyLUKS(doc)
  /\ \E s \in DOMAIN doc.keyslots, pass \in Pass :
       /\ s \in LUKS2_keyslot_open(doc, areas, s, ANY_SEGMENT, pass)
       /\ LUKS2_keyslot_for_segment(doc, s, DEFAULT_SEGMENT) # 0
       /\ Begin(p, <<SetKeyStep(LUKS2_digest_by_keyslot(doc, s))>>)
  /\ UNCHANGED forced

\* Through a second keyslot and a swap of the numbers when the keyslot is not
\* given and there is room, else in place.
crypt_keyslot_change_by_passphrase(p, slot, r, old, new) ==
  LET doc == Reads(p)
      d == LUKS2_digest_by_keyslot(doc, r)
      key == KeyOf(doc, r)
      free == LUKS2_keyslot_find_empty(doc, KeyLength(key))
      was == <<old, key>>
      now == <<new, key>>
      second == slot = ANY_SLOT /\ free >= 0
  IN /\ Begin(p,
          IF second
            THEN <<StoreStep(free, new, key, d, ANY_TOKEN, r, {was}, {was, now}, {}),
                   WipeStep(free, FALSE, r, {was}, {now}, {SaltOf(doc, r)})>>
            ELSE <<WipeStep(r, TRUE, ANY_SLOT, {was}, {}, {}),
                   StoreStep(r, new, key, d, ANY_TOKEN, ANY_SLOT, {}, {}, {{now}})>>)
     /\ forced' = (forced \/ ~second)

\* action_luksChangeKey.
ChangeKey(p) ==
  /\ Ready(p) /\ onlyLUKS(Reads(p))
  /\ \E slot \in Slots \cup {ANY_SLOT}, old, new \in Pass :
     \E r \in LUKS2_keyslot_open(Reads(p), areas, slot, ANY_SEGMENT, old) :
       r >= 0 /\ crypt_keyslot_change_by_passphrase(p, slot, r, old, new)

\* action_luksConvertKey: new PBKDF parameters for the same passphrase.
ConvertKey(p) ==
  /\ Ready(p) /\ onlyLUKS(Reads(p))
  /\ \E slot \in DOMAIN Reads(p).keyslots, pass \in Pass :
       /\ slot \in LUKS2_keyslot_open(Reads(p), areas, slot, ANY_SEGMENT, pass)
       /\ crypt_keyslot_change_by_passphrase(p, slot, slot, pass, pass)

\* crypt_keyslot_destroy: no requirement check.
Destroy(doc, s) == WipeStep(s, FALSE, ANY_SLOT, Holds(doc, s), {}, {SaltOf(doc, s)})

\* action_luksRemoveKey: the keyslot a passphrase opens; the last one only
\* after the user confirmed.  crypt_keyslot_destroy ignores requirements.
RemoveKey(p) ==
  LET doc == Reads(p) IN
  /\ Ready(p)
  /\ \E pass \in Pass : \E r \in LUKS2_keyslot_open(doc, areas, ANY_SLOT, DEFAULT_SEGMENT, pass) :
       /\ r >= 0
       /\ Begin(p, <<Destroy(doc, r)>>)
       /\ forced' = (forced \/ LUKS2_keyslot_info(doc, r) = "ACTIVE_LAST")

\* verify_keyslot: the passphrase of the last keyslot itself, of any other
\* active keyslot otherwise; no passphrase at all if there is no other one.
verify_keyslot(doc, s, pass) ==
  LET others == {i \in Slots \ {s} : LUKS2_keyslot_info(doc, i) \in {"ACTIVE", "ACTIVE_LAST"}}
      try == IF LUKS2_keyslot_info(doc, s) = "ACTIVE_LAST" THEN {s} ELSE others
  IN try = {} \/ \E i \in try : i \in LUKS2_keyslot_open(doc, areas, i, DEFAULT_SEGMENT, pass)

\* action_luksKillSlot (batch mode asks for nothing).
KillSlot(p) ==
  LET doc == Reads(p) IN
  /\ Ready(p)
  /\ \E s \in DOMAIN doc.keyslots :
       /\ \E pass \in Pass : verify_keyslot(doc, s, pass)
       /\ Begin(p, <<Destroy(doc, s)>>)
       /\ forced' = (forced \/ LUKS2_keyslot_info(doc, s) = "ACTIVE_LAST")

\* action_luksErase: every active keyslot, one destroy after the other.
Erase(p) ==
  LET doc == Reads(p)
      active == {s \in DOMAIN doc.keyslots : LUKS2_keyslot_info(doc, s) \in {"ACTIVE", "ACTIVE_LAST"}}
  IN /\ Ready(p) /\ active # {}
     /\ \E order \in [1..Cardinality(active) -> active] :
          /\ \A i, j \in DOMAIN order : i < j => order[i] < order[j]
          /\ Begin(p, [i \in DOMAIN order |-> Destroy(doc, order[i])])
     /\ forced' = TRUE

\* _token_add: create the token, then assign it to a keyslot.
TokenAdd(p) ==
  LET doc == Reads(p) IN
  /\ Ready(p) /\ onlyLUKS(doc)
  /\ \E pass \in TokenPass, s \in DOMAIN doc.keyslots :
       LET t == LowestFree(doc.tokens, TOKENS_MAX) IN
       /\ t >= 0
       /\ Begin(p, <<TokenStep(t, {[pass |-> pass, reply |-> 0, keyslots |-> {}]}), AssignStep(t, s, TRUE)>>)
  /\ UNCHANGED forced

\* _token_import without a keyslot.
TokenImport(p) ==
  /\ Ready(p) /\ onlyLUKS(Reads(p))
  /\ \E pass \in TokenPass, t \in 0..(TOKENS_MAX - 1) :
       /\ t \notin DOMAIN Reads(p).tokens
       /\ Begin(p, <<TokenStep(t, {[pass |-> pass, reply |-> 0, keyslots |-> {}]})>>)
  /\ UNCHANGED forced

\* _token_remove.
TokenRemove(p) ==
  /\ Ready(p) /\ onlyLUKS(Reads(p))
  /\ \E t \in DOMAIN Reads(p).tokens :
       Begin(p, <<TokenStep(t, {})>>)
  /\ UNCHANGED forced

\* _token_unassign.
TokenUnassign(p) ==
  /\ Ready(p) /\ onlyLUKS(Reads(p))
  /\ \E t \in DOMAIN Reads(p).tokens, s \in Slots :
       /\ LUKS2_token_is_assigned(Reads(p), s, t) = 0
       /\ Begin(p, <<AssignStep(t, s, FALSE)>>)
  /\ UNCHANGED forced

\* _config_priority, crypt_keyslot_set_priority.
SetPriority(p) ==
  /\ Ready(p) /\ onlyLUKS(Reads(p))
  /\ \E s \in DOMAIN Reads(p).keyslots, prio \in {PRIO_IGNORE, PRIO_NORMAL, PRIO_PREFER} :
       /\ prio # Reads(p).keyslots[s].prio
       /\ Begin(p, <<PriorityStep(s, prio)>>)
  /\ UNCHANGED forced
------------------------------------------------------------------------------
\* The locked sections.

Step(p) == Head(ctx[p].plan)
NewDoc(p) == LUKS2_digests_erase_unused(MemoryChange(ctx[p].doc, Step(p)))
\* Mutant: the sequence ids are not compared.
SequenceIdMatchesMut(p) == TRUE
\* LUKS2_device_write_lock: the header on the device is the one loaded.
SequenceIdMatches(p) == ctx[p].seq = disk.seq

\* A context whose last header write failed passes the check only when another
\* one has written a header under the number it has in memory.
Passes(p) ==
  /\ SequenceIdMatches(p)
  /\ overrun' = (overrun \/ p \in failed)

\* Promises a completed step replaces.
Promised(st) ==
  LET Into(S) == IF st.do = "store" THEN st.into ELSE st.into \cap S
      After(S) == IF S \cap st.drop = {} THEN S ELSE (S \ st.drop) \cup Into(S)
  IN ({After(S) : S \in keep} \ {{}}) \cup st.gain

HdrWritten(doc) == disk' = [doc |-> doc, seq |-> disk.seq + 1]
Advance(p, doc, seq) ==
  LET rest == Tail(ctx[p].plan)
  IN ctx' = [ctx EXCEPT ![p] = [st |-> IF rest = << >> THEN "idle" ELSE "busy",
                                doc |-> doc, seq |-> seq, plan |-> rest]]
Complete(st) ==
  /\ keep' = Promised(st)
  /\ revoked' = revoked \cup st.revoke

\* LUKS2_keyslot_store.
KeyslotStore(p) ==
  /\ ctx[p].st = "busy" /\ Step(p).do = "store" /\ Passes(p)
  /\ LET doc == NewDoc(p) IN
     /\ LUKS2_hdr_validate(doc)
     /\ areas' = StoreArea(doc, Step(p))
     /\ HdrWritten(doc) /\ Advance(p, doc, disk.seq + 1)
  /\ salts' = salts + 1
  /\ Complete(Step(p))
  /\ UNCHANGED <<forced, failed, ops, faults>>

\* LUKS2_keyslot_wipe; the header is not written for the area alone.
KeyslotWipe(p) ==
  /\ ctx[p].st = "busy" /\ Step(p).do = "wipe" /\ Passes(p)
  /\ areas' = WipeArea(Swapped(ctx[p].doc, Step(p)), Step(p).slot)
  /\ LET doc == NewDoc(p) IN
     IF Step(p).only
       THEN UNCHANGED disk /\ Advance(p, ctx[p].doc, ctx[p].seq)
       ELSE HdrWritten(doc) /\ Advance(p, doc, disk.seq + 1)
  /\ Complete(Step(p))
  /\ UNCHANGED <<salts, forced, failed, ops, faults>>

\* LUKS2_hdr_write on its own: tokens, priorities, the segment's digest.
HdrWrite(p) ==
  /\ ctx[p].st = "busy" /\ Step(p).do \notin {"store", "wipe"} /\ Passes(p)
  /\ LET doc == NewDoc(p) IN
     LUKS2_hdr_validate(doc) /\ HdrWritten(doc) /\ Advance(p, doc, disk.seq + 1)
  /\ Complete(Step(p))
  /\ UNCHANGED <<areas, salts, forced, failed, ops, faults>>

\* After an error the adding and changing commands roll the document back
\* (_luks2_rollback); the token, priority and destroy functions keep what they
\* changed in memory before they failed.
AfterError(p, changed, seq) ==
  [ctx EXCEPT ![p] = [st |-> "idle", plan |-> << >>, seq |-> seq,
     doc |-> IF changed /\ Step(p).do # "store" THEN NewDoc(p) ELSE ctx[p].doc]]

\* The sequence id differs, or the new document does not validate.
Refused(p) ==
  /\ ctx[p].st = "busy"
  /\ ~SequenceIdMatches(p) \/ ~LUKS2_hdr_validate(NewDoc(p))
  /\ ctx' = AfterError(p, Step(p).do # "wipe", ctx[p].seq)
  /\ UNCHANGED <<disk, areas, salts, keep, revoked, forced, failed, overrun, ops, faults>>

\* Killed, or failed, in the area write or before the header write is done.
\* A failed header write leaves the sequence id incremented in memory.
WritesHeader(st) == ~(st.do = "wipe" /\ st.only)
Interrupted(p) ==
  /\ ctx[p].st = "busy" /\ Passes(p)
  /\ faults < MaxFaults /\ ops + faults < MaxEvents
  /\ faults' = faults + 1
  /\ \/ /\ Step(p).do = "store"
        /\ areas' \in {StoreArea(NewDoc(p), Step(p)), WipeArea(NewDoc(p), Step(p).slot)}
        /\ salts' = salts + 1
        /\ UNCHANGED keep
     \/ /\ Step(p).do = "wipe"
        /\ areas' = WipeArea(Swapped(ctx[p].doc, Step(p)), Step(p).slot)
        /\ keep' = Promised(Step(p))
        /\ UNCHANGED salts
     \/ /\ Step(p).do \notin {"store", "wipe"}
        /\ UNCHANGED <<areas, salts, keep>>
  /\ \/ ctx' = [ctx EXCEPT ![p] = Unloaded] /\ failed' = failed \ {p}
     \/ WritesHeader(Step(p)) /\ ctx' = AfterError(p, TRUE, ctx[p].seq + 1) /\ failed' = failed \cup {p}
     \/ Step(p).do \in {"store", "wipe"} /\ ctx' = AfterError(p, FALSE, ctx[p].seq) /\ UNCHANGED failed
  /\ UNCHANGED <<disk, revoked, forced, ops>>
------------------------------------------------------------------------------
\* The device as luksFormat and luksAddKey leave it.
InitDoc ==
  [keyslots |-> [s \in 0..(Len(InitPass) - 1) |->
     [off |-> MinOffset + s, len |-> KeyLength(VK), salt |-> s + 1, prio |-> PRIO_NORMAL, type |-> "luks2"]],
   digests |-> [d \in {0} |-> [key |-> VK, keyslots |-> 0..(Len(InitPass) - 1), segments |-> {0}]],
   tokens |-> [t \in {0} |-> [pass |-> InitPass[1], reply |-> 0, keyslots |-> {0}]],
   requirements |-> {},
   segments |-> LUKS2_generate_hdr(VK).segments]

Init ==
  /\ \E reqs \in {{}, {"online-reencrypt-v9"}} :
       disk = [doc |-> [InitDoc EXCEPT !.requirements = reqs], seq |-> 1]
  /\ areas = [u \in Units |->
       IF u - MinOffset < Len(InitPass)
         THEN [salt |-> u - MinOffset + 1, pass |-> InitPass[u - MinOffset + 1], key |-> VK, part |-> 0, of |-> 1]
         ELSE Junk]
  /\ ctx = [p \in Procs |-> Unloaded]
  /\ salts = Len(InitPass)
  /\ keep = {{<<InitPass[i], VK>>} : i \in DOMAIN InitPass}
  /\ revoked = {} /\ forced = FALSE /\ failed = {} /\ overrun = FALSE /\ ops = 0 /\ faults = 0

Next == \E p \in Procs :
  \/ Load(p)
  \/ AddKey(p) \/ AddUnboundKey(p) \/ SetVolumeKey(p)
  \/ ChangeKey(p) \/ ConvertKey(p)
  \/ RemoveKey(p) \/ KillSlot(p) \/ Erase(p)
  \/ TokenAdd(p) \/ TokenImport(p) \/ TokenRemove(p) \/ TokenUnassign(p) \/ SetPriority(p)
  \/ KeyslotStore(p) \/ KeyslotWipe(p) \/ HdrWrite(p)
  \/ Refused(p) \/ Interrupted(p)

Spec == Init /\ [][Next]_vars
------------------------------------------------------------------------------
\* Properties.

\* The document handed to the next header write always passes the library's
\* own validation: no operation, on whatever copy it works and whatever failed
\* before, computes overlapping areas, a dangling reference, a keyslot without
\* exactly one digest or a data segment without a key.
PendingValid ==
  \A p \in Procs : ctx[p].st = "busy" => LUKS2_hdr_validate(NewDoc(p))

Works(pair) == \E s \in DOMAIN disk.doc.keyslots :
  /\ s \in LUKS2_keyslot_open(disk.doc, areas, s, ANY_SEGMENT, pair[1])
  /\ KeyOf(disk.doc, s) = pair[2]

\* A passphrase whose keyslot was acknowledged keeps opening its key until
\* somebody asks for its removal, through commands of stale contexts, kills
\* and failed writes; while luksChangeKey works through a second keyslot the
\* old or the new passphrase works at every instant.  (A context that goes on
\* after a failed header write, under a sequence id that another one has used
\* meanwhile, writes its old document over the other's: overrun.)
PromisesKept == overrun \/ \A S \in keep : \E pair \in S : Works(pair)

\* Once a removal or a change was acknowledged, no unit of the keyslots area
\* holds material of the keyslot it removed.
RevokedIsGone == \A u \in Units : areas[u].salt \notin revoked

\* Two removals that each see another keyslot cannot together take away the
\* last one that opens the data: without a fault somebody must have confirmed
\* the removal of the last keyslot or have changed a passphrase in place.  (A
\* removal killed between area and header leaves a dead keyslot that the next
\* command still counts as active.)
LastKeyslotConfirmed ==
  \/ forced \/ faults > 0
  \/ \E s \in DOMAIN disk.doc.keyslots, x \in Pass :
       s \in LUKS2_keyslot_open(disk.doc, areas, s, DEFAULT_SEGMENT, x)

\* A passphrase changed through a second keyslot ends under its old keyslot
\* number, with the tokens of that number, and leaves no second keyslot.
ChangeKeepsPlace ==
  [][\A p \in Procs :
       (ctx[p].st = "busy" /\ Step(p).do = "wipe" /\ Step(p).swap # ANY_SLOT
        /\ KeyslotWipe(p) /\ ~overrun') =>
         /\ Step(p).slot \notin DOMAIN disk'.doc.keyslots
         /\ \A pair \in Step(p).into :
              {pair} \in keep' => Step(p).swap \in LUKS2_keyslot_open(disk'.doc, areas', Step(p).swap, ANY_SEGMENT, pair[1])
         /\ \A t \in DOMAIN disk.doc.tokens :
              LUKS2_token_is_assigned(disk'.doc, Step(p).swap, t) =
              LUKS2_token_is_assigned(disk.doc, Step(p).swap, t)]_vars

\* A device with a requirement this library does not know is never changed,
\* except that keyslots may be removed from it (or, once overrun, come back).
UnknownRequirementRespected ==
  [][("UNKNOWN" \in LUKS2_config_get_requirements(disk.doc) /\ disk' # disk /\ ~overrun') =>
       /\ DOMAIN disk'.doc.keyslots \subseteq DOMAIN disk.doc.keyslots
       /\ \A s \in DOMAIN disk'.doc.keyslots : disk'.doc.keyslots[s] = disk.doc.keyslots[s]
       /\ disk'.doc.segments = disk.doc.segments
       /\ disk'.doc.requirements = disk.doc.requirements]_vars

TypeOK ==
  /\ DOMAIN disk.doc.keyslots \subseteq Slots
  /\ DOMAIN disk.doc.digests \subseteq 0..(DIGEST_MAX - 1)
  /\ DOMAIN disk.doc.tokens \subseteq 0..(TOKENS_MAX - 1)
  /\ disk.seq \in Nat /\ DOMAIN areas = Units /\ salts \in Nat
  /\ \A p \in Procs : ctx[p].st \in {"none", "idle", "busy"}
  /\ forced \in BOOLEAN /\ ops \in 0..MaxEvents /\ faults \in 0..MaxFaults
==============================================================================
