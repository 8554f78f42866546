------------------------- MODULE ReencryptInitProofs -------------------------
(***************************************************************************)
(* The safety properties of ReencryptInit for every value of its           *)
(* constants: any number of passphrases and keyslots, of commands, faults  *)
(* and kills.                                                              *)
(*   ReencryptionFollowsMove   the metadata never run ahead of the data    *)
(*   StoredDigestVerifies      the metadata on disk verify                 *)
(*   DataIsSafe                the data and a header with every passphrase *)
(*                             stay                                        *)
(*   EveryPassphraseOpens      a new volume key is under every passphrase  *)
(*   FailureIsClean            a command that fails leaves what it found   *)
(* Each rests on an inductive invariant of its own: FlowInv (where each    *)
(* command is, what it has moved and mapped), DigestInv, SafeInv, KeysInv  *)
(* and CleanInv.                                                           *)
(***************************************************************************)
EXTENDS ReencryptInit, FiniteSetTheorems, NaturalsInduction, TLAPS

HeaderInFile == {"encrypt_hdr", "decrypt", "decrypt_hdr"}

\* Which command is at which place, and on which header it works.
PlaceInv ==
  /\ proc.pc \in EncryptPcs => scenario \in {"encrypt", "encrypt_hdr"} /\ proc.md = "file"
  /\ proc.pc = "e_restore" => scenario = "encrypt"
  /\ proc.pc \in DecryptPcs => scenario = "decrypt" /\ proc.md = "file"
  /\ proc.pc \in ReencryptPcs => scenario = "reencrypt" /\ proc.md = "dev"
  /\ proc.pc = "i_flag" => scenario = "decrypt_hdr" /\ proc.md = "file"
  /\ proc.pc = "repair" => scenario = "legacy" /\ proc.md = "dev"
  /\ proc.pc = "load" => proc.md = IF scenario \in HeaderInFile THEN "file" ELSE "dev"
  /\ proc.pc # "idle" => proc.op \in Op(scenario) /\ commands > 0
  /\ file.st # "ok" => file.hdr.req = 0
  /\ scenario = "decrypt_hdr" => file.st = "ok"
  /\ scenario = "legacy" => dev.req > 0
  /\ scenario \in {"reencrypt", "legacy"} => head = "hdr"

\* In-place encryption: the head of the data is copied before anything says so.
EncryptInv ==
  scenario = "encrypt" =>
    /\ head \in {"data", "hdr", "junk"} /\ dm.live # "new"
    /\ head = "data" \/ tail = "copy"
    /\ file.hdr.req > 0 => tail = "copy"
    /\ proc.pc \in {"e_create", "e_format", "e_keyslot", "e_move"} => head = "data"
    /\ proc.pc \in {"e_format", "e_keyslot", "e_move"} => file.hdr.req = 0
    /\ proc.pc \in {"e_flag", "e_restore"} => tail = "copy"

\* Decryption over the header: until the requirement is written to the file the
\* move can be undone; the mapping gets its new table, suspended, before it.
BeforeFlag == {"d_backup", "d_wipe", "d_unwipe", "d_init", "d_suspend", "d_move", "d_flag", "d_restore"}
DecryptInv ==
  scenario = "decrypt" =>
    /\ dev.req = 0 /\ (file.hdr.req > 0 => head = "moved")
    /\ proc.pc \in BeforeFlag => file.hdr.req = 0
    /\ proc.pc = "d_flag" => head = "moved"
    /\ proc.pc \in {"d_resume", "load"} => file.hdr.req > 0
    /\ proc.pc = "d_suspend" => proc.online
    /\ proc.pc = "d_cleared" => dm.inactive = "none"
    /\ proc.pc \in {"d_init", "d_suspend", "d_move", "d_flag", "d_resume"} /\ ~proc.online => dm.live = "none"
    /\ proc.pc \in {"d_suspend", "d_move", "d_flag", "d_resume"} /\ proc.online =>
         dm.live = "old" /\ dm.inactive = "new"
    /\ proc.pc \in {"d_move", "d_flag", "d_resume"} /\ proc.online => dm.susp
    /\ proc.pc \in {"d_clear", "d_cleared", "d_status"} /\ file.hdr.req > 0 => beyond # {}
    /\ dm.live = "new" => file.hdr.req > 0
    /\ dm.live = "old" /\ file.hdr.req > 0 => dm.susp \/ beyond # {}

\* Elsewhere nothing is moved.
OtherInv ==
  scenario \notin {"encrypt", "decrypt"} => dev.moved = 0 /\ file.hdr.moved = 0 /\ dm.live # "new"

FlowInv == TypeOK /\ PlaceInv /\ EncryptInv /\ DecryptInv /\ OtherInv

\* Metadata that were written as they are now verify; those of an old version
\* (requirement 1) are ready for the repair.
Verifies(h) ==
  /\ h.req > 0 => reenc_keyslot_validate(h.ks) /\ MovedFits(h.ks, h.moved)
  /\ h.req >= 2 => LUKS2_reencrypt_digest_verify(h, Needed(h))
DigestInv == Verifies(dev) /\ Verifies(file.hdr)

\* Every passphrase opens the volume key of the data.
Complete(h) == \A p \in PassSet : "old" \in Opened(h, p)
SafeInv ==
  /\ scenario = "decrypt" =>
       /\ file.st = "ok" => Complete(file.hdr)
       /\ (head = "hdr" /\ Complete(dev)) \/ file.st = "ok"
       /\ proc.pc \in {"d_backup", "d_wipe"} => head = "hdr" /\ Complete(dev)
       /\ proc.pc \in DecryptPcs \ {"d_backup"} => file.st = "ok"
  /\ scenario = "decrypt_hdr" => Complete(file.hdr)
  /\ scenario \in {"reencrypt", "legacy"} => Complete(dev)

\* The keyslots a reencryption adds: there is room for them, and none takes the
\* place of another.
KeysInv ==
  scenario = "reencrypt" =>
    /\ proc.added \subseteq Slots /\ proc.todo \subseteq Active(dev)
    /\ proc.keep => ~proc.all
    /\ \A j \in proc.added : dev.slots[j].key # "old"
    /\ \A i \in Slots : dev.slots[i].key = "none" => dev.slots[i] = NoSlot
    /\ dev.req = 0 => \A i \in Slots : dev.slots[i].key # "reencrypt"
    /\ proc.pc \in {"r_keyslots", "r_add", "r_flag"} => dev.req = 0
    /\ proc.pc = "r_add" => proc.todo # {} /\ Cardinality(proc.todo) < Cardinality(Free(dev))
    /\ proc.pc = "r_add" /\ proc.all => \A p \in PassSet :
         NewKey \in Opened(dev, p) \/ \E i \in proc.todo : dev.slots[i].pass = p
    /\ proc.pc = "r_flag" /\ proc.all => \A p \in PassSet : NewKey \in Opened(dev, p)
-----------------------------------------------------------------------------
\* The lowest number of a set is in it.
LEMMA LowestIn ==
  ASSUME NEW S, S \subseteq Nat, S # {}
  PROVE  Lowest(S) \in S /\ \A j \in S : Lowest(S) <= j
<1> DEFINE R == {ss \in Nat \X Nat : ss[1] < ss[2]}
<1>1. IsWellFoundedOn(R, Nat)
  BY NatLessThanWellFounded, Zenon DEF OpToRel
<1>2. PICK x \in S : \A y \in S : ~(<<y, x>> \in R)
  <2> HIDE DEF R
  <2> QED BY <1>1, WFMin
<1>3. ASSUME NEW y \in S PROVE x <= y
  <2>1. x \in Nat /\ y \in Nat /\ <<y, x>> \in Nat \X Nat
    OBVIOUS
  <2>2. ~(y < x)
    BY <1>2, <2>1
  <2> QED BY <2>1, <2>2
<1> QED
  BY <1>3 DEF Lowest

\* A command that does not run, and the headers that are written as constants.
LEMMA ConstantFacts ==
  /\ Idle.pc = "idle" /\ Idle.todo = {} /\ Idle.added = {} /\ Idle.md = "none" /\ Idle.op = "none"
  /\ ~Idle.online /\ ~Idle.keep
  /\ NoHdr.req = 0 /\ NoHdr.moved = 0 /\ IsHdr(NoHdr) /\ DOMAIN NoHdr.slots = Slots
  /\ DOMAIN NoHdr = {"req", "ks", "moved", "old", "new", "digest", "slots"}
  /\ \A i \in Slots : NoHdr.slots[i] = NoSlot
  /\ NoSlot.key = "none" /\ NoSlot.pass = "none" /\ DOMAIN NoSlot = {"pass", "key"}
  /\ \A p, k : Slot(p, k).pass = p /\ Slot(p, k).key = k /\ DOMAIN Slot(p, k) = {"pass", "key"}
  /\ Absent.st = "absent" /\ Absent.hdr = NoHdr /\ DOMAIN Absent = {"st", "hdr"}
  /\ Damaged.st = "junk" /\ Damaged.hdr = NoHdr /\ DOMAIN Damaged = {"st", "hdr"}
  /\ \A h : File(h).st = "ok" /\ File(h).hdr = h /\ DOMAIN File(h) = {"st", "hdr"}
  /\ Slots \subseteq Nat
BY InitConstants DEF Idle, NoHdr, Blank, NoSlot, Slot, Absent, Damaged, File, IsHdr, Slots

\* One field of a record is replaced.
LEMMA FieldPut ==
  ASSUME NEW r, NEW f \in DOMAIN r, NEW v
  PROVE  /\ DOMAIN [r EXCEPT ![f] = v] = DOMAIN r /\ [r EXCEPT ![f] = v][f] = v
         /\ \A x \in DOMAIN r : x # f => [r EXCEPT ![f] = v][x] = r[x]
BY Zenon

HdrFields == {"req", "ks", "moved", "old", "new", "digest", "slots"}

\* The fields of a header are different.
LEMMA HdrFieldPut ==
  ASSUME NEW h, DOMAIN h = HdrFields, NEW f \in HdrFields, NEW v, NEW g, g = [h EXCEPT ![f] = v]
  PROVE  /\ DOMAIN g = HdrFields /\ g[f] = v
         /\ f # "req" => g.req = h.req
         /\ f # "ks" => g.ks = h.ks
         /\ f # "moved" => g.moved = h.moved
         /\ f # "old" => g.old = h.old
         /\ f # "new" => g.new = h.new
         /\ f # "digest" => g.digest = h.digest
         /\ f # "slots" => g.slots = h.slots
<1>1. \A x \in HdrFields : x # f => g[x] = h[x]
  BY FieldPut, Zenon
<1>2. DOMAIN g = HdrFields /\ g[f] = v
  BY FieldPut, Zenon
<1>3. "req" \in HdrFields /\ "ks" \in HdrFields /\ "moved" \in HdrFields /\ "old" \in HdrFields
      /\ "new" \in HdrFields /\ "digest" \in HdrFields /\ "slots" \in HdrFields
  BY DEF HdrFields
<1> QED
  BY <1>1, <1>2, <1>3, Zenon

\* The reencrypt keyslot of a header is replaced.
LEMMA KsPut ==
  ASSUME NEW h, NEW v, DOMAIN h = HdrFields
  PROVE  /\ DOMAIN [h EXCEPT !.ks = v] = HdrFields /\ [h EXCEPT !.ks = v].ks = v
         /\ [h EXCEPT !.ks = v].req = h.req /\ [h EXCEPT !.ks = v].moved = h.moved
         /\ [h EXCEPT !.ks = v].old = h.old /\ [h EXCEPT !.ks = v].new = h.new
         /\ [h EXCEPT !.ks = v].digest = h.digest /\ [h EXCEPT !.ks = v].slots = h.slots
<1> DEFINE g == [h EXCEPT !.ks = v]
<1>1. "ks" \in DOMAIN h
  BY DEF HdrFields
<1>2. DOMAIN g = HdrFields /\ g.ks = v /\ \A x \in HdrFields : x # "ks" => g[x] = h[x]
  BY <1>1, Zenon
<1> HIDE DEF g
<1>3. DOMAIN g = HdrFields /\ g.ks = v /\ g.req = h.req /\ g.moved = h.moved /\ g.old = h.old /\ g.new = h.new
        /\ g.digest = h.digest /\ g.slots = h.slots
  BY <1>2 DEF HdrFields
<1> QED
  BY <1>3, Zenon DEF g

\* The requirement of a header is replaced.
LEMMA ReqPut ==
  ASSUME NEW h, NEW v, DOMAIN h = HdrFields
  PROVE  /\ DOMAIN [h EXCEPT !.req = v] = HdrFields /\ [h EXCEPT !.req = v].req = v
         /\ [h EXCEPT !.req = v].ks = h.ks /\ [h EXCEPT !.req = v].moved = h.moved
         /\ [h EXCEPT !.req = v].old = h.old /\ [h EXCEPT !.req = v].new = h.new
         /\ [h EXCEPT !.req = v].digest = h.digest /\ [h EXCEPT !.req = v].slots = h.slots
<1> DEFINE g == [h EXCEPT !.req = v]
<1>1. "req" \in DOMAIN h
  BY DEF HdrFields
<1>2. DOMAIN g = HdrFields /\ g.req = v /\ \A x \in HdrFields : x # "req" => g[x] = h[x]
  BY <1>1, Zenon
<1> HIDE DEF g
<1>3. DOMAIN g = HdrFields /\ g.req = v /\ g.ks = h.ks /\ g.moved = h.moved /\ g.old = h.old /\ g.new = h.new
        /\ g.digest = h.digest /\ g.slots = h.slots
  BY <1>2 DEF HdrFields
<1> QED
  BY <1>3, Zenon DEF g

WithSlot(h, i, s) == [h EXCEPT !.slots[i] = s]

\* A keyslot of a header is replaced.
LEMMA SlotPut ==
  ASSUME NEW h, IsHdr(h), NEW i, NEW s, DOMAIN s = {"pass", "key"}
  PROVE  LET g == WithSlot(h, i, s) IN
         /\ IsHdr(g) /\ g.req = h.req /\ g.moved = h.moved /\ g.ks = h.ks /\ g.old = h.old /\ g.new = h.new
         /\ g.digest = h.digest /\ \A j \in Slots : (j = i => g.slots[j] = s) /\ (j # i => g.slots[j] = h.slots[j])
<1> DEFINE g == WithSlot(h, i, s)
           t == [h.slots EXCEPT ![i] = s]
<1>1. DOMAIN h = HdrFields /\ DOMAIN h.slots = Slots /\ "slots" \in HdrFields
  BY ConstantFacts DEF IsHdr, HdrFields
<1>2. g = [h EXCEPT !.slots = t]
  BY Zenon DEF WithSlot
<1>3. DOMAIN t = Slots /\ \A j \in Slots : (j = i => t[j] = s) /\ (j # i => t[j] = h.slots[j])
  BY <1>1, Zenon
<1> HIDE DEF t, g
<1>4. DOMAIN g = HdrFields /\ g.slots = t /\ \A x \in HdrFields : x # "slots" => g[x] = h[x]
  BY <1>1, <1>2, Zenon
<1>5. /\ g.req = h.req /\ g.moved = h.moved /\ g.ks = h.ks /\ g.old = h.old /\ g.new = h.new
      /\ g.digest = h.digest
  BY <1>4 DEF HdrFields
<1>6. IsHdr(g)
  BY <1>1, <1>3, <1>4, <1>5 DEF IsHdr
<1>7. /\ IsHdr(g) /\ g.req = h.req /\ g.moved = h.moved /\ g.ks = h.ks /\ g.old = h.old /\ g.new = h.new
      /\ g.digest = h.digest /\ \A j \in Slots : (j = i => g.slots[j] = s) /\ (j # i => g.slots[j] = h.slots[j])
  BY <1>3, <1>4, <1>5, <1>6
<1> QED
  BY <1>7, Zenon DEF g

\* What the digest of a header changes in it.
LEMMA DigestCreated ==
  ASSUME NEW h, IsHdr(h), NEW keys, NEW version, NEW g \in digest_create(h, keys, version)
  PROVE  /\ IsHdr(g) /\ g.req = h.req /\ g.moved = h.moved /\ g.slots = h.slots /\ g.ks = h.ks
         /\ g.old = h.old /\ g.new = h.new
         /\ {h.old, h.new} \ {"none"} \subseteq keys
         /\ g.digest = {[ver |-> version, old |-> h.old, new |-> h.new,
                         ks |-> reenc_keyslot_serialize(h.ks), segs |-> backup_segments_serialize(h)]}
BY ConstantFacts DEF digest_create, reencrypt_assembly_verification_data, IsHdr

\* Only a free keyslot becomes the reencrypt keyslot.
LEMMA ReencSlot ==
  ASSUME NEW h, IsHdr(h), Free(h) # {}
  PROVE  LET g == WithReencSlot(h) j == Lowest(Free(h)) IN
         /\ IsHdr(g) /\ j \in Slots /\ h.slots[j] = NoSlot /\ g.slots[j] = Slot("none", "reencrypt")
         /\ \A i \in Slots \ {j} : g.slots[i] = h.slots[i]
<1>1. Free(h) \subseteq Nat
  BY ConstantFacts DEF Free
<1>2. Lowest(Free(h)) \in Free(h)
  BY <1>1, LowestIn
<1> QED
  BY <1>2, ConstantFacts DEF WithReencSlot, Free, IsHdr

\* What Initialized writes.
LEMMA InitializedFacts ==
  ASSUME NEW h, IsHdr(h), NEW mode, NEW dir, NEW p, NEW moved, NEW old, NEW new, NEW keys, NEW version \in {2, 3},
         NEW g \in Initialized(h, mode, dir, p, moved, old, new, align, keys, version)
  PROVE  /\ IsHdr(g) /\ g.req = version /\ g.moved = moved /\ g.slots = h.slots /\ g.old = old /\ g.new = new
         /\ g.ks = [mode |-> mode, dir |-> dir, area |-> reencrypt_keyslot_area_jobj(p, align)]
         /\ {old, new} \ {"none"} \subseteq keys
         /\ reencrypt_verify_resilience_params(p, moved > 0) /\ reenc_keyslot_validate(g.ks)
         /\ g.digest = {[ver |-> version, old |-> old, new |-> new,
                         ks |-> reenc_keyslot_serialize(g.ks), segs |-> backup_segments_serialize(g)]}
<1> DEFINE ks == [mode |-> mode, dir |-> dir, area |-> reencrypt_keyslot_area_jobj(p, align)]
           w == [h EXCEPT !.ks = ks, !.moved = moved, !.old = old, !.new = new, !.req = version]
<1>1. /\ reencrypt_verify_resilience_params(p, moved > 0) /\ reenc_keyslot_validate(ks)
      /\ g \in digest_create(w, keys, version)
  BY Zenon DEF Initialized
<1>2. DOMAIN h = HdrFields
  BY ConstantFacts DEF IsHdr, HdrFields
<1> HIDE DEF ks
<1>3. /\ DOMAIN w = DOMAIN h /\ w.ks = ks /\ w.moved = moved /\ w.old = old /\ w.new = new /\ w.req = version
      /\ w.slots = h.slots
  <2> DEFINE w1 == [h EXCEPT !.ks = ks]
             w2 == [w1 EXCEPT !.moved = moved]
             w3 == [w2 EXCEPT !.old = old]
             w4 == [w3 EXCEPT !.new = new]
             w5 == [w4 EXCEPT !.req = version]
  <2>0. w = w5 /\ {"ks", "moved", "old", "new", "req"} \subseteq HdrFields
    BY Zenon DEF HdrFields
  <2> HIDE DEF w5, w
  <2>5. DOMAIN w4 = HdrFields => DOMAIN w5 = HdrFields /\ w5.req = version /\ w5.ks = w4.ks /\ w5.moved = w4.moved
          /\ w5.old = w4.old /\ w5.new = w4.new /\ w5.slots = w4.slots
    <3> HIDE DEF w4
    <3> QED BY <2>0, HdrFieldPut, ZenonT(40) DEF w5
  <2> HIDE DEF w4
  <2>4. DOMAIN w3 = HdrFields => DOMAIN w4 = HdrFields /\ w4.new = new /\ w4.ks = w3.ks /\ w4.moved = w3.moved
          /\ w4.old = w3.old /\ w4.slots = w3.slots
    <3> HIDE DEF w3
    <3> QED BY <2>0, HdrFieldPut, ZenonT(40) DEF w4
  <2> HIDE DEF w3
  <2>3. DOMAIN w2 = HdrFields => DOMAIN w3 = HdrFields /\ w3.old = old /\ w3.ks = w2.ks /\ w3.moved = w2.moved
          /\ w3.slots = w2.slots
    <3> HIDE DEF w2
    <3> QED BY <2>0, HdrFieldPut, ZenonT(40) DEF w3
  <2> HIDE DEF w2
  <2>2. DOMAIN w1 = HdrFields => DOMAIN w2 = HdrFields /\ w2.moved = moved /\ w2.ks = w1.ks /\ w2.slots = w1.slots
    <3> HIDE DEF w1
    <3> QED BY <2>0, HdrFieldPut, ZenonT(40) DEF w2
  <2> HIDE DEF w1
  <2>1. DOMAIN w1 = HdrFields /\ w1.ks = ks /\ w1.slots = h.slots
    <3>1. DOMAIN h = HdrFields => DOMAIN w1 = HdrFields /\ w1.ks = ks /\ w1.slots = h.slots
      BY <2>0, HdrFieldPut, ZenonT(40) DEF w1
    <3> QED BY <1>2, <3>1
  <2> QED
    BY <1>2, <2>0, <2>1, <2>2, <2>3, <2>4, <2>5
<1> HIDE DEF w
<1>4. IsHdr(w)
  BY <1>3 DEF IsHdr
<1>5. /\ IsHdr(g) /\ g.req = w.req /\ g.moved = w.moved /\ g.slots = w.slots /\ g.ks = w.ks
      /\ g.old = w.old /\ g.new = w.new
      /\ {w.old, w.new} \ {"none"} \subseteq keys
      /\ g.digest = {[ver |-> version, old |-> w.old, new |-> w.new,
                      ks |-> reenc_keyslot_serialize(w.ks), segs |-> backup_segments_serialize(w)]}
  BY <1>1, <1>4, DigestCreated
<1>6. backup_segments_serialize(w) = backup_segments_serialize(g)
  BY <1>5 DEF backup_segments_serialize
<1>7. g.ks = ks
  BY <1>3, <1>5
<1> QED
  BY <1>1, <1>3, <1>5, <1>6, <1>7, Zenon DEF ks

\* What an initialization writes.
LEMMA InitWrites ==
  ASSUME NEW h, IsHdr(h), NEW params, NEW g \in reencrypt_init(h, params)
  PROVE  /\ Free(h) # {} /\ IsHdr(g) /\ g.req \in {2, 3} /\ g.slots = WithReencSlot(h).slots
         /\ g.moved = IF scenario \in {"encrypt", "decrypt"} THEN proc.size ELSE 0
         /\ g.old = IF proc.op = "encrypt" THEN "none" ELSE "old"
         /\ proc.op # "decrypt" => g.new = IF proc.keep THEN "old" ELSE NewKey
         /\ {g.old, g.new} \ {"none"} \subseteq Unlocked(h, {g.old, g.new} \ {"none"})
         /\ reencrypt_verify_resilience_params(params, g.moved > 0) /\ reenc_keyslot_validate(g.ks)
         /\ g.ks.area = reencrypt_keyslot_area_jobj(params, align)
         /\ scenario = "decrypt" => MovedFits(g.ks, g.moved)
         /\ g.digest = {[ver |-> g.req, old |-> g.old, new |-> g.new,
                         ks |-> reenc_keyslot_serialize(g.ks), segs |-> backup_segments_serialize(g)]}
<1> DEFINE moved == IF scenario \in {"encrypt", "decrypt"} THEN proc.size ELSE 0
           old   == IF proc.op = "encrypt" THEN "none" ELSE "old"
           new   == CASE proc.op = "decrypt" -> "none" [] proc.keep -> "old" [] OTHER -> NewKey
           dir   == IF (proc.op = "decrypt") = (proc.shift > 0) THEN "forward" ELSE "backward"
           ver   == IF scenario = "decrypt" THEN 3 ELSE 2
           keys  == Unlocked(h, {old, new} \ {"none"})
<1>1. /\ Free(h) # {}
      /\ g \in Initialized(WithReencSlot(h), proc.op, dir, params, moved, old, new, align, keys, ver)
      /\ scenario = "decrypt" => MovedFits(g.ks, moved)
  BY Zenon DEF reencrypt_init
<1>2. ver \in {2, 3}
  OBVIOUS
<1>2a. proc.op # "decrypt" => new = IF proc.keep THEN "old" ELSE NewKey
  BY Zenon
<1> HIDE DEF moved, old, new, dir, ver, keys
<1>3. IsHdr(WithReencSlot(h))
  BY <1>1, ReencSlot
<1>4. /\ IsHdr(g) /\ g.req = ver /\ g.moved = moved /\ g.slots = WithReencSlot(h).slots /\ g.old = old /\ g.new = new
      /\ g.ks = [mode |-> proc.op, dir |-> dir, area |-> reencrypt_keyslot_area_jobj(params, align)]
      /\ {old, new} \ {"none"} \subseteq keys
      /\ reencrypt_verify_resilience_params(params, moved > 0) /\ reenc_keyslot_validate(g.ks)
      /\ g.digest = {[ver |-> ver, old |-> old, new |-> new,
                      ks |-> reenc_keyslot_serialize(g.ks), segs |-> backup_segments_serialize(g)]}
  BY <1>1, <1>2, <1>3, InitializedFacts
<1>5. g.ks.area = reencrypt_keyslot_area_jobj(params, align)
  BY <1>4
<1>6. old = (IF proc.op = "encrypt" THEN "none" ELSE "old")
        /\ moved = (IF scenario \in {"encrypt", "decrypt"} THEN proc.size ELSE 0)
  BY DEF old, moved
<1>7. keys = Unlocked(h, {g.old, g.new} \ {"none"})
  BY <1>4 DEF keys
<1> QED
  BY <1>1, <1>2, <1>2a, <1>4, <1>5, <1>6, <1>7

\* The part of it that the flow of a command needs.
LEMMA InitShape ==
  ASSUME NEW h, IsHdr(h), NEW params, NEW g \in reencrypt_init(h, params)
  PROVE  IsHdr(g) /\ g.req \in {2, 3} /\ g.moved = IF scenario \in {"encrypt", "decrypt"} THEN proc.size ELSE 0
BY InitWrites, ZenonT(40)

\* What a load writes: the resilience of the reencrypt keyslot and the digest.
LEMMA LoadWrites ==
  ASSUME IsHdr(Hdr), NEW p, NEW g \in Loaded(p)
  PROVE  /\ IsHdr(g) /\ g.req = Hdr.req /\ g.moved = Hdr.moved /\ g.slots = Hdr.slots
         /\ g.old = Hdr.old /\ g.new = Hdr.new
         /\ g # Hdr =>
              /\ reenc_keyslot_validate(g.ks) /\ MovedFits(g.ks, g.moved)
              /\ {g.old, g.new} \ {"none"} \subseteq Needed(g)
              /\ g.digest = {[ver |-> g.req, old |-> g.old, new |-> g.new,
                              ks |-> reenc_keyslot_serialize(g.ks), segs |-> backup_segments_serialize(g)]}
<1> DEFINE h == Hdr
           keys == Needed(Hdr)
<1> HIDE DEF h, keys
<1>1. g = h \/ \E k \in {x \in reenc_keyslot_update(h.ks, p, align) : MovedFits(x, h.moved)} :
                 g \in digest_create([h EXCEPT !.ks = k], keys, h.req)
  BY Zenon DEF Loaded, LUKS2_keyslot_reencrypt_update, h, keys
<1>2. CASE g = h
  BY <1>2 DEF h
<1>3. CASE g # h
  <2>1. PICK k \in {x \in reenc_keyslot_update(h.ks, p, align) : MovedFits(x, h.moved)} :
               g \in digest_create([h EXCEPT !.ks = k], keys, h.req)
    BY <1>1, <1>3
  <2>2. reenc_keyslot_validate(k)
    BY <2>1, Zenon DEF reenc_keyslot_update
  <2> DEFINE w == [h EXCEPT !.ks = k]
  <2>3. DOMAIN h = HdrFields /\ "ks" \in HdrFields
    BY ConstantFacts DEF IsHdr, h, HdrFields
  <2>4. /\ DOMAIN w = DOMAIN h /\ w.ks = k /\ w.moved = h.moved /\ w.old = h.old /\ w.new = h.new /\ w.req = h.req
        /\ w.slots = h.slots
    BY <2>3, KsPut, Zenon
  <2>5. g \in digest_create(w, keys, h.req)
    BY <2>1
  <2> HIDE DEF w
  <2>6. IsHdr(w)
    BY <2>4 DEF IsHdr, h
  <2>7. /\ IsHdr(g) /\ g.req = w.req /\ g.moved = w.moved /\ g.slots = w.slots /\ g.ks = w.ks
        /\ g.old = w.old /\ g.new = w.new
        /\ {w.old, w.new} \ {"none"} \subseteq keys
        /\ g.digest = {[ver |-> h.req, old |-> w.old, new |-> w.new,
                        ks |-> reenc_keyslot_serialize(w.ks), segs |-> backup_segments_serialize(w)]}
    BY <2>5, <2>6, DigestCreated
  <2>8. backup_segments_serialize(w) = backup_segments_serialize(g)
    BY <2>7 DEF backup_segments_serialize
  <2>9. keys = Needed(g)
    BY <2>4, <2>7 DEF Needed, keys, h
  <2>10. MovedFits(g.ks, g.moved) /\ reenc_keyslot_validate(g.ks)
    BY <2>1, <2>2, <2>4, <2>7
  <2>11. g.digest = {[ver |-> g.req, old |-> g.old, new |-> g.new,
                      ks |-> reenc_keyslot_serialize(g.ks), segs |-> backup_segments_serialize(g)]}
    BY <2>4, <2>7, <2>8
  <2> QED
    BY <2>4, <2>7, <2>9, <2>10, <2>11 DEF h
<1> QED
  BY <1>2, <1>3

\* What a repair writes.
LEMMA RepairWrites ==
  ASSUME NEW h, IsHdr(h), NEW keys, NEW f \in reencrypt_repair(h, keys)
  PROVE  /\ IsHdr(f) /\ f.req \in {2, 3} /\ f.moved = h.moved /\ f.slots = h.slots /\ f.ks = h.ks
         /\ f.old = h.old /\ f.new = h.new
         /\ {f.old, f.new} \ {"none"} \subseteq keys
         /\ f.digest = {[ver |-> f.req, old |-> f.old, new |-> f.new,
                         ks |-> reenc_keyslot_serialize(f.ks), segs |-> backup_segments_serialize(f)]}
<1> DEFINE v == repair_version(h)
<1>0. v \in {2, 3}
  BY DEF repair_version
<1> HIDE DEF v
<1>1. PICK g \in digest_create(h, keys, v) : f = [g EXCEPT !.req = v]
  BY Zenon DEF reencrypt_repair, v
<1>2. /\ IsHdr(g) /\ g.req = h.req /\ g.moved = h.moved /\ g.slots = h.slots /\ g.ks = h.ks
      /\ g.old = h.old /\ g.new = h.new
      /\ {h.old, h.new} \ {"none"} \subseteq keys
      /\ g.digest = {[ver |-> v, old |-> h.old, new |-> h.new,
                      ks |-> reenc_keyslot_serialize(h.ks), segs |-> backup_segments_serialize(h)]}
  BY <1>1, DigestCreated
<1>3. DOMAIN g = HdrFields /\ "req" \in HdrFields
  BY <1>2, ConstantFacts DEF IsHdr, HdrFields
<1>4. /\ DOMAIN f = DOMAIN g /\ f.req = v /\ f.moved = g.moved /\ f.slots = g.slots /\ f.ks = g.ks
      /\ f.old = g.old /\ f.new = g.new /\ f.digest = g.digest
  BY <1>1, <1>3, ReqPut, Zenon
<1>5. IsHdr(f)
  BY <1>0, <1>2, <1>4 DEF IsHdr
<1>6. backup_segments_serialize(f) = backup_segments_serialize(h)
  BY <1>2, <1>4 DEF backup_segments_serialize
<1> QED
  BY <1>0, <1>2, <1>4, <1>5, <1>6

-----------------------------------------------------------------------------
\* Everything but its place in the program stays as it was in a command.
Rest ==
  /\ proc'.op = proc.op /\ proc'.md = proc.md /\ proc'.res = proc.res /\ proc'.hash = proc.hash
  /\ proc'.shift = proc.shift /\ proc'.size = proc.size /\ proc'.all = proc.all /\ proc'.keep = proc.keep
  /\ proc'.online = proc.online /\ proc'.initonly = proc.initonly /\ proc'.init = proc.init
  /\ proc'.todo = proc.todo /\ proc'.added = proc.added

ProcFields == {"pc", "op", "md", "res", "hash", "shift", "size", "all", "keep", "online", "initonly", "init",
               "todo", "added"}

\* The fields of a command.
LEMMA ProcDomain == DOMAIN Idle = ProcFields
BY DEF Idle, ProcFields

\* A command goes on.
LEMMA GotoFacts ==
  ASSUME TypeOK, NEW pc, Goto(pc)
  PROVE  DOMAIN proc' = DOMAIN Idle /\ proc'.pc = pc /\ Rest /\ last' = last
<1>1. DOMAIN proc = ProcFields /\ "pc" \in DOMAIN proc
  BY ProcDomain DEF TypeOK, ProcFields
<1>2. DOMAIN proc' = ProcFields /\ proc'.pc = pc /\ \A x \in ProcFields : x # "pc" => proc'[x] = proc[x]
  BY <1>1, Zenon DEF Goto
<1> QED
  BY <1>2, ProcDomain DEF Rest, ProcFields, Goto

\* A header has been written.
Wrote(h) ==
  \/ proc.md = "file" /\ file' = File(h) /\ dev' = dev
  \/ proc.md = "dev" /\ dev' = h /\ file' = file

\* How a header write ends.
LEMMA WriteFacts ==
  ASSUME TypeOK, proc.md \in {"file", "dev"}, NEW h, NEW ok, NEW failed, HdrWrite(h, ok, failed)
  PROVE  /\ head' = head /\ tail' = tail /\ dm' = dm /\ DOMAIN proc' = DOMAIN Idle /\ Rest /\ last' = last
         /\ faults' \in 0..MaxFaults /\ beyond \subseteq beyond' /\ beyond' \subseteq {"late", "undo", "restore"}
         /\ \/ Wrote(h) /\ proc'.pc = ok /\ beyond' = beyond
            \/ dev' = dev /\ file' = file /\ proc'.pc = failed /\ beyond' = beyond
            \/ Wrote(h) /\ proc'.pc = failed /\ beyond' # {}
<1>0. head' = head /\ tail' = tail /\ dm' = dm
  BY DEF HdrWrite
<1>1. CASE PutHdr(h) /\ Goto(ok) /\ Works
  BY <1>0, <1>1, GotoFacts DEF PutHdr, Wrote, Works, TypeOK
<1>2. CASE UNCHANGED <<dev, file>> /\ Goto(failed) /\ Fault
  BY <1>0, <1>2, GotoFacts, InitConstants DEF Fault, FailsIf, TypeOK
<1>3. CASE PutHdr(h) /\ Goto(failed) /\ FaultBeyond("late")
  BY <1>0, <1>3, GotoFacts, InitConstants DEF PutHdr, Wrote, FaultBeyond, TypeOK
<1> QED
  BY <1>1, <1>2, <1>3 DEF HdrWrite

\* Where a command goes first.
LEMMA DispatchFacts ==
  ASSUME FlowInv, NEW o \in Options, Dispatch(o).pc # "error"
  PROVE  LET d == Dispatch(o) IN
         /\ d.pc \in {"load", "e_create", "d_backup", "i_flag", "r_keyslots", "repair"}
         /\ d.pc = "load" => d.md = (IF scenario \in HeaderInFile THEN "file" ELSE "dev")
         /\ d.pc = "load" /\ scenario \in HeaderInFile => file.st = "ok" /\ file.hdr.req > 0
         /\ d.pc = "e_create" => scenario \in {"encrypt", "encrypt_hdr"} /\ d.md = "file"
         /\ d.pc = "e_create" /\ scenario = "encrypt" => head \notin {"hdr", "junk"}
         /\ d.pc = "d_backup" => scenario = "decrypt" /\ d.md = "file" /\ file.st = "absent" /\ head = "hdr"
         /\ d.pc = "i_flag" => scenario = "decrypt_hdr" /\ d.md = "file"
         /\ d.pc = "r_keyslots" => scenario = "reencrypt" /\ d.md = "dev" /\ dev.req = 0
         /\ d.pc = "repair" => scenario = "legacy" /\ d.md = "dev"
         /\ o.op \in Op(scenario)
<1>1. o.op \in Op(scenario) /\ scenario \in {"encrypt", "encrypt_hdr", "decrypt", "decrypt_hdr", "reencrypt", "legacy"}
  BY InitConstants DEF Options, FlowInv, TypeOK
<1>2. dev.req \in Nat /\ file.hdr.req \in Nat /\ file.st \in {"ok", "junk", "absent"}
  BY DEF FlowInv, TypeOK, IsHdr
<1>3. /\ load_luks("file") = IF file.st = "ok" THEN (IF file.hdr.req > 0 THEN "luks2_reencrypt" ELSE "luks2") ELSE "not_luks"
      /\ load_luks("dev") = IF head = "hdr" THEN (IF dev.req > 0 THEN "luks2_reencrypt" ELSE "luks2") ELSE "not_luks"
  BY DEF load_luks, luks2_reencrypt_in_progress
<1>4. CASE scenario \in {"encrypt", "encrypt_hdr"}
  <2>1. o.op = "encrypt"
    BY <1>1, <1>4 DEF Op
  <2> QED
    BY <1>1, <1>2, <1>3, <1>4, <2>1 DEF Dispatch, EncryptTo, Detached, HeaderInFile
<1>5. CASE scenario \in {"decrypt", "decrypt_hdr"}
  <2>1. o.op = "decrypt"
    BY <1>1, <1>5 DEF Op
  <2> QED
    BY <1>1, <1>2, <1>3, <1>5, <2>1 DEF Dispatch, DecryptTo, Detached, HeaderInFile, FlowInv, PlaceInv
<1>6. CASE scenario \in {"reencrypt", "legacy"}
  <2>1. o.op = "reencrypt" \/ (o.op = "repair" /\ scenario = "legacy")
    BY <1>1, <1>6 DEF Op
  <2> QED
    BY <1>1, <1>2, <1>3, <1>6, <2>1 DEF Dispatch, ReencryptTo, Detached, HeaderInFile, FlowInv, PlaceInv
<1> QED
  BY <1>1, <1>4, <1>5, <1>6

-----------------------------------------------------------------------------
\* FlowInv, action by action.

\* The initial states.
LEMMA FlowInit == Init => FlowInv
<1> SUFFICES ASSUME Init PROVE FlowInv
  OBVIOUS
<1>1. Idle.pc = "idle" /\ DOMAIN Idle = DOMAIN Idle /\ Idle.pc \in Pcs
  BY ConstantFacts DEF Pcs
<1>2. \A sc : IsHdr(Started(sc)) /\ Started(sc).req = 0 /\ Started(sc).moved = 0
  BY ConstantFacts DEF Started, Blank, IsHdr, NoHdr, Slot
<1>3. IsHdr(Legacy) /\ Legacy.req = 1 /\ Legacy.moved = 0
  BY <1>2, ConstantFacts, InitConstants DEF Legacy, Started, Blank, IsHdr, NoHdr, Slot, NoSlot
<1>4. /\ scenario \in {"decrypt", "reencrypt"} => dev = Started(scenario)
      /\ scenario = "legacy" => dev = Legacy
      /\ scenario \notin {"decrypt", "reencrypt", "legacy"} => dev = NoHdr
  BY Zenon DEF Init
<1>5. /\ scenario \in Scenarios /\ align \in Aligns /\ tail = "free" /\ proc = Idle /\ beyond = {}
      /\ commands = 0 /\ faults = 0 /\ kills = 0
      /\ head = (IF scenario \in {"decrypt", "reencrypt", "legacy"} THEN "hdr" ELSE "data")
      /\ file = IF scenario = "decrypt_hdr" THEN File(Started(scenario)) ELSE Absent
  BY Zenon DEF Init
<1>6. \E l \in {"none", "old"} : dm = [live |-> l, inactive |-> "none", susp |-> FALSE]
  BY Zenon DEF Init
<1>7. TypeOK
  BY <1>1, <1>2, <1>3, <1>4, <1>5, <1>6, ConstantFacts, InitConstants DEF TypeOK
<1> QED
  BY <1>1, <1>2, <1>3, <1>4, <1>5, <1>6, <1>7, ConstantFacts, InitConstants
     DEF FlowInv, PlaceInv, EncryptInv, DecryptInv, OtherInv, EncryptPcs, DecryptPcs, ReencryptPcs, BeforeFlag

\* A command starts.
LEMMA FlowStart == ASSUME FlowInv, NEW o \in Options, reencrypt(o) PROVE FlowInv'
<1> DEFINE d == Dispatch(o)
<1>1. /\ DOMAIN proc' = DOMAIN Idle /\ proc'.pc = d.pc /\ proc'.md = d.md /\ proc'.op = o.op /\ proc'.online = o.online
  BY DEF reencrypt, Idle
<1>2. /\ commands' = commands + 1 /\ commands' \in 0..MaxCommands
      /\ UNCHANGED <<scenario, align, head, tail, dev, file, dm, beyond, faults, kills>>
  BY InitConstants DEF reencrypt, FlowInv, TypeOK, disk
<1>3. /\ d.pc \in {"load", "e_create", "d_backup", "i_flag", "r_keyslots", "repair"}
      /\ d.pc = "load" => d.md = (IF scenario \in HeaderInFile THEN "file" ELSE "dev")
      /\ d.pc = "load" /\ scenario \in HeaderInFile => file.st = "ok" /\ file.hdr.req > 0
      /\ d.pc = "e_create" => scenario \in {"encrypt", "encrypt_hdr"} /\ d.md = "file"
      /\ d.pc = "e_create" /\ scenario = "encrypt" => head \notin {"hdr", "junk"}
      /\ d.pc = "d_backup" => scenario = "decrypt" /\ d.md = "file" /\ file.st = "absent" /\ head = "hdr"
      /\ d.pc = "i_flag" => scenario = "decrypt_hdr" /\ d.md = "file"
      /\ d.pc = "r_keyslots" => scenario = "reencrypt" /\ d.md = "dev" /\ dev.req = 0
      /\ d.pc = "repair" => scenario = "legacy" /\ d.md = "dev"
      /\ o.op \in Op(scenario)
  BY DispatchFacts DEF reencrypt
<1> HIDE DEF d
<1>4. TypeOK'
  BY <1>1, <1>2, <1>3 DEF FlowInv, TypeOK, Pcs, EncryptPcs, DecryptPcs, ReencryptPcs, IsHdr
<1>5. PlaceInv'
  BY <1>1, <1>2, <1>3 DEF FlowInv, TypeOK, PlaceInv, EncryptPcs, DecryptPcs, ReencryptPcs
<1>6. EncryptInv'
  BY <1>1, <1>2, <1>3 DEF FlowInv, TypeOK, EncryptInv
<1>7. DecryptInv' /\ OtherInv'
  BY <1>1, <1>2, <1>3 DEF FlowInv, TypeOK, PlaceInv, DecryptInv, OtherInv, BeforeFlag, HeaderInFile
<1> QED
  BY <1>4, <1>5, <1>6, <1>7 DEF FlowInv

\* A fault is counted.
LEMMA FaultFacts ==
  ASSUME TypeOK
  PROVE  /\ Works => faults' \in 0..MaxFaults /\ beyond' = beyond
         /\ Fault => faults' \in 0..MaxFaults /\ beyond' = beyond
         /\ \A c \in BOOLEAN : FailsIf(c) => faults' \in 0..MaxFaults /\ beyond' = beyond
         /\ \A w \in {"late", "undo", "restore"} : FaultBeyond(w) =>
              faults' \in 0..MaxFaults /\ beyond' # {} /\ beyond' \subseteq {"late", "undo", "restore"}
<1>1. faults \in 0..MaxFaults /\ MaxFaults \in Nat /\ beyond \subseteq {"late", "undo", "restore"}
  BY InitConstants DEF TypeOK
<1>2. ASSUME NEW c \in BOOLEAN, FailsIf(c) PROVE faults' \in 0..MaxFaults /\ beyond' = beyond
  <2>1. CASE c
    BY <1>1, <1>2, <2>1 DEF FailsIf
  <2>2. CASE ~c
    BY <1>1, <1>2, <2>2 DEF FailsIf
  <2> QED BY <2>1, <2>2
<1>3. Fault => faults' \in 0..MaxFaults /\ beyond' = beyond
  BY <1>2 DEF Fault
<1>4. Works => faults' \in 0..MaxFaults /\ beyond' = beyond
  BY <1>1 DEF Works
<1>5. ASSUME NEW w \in {"late", "undo", "restore"}, FaultBeyond(w)
      PROVE  faults' \in 0..MaxFaults /\ beyond' # {} /\ beyond' \subseteq {"late", "undo", "restore"}
  BY <1>1, <1>5 DEF FaultBeyond
<1> QED
  BY <1>2, <1>3, <1>4, <1>5, Zenon

\* encrypt_luks2_init: the temporary header is created.
LEMMA FlowCreate == ASSUME FlowInv, encrypt_create PROVE FlowInv'
<1>0. TypeOK
  BY DEF FlowInv
<1>1. /\ proc.pc = "e_create" /\ head' = head /\ tail' = tail /\ dev' = dev /\ dm' = dm
      /\ UNCHANGED <<scenario, align, commands, kills>>
      /\ file' = file \/ (file' = Damaged /\ scenario = "encrypt")
      /\ faults' \in 0..MaxFaults /\ beyond' = beyond
      /\ \/ proc' = Idle
         \/ DOMAIN proc' = DOMAIN Idle /\ proc'.pc = "e_format" /\ Rest /\ (scenario = "encrypt" => file' = Damaged)
  BY <1>0, GotoFacts, FaultFacts DEF encrypt_create, Fixed, Temp, Ends
<1>2. proc' = Idle => DOMAIN proc' = DOMAIN Idle /\ proc'.pc = "idle"
  BY ConstantFacts
<1>3. Rest => proc'.md = proc.md /\ proc'.op = proc.op
  BY DEF Rest
<1>5. TypeOK'
  BY <1>1, <1>2, <1>3, ConstantFacts DEF FlowInv, TypeOK, IsHdr, Pcs, EncryptPcs, DecryptPcs, ReencryptPcs
<1>6. PlaceInv'
  BY <1>1, <1>2, <1>3, ConstantFacts
     DEF FlowInv, TypeOK, PlaceInv, IsHdr, EncryptPcs, DecryptPcs, ReencryptPcs, HeaderInFile
<1>7. EncryptInv'
  BY <1>1, <1>2, <1>3, ConstantFacts
     DEF FlowInv, TypeOK, PlaceInv, EncryptInv, IsHdr, EncryptPcs, DecryptPcs, ReencryptPcs
<1>8. DecryptInv'
  BY <1>1, <1>2, <1>3, ConstantFacts
     DEF FlowInv, TypeOK, PlaceInv, DecryptInv, IsHdr, BeforeFlag, EncryptPcs, DecryptPcs, ReencryptPcs
<1>9. OtherInv'
  BY <1>1, <1>2, <1>3, ConstantFacts
     DEF FlowInv, TypeOK, PlaceInv, OtherInv, IsHdr, EncryptPcs, DecryptPcs, ReencryptPcs
<1> QED
  BY <1>5, <1>6, <1>7, <1>8, <1>9 DEF FlowInv

\* A header of luksFormat is written.
LEMMA FlowFormatWrite == ASSUME FlowInv, NEW h, IsHdr(h), h.req = 0, h.moved = 0,
         NEW ok \in {"e_keyslot", "e_move", "e_flag"}, ok # "e_flag" \/ scenario # "encrypt",
         HdrWrite(h, ok, "e_out"), Fixed, proc.pc \in {"e_format", "e_keyslot"}
  PROVE FlowInv'
<1>2. UNCHANGED <<scenario, align, commands, kills>> /\ proc.md = "file"
  BY DEF Fixed, FlowInv, PlaceInv, EncryptPcs
<1>3. /\ head' = head /\ tail' = tail /\ dm' = dm /\ DOMAIN proc' = DOMAIN Idle /\ Rest
      /\ faults' \in 0..MaxFaults /\ beyond \subseteq beyond' /\ beyond' \subseteq {"late", "undo", "restore"}
      /\ dev' = dev /\ file' \in {file, File(h)} /\ proc'.pc \in {ok, "e_out"}
  BY <1>2, WriteFacts DEF Wrote, FlowInv
<1>4. Rest => proc'.md = proc.md /\ proc'.op = proc.op
  BY DEF Rest
<1>5. TypeOK'
  BY <1>2, <1>3, <1>4, ConstantFacts DEF FlowInv, TypeOK, IsHdr, Pcs, EncryptPcs, DecryptPcs, ReencryptPcs
<1>6. PlaceInv'
  BY <1>2, <1>3, <1>4, ConstantFacts
     DEF FlowInv, TypeOK, PlaceInv, IsHdr, EncryptPcs, DecryptPcs, ReencryptPcs, HeaderInFile
<1>7. EncryptInv'
  BY <1>2, <1>3, <1>4, ConstantFacts
     DEF FlowInv, TypeOK, PlaceInv, EncryptInv, IsHdr, EncryptPcs, DecryptPcs, ReencryptPcs
<1>8. DecryptInv'
  BY <1>2, <1>3, <1>4, ConstantFacts
     DEF FlowInv, TypeOK, PlaceInv, DecryptInv, IsHdr, BeforeFlag, EncryptPcs, DecryptPcs, ReencryptPcs
<1>9. OtherInv'
  BY <1>2, <1>3, <1>4, ConstantFacts
     DEF FlowInv, TypeOK, PlaceInv, OtherInv, IsHdr, EncryptPcs, DecryptPcs, ReencryptPcs
<1> QED
  BY <1>5, <1>6, <1>7, <1>8, <1>9 DEF FlowInv

\* luksFormat writes a header, then a keyslot.
LEMMA FlowFormat == ASSUME FlowInv, luksFormat PROVE FlowInv'
<1> DEFINE s0 == Slot(Passes[1], NewKey)
           w == WithSlot(NoHdr, 0, s0)
<1>1. 0 \in Slots /\ IsHdr(NoHdr) /\ DOMAIN s0 = {"pass", "key"} /\ NoHdr.req = 0 /\ NoHdr.moved = 0
  BY InitConstants, ConstantFacts DEF Slots
<1> HIDE DEF s0
<1>2. IsHdr(w) /\ w.req = 0 /\ w.moved = 0
  BY <1>1, SlotPut
<1> HIDE DEF w
<1>3. Fixed
  BY DEF luksFormat
<1>4. CASE proc.pc = "e_format"
  <2>1. HdrWrite(NoHdr, "e_keyslot", "e_out")
    BY <1>4, Zenon DEF luksFormat
  <2> QED BY <1>1, <1>3, <1>4, <2>1, FlowFormatWrite
<1>5. CASE proc.pc = "e_keyslot"
  <2>0. proc.pc # "e_format"
    BY <1>5
  <2>1. HdrWrite(w, IF Temp THEN "e_move" ELSE "e_flag", "e_out")
    BY <2>0, Zenon DEF luksFormat, w, s0, WithSlot
  <2> DEFINE ok == IF Temp THEN "e_move" ELSE "e_flag"
  <2>2. ok \in {"e_keyslot", "e_move", "e_flag"} /\ (ok # "e_flag" \/ scenario # "encrypt")
    BY DEF Temp
  <2> HIDE DEF ok
  <2>3. HdrWrite(w, ok, "e_out")
    BY <2>1, Zenon DEF ok
  <2> QED BY <1>2, <1>3, <1>5, <2>2, <2>3, FlowFormatWrite
<1> QED
  BY <1>4, <1>5 DEF luksFormat

\* The first segment is moved.
LEMMA FlowEncryptMove == ASSUME FlowInv, encrypt_move PROVE FlowInv'
<1>1. /\ proc.pc = "e_move" /\ head' = head /\ dev' = dev /\ file' = file /\ dm' = dm
      /\ UNCHANGED <<scenario, align, commands, kills>>
      /\ faults' \in 0..MaxFaults /\ beyond' = beyond /\ DOMAIN proc' = DOMAIN Idle /\ Rest
      /\ \/ tail' = (IF head = "data" THEN "copy" ELSE "junk") /\ proc'.pc = "e_flag"
         \/ tail' \in {tail, "junk"} /\ proc'.pc = "e_destroy"
  BY GotoFacts, FaultFacts DEF encrypt_move, Fixed, FlowInv
<1>2. Rest => proc'.md = proc.md /\ proc'.op = proc.op
  BY DEF Rest
<1>5. TypeOK'
  BY <1>1, <1>2 DEF FlowInv, TypeOK, IsHdr, Pcs, EncryptPcs, DecryptPcs, ReencryptPcs
<1>6. PlaceInv'
  BY <1>1, <1>2 DEF FlowInv, TypeOK, PlaceInv, IsHdr, EncryptPcs, DecryptPcs, ReencryptPcs, HeaderInFile
<1>7. EncryptInv'
  BY <1>1, <1>2 DEF FlowInv, TypeOK, PlaceInv, EncryptInv, IsHdr, EncryptPcs, DecryptPcs, ReencryptPcs
<1>8. DecryptInv'
  BY <1>1, <1>2 DEF FlowInv, TypeOK, PlaceInv, DecryptInv, IsHdr, BeforeFlag, EncryptPcs, DecryptPcs, ReencryptPcs
<1>9. OtherInv'
  BY <1>1, <1>2 DEF FlowInv, TypeOK, PlaceInv, OtherInv, IsHdr, EncryptPcs, DecryptPcs, ReencryptPcs
<1> QED
  BY <1>5, <1>6, <1>7, <1>8, <1>9 DEF FlowInv

\* The header a command works on.
LEMMA HdrIs == TypeOK => IsHdr(Hdr) /\ (proc.md = "file" => Hdr = file.hdr) /\ (proc.md # "file" => Hdr = dev)
BY DEF TypeOK, Hdr

\* How the write of an initialization ends.
LEMMA FlagFacts ==
  ASSUME TypeOK, proc.md \in {"file", "dev"}, NEW pc, NEW ok, NEW failed, InitFlag(pc, ok, failed)
  PROVE  \E g \in reencrypt_init(Hdr, InitParams) :
           /\ IsHdr(g) /\ g.req \in {2, 3} /\ (scenario \notin {"encrypt", "decrypt"} => g.moved = 0)
           /\ UNCHANGED <<scenario, align, commands, kills>> /\ proc.pc = pc
           /\ head' = head /\ tail' = tail /\ dm' = dm /\ DOMAIN proc' = DOMAIN Idle /\ Rest
           /\ faults' \in 0..MaxFaults /\ beyond \subseteq beyond' /\ beyond' \subseteq {"late", "undo", "restore"}
           /\ \/ Wrote(g) /\ proc'.pc = ok /\ beyond' = beyond
              \/ dev' = dev /\ file' = file /\ proc'.pc = failed /\ beyond' = beyond
              \/ Wrote(g) /\ proc'.pc = failed /\ beyond' # {}
<1>1. PICK g \in reencrypt_init(Hdr, InitParams) : HdrWrite(g, ok, failed)
  BY DEF InitFlag
<1>2. IsHdr(g) /\ g.req \in {2, 3} /\ (scenario \notin {"encrypt", "decrypt"} => g.moved = 0)
  <2>1. IsHdr(Hdr)
    BY HdrIs
  <2>2. IsHdr(g) /\ g.req \in {2, 3} /\ g.moved = IF scenario \in {"encrypt", "decrypt"} THEN proc.size ELSE 0
    BY <2>1, InitShape
  <2> QED BY <2>2
<1>3. UNCHANGED <<scenario, align, commands, kills>> /\ proc.pc = pc
  BY DEF InitFlag, Fixed
<1>4. /\ head' = head /\ tail' = tail /\ dm' = dm /\ DOMAIN proc' = DOMAIN Idle /\ Rest
      /\ faults' \in 0..MaxFaults /\ beyond \subseteq beyond' /\ beyond' \subseteq {"late", "undo", "restore"}
      /\ \/ Wrote(g) /\ proc'.pc = ok /\ beyond' = beyond
         \/ dev' = dev /\ file' = file /\ proc'.pc = failed /\ beyond' = beyond
         \/ Wrote(g) /\ proc'.pc = failed /\ beyond' # {}
  BY <1>1, WriteFacts
<1> QED
  BY <1>2, <1>3, <1>4

\* encrypt_luks2_init: the requirement is written.
LEMMA FlowEncryptFlag == ASSUME FlowInv, encrypt_flag PROVE FlowInv'
<1>1. proc.md = "file" /\ TypeOK
  BY DEF FlowInv, PlaceInv, encrypt_flag, InitFlag, EncryptPcs, DecryptPcs, ReencryptPcs
<1> DEFINE ok == IF Temp THEN "e_restore" ELSE IF proc.initonly THEN "done" ELSE "load"
           failed == "e_destroy"
<1>2. ok \in {"e_restore", "done", "load"} /\ failed \in {"e_destroy"}
  BY DEF DecryptFailed, Temp
<1> HIDE DEF ok, failed
<1>3. PICK g \in reencrypt_init(Hdr, InitParams) :
           /\ IsHdr(g) /\ g.req \in {2, 3} /\ (scenario \notin {"encrypt", "decrypt"} => g.moved = 0)
           /\ UNCHANGED <<scenario, align, commands, kills>> /\ proc.pc = "e_flag"
           /\ head' = head /\ tail' = tail /\ dm' = dm /\ DOMAIN proc' = DOMAIN Idle /\ Rest
           /\ faults' \in 0..MaxFaults /\ beyond \subseteq beyond' /\ beyond' \subseteq {"late", "undo", "restore"}
           /\ \/ Wrote(g) /\ proc'.pc = ok /\ beyond' = beyond
              \/ dev' = dev /\ file' = file /\ proc'.pc = failed /\ beyond' = beyond
              \/ Wrote(g) /\ proc'.pc = failed /\ beyond' # {}
  BY <1>1, FlagFacts DEF encrypt_flag, ok, failed
<1>4. /\ Rest => proc'.md = proc.md /\ proc'.op = proc.op /\ proc'.online = proc.online
      /\ Wrote(g) => dev' = dev /\ file' = File(g) /\ file'.hdr = g /\ file'.st = "ok" /\ DOMAIN file' = {"st", "hdr"}
      /\ scenario = "encrypt" => ok = "e_restore"
      /\ scenario # "encrypt" => ok # "e_restore"
  BY <1>1, ConstantFacts DEF Rest, Wrote, Temp, ok
<1>5. TypeOK'
  BY <1>1, <1>2, <1>3, <1>4 DEF FlowInv, TypeOK, IsHdr, Pcs, EncryptPcs, DecryptPcs, ReencryptPcs
<1>6. PlaceInv'
  BY <1>1, <1>2, <1>3, <1>4 DEF FlowInv, TypeOK, PlaceInv, IsHdr, EncryptPcs, DecryptPcs, ReencryptPcs, HeaderInFile
<1>7. EncryptInv'
  BY <1>1, <1>2, <1>3, <1>4 DEF FlowInv, TypeOK, PlaceInv, EncryptInv, IsHdr, EncryptPcs, DecryptPcs, ReencryptPcs
<1>8. DecryptInv'
  BY <1>1, <1>2, <1>3, <1>4
     DEF FlowInv, TypeOK, PlaceInv, DecryptInv, IsHdr, BeforeFlag, EncryptPcs, DecryptPcs, ReencryptPcs
<1>9. OtherInv'
  BY <1>1, <1>2, <1>3, <1>4 DEF FlowInv, TypeOK, PlaceInv, OtherInv, IsHdr, EncryptPcs, DecryptPcs, ReencryptPcs
<1> QED
  BY <1>5, <1>6, <1>7, <1>8, <1>9 DEF FlowInv

\* reencrypt_decrypt_with_datashift_init: the requirement is written.
LEMMA FlowDecryptFlag == ASSUME FlowInv, decrypt_flag PROVE FlowInv'
<1>1. proc.md = "file" /\ TypeOK
  BY DEF FlowInv, PlaceInv, decrypt_flag, InitFlag, EncryptPcs, DecryptPcs, ReencryptPcs
<1> DEFINE ok == "d_resume"
           failed == DecryptFailed
<1>2. ok \in {"d_resume"} /\ failed \in {"d_clear", "d_status"}
  BY DEF DecryptFailed, Temp
<1> HIDE DEF ok, failed
<1>3. PICK g \in reencrypt_init(Hdr, InitParams) :
           /\ IsHdr(g) /\ g.req \in {2, 3} /\ (scenario \notin {"encrypt", "decrypt"} => g.moved = 0)
           /\ UNCHANGED <<scenario, align, commands, kills>> /\ proc.pc = "d_flag"
           /\ head' = head /\ tail' = tail /\ dm' = dm /\ DOMAIN proc' = DOMAIN Idle /\ Rest
           /\ faults' \in 0..MaxFaults /\ beyond \subseteq beyond' /\ beyond' \subseteq {"late", "undo", "restore"}
           /\ \/ Wrote(g) /\ proc'.pc = ok /\ beyond' = beyond
              \/ dev' = dev /\ file' = file /\ proc'.pc = failed /\ beyond' = beyond
              \/ Wrote(g) /\ proc'.pc = failed /\ beyond' # {}
  BY <1>1, FlagFacts DEF decrypt_flag, ok, failed
<1>4. /\ Rest => proc'.md = proc.md /\ proc'.op = proc.op /\ proc'.online = proc.online
      /\ Wrote(g) => dev' = dev /\ file' = File(g) /\ file'.hdr = g /\ file'.st = "ok" /\ DOMAIN file' = {"st", "hdr"}
  BY <1>1, ConstantFacts DEF Rest, Wrote, Temp, ok
<1>5. TypeOK'
  BY <1>1, <1>2, <1>3, <1>4 DEF FlowInv, TypeOK, IsHdr, Pcs, EncryptPcs, DecryptPcs, ReencryptPcs
<1>6. PlaceInv'
  BY <1>1, <1>2, <1>3, <1>4 DEF FlowInv, TypeOK, PlaceInv, IsHdr, EncryptPcs, DecryptPcs, ReencryptPcs, HeaderInFile
<1>7. EncryptInv'
  BY <1>1, <1>2, <1>3, <1>4 DEF FlowInv, TypeOK, PlaceInv, EncryptInv, IsHdr, EncryptPcs, DecryptPcs, ReencryptPcs
<1>8. DecryptInv'
  BY <1>1, <1>2, <1>3, <1>4
     DEF FlowInv, TypeOK, PlaceInv, DecryptInv, IsHdr, BeforeFlag, EncryptPcs, DecryptPcs, ReencryptPcs
<1>9. OtherInv'
  BY <1>1, <1>2, <1>3, <1>4 DEF FlowInv, TypeOK, PlaceInv, OtherInv, IsHdr, EncryptPcs, DecryptPcs, ReencryptPcs
<1> QED
  BY <1>5, <1>6, <1>7, <1>8, <1>9 DEF FlowInv

\* decrypt_luks2_init.
LEMMA FlowDetachedFlag == ASSUME FlowInv, decrypt_luks2_init PROVE FlowInv'
<1>1. proc.md = "file" /\ TypeOK
  BY DEF FlowInv, PlaceInv, decrypt_luks2_init, InitFlag, EncryptPcs, DecryptPcs, ReencryptPcs
<1> DEFINE ok == IF proc.initonly THEN "done" ELSE "load"
           failed == "failed"
<1>2. ok \in {"done", "load"} /\ failed \in {"failed"}
  BY DEF DecryptFailed, Temp
<1> HIDE DEF ok, failed
<1>3. PICK g \in reencrypt_init(Hdr, InitParams) :
           /\ IsHdr(g) /\ g.req \in {2, 3} /\ (scenario \notin {"encrypt", "decrypt"} => g.moved = 0)
           /\ UNCHANGED <<scenario, align, commands, kills>> /\ proc.pc = "i_flag"
           /\ head' = head /\ tail' = tail /\ dm' = dm /\ DOMAIN proc' = DOMAIN Idle /\ Rest
           /\ faults' \in 0..MaxFaults /\ beyond \subseteq beyond' /\ beyond' \subseteq {"late", "undo", "restore"}
           /\ \/ Wrote(g) /\ proc'.pc = ok /\ beyond' = beyond
              \/ dev' = dev /\ file' = file /\ proc'.pc = failed /\ beyond' = beyond
              \/ Wrote(g) /\ proc'.pc = failed /\ beyond' # {}
  BY <1>1, FlagFacts DEF decrypt_luks2_init, ok, failed
<1>4. /\ Rest => proc'.md = proc.md /\ proc'.op = proc.op /\ proc'.online = proc.online
      /\ Wrote(g) => dev' = dev /\ file' = File(g) /\ file'.hdr = g /\ file'.st = "ok" /\ DOMAIN file' = {"st", "hdr"}
  BY <1>1, ConstantFacts DEF Rest, Wrote, Temp, ok
<1>5. TypeOK'
  BY <1>1, <1>2, <1>3, <1>4 DEF FlowInv, TypeOK, IsHdr, Pcs, EncryptPcs, DecryptPcs, ReencryptPcs
<1>6. PlaceInv'
  BY <1>1, <1>2, <1>3, <1>4 DEF FlowInv, TypeOK, PlaceInv, IsHdr, EncryptPcs, DecryptPcs, ReencryptPcs, HeaderInFile
<1>7. EncryptInv'
  BY <1>1, <1>2, <1>3, <1>4 DEF FlowInv, TypeOK, PlaceInv, EncryptInv, IsHdr, EncryptPcs, DecryptPcs, ReencryptPcs
<1>8. DecryptInv'
  BY <1>1, <1>2, <1>3, <1>4
     DEF FlowInv, TypeOK, PlaceInv, DecryptInv, IsHdr, BeforeFlag, EncryptPcs, DecryptPcs, ReencryptPcs
<1>9. OtherInv'
  BY <1>1, <1>2, <1>3, <1>4 DEF FlowInv, TypeOK, PlaceInv, OtherInv, IsHdr, EncryptPcs, DecryptPcs, ReencryptPcs
<1> QED
  BY <1>5, <1>6, <1>7, <1>8, <1>9 DEF FlowInv

\* reencrypt_luks2_init: the requirement is written.
LEMMA FlowReencryptFlag == ASSUME FlowInv, reencrypt_flag PROVE FlowInv'
<1>1. proc.md = "dev" /\ TypeOK
  BY DEF FlowInv, PlaceInv, reencrypt_flag, InitFlag, EncryptPcs, DecryptPcs, ReencryptPcs
<1> DEFINE ok == IF proc.initonly THEN "done" ELSE "load"
           failed == "r_undo"
<1>2. ok \in {"done", "load"} /\ failed \in {"r_undo"}
  BY DEF DecryptFailed, Temp
<1> HIDE DEF ok, failed
<1>3. PICK g \in reencrypt_init(Hdr, InitParams) :
           /\ IsHdr(g) /\ g.req \in {2, 3} /\ (scenario \notin {"encrypt", "decrypt"} => g.moved = 0)
           /\ UNCHANGED <<scenario, align, commands, kills>> /\ proc.pc = "r_flag"
           /\ head' = head /\ tail' = tail /\ dm' = dm /\ DOMAIN proc' = DOMAIN Idle /\ Rest
           /\ faults' \in 0..MaxFaults /\ beyond \subseteq beyond' /\ beyond' \subseteq {"late", "undo", "restore"}
           /\ \/ Wrote(g) /\ proc'.pc = ok /\ beyond' = beyond
              \/ dev' = dev /\ file' = file /\ proc'.pc = failed /\ beyond' = beyond
              \/ Wrote(g) /\ proc'.pc = failed /\ beyond' # {}
  BY <1>1, FlagFacts DEF reencrypt_flag, ok, failed
<1>4. /\ Rest => proc'.md = proc.md /\ proc'.op = proc.op /\ proc'.online = proc.online
      /\ Wrote(g) => dev' = g /\ file' = file
  BY <1>1, ConstantFacts DEF Rest, Wrote, Temp, ok
<1>5. TypeOK'
  BY <1>1, <1>2, <1>3, <1>4 DEF FlowInv, TypeOK, IsHdr, Pcs, EncryptPcs, DecryptPcs, ReencryptPcs
<1>6. PlaceInv'
  BY <1>1, <1>2, <1>3, <1>4 DEF FlowInv, TypeOK, PlaceInv, IsHdr, EncryptPcs, DecryptPcs, ReencryptPcs, HeaderInFile
<1>7. EncryptInv'
  BY <1>1, <1>2, <1>3, <1>4 DEF FlowInv, TypeOK, PlaceInv, EncryptInv, IsHdr, EncryptPcs, DecryptPcs, ReencryptPcs
<1>8. DecryptInv'
  BY <1>1, <1>2, <1>3, <1>4
     DEF FlowInv, TypeOK, PlaceInv, DecryptInv, IsHdr, BeforeFlag, EncryptPcs, DecryptPcs, ReencryptPcs
<1>9. OtherInv'
  BY <1>1, <1>2, <1>3, <1>4 DEF FlowInv, TypeOK, PlaceInv, OtherInv, IsHdr, EncryptPcs, DecryptPcs, ReencryptPcs
<1> QED
  BY <1>5, <1>6, <1>7, <1>8, <1>9 DEF FlowInv

With(r, f, v) == [r EXCEPT ![f] = v]

\* One field of a command is replaced.
LEMMA ProcPut ==
  ASSUME NEW r, DOMAIN r = ProcFields, NEW f \in ProcFields, NEW v
  PROVE  DOMAIN With(r, f, v) = ProcFields /\ With(r, f, v)[f] = v
    /\ \A x \in ProcFields : x # f => With(r, f, v)[x] = r[x]
BY Zenon DEF With

\* What an interrupted header restore leaves.
LEMMA RestoringFacts ==
  ASSUME TypeOK, NEW r \in Restoring
  PROVE  /\ IsHdr(r[2])
         /\ \/ r[1] = head /\ r[2] = dev
            \/ r[1] = "junk" /\ r[2] = dev
            \/ r[1] = "hdr" /\ r[2].req = file.hdr.req /\ r[2].moved = file.hdr.moved /\ r[2].ks = file.hdr.ks
               /\ r[2].old = file.hdr.old /\ r[2].new = file.hdr.new /\ r[2].digest = file.hdr.digest
<1> DEFINE h == file.hdr
           t == [i \in Slots |-> Slot("none", file.hdr.slots[i].key)]
           g == [h EXCEPT !.slots = t]
<1>1. r = <<head, dev>> \/ r = <<"junk", dev>> \/ r = <<"hdr", g>>
  BY Zenon DEF Restoring
<1>2. IsHdr(dev) /\ IsHdr(h)
  BY DEF TypeOK
<1> HIDE DEF h
<1>3. DOMAIN h = HdrFields /\ "slots" \in HdrFields
  BY <1>2, ConstantFacts DEF IsHdr, HdrFields
<1>4. DOMAIN t = Slots /\ \A i \in Slots : DOMAIN t[i] = {"pass", "key"}
  BY ConstantFacts
<1> HIDE DEF t
<1>5. DOMAIN g = HdrFields /\ g.slots = t /\ \A x \in HdrFields : x # "slots" => g[x] = h[x]
  BY <1>3, Zenon
<1> HIDE DEF g
<1>6. /\ g.req = h.req /\ g.moved = h.moved /\ g.ks = h.ks /\ g.old = h.old /\ g.new = h.new
      /\ g.digest = h.digest
  BY <1>5 DEF HdrFields
<1>7. IsHdr(g)
  BY <1>2, <1>3, <1>4, <1>5, <1>6 DEF IsHdr
<1> QED
  BY <1>1, <1>2, <1>6, <1>7 DEF h

\* An initialization is refused.
LEMMA FlowRefused == ASSUME FlowInv, InitRefused PROVE FlowInv'
<1>0. TypeOK
  BY DEF FlowInv
<1>a. \/ proc.pc = "e_flag" /\ Goto("e_destroy")
      \/ proc.pc = "i_flag" /\ Goto("failed")
      \/ proc.pc = "r_flag" /\ Goto("r_undo")
  BY Zenon DEF InitRefused
<1>1. /\ UNCHANGED <<scenario, align, commands, kills>>
      /\ head' = head /\ tail' = tail /\ dev' = dev /\ file' = file /\ dm' = dm /\ DOMAIN proc' = DOMAIN Idle
           /\ Rest /\ faults' \in 0..MaxFaults /\ beyond' = beyond
      /\ \/ proc.pc = "e_flag" /\ proc'.pc = "e_destroy"
         \/ proc.pc = "i_flag" /\ proc'.pc = "failed"
         \/ proc.pc = "r_flag" /\ proc'.pc = "r_undo"
  BY <1>0, GotoFacts, FaultFacts, <1>a DEF InitRefused, Fixed, Ends, disk
<1>2. /\ Rest => proc'.md = proc.md /\ proc'.op = proc.op /\ proc'.online = proc.online
      /\ proc' = Idle => DOMAIN proc' = DOMAIN Idle /\ proc'.pc = "idle"
  BY ConstantFacts DEF Rest
<1>5. TypeOK'
  BY <1>0, <1>1, <1>2, ConstantFacts DEF FlowInv, TypeOK, Pcs, EncryptPcs, DecryptPcs, ReencryptPcs
<1>6. PlaceInv'
  BY <1>0, <1>1, <1>2, ConstantFacts
     DEF FlowInv, TypeOK, PlaceInv, IsHdr, EncryptPcs, DecryptPcs, ReencryptPcs, HeaderInFile
<1>7. EncryptInv'
  BY <1>0, <1>1, <1>2, ConstantFacts
     DEF FlowInv, TypeOK, PlaceInv, EncryptInv, IsHdr, EncryptPcs, DecryptPcs, ReencryptPcs
<1>8. DecryptInv'
  BY <1>0, <1>1, <1>2, ConstantFacts
     DEF FlowInv, TypeOK, PlaceInv, DecryptInv, IsHdr, BeforeFlag, EncryptPcs, DecryptPcs, ReencryptPcs
<1>9. OtherInv'
  BY <1>0, <1>1, <1>2, ConstantFacts
     DEF FlowInv, TypeOK, PlaceInv, OtherInv, IsHdr, EncryptPcs, DecryptPcs, ReencryptPcs
<1> QED
  BY <1>5, <1>6, <1>7, <1>8, <1>9 DEF FlowInv

\* The keyslot of a failed encryption is destroyed.
LEMMA FlowEncryptDestroy == ASSUME FlowInv, encrypt_destroy PROVE FlowInv'
<1>0. TypeOK
  BY DEF FlowInv
<1> DEFINE w == WithSlot(file.hdr, 0, NoSlot)
<1>a. IsHdr(w) /\ w.req = file.hdr.req /\ w.moved = file.hdr.moved /\ proc.md = "file"
  <2>1. 0 \in Slots /\ IsHdr(file.hdr)
    BY <1>0, InitConstants DEF Slots, TypeOK
  <2> QED
    BY <2>1, SlotPut, ConstantFacts DEF FlowInv, PlaceInv, EncryptPcs, encrypt_destroy
<1> HIDE DEF w
<1>1. /\ UNCHANGED <<scenario, align, commands, kills>>
      /\ proc.pc = "e_destroy" /\ proc'.pc = "e_out" /\ head' = head /\ tail' = tail /\ dev' = dev /\ dm' = dm
           /\ DOMAIN proc' = DOMAIN Idle /\ Rest
      /\ faults' \in 0..MaxFaults /\ beyond \subseteq beyond' /\ beyond' \subseteq {"late", "undo", "restore"}
      /\ file' = file \/ (file.hdr.req = 0 /\ file' = File(w))
  BY <1>0, GotoFacts, FaultFacts, <1>a, InitConstants
     DEF encrypt_destroy, Fixed, Ends, PutHdr, disk, Works, FaultBeyond, TypeOK, w, WithSlot
<1>2. /\ Rest => proc'.md = proc.md /\ proc'.op = proc.op /\ proc'.online = proc.online
      /\ proc' = Idle => DOMAIN proc' = DOMAIN Idle /\ proc'.pc = "idle"
  BY ConstantFacts DEF Rest
<1>5. TypeOK'
  BY <1>0, <1>1, <1>2, ConstantFacts, <1>a DEF FlowInv, TypeOK, Pcs, EncryptPcs, DecryptPcs, ReencryptPcs
<1>6. PlaceInv'
  BY <1>0, <1>1, <1>2, ConstantFacts, <1>a
     DEF FlowInv, TypeOK, PlaceInv, IsHdr, EncryptPcs, DecryptPcs, ReencryptPcs, HeaderInFile
<1>7. EncryptInv'
  BY <1>0, <1>1, <1>2, ConstantFacts, <1>a
     DEF FlowInv, TypeOK, PlaceInv, EncryptInv, IsHdr, EncryptPcs, DecryptPcs, ReencryptPcs
<1>8. DecryptInv'
  BY <1>0, <1>1, <1>2, ConstantFacts, <1>a
     DEF FlowInv, TypeOK, PlaceInv, DecryptInv, IsHdr, BeforeFlag, EncryptPcs, DecryptPcs, ReencryptPcs
<1>9. OtherInv'
  BY <1>0, <1>1, <1>2, ConstantFacts, <1>a
     DEF FlowInv, TypeOK, PlaceInv, OtherInv, IsHdr, EncryptPcs, DecryptPcs, ReencryptPcs
<1> QED
  BY <1>5, <1>6, <1>7, <1>8, <1>9 DEF FlowInv

\* The temporary header is put at the head of the device.
LEMMA FlowEncryptRestore == ASSUME FlowInv, encrypt_restore PROVE FlowInv'
<1>0. TypeOK /\ DOMAIN proc = ProcFields /\ {"pc", "md"} \subseteq ProcFields
      /\ beyond \subseteq {"late", "undo", "restore"}
  BY ProcDomain DEF FlowInv, TypeOK, ProcFields
<1> DEFINE to == IF proc.initonly THEN "done" ELSE "load"
           q == With(With(proc, "pc", to), "md", "dev")
<1>a. to \in {"done", "load"}
  OBVIOUS
<1> HIDE DEF to
<1>b. DOMAIN q = ProcFields /\ q.pc = to /\ q.md = "dev" /\ q.op = proc.op
  <2>1. DOMAIN With(proc, "pc", to) = ProcFields /\ With(proc, "pc", to).pc = to /\ With(proc, "pc", to).op = proc.op
    BY <1>0, ProcPut DEF ProcFields
  <2> QED
    BY <1>0, <2>1, ProcPut DEF ProcFields
<1> HIDE DEF q
<1>c. \/ head' = "hdr" /\ dev' = file.hdr /\ Works /\ proc' = q
      \/ (\E r \in Restoring : head' = r[1] /\ dev' = r[2]) /\ FaultBeyond("restore") /\ Goto("e_out")
  BY Zenon DEF encrypt_restore, LUKS2_hdr_restore, q, to, With
<1>d. /\ UNCHANGED <<scenario, align, commands, kills>>
      /\ proc.pc = "e_restore" /\ tail' = tail /\ file' = file /\ dm' = dm
  BY DEF encrypt_restore, Fixed
<1>1. /\ faults' \in 0..MaxFaults /\ beyond' \subseteq {"late", "undo", "restore"}
      /\ beyond # {} => beyond' # {}
      /\ \/ head' = "hdr" /\ dev' = file.hdr /\ DOMAIN proc' = DOMAIN Idle /\ proc'.pc \in {"done", "load"}
              /\ proc'.md = "dev"
            /\ proc'.op = proc.op
         \/ /\ DOMAIN proc' = DOMAIN Idle /\ Rest /\ proc'.pc = "e_out" /\ IsHdr(dev')
            /\ head' \in {head, "hdr", "junk"} /\ dev'.moved \in {dev.moved, file.hdr.moved}
  <2>1. CASE head' = "hdr" /\ dev' = file.hdr /\ Works /\ proc' = q
    BY <1>0, <1>a, <1>b, <2>1, FaultFacts, ProcDomain
  <2>2. CASE (\E r \in Restoring : head' = r[1] /\ dev' = r[2]) /\ FaultBeyond("restore") /\ Goto("e_out")
    <3>1. PICK r \in Restoring : head' = r[1] /\ dev' = r[2]
      BY <2>2
    <3> QED
      BY <1>0, <2>2, <3>1, FaultFacts, GotoFacts, RestoringFacts
  <2> QED
    BY <1>c, <2>1, <2>2
<1>2. Rest => proc'.md = proc.md /\ proc'.op = proc.op /\ proc'.online = proc.online
  BY DEF Rest
<1>5. TypeOK'
  BY <1>0, <1>d, <1>1, <1>2, ConstantFacts DEF FlowInv, TypeOK, Pcs, EncryptPcs, DecryptPcs, ReencryptPcs
<1>6. PlaceInv'
  BY <1>0, <1>d, <1>1, <1>2, ConstantFacts
     DEF FlowInv, TypeOK, PlaceInv, IsHdr, EncryptPcs, DecryptPcs, ReencryptPcs, HeaderInFile
<1>7. EncryptInv'
  BY <1>0, <1>d, <1>1, <1>2, ConstantFacts
     DEF FlowInv, TypeOK, PlaceInv, EncryptInv, IsHdr, EncryptPcs, DecryptPcs, ReencryptPcs
<1>8. DecryptInv'
  BY <1>0, <1>d, <1>1, <1>2, ConstantFacts
     DEF FlowInv, TypeOK, PlaceInv, DecryptInv, IsHdr, BeforeFlag, EncryptPcs, DecryptPcs, ReencryptPcs
<1>9. OtherInv'
  BY <1>0, <1>d, <1>1, <1>2, ConstantFacts
     DEF FlowInv, TypeOK, PlaceInv, OtherInv, IsHdr, EncryptPcs, DecryptPcs, ReencryptPcs
<1> QED
  BY <1>5, <1>6, <1>7, <1>8, <1>9 DEF FlowInv

\* Out of a failed encryption.
LEMMA FlowEncryptOut == ASSUME FlowInv, encrypt_out PROVE FlowInv'
<1>0. TypeOK
  BY DEF FlowInv
<1>1. /\ UNCHANGED <<scenario, align, commands, kills>>
      /\ proc.pc = "e_out" /\ head' = head /\ tail' = tail /\ dev' = dev /\ dm' = dm /\ proc' = Idle
           /\ faults' \in 0..MaxFaults /\ beyond' = beyond
      /\ file' = IF scenario = "encrypt" THEN Absent ELSE file
  BY <1>0, GotoFacts, FaultFacts DEF encrypt_out, Fixed, Ends, Temp
<1>2. /\ Rest => proc'.md = proc.md /\ proc'.op = proc.op /\ proc'.online = proc.online
      /\ proc' = Idle => DOMAIN proc' = DOMAIN Idle /\ proc'.pc = "idle"
  BY ConstantFacts DEF Rest
<1>5. TypeOK'
  BY <1>0, <1>1, <1>2, ConstantFacts DEF FlowInv, TypeOK, Pcs, EncryptPcs, DecryptPcs, ReencryptPcs
<1>6. PlaceInv'
  BY <1>0, <1>1, <1>2, ConstantFacts
     DEF FlowInv, TypeOK, PlaceInv, IsHdr, EncryptPcs, DecryptPcs, ReencryptPcs, HeaderInFile
<1>7. EncryptInv'
  BY <1>0, <1>1, <1>2, ConstantFacts
     DEF FlowInv, TypeOK, PlaceInv, EncryptInv, IsHdr, EncryptPcs, DecryptPcs, ReencryptPcs
<1>8. DecryptInv'
  BY <1>0, <1>1, <1>2, ConstantFacts
     DEF FlowInv, TypeOK, PlaceInv, DecryptInv, IsHdr, BeforeFlag, EncryptPcs, DecryptPcs, ReencryptPcs
<1>9. OtherInv'
  BY <1>0, <1>1, <1>2, ConstantFacts
     DEF FlowInv, TypeOK, PlaceInv, OtherInv, IsHdr, EncryptPcs, DecryptPcs, ReencryptPcs
<1> QED
  BY <1>5, <1>6, <1>7, <1>8, <1>9 DEF FlowInv

\* The table, or the suspension, of the active device is replaced.
LEMMA DmPut ==
  ASSUME TypeOK
  PROVE  /\ dm = [live |-> dm.live, inactive |-> dm.inactive, susp |-> dm.susp]
         /\ \A v : [dm EXCEPT !.inactive = v] = [live |-> dm.live, inactive |-> v, susp |-> dm.susp]
         /\ \A v : [dm EXCEPT !.susp = v] = [live |-> dm.live, inactive |-> dm.inactive, susp |-> v]
BY DEF TypeOK

\* The header is exported to the file.
LEMMA FlowDecryptBackup == ASSUME FlowInv, decrypt_backup PROVE FlowInv'
<1>0. TypeOK /\ DOMAIN proc = ProcFields /\ {"pc", "res"} \subseteq ProcFields
  BY ProcDomain DEF FlowInv, TypeOK, ProcFields
<1>a. \/ file' = File(dev) /\ Works /\ \E v : proc' = With(With(proc, "pc", "d_wipe"), "res", v)
      \/ file' = Damaged /\ proc' = Idle /\ Fault
      \/ file' = file /\ proc' = Idle /\ Works
  BY Zenon DEF decrypt_backup, Ends, With
<1>b. \A v : LET q == With(With(proc, "pc", "d_wipe"), "res", v) IN
        /\ DOMAIN q = DOMAIN Idle /\ q.pc = "d_wipe" /\ q.md = proc.md /\ q.op = proc.op /\ q.online = proc.online
        /\ q.todo = proc.todo /\ q.added = proc.added
  <2>1. LET q == With(proc, "pc", "d_wipe") IN
        /\ DOMAIN q = ProcFields /\ q.pc = "d_wipe" /\ q.md = proc.md /\ q.op = proc.op /\ q.online = proc.online
        /\ q.todo = proc.todo /\ q.added = proc.added
    BY <1>0, ProcPut DEF ProcFields
  <2> QED
    BY <1>0, <2>1, ProcPut, ProcDomain DEF ProcFields
<1>1. /\ UNCHANGED <<scenario, align, commands, kills>>
      /\ proc.pc = "d_backup" /\ head' = head /\ tail' = tail /\ dev' = dev /\ dm' = dm
      /\ faults' \in 0..MaxFaults /\ beyond' = beyond
      /\ \/ file' = File(dev) /\ DOMAIN proc' = DOMAIN Idle /\ proc'.pc = "d_wipe"
            /\ proc'.md = proc.md /\ proc'.op = proc.op /\ proc'.online = proc.online
         \/ file' \in {file, Damaged} /\ proc' = Idle
  BY <1>0, <1>a, <1>b, FaultFacts DEF decrypt_backup, Fixed
<1>2. proc' = Idle => DOMAIN proc' = DOMAIN Idle /\ proc'.pc = "idle"
  BY ConstantFacts
<1>5. TypeOK'
  BY <1>0, <1>1, <1>2, ConstantFacts DEF FlowInv, TypeOK, Pcs, EncryptPcs, DecryptPcs, ReencryptPcs
<1>6. PlaceInv'
  BY <1>0, <1>1, <1>2, ConstantFacts
     DEF FlowInv, TypeOK, PlaceInv, IsHdr, EncryptPcs, DecryptPcs, ReencryptPcs, HeaderInFile
<1>7. EncryptInv'
  BY <1>0, <1>1, <1>2, ConstantFacts
     DEF FlowInv, TypeOK, PlaceInv, EncryptInv, IsHdr, EncryptPcs, DecryptPcs, ReencryptPcs
<1>8. DecryptInv'
  BY <1>0, <1>1, <1>2, ConstantFacts
     DEF FlowInv, TypeOK, PlaceInv, DecryptInv, IsHdr, BeforeFlag, EncryptPcs, DecryptPcs, ReencryptPcs
<1>9. OtherInv'
  BY <1>0, <1>1, <1>2, ConstantFacts
     DEF FlowInv, TypeOK, PlaceInv, OtherInv, IsHdr, EncryptPcs, DecryptPcs, ReencryptPcs
<1> QED
  BY <1>5, <1>6, <1>7, <1>8, <1>9 DEF FlowInv

\* The signatures of the device are wiped.
LEMMA FlowDecryptWipe == ASSUME FlowInv, decrypt_wipe PROVE FlowInv'
<1>0. TypeOK
  BY DEF FlowInv
<1>1. /\ UNCHANGED <<scenario, align, commands, kills>>
      /\ proc.pc = "d_wipe" /\ tail' = tail /\ dev' = dev /\ dm' = dm /\ faults' \in 0..MaxFaults /\ beyond' = beyond
      /\ \/ head' = "wiped" /\ file' = file /\ DOMAIN proc' = DOMAIN Idle /\ Rest /\ proc'.pc = "d_init"
              /\ (proc.online \/ dm.live = "none")
         \/ head' \in {head, "wiped"} /\ file' = file /\ DOMAIN proc' = DOMAIN Idle /\ Rest /\ proc'.pc = "d_unwipe"
         \/ head' = head /\ file' = Absent /\ proc' = Idle
  BY <1>0, GotoFacts, FaultFacts DEF decrypt_wipe, Fixed, Ends
<1>2. /\ Rest => proc'.md = proc.md /\ proc'.op = proc.op /\ proc'.online = proc.online
      /\ proc' = Idle => DOMAIN proc' = DOMAIN Idle /\ proc'.pc = "idle"
  BY ConstantFacts DEF Rest
<1>3. dm' \in [live : {"none", "old", "new"}, inactive : {"none", "new"}, susp : BOOLEAN]
  BY <1>0, <1>1 DEF TypeOK
<1>5. TypeOK'
  BY <1>0, <1>1, <1>2, ConstantFacts, <1>3 DEF FlowInv, TypeOK, Pcs, EncryptPcs, DecryptPcs, ReencryptPcs
<1>6. PlaceInv'
  BY <1>0, <1>1, <1>2, ConstantFacts, <1>3
     DEF FlowInv, TypeOK, PlaceInv, IsHdr, EncryptPcs, DecryptPcs, ReencryptPcs, HeaderInFile
<1>7. EncryptInv'
  BY <1>0, <1>1, <1>2, ConstantFacts, <1>3
     DEF FlowInv, TypeOK, PlaceInv, EncryptInv, IsHdr, EncryptPcs, DecryptPcs, ReencryptPcs
<1>8. DecryptInv'
  BY <1>0, <1>1, <1>2, ConstantFacts, <1>3
     DEF FlowInv, TypeOK, PlaceInv, DecryptInv, IsHdr, BeforeFlag, EncryptPcs, DecryptPcs, ReencryptPcs
<1>9. OtherInv'
  BY <1>0, <1>1, <1>2, ConstantFacts, <1>3
     DEF FlowInv, TypeOK, PlaceInv, OtherInv, IsHdr, EncryptPcs, DecryptPcs, ReencryptPcs
<1> QED
  BY <1>5, <1>6, <1>7, <1>8, <1>9 DEF FlowInv

\* The header is put back.
LEMMA FlowDecryptUnwipe == ASSUME FlowInv, decrypt_unwipe PROVE FlowInv'
<1>0. TypeOK
  BY DEF FlowInv
<1>a. \A r \in Restoring : IsHdr(r[2]) /\ r[1] \in {head, "hdr", "junk"} /\ r[2].req \in {dev.req, file.hdr.req}
  BY <1>0, RestoringFacts
<1>1. /\ UNCHANGED <<scenario, align, commands, kills>>
      /\ proc.pc \in {"d_unwipe", "d_restore"} /\ tail' = tail /\ dm' = dm /\ proc' = Idle
      /\ faults' \in 0..MaxFaults /\ beyond' \subseteq {"late", "undo", "restore"} /\ (beyond # {} => beyond' # {})
      /\ \/ head' = "hdr" /\ dev' = file.hdr /\ file' = Absent
         \/ /\ file' = file /\ IsHdr(dev') /\ head' \in {head, "hdr", "junk"}
            /\ dev'.req \in {dev.req, file.hdr.req}
  <2>1. /\ UNCHANGED <<scenario, align, commands, kills>> /\ tail' = tail /\ dm' = dm
        /\ proc.pc \in {"d_unwipe", "d_restore"}
    BY DEF decrypt_unwipe, Fixed
  <2>2. \/ head' = "hdr" /\ dev' = file.hdr /\ file' = Absent /\ proc' = Idle /\ Works
        \/ /\ \E r \in Restoring : head' = r[1] /\ dev' = r[2]
           /\ FaultBeyond("restore") /\ file' = file /\ proc' = Idle
    BY Zenon DEF decrypt_unwipe, LUKS2_hdr_restore, Ends
  <2>3. faults' \in 0..MaxFaults /\ beyond' \subseteq {"late", "undo", "restore"} /\ (beyond # {} => beyond' # {})
    BY <1>0, <2>2, FaultFacts DEF TypeOK
  <2> QED
    BY <1>a, <2>1, <2>2, <2>3
<1>2. /\ Rest => proc'.md = proc.md /\ proc'.op = proc.op /\ proc'.online = proc.online
      /\ proc' = Idle => DOMAIN proc' = DOMAIN Idle /\ proc'.pc = "idle"
  BY ConstantFacts DEF Rest
<1>3. dm' \in [live : {"none", "old", "new"}, inactive : {"none", "new"}, susp : BOOLEAN]
  BY <1>0, <1>1 DEF TypeOK
<1>5. TypeOK'
  BY <1>0, <1>1, <1>2, ConstantFacts, <1>3 DEF FlowInv, TypeOK, Pcs, EncryptPcs, DecryptPcs, ReencryptPcs
<1>6. PlaceInv'
  BY <1>0, <1>1, <1>2, ConstantFacts, <1>3
     DEF FlowInv, TypeOK, PlaceInv, IsHdr, EncryptPcs, DecryptPcs, ReencryptPcs, HeaderInFile
<1>7. EncryptInv'
  BY <1>0, <1>1, <1>2, ConstantFacts, <1>3
     DEF FlowInv, TypeOK, PlaceInv, EncryptInv, IsHdr, EncryptPcs, DecryptPcs, ReencryptPcs
<1>8. DecryptInv'
  BY <1>0, <1>1, <1>2, ConstantFacts, <1>3
     DEF FlowInv, TypeOK, PlaceInv, DecryptInv, IsHdr, BeforeFlag, EncryptPcs, DecryptPcs, ReencryptPcs
<1>9. OtherInv'
  BY <1>0, <1>1, <1>2, ConstantFacts, <1>3
     DEF FlowInv, TypeOK, PlaceInv, OtherInv, IsHdr, EncryptPcs, DecryptPcs, ReencryptPcs
<1> QED
  BY <1>5, <1>6, <1>7, <1>8, <1>9 DEF FlowInv

\* The active device gets its new table.
LEMMA FlowDecryptReload == ASSUME FlowInv, decrypt_reload PROVE FlowInv'
<1>0. TypeOK
  BY DEF FlowInv
<1>1. /\ UNCHANGED <<scenario, align, commands, kills>>
      /\ proc.pc = "d_init" /\ head' = head /\ tail' = tail /\ dev' = dev /\ file' = file
           /\ faults' \in 0..MaxFaults /\ beyond' = beyond
      /\ DOMAIN proc' = DOMAIN Idle /\ Rest
      /\ \/ ~proc.online /\ dm' = dm /\ proc'.pc = "d_move"
         \/ proc.online /\ dm.live = "old" /\ dm' = [live |-> dm.live, inactive |-> "new", susp |-> dm.susp]
              /\ proc'.pc = "d_suspend"
         \/ dm' = dm /\ proc'.pc = "d_status"
  BY <1>0, GotoFacts, FaultFacts, DmPut DEF decrypt_reload, Fixed, Ends, disk
<1>2. /\ Rest => proc'.md = proc.md /\ proc'.op = proc.op /\ proc'.online = proc.online
      /\ proc' = Idle => DOMAIN proc' = DOMAIN Idle /\ proc'.pc = "idle"
  BY ConstantFacts DEF Rest
<1>3. dm' \in [live : {"none", "old", "new"}, inactive : {"none", "new"}, susp : BOOLEAN]
  BY <1>0, <1>1 DEF TypeOK
<1>5. TypeOK'
  BY <1>0, <1>1, <1>2, ConstantFacts, <1>3 DEF FlowInv, TypeOK, Pcs, EncryptPcs, DecryptPcs, ReencryptPcs
<1>6. PlaceInv'
  BY <1>0, <1>1, <1>2, ConstantFacts, <1>3
     DEF FlowInv, TypeOK, PlaceInv, IsHdr, EncryptPcs, DecryptPcs, ReencryptPcs, HeaderInFile
<1>7. EncryptInv'
  BY <1>0, <1>1, <1>2, ConstantFacts, <1>3
     DEF FlowInv, TypeOK, PlaceInv, EncryptInv, IsHdr, EncryptPcs, DecryptPcs, ReencryptPcs
<1>8. DecryptInv'
  BY <1>0, <1>1, <1>2, ConstantFacts, <1>3
     DEF FlowInv, TypeOK, PlaceInv, DecryptInv, IsHdr, BeforeFlag, EncryptPcs, DecryptPcs, ReencryptPcs
<1>9. OtherInv'
  BY <1>0, <1>1, <1>2, ConstantFacts, <1>3
     DEF FlowInv, TypeOK, PlaceInv, OtherInv, IsHdr, EncryptPcs, DecryptPcs, ReencryptPcs
<1> QED
  BY <1>5, <1>6, <1>7, <1>8, <1>9 DEF FlowInv

\* The active device is suspended.
LEMMA FlowDecryptSuspend == ASSUME FlowInv, decrypt_suspend PROVE FlowInv'
<1>0. TypeOK
  BY DEF FlowInv
<1> DEFINE d == [dm EXCEPT !.susp = TRUE]
<1>a. /\ d \in [live : {"none", "old", "new"}, inactive : {"none", "new"}, susp : BOOLEAN]
      /\ d.susp /\ d.live = dm.live /\ d.inactive = dm.inactive
  BY <1>0 DEF TypeOK
<1>1. /\ UNCHANGED <<scenario, align, commands, kills>>
      /\ proc.pc = "d_suspend" /\ head' = head /\ tail' = tail /\ dev' = dev /\ file' = file
           /\ faults' \in 0..MaxFaults /\ beyond' = beyond
      /\ DOMAIN proc' = DOMAIN Idle /\ Rest
      /\ \/ dm' \in [live : {"none", "old", "new"}, inactive : {"none", "new"}, susp : BOOLEAN] /\ dm'.susp
              /\ dm'.live = dm.live /\ dm'.inactive = dm.inactive /\ proc'.pc = "d_move"
         \/ dm' = dm /\ proc'.pc = "d_clear"
  BY <1>0, GotoFacts, FaultFacts, <1>a DEF decrypt_suspend, Fixed, Ends, disk
<1>2. /\ Rest => proc'.md = proc.md /\ proc'.op = proc.op /\ proc'.online = proc.online
      /\ proc' = Idle => DOMAIN proc' = DOMAIN Idle /\ proc'.pc = "idle"
  BY ConstantFacts DEF Rest
<1>3. dm' \in [live : {"none", "old", "new"}, inactive : {"none", "new"}, susp : BOOLEAN]
  BY <1>0, <1>1 DEF TypeOK
<1>5. TypeOK'
  BY <1>0, <1>1, <1>2, ConstantFacts, <1>3 DEF FlowInv, TypeOK, Pcs, EncryptPcs, DecryptPcs, ReencryptPcs
<1>6. PlaceInv'
  BY <1>0, <1>1, <1>2, ConstantFacts, <1>3
     DEF FlowInv, TypeOK, PlaceInv, IsHdr, EncryptPcs, DecryptPcs, ReencryptPcs, HeaderInFile
<1>7. EncryptInv'
  BY <1>0, <1>1, <1>2, ConstantFacts, <1>3
     DEF FlowInv, TypeOK, PlaceInv, EncryptInv, IsHdr, EncryptPcs, DecryptPcs, ReencryptPcs
<1>8. DecryptInv'
  BY <1>0, <1>1, <1>2, ConstantFacts, <1>3
     DEF FlowInv, TypeOK, PlaceInv, DecryptInv, IsHdr, BeforeFlag, EncryptPcs, DecryptPcs, ReencryptPcs
<1>9. OtherInv'
  BY <1>0, <1>1, <1>2, ConstantFacts, <1>3
     DEF FlowInv, TypeOK, PlaceInv, OtherInv, IsHdr, EncryptPcs, DecryptPcs, ReencryptPcs
<1> QED
  BY <1>5, <1>6, <1>7, <1>8, <1>9 DEF FlowInv

\* The head of the data is moved over the header.
LEMMA FlowDecryptMove == ASSUME FlowInv, decrypt_move PROVE FlowInv'
<1>0. TypeOK
  BY DEF FlowInv
<1>1. /\ UNCHANGED <<scenario, align, commands, kills>>
      /\ proc.pc = "d_move" /\ tail' = tail /\ dev' = dev /\ file' = file /\ dm' = dm /\ faults' \in 0..MaxFaults
           /\ beyond' = beyond
      /\ DOMAIN proc' = DOMAIN Idle /\ Rest
      /\ \/ head' = "moved" /\ proc'.pc = "d_flag"
         \/ head' \in {head, "junk"} /\ proc'.pc \in {"d_clear", "d_status"}
  BY <1>0, GotoFacts, FaultFacts DEF decrypt_move, Fixed, Ends, DecryptFailed
<1>2. /\ Rest => proc'.md = proc.md /\ proc'.op = proc.op /\ proc'.online = proc.online
      /\ proc' = Idle => DOMAIN proc' = DOMAIN Idle /\ proc'.pc = "idle"
  BY ConstantFacts DEF Rest
<1>3. dm' \in [live : {"none", "old", "new"}, inactive : {"none", "new"}, susp : BOOLEAN]
  BY <1>0, <1>1 DEF TypeOK
<1>5. TypeOK'
  BY <1>0, <1>1, <1>2, ConstantFacts, <1>3 DEF FlowInv, TypeOK, Pcs, EncryptPcs, DecryptPcs, ReencryptPcs
<1>6. PlaceInv'
  BY <1>0, <1>1, <1>2, ConstantFacts, <1>3
     DEF FlowInv, TypeOK, PlaceInv, IsHdr, EncryptPcs, DecryptPcs, ReencryptPcs, HeaderInFile
<1>7. EncryptInv'
  BY <1>0, <1>1, <1>2, ConstantFacts, <1>3
     DEF FlowInv, TypeOK, PlaceInv, EncryptInv, IsHdr, EncryptPcs, DecryptPcs, ReencryptPcs
<1>8. DecryptInv'
  BY <1>0, <1>1, <1>2, ConstantFacts, <1>3
     DEF FlowInv, TypeOK, PlaceInv, DecryptInv, IsHdr, BeforeFlag, EncryptPcs, DecryptPcs, ReencryptPcs
<1>9. OtherInv'
  BY <1>0, <1>1, <1>2, ConstantFacts, <1>3
     DEF FlowInv, TypeOK, PlaceInv, OtherInv, IsHdr, EncryptPcs, DecryptPcs, ReencryptPcs
<1> QED
  BY <1>5, <1>6, <1>7, <1>8, <1>9 DEF FlowInv

\* The active device is resumed.
LEMMA FlowResume == ASSUME FlowInv, dm_resume_device PROVE FlowInv'
<1>0. TypeOK
  BY DEF FlowInv
<1> DEFINE resumed == [live |-> IF dm.inactive = "none" THEN dm.live ELSE dm.inactive, inactive |-> "none", susp |-> FALSE]
<1>a. /\ resumed \in [live : {"none", "old", "new"}, inactive : {"none", "new"}, susp : BOOLEAN]
      /\ resumed.inactive = "none" /\ ~resumed.susp
      /\ (dm.inactive = "none" => resumed.live = dm.live) /\ (dm.inactive = "new" => resumed.live = "new")
  BY <1>0 DEF TypeOK
<1>1. /\ UNCHANGED <<scenario, align, commands, kills>>
      /\ proc.pc \in {"d_resume", "d_cleared"} /\ head' = head /\ tail' = tail /\ dev' = dev /\ file' = file
      /\ DOMAIN proc' = DOMAIN Idle /\ Rest
      /\ faults' \in 0..MaxFaults /\ beyond' \subseteq {"late", "undo", "restore"} /\ (beyond # {} => beyond' # {})
      /\ \/ /\ proc.online /\ beyond' = beyond
            /\ dm' \in [live : {"none", "old", "new"}, inactive : {"none", "new"}, susp : BOOLEAN]
            /\ dm'.inactive = "none" /\ ~dm'.susp
            /\ (dm.inactive = "none" => dm'.live = dm.live) /\ (dm.inactive = "new" => dm'.live = "new")
         \/ dm' = dm /\ (proc.online => beyond' # {})
      /\ \/ proc.pc = "d_cleared" /\ proc'.pc = "d_status"
         \/ proc.pc = "d_resume" /\ proc'.pc \in {"done", "load"}
  BY <1>0, GotoFacts, FaultFacts, <1>a DEF dm_resume_device, Fixed, Ends, disk, TypeOK
<1>2. /\ Rest => proc'.md = proc.md /\ proc'.op = proc.op /\ proc'.online = proc.online
      /\ proc' = Idle => DOMAIN proc' = DOMAIN Idle /\ proc'.pc = "idle"
  BY ConstantFacts DEF Rest
<1>3. dm' \in [live : {"none", "old", "new"}, inactive : {"none", "new"}, susp : BOOLEAN]
  BY <1>0, <1>1 DEF TypeOK
<1>5. TypeOK'
  BY <1>0, <1>1, <1>2, ConstantFacts, <1>3 DEF FlowInv, TypeOK, Pcs, EncryptPcs, DecryptPcs, ReencryptPcs
<1>6. PlaceInv'
  BY <1>0, <1>1, <1>2, ConstantFacts, <1>3
     DEF FlowInv, TypeOK, PlaceInv, IsHdr, EncryptPcs, DecryptPcs, ReencryptPcs, HeaderInFile
<1>7. EncryptInv'
  BY <1>0, <1>1, <1>2, ConstantFacts, <1>3
     DEF FlowInv, TypeOK, PlaceInv, EncryptInv, IsHdr, EncryptPcs, DecryptPcs, ReencryptPcs
<1>8. DecryptInv'
  <2>1. /\ dev.req = 0 /\ dev'.req = 0 /\ (file.hdr.req > 0 => head = "moved") /\ (dm.live = "new" => file.hdr.req > 0)
        /\ (dm.live = "old" /\ file.hdr.req > 0 => dm.susp \/ beyond # {}) /\ scenario' = scenario
        /\ file.hdr.req \in 0..3
    BY <1>0, <1>1 DEF FlowInv, PlaceInv, DecryptInv, DecryptPcs, TypeOK, IsHdr
  <2>2. CASE proc.pc = "d_resume"
    <3>1. file.hdr.req > 0 /\ (proc.online => dm.live = "old" /\ dm.inactive = "new")
            /\ (~proc.online => dm.live = "none")
      BY <1>1, <2>2 DEF FlowInv, PlaceInv, DecryptInv, DecryptPcs
    <3>2. dm'.live = "new" \/ (dm' = dm /\ (dm.live = "old" => beyond' # {}))
      BY <1>1, <3>1
    <3> QED BY <1>1, <1>3, <2>1, <2>2, <3>1, <3>2 DEF DecryptInv, BeforeFlag
  <2>3. CASE proc.pc = "d_cleared"
    <3>1. dm.inactive = "none" /\ dm'.live = dm.live
      BY <1>1, <2>3 DEF FlowInv, PlaceInv, DecryptInv, DecryptPcs
    <3>2. file.hdr.req > 0 => beyond # {}
      BY <2>3 DEF FlowInv, PlaceInv, DecryptInv, DecryptPcs
    <3> QED BY <1>1, <1>3, <2>1, <2>3, <3>1, <3>2 DEF DecryptInv, BeforeFlag
  <2> QED BY <1>1, <2>2, <2>3
<1>9. OtherInv'
  BY <1>0, <1>1, <1>2, ConstantFacts, <1>3
     DEF FlowInv, TypeOK, PlaceInv, OtherInv, IsHdr, EncryptPcs, DecryptPcs, ReencryptPcs
<1> QED
  BY <1>5, <1>6, <1>7, <1>8, <1>9 DEF FlowInv

\* The inactive table is cleared.
LEMMA FlowClear == ASSUME FlowInv, dm_clear_device PROVE FlowInv'
<1>0. TypeOK
  BY DEF FlowInv
<1>1. /\ UNCHANGED <<scenario, align, commands, kills>>
      /\ proc.pc = "d_clear" /\ head' = head /\ tail' = tail /\ dev' = dev /\ file' = file
      /\ DOMAIN proc' = DOMAIN Idle /\ Rest
      /\ faults' \in 0..MaxFaults /\ beyond' \subseteq {"late", "undo", "restore"} /\ (beyond # {} => beyond' # {})
      /\ \/ dm' = [live |-> dm.live, inactive |-> "none", susp |-> dm.susp] /\ proc'.pc = "d_cleared"
         \/ dm' = dm /\ proc'.pc = "d_status"
  BY <1>0, GotoFacts, FaultFacts, DmPut DEF dm_clear_device, Fixed, Ends, disk, TypeOK
<1>2. /\ Rest => proc'.md = proc.md /\ proc'.op = proc.op /\ proc'.online = proc.online
      /\ proc' = Idle => DOMAIN proc' = DOMAIN Idle /\ proc'.pc = "idle"
  BY ConstantFacts DEF Rest
<1>3. dm' \in [live : {"none", "old", "new"}, inactive : {"none", "new"}, susp : BOOLEAN]
  BY <1>0, <1>1 DEF TypeOK
<1>5. TypeOK'
  BY <1>0, <1>1, <1>2, ConstantFacts, <1>3 DEF FlowInv, TypeOK, Pcs, EncryptPcs, DecryptPcs, ReencryptPcs
<1>6. PlaceInv'
  BY <1>0, <1>1, <1>2, ConstantFacts, <1>3
     DEF FlowInv, TypeOK, PlaceInv, IsHdr, EncryptPcs, DecryptPcs, ReencryptPcs, HeaderInFile
<1>7. EncryptInv'
  BY <1>0, <1>1, <1>2, ConstantFacts, <1>3
     DEF FlowInv, TypeOK, PlaceInv, EncryptInv, IsHdr, EncryptPcs, DecryptPcs, ReencryptPcs
<1>8. DecryptInv'
  BY <1>0, <1>1, <1>2, ConstantFacts, <1>3
     DEF FlowInv, TypeOK, PlaceInv, DecryptInv, IsHdr, BeforeFlag, EncryptPcs, DecryptPcs, ReencryptPcs
<1>9. OtherInv'
  BY <1>0, <1>1, <1>2, ConstantFacts, <1>3
     DEF FlowInv, TypeOK, PlaceInv, OtherInv, IsHdr, EncryptPcs, DecryptPcs, ReencryptPcs
<1> QED
  BY <1>5, <1>6, <1>7, <1>8, <1>9 DEF FlowInv

\* The header file decides what is undone.
LEMMA FlowDecryptStatus == ASSUME FlowInv, decrypt_status PROVE FlowInv'
<1>0. TypeOK
  BY DEF FlowInv
<1>1. /\ UNCHANGED <<scenario, align, commands, kills>>
      /\ proc.pc = "d_status" /\ head' = head /\ tail' = tail /\ dev' = dev /\ file' = file /\ dm' = dm
           /\ faults' \in 0..MaxFaults /\ beyond' = beyond
      /\ \/ DOMAIN proc' = DOMAIN Idle /\ Rest /\ proc'.pc = "d_restore" /\ file.hdr.req = 0
         \/ proc' = Idle
  BY <1>0, GotoFacts, FaultFacts DEF decrypt_status, Fixed, Ends, disk
<1>2. /\ Rest => proc'.md = proc.md /\ proc'.op = proc.op /\ proc'.online = proc.online
      /\ proc' = Idle => DOMAIN proc' = DOMAIN Idle /\ proc'.pc = "idle"
  BY ConstantFacts DEF Rest
<1>3. dm' \in [live : {"none", "old", "new"}, inactive : {"none", "new"}, susp : BOOLEAN]
  BY <1>0, <1>1 DEF TypeOK
<1>5. TypeOK'
  BY <1>0, <1>1, <1>2, ConstantFacts, <1>3 DEF FlowInv, TypeOK, Pcs, EncryptPcs, DecryptPcs, ReencryptPcs
<1>6. PlaceInv'
  BY <1>0, <1>1, <1>2, ConstantFacts, <1>3
     DEF FlowInv, TypeOK, PlaceInv, IsHdr, EncryptPcs, DecryptPcs, ReencryptPcs, HeaderInFile
<1>7. EncryptInv'
  BY <1>0, <1>1, <1>2, ConstantFacts, <1>3
     DEF FlowInv, TypeOK, PlaceInv, EncryptInv, IsHdr, EncryptPcs, DecryptPcs, ReencryptPcs
<1>8. DecryptInv'
  BY <1>0, <1>1, <1>2, ConstantFacts, <1>3
     DEF FlowInv, TypeOK, PlaceInv, DecryptInv, IsHdr, BeforeFlag, EncryptPcs, DecryptPcs, ReencryptPcs
<1>9. OtherInv'
  BY <1>0, <1>1, <1>2, ConstantFacts, <1>3
     DEF FlowInv, TypeOK, PlaceInv, OtherInv, IsHdr, EncryptPcs, DecryptPcs, ReencryptPcs
<1> QED
  BY <1>5, <1>6, <1>7, <1>8, <1>9 DEF FlowInv

-----------------------------------------------------------------------------
\* The options of a command stay.
Core ==
  /\ proc'.op = proc.op /\ proc'.md = proc.md /\ proc'.all = proc.all /\ proc'.keep = proc.keep
  /\ proc'.online = proc.online /\ proc'.init = proc.init /\ DOMAIN proc' = DOMAIN Idle

\* Rest keeps the options.
LEMMA RestCore == DOMAIN proc' = DOMAIN Idle /\ Rest => Core /\ proc'.todo = proc.todo /\ proc'.added = proc.added
BY DEF Rest, Core

\* fill_keyslot_passwords: the passphrases of the active keyslots are asked for.
LEMMA FillFacts ==
  ASSUME TypeOK, fill_keyslot_passwords
  PROVE  /\ UNCHANGED <<scenario, align, commands, kills, head, tail, dev, file, dm>>
         /\ proc.pc = "r_keyslots" /\ faults' \in 0..MaxFaults /\ beyond' = beyond
         /\ \/ proc' = Idle
            \/ /\ Core /\ proc'.added = proc.added
               /\ _check_luks2_keyslots(dev) /\ Active(dev) # {}
               /\ \/ proc.keep /\ proc'.todo = {} /\ proc'.pc = "r_flag"
                  \/ ~proc.keep /\ proc'.todo = Active(dev) /\ proc'.pc = "r_add" /\ proc.all
                  \/ ~proc.keep /\ proc'.pc = "r_add" /\ ~proc.all /\ \E i \in Active(dev) : proc'.todo = {i}
<1>0. DOMAIN proc = ProcFields /\ {"pc", "todo"} \subseteq ProcFields
  BY ProcDomain DEF TypeOK, ProcFields
<1>1. /\ UNCHANGED <<scenario, align, commands, kills, head, tail, dev, file, dm>>
      /\ proc.pc = "r_keyslots" /\ faults' \in 0..MaxFaults /\ beyond' = beyond
  BY FaultFacts DEF fill_keyslot_passwords, Fixed, disk
<1>2. ASSUME NEW S, NEW v, proc' = With(With(proc, "todo", S), "pc", v)
      PROVE  Core /\ proc'.added = proc.added /\ proc'.todo = S /\ proc'.pc = v
  <2> DEFINE q == With(proc, "todo", S)
  <2>1. DOMAIN q = ProcFields /\ q.todo = S /\ \A x \in ProcFields : x # "todo" => q[x] = proc[x]
    BY <1>0, ProcPut
  <2> HIDE DEF q
  <2>2. DOMAIN proc' = ProcFields /\ proc'.pc = v /\ \A x \in ProcFields : x # "pc" => proc'[x] = q[x]
    BY <1>0, <1>2, <2>1, ProcPut DEF q
  <2> QED
    BY <2>1, <2>2, ProcDomain DEF Core, ProcFields
<1>3. \/ proc' = Idle
      \/ /\ _check_luks2_keyslots(dev) /\ Active(dev) # {}
         /\ \E S \in IF proc.all THEN {Active(dev)} ELSE {{i} : i \in Active(dev)} :
              proc' = With(With(proc, "todo", IF proc.keep THEN {} ELSE S), "pc", IF proc.keep THEN "r_flag" ELSE "r_add")
  BY Zenon DEF fill_keyslot_passwords, Ends, With
<1>4. CASE proc' = Idle
  BY <1>1, <1>4
<1>5. CASE /\ _check_luks2_keyslots(dev) /\ Active(dev) # {}
           /\ \E S \in IF proc.all THEN {Active(dev)} ELSE {{i} : i \in Active(dev)} :
                proc' = With(With(proc, "todo", IF proc.keep THEN {} ELSE S), "pc", IF proc.keep THEN "r_flag" ELSE "r_add")
  <2>1. PICK S \in IF proc.all THEN {Active(dev)} ELSE {{i} : i \in Active(dev)} :
                proc' = With(With(proc, "todo", IF proc.keep THEN {} ELSE S), "pc", IF proc.keep THEN "r_flag" ELSE "r_add")
    BY <1>5
  <2> DEFINE T == IF proc.keep THEN {} ELSE S
             v == IF proc.keep THEN "r_flag" ELSE "r_add"
  <2>2. proc' = With(With(proc, "todo", T), "pc", v)
    BY <2>1
  <2>3. (proc.all /\ S = Active(dev)) \/ (~proc.all /\ \E i \in Active(dev) : S = {i})
    BY <2>1
  <2>4. (proc.keep /\ T = {} /\ v = "r_flag") \/ (~proc.keep /\ T = S /\ v = "r_add")
    OBVIOUS
  <2> HIDE DEF T, v
  <2>5. Core /\ proc'.added = proc.added /\ proc'.todo = T /\ proc'.pc = v
    BY <1>2, <2>2
  <2> QED
    BY <1>1, <1>5, <2>3, <2>4, <2>5
<1> QED
  BY <1>3, <1>4, <1>5

\* crypt_keyslot_add_by_key: one keyslot is added.
LEMMA AddFacts ==
  ASSUME TypeOK, crypt_keyslot_add_by_key
  PROVE  LET j == Lowest(Free(dev))
             i == Lowest(proc.todo)
             w == WithSlot(dev, j, Slot(dev.slots[i].pass, NewKey))
         IN
         /\ UNCHANGED <<scenario, align, commands, kills, head, tail, file, dm>>
         /\ proc.pc = "r_add" /\ faults' \in 0..MaxFaults
         /\ beyond' \subseteq {"late", "undo", "restore"} /\ (beyond # {} => beyond' # {})
         /\ Core
         /\ \/ /\ dev' = w /\ proc'.todo = proc.todo \ {i} /\ proc'.added = proc.added \cup {j}
               /\ proc'.pc = IF proc'.todo = {} THEN "r_flag" ELSE "r_add"
            \/ /\ dev' \in {dev, w} /\ (dev' = dev \/ beyond' # {})
               /\ proc'.todo = proc.todo /\ proc'.added = proc.added /\ proc'.pc = "r_undo"
<1> DEFINE j == Lowest(Free(dev))
           i == Lowest(proc.todo)
           w == WithSlot(dev, j, Slot(dev.slots[i].pass, NewKey))
           rest == proc.todo \ {i}
           next == IF rest = {} THEN "r_flag" ELSE "r_add"
           q1 == With(proc, "todo", rest)
           q2 == With(q1, "added", proc.added \cup {j})
<1>0. DOMAIN proc = ProcFields /\ {"pc", "todo", "added"} \subseteq ProcFields
        /\ beyond \subseteq {"late", "undo", "restore"}
  BY ProcDomain DEF TypeOK, ProcFields
<1>1. /\ UNCHANGED <<scenario, align, commands, kills, head, tail, file, dm>> /\ proc.pc = "r_add"
  BY DEF crypt_keyslot_add_by_key, Fixed, AddKeyslot
<1>2. DOMAIN q1 = ProcFields /\ q1.todo = rest /\ \A x \in ProcFields : x # "todo" => q1[x] = proc[x]
  BY <1>0, ProcPut
<1>3. q1.added = proc.added
  BY <1>2 DEF ProcFields
<1>4. \/ dev' = w /\ Works /\ proc' = With([q1 EXCEPT !.added = @ \cup {j}], "pc", next)
      \/ dev' = dev /\ Fault /\ Goto("r_undo")
      \/ dev' = w /\ FaultBeyond("late") /\ Goto("r_undo")
  BY Zenon DEF crypt_keyslot_add_by_key, AddKeyslot, Goto, With, WithSlot
<1>5. [q1 EXCEPT !.added = @ \cup {j}] = q2
  BY <1>3, Zenon DEF With
<1> HIDE DEF q1
<1>6. DOMAIN q2 = ProcFields /\ q2.added = proc.added \cup {j} /\ \A x \in ProcFields : x # "added" => q2[x] = q1[x]
  BY <1>0, <1>2, ProcPut
<1> HIDE DEF q2, w, j
<1>7. CASE dev' = w /\ Works /\ proc' = With([q1 EXCEPT !.added = @ \cup {j}], "pc", next)
  <2>1. proc' = With(q2, "pc", next)
    BY <1>5, <1>7, Zenon
  <2> HIDE DEF next
  <2>2. DOMAIN proc' = ProcFields /\ proc'.pc = next /\ \A x \in ProcFields : x # "pc" => proc'[x] = q2[x]
    BY <1>0, <1>6, <2>1, ProcPut
  <2> HIDE DEF rest
  <2>3. Core /\ proc'.todo = rest /\ proc'.added = proc.added \cup {j} /\ proc'.pc = next
    BY <1>2, <1>6, <2>2, ProcDomain DEF Core, ProcFields
  <2>4. faults' \in 0..MaxFaults /\ beyond' = beyond /\ dev' = w
    BY <1>7, FaultFacts
  <2>5. next = IF proc'.todo = {} THEN "r_flag" ELSE "r_add"
    BY <2>3 DEF next
  <2> QED
    BY <1>0, <1>1, <2>3, <2>4, <2>5 DEF rest, w, j
<1>8. CASE \/ dev' = dev /\ Fault /\ Goto("r_undo")
           \/ dev' = w /\ FaultBeyond("late") /\ Goto("r_undo")
  <2>1. dev' \in {dev, w} /\ proc'.pc = "r_undo" /\ DOMAIN proc' = DOMAIN Idle /\ Rest
    BY <1>8, GotoFacts
  <2>2. /\ faults' \in 0..MaxFaults /\ beyond' \subseteq {"late", "undo", "restore"} /\ (beyond # {} => beyond' # {})
        /\ dev' = dev \/ beyond' # {}
    BY <1>0, <1>8, FaultFacts
  <2> QED
    BY <1>1, <2>1, <2>2, RestCore DEF w, j
<1> QED
  BY <1>4, <1>7, <1>8

\* crypt_keyslot_destroy: one keyslot is taken back, or the command is over.
LEMMA UndoFacts ==
  ASSUME TypeOK, crypt_keyslot_destroy
  PROVE  LET j == Lowest(proc.added)
             w == WithSlot(dev, j, NoSlot)
         IN
         /\ UNCHANGED <<scenario, align, commands, kills, head, tail, file, dm>>
         /\ proc.pc = "r_undo" /\ faults' \in 0..MaxFaults
         /\ beyond' \subseteq {"late", "undo", "restore"} /\ (beyond # {} => beyond' # {})
         /\ \/ /\ Core /\ dev' \in {dev, w} /\ proc'.todo = proc.todo /\ proc'.added = proc.added \ {j}
               /\ proc'.pc = "r_undo" /\ proc.added # {} /\ dev.req = 0 /\ (dev' = w \/ beyond' # {})
            \/ proc' = Idle /\ dev' = dev /\ (proc.added = {} \/ dev.req # 0)
<1> DEFINE j == Lowest(proc.added)
           w == WithSlot(dev, j, NoSlot)
           q == With(proc, "added", proc.added \ {j})
<1>0. DOMAIN proc = ProcFields /\ "added" \in ProcFields /\ beyond \subseteq {"late", "undo", "restore"}
  BY ProcDomain DEF TypeOK, ProcFields
<1>1. /\ UNCHANGED <<scenario, align, commands, kills, head, tail, file, dm>> /\ proc.pc = "r_undo"
  BY DEF crypt_keyslot_destroy, Fixed
<1>2. \/ /\ proc' = q /\ proc.added # {} /\ dev.req = 0
         /\ (dev' = w /\ Works) \/ (dev' \in {dev, w} /\ FaultBeyond("undo"))
      \/ proc' = Idle /\ dev' = dev /\ Works /\ (proc.added = {} \/ dev.req # 0)
  BY Zenon DEF crypt_keyslot_destroy, Ends, With, WithSlot
<1>3. DOMAIN q = ProcFields /\ q.added = proc.added \ {j} /\ \A x \in ProcFields : x # "added" => q[x] = proc[x]
  BY <1>0, ProcPut
<1> HIDE DEF q, w, j
<1>4. proc' = q => Core /\ proc'.todo = proc.todo /\ proc'.added = proc.added \ {j} /\ proc'.pc = proc.pc
  BY <1>3, ProcDomain DEF Core, ProcFields
<1>5. /\ faults' \in 0..MaxFaults /\ beyond' \subseteq {"late", "undo", "restore"} /\ (beyond # {} => beyond' # {})
      /\ proc' = q => dev' = w \/ beyond' # {}
  <2>1. q # Idle
    <3>1. q.pc = "r_undo"
      BY <1>1, <1>3 DEF ProcFields
    <3> QED BY <3>1, ConstantFacts
  <2> QED BY <1>0, <1>2, <2>1, FaultFacts
<1> QED
  BY <1>1, <1>2, <1>4, <1>5 DEF w, j

\* fill_keyslot_passwords.
LEMMA FlowFill == ASSUME FlowInv, fill_keyslot_passwords PROVE FlowInv'
<1>0. TypeOK
  BY DEF FlowInv
<1>1. /\ UNCHANGED <<scenario, align, commands, kills, head, tail, dev, file, dm>>
      /\ proc.pc = "r_keyslots" /\ faults' \in 0..MaxFaults /\ beyond' = beyond
      /\ proc' = Idle \/ (Core /\ proc'.pc \in {"r_flag", "r_add"})
  BY <1>0, FillFacts
<1>2. /\ Core => proc'.md = proc.md /\ proc'.op = proc.op /\ proc'.online = proc.online /\ DOMAIN proc' = DOMAIN Idle
      /\ Rest => proc'.md = proc.md /\ proc'.op = proc.op /\ proc'.online = proc.online
      /\ proc' = Idle => DOMAIN proc' = DOMAIN Idle /\ proc'.pc = "idle"
  BY ConstantFacts DEF Core, Rest
<1>5. TypeOK'
  BY <1>0, <1>1, <1>2, ConstantFacts DEF FlowInv, TypeOK, Pcs, EncryptPcs, DecryptPcs, ReencryptPcs
<1>6. PlaceInv'
  BY <1>0, <1>1, <1>2, ConstantFacts
     DEF FlowInv, TypeOK, PlaceInv, IsHdr, EncryptPcs, DecryptPcs, ReencryptPcs, HeaderInFile
<1>7. EncryptInv'
  BY <1>0, <1>1, <1>2, ConstantFacts
     DEF FlowInv, TypeOK, PlaceInv, EncryptInv, IsHdr, EncryptPcs, DecryptPcs, ReencryptPcs
<1>8. DecryptInv'
  BY <1>0, <1>1, <1>2, ConstantFacts
     DEF FlowInv, TypeOK, PlaceInv, DecryptInv, IsHdr, BeforeFlag, EncryptPcs, DecryptPcs, ReencryptPcs
<1>9. OtherInv'
  BY <1>0, <1>1, <1>2, ConstantFacts
     DEF FlowInv, TypeOK, PlaceInv, OtherInv, IsHdr, EncryptPcs, DecryptPcs, ReencryptPcs
<1> QED
  BY <1>5, <1>6, <1>7, <1>8, <1>9 DEF FlowInv

\* crypt_keyslot_add_by_key.
LEMMA FlowAdd == ASSUME FlowInv, crypt_keyslot_add_by_key PROVE FlowInv'
<1>0. TypeOK
  BY DEF FlowInv
<1> DEFINE w == WithSlot(dev, Lowest(Free(dev)), Slot(dev.slots[Lowest(proc.todo)].pass, NewKey))
<1>a. IsHdr(w) /\ w.req = dev.req /\ w.moved = dev.moved
  BY <1>0, SlotPut, ConstantFacts DEF TypeOK
<1> HIDE DEF w
<1>1. /\ UNCHANGED <<scenario, align, commands, kills, head, tail, file, dm>>
      /\ proc.pc = "r_add" /\ faults' \in 0..MaxFaults
      /\ beyond' \subseteq {"late", "undo", "restore"} /\ (beyond # {} => beyond' # {})
      /\ Core /\ dev' \in {dev, w} /\ proc'.pc \in {"r_flag", "r_add", "r_undo"}
  BY <1>0, AddFacts DEF w
<1>2. /\ Core => proc'.md = proc.md /\ proc'.op = proc.op /\ proc'.online = proc.online /\ DOMAIN proc' = DOMAIN Idle
      /\ Rest => proc'.md = proc.md /\ proc'.op = proc.op /\ proc'.online = proc.online
      /\ proc' = Idle => DOMAIN proc' = DOMAIN Idle /\ proc'.pc = "idle"
  BY ConstantFacts DEF Core, Rest
<1>5. TypeOK'
  BY <1>0, <1>1, <1>2, ConstantFacts, <1>a DEF FlowInv, TypeOK, Pcs, EncryptPcs, DecryptPcs, ReencryptPcs
<1>6. PlaceInv'
  BY <1>0, <1>1, <1>2, ConstantFacts, <1>a
     DEF FlowInv, TypeOK, PlaceInv, IsHdr, EncryptPcs, DecryptPcs, ReencryptPcs, HeaderInFile
<1>7. EncryptInv'
  BY <1>0, <1>1, <1>2, ConstantFacts, <1>a
     DEF FlowInv, TypeOK, PlaceInv, EncryptInv, IsHdr, EncryptPcs, DecryptPcs, ReencryptPcs
<1>8. DecryptInv'
  BY <1>0, <1>1, <1>2, ConstantFacts, <1>a
     DEF FlowInv, TypeOK, PlaceInv, DecryptInv, IsHdr, BeforeFlag, EncryptPcs, DecryptPcs, ReencryptPcs
<1>9. OtherInv'
  BY <1>0, <1>1, <1>2, ConstantFacts, <1>a
     DEF FlowInv, TypeOK, PlaceInv, OtherInv, IsHdr, EncryptPcs, DecryptPcs, ReencryptPcs
<1> QED
  BY <1>5, <1>6, <1>7, <1>8, <1>9 DEF FlowInv

\* crypt_keyslot_destroy.
LEMMA FlowUndo == ASSUME FlowInv, crypt_keyslot_destroy PROVE FlowInv'
<1>0. TypeOK
  BY DEF FlowInv
<1> DEFINE w == WithSlot(dev, Lowest(proc.added), NoSlot)
<1>a. IsHdr(w) /\ w.req = dev.req /\ w.moved = dev.moved
  BY <1>0, SlotPut, ConstantFacts DEF TypeOK
<1> HIDE DEF w
<1>1. /\ UNCHANGED <<scenario, align, commands, kills, head, tail, file, dm>>
      /\ proc.pc = "r_undo" /\ faults' \in 0..MaxFaults
      /\ beyond' \subseteq {"late", "undo", "restore"} /\ (beyond # {} => beyond' # {})
      /\ \/ Core /\ dev' \in {dev, w} /\ proc'.pc = "r_undo"
         \/ proc' = Idle /\ dev' = dev
  BY <1>0, UndoFacts DEF w
<1>2. /\ Core => proc'.md = proc.md /\ proc'.op = proc.op /\ proc'.online = proc.online /\ DOMAIN proc' = DOMAIN Idle
      /\ Rest => proc'.md = proc.md /\ proc'.op = proc.op /\ proc'.online = proc.online
      /\ proc' = Idle => DOMAIN proc' = DOMAIN Idle /\ proc'.pc = "idle"
  BY ConstantFacts DEF Core, Rest
<1>5. TypeOK'
  BY <1>0, <1>1, <1>2, ConstantFacts, <1>a DEF FlowInv, TypeOK, Pcs, EncryptPcs, DecryptPcs, ReencryptPcs
<1>6. PlaceInv'
  BY <1>0, <1>1, <1>2, ConstantFacts, <1>a
     DEF FlowInv, TypeOK, PlaceInv, IsHdr, EncryptPcs, DecryptPcs, ReencryptPcs, HeaderInFile
<1>7. EncryptInv'
  BY <1>0, <1>1, <1>2, ConstantFacts, <1>a
     DEF FlowInv, TypeOK, PlaceInv, EncryptInv, IsHdr, EncryptPcs, DecryptPcs, ReencryptPcs
<1>8. DecryptInv'
  BY <1>0, <1>1, <1>2, ConstantFacts, <1>a
     DEF FlowInv, TypeOK, PlaceInv, DecryptInv, IsHdr, BeforeFlag, EncryptPcs, DecryptPcs, ReencryptPcs
<1>9. OtherInv'
  BY <1>0, <1>1, <1>2, ConstantFacts, <1>a
     DEF FlowInv, TypeOK, PlaceInv, OtherInv, IsHdr, EncryptPcs, DecryptPcs, ReencryptPcs
<1> QED
  BY <1>5, <1>6, <1>7, <1>8, <1>9 DEF FlowInv

\* How the write of a load ends, and what it wrote.
LEMMA LoadFacts ==
  ASSUME FlowInv, reencrypt_luks2_load
  PROVE  \E p : \E g \in Loaded(p) \cup {Hdr} :
           /\ UNCHANGED <<scenario, align, commands, kills>> /\ proc.pc = "load"
           /\ head' = head /\ tail' = tail /\ dm' = dm /\ DOMAIN proc' = DOMAIN Idle /\ Rest
           /\ faults' \in 0..MaxFaults /\ beyond \subseteq beyond' /\ beyond' \subseteq {"late", "undo", "restore"}
           /\ proc'.pc \in {"done", "failed"}
           /\ Wrote(g) \/ (dev' = dev /\ file' = file)
<1>0. TypeOK /\ proc.md \in {"file", "dev"} /\ beyond \subseteq {"late", "undo", "restore"}
  BY DEF FlowInv, PlaceInv, reencrypt_luks2_load, TypeOK
<1>1. UNCHANGED <<scenario, align, commands, kills>> /\ proc.pc = "load"
  BY DEF reencrypt_luks2_load, Fixed
<1>2. CASE \E p \in CanLoad : \E h \in Loaded(p) : HdrWrite(h, "done", "failed")
  <2>0. PICK p \in CanLoad : \E h \in Loaded(p) : HdrWrite(h, "done", "failed")
    BY <1>2
  <2>1. PICK h \in Loaded(p) : HdrWrite(h, "done", "failed")
    BY <2>0
  <2>2. /\ head' = head /\ tail' = tail /\ dm' = dm /\ DOMAIN proc' = DOMAIN Idle /\ Rest
        /\ faults' \in 0..MaxFaults /\ beyond \subseteq beyond' /\ beyond' \subseteq {"late", "undo", "restore"}
        /\ proc'.pc \in {"done", "failed"}
        /\ Wrote(h) \/ (dev' = dev /\ file' = file)
    BY <1>0, <2>1, WriteFacts
  <2> QED BY <1>1, <2>1, <2>2
<1>3. CASE Goto("failed") /\ Works /\ UNCHANGED <<disk, dm>>
  <2>1. /\ head' = head /\ tail' = tail /\ dm' = dm /\ DOMAIN proc' = DOMAIN Idle /\ Rest
        /\ faults' \in 0..MaxFaults /\ beyond' = beyond /\ proc'.pc = "failed" /\ dev' = dev /\ file' = file
    BY <1>0, <1>3, GotoFacts, FaultFacts DEF disk
  <2> QED BY <1>0, <1>1, <2>1
<1> QED
  BY <1>2, <1>3 DEF reencrypt_luks2_load

\* A reencryption is taken up.
LEMMA FlowLoad == ASSUME FlowInv, reencrypt_luks2_load PROVE FlowInv'
<1>0. TypeOK
  BY DEF FlowInv
<1>a. PICK p : \E g \in Loaded(p) \cup {Hdr} :
           /\ UNCHANGED <<scenario, align, commands, kills>> /\ proc.pc = "load"
           /\ head' = head /\ tail' = tail /\ dm' = dm /\ DOMAIN proc' = DOMAIN Idle /\ Rest
           /\ faults' \in 0..MaxFaults /\ beyond \subseteq beyond' /\ beyond' \subseteq {"late", "undo", "restore"}
           /\ proc'.pc \in {"done", "failed"}
           /\ Wrote(g) \/ (dev' = dev /\ file' = file)
  BY LoadFacts
<1>b. PICK g \in Loaded(p) \cup {Hdr} :
           /\ UNCHANGED <<scenario, align, commands, kills>> /\ proc.pc = "load"
           /\ head' = head /\ tail' = tail /\ dm' = dm /\ DOMAIN proc' = DOMAIN Idle /\ Rest
           /\ faults' \in 0..MaxFaults /\ beyond \subseteq beyond' /\ beyond' \subseteq {"late", "undo", "restore"}
           /\ proc'.pc \in {"done", "failed"}
           /\ Wrote(g) \/ (dev' = dev /\ file' = file)
  BY <1>a
<1>c. IsHdr(g) /\ g.req = Hdr.req /\ g.moved = Hdr.moved
  BY <1>0, LoadWrites, HdrIs
<1>d. /\ proc.md = "file" => Hdr = file.hdr
      /\ proc.md = "dev" => Hdr = dev
      /\ proc.pc = "load" => proc.md = (IF scenario \in HeaderInFile THEN "file" ELSE "dev")
      /\ scenario = "decrypt" => file.st = "ok"
  BY <1>0, <1>b, HdrIs DEF FlowInv, PlaceInv, DecryptInv
<1>1. /\ UNCHANGED <<scenario, align, commands, kills>> /\ proc.pc = "load"
      /\ head' = head /\ tail' = tail /\ dm' = dm /\ DOMAIN proc' = DOMAIN Idle /\ Rest
      /\ faults' \in 0..MaxFaults /\ beyond \subseteq beyond' /\ beyond' \subseteq {"late", "undo", "restore"}
      /\ proc'.pc \in {"done", "failed"}
      /\ \/ dev' = dev /\ file' = file
         \/ scenario \in {"encrypt_hdr", "decrypt", "decrypt_hdr"} /\ file' = File(g) /\ dev' = dev /\ IsHdr(g)
              /\ g.req = file.hdr.req /\ g.moved = file.hdr.moved
         \/ scenario \notin {"encrypt_hdr", "decrypt", "decrypt_hdr"} /\ dev' = g /\ file' = file /\ IsHdr(g)
              /\ g.req = dev.req /\ g.moved = dev.moved
  BY <1>b, <1>c, <1>d DEF Wrote, HeaderInFile
<1>2. /\ Core => proc'.md = proc.md /\ proc'.op = proc.op /\ proc'.online = proc.online /\ DOMAIN proc' = DOMAIN Idle
      /\ Rest => proc'.md = proc.md /\ proc'.op = proc.op /\ proc'.online = proc.online
      /\ proc' = Idle => DOMAIN proc' = DOMAIN Idle /\ proc'.pc = "idle"
  BY ConstantFacts DEF Core, Rest
<1>5. TypeOK'
  BY <1>0, <1>1, <1>2, ConstantFacts DEF FlowInv, TypeOK, Pcs, EncryptPcs, DecryptPcs, ReencryptPcs
<1>6. PlaceInv'
  BY <1>0, <1>1, <1>2, ConstantFacts
     DEF FlowInv, TypeOK, PlaceInv, IsHdr, EncryptPcs, DecryptPcs, ReencryptPcs, HeaderInFile
<1>7. EncryptInv'
  BY <1>0, <1>1, <1>2, ConstantFacts
     DEF FlowInv, TypeOK, PlaceInv, EncryptInv, IsHdr, EncryptPcs, DecryptPcs, ReencryptPcs
<1>8. DecryptInv'
  <2>1. scenario' = "decrypt" => scenario = "decrypt" /\ dev' = dev /\ file'.hdr.req = file.hdr.req
    BY <1>1, ConstantFacts
  <2>2. proc'.pc \in {"done", "failed"} /\ dm' = dm /\ head' = head /\ (beyond # {} => beyond' # {})
    BY <1>1
  <2> QED
    BY <2>1, <2>2 DEF FlowInv, DecryptInv, BeforeFlag
<1>9. OtherInv'
  BY <1>0, <1>1, <1>2, ConstantFacts
     DEF FlowInv, TypeOK, PlaceInv, OtherInv, IsHdr, EncryptPcs, DecryptPcs, ReencryptPcs
<1> QED
  BY <1>5, <1>6, <1>7, <1>8, <1>9 DEF FlowInv

\* A command is over.
LEMMA FlowFinish == ASSUME FlowInv, Finish PROVE FlowInv'
<1>0. TypeOK
  BY DEF FlowInv
<1>1. /\ UNCHANGED <<scenario, align, commands, kills>> /\ head' = head /\ tail' = tail /\ dev' = dev /\ dm' = dm
      /\ proc' = Idle /\ faults' \in 0..MaxFaults /\ beyond' = beyond
      /\ file' = file \/ (file' = Absent /\ scenario = "encrypt")
  BY <1>0, FaultFacts DEF Finish, Fixed, Ends, Temp
<1>2. /\ Core => proc'.md = proc.md /\ proc'.op = proc.op /\ proc'.online = proc.online /\ DOMAIN proc' = DOMAIN Idle
      /\ Rest => proc'.md = proc.md /\ proc'.op = proc.op /\ proc'.online = proc.online
      /\ proc' = Idle => DOMAIN proc' = DOMAIN Idle /\ proc'.pc = "idle"
  BY ConstantFacts DEF Core, Rest
<1>5. TypeOK'
  BY <1>0, <1>1, <1>2, ConstantFacts DEF FlowInv, TypeOK, Pcs, EncryptPcs, DecryptPcs, ReencryptPcs
<1>6. PlaceInv'
  BY <1>0, <1>1, <1>2, ConstantFacts
     DEF FlowInv, TypeOK, PlaceInv, IsHdr, EncryptPcs, DecryptPcs, ReencryptPcs, HeaderInFile
<1>7. EncryptInv'
  BY <1>0, <1>1, <1>2, ConstantFacts
     DEF FlowInv, TypeOK, PlaceInv, EncryptInv, IsHdr, EncryptPcs, DecryptPcs, ReencryptPcs
<1>8. DecryptInv'
  BY <1>0, <1>1, <1>2, ConstantFacts
     DEF FlowInv, TypeOK, PlaceInv, DecryptInv, IsHdr, BeforeFlag, EncryptPcs, DecryptPcs, ReencryptPcs
<1>9. OtherInv'
  BY <1>0, <1>1, <1>2, ConstantFacts
     DEF FlowInv, TypeOK, PlaceInv, OtherInv, IsHdr, EncryptPcs, DecryptPcs, ReencryptPcs
<1> QED
  BY <1>5, <1>6, <1>7, <1>8, <1>9 DEF FlowInv

\* The metadata are repaired.
LEMMA FlowRepair == ASSUME FlowInv, reencrypt_repair_by_passphrase PROVE FlowInv'
<1>0. TypeOK
  BY DEF FlowInv
<1>a. PICK g \in reencrypt_repair(dev, Unlocked(dev, Needed(dev))) : HdrWrite(g, "done", "failed")
  BY DEF reencrypt_repair_by_passphrase
<1>b. IsHdr(g) /\ g.req \in {2, 3} /\ g.moved = dev.moved
  BY <1>0, RepairWrites DEF TypeOK
<1>c. proc.md = "dev" /\ scenario = "legacy" /\ proc.pc = "repair" /\ UNCHANGED <<scenario, align, commands, kills>>
  BY DEF reencrypt_repair_by_passphrase, Fixed, FlowInv, PlaceInv
<1>1. /\ head' = head /\ tail' = tail /\ dm' = dm /\ DOMAIN proc' = DOMAIN Idle /\ Rest
      /\ faults' \in 0..MaxFaults /\ beyond \subseteq beyond' /\ beyond' \subseteq {"late", "undo", "restore"}
      /\ proc'.pc \in {"done", "failed"} /\ file' = file /\ dev' \in {dev, g}
  BY <1>0, <1>a, <1>c, WriteFacts DEF Wrote
<1>2. /\ Core => proc'.md = proc.md /\ proc'.op = proc.op /\ proc'.online = proc.online /\ DOMAIN proc' = DOMAIN Idle
      /\ Rest => proc'.md = proc.md /\ proc'.op = proc.op /\ proc'.online = proc.online
      /\ proc' = Idle => DOMAIN proc' = DOMAIN Idle /\ proc'.pc = "idle"
  BY ConstantFacts DEF Core, Rest
<1>5. TypeOK'
  BY <1>0, <1>1, <1>2, ConstantFacts, <1>b, <1>c DEF FlowInv, TypeOK, Pcs, EncryptPcs, DecryptPcs, ReencryptPcs
<1>6. PlaceInv'
  BY <1>0, <1>1, <1>2, ConstantFacts, <1>b, <1>c
     DEF FlowInv, TypeOK, PlaceInv, IsHdr, EncryptPcs, DecryptPcs, ReencryptPcs, HeaderInFile
<1>7. EncryptInv'
  BY <1>0, <1>1, <1>2, ConstantFacts, <1>b, <1>c
     DEF FlowInv, TypeOK, PlaceInv, EncryptInv, IsHdr, EncryptPcs, DecryptPcs, ReencryptPcs
<1>8. DecryptInv'
  BY <1>0, <1>1, <1>2, ConstantFacts, <1>b, <1>c
     DEF FlowInv, TypeOK, PlaceInv, DecryptInv, IsHdr, BeforeFlag, EncryptPcs, DecryptPcs, ReencryptPcs
<1>9. OtherInv'
  BY <1>0, <1>1, <1>2, ConstantFacts, <1>b, <1>c
     DEF FlowInv, TypeOK, PlaceInv, OtherInv, IsHdr, EncryptPcs, DecryptPcs, ReencryptPcs
<1> QED
  BY <1>5, <1>6, <1>7, <1>8, <1>9 DEF FlowInv

\* What a kill leaves on the device.
LEMMA PartialFacts ==
  ASSUME TypeOK, NEW r \in Partial
  PROVE  /\ r[1] \in {head, "junk", "wiped", "hdr"} /\ IsHdr(r[3])
         /\ r[2] = tail \/ (proc.pc = "e_move" /\ r[2] = "junk")
         /\ r[1] = head \/ proc.pc \in {"d_move", "d_wipe", "d_unwipe", "d_restore"} \/ (proc.pc = "e_restore"
              /\ r[1] \in {"hdr", "junk"})
         /\ \/ r[3] = dev
            \/ /\ proc.pc \in {"e_restore", "d_unwipe", "d_restore"} /\ r[1] = "hdr"
               /\ r[3].req = file.hdr.req /\ r[3].moved = file.hdr.moved /\ r[3].ks = file.hdr.ks
               /\ r[3].old = file.hdr.old /\ r[3].new = file.hdr.new /\ r[3].digest = file.hdr.digest
<1>0. IsHdr(dev)
  BY DEF TypeOK
<1>1. CASE proc.pc = "e_move"
  <2>1. r = <<head, "junk", dev>> \/ r = <<head, tail, dev>>
    BY <1>1, Zenon DEF Partial
  <2> QED BY <1>0, <1>1, <2>1
<1>2. CASE proc.pc = "d_move"
  <2>1. proc.pc # "e_move" /\ proc.pc # "d_wipe" /\ proc.pc \notin {"e_restore", "d_unwipe", "d_restore"}
    BY <1>2
  <2>2. r = <<"junk", tail, dev>> \/ r = <<head, tail, dev>>
    BY <1>2, <2>1, Zenon DEF Partial
  <2> QED BY <1>0, <1>2, <2>2
<1>3. CASE proc.pc = "d_wipe"
  <2>1. proc.pc # "e_move" /\ proc.pc # "d_move" /\ proc.pc \notin {"e_restore", "d_unwipe", "d_restore"}
    BY <1>3
  <2>2. r = <<"wiped", tail, dev>> \/ r = <<head, tail, dev>>
    BY <1>3, <2>1, Zenon DEF Partial
  <2> QED BY <1>0, <1>3, <2>2
<1>4. CASE proc.pc \in {"e_restore", "d_unwipe", "d_restore"}
  <2>1. proc.pc # "e_move" /\ proc.pc # "d_move" /\ proc.pc # "d_wipe"
    BY <1>4
  <2>2. \E s \in Restoring : r = <<s[1], tail, s[2]>>
    BY <1>4, <2>1, Zenon DEF Partial
  <2>3. PICK s \in Restoring : r = <<s[1], tail, s[2]>>
    BY <2>2
  <2> QED BY <1>0, <1>4, <2>3, RestoringFacts
<1>5. CASE /\ proc.pc # "e_move" /\ proc.pc # "d_move" /\ proc.pc # "d_wipe"
           /\ proc.pc \notin {"e_restore", "d_unwipe", "d_restore"}
  <2>1. r = <<head, tail, dev>>
    BY <1>5, Zenon DEF Partial
  <2> QED BY <1>0, <2>1
<1> QED
  BY <1>1, <1>2, <1>3, <1>4, <1>5

\* The command is killed.
LEMMA FlowKill == ASSUME FlowInv, Kill PROVE FlowInv'
<1>0. TypeOK
  BY DEF FlowInv
<1>a. PICK r \in Partial : head' = r[1] /\ tail' = r[2] /\ dev' = r[3]
  BY DEF Kill
<1>b. kills' \in 0..MaxKills
  BY <1>0, InitConstants DEF Kill, TypeOK
<1>1. /\ UNCHANGED <<scenario, align, commands, file, dm, beyond, faults>> /\ proc' = Idle
      /\ head' \in {head, "junk", "wiped", "hdr"} /\ IsHdr(dev')
      /\ tail' = tail \/ (proc.pc = "e_move" /\ tail' = "junk")
      /\ \/ head' = head
         \/ proc.pc \in {"d_move", "d_wipe", "d_unwipe", "d_restore"}
         \/ proc.pc = "e_restore" /\ head' \in {"hdr", "junk"}
      /\ \/ dev' = dev
         \/ proc.pc \in {"e_restore", "d_unwipe", "d_restore"} /\ dev'.req = file.hdr.req /\ dev'.moved = file.hdr.moved
  BY <1>0, <1>a, PartialFacts DEF Kill, Ends
<1>2. /\ Core => proc'.md = proc.md /\ proc'.op = proc.op /\ proc'.online = proc.online /\ DOMAIN proc' = DOMAIN Idle
      /\ Rest => proc'.md = proc.md /\ proc'.op = proc.op /\ proc'.online = proc.online
      /\ proc' = Idle => DOMAIN proc' = DOMAIN Idle /\ proc'.pc = "idle"
  BY ConstantFacts DEF Core, Rest
<1>5. TypeOK'
  BY <1>0, <1>1, <1>2, ConstantFacts, <1>b DEF FlowInv, TypeOK, Pcs, EncryptPcs, DecryptPcs, ReencryptPcs
<1>6. PlaceInv'
  BY <1>0, <1>1, <1>2, ConstantFacts, <1>b
     DEF FlowInv, TypeOK, PlaceInv, IsHdr, EncryptPcs, DecryptPcs, ReencryptPcs, HeaderInFile
<1>7. EncryptInv'
  BY <1>0, <1>1, <1>2, ConstantFacts, <1>b
     DEF FlowInv, TypeOK, PlaceInv, EncryptInv, IsHdr, EncryptPcs, DecryptPcs, ReencryptPcs
<1>8. DecryptInv'
  BY <1>0, <1>1, <1>2, ConstantFacts, <1>b
     DEF FlowInv, TypeOK, PlaceInv, DecryptInv, IsHdr, BeforeFlag, EncryptPcs, DecryptPcs, ReencryptPcs
<1>9. OtherInv'
  BY <1>0, <1>1, <1>2, ConstantFacts, <1>b
     DEF FlowInv, TypeOK, PlaceInv, OtherInv, IsHdr, EncryptPcs, DecryptPcs, ReencryptPcs
<1> QED
  BY <1>5, <1>6, <1>7, <1>8, <1>9 DEF FlowInv

\* The exported header is restored by hand.
LEMMA FlowHeaderRestore == ASSUME FlowInv, luksHeaderRestore PROVE FlowInv'
<1>0. TypeOK
  BY DEF FlowInv
<1>1. /\ UNCHANGED <<scenario, align, tail, dm, beyond, proc, commands, faults, kills>>
      /\ scenario = "decrypt" /\ proc = Idle /\ file.hdr.req = 0
      /\ head' = "hdr" /\ dev' = file.hdr /\ file' = Absent
  BY DEF luksHeaderRestore
<1>2. /\ Core => proc'.md = proc.md /\ proc'.op = proc.op /\ proc'.online = proc.online /\ DOMAIN proc' = DOMAIN Idle
      /\ Rest => proc'.md = proc.md /\ proc'.op = proc.op /\ proc'.online = proc.online
      /\ proc' = Idle => DOMAIN proc' = DOMAIN Idle /\ proc'.pc = "idle"
  BY ConstantFacts DEF Core, Rest
<1>5. TypeOK'
  BY <1>0, <1>1, <1>2, ConstantFacts DEF FlowInv, TypeOK, Pcs, EncryptPcs, DecryptPcs, ReencryptPcs
<1>6. PlaceInv'
  BY <1>0, <1>1, <1>2, ConstantFacts
     DEF FlowInv, TypeOK, PlaceInv, IsHdr, EncryptPcs, DecryptPcs, ReencryptPcs, HeaderInFile
<1>7. EncryptInv'
  BY <1>0, <1>1, <1>2, ConstantFacts
     DEF FlowInv, TypeOK, PlaceInv, EncryptInv, IsHdr, EncryptPcs, DecryptPcs, ReencryptPcs
<1>8. DecryptInv'
  BY <1>0, <1>1, <1>2, ConstantFacts
     DEF FlowInv, TypeOK, PlaceInv, DecryptInv, IsHdr, BeforeFlag, EncryptPcs, DecryptPcs, ReencryptPcs
<1>9. OtherInv'
  BY <1>0, <1>1, <1>2, ConstantFacts
     DEF FlowInv, TypeOK, PlaceInv, OtherInv, IsHdr, EncryptPcs, DecryptPcs, ReencryptPcs
<1> QED
  BY <1>5, <1>6, <1>7, <1>8, <1>9 DEF FlowInv

\* The device reports another block size.
LEMMA FlowRealign == ASSUME FlowInv, Realign PROVE FlowInv'
<1>0. TypeOK
  BY DEF FlowInv
<1>1. /\ UNCHANGED <<scenario, head, tail, dev, file, dm, beyond, proc, commands, faults, kills>>
      /\ align' \in Aligns
  BY DEF Realign, disk
<1>2. /\ Core => proc'.md = proc.md /\ proc'.op = proc.op /\ proc'.online = proc.online /\ DOMAIN proc' = DOMAIN Idle
      /\ Rest => proc'.md = proc.md /\ proc'.op = proc.op /\ proc'.online = proc.online
      /\ proc' = Idle => DOMAIN proc' = DOMAIN Idle /\ proc'.pc = "idle"
  BY ConstantFacts DEF Core, Rest
<1>5. TypeOK'
  BY <1>0, <1>1, <1>2, ConstantFacts DEF FlowInv, TypeOK, Pcs, EncryptPcs, DecryptPcs, ReencryptPcs
<1>6. PlaceInv'
  BY <1>0, <1>1, <1>2, ConstantFacts
     DEF FlowInv, TypeOK, PlaceInv, IsHdr, EncryptPcs, DecryptPcs, ReencryptPcs, HeaderInFile
<1>7. EncryptInv'
  BY <1>0, <1>1, <1>2, ConstantFacts
     DEF FlowInv, TypeOK, PlaceInv, EncryptInv, IsHdr, EncryptPcs, DecryptPcs, ReencryptPcs
<1>8. DecryptInv'
  BY <1>0, <1>1, <1>2, ConstantFacts
     DEF FlowInv, TypeOK, PlaceInv, DecryptInv, IsHdr, BeforeFlag, EncryptPcs, DecryptPcs, ReencryptPcs
<1>9. OtherInv'
  BY <1>0, <1>1, <1>2, ConstantFacts
     DEF FlowInv, TypeOK, PlaceInv, OtherInv, IsHdr, EncryptPcs, DecryptPcs, ReencryptPcs
<1> QED
  BY <1>5, <1>6, <1>7, <1>8, <1>9 DEF FlowInv

\* Every step.
LEMMA FlowNext == FlowInv /\ [Next]_vars => FlowInv'
<1> SUFFICES ASSUME FlowInv, [Next]_vars PROVE FlowInv'
  OBVIOUS
<1>1. CASE UNCHANGED vars
  <2>1. UNCHANGED <<scenario, align, head, tail, dev, file, dm, beyond, proc, commands, faults, kills>>
    BY <1>1 DEF vars, disk
  <2>2. TypeOK' /\ PlaceInv'
    BY <2>1 DEF FlowInv, TypeOK, PlaceInv
  <2>3. EncryptInv' /\ DecryptInv' /\ OtherInv'
    BY <2>1 DEF FlowInv, EncryptInv, DecryptInv, OtherInv
  <2> QED BY <2>2, <2>3 DEF FlowInv
<1>2. CASE Next
  <2>1. CASE \E o \in Options : reencrypt(o)
    BY <2>1, FlowStart
  <2>2. CASE encrypt_create \/ luksFormat \/ encrypt_move \/ encrypt_flag \/ encrypt_destroy
             \/ encrypt_restore \/ encrypt_out
    BY <2>2, FlowCreate, FlowFormat, FlowEncryptMove, FlowEncryptFlag, FlowEncryptDestroy, FlowEncryptRestore,
       FlowEncryptOut
  <2>3. CASE decrypt_backup \/ decrypt_wipe \/ decrypt_unwipe \/ decrypt_reload \/ decrypt_suspend
    BY <2>3, FlowDecryptBackup, FlowDecryptWipe, FlowDecryptUnwipe, FlowDecryptReload, FlowDecryptSuspend
  <2>4. CASE decrypt_move \/ decrypt_flag \/ dm_resume_device \/ dm_clear_device \/ decrypt_status
             \/ decrypt_luks2_init
    BY <2>4, FlowDecryptMove, FlowDecryptFlag, FlowResume, FlowClear, FlowDecryptStatus, FlowDetachedFlag
  <2>5. CASE InitRefused \/ fill_keyslot_passwords \/ crypt_keyslot_add_by_key \/ reencrypt_flag
             \/ crypt_keyslot_destroy
    BY <2>5, FlowRefused, FlowFill, FlowAdd, FlowReencryptFlag, FlowUndo
  <2>6. CASE reencrypt_luks2_load \/ reencrypt_repair_by_passphrase \/ Finish
    BY <2>6, FlowLoad, FlowRepair, FlowFinish
  <2>7. CASE Kill \/ luksHeaderRestore \/ Realign
    BY <2>7, FlowKill, FlowHeaderRestore, FlowRealign
  <2> QED
    BY <1>2, <2>1, <2>2, <2>3, <2>4, <2>5, <2>6, <2>7 DEF Next
<1> QED
  BY <1>1, <1>2

\* At every step of every command the program is where FlowInv says: which
\* header it works on, what it has moved, and what the mapping runs on.
THEOREM FlowInvariant == Spec => []FlowInv
<1>1. Init => FlowInv
  BY FlowInit
<1>2. FlowInv /\ [Next]_vars => FlowInv'
  BY FlowNext
<1> QED
  BY <1>1, <1>2, PTL DEF Spec

\* The device, the headers, the mapping and the command stay in their ranges.
THEOREM InitTypeCorrect == Spec => []TypeOK
<1>1. FlowInv => TypeOK
  BY DEF FlowInv
<1> QED
  BY <1>1, FlowInvariant, PTL

\* The requirement flag of reencrypt_init never runs ahead of the data: a stored
\* header tells of a moved segment only once it is moved, and an active device
\* runs on the segments its header describes.
THEOREM ReencryptionFollowsMove == Spec => []FlagAfterMove
<1>1. FlowInv => FlagAfterMove
  <2> SUFFICES ASSUME FlowInv PROVE FlagAfterMove
    OBVIOUS
  <2>1. ASSUME NEW h \in Stored, InReencryption(h), h.moved > 0
        PROVE  IF scenario = "encrypt" THEN tail = "copy" ELSE head = "moved"
    <3>1. (h = dev /\ head = "hdr") \/ h = file.hdr
      BY DEF Stored
    <3>2. h.req > 0
      BY <2>1 DEF InReencryption
    <3>3. CASE scenario = "encrypt"
      BY <3>1, <3>2, <3>3 DEF FlowInv, EncryptInv
    <3>4. CASE scenario = "decrypt"
      BY <3>1, <3>2, <3>4 DEF FlowInv, DecryptInv
    <3>5. CASE scenario \notin {"encrypt", "decrypt"}
      BY <2>1, <3>1, <3>5 DEF FlowInv, OtherInv
    <3> QED BY <3>3, <3>4, <3>5
  <2>2. dm.live = "new" => InReencryption(file.hdr)
    BY DEF FlowInv, EncryptInv, DecryptInv, OtherInv, InReencryption
  <2>3. scenario = "decrypt" /\ dm.live = "old" /\ InReencryption(file.hdr) => dm.susp \/ beyond # {}
    BY DEF FlowInv, DecryptInv, InReencryption
  <2> QED BY <2>1, <2>2, <2>3 DEF FlagAfterMove
<1> QED
  BY <1>1, FlowInvariant, PTL

-----------------------------------------------------------------------------
\* DigestInv.

\* Two headers with the same reencryption metadata.
Same(g, h) ==
  /\ g.req = h.req /\ g.ks = h.ks /\ g.moved = h.moved /\ g.old = h.old /\ g.new = h.new
  /\ g.digest = h.digest
Kept(h) == h.req = 0 \/ Same(h, dev) \/ Same(h, file.hdr)

\* The metadata are copied from header to header, or there are none.
LEMMA KeptVerifies == ASSUME DigestInv, NEW h, Kept(h) PROVE Verifies(h)
<1>1. ASSUME NEW g, Verifies(g), Same(h, g) PROVE Verifies(h)
  <2>1. Needed(h) = Needed(g)
    BY <1>1 DEF Same, Needed
  <2>2. h.req >= 2 => LUKS2_reencrypt_digest_verify(h, Needed(h))
    BY <1>1, <2>1 DEF Verifies, Same, LUKS2_reencrypt_digest_verify, reencrypt_assembly_verification_data,
       backup_segments_serialize
  <2> QED
    BY <1>1, <2>2 DEF Verifies, Same
<1>2. h.req = 0 => Verifies(h)
  BY DEF Verifies
<1> QED
  BY <1>1, <1>2 DEF Kept, DigestInv

\* A digest that has just been made verifies.
LEMMA FreshVerifies ==
  ASSUME NEW g,
         g.digest = {[ver |-> g.req, old |-> g.old, new |-> g.new,
                      ks |-> reenc_keyslot_serialize(g.ks), segs |-> backup_segments_serialize(g)]}
  PROVE  LUKS2_reencrypt_digest_verify(g, Needed(g))
<1> DEFINE x == [ver |-> g.req, old |-> g.old, new |-> g.new,
                 ks |-> reenc_keyslot_serialize(g.ks), segs |-> backup_segments_serialize(g)]
<1>1. reencrypt_assembly_verification_data(g, Needed(g), g.req) = {x}
  BY DEF reencrypt_assembly_verification_data, Needed
<1>2. g.digest = {x}
  OBVIOUS
<1> HIDE DEF x
<1> QED
  BY <1>1, <1>2, Zenon DEF LUKS2_reencrypt_digest_verify

\* Outside decryption no segment of its own protection is initialized.
LEMMA InitFits ==
  ASSUME scenario # "decrypt", NEW moved, reencrypt_verify_resilience_params(InitParams, moved),
         NEW ks, ks.area = reencrypt_keyslot_area_jobj(InitParams, align), NEW size
  PROVE  MovedFits(ks, size)
<1> DEFINE p == InitParams
<1>1. p.shift = proc.shift /\ (proc.shift > 0 => p.res = "datashift")
  BY DEF InitParams
<1> HIDE DEF p
<1>2. p.res \in {"datashift-checksum", "datashift-journal"} => p.shift > 0
  BY DEF reencrypt_verify_resilience_params, reencrypt_verify_datashift_params, p
<1>3. p.res \notin {"datashift-checksum", "datashift-journal"}
  BY <1>1, <1>2
<1>4. ks.area.type = p.res
  BY DEF reencrypt_keyslot_area_jobj, p
<1> QED
  BY <1>3, <1>4 DEF MovedFits, load_resilience_secondary

\* What an initialization writes verifies.
LEMMA InitVerifies ==
  ASSUME TypeOK, NEW g \in reencrypt_init(Hdr, InitParams)
  PROVE  Verifies(g)
<1>1. IsHdr(Hdr)
  BY HdrIs
<1>2. /\ reencrypt_verify_resilience_params(InitParams, g.moved > 0) /\ reenc_keyslot_validate(g.ks)
      /\ g.ks.area = reencrypt_keyslot_area_jobj(InitParams, align)
      /\ scenario = "decrypt" => MovedFits(g.ks, g.moved)
      /\ g.digest = {[ver |-> g.req, old |-> g.old, new |-> g.new,
                      ks |-> reenc_keyslot_serialize(g.ks), segs |-> backup_segments_serialize(g)]}
  BY <1>1, InitWrites, ZenonT(40)
<1>3. LUKS2_reencrypt_digest_verify(g, Needed(g))
  BY <1>2, FreshVerifies
<1>4. MovedFits(g.ks, g.moved)
  BY <1>2, InitFits
<1> QED
  BY <1>2, <1>3, <1>4 DEF Verifies

\* What a load writes verifies.
LEMMA LoadVerifies ==
  ASSUME TypeOK, DigestInv, NEW p, NEW g \in Loaded(p)
  PROVE  Verifies(g)
<1>1. IsHdr(Hdr) /\ (Hdr = dev \/ Hdr = file.hdr)
  BY HdrIs
<1>2. CASE g = Hdr
  BY <1>1, <1>2 DEF DigestInv
<1>3. CASE g # Hdr
  <2>1. /\ reenc_keyslot_validate(g.ks) /\ MovedFits(g.ks, g.moved)
        /\ g.digest = {[ver |-> g.req, old |-> g.old, new |-> g.new,
                        ks |-> reenc_keyslot_serialize(g.ks), segs |-> backup_segments_serialize(g)]}
    BY <1>1, <1>3, LoadWrites
  <2>2. LUKS2_reencrypt_digest_verify(g, Needed(g))
    BY <2>1, FreshVerifies
  <2> QED BY <2>1, <2>2 DEF Verifies
<1> QED
  BY <1>2, <1>3

\* The initial states.
LEMMA DigestInit == Init => DigestInv
<1> SUFFICES ASSUME Init PROVE DigestInv
  OBVIOUS
<1>1. \A sc : Verifies(Started(sc))
  BY DEF Started, Blank, Verifies
<1>2. Verifies(NoHdr)
  BY ConstantFacts DEF Verifies
<1>3. Verifies(Legacy)
  BY DEF Legacy, Verifies, reenc_keyslot_validate, MovedFits, load_resilience_secondary, Checksummed
<1>4. dev \in {Started(scenario), Legacy, NoHdr}
  BY Zenon DEF Init
<1>5. file \in {File(Started(scenario)), Absent}
  BY Zenon DEF Init
<1> QED
  BY <1>1, <1>2, <1>3, <1>4, <1>5, ConstantFacts DEF DigestInv

\* A header write, of metadata that verify or are copied.
LEMMA WriteVerifies ==
  ASSUME TypeOK, DigestInv, NEW g, NEW ok, NEW failed, HdrWrite(g, ok, failed), Verifies(g)
  PROVE  DigestInv'
<1>1. (dev' = dev \/ dev' = g) /\ (file' = file \/ file' = File(g))
  BY DEF HdrWrite, PutHdr
<1>2. (file'.hdr = file.hdr \/ file'.hdr = g) /\ (dev' = dev \/ dev' = g)
  BY <1>1, ConstantFacts
<1>3. Verifies(dev) /\ Verifies(file.hdr)
  BY DEF DigestInv
<1>4. Verifies(dev') /\ Verifies(file'.hdr)
  BY <1>2, <1>3
<1> QED
  BY <1>4, Zenon DEF DigestInv, Verifies, LUKS2_reencrypt_digest_verify, reencrypt_assembly_verification_data,
     Needed, backup_segments_serialize, MovedFits

\* Headers that are copied verify.
LEMMA CopiesVerify == ASSUME DigestInv, Kept(dev'), Kept(file'.hdr) PROVE DigestInv'
<1>1. Verifies(dev') /\ Verifies(file'.hdr)
  BY KeptVerifies
<1> QED
  BY <1>1, Zenon DEF DigestInv, Verifies, LUKS2_reencrypt_digest_verify, reencrypt_assembly_verification_data,
     Needed, backup_segments_serialize, MovedFits

\* Headers as they were, and those without reencryption.
LEMMA KeptFacts ==
  ASSUME TypeOK
  PROVE  /\ Kept(dev) /\ Kept(file.hdr) /\ Kept(NoHdr) /\ Kept(Absent.hdr) /\ Kept(Damaged.hdr)
         /\ Kept(File(dev).hdr)
         /\ \A i, s : DOMAIN s = {"pass", "key"} =>
              Kept(WithSlot(dev, i, s)) /\ Kept(WithSlot(file.hdr, i, s)) /\ Kept(WithSlot(NoHdr, i, s))
         /\ \A r \in Restoring : Kept(r[2])
         /\ \A r \in Partial : Kept(r[3])
<1>1. Kept(dev) /\ Kept(file.hdr) /\ Kept(NoHdr) /\ Kept(Absent.hdr) /\ Kept(Damaged.hdr) /\ Kept(File(dev).hdr)
  BY ConstantFacts DEF Kept, Same
<1>2. ASSUME NEW h \in {dev, file.hdr, NoHdr}, NEW i, NEW s, DOMAIN s = {"pass", "key"} PROVE Kept(WithSlot(h, i, s))
  <2>1. IsHdr(h)
    BY ConstantFacts DEF TypeOK
  <2>2. Same(WithSlot(h, i, s), h)
    BY <1>2, <2>1, SlotPut DEF Same
  <2> QED BY <2>2, ConstantFacts DEF Kept, Same
<1>3. \A r \in Restoring : Kept(r[2])
  BY <1>1, RestoringFacts DEF Kept, Same
<1>4. \A r \in Partial : Kept(r[3])
  BY <1>1, PartialFacts DEF Kept, Same
<1> QED
  BY <1>1, <1>2, <1>3, <1>4

\* Steps that write no reencryption metadata of their own.
CopyStep ==
  \/ \E o \in Options : reencrypt(o)
  \/ encrypt_create \/ encrypt_move \/ encrypt_destroy \/ encrypt_restore \/ encrypt_out
  \/ decrypt_backup \/ decrypt_wipe \/ decrypt_unwipe \/ decrypt_reload \/ decrypt_suspend
  \/ decrypt_move \/ dm_resume_device \/ dm_clear_device \/ decrypt_status
  \/ InitRefused \/ fill_keyslot_passwords \/ crypt_keyslot_add_by_key \/ crypt_keyslot_destroy
  \/ Finish \/ Kill \/ luksHeaderRestore \/ Realign

\* They only copy what there is.
LEMMA CopyStepKeeps == ASSUME FlowInv, CopyStep PROVE Kept(dev') /\ Kept(file'.hdr)
<1>0. TypeOK
  BY DEF FlowInv
<1>K. /\ Kept(dev) /\ Kept(file.hdr) /\ Kept(NoHdr) /\ Kept(Absent.hdr) /\ Kept(Damaged.hdr)
      /\ Kept(File(dev).hdr)
      /\ \A i, s : DOMAIN s = {"pass", "key"} =>
           Kept(WithSlot(dev, i, s)) /\ Kept(WithSlot(file.hdr, i, s)) /\ Kept(WithSlot(NoHdr, i, s))
      /\ \A r \in Restoring : Kept(r[2])
      /\ \A r \in Partial : Kept(r[3])
  BY <1>0, KeptFacts
<1>1. CASE (\E o \in Options : reencrypt(o)) \/ Realign
  BY <1>1, <1>K DEF reencrypt, Realign, disk
<1>2. CASE encrypt_create \/ encrypt_move \/ encrypt_out \/ Finish
  BY <1>2, <1>K DEF encrypt_create, encrypt_move, encrypt_out, Finish
<1>3. CASE encrypt_destroy
  <2>1. dev' = dev /\ (file' = file \/ file' = File(WithSlot(file.hdr, 0, NoSlot)))
    <3>1. proc.md = "file"
      BY <1>3 DEF encrypt_destroy, FlowInv, PlaceInv, EncryptPcs
    <3> QED
      BY <1>3, <3>1, Zenon DEF encrypt_destroy, PutHdr, WithSlot, disk
  <2>2. DOMAIN NoSlot = {"pass", "key"}
    BY ConstantFacts
  <2>3. Kept(WithSlot(file.hdr, 0, NoSlot))
    BY <1>K, <2>2, Zenon
  <2> QED BY <1>K, <2>1, <2>3, ConstantFacts
<1>4. CASE encrypt_restore
  <2>1. file' = file /\ (dev' = file.hdr \/ \E r \in Restoring : dev' = r[2])
    BY <1>4, Zenon DEF encrypt_restore, LUKS2_hdr_restore
  <2> QED BY <1>K, <2>1
<1>5. CASE decrypt_unwipe
  <2>1. (file' = file \/ file' = Absent) /\ (dev' = file.hdr \/ \E r \in Restoring : dev' = r[2])
    BY <1>5, Zenon DEF decrypt_unwipe, LUKS2_hdr_restore
  <2> QED BY <1>K, <2>1
<1>6. CASE decrypt_backup
  <2>1. dev' = dev /\ file' \in {file, File(dev), Damaged}
    BY <1>6, Zenon DEF decrypt_backup
  <2> QED BY <1>K, <2>1
<1>7. CASE decrypt_wipe \/ decrypt_reload \/ decrypt_suspend \/ decrypt_move \/ dm_resume_device \/ dm_clear_device
           \/ decrypt_status \/ InitRefused \/ fill_keyslot_passwords
  <2>1. dev' = dev /\ (file' = file \/ file' = Absent)
    BY <1>7, Zenon DEF decrypt_wipe, decrypt_reload, decrypt_suspend, decrypt_move, dm_resume_device, dm_clear_device,
       decrypt_status, InitRefused, fill_keyslot_passwords, disk
  <2> QED BY <1>K, <2>1
<1>8. CASE crypt_keyslot_add_by_key
  <2> DEFINE s == Slot(dev.slots[Lowest(proc.todo)].pass, NewKey)
  <2>1. DOMAIN s = {"pass", "key"}
    BY ConstantFacts
  <2>2. file' = file /\ dev' \in {dev, WithSlot(dev, Lowest(Free(dev)), s)}
    BY <1>0, <1>8, AddFacts
  <2> HIDE DEF s
  <2> QED BY <1>K, <2>1, <2>2
<1>9. CASE crypt_keyslot_destroy
  <2>1. file' = file /\ dev' \in {dev, WithSlot(dev, Lowest(proc.added), NoSlot)}
    BY <1>0, <1>9, UndoFacts
  <2> QED BY <1>K, <2>1, ConstantFacts
<1>10. CASE Kill
  BY <1>10, <1>K DEF Kill
<1>11. CASE luksHeaderRestore
  BY <1>11, <1>K DEF luksHeaderRestore
<1> QED
  BY <1>1, <1>2, <1>3, <1>4, <1>5, <1>6, <1>7, <1>8, <1>9, <1>10, <1>11 DEF CopyStep

\* Every step.
LEMMA DigestNext == FlowInv /\ DigestInv /\ [Next]_vars => DigestInv'
<1> SUFFICES ASSUME FlowInv, DigestInv, [Next]_vars PROVE DigestInv'
  OBVIOUS
<1>0. TypeOK
  BY DEF FlowInv
<1>1. CASE UNCHANGED vars \/ CopyStep
  <2>1. Kept(dev') /\ Kept(file'.hdr)
    BY <1>0, <1>1, CopyStepKeeps, KeptFacts DEF vars, disk
  <2> QED BY <2>1, CopiesVerify
<1>2. CASE encrypt_flag \/ decrypt_flag \/ decrypt_luks2_init \/ reencrypt_flag
  <2>1. \E g \in reencrypt_init(Hdr, InitParams) : \E ok, failed : HdrWrite(g, ok, failed)
    BY <1>2, Zenon DEF encrypt_flag, decrypt_flag, decrypt_luks2_init, reencrypt_flag, InitFlag
  <2> QED BY <1>0, <2>1, InitVerifies, WriteVerifies
<1>3. CASE reencrypt_luks2_load
  <2>1. CASE \E p \in CanLoad : \E g \in Loaded(p) : HdrWrite(g, "done", "failed")
    BY <1>0, <2>1, LoadVerifies, WriteVerifies
  <2>2. CASE UNCHANGED <<disk, dm>>
    <3>1. Kept(dev') /\ Kept(file'.hdr)
      BY <1>0, <2>2, KeptFacts DEF disk
    <3> QED BY <3>1, CopiesVerify
  <2> QED BY <1>3, <2>1, <2>2 DEF reencrypt_luks2_load
<1>4. CASE reencrypt_repair_by_passphrase
  <2>1. PICK g \in reencrypt_repair(dev, Unlocked(dev, Needed(dev))) : HdrWrite(g, "done", "failed")
    BY <1>4 DEF reencrypt_repair_by_passphrase
  <2>2. dev.req > 0 /\ IsHdr(dev)
    BY <1>0, <1>4 DEF reencrypt_repair_by_passphrase, FlowInv, PlaceInv, TypeOK
  <2>3. /\ g.moved = dev.moved /\ g.ks = dev.ks
        /\ g.digest = {[ver |-> g.req, old |-> g.old, new |-> g.new,
                        ks |-> reenc_keyslot_serialize(g.ks), segs |-> backup_segments_serialize(g)]}
    BY <2>1, <2>2, RepairWrites
  <2>4. LUKS2_reencrypt_digest_verify(g, Needed(g))
    BY <2>3, FreshVerifies
  <2>5. Verifies(g)
    BY <2>2, <2>3, <2>4 DEF DigestInv, Verifies
  <2> QED BY <1>0, <2>1, <2>5, WriteVerifies
<1>5. CASE luksFormat
  <2>1. \E g, ok, failed : HdrWrite(g, ok, failed) /\ (g = NoHdr \/ g = WithSlot(NoHdr, 0, Slot(Passes[1], NewKey)))
    BY <1>5, Zenon DEF luksFormat, WithSlot
  <2>2. PICK g, ok, failed : HdrWrite(g, ok, failed) /\ (g = NoHdr \/ g = WithSlot(NoHdr, 0, Slot(Passes[1], NewKey)))
    BY <2>1
  <2>3. Kept(g)
    BY <1>0, <2>2, KeptFacts, ConstantFacts
  <2> QED BY <1>0, <2>2, <2>3, KeptVerifies, WriteVerifies
<1> QED
  BY <1>1, <1>2, <1>3, <1>4, <1>5 DEF Next, CopyStep

\* The reencryption metadata on disk, in the header or in the header file, verify
\* against their digest after any sequence of initializations, resumptions with
\* other options (LUKS2_keyslot_reencrypt_update), repairs, faults and kills, and
\* the moved segment fits its protection.
THEOREM StoredDigestVerifies == Spec => []DigestHolds
<1>1. Spec => []DigestInv
  <2>1. Init => DigestInv
    BY DigestInit
  <2>2. FlowInv /\ DigestInv /\ [Next]_vars => DigestInv'
    BY DigestNext
  <2> QED
    BY <2>1, <2>2, FlowInvariant, PTL DEF Spec
<1>2. FlowInv /\ DigestInv => DigestHolds
  <2> SUFFICES ASSUME FlowInv, DigestInv, NEW h \in Stored, h.req >= 2
               PROVE  /\ LUKS2_reencrypt_digest_verify(h, Needed(h))
                      /\ reenc_keyslot_validate(h.ks) /\ MovedFits(h.ks, h.moved)
    BY DEF DigestHolds
  <2>1. h = dev \/ h = file.hdr
    BY DEF Stored
  <2>2. h.req \in Nat
    BY <2>1 DEF FlowInv, TypeOK, IsHdr
  <2>3. Verifies(h) /\ h.req > 0
    BY <2>1, <2>2 DEF DigestInv
  <2> QED BY <2>3 DEF Verifies
<1> QED
  BY <1>1, <1>2, FlowInvariant, PTL

-----------------------------------------------------------------------------
\* SafeInv and KeysInv.

\* A keyslot with the volume key of the data stays.
Keeps(g, h) == \A i \in Slots : h.slots[i].key = "old" => g.slots[i] = h.slots[i]

\* Every passphrase goes on to open the data.
LEMMA CompleteKept == ASSUME NEW g, NEW h, Keeps(g, h), Complete(h) PROVE Complete(g)
<1> SUFFICES ASSUME NEW p \in PassSet PROVE "old" \in Opened(g, p)
  BY DEF Complete
<1>1. PICK i \in {j \in Slots : h.slots[j].pass = p} : h.slots[i].key = "old"
  BY DEF Complete, Opened
<1>2. g.slots[i] = h.slots[i]
  BY <1>1 DEF Keeps
<1> QED
  BY <1>1, <1>2 DEF Opened

\* The new volume key is a key of its own.
LEMMA NewKeyFacts == ASSUME FlowInv, proc.pc # "idle" PROVE NewKey \notin {"none", "old", "reencrypt"}
<1>1. commands \in Nat /\ commands > 0 /\ commands <= MaxCommands
  BY InitConstants DEF FlowInv, TypeOK, PlaceInv
<1>2. DOMAIN VolumeKeys = 1..Len(VolumeKeys) /\ Len(VolumeKeys) \in Nat
  BY InitConstants
<1>3. commands \in DOMAIN VolumeKeys
  BY <1>1, <1>2, InitConstants
<1> QED
  BY <1>3, InitConstants DEF NewKey

\* An initialization, and a load, keep the keyslots of the data.
LEMMA WritesKeep ==
  ASSUME TypeOK
  PROVE  /\ \A g \in reencrypt_init(Hdr, InitParams) : Keeps(g, Hdr)
         /\ \A p : \A g \in Loaded(p) : Keeps(g, Hdr)
<1>0. IsHdr(Hdr)
  BY HdrIs
<1>1. ASSUME NEW g \in reencrypt_init(Hdr, InitParams) PROVE Keeps(g, Hdr)
  <2>1. Free(Hdr) # {} /\ g.slots = WithReencSlot(Hdr).slots
    BY <1>0, InitWrites
  <2>2. PICK j \in Slots : Hdr.slots[j] = NoSlot /\ \A i \in Slots \ {j} : WithReencSlot(Hdr).slots[i] = Hdr.slots[i]
    BY <1>0, <2>1, ReencSlot
  <2>3. NoSlot.key # "old"
    BY ConstantFacts
  <2> QED BY <2>1, <2>2, <2>3 DEF Keeps
<1>2. ASSUME NEW p, NEW g \in Loaded(p) PROVE Keeps(g, Hdr)
  <2>1. g.slots = Hdr.slots
    BY <1>0, LoadWrites
  <2> QED BY <2>1 DEF Keeps
<1> QED
  BY <1>1, <1>2

\* The header file of a decryption has all that is needed.
LEMMA SafeFile ==
  ASSUME scenario' = "decrypt", file'.st = "ok", Complete(file'.hdr), proc'.pc \notin {"d_backup", "d_wipe"}
  PROVE  SafeInv'
<1>1. (Complete(file.hdr))'
  BY DEF Complete, Opened
<1> QED
  BY <1>1 DEF SafeInv

\* Nothing of it is at stake.
LEMMA SafeElsewhere == ASSUME scenario' \in {"encrypt", "encrypt_hdr"} PROVE SafeInv'
BY DEF SafeInv

\* Nothing is written.
LEMMA SafeQuiet ==
  ASSUME SafeInv, UNCHANGED <<scenario, head, dev, file>>, proc'.pc \notin DecryptPcs
  PROVE  SafeInv'
<1>1. (Complete(dev))' = Complete(dev) /\ (Complete(file.hdr))' = Complete(file.hdr)
  BY DEF Complete, Opened
<1> QED
  BY <1>1 DEF SafeInv, DecryptPcs

\* The initial states.
LEMMA SafeInit == Init => SafeInv
<1> SUFFICES ASSUME Init PROVE SafeInv
  OBVIOUS
<1>1. ASSUME NEW h, \A i \in Slots : i + 1 \in DOMAIN Passes => h.slots[i] = Slot(Passes[i + 1], "old")
      PROVE  Complete(h)
  <2> SUFFICES ASSUME NEW k \in DOMAIN Passes PROVE "old" \in Opened(h, Passes[k])
    BY DEF Complete, PassSet
  <2>1. k \in Nat /\ k >= 1 /\ k <= Len(Passes) /\ Len(Passes) \in Nat
    BY InitConstants
  <2>2. k - 1 \in Slots /\ (k - 1) + 1 = k
    BY <2>1, InitConstants DEF Slots
  <2>3. h.slots[k - 1] = Slot(Passes[k], "old")
    BY <1>1, <2>2
  <2>4. h.slots[k - 1].pass = Passes[k] /\ h.slots[k - 1].key = "old"
    BY <2>3, ConstantFacts
  <2> QED BY <2>2, <2>4 DEF Opened
<1>2. ASSUME NEW sc, sc # "encrypt" PROVE Complete(Started(sc))
  <2>1. \A i \in Slots : i + 1 \in DOMAIN Passes => Started(sc).slots[i] = Slot(Passes[i + 1], "old")
    BY <1>2 DEF Started, Blank
  <2> QED BY <1>1, <2>1
<1>3. Complete(Legacy)
  <2>1. ASSUME NEW i \in Slots, i + 1 \in DOMAIN Passes PROVE Legacy.slots[i] = Slot(Passes[i + 1], "old")
    <3>1. i \in Nat /\ i + 1 <= Len(Passes) /\ Len(Passes) \in Nat
      BY <2>1, InitConstants DEF Slots
    <3>2. i # Len(Passes) /\ i # Len(Passes) + 1
      BY <3>1
    <3>3. Started("legacy").slots[i] = Slot(Passes[i + 1], "old")
      BY <2>1 DEF Started, Blank
    <3> QED BY <3>2, <3>3 DEF Legacy
  <2> QED BY <1>1, <2>1
<1>4. /\ scenario \in {"decrypt", "reencrypt"} => dev = Started(scenario)
      /\ scenario = "legacy" => dev = Legacy
      /\ scenario \in {"decrypt", "reencrypt", "legacy"} => head = "hdr"
      /\ scenario = "decrypt_hdr" => file = File(Started(scenario))
      /\ scenario # "decrypt_hdr" => file = Absent
      /\ proc = Idle
  BY Zenon DEF Init
<1> QED
  BY <1>2, <1>3, <1>4, ConstantFacts DEF SafeInv, DecryptPcs

\* The keyslots are finitely many.
LEMMA SlotsFinite ==
  /\ IsFiniteSet(Slots) /\ Cardinality(Slots) = MaxSlots /\ Slots \subseteq Nat
  /\ \A S : S \subseteq Slots => IsFiniteSet(S) /\ Cardinality(S) \in Nat
<1>1. IsFiniteSet(0..(MaxSlots - 1)) /\ Cardinality(0..(MaxSlots - 1)) = MaxSlots
  <2>1. 0 \in Int /\ MaxSlots - 1 \in Int /\ ~(0 > MaxSlots - 1) /\ (MaxSlots - 1) - 0 + 1 = MaxSlots
    BY InitConstants
  <2> QED BY <2>1, FS_Interval
<1>2. \A S : S \subseteq Slots => IsFiniteSet(S)
  BY <1>1, FS_Subset DEF Slots
<1> QED
  BY <1>1, <1>2, FS_CardinalityType DEF Slots

\* A keyslot is free for the next passphrase.
LEMMA RoomFacts ==
  ASSUME FlowInv, KeysInv, scenario = "reencrypt", proc.pc = "r_add"
  PROVE  LET j == Lowest(Free(dev)) i == Lowest(proc.todo) IN
         /\ j \in Slots /\ dev.slots[j] = NoSlot /\ j \in Free(dev)
         /\ i \in proc.todo /\ i \in Slots /\ dev.slots[i].key = "old" /\ i # j
<1>1. /\ proc.todo # {} /\ proc.todo \subseteq Active(dev)
      /\ Cardinality(proc.todo) < Cardinality(Free(dev))
  BY DEF KeysInv
<1>2. Active(dev) \subseteq Slots /\ Free(dev) \subseteq Slots
  BY DEF Active, Free
<1>3. Cardinality(proc.todo) \in Nat
  BY <1>1, <1>2, SlotsFinite
<1>4. Free(dev) # {}
  <2>1. Cardinality(Free(dev)) # 0
    BY <1>1, <1>2, <1>3, SlotsFinite
  <2> QED BY <2>1, FS_EmptySet
<1>5. Lowest(Free(dev)) \in Free(dev) /\ Lowest(proc.todo) \in proc.todo
  BY <1>1, <1>2, <1>4, LowestIn, SlotsFinite
<1> QED
  BY <1>1, <1>5, ConstantFacts DEF Active, Free

\* What one more keyslot leaves as it was.
LEMMA AddKeeps ==
  ASSUME FlowInv, KeysInv, crypt_keyslot_add_by_key
  PROVE  Keeps(dev', dev)
<1>1. proc.pc = "r_add" /\ scenario = "reencrypt" /\ TypeOK /\ IsHdr(dev)
  BY DEF crypt_keyslot_add_by_key, FlowInv, PlaceInv, ReencryptPcs, TypeOK
<1> DEFINE j == Lowest(Free(dev))
           s == Slot(dev.slots[Lowest(proc.todo)].pass, NewKey)
<1>2. dev' \in {dev, WithSlot(dev, j, s)}
  BY <1>1, AddFacts
<1>3. dev.slots[j] = NoSlot /\ DOMAIN s = {"pass", "key"} /\ NoSlot.key # "old"
  BY <1>1, RoomFacts, ConstantFacts
<1> HIDE DEF j, s
<1>4. \A i \in Slots : i # j => WithSlot(dev, j, s).slots[i] = dev.slots[i]
  BY <1>1, <1>3, SlotPut
<1> QED
  BY <1>2, <1>3, <1>4 DEF Keeps

\* What one keyslot less leaves as it was.
LEMMA UndoKeeps ==
  ASSUME FlowInv, KeysInv, crypt_keyslot_destroy
  PROVE  Keeps(dev', dev)
<1>1. proc.pc = "r_undo" /\ scenario = "reencrypt" /\ TypeOK /\ IsHdr(dev)
  BY DEF crypt_keyslot_destroy, FlowInv, PlaceInv, ReencryptPcs, TypeOK
<1> DEFINE j == Lowest(proc.added)
<1>2. dev' = dev \/ (dev' = WithSlot(dev, j, NoSlot) /\ proc.added # {})
  BY <1>1, UndoFacts
<1>3. proc.added # {} => j \in Slots /\ dev.slots[j].key # "old"
  <2>1. proc.added \subseteq Slots /\ \A k \in proc.added : dev.slots[k].key # "old"
    BY <1>1 DEF KeysInv
  <2>2. proc.added # {} => j \in proc.added
    BY <2>1, LowestIn, SlotsFinite
  <2> QED BY <2>1, <2>2
<1> HIDE DEF j
<1>4. \A i \in Slots : i # j => WithSlot(dev, j, NoSlot).slots[i] = dev.slots[i]
  BY <1>1, SlotPut, ConstantFacts
<1> QED
  BY <1>2, <1>3, <1>4 DEF Keeps

\* The header on the device is written, and keeps the keyslots of the data.
LEMMA SafeDev ==
  ASSUME SafeInv, scenario \in {"reencrypt", "legacy"}, scenario' = scenario, Keeps(dev', dev)
  PROVE  SafeInv'
<1>1. Complete(dev')
  BY CompleteKept DEF SafeInv
<1>2. (Complete(dev))'
  BY <1>1 DEF Complete, Opened
<1> QED
  BY <1>2 DEF SafeInv

\* A detached header is written, and keeps the keyslots of the data.
LEMMA SafeDetached ==
  ASSUME SafeInv, scenario = "decrypt_hdr", scenario' = scenario, Keeps(file'.hdr, file.hdr)
  PROVE  SafeInv'
<1>1. Complete(file'.hdr)
  BY CompleteKept DEF SafeInv
<1>2. (Complete(file.hdr))'
  BY <1>1 DEF Complete, Opened
<1> QED
  BY <1>2 DEF SafeInv

\* The steps of a decryption over the header.
LEMMA SafeDecrypt ==
  ASSUME FlowInv, SafeInv,
         \/ decrypt_backup \/ decrypt_wipe \/ decrypt_unwipe \/ decrypt_reload \/ decrypt_suspend
         \/ decrypt_move \/ decrypt_flag \/ dm_resume_device \/ dm_clear_device \/ decrypt_status
  PROVE  SafeInv'
<1>0. /\ TypeOK /\ proc.pc \in DecryptPcs /\ scenario = "decrypt" /\ scenario' = "decrypt"
      /\ decrypt_backup \/ proc.pc # "d_backup"
  <2>1. proc.pc \in DecryptPcs /\ (decrypt_backup \/ proc.pc # "d_backup")
    BY DEF decrypt_backup, decrypt_wipe, decrypt_unwipe, decrypt_reload, decrypt_suspend, decrypt_move, decrypt_flag,
       dm_resume_device, dm_clear_device, decrypt_status, InitFlag, DecryptPcs
  <2>2. scenario' = scenario
    BY DEF decrypt_backup, decrypt_wipe, decrypt_unwipe, decrypt_reload, decrypt_suspend, decrypt_move, decrypt_flag,
       dm_resume_device, dm_clear_device, decrypt_status, InitFlag, Fixed
  <2> QED BY <2>1, <2>2 DEF FlowInv, PlaceInv
<1>1. CASE decrypt_backup
  <2>1. /\ proc.pc = "d_backup" /\ head' = head /\ dev' = dev
        /\ file' = File(dev) \/ (proc' = Idle /\ file' \in {file, Damaged})
    BY <1>1, Zenon DEF decrypt_backup, Ends
  <2>2. head = "hdr" /\ Complete(dev)
    BY <1>0, <2>1 DEF SafeInv
  <2>3. (Complete(dev))' /\ (file.st = "ok" => Complete(file.hdr))
    BY <1>0, <2>1, <2>2 DEF SafeInv, Complete, Opened
  <2>4. CASE file' = File(dev)
    <3>1. file'.st = "ok" /\ (Complete(file.hdr))'
      BY <2>2, <2>4, ConstantFacts DEF Complete, Opened
    <3> QED BY <1>0, <2>1, <2>2, <2>3, <3>1 DEF SafeInv
  <2>5. CASE proc' = Idle /\ file' \in {file, Damaged}
    <3>1. proc'.pc = "idle"
      BY <2>5, ConstantFacts
    <3>2. file'.st = "ok" => (Complete(file.hdr))'
      BY <2>3, <2>5, ConstantFacts DEF Complete, Opened
    <3> QED BY <1>0, <2>1, <2>2, <2>3, <3>1, <3>2 DEF SafeInv, DecryptPcs
  <2> QED BY <2>1, <2>4, <2>5
<1>2. ASSUME ~decrypt_backup PROVE file.st = "ok" /\ Complete(file.hdr)
  BY <1>0, <1>2 DEF SafeInv
<1>3. CASE decrypt_wipe
  <2>1. /\ proc.pc = "d_wipe" /\ dev' = dev
        /\ \/ file' = file /\ (Goto("d_init") \/ Goto("d_unwipe"))
           \/ head' = head /\ file' = Absent /\ proc' = Idle
    BY <1>3, Zenon DEF decrypt_wipe, Ends
  <2>2. head = "hdr" /\ Complete(dev) /\ file.st = "ok" /\ Complete(file.hdr)
    BY <1>0, <2>1 DEF SafeInv, DecryptPcs
  <2>3. CASE file' = file /\ (Goto("d_init") \/ Goto("d_unwipe"))
    <3>1. proc'.pc \in {"d_init", "d_unwipe"}
      BY <1>0, <2>3, GotoFacts
    <3> QED BY <1>0, <2>2, <2>3, <3>1, SafeFile
  <2>4. CASE head' = head /\ file' = Absent /\ proc' = Idle
    <3>1. proc'.pc = "idle" /\ file'.st # "ok" /\ (Complete(dev))'
      BY <2>1, <2>2, <2>4, ConstantFacts DEF Complete, Opened
    <3> QED BY <1>0, <2>2, <2>4, <3>1 DEF SafeInv, DecryptPcs
  <2> QED BY <2>1, <2>3, <2>4
<1>4. CASE decrypt_unwipe
  <2>1. /\ proc.pc # "d_backup" /\ proc' = Idle
        /\ \/ head' = "hdr" /\ dev' = file.hdr /\ file' = Absent
           \/ file' = file
    BY <1>4 DEF decrypt_unwipe, LUKS2_hdr_restore, Ends
  <2>2. file.st = "ok" /\ Complete(file.hdr) /\ proc'.pc = "idle"
    BY <1>0, <2>1, ConstantFacts DEF SafeInv
  <2>3. CASE head' = "hdr" /\ dev' = file.hdr /\ file' = Absent
    <3>1. file'.st # "ok" /\ (Complete(dev))'
      BY <2>2, <2>3, ConstantFacts DEF Complete, Opened
    <3> QED BY <1>0, <2>2, <2>3, <3>1 DEF SafeInv, DecryptPcs
  <2>4. CASE file' = file
    BY <1>0, <2>2, <2>4, SafeFile
  <2> QED BY <2>1, <2>3, <2>4
<1>5. CASE decrypt_reload \/ decrypt_suspend \/ decrypt_move \/ dm_clear_device \/ decrypt_status \/ dm_resume_device
  <2>1. proc.pc # "d_backup" /\ file' = file
    BY <1>5 DEF decrypt_reload, decrypt_suspend, decrypt_move, dm_clear_device, decrypt_status, dm_resume_device, disk
  <2>2. proc' = Idle \/ \E pc \in Pcs \ {"d_backup", "d_wipe"} : Goto(pc)
    <3> USE DEF Pcs, DecryptPcs
    <3>1. CASE decrypt_reload \/ decrypt_suspend \/ dm_clear_device \/ decrypt_status
      BY <3>1 DEF decrypt_reload, decrypt_suspend, dm_clear_device, decrypt_status, Ends
    <3>2. CASE decrypt_move
      <4>1. DecryptFailed \in {"d_clear", "d_status"}
        BY DEF DecryptFailed
      <4> QED BY <3>2, <4>1 DEF decrypt_move
    <3>3. CASE dm_resume_device
      <4> DEFINE to == IF proc.pc = "d_cleared" THEN "d_status" ELSE IF proc.initonly THEN "done" ELSE "load"
      <4>1. to \in {"d_status", "done", "load"} /\ Goto(to)
        BY <3>3 DEF dm_resume_device
      <4> QED BY <4>1
    <3> QED BY <1>5, <3>1, <3>2, <3>3
  <2>3. proc'.pc \notin {"d_backup", "d_wipe"}
    BY <1>0, <2>2, GotoFacts, ConstantFacts
  <2>4. file.st = "ok" /\ Complete(file.hdr)
    BY <1>0, <2>1 DEF SafeInv
  <2> QED BY <1>0, <2>1, <2>3, <2>4, SafeFile
<1>6. CASE decrypt_flag
  <2>0. proc.md = "file" /\ proc.pc # "d_backup" /\ DecryptFailed \in {"d_clear", "d_status"}
    BY <1>0, <1>6 DEF decrypt_flag, InitFlag, FlowInv, PlaceInv, DecryptFailed
  <2>1. PICK g \in reencrypt_init(Hdr, InitParams) : HdrWrite(g, "d_resume", DecryptFailed)
    BY <1>6 DEF decrypt_flag, InitFlag
  <2>2. (file' = file \/ file' = File(g)) /\ proc'.pc \in {"d_resume", "d_clear", "d_status"}
    BY <1>0, <2>0, <2>1, WriteFacts DEF Wrote
  <2>3. file.st = "ok" /\ Complete(file.hdr)
    BY <1>0, <2>0 DEF SafeInv
  <2>4. Complete(g)
    BY <1>0, <2>0, <2>3, HdrIs, WritesKeep, CompleteKept
  <2>5. file'.st = "ok" /\ Complete(file'.hdr)
    BY <2>2, <2>3, <2>4, ConstantFacts
  <2> QED BY <1>0, <2>2, <2>5, SafeFile
<1> QED
  BY <1>1, <1>3, <1>4, <1>5, <1>6

\* Every step.
LEMMA SafeNext == FlowInv /\ KeysInv /\ SafeInv /\ [Next]_vars => SafeInv'
<1> SUFFICES ASSUME FlowInv, KeysInv, SafeInv, [Next]_vars PROVE SafeInv'
  OBVIOUS
<1>0. TypeOK
  BY DEF FlowInv
<1>1. CASE UNCHANGED vars
  BY <1>1, Zenon DEF vars, disk, SafeInv, Complete, Opened
<1>2. CASE \E o \in Options : reencrypt(o)
  <2>1. PICK o \in Options : reencrypt(o)
    BY <1>2
  <2>2. UNCHANGED <<scenario, head, dev, file>> /\ proc'.pc = Dispatch(o).pc
    BY <2>1 DEF reencrypt, disk, Idle
  <2>3. /\ Dispatch(o).pc \in {"load", "e_create", "d_backup", "i_flag", "r_keyslots", "repair"}
        /\ Dispatch(o).pc = "d_backup" => scenario = "decrypt" /\ file.st = "absent"
    BY <2>1, DispatchFacts DEF reencrypt
  <2>4. (Complete(dev))' = Complete(dev) /\ (Complete(file.hdr))' = Complete(file.hdr)
    BY <2>2 DEF Complete, Opened
  <2> QED BY <2>2, <2>3, <2>4 DEF SafeInv, DecryptPcs
<1>3. CASE encrypt_create \/ luksFormat \/ encrypt_move \/ encrypt_flag \/ encrypt_destroy
           \/ encrypt_restore \/ encrypt_out
  <2>1. proc.pc \in EncryptPcs /\ scenario' = scenario
    BY <1>3 DEF encrypt_create, luksFormat, encrypt_move, encrypt_flag, encrypt_destroy, encrypt_restore, encrypt_out,
       InitFlag, EncryptPcs, Fixed
  <2> QED BY <2>1, SafeElsewhere DEF FlowInv, PlaceInv
<1>4. CASE \/ decrypt_backup \/ decrypt_wipe \/ decrypt_unwipe \/ decrypt_reload \/ decrypt_suspend
           \/ decrypt_move \/ decrypt_flag \/ dm_resume_device \/ dm_clear_device \/ decrypt_status
  BY <1>4, SafeDecrypt
<1>5. CASE decrypt_luks2_init
  <2>0. proc.md = "file" /\ scenario = "decrypt_hdr" /\ scenario' = scenario
    BY <1>5 DEF decrypt_luks2_init, InitFlag, FlowInv, PlaceInv, Fixed
  <2>1. PICK g \in reencrypt_init(Hdr, InitParams) : file' = file \/ file' = File(g)
    BY <1>5 DEF decrypt_luks2_init, InitFlag, HdrWrite, PutHdr
  <2>2. Keeps(g, file.hdr) /\ Keeps(file.hdr, file.hdr)
    BY <1>0, <2>0, HdrIs, WritesKeep DEF Keeps
  <2>3. Keeps(file'.hdr, file.hdr)
    BY <2>1, <2>2, ConstantFacts
  <2> QED BY <2>0, <2>3, SafeDetached
<1>6. CASE reencrypt_flag
  <2>0. proc.md = "dev" /\ scenario = "reencrypt" /\ scenario' = scenario
    BY <1>6 DEF reencrypt_flag, InitFlag, FlowInv, PlaceInv, ReencryptPcs, Fixed
  <2>1. PICK g \in reencrypt_init(Hdr, InitParams) : dev' = dev \/ dev' = g
    BY <1>6 DEF reencrypt_flag, InitFlag, HdrWrite, PutHdr
  <2>2. Keeps(g, dev) /\ Keeps(dev, dev)
    BY <1>0, <2>0, HdrIs, WritesKeep DEF Keeps
  <2> QED BY <2>0, <2>1, <2>2, SafeDev
<1>7. CASE crypt_keyslot_add_by_key \/ crypt_keyslot_destroy
  <2>1. scenario = "reencrypt" /\ scenario' = scenario
    BY <1>7 DEF crypt_keyslot_add_by_key, crypt_keyslot_destroy, FlowInv, PlaceInv, ReencryptPcs, Fixed
  <2> QED BY <1>7, <2>1, AddKeeps, UndoKeeps, SafeDev
<1>8. CASE InitRefused \/ fill_keyslot_passwords
  <2>1. UNCHANGED <<scenario, head, dev, file>> /\ proc.pc \in {"e_flag", "i_flag", "r_flag", "r_keyslots"}
    BY <1>8, Zenon DEF InitRefused, fill_keyslot_passwords, disk, Fixed
  <2>2. scenario # "decrypt"
    BY <2>1 DEF FlowInv, PlaceInv, EncryptPcs, ReencryptPcs
  <2>3. (Complete(dev))' = Complete(dev) /\ (Complete(file.hdr))' = Complete(file.hdr)
    BY <2>1 DEF Complete, Opened
  <2> QED BY <2>1, <2>2, <2>3 DEF SafeInv
<1>9. CASE reencrypt_luks2_load
  <2>0. proc.pc = "load" /\ scenario' = scenario
        /\ scenario \in {"encrypt", "encrypt_hdr", "decrypt", "decrypt_hdr", "reencrypt", "legacy"}
    BY <1>9, InitConstants DEF reencrypt_luks2_load, Fixed, FlowInv, TypeOK
  <2>1. PICK p : \E g \in Loaded(p) \cup {Hdr} :
          /\ proc'.pc \in {"done", "failed"}
          /\ Wrote(g) \/ (dev' = dev /\ file' = file)
    BY <1>9, LoadFacts
  <2>2. PICK g \in Loaded(p) \cup {Hdr} :
          /\ proc'.pc \in {"done", "failed"}
          /\ Wrote(g) \/ (dev' = dev /\ file' = file)
    BY <2>1
  <2>3. Keeps(g, Hdr) /\ Keeps(dev, dev) /\ Keeps(file.hdr, file.hdr)
    BY <1>0, WritesKeep DEF Keeps
  <2>4. CASE scenario \in {"reencrypt", "legacy"}
    <3>1. proc.md = "dev" /\ Hdr = dev
      BY <1>0, <2>0, <2>4, HdrIs DEF FlowInv, PlaceInv, HeaderInFile
    <3>2. Keeps(dev', dev)
      BY <2>2, <2>3, <3>1 DEF Wrote
    <3> QED BY <2>0, <2>4, <3>2, SafeDev
  <2>5. CASE scenario \in {"decrypt", "decrypt_hdr"}
    <3>1. proc.md = "file" /\ Hdr = file.hdr
      BY <1>0, <2>0, <2>5, HdrIs DEF FlowInv, PlaceInv, HeaderInFile
    <3>2. Keeps(file'.hdr, file.hdr) /\ (file' = file \/ file'.st = "ok")
      BY <2>2, <2>3, <3>1, ConstantFacts DEF Wrote
    <3>3. CASE scenario = "decrypt"
      <4>1. head = "moved" /\ file.st = "ok" /\ Complete(file.hdr)
        BY <2>0, <3>3 DEF FlowInv, DecryptInv, PlaceInv, SafeInv
      <4>2. file'.st = "ok" /\ Complete(file'.hdr)
        BY <3>2, <4>1, CompleteKept
      <4>3. scenario' = "decrypt"
        BY <2>0, <3>3
      <4>4. proc'.pc \notin {"d_backup", "d_wipe"}
        BY <2>2
      <4> QED BY <4>2, <4>3, <4>4, SafeFile
    <3>4. CASE scenario = "decrypt_hdr"
      BY <2>0, <3>2, <3>4, SafeDetached
    <3> QED BY <2>5, <3>3, <3>4
  <2> QED BY <2>0, <2>4, <2>5, SafeElsewhere
<1>10. CASE reencrypt_repair_by_passphrase
  <2>0. proc.md = "dev" /\ scenario = "legacy" /\ scenario' = scenario /\ IsHdr(dev)
    BY <1>0, <1>10 DEF reencrypt_repair_by_passphrase, FlowInv, PlaceInv, Fixed, TypeOK
  <2>1. PICK g \in reencrypt_repair(dev, Unlocked(dev, Needed(dev))) : dev' = dev \/ dev' = g
    BY <1>10 DEF reencrypt_repair_by_passphrase, HdrWrite, PutHdr
  <2>2. g.slots = dev.slots
    BY <2>0, RepairWrites
  <2>3. Keeps(dev', dev)
    BY <2>1, <2>2 DEF Keeps
  <2> QED BY <2>0, <2>3, SafeDev
<1>11. CASE Finish
  <2>1. UNCHANGED <<scenario, head, dev>> /\ (file' = file \/ scenario = "encrypt") /\ proc'.pc = "idle"
    BY <1>11, ConstantFacts DEF Finish, Fixed, Ends, Temp
  <2>2. CASE file' = file
    BY <2>1, <2>2, SafeQuiet DEF DecryptPcs
  <2> QED BY <2>1, <2>2, SafeElsewhere
<1>12. CASE Kill
  <2>1. PICK r \in Partial : head' = r[1] /\ tail' = r[2] /\ dev' = r[3]
    BY <1>12 DEF Kill
  <2>2. scenario' = scenario /\ file' = file /\ proc'.pc = "idle"
    BY <1>12, ConstantFacts DEF Kill, Ends
  <2>3. /\ head' = head \/ proc.pc \in {"d_move", "d_wipe", "d_unwipe", "d_restore", "e_restore"}
        /\ dev' = dev \/ proc.pc \in {"e_restore", "d_unwipe", "d_restore"}
    BY <1>0, <2>1, PartialFacts
  <2>4. CASE proc.pc = "e_restore"
    BY <2>2, <2>4, SafeElsewhere DEF FlowInv, PlaceInv
  <2>5. CASE proc.pc \in {"d_move", "d_wipe", "d_unwipe", "d_restore"}
    <3>1. scenario = "decrypt" /\ file.st = "ok" /\ Complete(file.hdr)
      BY <2>5 DEF FlowInv, PlaceInv, DecryptPcs, SafeInv
    <3> QED BY <2>2, <3>1, SafeFile
  <2>6. CASE head' = head /\ dev' = dev
    BY <2>2, <2>6, SafeQuiet DEF DecryptPcs
  <2> QED BY <2>3, <2>4, <2>5, <2>6
<1>13. CASE luksHeaderRestore
  <2>1. /\ scenario = "decrypt" /\ scenario' = scenario /\ file.st = "ok" /\ proc' = proc /\ proc = Idle
        /\ head' = "hdr" /\ dev' = file.hdr /\ file' = Absent
    BY <1>13 DEF luksHeaderRestore
  <2>2. Complete(file.hdr) /\ file'.st # "ok" /\ proc'.pc = "idle"
    BY <2>1, ConstantFacts DEF SafeInv
  <2>3. (Complete(dev))'
    BY <2>1, <2>2 DEF Complete, Opened
  <2> QED BY <2>1, <2>2, <2>3 DEF SafeInv, DecryptPcs
<1>14. CASE Realign
  <2>1. UNCHANGED <<scenario, head, dev, file>> /\ proc' = proc /\ proc = Idle
    BY <1>14 DEF Realign, disk
  <2> QED BY <2>1, SafeQuiet, ConstantFacts DEF DecryptPcs
<1> QED
  BY <1>1, <1>2, <1>3, <1>4, <1>5, <1>6, <1>7, <1>8, <1>9, <1>10, <1>11, <1>12, <1>13, <1>14 DEF Next

\* Without a reencryption a keyslot has the old key, another one, or is free.
LEMMA SlotCount ==
  ASSUME KeysInv, scenario = "reencrypt", dev.req = 0
  PROVE  /\ Cardinality(Active(dev)) \in Nat /\ Cardinality(Unbound(dev)) \in Nat /\ Cardinality(Free(dev)) \in Nat
         /\ Cardinality(Active(dev)) + Cardinality(Unbound(dev)) + Cardinality(Free(dev)) = MaxSlots
<1> DEFINE A == Active(dev)
           U == Unbound(dev)
           F == Free(dev)
<1>1. A \subseteq Slots /\ U \subseteq Slots /\ F \subseteq Slots
  BY DEF Active, Unbound, Free
<1>2. \A i \in Slots : (dev.slots[i].key = "none" => dev.slots[i] = NoSlot) /\ dev.slots[i].key # "reencrypt"
  BY DEF KeysInv
<1>3. A \cup U \cup F = Slots
  BY <1>2 DEF Active, Unbound, Free
<1>4. A \cap U = {} /\ (A \cup U) \cap F = {}
  BY ConstantFacts DEF Active, Unbound, Free
<1> HIDE DEF A, U, F
<1>5. IsFiniteSet(A) /\ IsFiniteSet(U) /\ IsFiniteSet(F)
      /\ Cardinality(A) \in Nat /\ Cardinality(U) \in Nat /\ Cardinality(F) \in Nat
  BY <1>1, SlotsFinite
<1>6. IsFiniteSet(A \cup U) /\ Cardinality(A \cup U) = Cardinality(A) + Cardinality(U)
  <2>1. Cardinality(A \cup U) = Cardinality(A) + Cardinality(U) - Cardinality({})
    BY <1>4, <1>5, FS_Union
  <2>2. IsFiniteSet(A \cup U)
    BY <1>5, FS_Union
  <2> QED BY <1>5, <2>1, <2>2, FS_EmptySet
<1>7. Cardinality((A \cup U) \cup F) = Cardinality(A) + Cardinality(U) + Cardinality(F)
  <2>1. Cardinality((A \cup U) \cup F) = Cardinality(A \cup U) + Cardinality(F) - Cardinality({})
    BY <1>4, <1>5, <1>6, FS_Union
  <2> QED BY <1>5, <1>6, <2>1, FS_EmptySet
<1>8. Cardinality(A) + Cardinality(U) + Cardinality(F) = MaxSlots
  BY <1>3, <1>7, SlotsFinite
<1> QED
  BY <1>5, <1>8 DEF A, U, F

\* No keyslot is added or taken back.
LEMMA KeysAfter ==
  ASSUME KeysInv, scenario = "reencrypt",
         proc'.added \subseteq proc.added, proc'.todo \subseteq proc.todo, proc'.keep => ~proc'.all,
         proc'.pc \notin {"r_add", "r_flag"}, proc'.pc = "r_keyslots" => dev'.req = 0, dev'.req = 0 => dev.req = 0,
         \A i \in Slots : \/ dev'.slots[i] = dev.slots[i]
                          \/ dev.slots[i] = NoSlot /\ dev'.slots[i].key = "reencrypt" /\ dev'.req # 0
  PROVE  KeysInv'
<1>1. \A i \in Slots : dev.slots[i].key = "old" => dev'.slots[i].key = "old"
  BY ConstantFacts
<1>2. proc'.added \subseteq Slots /\ proc'.todo \subseteq Active(dev)'
  BY <1>1 DEF KeysInv, Active
<1>3. \A j \in proc'.added : dev'.slots[j].key # "old"
  BY DEF KeysInv
<1>4. \A i \in Slots : dev'.slots[i].key = "none" => dev'.slots[i] = NoSlot
  BY DEF KeysInv
<1>5. dev'.req = 0 => \A i \in Slots : dev'.slots[i].key # "reencrypt"
  BY DEF KeysInv
<1> QED
  BY <1>2, <1>3, <1>4, <1>5 DEF KeysInv

\* The passphrases are asked for.
LEMMA KeysFill == ASSUME FlowInv, KeysInv, SafeInv, fill_keyslot_passwords PROVE KeysInv'
<1>0. TypeOK /\ scenario = "reencrypt" /\ proc.pc = "r_keyslots"
  BY DEF fill_keyslot_passwords, FlowInv, PlaceInv, ReencryptPcs
<1>1. scenario' = scenario /\ dev' = dev /\ dev.req = 0 /\ (proc.keep => ~proc.all) /\ commands' = commands
  BY <1>0, FillFacts DEF KeysInv
<1>2. CASE proc' = Idle
  BY <1>0, <1>1, <1>2, KeysAfter, ConstantFacts
<1>3. CASE /\ Core /\ proc'.added = proc.added /\ proc.keep /\ proc'.todo = {} /\ proc'.pc = "r_flag"
  BY <1>0, <1>1, <1>3 DEF KeysInv, Core, Active
<1>4. CASE /\ Core /\ proc'.added = proc.added /\ _check_luks2_keyslots(dev) /\ Active(dev) # {}
           /\ ~proc.keep /\ proc'.pc = "r_add"
           /\ \/ proc'.todo = Active(dev) /\ proc.all
              \/ ~proc.all /\ \E i \in Active(dev) : proc'.todo = {i}
  <2>1. /\ Cardinality(Active(dev)) \in Nat /\ Cardinality(Unbound(dev)) \in Nat /\ Cardinality(Free(dev)) \in Nat
        /\ Cardinality(Active(dev)) + Cardinality(Unbound(dev)) + Cardinality(Free(dev)) = MaxSlots
    BY <1>0, <1>1, SlotCount
  <2>2. /\ Cardinality(Active(dev)) + Cardinality(Unbound(dev)) + 1 + 1 <= MaxSlots
        /\ proc.all => 2 * Cardinality(Active(dev)) + Cardinality(Unbound(dev)) + 1 <= MaxSlots
    BY <1>4 DEF _check_luks2_keyslots
  <2>3. Cardinality(proc'.todo) < Cardinality(Free(dev)) /\ proc'.todo # {} /\ proc'.todo \subseteq Active(dev)
    <3>1. CASE proc'.todo = Active(dev) /\ proc.all
      BY <1>4, <2>1, <2>2, <3>1
    <3>2. CASE ~proc.all /\ \E i \in Active(dev) : proc'.todo = {i}
      <4>1. Cardinality(proc'.todo) = 1
        BY <3>2, FS_Singleton
      <4> QED BY <2>1, <2>2, <3>2, <4>1
    <3> QED BY <1>4, <3>1, <3>2
  <2>4. (Active(dev))' = Active(dev) /\ (Free(dev))' = Free(dev)
    BY <1>1 DEF Active, Free
  <2>5. ASSUME proc.all, NEW p \in PassSet PROVE \E i \in proc'.todo : dev'.slots[i].pass = p
    <3>1. PICK i \in {j \in Slots : dev.slots[j].pass = p} : dev.slots[i].key = "old"
      BY <1>0 DEF SafeInv, Complete, Opened
    <3> QED BY <1>1, <1>4, <2>5, <3>1 DEF Active
  <2>6. proc'.keep = proc.keep /\ proc'.all = proc.all
    BY <1>4 DEF Core
  <2> QED BY <1>0, <1>1, <1>4, <2>3, <2>4, <2>5, <2>6 DEF KeysInv
<1> QED
  BY <1>0, <1>2, <1>3, <1>4, FillFacts

\* A keyslot is added.
LEMMA KeysAdd == ASSUME FlowInv, KeysInv, crypt_keyslot_add_by_key PROVE KeysInv'
<1> DEFINE j == Lowest(Free(dev))
           i == Lowest(proc.todo)
           s == Slot(dev.slots[i].pass, NewKey)
           w == WithSlot(dev, j, s)
<1>0. TypeOK /\ IsHdr(dev) /\ scenario = "reencrypt" /\ proc.pc = "r_add"
  BY DEF crypt_keyslot_add_by_key, FlowInv, PlaceInv, ReencryptPcs, TypeOK
<1>1. /\ scenario' = scenario /\ commands' = commands /\ Core
      /\ \/ /\ dev' = w /\ proc'.todo = proc.todo \ {i} /\ proc'.added = proc.added \cup {j}
            /\ proc'.pc = IF proc'.todo = {} THEN "r_flag" ELSE "r_add"
         \/ dev' \in {dev, w} /\ proc'.todo = proc.todo /\ proc'.added = proc.added /\ proc'.pc = "r_undo"
  BY <1>0, AddFacts
<1>2. /\ j \in Slots /\ dev.slots[j] = NoSlot /\ j \in Free(dev)
      /\ i \in proc.todo /\ i \in Slots /\ dev.slots[i].key = "old" /\ i # j
  BY <1>0, RoomFacts
<1>3. s.pass = dev.slots[i].pass /\ s.key = NewKey /\ DOMAIN s = {"pass", "key"}
      /\ NewKey \notin {"none", "old", "reencrypt"} /\ NewKey' = NewKey
  BY <1>0, <1>1, ConstantFacts, NewKeyFacts DEF NewKey
<1> HIDE DEF j, s
<1>4. w.req = dev.req /\ w.slots[j] = s /\ \A k \in Slots : k # j => w.slots[k] = dev.slots[k]
  BY <1>0, <1>2, <1>3, SlotPut
<1> HIDE DEF w, i
<1>5. /\ proc.added \subseteq Slots /\ proc.todo \subseteq Active(dev) /\ (proc.keep => ~proc.all)
      /\ \A k \in proc.added : dev.slots[k].key # "old"
      /\ \A k \in Slots : dev.slots[k].key = "none" => dev.slots[k] = NoSlot
      /\ dev.req = 0 /\ \A k \in Slots : dev.slots[k].key # "reencrypt"
      /\ proc.todo # {} /\ Cardinality(proc.todo) < Cardinality(Free(dev))
      /\ proc.all => \A p \in PassSet : NewKey \in Opened(dev, p) \/ \E k \in proc.todo : dev.slots[k].pass = p
  BY <1>0 DEF KeysInv
<1>6. proc'.keep = proc.keep /\ proc'.all = proc.all
  BY <1>1 DEF Core
<1>7. CASE dev' = dev /\ proc'.todo = proc.todo /\ proc'.added = proc.added /\ proc'.pc = "r_undo"
  BY <1>0, <1>5, <1>6, <1>7, KeysAfter
<1>8. CASE dev' = w
  <2>1. /\ \A k \in Slots : dev'.slots[k].key = "none" => dev'.slots[k] = NoSlot
        /\ \A k \in Slots : dev'.slots[k].key # "reencrypt"
        /\ \A k \in proc.added \cup {j} : dev'.slots[k].key # "old"
        /\ dev'.req = 0 /\ proc'.added \subseteq Slots
    BY <1>1, <1>2, <1>3, <1>4, <1>5, <1>8
  <2>2. Active(dev) \subseteq (Active(dev))'
    BY <1>2, <1>4, <1>8, ConstantFacts DEF Active
  <2>3. proc'.todo \subseteq (Active(dev))' /\ \A k \in proc'.added : dev'.slots[k].key # "old"
    BY <1>1, <1>5, <2>1, <2>2
  <2>4. CASE proc'.pc = "r_undo"
    BY <1>0, <1>1, <1>5, <1>6, <2>1, <2>3, <2>4 DEF KeysInv
  <2>5. CASE /\ proc'.todo = proc.todo \ {i} /\ proc'.added = proc.added \cup {j}
             /\ proc'.pc = IF proc'.todo = {} THEN "r_flag" ELSE "r_add"
    <3>1. (Free(dev))' = Free(dev) \ {j}
      <4>1. s # NoSlot
        BY <1>3, ConstantFacts
      <4> QED BY <1>2, <1>4, <1>8, <4>1 DEF Free
    <3>2. Cardinality((Free(dev))') = Cardinality(Free(dev)) - 1 /\ Cardinality(Free(dev)) \in Nat
      <4>1. Free(dev) \subseteq Slots
        BY DEF Free
      <4>2. IsFiniteSet(Free(dev)) /\ Cardinality(Free(dev)) \in Nat
        BY <4>1, SlotsFinite
      <4> QED BY <1>2, <3>1, <4>2, FS_RemoveElement
    <3>3. Cardinality(proc'.todo) = Cardinality(proc.todo) - 1 /\ Cardinality(proc.todo) \in Nat
      <4>1. proc.todo \subseteq Slots
        BY <1>5 DEF Active
      <4>2. IsFiniteSet(proc.todo) /\ Cardinality(proc.todo) \in Nat
        BY <4>1, SlotsFinite
      <4>3. Cardinality(proc.todo \ {i}) = Cardinality(proc.todo) - 1
        BY <1>2, <4>2, FS_RemoveElement
      <4>4. Cardinality(proc'.todo) = Cardinality(proc.todo \ {i})
        BY <2>5, Zenon
      <4> QED BY <4>2, <4>3, <4>4
    <3>4. Cardinality(proc'.todo) < Cardinality((Free(dev))')
      BY <1>5, <3>2, <3>3
    <3>5. ASSUME proc.all, NEW p \in PassSet
          PROVE  NewKey \in Opened(dev', p) \/ \E k \in proc'.todo : dev'.slots[k].pass = p
      <4>1. CASE NewKey \in Opened(dev, p)
        <5>1. PICK k \in {x \in Slots : dev.slots[x].pass = p} : dev.slots[k].key = NewKey
          BY <4>1 DEF Opened
        <5>2. k # j
          BY <1>2, <1>3, <5>1, ConstantFacts
        <5>3. dev'.slots[k] = dev.slots[k]
          BY <1>4, <1>8, <5>1, <5>2
        <5> QED BY <5>1, <5>3 DEF Opened
      <4>2. CASE \E k \in proc.todo : dev.slots[k].pass = p
        <5>1. PICK k \in proc.todo : dev.slots[k].pass = p
          BY <4>2
        <5>2. CASE k = i
          BY <1>2, <1>3, <1>4, <1>8, <5>1, <5>2 DEF Opened
        <5>3. CASE k # i
          <6>1. k \in Slots /\ k # j /\ k \in proc'.todo
            BY <1>2, <1>5, <2>5, <5>1, <5>3, ConstantFacts DEF Active
          <6> QED BY <1>4, <1>8, <5>1, <6>1
        <5> QED BY <5>2, <5>3
      <4> QED BY <1>5, <3>5, <4>1, <4>2
    <3>6. ASSUME proc'.all, NEW p \in PassSet'
          PROVE  (NewKey \in Opened(dev, p))' \/ \E k \in proc'.todo : dev'.slots[k].pass = p
      <4>1. p \in PassSet
        BY DEF PassSet
      <4> QED BY <1>3, <1>6, <3>5, <3>6, <4>1 DEF Opened
    <3> QED
      BY <1>0, <1>1, <1>5, <1>6, <2>1, <2>3, <2>5, <3>4, <3>6 DEF KeysInv
  <2> QED BY <1>1, <2>4, <2>5
<1> QED
  BY <1>1, <1>7, <1>8

\* A keyslot is taken back.
LEMMA KeysUndo == ASSUME FlowInv, KeysInv, crypt_keyslot_destroy PROVE KeysInv'
<1> DEFINE j == Lowest(proc.added)
           w == WithSlot(dev, j, NoSlot)
<1>0. TypeOK /\ IsHdr(dev) /\ scenario = "reencrypt"
  BY DEF crypt_keyslot_destroy, FlowInv, PlaceInv, ReencryptPcs, TypeOK
<1>1. /\ scenario' = scenario
      /\ \/ /\ Core /\ dev' \in {dev, w} /\ proc'.todo = proc.todo /\ proc'.added = proc.added \ {j}
            /\ proc'.pc = "r_undo" /\ proc.added # {} /\ dev.req = 0
         \/ proc' = Idle /\ dev' = dev
  BY <1>0, UndoFacts
<1>2. /\ proc.added \subseteq Slots /\ proc.todo \subseteq Active(dev) /\ (proc.keep => ~proc.all)
      /\ \A k \in proc.added : dev.slots[k].key # "old"
      /\ \A k \in Slots : dev.slots[k].key = "none" => dev.slots[k] = NoSlot
      /\ dev.req = 0 => \A k \in Slots : dev.slots[k].key # "reencrypt"
  BY <1>0 DEF KeysInv
<1>3. proc.added # {} => j \in proc.added
  BY <1>2, LowestIn, SlotsFinite
<1> HIDE DEF j
<1>4. w.req = dev.req /\ \A k \in Slots : (k = j => w.slots[k] = NoSlot) /\ (k # j => w.slots[k] = dev.slots[k])
  BY <1>0, SlotPut, ConstantFacts
<1> HIDE DEF w
<1>5. CASE proc' = Idle /\ dev' = dev
  BY <1>0, <1>5, KeysAfter, ConstantFacts
<1>6. CASE /\ Core /\ dev' \in {dev, w} /\ proc'.todo = proc.todo /\ proc'.added = proc.added \ {j}
           /\ proc'.pc = "r_undo" /\ proc.added # {} /\ dev.req = 0
  <2>1. /\ \A k \in Slots : dev'.slots[k].key = "none" => dev'.slots[k] = NoSlot
        /\ \A k \in Slots : dev'.slots[k].key # "reencrypt"
        /\ \A k \in proc'.added : dev'.slots[k].key # "old"
        /\ proc'.added \subseteq Slots
    <3>1. NoSlot.key = "none"
      BY ConstantFacts
    <3>2. CASE dev' = dev
      BY <1>2, <1>6, <3>2
    <3>3. CASE dev' = w
      BY <1>2, <1>4, <1>6, <3>1, <3>3
    <3> QED BY <1>6, <3>2, <3>3
  <2>2. Active(dev) \subseteq (Active(dev))'
    BY <1>2, <1>3, <1>4, <1>6 DEF Active
  <2>3. proc'.keep = proc.keep /\ proc'.all = proc.all
    BY <1>6 DEF Core
  <2> QED BY <1>0, <1>1, <1>2, <1>6, <2>1, <2>2, <2>3 DEF KeysInv
<1> QED
  BY <1>1, <1>5, <1>6

\* The initial states.
LEMMA KeysInit == Init => KeysInv
<1> SUFFICES ASSUME Init, scenario = "reencrypt" PROVE KeysInv
  BY DEF KeysInv
<1>1. dev = Started(scenario) /\ proc = Idle
  BY Zenon DEF Init
<1>2. \A k \in Slots : dev.slots[k] = NoSlot \/ dev.slots[k].key = "old"
  BY <1>1, ConstantFacts DEF Started, Blank
<1>3. \A k \in Slots : (dev.slots[k].key = "none" => dev.slots[k] = NoSlot) /\ dev.slots[k].key # "reencrypt"
  BY <1>2, ConstantFacts
<1> QED
  BY <1>1, <1>3, ConstantFacts DEF KeysInv

\* Every step.
LEMMA KeysNext == FlowInv /\ SafeInv /\ KeysInv /\ [Next]_vars => KeysInv'
<1> SUFFICES ASSUME FlowInv, SafeInv, KeysInv, [Next]_vars, scenario' = "reencrypt" PROVE KeysInv'
  BY DEF KeysInv
<1>0. TypeOK /\ scenario = "reencrypt"
  <2>1. scenario' = scenario
    BY Zenon DEF Next, vars, reencrypt, encrypt_create, luksFormat, encrypt_move, encrypt_flag, encrypt_destroy,
       encrypt_restore, encrypt_out, decrypt_backup, decrypt_wipe, decrypt_unwipe, decrypt_reload, decrypt_suspend,
       decrypt_move, decrypt_flag, dm_resume_device, dm_clear_device, decrypt_status, decrypt_luks2_init, InitRefused,
       fill_keyslot_passwords, crypt_keyslot_add_by_key, reencrypt_flag, crypt_keyslot_destroy, reencrypt_luks2_load,
       reencrypt_repair_by_passphrase, Finish, Kill, luksHeaderRestore, Realign, InitFlag, Fixed
  <2> QED BY <2>1 DEF FlowInv
<1>K. proc.keep => ~proc.all
  BY <1>0 DEF KeysInv
<1>P. /\ proc.pc \notin EncryptPcs \cup DecryptPcs \cup {"i_flag", "repair"}
      /\ proc.pc = "load" => proc.md = "dev"
  BY <1>0 DEF FlowInv, PlaceInv, HeaderInFile
<1>1. CASE UNCHANGED vars
  <2>1. proc' = proc /\ dev' = dev /\ commands' = commands
    BY <1>1 DEF vars, disk
  <2>2. /\ (Active(dev))' = Active(dev) /\ (Free(dev))' = Free(dev) /\ NewKey' = NewKey /\ PassSet' = PassSet
        /\ \A p : (Opened(dev, p))' = Opened(dev, p)
    BY <2>1 DEF Active, Free, NewKey, PassSet, Opened
  <2>3. \A p : (NewKey \in Opened(dev, p))' = (NewKey \in Opened(dev, p))
    BY <2>2
  <2> QED BY <1>0, <2>1, <2>2, <2>3 DEF KeysInv
<1>2. CASE \E o \in Options : reencrypt(o)
  <2>1. PICK o \in Options : reencrypt(o)
    BY <1>2
  <2>2. /\ dev' = dev /\ proc'.pc = Dispatch(o).pc /\ proc'.todo = {} /\ proc'.added = {}
        /\ proc'.keep = (o.keys = "keep") /\ proc'.all = (o.keys = "all")
    BY <2>1 DEF reencrypt, disk, Idle
  <2>3. /\ Dispatch(o).pc \in {"load", "e_create", "d_backup", "i_flag", "r_keyslots", "repair"}
        /\ Dispatch(o).pc = "r_keyslots" => dev.req = 0
    BY <2>1, DispatchFacts DEF reencrypt
  <2> QED BY <1>0, <2>2, <2>3, KeysAfter
<1>3. CASE \/ encrypt_create \/ luksFormat \/ encrypt_move \/ encrypt_flag \/ encrypt_destroy
           \/ encrypt_restore \/ encrypt_out
           \/ decrypt_backup \/ decrypt_wipe \/ decrypt_unwipe \/ decrypt_reload \/ decrypt_suspend
           \/ decrypt_move \/ decrypt_flag \/ dm_resume_device \/ dm_clear_device \/ decrypt_status
           \/ decrypt_luks2_init \/ reencrypt_repair_by_passphrase \/ luksHeaderRestore
  <2>1. \/ proc.pc \in EncryptPcs \cup DecryptPcs \cup {"i_flag", "repair"}
        \/ scenario = "decrypt"
    BY <1>3 DEF encrypt_create, luksFormat, encrypt_move, encrypt_flag, encrypt_destroy,
       encrypt_restore, encrypt_out, decrypt_backup, decrypt_wipe, decrypt_unwipe, decrypt_reload, decrypt_suspend,
       decrypt_move, decrypt_flag, dm_resume_device, dm_clear_device, decrypt_status, decrypt_luks2_init,
       reencrypt_repair_by_passphrase, luksHeaderRestore, InitFlag, EncryptPcs, DecryptPcs
  <2> QED BY <1>0, <1>P, <2>1
<1>4. CASE InitRefused
  <2>1. Goto("r_undo") /\ dev' = dev
    <3>1. proc.pc = "r_flag" /\ proc.pc # "e_flag" /\ proc.pc # "i_flag"
      BY <1>4, <1>P DEF InitRefused, EncryptPcs
    <3> QED BY <1>4, <3>1, Zenon DEF InitRefused, disk
  <2>2. proc'.pc = "r_undo" /\ Rest
    BY <1>0, <2>1, GotoFacts
  <2> QED BY <1>0, <1>K, <2>1, <2>2, KeysAfter DEF Rest
<1>5. CASE fill_keyslot_passwords
  BY <1>5, KeysFill
<1>6. CASE crypt_keyslot_add_by_key \/ crypt_keyslot_destroy
  BY <1>6, KeysAdd, KeysUndo
<1>7. CASE reencrypt_flag
  <2> DEFINE ok == IF proc.initonly THEN "done" ELSE "load"
  <2>0. proc.md = "dev" /\ proc.pc = "r_flag" /\ ok \in {"done", "load"}
    BY <1>0, <1>7 DEF reencrypt_flag, InitFlag, FlowInv, PlaceInv, ReencryptPcs
  <2>1. PICK g \in reencrypt_init(Hdr, InitParams) : HdrWrite(g, ok, "r_undo")
    BY <1>7 DEF reencrypt_flag, InitFlag
  <2> HIDE DEF ok
  <2>2. Rest /\ proc'.pc \in {"done", "load", "r_undo"} /\ (dev' = dev \/ dev' = g)
    BY <1>0, <2>0, <2>1, WriteFacts DEF Wrote
  <2>3. Hdr = dev /\ IsHdr(dev)
    BY <1>0, <2>0, HdrIs
  <2>4. Free(dev) # {} /\ g.slots = WithReencSlot(dev).slots /\ g.req \in {2, 3}
    BY <2>3, InitWrites
  <2>5. PICK j \in Slots : /\ dev.slots[j] = NoSlot /\ WithReencSlot(dev).slots[j] = Slot("none", "reencrypt")
                           /\ \A i \in Slots \ {j} : WithReencSlot(dev).slots[i] = dev.slots[i]
    BY <2>3, <2>4, ReencSlot
  <2>6. CASE dev' = dev
    BY <1>0, <1>K, <2>2, <2>6, KeysAfter DEF Rest
  <2>7. CASE dev' = g
    <3>1. /\ dev'.req # 0
          /\ \A i \in Slots : \/ dev'.slots[i] = dev.slots[i]
                              \/ dev.slots[i] = NoSlot /\ dev'.slots[i].key = "reencrypt" /\ dev'.req # 0
      BY <2>4, <2>5, <2>7, ConstantFacts
    <3> QED BY <1>0, <1>K, <2>2, <3>1, KeysAfter DEF Rest
  <2> QED BY <2>2, <2>6, <2>7
<1>8. CASE reencrypt_luks2_load
  <2>1. PICK p : \E g \in Loaded(p) \cup {Hdr} :
          /\ proc.pc = "load" /\ proc'.pc \in {"done", "failed"} /\ Rest
          /\ Wrote(g) \/ (dev' = dev /\ file' = file)
    BY <1>8, LoadFacts
  <2>2. PICK g \in Loaded(p) \cup {Hdr} :
          /\ proc.pc = "load" /\ proc'.pc \in {"done", "failed"} /\ Rest
          /\ Wrote(g) \/ (dev' = dev /\ file' = file)
    BY <2>1
  <2>3. Hdr = dev /\ IsHdr(dev) /\ proc.md = "dev"
    BY <1>0, <1>P, <2>2, HdrIs
  <2>4. g.slots = dev.slots /\ g.req = dev.req
    BY <2>3, LoadWrites
  <2>5. dev'.slots = dev.slots /\ dev'.req = dev.req
    BY <2>2, <2>3, <2>4 DEF Wrote
  <2> QED BY <1>0, <1>K, <2>2, <2>5, KeysAfter DEF Rest
<1>9. CASE Finish
  <2>1. proc' = Idle /\ dev' = dev
    BY <1>9 DEF Finish, Ends
  <2> QED BY <1>0, <2>1, KeysAfter, ConstantFacts
<1>10. CASE Kill
  <2>1. PICK r \in Partial : dev' = r[3] /\ proc' = Idle
    BY <1>10 DEF Kill, Ends
  <2>2. dev' = dev
    BY <1>0, <1>P, <2>1, PartialFacts DEF EncryptPcs, DecryptPcs
  <2> QED BY <1>0, <2>1, <2>2, KeysAfter, ConstantFacts
<1>11. CASE Realign
  <2>1. dev' = dev /\ proc' = Idle
    BY <1>11 DEF Realign, disk
  <2> QED BY <1>0, <2>1, KeysAfter, ConstantFacts
<1> QED
  BY <1>1, <1>2, <1>3, <1>4, <1>5, <1>6, <1>7, <1>8, <1>9, <1>10, <1>11 DEF Next

\* SafeInv and KeysInv lean on each other: an added keyslot never takes the place
\* of one the data need, and every passphrase the data need gets a keyslot.
THEOREM KeyslotsInvariant == Spec => [](SafeInv /\ KeysInv)
<1>1. Init => SafeInv /\ KeysInv
  BY SafeInit, KeysInit
<1>2. FlowInv /\ SafeInv /\ KeysInv /\ [Next]_vars => SafeInv' /\ KeysInv'
  BY SafeNext, KeysNext
<1> QED
  BY <1>1, <1>2, FlowInvariant, PTL DEF Spec

\* Whatever fails and whenever the process is killed: in-place encryption keeps
\* the head of the data in one of its two places, and decryption and reencryption
\* keep a header with the volume key for every passphrase, on the device or in the
\* exported file.
THEOREM DataIsSafe == Spec => []DataSafe
<1>1. FlowInv /\ SafeInv => DataSafe
  <2> SUFFICES ASSUME FlowInv, SafeInv PROVE DataSafe
    OBVIOUS
  <2>1. scenario = "encrypt" => head = "data" \/ tail = "copy"
    BY DEF FlowInv, EncryptInv
  <2>2. ASSUME scenario \in {"decrypt", "decrypt_hdr", "reencrypt", "legacy"}
        PROVE  \E h \in Stored : Complete(h)
    <3>1. (head = "hdr" /\ Complete(dev)) \/ (file.st = "ok" /\ Complete(file.hdr))
      BY <2>2 DEF SafeInv, FlowInv, PlaceInv
    <3> QED BY <3>1 DEF Stored
  <2> QED BY <2>1, <2>2 DEF DataSafe, Complete
<1> QED
  BY <1>1, FlowInvariant, KeyslotsInvariant, PTL

\* Only the write of reencrypt_luks2_init takes the header of a device into
\* reencryption with the mode "reencrypt".
LEMMA OnlyTheFlag ==
  ASSUME FlowInv, Next, proc.op = "reencrypt", dev.req = 0, dev'.req > 0
  PROVE  reencrypt_flag
<1>0. TypeOK
  BY DEF FlowInv
<1>1. CASE CopyStep
  <2>1. Kept(dev')
    BY <1>1, CopyStepKeeps
  <2>2. dev'.req = file.hdr.req /\ dev' # dev
    BY <2>1 DEF Kept, Same
  <2>3. dev' # dev => encrypt_restore \/ decrypt_unwipe \/ crypt_keyslot_add_by_key \/ crypt_keyslot_destroy
                       \/ Kill \/ luksHeaderRestore \/ encrypt_destroy
    BY <1>1, Zenon DEF CopyStep, reencrypt, encrypt_create, encrypt_move, encrypt_out, decrypt_backup, decrypt_wipe,
       decrypt_reload, decrypt_suspend, decrypt_move, dm_resume_device, dm_clear_device, decrypt_status, InitRefused,
       fill_keyslot_passwords, Finish, Realign, disk
  <2>4. CASE encrypt_restore \/ encrypt_destroy
    <3>1. scenario \in {"encrypt", "encrypt_hdr"} /\ proc.op \in Op(scenario)
      BY <2>4 DEF encrypt_restore, encrypt_destroy, FlowInv, PlaceInv, EncryptPcs
    <3> QED BY <3>1 DEF Op
  <2>5. CASE decrypt_unwipe
    <3>1. scenario = "decrypt" /\ proc.op \in Op(scenario)
      BY <2>5 DEF decrypt_unwipe, FlowInv, PlaceInv, DecryptPcs
    <3> QED BY <3>1 DEF Op
  <2>6. CASE crypt_keyslot_add_by_key
    <3>1. DOMAIN Slot(dev.slots[Lowest(proc.todo)].pass, NewKey) = {"pass", "key"} /\ IsHdr(dev)
      BY <1>0, ConstantFacts DEF TypeOK
    <3>2. dev' \in {dev, WithSlot(dev, Lowest(Free(dev)), Slot(dev.slots[Lowest(proc.todo)].pass, NewKey))}
      BY <1>0, <2>6, AddFacts
    <3>3. dev'.req = dev.req
      BY <3>1, <3>2, SlotPut
    <3> QED BY <3>3
  <2>7. CASE crypt_keyslot_destroy
    <3>1. DOMAIN NoSlot = {"pass", "key"} /\ IsHdr(dev)
      BY <1>0, ConstantFacts DEF TypeOK
    <3>2. dev' \in {dev, WithSlot(dev, Lowest(proc.added), NoSlot)}
      BY <1>0, <2>7, UndoFacts
    <3>3. dev'.req = dev.req
      BY <3>1, <3>2, SlotPut
    <3> QED BY <3>3
  <2>8. CASE Kill
    <3>1. PICK r \in Partial : dev' = r[3]
      BY <2>8 DEF Kill
    <3>2. proc.pc \in {"e_restore", "d_unwipe", "d_restore"}
      BY <1>0, <2>2, <3>1, PartialFacts
    <3>3. scenario \in {"encrypt", "decrypt"} /\ proc.op \in Op(scenario)
      BY <3>2 DEF FlowInv, PlaceInv, DecryptPcs
    <3> QED BY <3>3 DEF Op
  <2>9. CASE luksHeaderRestore
    BY <2>9 DEF luksHeaderRestore
  <2> QED BY <2>2, <2>3, <2>4, <2>5, <2>6, <2>7, <2>8, <2>9
<1>2. CASE encrypt_flag \/ decrypt_flag \/ decrypt_luks2_init \/ luksFormat
  <2>1. scenario \in {"encrypt", "encrypt_hdr", "decrypt", "decrypt_hdr"} /\ proc.op \in Op(scenario)
    BY <1>2 DEF encrypt_flag, decrypt_flag, decrypt_luks2_init, luksFormat, InitFlag, FlowInv, PlaceInv, EncryptPcs,
       DecryptPcs
  <2> QED BY <2>1 DEF Op
<1>3. CASE reencrypt_luks2_load
  <2>1. PICK p : \E g \in Loaded(p) \cup {Hdr} : Wrote(g) \/ dev' = dev
    BY <1>3, LoadFacts
  <2>2. PICK g \in Loaded(p) \cup {Hdr} : Wrote(g) \/ dev' = dev
    BY <2>1
  <2>3. g.req = Hdr.req /\ (proc.md = "dev" => Hdr = dev)
    BY <1>0, LoadWrites, HdrIs
  <2>4. dev'.req = dev.req
    BY <2>2, <2>3 DEF Wrote
  <2> QED BY <2>4
<1>4. CASE reencrypt_repair_by_passphrase
  BY <1>4 DEF reencrypt_repair_by_passphrase, FlowInv, PlaceInv
<1> QED
  BY <1>1, <1>2, <1>3, <1>4 DEF Next, CopyStep

\* The keyslots of the header that starts a reencryption.
LEMMA FlagOpens ==
  ASSUME FlowInv, SafeInv, KeysInv, reencrypt_flag, dev.req = 0, dev'.req > 0
  PROVE  LET both == {p \in PassSet : {dev'.old, dev'.new} \subseteq Opened(dev', p)}
         IN  IF proc.all THEN both = PassSet ELSE both # {}
<1>0. TypeOK /\ IsHdr(dev) /\ scenario = "reencrypt" /\ proc.pc = "r_flag" /\ proc.md = "dev"
  BY DEF reencrypt_flag, InitFlag, FlowInv, PlaceInv, ReencryptPcs, TypeOK
<1>1. PICK g \in reencrypt_init(Hdr, InitParams) : dev' = dev \/ dev' = g
  BY DEF reencrypt_flag, InitFlag, HdrWrite, PutHdr
<1>2. dev' = g /\ Hdr = dev
  BY <1>0, <1>1, HdrIs
<1>3. proc.op = "reencrypt"
  <2>1. proc.op \in Op(scenario)
    BY <1>0 DEF FlowInv, PlaceInv
  <2> QED BY <1>0, <2>1 DEF Op
<1>4. /\ Free(dev) # {} /\ g.slots = WithReencSlot(dev).slots /\ g.old = "old"
      /\ g.new = IF proc.keep THEN "old" ELSE NewKey
      /\ {g.old, g.new} \ {"none"} \subseteq Unlocked(dev, {g.old, g.new} \ {"none"})
  <2>1. IsHdr(Hdr)
    BY <1>0, <1>2
  <2>2. /\ Free(Hdr) # {} /\ g.slots = WithReencSlot(Hdr).slots
        /\ g.old = IF proc.op = "encrypt" THEN "none" ELSE "old"
        /\ proc.op # "decrypt" => g.new = IF proc.keep THEN "old" ELSE NewKey
        /\ {g.old, g.new} \ {"none"} \subseteq Unlocked(Hdr, {g.old, g.new} \ {"none"})
    BY <2>1, InitWrites
  <2>3. g.old = "old" /\ g.new = IF proc.keep THEN "old" ELSE NewKey
    BY <1>3, <2>2
  <2> QED BY <1>2, <2>2, <2>3
<1>5. g.new # "none" /\ g.old # "none"
  BY <1>0, <1>4, NewKeyFacts
<1>6. ASSUME NEW p, NEW k, k # "none", k \in Opened(dev, p) PROVE k \in Opened(g, p)
  <2>1. PICK j \in Slots : /\ dev.slots[j] = NoSlot
                           /\ \A i \in Slots \ {j} : WithReencSlot(dev).slots[i] = dev.slots[i]
    BY <1>0, <1>4, ReencSlot
  <2>2. PICK i \in {x \in Slots : dev.slots[x].pass = p} : dev.slots[i].key = k
    BY <1>6 DEF Opened
  <2>3. i # j
    BY <1>6, <2>1, <2>2, ConstantFacts
  <2>4. g.slots[i] = dev.slots[i]
    BY <1>4, <2>1, <2>2, <2>3
  <2> QED BY <2>2, <2>4 DEF Opened
<1>7. CASE proc.all
  <2>1. ~proc.keep /\ \A p \in PassSet : NewKey \in Opened(dev, p) /\ "old" \in Opened(dev, p)
    BY <1>0, <1>7 DEF KeysInv, SafeInv, Complete
  <2>2. \A p \in PassSet : {g.old, g.new} \subseteq Opened(g, p)
    BY <1>4, <1>5, <1>6, <2>1
  <2> QED BY <1>2, <1>7, <2>2
<1>8. CASE ~proc.all
  <2>1. \E p \in PassSet : {g.old, g.new} \ {"none"} \subseteq Opened(dev, p)
    BY <1>4, <1>5 DEF Unlocked
  <2>2. PICK p \in PassSet : {g.old, g.new} \ {"none"} \subseteq Opened(dev, p)
    BY <2>1
  <2>3. {g.old, g.new} \subseteq Opened(g, p)
    BY <1>5, <1>6, <2>2
  <2> QED BY <1>2, <1>8, <2>3
<1> QED
  BY <1>7, <1>8

\* When a reencryption to a new volume key starts, every passphrase that opened
\* the data opens the new key as well; with --key-slot, one of them does.
THEOREM EveryPassphraseOpens == Spec => PassphrasesKept
<1>1. FlowInv /\ SafeInv /\ KeysInv /\ [Next]_vars =>
        [proc.op = "reencrypt" /\ dev.req = 0 /\ dev'.req > 0 =>
           LET both == {p \in PassSet : {dev'.old, dev'.new} \subseteq Opened(dev', p)}
           IN  IF proc.all THEN both = PassSet ELSE both # {}]_vars
  <2> DEFINE both == {p \in PassSet : {dev'.old, dev'.new} \subseteq Opened(dev', p)}
             Opens == IF proc.all THEN both = PassSet ELSE both # {}
  <2>1. ASSUME FlowInv, SafeInv, KeysInv, Next, proc.op = "reencrypt", dev.req = 0, dev'.req > 0 PROVE Opens
    BY <2>1, OnlyTheFlag, FlagOpens
  <2> HIDE DEF Opens
  <2>2. FlowInv /\ SafeInv /\ KeysInv /\ [Next]_vars =>
          [proc.op = "reencrypt" /\ dev.req = 0 /\ dev'.req > 0 => Opens]_vars
    BY <2>1
  <2> QED BY <2>2 DEF Opens
<1> QED
  BY <1>1, FlowInvariant, KeyslotsInvariant, PTL DEF Spec, PassphrasesKept

-----------------------------------------------------------------------------
\* Failures.  What a command finds it leaves behind when it fails: CleanInv says
\* how the state differs from `before' at each place of a running command.

\* A header as the metadata operations build it: its fields and keyslots are all
\* there is to it.
Whole(h) == h = [x \in HdrFields |-> h[x]] /\ h.slots = [i \in Slots |-> h.slots[i]]

\* The header g is h without the keyslots S.
Without(h, g, S) ==
  /\ \A x \in HdrFields \ {"slots"} : g[x] = h[x]
  /\ \A i \in Slots : g.slots[i] = IF i \in S THEN NoSlot ELSE h.slots[i]

\* A load works on a reencryption, and leaves one.
Begun ==
  /\ scenario = "decrypt" => file.st = "ok" /\ file.hdr.req > 0
  /\ scenario \in {"encrypt", "reencrypt"} => head = "hdr" /\ dev.req > 0
CleanBase ==
  /\ last = "failed" => proc.pc = "idle"
  /\ scenario # "decrypt" => dm = before.dm
  /\ Detached => head = "data" /\ before.head = "data"
  /\ scenario = "reencrypt" => before.head = "hdr"
  /\ proc.pc \in {"load", "done", "failed"} => Begun
\* In-place encryption leaves the head of the device alone until the restore.
CleanEncrypt ==
  scenario = "encrypt" =>
    /\ proc.pc = "e_restore" => file.hdr.req > 0
    /\ beyond = {} =>
         /\ proc.pc \in EncryptPcs => head = "data" /\ before.head = "data"
         /\ proc.pc = "e_create" => file = before.file
\* A reencryption has added the keyslots it knows of, and no others.
CleanReencrypt ==
  scenario = "reencrypt" /\ beyond = {} /\ dev.req = 0 =>
    /\ Whole(dev)
    /\ proc.pc = "r_keyslots" => proc.added = {}
    /\ proc.pc \in ReencryptPcs => Whole(before.dev) /\ Without(dev, before.dev, proc.added)
\* Decryption: the exported file has the header that the command found, and the
\* mapping is suspended only where it will be resumed.
CleanDecrypt ==
  scenario = "decrypt" /\ beyond = {} /\ file.hdr.req = 0 =>
    /\ dm.susp => file.st = "ok"
    /\ file.st = "absent" => file = Absent
    /\ proc.pc \in DecryptPcs =>
         /\ before.head = "hdr" /\ dev = before.dev /\ dm.live = before.dm.live /\ before.dm.susp = FALSE
         /\ dm.susp => proc.online /\ proc.pc \in {"d_move", "d_flag", "d_clear", "d_cleared"}
    /\ proc.pc = "d_backup" => file = Absent
    /\ proc.pc \in {"d_backup", "d_wipe"} => head = "hdr"
    /\ proc.pc \in DecryptPcs \ {"d_backup"} => file.hdr = before.dev
CleanInv == CleanFailure /\ CleanBase /\ CleanEncrypt /\ CleanReencrypt /\ CleanDecrypt

\* With a detached header nothing on the data device changes.
LEMMA CleanDetached ==
  ASSUME CleanBase, scenario' = scenario, scenario \in {"encrypt_hdr", "decrypt_hdr"},
         head' = head, dm' = dm, before' = before, last' = "failed" => proc'.pc = "idle"
  PROVE  CleanInv'
<1>1. head' = "data" /\ before'.head = "data" /\ dm' = before'.dm
  BY DEF CleanBase, Detached
<1>2. CleanFailure'
  BY <1>1 DEF CleanFailure
<1>3. CleanBase'
  BY <1>1 DEF CleanBase, Begun, Detached
<1>4. CleanEncrypt' /\ CleanReencrypt' /\ CleanDecrypt'
  BY DEF CleanEncrypt, CleanReencrypt, CleanDecrypt
<1> QED BY <1>2, <1>3, <1>4 DEF CleanInv

\* The reencryption of an old version is one from the start.
LEMMA CleanLegacy ==
  ASSUME FlowInv', CleanBase, scenario' = scenario, scenario = "legacy",
         dm' = dm, before' = before, last' = "failed" => proc'.pc = "idle"
  PROVE  CleanInv'
<1>1. head' = "hdr" /\ dev'.req > 0 /\ dm' = before'.dm
  BY DEF CleanBase, FlowInv, PlaceInv
<1>2. CleanFailure'
  BY <1>1 DEF CleanFailure, Stored, InReencryption
<1>3. CleanBase'
  BY <1>1 DEF CleanBase, Begun, Detached
<1>4. CleanEncrypt' /\ CleanReencrypt' /\ CleanDecrypt'
  BY DEF CleanEncrypt, CleanReencrypt, CleanDecrypt
<1> QED BY <1>2, <1>3, <1>4 DEF CleanInv

\* What is left to show of a step of an encryption in place,
LEMMA CleanEncryptStep ==
  ASSUME scenario' = "encrypt", dm' = before'.dm, last' = "failed" => proc'.pc = "idle",
         proc'.pc \in {"load", "done", "failed"} => head' = "hdr" /\ dev'.req > 0,
         proc'.pc = "e_restore" => file'.hdr.req > 0,
         beyond' = {} /\ proc'.pc \in EncryptPcs => head' = "data" /\ before'.head = "data",
         beyond' = {} /\ proc'.pc = "e_create" => file' = before'.file,
         beyond' = {} /\ last' = "failed" =>
           \/ head' = "hdr" /\ dev'.req > 0
           \/ head' = "data" /\ before'.head = "data" /\ file' \in {Absent, before'.file}
  PROVE  CleanInv'
<1>1. CleanFailure'
  BY DEF CleanFailure, Stored, InReencryption
<1>2. CleanBase'
  BY DEF CleanBase, Begun, Detached
<1>3. CleanEncrypt' /\ CleanReencrypt' /\ CleanDecrypt'
  BY DEF CleanEncrypt, CleanReencrypt, CleanDecrypt
<1> QED BY <1>1, <1>2, <1>3 DEF CleanInv

\* of a reencryption,
LEMMA CleanReencryptStep ==
  ASSUME scenario' = "reencrypt", dm' = before'.dm, last' = "failed" => proc'.pc = "idle",
         head' = "hdr", before'.head = "hdr", dev'.req \in Nat,
         proc'.pc \in {"load", "done", "failed"} => dev'.req > 0,
         CleanReencrypt',
         beyond' = {} /\ last' = "failed" /\ dev'.req = 0 => dev' = before'.dev
  PROVE  CleanInv'
<1>1. CleanFailure'
  BY DEF CleanFailure, Stored, InReencryption
<1>2. CleanBase'
  BY DEF CleanBase, Begun, Detached
<1>3. CleanEncrypt' /\ CleanDecrypt'
  BY DEF CleanEncrypt, CleanDecrypt
<1> QED BY <1>1, <1>2, <1>3 DEF CleanInv

\* and of a decryption over the header.
LEMMA CleanDecryptStep ==
  ASSUME FlowInv', scenario' = "decrypt", last' = "failed" => proc'.pc = "idle",
         proc'.pc \in {"load", "done", "failed"} => file'.st = "ok" /\ file'.hdr.req > 0,
         CleanDecrypt',
         beyond' = {} /\ last' = "failed" /\ file'.hdr.req = 0 =>
           /\ head' = before'.head /\ dm'.live = before'.dm.live /\ dm'.susp = before'.dm.susp
           /\ head' = "hdr" => dev' = before'.dev
           /\ file' \in {Absent, Damaged}
  PROVE  CleanInv'
<1>1. CleanFailure'
  <2>1. file'.hdr.req \in Nat /\ (file'.st # "ok" => file'.hdr.req = 0)
    BY DEF FlowInv, TypeOK, IsHdr, PlaceInv
  <2>2. CASE file'.hdr.req = 0
    BY <2>2 DEF CleanFailure
  <2>3. CASE file'.hdr.req > 0 /\ file'.st = "ok"
    BY <2>3 DEF CleanFailure, Stored, InReencryption
  <2> QED BY <2>1, <2>2, <2>3
<1>2. CleanBase'
  BY DEF CleanBase, Begun, Detached
<1>3. CleanEncrypt' /\ CleanReencrypt'
  BY DEF CleanEncrypt, CleanReencrypt
<1> QED BY <1>1, <1>2, <1>3 DEF CleanInv

\* Two headers with the same fields and keyslots are the same.
LEMMA WholeSame == ASSUME NEW g, NEW h, Whole(g), Whole(h), Without(h, g, {}) PROVE g = h
<1>1. \A i \in Slots : g.slots[i] = h.slots[i]
  BY DEF Without
<1>2. g.slots = h.slots
  <2>1. g.slots = [i \in Slots |-> g.slots[i]] /\ h.slots = [i \in Slots |-> h.slots[i]]
    BY DEF Whole
  <2>2. [i \in Slots |-> g.slots[i]] = [i \in Slots |-> h.slots[i]]
    BY <1>1, Zenon
  <2> QED BY <2>1, <2>2
<1>3. \A x \in HdrFields : g[x] = h[x]
  <2> SUFFICES ASSUME NEW x \in HdrFields PROVE g[x] = h[x]
    OBVIOUS
  <2>1. CASE x = "slots"
    BY <1>2, <2>1
  <2>2. CASE x # "slots"
    BY <2>2 DEF Without
  <2> QED BY <2>1, <2>2
<1>4. g = [x \in HdrFields |-> g[x]] /\ h = [x \in HdrFields |-> h[x]]
  BY DEF Whole
<1>5. [x \in HdrFields |-> g[x]] = [x \in HdrFields |-> h[x]]
  BY <1>3, Zenon
<1> QED BY <1>4, <1>5

\* A keyslot of a header is replaced: the rest is as it was.
LEMMA WholePut ==
  ASSUME NEW h, IsHdr(h), Whole(h), NEW i \in Slots, NEW s, DOMAIN s = {"pass", "key"},
         NEW b, NEW S, Without(h, b, S), NEW T
  PROVE  LET g == WithSlot(h, i, s) IN
         /\ Whole(g)
         /\ b.slots[i] = NoSlot /\ T = S \cup {i} => Without(g, b, T)
         /\ i \in S /\ s = NoSlot /\ T = S \ {i} => Without(g, b, T)
<1> DEFINE g == WithSlot(h, i, s)
           t == [h.slots EXCEPT ![i] = s]
<1>1. DOMAIN h = HdrFields /\ DOMAIN h.slots = Slots /\ "slots" \in HdrFields
  BY ConstantFacts DEF IsHdr, HdrFields
<1>2. g = [h EXCEPT !.slots = t]
  BY Zenon DEF WithSlot
<1>3. t = [j \in Slots |-> t[j]] /\ DOMAIN t = Slots /\ t[i] = s /\ \A j \in Slots : j # i => t[j] = h.slots[j]
  <2>1. h.slots = [j \in Slots |-> h.slots[j]]
    BY DEF Whole
  <2>2. t = [j \in Slots |-> IF j = i THEN s ELSE h.slots[j]]
    BY <1>1, <2>1, Zenon
  <2> HIDE DEF t
  <2> QED BY <2>2, Zenon
<1> HIDE DEF t
<1>4. g = [x \in HdrFields |-> g[x]] /\ g.slots = t /\ \A x \in HdrFields : x # "slots" => g[x] = h[x]
  <2>1. h = [x \in HdrFields |-> h[x]]
    BY DEF Whole
  <2>2. g = [x \in HdrFields |-> IF x = "slots" THEN t ELSE h[x]]
    BY <1>1, <1>2, <2>1, Zenon
  <2> HIDE DEF g
  <2> QED BY <1>1, <2>2, Zenon
<1> HIDE DEF g
<1>5. Whole(g)
  BY <1>3, <1>4 DEF Whole
<1>6. ASSUME b.slots[i] = NoSlot, T = S \cup {i} PROVE Without(g, b, T)
  BY <1>3, <1>4, <1>6 DEF Without
<1>7. ASSUME i \in S, s = NoSlot, T = S \ {i} PROVE Without(g, b, T)
  BY <1>3, <1>4, <1>7 DEF Without
<1> QED BY <1>5, <1>6, <1>7 DEF g

\* The initial states.
LEMMA CleanInit == Init => CleanInv
<1> SUFFICES ASSUME Init PROVE CleanInv
  OBVIOUS
<1>1. /\ proc = Idle /\ last = "none" /\ before.head = head /\ before.dm = dm
      /\ scenario \notin {"decrypt", "reencrypt", "legacy"} => head = "data"
      /\ scenario = "reencrypt" => head = "hdr" /\ dev = Started(scenario)
      /\ scenario = "decrypt" => file = Absent
  BY DEF Init
<1>2. ~dm.susp /\ proc.pc = "idle"
  BY <1>1, ConstantFacts DEF Init
<1>3. Whole(Started(scenario))
  BY DEF Whole, Started, Blank, HdrFields
<1>4. CleanFailure /\ CleanBase
  BY <1>1, <1>2 DEF CleanFailure, CleanBase, Detached
<1>5. CleanEncrypt /\ CleanReencrypt /\ CleanDecrypt
  BY <1>1, <1>2, <1>3, ConstantFacts DEF CleanEncrypt, CleanReencrypt, CleanDecrypt, EncryptPcs, ReencryptPcs, DecryptPcs
<1> QED BY <1>4, <1>5 DEF CleanInv

\* A command that takes a reencryption up finds one on the device.
LEMMA LoadDispatch ==
  ASSUME FlowInv, NEW o \in Options, Dispatch(o).pc = "load", scenario \in {"encrypt", "reencrypt"}
  PROVE  head = "hdr" /\ dev.req > 0
<1>1. o.op = scenario /\ dev.req \in Nat
  BY DEF Options, Op, FlowInv, TypeOK, IsHdr
<1>2. load_luks("dev") = IF head = "hdr" THEN (IF dev.req > 0 THEN "luks2_reencrypt" ELSE "luks2") ELSE "not_luks"
  BY DEF load_luks, luks2_reencrypt_in_progress
<1> QED
  BY <1>1, <1>2 DEF Dispatch, EncryptTo, ReencryptTo

\* A command starts.
LEMMA CleanStart == ASSUME FlowInv, CleanInv, NEW o \in Options, reencrypt(o) PROVE CleanInv'
<1> DEFINE d == Dispatch(o)
<1>1. /\ proc'.pc = d.pc /\ proc'.added = {} /\ last' = "running"
      /\ UNCHANGED <<scenario, head, dev, file, dm, beyond>>
      /\ before'.head = head /\ before'.dev = dev /\ before'.file = file /\ before'.dm = dm
  BY DEF reencrypt, disk, Idle
<1>2. /\ d.pc \in {"load", "e_create", "d_backup", "i_flag", "r_keyslots", "repair"}
      /\ d.pc = "load" /\ scenario = "decrypt" => file.st = "ok" /\ file.hdr.req > 0
      /\ d.pc = "e_create" /\ scenario = "encrypt" => head \notin {"hdr", "junk"}
      /\ d.pc = "d_backup" => scenario = "decrypt" /\ file.st = "absent" /\ head = "hdr"
  BY DispatchFacts DEF reencrypt, HeaderInFile
<1>3. d.pc = "load" /\ scenario \in {"encrypt", "reencrypt"} => head = "hdr" /\ dev.req > 0
  BY LoadDispatch
<1>4. dm.susp \in BOOLEAN
  BY DEF FlowInv, TypeOK
<1> HIDE DEF d
<1>5. CleanFailure'
  BY <1>1 DEF CleanFailure
<1>6. CleanBase'
  BY <1>1, <1>2, <1>3 DEF CleanInv, CleanBase, Begun, Detached, FlowInv, PlaceInv
<1>7. CleanEncrypt'
  BY <1>1, <1>2 DEF CleanEncrypt, EncryptPcs, FlowInv, EncryptInv
<1>8. CleanReencrypt'
  <2> SUFFICES ASSUME scenario = "reencrypt", beyond = {}, dev.req = 0
               PROVE  (Whole(dev))' /\ (Whole(before.dev))' /\ (Without(dev, before.dev, proc.added))'
    BY <1>1 DEF CleanReencrypt
  <2>1. Whole(dev)
    BY DEF CleanInv, CleanReencrypt
  <2>2. Without(dev, dev, {})
    BY DEF Without
  <2> QED BY <1>1, <2>1, <2>2 DEF Whole, Without
<1>9. CleanDecrypt'
  BY <1>1, <1>2, <1>4 DEF CleanInv, CleanDecrypt, DecryptPcs
<1> QED BY <1>5, <1>6, <1>7, <1>8, <1>9 DEF CleanInv

\* A command that goes on has not failed.
LEMMA LastFacts ==
  ASSUME CleanBase, proc.pc # "idle", last' = last \/ proc'.pc = "idle"
  PROVE  last' = "failed" => proc'.pc = "idle"
BY DEF CleanBase

\* The steps of an encryption.
LEMMA CleanEncryptNext ==
  ASSUME FlowInv, CleanInv, proc.pc \in EncryptPcs,
         \/ encrypt_create \/ luksFormat \/ encrypt_move \/ encrypt_flag \/ encrypt_destroy
         \/ encrypt_restore \/ encrypt_out \/ InitRefused
  PROVE  CleanInv'
<1>0. TypeOK /\ CleanBase /\ proc.md = "file" /\ scenario \in {"encrypt", "encrypt_hdr"} /\ proc.pc # "idle"
  BY DEF FlowInv, PlaceInv, CleanInv, EncryptPcs
<1>1. scenario' = scenario /\ before' = before /\ dm' = dm
  BY DEF encrypt_create, luksFormat, encrypt_move, encrypt_flag, encrypt_destroy, encrypt_restore, encrypt_out,
         InitRefused, InitFlag, HdrWrite, Fixed
<1>2. head' = head \/ encrypt_restore
  BY DEF encrypt_create, luksFormat, encrypt_move, encrypt_flag, encrypt_destroy, encrypt_out,
         InitRefused, InitFlag, HdrWrite, disk
<1>3. last' = last \/ proc'.pc = "idle"
  BY ConstantFacts
     DEF encrypt_create, luksFormat, encrypt_move, encrypt_flag, encrypt_destroy, encrypt_restore, encrypt_out,
         InitRefused, InitFlag, HdrWrite, LUKS2_hdr_restore, Goto, Ends
<1>4. last' = "failed" => proc'.pc = "idle"
  BY <1>0, <1>3, LastFacts
<1>5. CASE scenario = "encrypt_hdr"
  <2>1. head' = head
    BY <1>2, <1>5 DEF encrypt_restore, FlowInv, PlaceInv
  <2> QED BY <1>0, <1>1, <1>4, <1>5, <2>1, CleanDetached
<1>6. CASE scenario = "encrypt"
  <2>0. /\ Temp /\ dm = before.dm
        /\ beyond = {} => head = "data" /\ before.head = "data" /\ (proc.pc = "e_create" => file = before.file)
        /\ proc.pc = "e_restore" => file.hdr.req > 0
    BY <1>0, <1>6 DEF Temp, CleanInv, CleanBase, CleanEncrypt
  <2>1. ASSUME proc'.pc \in EncryptPcs \ {"e_create", "e_restore"}, head' = head, beyond' = {} => beyond = {},
               last' = last
        PROVE  CleanInv'
    <3>1. last' # "failed"
      BY <1>0, <2>1 DEF CleanBase
    <3>2. proc'.pc \notin {"load", "done", "failed", "e_create", "e_restore"}
      BY <2>1 DEF EncryptPcs
    <3> QED BY <1>1, <1>4, <1>6, <2>0, <2>1, <3>1, <3>2, CleanEncryptStep
  <2>2. CASE encrypt_create
    <3>1. \/ Goto("e_format") /\ Works
          \/ file' = file /\ Ends("failed") /\ Fault
      BY <2>0, <2>2 DEF encrypt_create
    <3>2. head' = head /\ beyond' = beyond /\ proc.pc = "e_create"
      BY <1>0, <2>2, <3>1, FaultFacts DEF encrypt_create
    <3>3. CASE Goto("e_format")
      BY <1>0, <2>1, <3>2, <3>3, GotoFacts DEF EncryptPcs
    <3>4. CASE file' = file /\ Ends("failed")
      <4>1. proc'.pc = "idle"
        BY <3>4, ConstantFacts DEF Ends
      <4>2. proc'.pc \notin EncryptPcs
        BY <4>1 DEF EncryptPcs
      <4> QED BY <1>1, <1>4, <1>6, <2>0, <3>2, <3>4, <4>1, <4>2, CleanEncryptStep
    <3> QED BY <3>1, <3>3, <3>4
  <2>3. CASE luksFormat
    <3>1. \E h : \E ok \in {"e_keyslot", "e_move"} : HdrWrite(h, ok, "e_out")
      BY <2>0, <2>3 DEF luksFormat
    <3>2. /\ head' = head /\ beyond \subseteq beyond' /\ last' = last /\ proc'.pc \in {"e_keyslot", "e_move", "e_out"}
      BY <1>0, <3>1, WriteFacts
    <3> QED BY <2>1, <3>2 DEF EncryptPcs
  <2>4. CASE encrypt_move
    <3>1. (Goto("e_flag") /\ Works) \/ (Goto("e_destroy") /\ Fault)
      BY <2>4 DEF encrypt_move
    <3>2. head' = head /\ beyond' = beyond /\ last' = last /\ proc'.pc \in {"e_flag", "e_destroy"}
      BY <1>0, <2>4, <3>1, FaultFacts, GotoFacts DEF encrypt_move
    <3> QED BY <2>1, <3>2 DEF EncryptPcs
  <2>5. CASE encrypt_flag
    <3>1. InitFlag("e_flag", "e_restore", "e_destroy")
      BY <2>0, <2>5 DEF encrypt_flag
    <3>2. PICK g \in reencrypt_init(Hdr, InitParams) :
            /\ IsHdr(g) /\ g.req \in {2, 3} /\ head' = head /\ beyond \subseteq beyond'
            /\ \/ Wrote(g) /\ proc'.pc = "e_restore" /\ beyond' = beyond
               \/ dev' = dev /\ file' = file /\ proc'.pc = "e_destroy" /\ beyond' = beyond
               \/ Wrote(g) /\ proc'.pc = "e_destroy" /\ beyond' # {}
      BY <1>0, <3>1, FlagFacts
    <3>3. last' = last /\ last' # "failed"
      BY <1>0, <3>1 DEF InitFlag, HdrWrite, Goto, CleanBase
    <3>4. CASE Wrote(g) /\ proc'.pc = "e_restore" /\ beyond' = beyond
      <4>1. file'.hdr.req > 0
        BY <1>0, <3>2, <3>4, ConstantFacts DEF Wrote
      <4> QED BY <1>1, <1>4, <1>6, <2>0, <3>2, <3>3, <3>4, <4>1, CleanEncryptStep
    <3>5. CASE proc'.pc = "e_destroy"
      BY <2>1, <3>2, <3>3, <3>5 DEF EncryptPcs
    <3> QED BY <3>2, <3>4, <3>5
  <2>6. CASE encrypt_destroy
    <3>1. Goto("e_out") /\ (Works \/ FaultBeyond("undo")) /\ head' = head
      BY <2>6 DEF encrypt_destroy, disk
    <3>2. proc'.pc = "e_out" /\ last' = last /\ (beyond' = {} => beyond = {})
      BY <1>0, <3>1, GotoFacts, FaultFacts
    <3> QED BY <2>1, <3>1, <3>2 DEF EncryptPcs
  <2>7. CASE encrypt_restore
    <3>0. proc.pc = "e_restore"
      BY <2>7 DEF encrypt_restore
    <3>1. \/ /\ head' = "hdr" /\ dev' = file.hdr /\ last' = last
             /\ proc' = [proc EXCEPT !.pc = IF proc.initonly THEN "done" ELSE "load", !.md = "dev"]
          \/ FaultBeyond("restore") /\ Goto("e_out")
      BY <2>7 DEF encrypt_restore, LUKS2_hdr_restore
    <3>2. last' # "failed"
      BY <1>0, <3>1 DEF CleanBase, Goto
    <3>3. CASE head' = "hdr" /\ dev' = file.hdr
               /\ proc' = [proc EXCEPT !.pc = IF proc.initonly THEN "done" ELSE "load", !.md = "dev"]
      <4>1. DOMAIN proc = ProcFields /\ {"pc", "md"} \subseteq ProcFields
        BY <1>0, ProcDomain DEF TypeOK, ProcFields
      <4> DEFINE v == IF proc.initonly THEN "done" ELSE "load"
                 q == With(proc, "pc", v)
      <4>2. proc' = With(q, "md", "dev") /\ v \in {"done", "load"}
        BY <3>3, Zenon DEF With
      <4> HIDE DEF v
      <4>3. DOMAIN q = ProcFields /\ q.pc = v
        BY <4>1, ProcPut
      <4> HIDE DEF q
      <4>4. proc'.pc = v
        BY <4>1, <4>2, <4>3, ProcPut
      <4>5. proc'.pc \notin EncryptPcs
        BY <4>2, <4>4 DEF EncryptPcs
      <4>6. proc'.pc # "e_restore" /\ proc'.pc # "e_create"
        BY <4>5 DEF EncryptPcs
      <4> QED BY <1>1, <1>4, <1>6, <2>0, <3>0, <3>2, <3>3, <4>5, <4>6, CleanEncryptStep
    <3>4. CASE FaultBeyond("restore") /\ Goto("e_out")
      <4>1. beyond' # {} /\ proc'.pc = "e_out"
        BY <1>0, <3>4, FaultFacts, GotoFacts
      <4> QED BY <1>1, <1>4, <1>6, <2>0, <4>1, CleanEncryptStep
    <3> QED BY <3>1, <3>3, <3>4
  <2>8. CASE encrypt_out
    <3>1. file' = Absent /\ proc'.pc = "idle" /\ head' = head /\ beyond' = beyond
      BY <2>0, <2>8, ConstantFacts DEF encrypt_out, Ends, Works
    <3>2. proc'.pc \notin EncryptPcs
      BY <3>1 DEF EncryptPcs
    <3> QED BY <1>1, <1>4, <1>6, <2>0, <3>1, <3>2, CleanEncryptStep
  <2>9. CASE InitRefused
    <3>1. Goto("e_destroy") /\ Works
      BY <2>9 DEF InitRefused, EncryptPcs
    <3>2. head' = head /\ beyond' = beyond /\ last' = last /\ proc'.pc = "e_destroy"
      BY <1>0, <2>9, <3>1, FaultFacts, GotoFacts DEF InitRefused, disk
    <3> QED BY <2>1, <3>2 DEF EncryptPcs
  <2> QED BY <2>2, <2>3, <2>4, <2>5, <2>6, <2>7, <2>8, <2>9
<1> QED BY <1>0, <1>5, <1>6

\* The steps of a reencryption.
LEMMA CleanReencryptNext ==
  ASSUME FlowInv, FlowInv', KeysInv, CleanInv, proc.pc \in ReencryptPcs,
         \/ fill_keyslot_passwords \/ crypt_keyslot_add_by_key \/ reencrypt_flag \/ crypt_keyslot_destroy
         \/ InitRefused
  PROVE  CleanInv'
<1>0. TypeOK /\ CleanBase /\ proc.md = "dev" /\ scenario = "reencrypt" /\ proc.pc # "idle" /\ head = "hdr" /\ IsHdr(dev)
  BY DEF FlowInv, PlaceInv, CleanInv, ReencryptPcs, TypeOK
<1>1. scenario' = scenario /\ before' = before /\ dm' = dm /\ dm = before.dm /\ before.head = "hdr"
  BY <1>0 DEF fill_keyslot_passwords, crypt_keyslot_add_by_key, reencrypt_flag, crypt_keyslot_destroy,
         InitRefused, InitFlag, HdrWrite, Fixed, CleanBase
<1>2. last' = last \/ proc'.pc = "idle"
  BY ConstantFacts
     DEF fill_keyslot_passwords, crypt_keyslot_add_by_key, reencrypt_flag, crypt_keyslot_destroy,
         InitRefused, InitFlag, HdrWrite, Goto, Ends
<1>3. last' = "failed" => proc'.pc = "idle"
  BY <1>0, <1>2, LastFacts
<1>4. head' = "hdr" /\ dev'.req \in Nat
  BY <1>0, <1>1 DEF FlowInv, PlaceInv, TypeOK, IsHdr
<1>5. ASSUME beyond = {}, dev.req = 0
      PROVE  /\ Whole(dev) /\ Whole(before.dev) /\ Without(dev, before.dev, proc.added)
             /\ proc.pc = "r_keyslots" => proc.added = {}
  BY <1>0, <1>5 DEF CleanInv, CleanReencrypt
\* The command goes on, with the keyslots it knows of;
<1>6. ASSUME proc'.pc \in {"r_add", "r_flag", "r_undo"},
             beyond' = {} /\ dev'.req = 0 =>
               Whole(dev') /\ Whole(before.dev) /\ Without(dev', before.dev, proc'.added)
      PROVE  CleanInv'
  <2>1. CleanReencrypt'
    BY <1>1, <1>6 DEF CleanReencrypt, Whole, Without
  <2>2. last' # "failed" /\ proc'.pc \notin {"load", "done", "failed"}
    BY <1>3, <1>6
  <2> QED BY <1>0, <1>1, <1>3, <1>4, <2>1, <2>2, CleanReencryptStep
\* or it is over, and has added none.
<1>7. ASSUME proc' = Idle, dev' = dev, beyond' = {} => beyond = {},
             beyond' = {} /\ dev.req = 0 => proc.added = {}
      PROVE  CleanInv'
  <2>1. proc'.pc = "idle"
    BY <1>7, ConstantFacts
  <2>2. CleanReencrypt'
    BY <1>0, <1>1, <1>5, <1>7, <2>1 DEF CleanReencrypt, Whole, ReencryptPcs
  <2>3. beyond' = {} /\ dev.req = 0 => dev = before.dev
    BY <1>5, <1>7, WholeSame
  <2> QED BY <1>0, <1>1, <1>3, <1>4, <1>7, <2>1, <2>2, <2>3, CleanReencryptStep
<1>8. CASE fill_keyslot_passwords
  <2>1. /\ dev' = dev /\ proc.pc = "r_keyslots" /\ beyond' = beyond
        /\ proc' = Idle \/ (proc'.added = proc.added /\ proc'.pc \in {"r_add", "r_flag"})
    BY <1>0, <1>8, FillFacts
  <2>2. dev.req = 0
    BY <1>0, <2>1 DEF KeysInv
  <2>3. CASE proc' = Idle
    BY <1>5, <1>7, <2>1, <2>2, <2>3
  <2>4. CASE proc'.added = proc.added /\ proc'.pc \in {"r_add", "r_flag"}
    BY <1>5, <1>6, <2>1, <2>2, <2>4
  <2> QED BY <2>1, <2>3, <2>4
<1>9. CASE crypt_keyslot_add_by_key
  <2> DEFINE j == Lowest(Free(dev))
             s == Slot(dev.slots[Lowest(proc.todo)].pass, NewKey)
             w == WithSlot(dev, j, s)
  <2>1. /\ beyond # {} => beyond' # {}
        /\ \/ dev' = w /\ proc'.added = proc.added \cup {j} /\ proc'.pc \in {"r_flag", "r_add"}
           \/ (dev' = dev \/ beyond' # {}) /\ proc'.added = proc.added /\ proc'.pc = "r_undo"
    BY <1>0, <1>9, AddFacts
  <2>2. j \in Slots /\ dev.slots[j] = NoSlot /\ dev.req = 0 /\ DOMAIN s = {"pass", "key"}
    BY <1>0, <1>9, RoomFacts, ConstantFacts DEF crypt_keyslot_add_by_key, KeysInv
  <2> HIDE DEF j, s
  <2>3. CASE dev' = w /\ proc'.added = proc.added \cup {j} /\ proc'.pc \in {"r_flag", "r_add"}
    <3>1. ASSUME beyond' = {} PROVE Whole(w) /\ Whole(before.dev) /\ Without(w, before.dev, proc.added \cup {j})
      <4>1. Whole(dev) /\ Whole(before.dev) /\ Without(dev, before.dev, proc.added)
        BY <1>5, <2>1, <2>2, <3>1
      <4>2. before.dev.slots[j] = NoSlot
        BY <2>2, <4>1 DEF Without
      <4> QED BY <1>0, <2>2, <4>1, <4>2, WholePut
    <3> QED BY <1>6, <2>3, <3>1
  <2>4. CASE (dev' = dev \/ beyond' # {}) /\ proc'.added = proc.added /\ proc'.pc = "r_undo"
    BY <1>5, <1>6, <2>1, <2>2, <2>4
  <2> QED BY <2>1, <2>3, <2>4
<1>10. CASE reencrypt_flag
  <2> DEFINE ok == IF proc.initonly THEN "done" ELSE "load"
  <2>0. ok \in {"done", "load"} /\ InitFlag("r_flag", ok, "r_undo")
    BY <1>10 DEF reencrypt_flag
  <2> HIDE DEF ok
  <2>1. PICK g \in reencrypt_init(Hdr, InitParams) :
          /\ g.req \in {2, 3} /\ proc.pc = "r_flag" /\ Rest /\ beyond \subseteq beyond'
          /\ \/ Wrote(g) /\ proc'.pc = ok /\ beyond' = beyond
             \/ dev' = dev /\ file' = file /\ proc'.pc = "r_undo" /\ beyond' = beyond
             \/ Wrote(g) /\ proc'.pc = "r_undo" /\ beyond' # {}
    BY <1>0, <2>0, FlagFacts
  <2>2. CASE Wrote(g) /\ proc'.pc = ok /\ beyond' = beyond
    <3>1. dev'.req > 0
      BY <1>0, <2>1, <2>2 DEF Wrote
    <3>2. CleanReencrypt'
      BY <3>1 DEF CleanReencrypt
    <3> QED BY <1>0, <1>1, <1>3, <1>4, <3>1, <3>2, CleanReencryptStep
  <2>3. CASE dev' = dev /\ proc'.pc = "r_undo" /\ beyond' = beyond
    <3>1. proc'.added = proc.added
      BY <2>1 DEF Rest
    <3> QED BY <1>5, <1>6, <2>3, <3>1
  <2>4. CASE Wrote(g) /\ proc'.pc = "r_undo" /\ beyond' # {}
    BY <1>6, <2>4
  <2> QED BY <2>1, <2>2, <2>3, <2>4
<1>11. CASE crypt_keyslot_destroy
  <2> DEFINE j == Lowest(proc.added)
             w == WithSlot(dev, j, NoSlot)
  <2>1. /\ beyond # {} => beyond' # {}
        /\ \/ /\ proc'.added = proc.added \ {j} /\ proc'.pc = "r_undo" /\ proc.added # {} /\ dev.req = 0
              /\ dev' = w \/ beyond' # {}
           \/ proc' = Idle /\ dev' = dev /\ (proc.added = {} \/ dev.req # 0)
    BY <1>0, <1>11, UndoFacts
  <2>2. proc.added # {} => j \in proc.added /\ j \in Slots
    <3>1. proc.added \subseteq Slots
      BY <1>0 DEF KeysInv
    <3> QED BY <3>1, LowestIn, SlotsFinite
  <2> HIDE DEF j
  <2>3. CASE /\ proc'.added = proc.added \ {j} /\ proc'.pc = "r_undo" /\ proc.added # {} /\ dev.req = 0
             /\ dev' = w \/ beyond' # {}
    <3>1. ASSUME beyond' = {} PROVE Whole(w) /\ Whole(before.dev) /\ Without(w, before.dev, proc.added \ {j})
      <4>1. Whole(dev) /\ Whole(before.dev) /\ Without(dev, before.dev, proc.added)
        BY <1>5, <2>1, <2>3, <3>1
      <4> QED BY <1>0, <2>2, <2>3, <4>1, WholePut, ConstantFacts
    <3> QED BY <1>6, <2>3, <3>1
  <2>4. CASE proc' = Idle /\ dev' = dev /\ (proc.added = {} \/ dev.req # 0)
    BY <1>7, <2>1, <2>4
  <2> QED BY <2>1, <2>3, <2>4
<1>12. CASE InitRefused
  <2>1. Goto("r_undo") /\ Works /\ dev' = dev
    BY <1>12 DEF InitRefused, ReencryptPcs, disk
  <2>2. proc'.pc = "r_undo" /\ proc'.added = proc.added /\ beyond' = beyond
    BY <1>0, <2>1, GotoFacts, FaultFacts DEF Rest
  <2> QED BY <1>5, <1>6, <2>1, <2>2
<1> QED BY <1>8, <1>9, <1>10, <1>11, <1>12

\* The steps of a decryption over the header.
LEMMA CleanDecryptNext ==
  ASSUME FlowInv, FlowInv', SafeInv, CleanInv,
         \/ decrypt_backup \/ decrypt_wipe \/ decrypt_unwipe \/ decrypt_reload \/ decrypt_suspend
         \/ decrypt_move \/ decrypt_flag \/ dm_resume_device \/ dm_clear_device \/ decrypt_status
  PROVE  CleanInv'
<1>0. TypeOK /\ CleanBase /\ proc.pc \in DecryptPcs /\ scenario = "decrypt" /\ proc.md = "file" /\ proc.pc # "idle"
        /\ dm.susp \in BOOLEAN
  <2>1. proc.pc \in DecryptPcs
    BY DEF decrypt_backup, decrypt_wipe, decrypt_unwipe, decrypt_reload, decrypt_suspend, decrypt_move, decrypt_flag,
       dm_resume_device, dm_clear_device, decrypt_status, InitFlag, DecryptPcs
  <2> QED BY <2>1 DEF FlowInv, PlaceInv, CleanInv, DecryptPcs, TypeOK
<1>1. scenario' = "decrypt" /\ before' = before
  BY <1>0 DEF decrypt_backup, decrypt_wipe, decrypt_unwipe, decrypt_reload, decrypt_suspend, decrypt_move, decrypt_flag,
       dm_resume_device, dm_clear_device, decrypt_status, InitFlag, Fixed
<1>2. last' = last \/ proc'.pc = "idle"
  BY ConstantFacts
     DEF decrypt_backup, decrypt_wipe, decrypt_unwipe, decrypt_reload, decrypt_suspend, decrypt_move, decrypt_flag,
       dm_resume_device, dm_clear_device, decrypt_status, InitFlag, HdrWrite, LUKS2_hdr_restore, Goto, Ends
<1>3. last' = "failed" => proc'.pc = "idle"
  BY <1>0, <1>2, LastFacts
<1>4. ASSUME beyond = {}, file.hdr.req = 0
      PROVE  /\ before.head = "hdr" /\ dev = before.dev /\ dm.live = before.dm.live /\ before.dm.susp = FALSE
             /\ dm.susp => proc.online /\ proc.pc \in {"d_move", "d_flag", "d_clear", "d_cleared"} /\ file.st = "ok"
             /\ proc.pc = "d_backup" => file = Absent
             /\ proc.pc \in {"d_backup", "d_wipe"} => head = "hdr"
             /\ proc.pc # "d_backup" => file.hdr = before.dev
             /\ file.st = "absent" => file = Absent
  BY <1>0, <1>4 DEF CleanInv, CleanDecrypt
<1>5. proc.pc \in BeforeFlag => file.hdr.req = 0
  BY <1>0 DEF FlowInv, DecryptInv
\* The reencryption has started;
<1>6. ASSUME file'.hdr.req > 0 PROVE CleanInv'
  <2>1. file'.st = "ok" /\ CleanDecrypt'
    BY <1>6 DEF FlowInv, PlaceInv, CleanDecrypt
  <2> QED BY <1>1, <1>3, <1>6, <2>1, CleanDecryptStep
\* an error path did not get its way;
<1>7. ASSUME beyond' # {}, proc'.pc \notin {"load", "done", "failed"} PROVE CleanInv'
  <2>1. CleanDecrypt'
    BY <1>7 DEF CleanDecrypt
  <2> QED BY <1>1, <1>3, <1>7, <2>1, CleanDecryptStep
\* the command goes on;
<1>8. ASSUME proc'.pc \in DecryptPcs \ {"d_backup", "d_wipe"}, file' = file, dev' = dev, dm'.live = dm.live,
             beyond' = beyond, proc.pc # "d_backup",
             beyond = {} /\ file.hdr.req = 0 /\ dm'.susp =>
               proc'.online /\ proc'.pc \in {"d_move", "d_flag", "d_clear", "d_cleared"} /\ file.st = "ok"
      PROVE  CleanInv'
  <2>1. CleanDecrypt'
    BY <1>1, <1>4, <1>8 DEF CleanDecrypt
  <2>2. proc'.pc \notin {"load", "done", "failed", "idle"}
    BY <1>8 DEF DecryptPcs
  <2> QED BY <1>1, <1>3, <2>1, <2>2, CleanDecryptStep
\* or it is over, and nothing has changed.
<1>9. ASSUME proc' = Idle, proc.pc \in BeforeFlag \ {"d_move", "d_flag"}, dm' = dm, beyond' = beyond,
             beyond = {} => head' = "hdr" /\ dev' = before.dev /\ file' \in {Absent, Damaged}
      PROVE  CleanInv'
  <2>1. proc'.pc = "idle"
    BY <1>9, ConstantFacts
  <2>2. beyond = {} => dm.susp = FALSE /\ before.head = "hdr" /\ dm.live = before.dm.live /\ before.dm.susp = FALSE
    BY <1>0, <1>4, <1>5, <1>9 DEF BeforeFlag
  <2>3. CleanDecrypt'
    BY <1>9, <2>1, <2>2, ConstantFacts DEF CleanDecrypt, DecryptPcs
  <2> QED BY <1>1, <1>3, <1>9, <2>1, <2>2, <2>3, CleanDecryptStep
<1>10. CASE decrypt_backup
  <2>1. proc.pc = "d_backup" /\ head' = head /\ dev' = dev /\ dm' = dm
    BY <1>10 DEF decrypt_backup
  <2>2. beyond' = beyond
    BY <1>0, <1>10, FaultFacts DEF decrypt_backup
  <2>3. \/ /\ file' = File(dev) /\ last' = last
           /\ \E p \in DecryptParams : proc' = [proc EXCEPT !.pc = "d_wipe", !.res = p.res]
        \/ file' \in {file, Damaged} /\ proc' = Idle
    BY <1>10, Zenon DEF decrypt_backup, Ends
  <2>4. file.hdr.req = 0
    BY <1>5, <2>1 DEF BeforeFlag
  <2>5. CASE file' = File(dev) /\ \E p \in DecryptParams : proc' = [proc EXCEPT !.pc = "d_wipe", !.res = p.res]
    <3>1. PICK p \in DecryptParams : proc' = [proc EXCEPT !.pc = "d_wipe", !.res = p.res]
      BY <2>5
    <3>2. DOMAIN proc = ProcFields /\ {"pc", "res"} \subseteq ProcFields
      BY <1>0, ProcDomain DEF TypeOK, ProcFields
    <3> DEFINE q == With(proc, "pc", "d_wipe")
    <3>3. proc' = With(q, "res", p.res)
      BY <3>1, Zenon DEF With
    <3>4. DOMAIN q = ProcFields /\ q.pc = "d_wipe"
      BY <3>2, ProcPut
    <3> HIDE DEF q
    <3>5. proc'.pc = "d_wipe"
      BY <3>2, <3>3, <3>4, ProcPut
    <3>6. file'.hdr = dev /\ file'.st = "ok"
      BY <2>5, ConstantFacts
    <3>7. CleanDecrypt'
      BY <1>0, <1>1, <1>4, <2>1, <2>2, <2>4, <3>5, <3>6 DEF CleanDecrypt
    <3> QED BY <1>1, <1>3, <3>5, <3>7, CleanDecryptStep
  <2>6. CASE file' \in {file, Damaged} /\ proc' = Idle
    <3>1. beyond = {} => head' = "hdr" /\ dev' = before.dev /\ file' \in {Absent, Damaged}
      BY <1>4, <2>1, <2>4, <2>6
    <3> QED BY <1>9, <2>1, <2>2, <2>6, <3>1 DEF BeforeFlag
  <2> QED BY <2>3, <2>5, <2>6
<1>11. CASE decrypt_wipe
  <2>1. /\ proc.pc = "d_wipe" /\ dev' = dev /\ dm' = dm
        /\ \/ file' = file /\ (Goto("d_init") \/ Goto("d_unwipe"))
           \/ head' = head /\ file' = Absent /\ proc' = Idle
    BY <1>11, Zenon DEF decrypt_wipe, Ends
  <2>2. beyond' = beyond
    BY <1>11 DEF decrypt_wipe, Works, FailsIf, Fault
  <2>3. file.hdr.req = 0
    BY <1>5, <2>1 DEF BeforeFlag
  <2>4. CASE file' = file /\ (Goto("d_init") \/ Goto("d_unwipe"))
    <3>1. proc'.pc \in {"d_init", "d_unwipe"}
      BY <1>0, <2>4, GotoFacts
    <3> QED BY <1>4, <1>8, <2>1, <2>2, <2>3, <2>4, <3>1 DEF DecryptPcs
  <2>5. CASE head' = head /\ file' = Absent /\ proc' = Idle
    <3>1. beyond = {} => head' = "hdr" /\ dev' = before.dev
      BY <1>4, <2>1, <2>3, <2>5
    <3> QED BY <1>9, <2>1, <2>2, <2>5, <3>1 DEF BeforeFlag
  <2> QED BY <2>1, <2>4, <2>5
<1>12. CASE decrypt_unwipe
  <2>1. /\ proc.pc \in {"d_unwipe", "d_restore"} /\ dm' = dm /\ proc' = Idle
        /\ \/ head' = "hdr" /\ dev' = file.hdr /\ file' = Absent /\ Works
           \/ FaultBeyond("restore")
    BY <1>12 DEF decrypt_unwipe, LUKS2_hdr_restore, Ends
  <2>2. file.hdr.req = 0 /\ proc.pc \in BeforeFlag \ {"d_move", "d_flag"} /\ proc.pc # "d_backup"
    BY <1>5, <2>1 DEF BeforeFlag
  <2>3. CASE head' = "hdr" /\ dev' = file.hdr /\ file' = Absent /\ Works
    <3>1. beyond = {} => head' = "hdr" /\ dev' = before.dev
      BY <1>4, <2>2, <2>3
    <3>2. beyond' = beyond
      BY <2>3 DEF Works
    <3> QED BY <1>9, <2>1, <2>2, <2>3, <3>1, <3>2
  <2>4. CASE FaultBeyond("restore")
    <3>1. beyond' # {} /\ proc'.pc = "idle"
      BY <1>0, <2>1, <2>4, FaultFacts, ConstantFacts
    <3> QED BY <1>7, <3>1
  <2> QED BY <2>1, <2>3, <2>4
<1>13. CASE decrypt_reload
  <2>1. /\ proc.pc = "d_init" /\ file' = file /\ dev' = dev
        /\ dm' = dm \/ dm' = [dm EXCEPT !.inactive = "new"]
        /\ Goto("d_move") \/ Goto("d_suspend") \/ Goto("d_status")
    BY <1>13 DEF decrypt_reload, disk
  <2>2. beyond' = beyond
    BY <1>13 DEF decrypt_reload, Works, FailsIf
  <2>3. dm'.live = dm.live /\ dm'.susp = dm.susp
    BY <1>0, <2>1, DmPut
  <2>4. proc'.pc \in {"d_move", "d_suspend", "d_status"}
    BY <1>0, <2>1, GotoFacts
  <2> QED BY <1>4, <1>8, <2>1, <2>2, <2>3, <2>4 DEF DecryptPcs
<1>14. CASE decrypt_suspend
  <2>1. /\ proc.pc = "d_suspend" /\ file' = file /\ dev' = dev
        /\ \/ dm' = [dm EXCEPT !.susp = TRUE] /\ Goto("d_move")
           \/ dm' = dm /\ Goto("d_clear")
    BY <1>14 DEF decrypt_suspend, disk
  <2>2. beyond' = beyond
    BY <1>14 DEF decrypt_suspend, Works, Fault, FailsIf
  <2>3. dm'.live = dm.live /\ proc.online
    BY <1>0, <2>1, DmPut DEF FlowInv, DecryptInv
  <2>4. proc'.pc \in {"d_move", "d_clear"} /\ proc'.online = proc.online
    BY <1>0, <2>1, GotoFacts DEF Rest
  <2>5. file.st = "ok"
    BY <1>0, <2>1 DEF SafeInv
  <2> QED BY <1>8, <2>1, <2>2, <2>3, <2>4, <2>5 DEF DecryptPcs
<1>15. CASE decrypt_move
  <2>1. /\ proc.pc = "d_move" /\ file' = file /\ dev' = dev /\ dm' = dm
        /\ Goto("d_flag") \/ Goto(DecryptFailed)
    BY <1>15 DEF decrypt_move
  <2>2. beyond' = beyond
    BY <1>15 DEF decrypt_move, Works, Fault, FailsIf
  <2>3. DecryptFailed \in {"d_clear", "d_status"} /\ (proc.online => DecryptFailed = "d_clear")
    BY DEF DecryptFailed
  <2>4. /\ proc'.pc \in {"d_flag", "d_clear", "d_status"} /\ proc'.online = proc.online
        /\ proc.online => proc'.pc \in {"d_flag", "d_clear"}
    BY <1>0, <2>1, <2>3, GotoFacts DEF Rest
  <2> QED BY <1>4, <1>8, <2>1, <2>2, <2>4 DEF DecryptPcs
<1>16. CASE decrypt_flag
  <2>1. DecryptFailed \in {"d_clear", "d_status"} /\ (proc.online => DecryptFailed = "d_clear")
    BY DEF DecryptFailed
  <2>2. PICK g \in reencrypt_init(Hdr, InitParams) :
          /\ g.req \in {2, 3} /\ proc.pc = "d_flag" /\ Rest /\ dm' = dm
          /\ \/ Wrote(g)
             \/ dev' = dev /\ file' = file /\ proc'.pc = DecryptFailed /\ beyond' = beyond
    BY <1>0, <1>16, FlagFacts DEF decrypt_flag
  <2>3. CASE Wrote(g)
    <3>1. file'.hdr.req > 0
      BY <1>0, <2>2, <2>3, ConstantFacts DEF Wrote
    <3> QED BY <1>6, <3>1
  <2>4. CASE dev' = dev /\ file' = file /\ proc'.pc = DecryptFailed /\ beyond' = beyond
    <3>1. proc'.online = proc.online
      BY <2>2 DEF Rest
    <3> QED BY <1>4, <1>8, <2>1, <2>2, <2>4, <3>1 DEF DecryptPcs
  <2> QED BY <2>2, <2>3, <2>4
<1>17. CASE dm_resume_device
  <2> DEFINE to == IF proc.pc = "d_cleared" THEN "d_status" ELSE IF proc.initonly THEN "done" ELSE "load"
             resumed == [live |-> IF dm.inactive = "none" THEN dm.live ELSE dm.inactive,
                         inactive |-> "none", susp |-> FALSE]
  <2>1. /\ proc.pc \in {"d_resume", "d_cleared"} /\ file' = file /\ dev' = dev /\ Goto(to)
        /\ \/ proc.online /\ dm' = resumed /\ Works
           \/ FaultBeyond("undo")
           \/ ~proc.online /\ dm' = dm /\ Works
    BY <1>17 DEF dm_resume_device, disk
  <2>2. proc'.pc = to
    BY <1>0, <2>1, GotoFacts
  <2>3. CASE proc.pc = "d_resume"
    <3>1. file.hdr.req > 0
      BY <1>0, <2>3 DEF FlowInv, DecryptInv
    <3> QED BY <1>6, <2>1, <3>1
  <2>4. CASE proc.pc = "d_cleared"
    <3>1. proc'.pc = "d_status" /\ dm.inactive = "none"
      BY <1>0, <2>2, <2>4 DEF FlowInv, DecryptInv
    <3>2. CASE proc.online /\ dm' = resumed /\ Works
      <4>1. dm'.live = dm.live /\ ~dm'.susp /\ beyond' = beyond
        BY <3>1, <3>2 DEF Works
      <4> QED BY <1>8, <2>1, <2>4, <3>1, <4>1 DEF DecryptPcs
    <3>3. CASE FaultBeyond("undo")
      <4>1. beyond' # {}
        BY <1>0, <3>3, FaultFacts
      <4> QED BY <1>7, <3>1, <4>1
    <3>4. CASE ~proc.online /\ dm' = dm /\ Works
      BY <1>4, <1>8, <2>1, <2>4, <3>1, <3>4 DEF DecryptPcs, Works
    <3> QED BY <2>1, <3>2, <3>3, <3>4
  <2> QED BY <2>1, <2>3, <2>4
<1>18. CASE dm_clear_device
  <2>1. /\ proc.pc = "d_clear" /\ file' = file /\ dev' = dev
        /\ \/ dm' = [dm EXCEPT !.inactive = "none"] /\ Goto("d_cleared") /\ Works
           \/ Goto("d_status") /\ FaultBeyond("undo")
    BY <1>18 DEF dm_clear_device, disk
  <2>2. CASE dm' = [dm EXCEPT !.inactive = "none"] /\ Goto("d_cleared") /\ Works
    <3>1. dm'.live = dm.live /\ dm'.susp = dm.susp /\ beyond' = beyond
      BY <1>0, <2>2, DmPut DEF Works
    <3>2. proc'.pc = "d_cleared" /\ proc'.online = proc.online
      BY <1>0, <2>2, GotoFacts DEF Rest
    <3> QED BY <1>4, <1>8, <2>1, <3>1, <3>2 DEF DecryptPcs
  <2>3. CASE Goto("d_status") /\ FaultBeyond("undo")
    <3>1. beyond' # {} /\ proc'.pc = "d_status"
      BY <1>0, <2>3, FaultFacts, GotoFacts
    <3> QED BY <1>7, <3>1
  <2> QED BY <2>1, <2>2, <2>3
<1>19. CASE decrypt_status
  <2>1. /\ proc.pc = "d_status" /\ file' = file /\ dev' = dev /\ dm' = dm /\ beyond' = beyond
        /\ IF file.hdr.req = 0 THEN Goto("d_restore") ELSE proc' = Idle
    BY <1>19 DEF decrypt_status, disk, Works, Ends
  <2>2. CASE file.hdr.req = 0
    <3>1. proc'.pc = "d_restore"
      BY <1>0, <2>1, <2>2, GotoFacts
    <3> QED BY <1>4, <1>8, <2>1, <2>2, <3>1 DEF DecryptPcs
  <2>3. CASE file.hdr.req # 0
    <3>1. file'.hdr.req > 0
      BY <1>0, <2>1, <2>3 DEF TypeOK, IsHdr
    <3> QED BY <1>6, <3>1
  <2> QED BY <2>2, <2>3
<1> QED
  BY <1>10, <1>11, <1>12, <1>13, <1>14, <1>15, <1>16, <1>17, <1>18, <1>19

\* A command that is over, or that takes up a reencryption: the reencryption is there as before.
LEMMA CleanBegun ==
  ASSUME FlowInv, FlowInv', CleanInv, CleanBase, proc.pc \in {"load", "done", "failed"},
         scenario' = scenario, before' = before, dm' = dm, head' = head, last' = "failed" => proc'.pc = "idle",
         proc'.pc \in {"idle", "done", "failed"},
         scenario \in {"encrypt", "reencrypt"} => dev'.req = dev.req,
         scenario = "decrypt" => file'.st = file.st /\ file'.hdr.req = file.hdr.req
  PROVE  CleanInv'
<1>0. Begun /\ (scenario # "decrypt" => dm = before.dm)
  BY DEF CleanBase
<1>1. CASE scenario = "encrypt"
  <2>1. head' = "hdr" /\ dev'.req > 0 /\ proc'.pc \notin EncryptPcs /\ proc'.pc \notin {"e_restore", "e_create"}
    BY <1>0, <1>1 DEF Begun, EncryptPcs
  <2> QED BY <1>0, <1>1, <2>1, CleanEncryptStep
<1>2. CASE scenario = "reencrypt"
  <2>1. head' = "hdr" /\ before'.head = "hdr" /\ dev'.req > 0 /\ dev'.req \in Nat
    BY <1>0, <1>2 DEF Begun, CleanBase, FlowInv, TypeOK, IsHdr
  <2>2. CleanReencrypt'
    BY <2>1 DEF CleanReencrypt
  <2> QED BY <1>0, <1>2, <2>1, <2>2, CleanReencryptStep
<1>3. CASE scenario = "decrypt"
  <2>1. file'.st = "ok" /\ file'.hdr.req > 0
    BY <1>0, <1>3 DEF Begun
  <2>2. CleanDecrypt'
    BY <2>1 DEF CleanDecrypt
  <2> QED BY <1>3, <2>1, <2>2, CleanDecryptStep
<1>4. CASE scenario = "legacy"
  BY <1>4, CleanLegacy
<1>5. CASE scenario \in {"encrypt_hdr", "decrypt_hdr"}
  BY <1>5, CleanDetached
<1> QED BY <1>1, <1>2, <1>3, <1>4, <1>5, InitConstants DEF FlowInv, TypeOK

\* The command is killed: it has not failed.
LEMMA CleanKill == ASSUME FlowInv, FlowInv', CleanInv, Kill PROVE CleanInv'
<1>1. /\ scenario' = scenario /\ before' = before /\ dm' = dm /\ file' = file /\ beyond' = beyond
      /\ proc'.pc = "idle" /\ last' = "killed"
  BY ConstantFacts DEF Kill, Ends
<1>2. PICK r \in Partial : head' = r[1] /\ tail' = r[2] /\ dev' = r[3]
  BY DEF Kill
<1>3. /\ head' = head \/ proc.pc \in {"d_move", "d_wipe", "d_unwipe", "d_restore", "e_restore"}
      /\ dev' = dev \/ proc.pc \in {"e_restore", "d_unwipe", "d_restore"}
  BY <1>2, PartialFacts DEF FlowInv
<1>4. /\ scenario \notin {"encrypt", "decrypt"} => head' = head /\ dev' = dev
  BY <1>3 DEF FlowInv, PlaceInv, DecryptPcs
<1>5. CleanFailure' /\ CleanBase'
  BY <1>1, <1>4 DEF CleanFailure, CleanInv, CleanBase, Detached
<1>6. CleanEncrypt' /\ CleanDecrypt'
  BY <1>1 DEF CleanEncrypt, CleanInv, CleanDecrypt, EncryptPcs, DecryptPcs
<1>7. CleanReencrypt'
  BY <1>1, <1>4 DEF CleanReencrypt, CleanInv, Whole, ReencryptPcs
<1> QED BY <1>5, <1>6, <1>7 DEF CleanInv

\* Nothing but the block size of the device changes.
LEMMA CleanQuiet ==
  ASSUME CleanInv, UNCHANGED <<scenario, head, tail, dev, file, dm, beyond, proc, before, last>>
  PROVE  CleanInv'
<1>1. CleanFailure'
  BY DEF CleanInv, CleanFailure, Stored, InReencryption
<1>2. CleanBase' /\ CleanEncrypt' /\ CleanDecrypt'
  BY DEF CleanInv, CleanBase, CleanEncrypt, CleanDecrypt, Begun, Detached
<1>3. CleanReencrypt'
  BY DEF CleanInv, CleanReencrypt, Whole, Without
<1> QED BY <1>1, <1>2, <1>3 DEF CleanInv

\* Every step.
LEMMA CleanNext == FlowInv /\ FlowInv' /\ SafeInv /\ KeysInv /\ CleanInv /\ [Next]_vars => CleanInv'
<1> SUFFICES ASSUME FlowInv, FlowInv', SafeInv, KeysInv, CleanInv, [Next]_vars PROVE CleanInv'
  OBVIOUS
<1>0. TypeOK /\ CleanBase
  BY DEF FlowInv, CleanInv
<1>1. CASE UNCHANGED vars \/ Realign
  <2>1. UNCHANGED <<scenario, head, tail, dev, file, dm, beyond, proc, before, last>>
    BY <1>1, Zenon DEF vars, disk, Realign
  <2> QED BY <2>1, CleanQuiet
<1>2. CASE \E o \in Options : reencrypt(o)
  BY <1>2, CleanStart
<1>3. CASE encrypt_create \/ luksFormat \/ encrypt_move \/ encrypt_flag \/ encrypt_destroy
           \/ encrypt_restore \/ encrypt_out
  <2>1. proc.pc \in EncryptPcs
    BY <1>3 DEF encrypt_create, luksFormat, encrypt_move, encrypt_flag, encrypt_destroy, encrypt_restore, encrypt_out,
       InitFlag, EncryptPcs
  <2> QED BY <1>3, <2>1, CleanEncryptNext
<1>4. CASE \/ decrypt_backup \/ decrypt_wipe \/ decrypt_unwipe \/ decrypt_reload \/ decrypt_suspend
           \/ decrypt_move \/ decrypt_flag \/ dm_resume_device \/ dm_clear_device \/ decrypt_status
  BY <1>4, CleanDecryptNext
<1>5. CASE decrypt_luks2_init \/ (InitRefused /\ proc.pc = "i_flag")
  <2>1. proc.pc = "i_flag" /\ scenario' = scenario /\ before' = before /\ dm' = dm /\ head' = head /\ last' = last
    BY <1>5 DEF decrypt_luks2_init, InitRefused, InitFlag, HdrWrite, Goto, Fixed, disk
  <2>2. scenario = "decrypt_hdr" /\ (last' = "failed" => proc'.pc = "idle")
    BY <1>0, <2>1 DEF FlowInv, PlaceInv, CleanBase
  <2> QED BY <1>0, <2>1, <2>2, CleanDetached
<1>6. CASE InitRefused /\ proc.pc # "i_flag"
  <2>1. proc.pc \in {"e_flag", "r_flag"}
    BY <1>6 DEF InitRefused
  <2> QED BY <1>6, <2>1, CleanEncryptNext, CleanReencryptNext DEF EncryptPcs, ReencryptPcs
<1>7. CASE fill_keyslot_passwords \/ crypt_keyslot_add_by_key \/ reencrypt_flag \/ crypt_keyslot_destroy
  <2>1. proc.pc \in ReencryptPcs
    BY <1>7 DEF fill_keyslot_passwords, crypt_keyslot_add_by_key, reencrypt_flag, crypt_keyslot_destroy, InitFlag,
       ReencryptPcs
  <2> QED BY <1>7, <2>1, CleanReencryptNext
<1>8. CASE reencrypt_luks2_load
  <2>0. proc.pc = "load" /\ before' = before /\ last' = last
    BY <1>8 DEF reencrypt_luks2_load, HdrWrite, Goto, Fixed
  <2>1. PICK p : \E g \in Loaded(p) \cup {Hdr} :
          /\ scenario' = scenario /\ head' = head /\ dm' = dm /\ proc'.pc \in {"done", "failed"}
          /\ Wrote(g) \/ (dev' = dev /\ file' = file)
    BY <1>8, LoadFacts
  <2>2. PICK g \in Loaded(p) \cup {Hdr} :
          /\ scenario' = scenario /\ head' = head /\ dm' = dm /\ proc'.pc \in {"done", "failed"}
          /\ Wrote(g) \/ (dev' = dev /\ file' = file)
    BY <2>1
  <2>3. g.req = Hdr.req
    BY <1>0, HdrIs, LoadWrites
  <2>4. last' = "failed" => proc'.pc = "idle"
    BY <1>0, <2>0, LastFacts
  <2>5. scenario \in {"encrypt", "reencrypt"} => dev'.req = dev.req
    <3>1. scenario \in {"encrypt", "reencrypt"} => proc.md = "dev" /\ Hdr = dev
      BY <1>0, <2>0, HdrIs DEF FlowInv, PlaceInv, HeaderInFile
    <3> QED BY <2>2, <2>3, <3>1 DEF Wrote
  <2>6. scenario = "decrypt" => file'.st = file.st /\ file'.hdr.req = file.hdr.req
    <3>1. scenario = "decrypt" => proc.md = "file" /\ Hdr = file.hdr /\ file.st = "ok"
      BY <1>0, <2>0, HdrIs DEF FlowInv, PlaceInv, HeaderInFile, CleanBase, Begun
    <3> QED BY <2>2, <2>3, <3>1, ConstantFacts DEF Wrote
  <2> QED BY <1>0, <2>0, <2>2, <2>4, <2>5, <2>6, CleanBegun
<1>9. CASE Finish
  <2>1. /\ proc.pc \in {"done", "failed"} /\ UNCHANGED <<scenario, head, dev, dm, before>> /\ proc'.pc = "idle"
        /\ scenario # "encrypt" => file' = file
    BY <1>9, ConstantFacts DEF Finish, Fixed, Ends, Temp
  <2> QED BY <1>0, <2>1, CleanBegun
<1>10. CASE reencrypt_repair_by_passphrase
  <2>1. proc.pc = "repair" /\ scenario' = scenario /\ before' = before /\ dm' = dm /\ last' = last
    BY <1>10 DEF reencrypt_repair_by_passphrase, HdrWrite, Goto, Fixed
  <2>2. scenario = "legacy" /\ (last' = "failed" => proc'.pc = "idle")
    BY <1>0, <2>1 DEF FlowInv, PlaceInv, CleanBase
  <2> QED BY <1>0, <2>1, <2>2, CleanLegacy
<1>11. CASE Kill
  BY <1>11, CleanKill
<1>12. CASE luksHeaderRestore
  <2>1. /\ scenario' = "decrypt" /\ file' = Absent /\ ~dm'.susp /\ proc'.pc = "idle" /\ last' = "restored"
    BY <1>12, ConstantFacts DEF luksHeaderRestore
  <2>2. CleanDecrypt'
    BY <2>1 DEF CleanDecrypt, DecryptPcs
  <2> QED BY <2>1, <2>2, CleanDecryptStep
<1> QED
  BY <1>1, <1>2, <1>3, <1>4, <1>5, <1>6, <1>7, <1>8, <1>9, <1>10, <1>11, <1>12 DEF Next

(* A command that failed and was not killed, and in which every error path got
   its way, leaves the head of the device, the header, the exported file and the
   active mapping as it found them, unless the reencryption has started: the
   error labels of encrypt_luks2_init, decrypt_luks2_datashift_init,
   reencrypt_decrypt_with_datashift_init and reencrypt_luks2_init undo what
   comes before them, from every place that jumps to them. *)
THEOREM FailureIsClean == Spec => []CleanFailure
<1>1. Spec => []CleanInv
  BY CleanInit, CleanNext, FlowInvariant, KeyslotsInvariant, PTL DEF Spec
<1>2. CleanInv => CleanFailure
  BY DEF CleanInv
<1> QED
  BY <1>1, <1>2, PTL

==============================================================================
