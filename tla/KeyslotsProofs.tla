--------------------------- MODULE KeyslotsProofs ---------------------------
(********************************************************************************)
(* Proofs about Keyslots: every property its run checks, for any number of      *)
(* contexts, slots, digests, tokens, passphrases and volume keys.               *)
(*                                                                              *)
(* The argument has six invariants, each resting on those before it.            *)
(*   DocInv      documents on disk and in memory are well formed, and the plan  *)
(*               of a busy context fits the context's own document;             *)
(*   SaltInv     a salt is drawn once and names one area for ever, so what is   *)
(*               in an area under a revoked salt is gone with the wipe;         *)
(*   SyncInv     a context at the sequence id of the disk has the document of   *)
(*               the disk, unless its last header write failed (failed);        *)
(*   PromiseInv  until such a context passes the check (overrun), what was      *)
(*               promised opens, and so it does after the plan of any context   *)
(*               that would pass: a plan is made from what the context read,    *)
(*               and nobody else has written since; of two contexts in the      *)
(*               middle of a change at most one passes;                         *)
(*   LastInv     without a confirmation and without a fault, every keyslot      *)
(*               opens and one of them opens the data, and every plan that      *)
(*               would pass leaves such a one;                                  *)
(*   ReqInv      on a device with requirements a context only removes keyslots. *)
(********************************************************************************)
EXTENDS Keyslots, FiniteSetTheorems, NaturalsInduction, TLAPS

------------------------------------------------------------------------------
\* Well-formed documents.

Pairs == Pass \X VolumeKeys
DigestIds == 0..(DIGEST_MAX - 1)
TokenIds == 0..(TOKENS_MAX - 1)
KsRec == [off : Nat, len : {1, 2}, salt : Nat \ {0}, prio : Int, type : {"luks2"}]
DigRec == [key : VolumeKeys, keyslots : SUBSET Slots, segments : SUBSET {0}]
TokRec == [pass : Pass, reply : {0}, keyslots : SUBSET Slots]
Segments == LUKS2_generate_hdr(VK).segments
IsMap(f, D, R) == DOMAIN f \in SUBSET D /\ f \in [DOMAIN f -> R]
MkDoc(ks, ds, ts, reqs) ==
  [keyslots |-> ks, digests |-> ds, tokens |-> ts, requirements |-> reqs, segments |-> Segments]
IsDoc(doc) ==
  /\ doc = MkDoc(doc.keyslots, doc.digests, doc.tokens, doc.requirements)
  /\ IsMap(doc.keyslots, Slots, KsRec)
  /\ IsMap(doc.digests, DigestIds, DigRec)
  /\ IsMap(doc.tokens, TokenIds, TokRec)
  /\ doc.requirements \in {{}, {"online-reencrypt-v9"}}

TokensClosed(doc) == \A t \in DOMAIN doc.tokens : doc.tokens[t].keyslots \subseteq DOMAIN doc.keyslots
DigestsClosed(doc) == \A d \in DOMAIN doc.digests : doc.digests[d].keyslots \subseteq DOMAIN doc.keyslots
InDigest(doc, s, d) == d \in DOMAIN doc.digests /\ s \in doc.digests[d].keyslots
HasData(doc, d) == d \in DOMAIN doc.digests /\ 0 \in doc.digests[d].segments
OneDigest(doc) ==
  \A s \in DOMAIN doc.keyslots : \E d \in DigestIds :
    InDigest(doc, s, d) /\ \A e \in DigestIds : InDigest(doc, s, e) => e = d
OneData(doc) == \E d \in DigestIds : HasData(doc, d) /\ \A e \in DigestIds : HasData(doc, e) => e = d
Inside(k) == MinOffset <= k.off /\ k.off + k.len <= MaxOffset
Apart(k, l) == k.off + k.len <= l.off \/ l.off + l.len <= k.off
AreasApart(doc) ==
  /\ \A s \in DOMAIN doc.keyslots : Inside(doc.keyslots[s])
  /\ \A s, t \in DOMAIN doc.keyslots : s # t => Apart(doc.keyslots[s], doc.keyslots[t])
WF(doc) ==
  /\ IsDoc(doc)
  /\ TokensClosed(doc) /\ DigestsClosed(doc) /\ OneDigest(doc) /\ OneData(doc) /\ AreasApart(doc)
------------------------------------------------------------------------------
\* The plans a busy context can have, relative to its own document.

NewSlot(doc, s, key, d) ==
  /\ s \in Slots \ DOMAIN doc.keyslots
  /\ LUKS2_find_area_gap(doc, KeyLength(key)) >= 0
  /\ d \in DigestIds
  /\ d \in DOMAIN doc.digests => doc.digests[d].key = key
  /\ d \notin DOMAIN doc.digests => d = LowestFree(doc.digests, DIGEST_MAX)

Holding(doc, s, key, d) == s \in DOMAIN doc.keyslots /\ InDigest(doc, s, d) /\ doc.digests[d].key = key

PlanAdd(doc, plan) ==
  \E s \in Slots, pass \in Pass, key \in VolumeKeys, d \in DigestIds, tok \in TokenIds \cup {ANY_TOKEN} :
    /\ NewSlot(doc, s, key, d)
    /\ plan = <<StoreStep(s, pass, key, d, tok, ANY_SLOT, {}, {}, {{<<pass, key>>}})>>
PlanChange1(doc, plan) ==
  \E f \in Slots, r \in DOMAIN doc.keyslots, old \in Pass, new \in Pass, key \in VolumeKeys, d \in DOMAIN doc.digests :
    /\ NewSlot(doc, f, key, d) /\ Holding(doc, r, key, d)
    /\ plan = <<StoreStep(f, new, key, d, ANY_TOKEN, r, {<<old, key>>}, {<<old, key>>, <<new, key>>}, {}),
                WipeStep(f, FALSE, r, {<<old, key>>}, {<<new, key>>}, {SaltOf(doc, r)})>>
PlanChange2(doc, plan) ==
  \E f, r \in DOMAIN doc.keyslots, old \in Pass, new \in Pass, key \in VolumeKeys, d \in DOMAIN doc.digests :
    /\ f # r /\ Holding(doc, f, key, d) /\ Holding(doc, r, key, d)
    /\ plan = <<WipeStep(f, FALSE, r, {<<old, key>>}, {<<new, key>>}, {SaltOf(doc, r)})>>
PlanInPlace1(doc, plan) ==
  \E r \in DOMAIN doc.keyslots, old \in Pass, new \in Pass, key \in VolumeKeys, d \in DOMAIN doc.digests :
    /\ Holding(doc, r, key, d)
    /\ plan = <<WipeStep(r, TRUE, ANY_SLOT, {<<old, key>>}, {}, {}),
                StoreStep(r, new, key, d, ANY_TOKEN, ANY_SLOT, {}, {}, {{<<new, key>>}})>>
PlanInPlace2(doc, plan) ==
  \E r \in DOMAIN doc.keyslots, new \in Pass, key \in VolumeKeys, d \in DOMAIN doc.digests :
    /\ Holding(doc, r, key, d)
    /\ plan = <<StoreStep(r, new, key, d, ANY_TOKEN, ANY_SLOT, {}, {}, {{<<new, key>>}})>>
DestroySteps ==
  [do : {"wipe"}, slot : Slots, only : {FALSE}, swap : {ANY_SLOT}, drop : SUBSET Pairs,
   into : {{}}, gain : {{}}, revoke : SUBSET Nat]
PlanDestroy(doc, plan) ==
  /\ plan \in Seq(DestroySteps) /\ plan # << >>
  /\ \A i \in 1..Len(plan) : plan[i].slot \in DOMAIN doc.keyslots /\ plan[i].revoke = {SaltOf(doc, plan[i].slot)}
  /\ \A i, j \in 1..Len(plan) : i # j => plan[i].slot # plan[j].slot
SetKeyOK(doc, st) == \E d \in DOMAIN doc.digests : doc.digests[d].keyslots # {} /\ st = SetKeyStep(d)
TokenStepOK(doc, st) ==
  \/ \E t \in TokenIds, pass \in Pass : st = TokenStep(t, {[pass |-> pass, reply |-> 0, keyslots |-> {}]})
  \/ \E t \in TokenIds : st = TokenStep(t, {})
  \/ \E t \in TokenIds, s \in DOMAIN doc.keyslots : st = AssignStep(t, s, TRUE)
  \/ \E t \in TokenIds, s \in Slots : st = AssignStep(t, s, FALSE)
  \/ \E s \in DOMAIN doc.keyslots, prio \in {PRIO_IGNORE, PRIO_NORMAL, PRIO_PREFER} : st = PriorityStep(s, prio)
PlanHeader(doc, plan) ==
  \/ plan = <<plan[1]>> /\ (SetKeyOK(doc, plan[1]) \/ TokenStepOK(doc, plan[1]))
  \/ plan = <<plan[1], plan[2]>> /\ TokenStepOK(doc, plan[1]) /\ TokenStepOK(doc, plan[2])
PlanOK(doc, plan) ==
  \/ PlanAdd(doc, plan) \/ PlanChange1(doc, plan) \/ PlanChange2(doc, plan)
  \/ PlanInPlace1(doc, plan) \/ PlanInPlace2(doc, plan)
  \/ PlanDestroy(doc, plan) \/ PlanHeader(doc, plan)

Live(p) == ctx[p].st # "none"
Busy(p) == ctx[p].st = "busy"
AreaRec == [salt : Nat, pass : Pass \cup {"none"}, key : VolumeKeys \cup {NoKey}, part : Int, of : Nat]
DocInv ==
  /\ WF(disk.doc) /\ disk.seq \in Nat /\ disk = [doc |-> disk.doc, seq |-> disk.seq]
  /\ areas \in [Units -> AreaRec] /\ salts \in Nat
  /\ DOMAIN ctx = Procs
  /\ \A p \in Procs :
       /\ ctx[p].st \in {"none", "idle", "busy"} /\ ctx[p].seq \in Nat
       /\ Live(p) => WF(ctx[p].doc)
       /\ Busy(p) => PlanOK(ctx[p].doc, ctx[p].plan)
  /\ keep \subseteq SUBSET Pairs
  /\ forced \in BOOLEAN /\ overrun \in BOOLEAN /\ failed \subseteq Procs
  /\ ops \in Nat /\ faults \in Nat /\ ops + faults <= MaxEvents /\ faults <= MaxFaults
------------------------------------------------------------------------------
\* Salts.
Docs == {disk.doc} \cup {ctx[p].doc : p \in {q \in Procs : Live(q)}}
Recs == UNION {{doc.keyslots[s] : s \in DOMAIN doc.keyslots} : doc \in Docs}
SaltInv ==
  /\ \A k \in Recs : k.salt <= salts
  /\ \A k, l \in Recs : k.salt = l.salt => k.off = l.off /\ k.len = l.len
  /\ \A u \in Units : areas[u].salt <= salts
  /\ \A u \in Units : \A k \in Recs : areas[u].salt = k.salt => k.off <= u /\ u < k.off + k.len
  /\ revoked \subseteq 1..salts
  /\ RevokedIsGone
------------------------------------------------------------------------------
\* Sequence ids and promises.
SyncInv ==
  /\ \A p \in Procs : Live(p) /\ p \notin failed =>
       ctx[p].seq <= disk.seq /\ (ctx[p].seq = disk.seq => ctx[p].doc = disk.doc)
  /\ failed # {} \/ overrun => faults > 0

Matched(p) == Busy(p) /\ p \notin failed /\ ctx[p].seq = disk.seq
Mat(ar, k, x, key) ==
  /\ \A u \in k.off..(k.off + k.len - 1) :
       ar[u].salt = k.salt /\ ar[u].pass = x /\ ar[u].part = u - k.off /\ ar[u].of = k.len
  /\ ar[k.off].key = key
Opens(doc, ar, s, pr) == s \in DOMAIN doc.keyslots /\ Mat(ar, doc.keyslots[s], pr[1], pr[2]) /\ KeyOf(doc, s) = pr[2]
Target(st) == IF st.swap = ANY_SLOT THEN st.slot ELSE st.swap
\* What a plan relies on: it takes away no more than it says, it stores only
\* where nothing opens, and what it puts in place of a promise opens already.
KeepsPlan(doc, ar, kp, plan) ==
  /\ \A i \in DOMAIN plan : plan[i].do = "wipe" =>
       \A pr \in Pairs : Opens(doc, ar, Target(plan[i]), pr) => pr \in plan[i].drop
  /\ plan[1].do = "store" /\ plan[1].slot \in DOMAIN doc.keyslots =>
       \A pr \in Pairs : ~Opens(doc, ar, plan[1].slot, pr)
  /\ plan[1].do = "wipe" =>
       \A pr \in plan[1].into : pr \in UNION kp => Opens(doc, ar, plan[1].slot, pr)
Swapping(p) == Head(ctx[p].plan).do = "wipe" /\ Head(ctx[p].plan).swap # ANY_SLOT
OpensSome(doc, ar, pr) == \E s \in DOMAIN doc.keyslots : Opens(doc, ar, s, pr)
Promises(doc, ar, kp) == \A S \in kp : S # {} /\ \A pr \in S : OpensSome(doc, ar, pr)
PromiseInv ==
  ~overrun =>
    /\ Promises(disk.doc, areas, keep)
    /\ \A p \in Procs : Matched(p) => KeepsPlan(disk.doc, areas, keep, ctx[p].plan)
    /\ \A p, q \in Procs : Matched(p) /\ Matched(q) /\ Swapping(p) /\ Swapping(q) => p = q
------------------------------------------------------------------------------
\* The last keyslot.
Bound(doc, s) == s \in DOMAIN doc.keyslots /\ \E d \in DigestIds : InDigest(doc, s, d) /\ HasData(doc, d)
LastInv ==
  ~forced /\ faults = 0 =>
    /\ \A s \in DOMAIN disk.doc.keyslots : \E pr \in Pairs : Opens(disk.doc, areas, s, pr)
    /\ \E s \in Slots : Bound(disk.doc, s)
    /\ \A p \in Procs : Matched(p) => \A i \in DOMAIN ctx[p].plan :
         LET st == ctx[p].plan[i] IN
         /\ st.do = "wipe" => ~st.only
         /\ st.do = "wipe" /\ st.swap = ANY_SLOT => Len(ctx[p].plan) = 1 /\ \E s \in Slots \ {st.slot} : Bound(disk.doc, s)
         /\ i = 1 /\ st.do = "store" => st.slot \notin DOMAIN disk.doc.keyslots
------------------------------------------------------------------------------
\* Documents as records.

LEMMA MkDocFields ==
  ASSUME NEW ks, NEW ds, NEW ts, NEW rs
  PROVE  /\ MkDoc(ks, ds, ts, rs).keyslots = ks
         /\ MkDoc(ks, ds, ts, rs).digests = ds
         /\ MkDoc(ks, ds, ts, rs).tokens = ts
         /\ MkDoc(ks, ds, ts, rs).requirements = rs
         /\ MkDoc(ks, ds, ts, rs).segments = Segments
  BY DEF MkDoc

\* An update of one field of a document, as a document built from its fields.
LEMMA DocExcept ==
  ASSUME NEW doc, IsDoc(doc), NEW X
  PROVE  /\ [doc EXCEPT !.keyslots = X] = MkDoc(X, doc.digests, doc.tokens, doc.requirements)
         /\ [doc EXCEPT !.digests = X] = MkDoc(doc.keyslots, X, doc.tokens, doc.requirements)
         /\ [doc EXCEPT !.tokens = X] = MkDoc(doc.keyslots, doc.digests, X, doc.requirements)
         /\ [doc EXCEPT !.requirements = X] = MkDoc(doc.keyslots, doc.digests, doc.tokens, X)
  <1>1. doc \in [keyslots : {doc.keyslots}, digests : {doc.digests}, tokens : {doc.tokens},
                 requirements : {doc.requirements}, segments : {Segments}]
    BY DEF IsDoc, MkDoc
  <1>2. QED
    BY <1>1 DEF MkDoc

Fields(r, ks, ds, ts, rs) ==
  IsDoc(r) /\ r.keyslots = ks /\ r.digests = ds /\ r.tokens = ts /\ r.requirements = rs
IsReqs(rs) == rs \in {{}, {"online-reencrypt-v9"}}

\* A document built from well-typed fields is one, with those fields.
LEMMA MkDocIs ==
  ASSUME NEW ks, NEW ds, NEW ts, NEW rs,
         IsMap(ks, Slots, KsRec), IsMap(ds, DigestIds, DigRec), IsMap(ts, TokenIds, TokRec), IsReqs(rs)
  PROVE  Fields(MkDoc(ks, ds, ts, rs), ks, ds, ts, rs)
  <1> DEFINE m == MkDoc(ks, ds, ts, rs)
  <1>1. m.keyslots = ks /\ m.digests = ds /\ m.tokens = ts /\ m.requirements = rs
    BY MkDocFields
  <1>2. m = MkDoc(ks, ds, ts, rs)
    OBVIOUS
  <1> HIDE DEF m
  <1>3. m = MkDoc(m.keyslots, m.digests, m.tokens, m.requirements)
    BY <1>1, <1>2
  <1>4. Fields(m, ks, ds, ts, rs)
    BY <1>1, <1>3 DEF Fields, IsDoc, IsReqs
  <1>5. QED BY <1>4 DEF m

\* The fields of a document have their types.
LEMMA DocFields ==
  ASSUME NEW doc, IsDoc(doc)
  PROVE  /\ IsMap(doc.keyslots, Slots, KsRec) /\ IsMap(doc.digests, DigestIds, DigRec)
         /\ IsMap(doc.tokens, TokenIds, TokRec) /\ IsReqs(doc.requirements)
         /\ doc.segments = Segments
  <1>1. doc.segments = Segments
    <2>1. MkDoc(doc.keyslots, doc.digests, doc.tokens, doc.requirements).segments = Segments
      BY MkDocFields
    <2>2. QED BY <2>1 DEF IsDoc
  <1>2. QED
    BY <1>1, Zenon DEF IsDoc, IsReqs

\* One field replaced.
LEMMA Replaced ==
  ASSUME NEW doc, IsDoc(doc), NEW X
  PROVE  /\ IsMap(X, Slots, KsRec) =>
              Fields([doc EXCEPT !.keyslots = X], X, doc.digests, doc.tokens, doc.requirements)
         /\ IsMap(X, DigestIds, DigRec) =>
              Fields([doc EXCEPT !.digests = X], doc.keyslots, X, doc.tokens, doc.requirements)
         /\ IsMap(X, TokenIds, TokRec) =>
              Fields([doc EXCEPT !.tokens = X], doc.keyslots, doc.digests, X, doc.requirements)
         /\ IsReqs(X) =>
              Fields([doc EXCEPT !.requirements = X], doc.keyslots, doc.digests, doc.tokens, X)
  <1>1. /\ IsMap(doc.keyslots, Slots, KsRec) /\ IsMap(doc.digests, DigestIds, DigRec)
        /\ IsMap(doc.tokens, TokenIds, TokRec) /\ IsReqs(doc.requirements)
    BY DocFields
  <1>2. ASSUME IsMap(X, Slots, KsRec)
        PROVE  Fields([doc EXCEPT !.keyslots = X], X, doc.digests, doc.tokens, doc.requirements)
    <2>1. Fields(MkDoc(X, doc.digests, doc.tokens, doc.requirements), X, doc.digests, doc.tokens, doc.requirements)
      BY <1>1, <1>2, MkDocIs
    <2>2. [doc EXCEPT !.keyslots = X] = MkDoc(X, doc.digests, doc.tokens, doc.requirements)
      BY DocExcept
    <2>3. QED BY <2>1, <2>2, Zenon
  <1>3. ASSUME IsMap(X, DigestIds, DigRec)
        PROVE  Fields([doc EXCEPT !.digests = X], doc.keyslots, X, doc.tokens, doc.requirements)
    <2>1. Fields(MkDoc(doc.keyslots, X, doc.tokens, doc.requirements), doc.keyslots, X, doc.tokens, doc.requirements)
      BY <1>1, <1>3, MkDocIs
    <2>2. [doc EXCEPT !.digests = X] = MkDoc(doc.keyslots, X, doc.tokens, doc.requirements)
      BY DocExcept
    <2>3. QED BY <2>1, <2>2, Zenon
  <1>4. ASSUME IsMap(X, TokenIds, TokRec)
        PROVE  Fields([doc EXCEPT !.tokens = X], doc.keyslots, doc.digests, X, doc.requirements)
    <2>1. Fields(MkDoc(doc.keyslots, doc.digests, X, doc.requirements), doc.keyslots, doc.digests, X, doc.requirements)
      BY <1>1, <1>4, MkDocIs
    <2>2. [doc EXCEPT !.tokens = X] = MkDoc(doc.keyslots, doc.digests, X, doc.requirements)
      BY DocExcept
    <2>3. QED BY <2>1, <2>2, Zenon
  <1>5. ASSUME IsReqs(X)
        PROVE  Fields([doc EXCEPT !.requirements = X], doc.keyslots, doc.digests, doc.tokens, X)
    <2>1. Fields(MkDoc(doc.keyslots, doc.digests, doc.tokens, X), doc.keyslots, doc.digests, doc.tokens, X)
      BY <1>1, <1>5, MkDocIs
    <2>2. [doc EXCEPT !.requirements = X] = MkDoc(doc.keyslots, doc.digests, doc.tokens, X)
      BY DocExcept
    <2>3. QED BY <2>1, <2>2, Zenon
  <1>6. QED
    BY <1>2, <1>3, <1>4, <1>5, Zenon

\* What With changes of a map, and what it leaves alone.
LEMMA WithMap ==
  ASSUME NEW f, NEW D, NEW R, IsMap(f, D, R), NEW x \in D, NEW v \in R
  PROVE  /\ IsMap(With(f, x, v), D, R)
         /\ DOMAIN With(f, x, v) = DOMAIN f \cup {x}
         /\ With(f, x, v)[x] = v
         /\ \A y \in DOMAIN f : y # x => With(f, x, v)[y] = f[y]
  BY DEF IsMap, With

\* What Without removes from a map, and what it leaves alone.
LEMMA WithoutMap ==
  ASSUME NEW f, NEW D, NEW R, IsMap(f, D, R), NEW x
  PROVE  /\ IsMap(Without(f, x), D, R)
         /\ DOMAIN Without(f, x) = DOMAIN f \ {x}
         /\ \A y \in DOMAIN f \ {x} : Without(f, x)[y] = f[y]
  BY DEF IsMap, Without

\* A nonempty set of naturals has a least element.
LEMMA MinimumExists ==
  ASSUME NEW S, S \subseteq Nat, S # {}
  PROVE  \E x \in S : \A y \in S : x <= y
  <1> DEFINE R == {ss \in Nat \X Nat : ss[1] < ss[2]}
  <1>1. IsWellFoundedOn(R, Nat)
    BY NatLessThanWellFounded, Zenon DEF OpToRel
  <1>2. PICK x \in S : \A y \in S : ~(<<y, x>> \in R)
    <2> HIDE DEF R
    <2> QED BY <1>1, WFMin
  <1>3. \A y \in S : x <= y
    <2> TAKE y \in S
    <2>1. x \in Nat /\ y \in Nat /\ <<y, x>> \in Nat \X Nat
      OBVIOUS
    <2>2. ~(y < x)
      BY <1>2, <2>1
    <2> QED BY <2>1, <2>2
  <1>4. QED BY <1>3

\* The lowest free number is free and in range, or the answer is an error.
LEMMA LowestFreeFact ==
  ASSUME NEW f, NEW max \in Nat
  PROVE  /\ LowestFree(f, max) < 0 => LowestFree(f, max) = EINVAL
         /\ LowestFree(f, max) \in Int
         /\ LowestFree(f, max) >= 0 => LowestFree(f, max) \in (0..(max - 1)) \ DOMAIN f
  <1> DEFINE free == {i \in 0..(max - 1) : i \notin DOMAIN f}
  <1>1. CASE free = {}
    <2>1. LowestFree(f, max) = EINVAL
      BY <1>1, Zenon DEF LowestFree
    <2>2. QED BY <2>1 DEF EINVAL
  <1>2. CASE free # {}
    <2>0. free \subseteq Nat
      OBVIOUS
    <2>1. \E m \in free : \A j \in free : m <= j
      BY <1>2, <2>0, MinimumExists, Zenon
    <2>2. LowestFree(f, max) = CHOOSE i \in free : \A j \in free : i <= j
      BY <1>2, Zenon DEF LowestFree
    <2>3. LowestFree(f, max) \in free
      BY <2>1, <2>2, Zenon
    <2>4. QED BY <2>3 DEF EINVAL
  <1>3. QED BY <1>1, <1>2

------------------------------------------------------------------------------
\* The changes of a document in memory.

DigestsAssign(ds, s, d, assign) ==
  [e \in DOMAIN ds |->
     IF d \in {e, ANY_DIGEST}
       THEN [ds[e] EXCEPT !.keyslots = IF assign THEN @ \cup {s} ELSE @ \ {s}] ELSE ds[e]]
DigestsSegment(ds, seg, d, assign) ==
  [e \in DOMAIN ds |->
     IF d \in {e, ANY_DIGEST}
       THEN [ds[e] EXCEPT !.segments = IF assign THEN @ \cup {seg} ELSE @ \ {seg}] ELSE ds[e]]
DigestsUsed(ds) == Restrict(ds, {d \in DOMAIN ds : ~digest_unused(ds[d])})
TokensAssign(ts, s, t, assign) ==
  [u \in DOMAIN ts |->
     IF t \in {u, ANY_TOKEN}
       THEN [ts[u] EXCEPT !.keyslots = IF assign THEN @ \cup {s} ELSE @ \ {s}] ELSE ts[u]]

\* b is a with keyslot s also in digest d.
DigestsJoined(a, b, s, d) ==
  /\ IsMap(b, DigestIds, DigRec) /\ DOMAIN b = DOMAIN a
  /\ \A e \in DOMAIN a :
       /\ b[e].key = a[e].key /\ b[e].segments = a[e].segments
       /\ e # d => b[e].keyslots = a[e].keyslots
       /\ e = d => b[e].keyslots = a[e].keyslots \cup {s}

\* Assigning a keyslot to a digest changes that digest's keyslots alone.
LEMMA DigestsAssignFact ==
  ASSUME NEW a, IsMap(a, DigestIds, DigRec), NEW s \in Slots, NEW d \in DigestIds
  PROVE  DigestsJoined(a, DigestsAssign(a, s, d, TRUE), s, d)
  BY DEF IsMap, DigestsAssign, DigRec, DigestIds, ANY_DIGEST, DigestsJoined

\* b is a with the data in digest d alone.
DigestsMoved(a, b, d) ==
  /\ IsMap(b, DigestIds, DigRec) /\ DOMAIN b = DOMAIN a
  /\ \A e \in DOMAIN a :
       b[e].key = a[e].key /\ b[e].keyslots = a[e].keyslots /\ b[e].segments = IF e = d THEN {0} ELSE {}

\* Moving the data segment to digest d leaves it in d alone (crypt_volume_key_set).
LEMMA DigestsSegmentFact ==
  ASSUME NEW ds, IsMap(ds, DigestIds, DigRec), NEW d \in DOMAIN ds
  PROVE  /\ IsMap(DigestsSegment(ds, 0, ANY_DIGEST, FALSE), DigestIds, DigRec)
         /\ DigestsMoved(ds, DigestsSegment(DigestsSegment(ds, 0, ANY_DIGEST, FALSE), 0, d, TRUE), d)
  <1> DEFINE c == DigestsSegment(ds, 0, ANY_DIGEST, FALSE)
  <1>1. /\ IsMap(c, DigestIds, DigRec) /\ DOMAIN c = DOMAIN ds
        /\ \A e \in DOMAIN ds : c[e].key = ds[e].key /\ c[e].keyslots = ds[e].keyslots /\ c[e].segments = {}
    BY DEF IsMap, DigestsSegment, DigRec, DigestIds, ANY_DIGEST
  <1> DEFINE b == DigestsSegment(c, 0, d, TRUE)
  <1> HIDE DEF c, b
  <1>2. b = DigestsSegment(c, 0, d, TRUE)
    BY DEF b
  <1>3. d \in DigestIds
    BY DEF IsMap
  <1>4. /\ IsMap(b, DigestIds, DigRec) /\ DOMAIN b = DOMAIN c
        /\ \A e \in DOMAIN c :
             /\ b[e].key = c[e].key /\ b[e].keyslots = c[e].keyslots
             /\ b[e].segments = IF e = d THEN c[e].segments \cup {0} ELSE c[e].segments
    <2>0. d # ANY_DIGEST
      BY <1>3, LimitsAssumption DEF DigestIds, ANY_DIGEST
    <2>1. DOMAIN b = DOMAIN c
      BY <1>2 DEF DigestsSegment
    <2>2. \A e \in DOMAIN c : c[e] \in DigRec
      BY <1>1 DEF IsMap
    <2>3. \A e \in DOMAIN c : b[e] = IF e = d THEN [c[e] EXCEPT !.segments = @ \cup {0}] ELSE c[e]
      BY <1>2, <2>0 DEF DigestsSegment
    <2>4. \A x \in DigRec : LET y == [x EXCEPT !.segments = @ \cup {0}] IN
            y \in DigRec /\ y.key = x.key /\ y.keyslots = x.keyslots /\ y.segments = x.segments \cup {0}
      BY DEF DigRec
    <2>5. \A e \in DOMAIN c :
            /\ b[e] \in DigRec /\ b[e].key = c[e].key /\ b[e].keyslots = c[e].keyslots
            /\ b[e].segments = IF e = d THEN c[e].segments \cup {0} ELSE c[e].segments
      BY <2>2, <2>3, <2>4
    <2>6. b = [e \in DOMAIN b |-> b[e]]
      BY <1>2, <2>1 DEF DigestsSegment
    <2>7. IsMap(b, DigestIds, DigRec)
      BY <1>1, <2>1, <2>5, <2>6 DEF IsMap
    <2>8. QED BY <2>1, <2>5, <2>7
  <1>5. DigestsMoved(ds, b, d)
    BY <1>1, <1>4 DEF DigestsMoved
  <1>6. QED BY <1>1, <1>5 DEF b, c

\* What LUKS2_digests_erase_unused keeps of the digests.
LEMMA DigestsUsedFact ==
  ASSUME NEW ds, IsMap(ds, DigestIds, DigRec)
  PROVE  /\ IsMap(DigestsUsed(ds), DigestIds, DigRec)
         /\ DOMAIN DigestsUsed(ds) = {d \in DOMAIN ds : ds[d].keyslots # {} \/ ds[d].segments # {}}
         /\ \A e \in DOMAIN DigestsUsed(ds) : DigestsUsed(ds)[e] = ds[e]
  BY DEF IsMap, DigestsUsed, Restrict, digest_unused

\* A gap that was found is free and inside the keyslots area.
LEMMA GapFact ==
  ASSUME NEW doc, IsDoc(doc), AreasApart(doc), NEW len \in {1, 2}, LUKS2_find_area_gap(doc, len) >= 0
  PROVE  /\ LUKS2_find_area_gap(doc, len) \in Nat
         /\ MinOffset <= LUKS2_find_area_gap(doc, len) /\ LUKS2_find_area_gap(doc, len) + len <= MaxOffset
         /\ \A s \in DOMAIN doc.keyslots :
              \/ LUKS2_find_area_gap(doc, len) + len <= doc.keyslots[s].off
              \/ doc.keyslots[s].off + doc.keyslots[s].len <= LUKS2_find_area_gap(doc, len)
  <1> DEFINE ks == doc.keyslots
             ends == {ks[s].off + ks[s].len : s \in DOMAIN ks}
             fits == {o \in {MinOffset} \cup ends :
                        /\ o + len <= MaxOffset
                        /\ \A s \in DOMAIN ks : o + len <= ks[s].off \/ ks[s].off + ks[s].len <= o}
             g == LUKS2_find_area_gap(doc, len)
  <1>1. g = IF fits = {} THEN EINVAL ELSE CHOOSE o \in fits : \A x \in fits : o <= x
    BY Zenon DEF LUKS2_find_area_gap
  <1>2. fits # {}
    BY <1>1 DEF EINVAL
  <1>3. \A s \in DOMAIN ks : ks[s].off \in Nat /\ ks[s].len \in {1, 2} /\ MinOffset <= ks[s].off
    BY DocFields DEF IsMap, KsRec, AreasApart, Inside
  <1>4. \A o \in {MinOffset} \cup ends : o \in Nat /\ MinOffset <= o
    BY <1>3, LimitsAssumption
  <1>5. fits \subseteq Nat
    BY <1>4
  <1>6. \E o \in fits : \A x \in fits : o <= x
    BY <1>2, <1>5, MinimumExists, Zenon
  <1>7. g \in fits
    BY <1>1, <1>2, <1>6, Zenon
  <1>8. QED
    BY <1>4, <1>7

\* The gap depends on the keyslots of a document alone.
LEMMA GapSame ==
  ASSUME NEW a, NEW b, a.keyslots = b.keyslots, NEW len
  PROVE  LUKS2_find_area_gap(a, len) = LUKS2_find_area_gap(b, len)
  <1> DEFINE Fits(ks) == {o \in {MinOffset} \cup {ks[s].off + ks[s].len : s \in DOMAIN ks} :
                 /\ o + len <= MaxOffset
                 /\ \A s \in DOMAIN ks : o + len <= ks[s].off \/ ks[s].off + ks[s].len <= o}
             Gap(ks) == IF Fits(ks) = {} THEN EINVAL ELSE CHOOSE o \in Fits(ks) : \A x \in Fits(ks) : o <= x
  <1>1. LUKS2_find_area_gap(a, len) = Gap(a.keyslots)
    BY Zenon DEF LUKS2_find_area_gap
  <1>2. LUKS2_find_area_gap(b, len) = Gap(b.keyslots)
    BY Zenon DEF LUKS2_find_area_gap
  <1> HIDE DEF Gap
  <1>3. QED BY <1>1, <1>2

\* The digest of a keyslot, and of the data.
LEMMA ByKeyslot ==
  ASSUME NEW doc, IsDoc(doc), NEW s, NEW d \in DigestIds,
         InDigest(doc, s, d), \A e \in DigestIds : InDigest(doc, s, e) => e = d
  PROVE  LUKS2_digest_by_keyslot(doc, s) = d
  <1> DEFINE ds == {e \in DOMAIN doc.digests : s \in doc.digests[e].keyslots}
  <1>1. DOMAIN doc.digests \subseteq DigestIds
    BY DocFields DEF IsMap
  <1>2. ds = {d}
    BY <1>1 DEF InDigest
  <1>3. LUKS2_digest_by_keyslot(doc, s) = CHOOSE e \in ds : TRUE
    BY <1>2, Zenon DEF LUKS2_digest_by_keyslot
  <1>4. QED
    BY <1>2, <1>3, Zenon

\* The one digest with the data is the one LUKS2_digest_by_segment returns.
LEMMA BySegment ==
  ASSUME NEW doc, IsDoc(doc), NEW d \in DigestIds,
         HasData(doc, d), \A e \in DigestIds : HasData(doc, e) => e = d
  PROVE  LUKS2_digest_by_segment(doc, 0) = d
  <1> DEFINE ds == {e \in DOMAIN doc.digests : 0 \in doc.digests[e].segments}
  <1>1. DOMAIN doc.digests \subseteq DigestIds
    BY DocFields DEF IsMap
  <1>2. ds = {d}
    BY <1>1 DEF HasData
  <1>3. LUKS2_digest_by_segment(doc, 0) = CHOOSE e \in ds : TRUE
    BY <1>2, Zenon DEF LUKS2_digest_by_segment
  <1>4. QED
    BY <1>2, <1>3, Zenon

\* The one digest of a keyslot is the one LUKS2_digest_by_keyslot returns.
LEMMA KeyOfSlot ==
  ASSUME NEW doc, IsDoc(doc), OneDigest(doc), NEW s \in DOMAIN doc.keyslots
  PROVE  /\ InDigest(doc, s, LUKS2_digest_by_keyslot(doc, s))
         /\ LUKS2_digest_by_keyslot(doc, s) \in DigestIds
         /\ KeyOf(doc, s) \in VolumeKeys
         /\ \A d \in DigestIds : InDigest(doc, s, d) =>
              LUKS2_digest_by_keyslot(doc, s) = d /\ KeyOf(doc, s) = doc.digests[d].key
  <1>1. PICK d \in DigestIds : InDigest(doc, s, d) /\ \A e \in DigestIds : InDigest(doc, s, e) => e = d
    BY DEF OneDigest
  <1>2. LUKS2_digest_by_keyslot(doc, s) = d
    BY <1>1, ByKeyslot
  <1>3. KeyOf(doc, s) = doc.digests[d].key
    BY <1>2 DEF KeyOf
  <1>4. doc.digests[d].key \in VolumeKeys
    BY <1>1, DocFields DEF InDigest, IsMap, DigRec
  <1>5. QED
    BY <1>1, <1>2, <1>3, <1>4

------------------------------------------------------------------------------
\* A well-formed document validates.

LEMMA SegmentsFact ==
  /\ Segments = [i \in {0} |-> [off |-> MaxOffset, len |-> 0, crypt |-> TRUE, flags |-> {}, cipher |-> "data"]]
  /\ DOMAIN Segments = {0}
  /\ Segments[0].flags = {} /\ Segments[0].crypt = TRUE
  /\ Segments[0].off = MaxOffset /\ Segments[0].len = 0
  BY DEF Segments, LUKS2_generate_hdr

\* Every document here has one segment, the default one.
LEMMA SegmentCount ==
  ASSUME NEW doc, IsDoc(doc)
  PROVE  json_segments_count(doc) = 1 /\ LUKS2_get_default_segment(doc) = 0
  <1>1. doc.segments = Segments
    BY DocFields
  <1>2. {i \in DOMAIN doc.segments : ~json_segment_is_backup(doc.segments[i])} = {0}
    BY <1>1, SegmentsFact DEF json_segment_is_backup
  <1>3. json_segments_count(doc) = 1
    BY <1>2, FS_Singleton DEF json_segments_count
  <1>4. {i \in DOMAIN doc.segments : "backup-final" \in doc.segments[i].flags} = {}
    BY <1>1, SegmentsFact
  <1>5. LUKS2_get_default_segment(doc) = IF json_segments_count(doc) >= 1 THEN 0 ELSE EINVAL
    BY <1>4, Zenon DEF LUKS2_get_default_segment
  <1>6. QED BY <1>3, <1>5

\* What the requirements of a document tell the checks of the commands.
LEMMA RequirementsFact ==
  ASSUME NEW doc, IsDoc(doc)
  PROVE  /\ "ONLINE" \notin LUKS2_config_get_requirements(doc)
         /\ hdr_validate_requirements(doc)
         /\ LUKS2_unmet_requirements(doc, {}) = 0 => doc.requirements = {}
         /\ "UNKNOWN" \in LUKS2_config_get_requirements(doc) => doc.requirements # {}
  <1>1. IsReqs(doc.requirements)
    BY DocFields
  <1>2. get_requirement_by_name("online-reencrypt-v9") = "UNKNOWN"
    BY Zenon DEF get_requirement_by_name, OnlineFlags
  <1>3. CASE doc.requirements = {}
    <2>1. LUKS2_config_get_requirements(doc) = {}
      BY <1>3 DEF LUKS2_config_get_requirements
    <2>2. {f \in doc.requirements : reencrypt_candidate_flag(f)} = {}
      BY <1>3
    <2>3. hdr_validate_requirements(doc)
      BY <2>2, FS_EmptySet DEF hdr_validate_requirements
    <2>4. QED BY <1>3, <2>1, <2>3
  <1>4. CASE doc.requirements = {"online-reencrypt-v9"}
    <2>1. LUKS2_config_get_requirements(doc) = {"UNKNOWN"}
      BY <1>2, <1>4 DEF LUKS2_config_get_requirements
    <2>2. {f \in doc.requirements : reencrypt_candidate_flag(f)} = {"online-reencrypt-v9"}
      BY <1>4 DEF reencrypt_candidate_flag
    <2>3. hdr_validate_requirements(doc)
      <3>1. Cardinality({"online-reencrypt-v9"}) = 1
        BY FS_Singleton, Zenon
      <3>2. Cardinality({f \in doc.requirements : reencrypt_candidate_flag(f)}) = 1
        BY <2>2, <3>1, Zenon
      <3>3. QED BY <3>2 DEF hdr_validate_requirements
    <2>4. LUKS2_unmet_requirements(doc, {}) = ETXTBSY
      BY <2>1, Zenon DEF LUKS2_unmet_requirements
    <2>5. QED BY <1>4, <2>1, <2>3, <2>4 DEF ETXTBSY
  <1>5. QED BY <1>1, <1>3, <1>4 DEF IsReqs

\* A well-formed document passes LUKS2_hdr_validate.
LEMMA WFValidates ==
  ASSUME NEW doc, WF(doc)
  PROVE  LUKS2_hdr_validate(doc)
  <1>1. IsDoc(doc) /\ TokensClosed(doc) /\ DigestsClosed(doc) /\ OneDigest(doc) /\ OneData(doc) /\ AreasApart(doc)
    BY DEF WF
  <1>2. doc.segments = Segments
    BY <1>1, DocFields
  <1>3. \A s \in DOMAIN doc.keyslots : doc.keyslots[s] \in KsRec
    BY <1>1, DocFields DEF IsMap
  <1>4. \A d \in DOMAIN doc.digests : d \in DigestIds /\ doc.digests[d] \in DigRec
    BY <1>1, DocFields DEF IsMap
  <1>5. hdr_validate_requirements(doc) /\ "ONLINE" \notin LUKS2_config_get_requirements(doc)
    BY <1>1, RequirementsFact
  <1>6. hdr_validate_tokens(doc)
    BY <1>1, Zenon DEF TokensClosed, hdr_validate_tokens
  <1>7. hdr_validate_digests(doc)
    BY <1>1, <1>2, <1>4, SegmentsFact DEF DigestsClosed, hdr_validate_digests, DigRec
  <1>8. hdr_validate_segments(doc)
    <2>1. json_segments_count(doc) = 1
      BY <1>1, SegmentCount
    <2>2. \A i \in DOMAIN doc.segments : hdr_validate_crypt_segment(doc, i)
      BY <1>1, <1>2, SegmentsFact DEF OneData, HasData, hdr_validate_crypt_segment, segment_has_digest
    <2>3. Cardinality(DOMAIN doc.segments) = 1
      <3>1. Cardinality({0}) = 1
        BY FS_Singleton, Zenon
      <3>2. QED BY <1>2, <3>1, SegmentsFact, Zenon
    <2>4. DOMAIN doc.segments = 0..(Cardinality(DOMAIN doc.segments) - 1)
      BY <1>2, <2>3, SegmentsFact
    <2>5. \A i \in 0..(1 - 1) : ~json_segment_is_backup(doc.segments[i])
      BY <1>2, SegmentsFact DEF json_segment_is_backup
    <2>6. validate_segment_intervals(doc, 1)
      BY DEF validate_segment_intervals
    <2>7. validate_reencrypt_segments(doc, 1)
      BY <1>5, Zenon DEF validate_reencrypt_segments
    <2>8. QED
      BY <2>1, <2>2, <2>4, <2>5, <2>6, <2>7 DEF hdr_validate_segments
  <1>9. hdr_validate_config(doc)
    BY <1>2, SegmentsFact, LimitsAssumption DEF hdr_validate_config
  <1>10. hdr_validate_areas(doc)
    BY <1>1, <1>3, LimitsAssumption DEF hdr_validate_areas, validate_intervals, AreasApart, Inside, Apart, KsRec
  <1>11. LUKS2_keyslots_validate(doc)
    <2> DEFINE reenc == {s \in DOMAIN doc.keyslots : doc.keyslots[s].type = "reencrypt"}
    <2>1. reenc = {}
      BY <1>3 DEF KsRec
    <2>2. ASSUME NEW s \in DOMAIN doc.keyslots
          PROVE  Cardinality({d \in DOMAIN doc.digests : s \in doc.digests[d].keyslots}) = 1
      <3>1. PICK d \in DigestIds : InDigest(doc, s, d) /\ \A e \in DigestIds : InDigest(doc, s, e) => e = d
        BY <1>1 DEF OneDigest
      <3>2. {e \in DOMAIN doc.digests : s \in doc.digests[e].keyslots} = {d}
        BY <1>4, <3>1 DEF InDigest
      <3>3. Cardinality({d}) = 1
        BY FS_Singleton, Zenon
      <3>4. QED BY <3>2, <3>3, Zenon
    <2>3. Cardinality(reenc) <= 1
      BY <2>1, FS_EmptySet
    <2> HIDE DEF reenc
    <2>4. LUKS2_keyslots_validate(doc) <=>
            /\ \A s \in DOMAIN doc.keyslots \ reenc :
                 Cardinality({d \in DOMAIN doc.digests : s \in doc.digests[d].keyslots}) = 1
            /\ "ONLINE" \in LUKS2_config_get_requirements(doc) => reenc # {}
            /\ reenc # {} => \E f \in doc.requirements : reencrypt_candidate_flag(f)
            /\ Cardinality(reenc) <= 1
      BY Zenon DEF LUKS2_keyslots_validate, reenc
    <2>5. QED
      BY <1>5, <2>1, <2>2, <2>3, <2>4, Zenon
  <1>12. QED
    BY <1>5, <1>6, <1>7, <1>8, <1>9, <1>10, <1>11, Zenon DEF LUKS2_hdr_validate

------------------------------------------------------------------------------
\* A keyslot stored.

\* b is a with keyslot s in digest d, which is new or holds the key.
DigestsPlus(a, b, s, d, key) ==
  /\ IsMap(b, DigestIds, DigRec)
  /\ d \in DOMAIN b /\ b[d].key = key /\ s \in b[d].keyslots
  /\ \A e \in DOMAIN b : e # d =>
       e \in DOMAIN a /\ b[e].keyslots = a[e].keyslots /\ b[e].segments = a[e].segments /\ b[e].key = a[e].key
  /\ \A e \in DOMAIN a : a[e].keyslots # {} \/ a[e].segments # {} => e \in DOMAIN b
  /\ d \in DOMAIN a => b[d].keyslots = a[d].keyslots \cup {s} /\ b[d].segments = a[d].segments
  /\ d \notin DOMAIN a => b[d].keyslots = {s} /\ b[d].segments = {}

\* A digest created for a new volume key, among the others.
LEMMA CreatedDigest ==
  ASSUME NEW a, IsMap(a, DigestIds, DigRec), NEW d \in DigestIds, NEW key \in VolumeKeys,
         NEW a0, a0 = With(a, d, [key |-> key, keyslots |-> {}, segments |-> {}])
  PROVE  /\ IsMap(a0, DigestIds, DigRec) /\ DOMAIN a0 = DOMAIN a \cup {d}
         /\ a0[d].key = key /\ a0[d].keyslots = {} /\ a0[d].segments = {}
         /\ \A e \in DOMAIN a : e # d => a0[e] = a[e]
  <1>1. [key |-> key, keyslots |-> {}, segments |-> {}] \in DigRec
    BY DEF DigRec
  <1>2. DOMAIN a0 = DOMAIN a \cup {d}
    BY DEF With
  <1>3. a0[d] = [key |-> key, keyslots |-> {}, segments |-> {}] /\ \A e \in DOMAIN a : e # d => a0[e] = a[e]
    BY DEF With
  <1>4. \A e \in DOMAIN a0 : a0[e] \in DigRec
    BY <1>1, <1>2, <1>3 DEF IsMap
  <1>5. a0 \in [DOMAIN a0 -> DigRec]
    <2>1. a0 = [e \in DOMAIN a0 |-> a0[e]]
      BY <1>2 DEF With
    <2>2. QED BY <1>4, <2>1
  <1>6. DOMAIN a0 \in SUBSET DigestIds
    BY <1>2 DEF IsMap
  <1>7. IsMap(a0, DigestIds, DigRec)
    BY <1>5, <1>6, Zenon DEF IsMap
  <1>8. QED BY <1>2, <1>3, <1>7

\* The digests after a store: the slot in its digest, the unused ones gone.
LEMMA StoreDigests ==
  ASSUME NEW a, IsMap(a, DigestIds, DigRec), NEW s \in Slots, NEW d \in DigestIds, NEW key \in VolumeKeys,
         NEW a0, IsMap(a0, DigestIds, DigRec), DOMAIN a0 = DOMAIN a \cup {d}, a0[d].key = key,
         \A e \in DOMAIN a : a0[e] = a[e],
         d \notin DOMAIN a => a0[d].keyslots = {} /\ a0[d].segments = {}
  PROVE  DigestsPlus(a, DigestsUsed(DigestsAssign(a0, s, d, TRUE)), s, d, key)
  <1> DEFINE a1 == DigestsAssign(a0, s, d, TRUE)
             b == DigestsUsed(a1)
  <1>0. d \in Int /\ d # ANY_DIGEST /\ d >= 0
    BY LimitsAssumption DEF DigestIds, ANY_DIGEST
  <1> HIDE DEF a1, b
  <1>3. /\ IsMap(a1, DigestIds, DigRec) /\ DOMAIN a1 = DOMAIN a0
        /\ \A e \in DOMAIN a0 : a1[e].key = a0[e].key /\ a1[e].segments = a0[e].segments
        /\ \A e \in DOMAIN a0 : e # d => a1[e].keyslots = a0[e].keyslots
        /\ a1[d].keyslots = a0[d].keyslots \cup {s}
    <2>1. DigestsJoined(a0, a1, s, d)
      BY DigestsAssignFact DEF a1
    <2>2. QED BY <2>1 DEF DigestsJoined
  <1>4. /\ IsMap(b, DigestIds, DigRec)
        /\ DOMAIN b = {e \in DOMAIN a1 : a1[e].keyslots # {} \/ a1[e].segments # {}}
        /\ \A e \in DOMAIN b : b[e] = a1[e]
    BY <1>3, DigestsUsedFact DEF b
  <1>5. DigestsPlus(a, b, s, d, key)
    <2>2. d \in DOMAIN b
      BY <1>3, <1>4
    <2>3. \A e \in DOMAIN a : a[e].keyslots # {} \/ a[e].segments # {} => e \in DOMAIN b
      BY <1>3, <1>4, <2>2
    <2>4. \A e \in DOMAIN b : e # d =>
            e \in DOMAIN a /\ b[e].keyslots = a[e].keyslots /\ b[e].segments = a[e].segments /\ b[e].key = a[e].key
      BY <1>3, <1>4
    <2>5. b[d].key = key /\ s \in b[d].keyslots
      BY <1>3, <1>4, <2>2
    <2>6. d \in DOMAIN a => b[d].keyslots = a[d].keyslots \cup {s} /\ b[d].segments = a[d].segments
      BY <1>3, <1>4, <2>2
    <2>7. d \notin DOMAIN a => b[d].keyslots = {s} /\ b[d].segments = {}
      BY <1>3, <1>4, <2>2
    <2>8. QED BY <1>4, <2>2, <2>3, <2>4, <2>5, <2>6, <2>7, Zenon DEF DigestsPlus
  <1>6. QED
    BY <1>5 DEF a1, b

\* b is a where some tokens got or lost keyslot s.
TokensNear(a, b, s) ==
  /\ IsMap(b, TokenIds, TokRec) /\ DOMAIN b = DOMAIN a
  /\ \A t \in DOMAIN a : a[t].keyslots \ {s} \subseteq b[t].keyslots /\ b[t].keyslots \subseteq a[t].keyslots \cup {s}

\* Copying token assignments to a keyslot touches its assignments alone.
LEMMA CopyTokens ==
  ASSUME NEW doc, IsDoc(doc), NEW from, NEW s \in Slots, NEW r, r = LUKS2_token_assignment_copy(doc, from, s)
  PROVE  /\ Fields(r, doc.keyslots, doc.digests, r.tokens, doc.requirements)
         /\ TokensNear(doc.tokens, r.tokens, s)
  <1> DEFINE ts == doc.tokens
             b == [u \in DOMAIN doc.tokens |->
                     IF LUKS2_token_is_assigned(doc, from, u) = 0
                       THEN [doc.tokens[u] EXCEPT !.keyslots = @ \cup {s}] ELSE doc.tokens[u]]
  <1>1. IsMap(ts, TokenIds, TokRec)
    BY DocFields
  <1>2. TokensNear(ts, b, s)
    BY <1>1 DEF TokensNear, IsMap, TokRec
  <1>3. r = [doc EXCEPT !.tokens = b]
    BY DEF LUKS2_token_assignment_copy
  <1> HIDE DEF b
  <1>4. Fields(r, doc.keyslots, doc.digests, b, doc.requirements)
    <2>1. IsMap(b, TokenIds, TokRec)
      BY <1>2 DEF TokensNear
    <2>2. QED BY <1>3, <2>1, Replaced, Zenon
  <1>5. QED
    BY <1>2, <1>4 DEF Fields

\* Assigning a token to a keyslot touches that keyslot's assignments alone.
LEMMA AssignTokens ==
  ASSUME NEW doc, IsDoc(doc), NEW t \in Int, NEW s \in Slots,
         NEW r, r = LUKS2_token_assign(doc, s, t, TRUE)
  PROVE  /\ Fields(r, doc.keyslots, doc.digests, r.tokens, doc.requirements)
         /\ TokensNear(doc.tokens, r.tokens, s)
  <1> DEFINE b == TokensAssign(doc.tokens, s, t, TRUE)
  <1>1. IsMap(doc.tokens, TokenIds, TokRec)
    BY DocFields
  <1>2. r = [doc EXCEPT !.tokens = b]
    BY DEF LUKS2_token_assign, TokensAssign
  <1>3. /\ TokensNear(doc.tokens, b, s)
    BY <1>1 DEF TokensNear, TokensAssign, IsMap, TokRec
  <1> HIDE DEF b
  <1>4. Fields(r, doc.keyslots, doc.digests, b, doc.requirements)
    <2>1. IsMap(b, TokenIds, TokRec)
      BY <1>3 DEF TokensNear
    <2>2. QED BY <1>2, <2>1, Replaced, Zenon
  <1>5. QED
    BY <1>3, <1>4 DEF Fields

\* Unassigning a token adds no assignment.
LEMMA UnassignTokens ==
  ASSUME NEW doc, IsDoc(doc), NEW t \in Int, NEW s \in Slots,
         NEW r, r = LUKS2_token_assign(doc, s, t, FALSE)
  PROVE  /\ Fields(r, doc.keyslots, doc.digests, r.tokens, doc.requirements)
         /\ TokensNear(doc.tokens, r.tokens, s)
         /\ \A u \in DOMAIN doc.tokens : r.tokens[u].keyslots \subseteq doc.tokens[u].keyslots
         /\ t = ANY_TOKEN => \A u \in DOMAIN doc.tokens : s \notin r.tokens[u].keyslots
  <1> DEFINE b == TokensAssign(doc.tokens, s, t, FALSE)
  <1>1. IsMap(doc.tokens, TokenIds, TokRec)
    BY DocFields
  <1>2. r = [doc EXCEPT !.tokens = b]
    BY DEF LUKS2_token_assign, TokensAssign
  <1>3. /\ TokensNear(doc.tokens, b, s)
        /\ \A u \in DOMAIN doc.tokens : b[u].keyslots \subseteq doc.tokens[u].keyslots
        /\ t = ANY_TOKEN => \A u \in DOMAIN doc.tokens : s \notin b[u].keyslots
    BY <1>1 DEF TokensNear, TokensAssign, IsMap, TokRec
  <1> HIDE DEF b
  <1>4. Fields(r, doc.keyslots, doc.digests, b, doc.requirements)
    <2>1. IsMap(b, TokenIds, TokRec)
      BY <1>3 DEF TokensNear
    <2>2. QED BY <1>2, <2>1, Replaced, Zenon
  <1>5. QED
    BY <1>3, <1>4 DEF Fields

\* Two changes of one keyslot's assignments are one.
LEMMA TokensNearTrans ==
  ASSUME NEW a, NEW b, NEW c, NEW s, TokensNear(a, b, s), TokensNear(b, c, s)
  PROVE  TokensNear(a, c, s)
  BY DEF TokensNear

\* No change is a change of no assignment.
LEMMA TokensNearRefl ==
  ASSUME NEW doc, IsDoc(doc), NEW s
  PROVE  TokensNear(doc.tokens, doc.tokens, s)
  BY DocFields DEF TokensNear

\* What a store needs of its step.
StoreOK(doc, st) ==
  /\ st.slot \in Slots /\ st.key \in VolumeKeys /\ st.digest \in DigestIds
  /\ st.digest \in DOMAIN doc.digests => doc.digests[st.digest].key = st.key
  /\ st.digest \notin DOMAIN doc.digests => st.digest = LowestFree(doc.digests, DIGEST_MAX)
  /\ st.token \in Int
NewKeyslot(doc, st) ==
  IF st.slot \in DOMAIN doc.keyslots THEN [doc.keyslots[st.slot] EXCEPT !.salt = salts + 1]
  ELSE [off |-> LUKS2_find_area_gap(doc, KeyLength(st.key)), len |-> KeyLength(st.key), salt |-> salts + 1,
        prio |-> PRIO_NORMAL, type |-> "luks2"]
Stored(doc, nd, st) ==
  /\ IsDoc(nd) /\ nd.requirements = doc.requirements
  /\ nd.keyslots = With(doc.keyslots, st.slot, NewKeyslot(doc, st))
  /\ DigestsPlus(doc.digests, nd.digests, st.slot, st.digest, st.key)
  /\ TokensNear(doc.tokens, nd.tokens, st.slot)

\* Erasing the unused digests leaves the rest of the document alone.
LEMMA EraseUnused ==
  ASSUME NEW doc, IsDoc(doc)
  PROVE  Fields(LUKS2_digests_erase_unused(doc), doc.keyslots, DigestsUsed(doc.digests), doc.tokens, doc.requirements)
  <1>1. IsMap(DigestsUsed(doc.digests), DigestIds, DigRec)
    BY DocFields, DigestsUsedFact
  <1>2. LUKS2_digests_erase_unused(doc) = [doc EXCEPT !.digests = DigestsUsed(doc.digests)]
    BY DEF LUKS2_digests_erase_unused, DigestsUsed
  <1>3. QED BY <1>1, <1>2, Replaced, Zenon

\* A key takes one unit or two.
LEMMA KeyLengthFact ==
  ASSUME NEW key
  PROVE  KeyLength(key) \in {1, 2}
  BY DEF KeyLength

\* What a store does to the fields of a document.
LEMMA StoreFact ==
  ASSUME NEW doc, IsDoc(doc), NEW st, StoreOK(doc, st), NewKeyslot(doc, st) \in KsRec
  PROVE  Stored(doc, LUKS2_digests_erase_unused(StoreDoc(doc, st)), st)
  <1> DEFINE key == st.key
             s == st.slot
             d == st.digest
             d0 == IF d \in DOMAIN doc.digests THEN doc ELSE LUKS2_digest_create(doc, key)
             d1 == LUKS2_digest_assign(d0, s, d, TRUE)
             d2 == IF st.copy = ANY_SLOT THEN d1 ELSE LUKS2_token_assignment_copy(d1, st.copy, s)
             d3 == IF st.token = ANY_TOKEN THEN d2 ELSE LUKS2_token_assign(d2, s, st.token, TRUE)
             d4 == IF s \in DOMAIN d3.keyslots THEN luks2_keyslot_update(d3, s, salts + 1)
                   ELSE luks2_keyslot_alloc(d3, s, KeyLength(key), salts + 1)
  <1>1. StoreDoc(doc, st) = d4
    BY Zenon DEF StoreDoc
  <1>2. /\ Fields(d0, doc.keyslots, d0.digests, doc.tokens, doc.requirements)
        /\ DOMAIN d0.digests = DOMAIN doc.digests \cup {d} /\ d0.digests[d].key = key
        /\ \A e \in DOMAIN doc.digests : d0.digests[e] = doc.digests[e]
        /\ d \notin DOMAIN doc.digests => d0.digests[d].keyslots = {} /\ d0.digests[d].segments = {}
    <2>1. CASE d \in DOMAIN doc.digests
      BY <2>1 DEF Fields, StoreOK
    <2>2. CASE d \notin DOMAIN doc.digests
      <3> DEFINE w == With(doc.digests, d, [key |-> key, keyslots |-> {}, segments |-> {}])
      <3>1. d = LowestFree(doc.digests, DIGEST_MAX)
        BY <2>2 DEF StoreOK
      <3>2. d0 = [doc EXCEPT !.digests = w]
        BY <2>2, <3>1, Zenon DEF LUKS2_digest_create
      <3>3. /\ IsMap(w, DigestIds, DigRec) /\ DOMAIN w = DOMAIN doc.digests \cup {d}
            /\ w[d].key = key /\ w[d].keyslots = {} /\ w[d].segments = {}
            /\ \A e \in DOMAIN doc.digests : e # d => w[e] = doc.digests[e]
        <4>1. IsMap(doc.digests, DigestIds, DigRec) /\ d \in DigestIds /\ key \in VolumeKeys
          BY DocFields DEF StoreOK
        <4>2. \A x : x = w => /\ IsMap(x, DigestIds, DigRec) /\ DOMAIN x = DOMAIN doc.digests \cup {d}
                              /\ x[d].key = key /\ x[d].keyslots = {} /\ x[d].segments = {}
                              /\ \A e \in DOMAIN doc.digests : e # d => x[e] = doc.digests[e]
          BY <4>1, CreatedDigest
        <4>3. QED BY <4>2
      <3>4. Fields(d0, doc.keyslots, w, doc.tokens, doc.requirements)
        <4>1. IsMap(w, DigestIds, DigRec)
          BY <3>3
        <4> HIDE DEF d0, w
        <4>2. QED BY <3>2, <4>1, Replaced
      <3> HIDE DEF w
      <3> HIDE DEF d0
      <3>5. QED BY <2>2, <3>3, <3>4 DEF Fields
    <2>3. QED BY <2>1, <2>2
  <1> HIDE DEF d0
  <1>3. /\ Fields(d1, doc.keyslots, d1.digests, doc.tokens, doc.requirements)
        /\ DigestsPlus(doc.digests, DigestsUsed(d1.digests), s, d, key)
    <2> DEFINE a == DigestsAssign(d0.digests, s, d, TRUE)
    <2>1. IsDoc(d0) /\ IsMap(d0.digests, DigestIds, DigRec)
      BY <1>2, DocFields DEF Fields
    <2>2. d1 = [d0 EXCEPT !.digests = a]
      BY DEF LUKS2_digest_assign, DigestsAssign
    <2>3. IsMap(a, DigestIds, DigRec)
      BY <2>1, DigestsAssignFact DEF StoreOK, DigestsJoined
    <2>4. IsMap(doc.digests, DigestIds, DigRec) /\ s \in Slots /\ d \in DigestIds /\ key \in VolumeKeys
      BY DocFields DEF StoreOK
    <2>5. DigestsPlus(doc.digests, DigestsUsed(a), s, d, key)
      BY <1>2, <2>1, <2>4, StoreDigests
    <2> HIDE DEF a, d1
    <2>6. Fields(d1, d0.keyslots, a, d0.tokens, d0.requirements)
      BY <2>1, <2>2, <2>3, Replaced, Zenon
    <2>7. QED BY <1>2, <2>5, <2>6 DEF Fields
  <1> HIDE DEF d1
  <1>4. /\ Fields(d2, doc.keyslots, d1.digests, d2.tokens, doc.requirements)
        /\ TokensNear(doc.tokens, d2.tokens, s)
    <2>1. CASE st.copy = ANY_SLOT
      <3>1. d2 = d1
        BY <2>1
      <3> HIDE DEF d2
      <3>2. QED BY <1>3, <3>1, TokensNearRefl DEF Fields
    <2>2. CASE st.copy # ANY_SLOT
      <3>1. d2 = LUKS2_token_assignment_copy(d1, st.copy, s)
        BY <2>2
      <3> HIDE DEF d2
      <3>2. /\ Fields(d2, d1.keyslots, d1.digests, d2.tokens, d1.requirements)
            /\ TokensNear(d1.tokens, d2.tokens, s)
        BY <1>3, <3>1, CopyTokens DEF Fields, StoreOK
      <3>3. QED BY <1>3, <3>2 DEF Fields
    <2>3. QED BY <2>1, <2>2
  <1> HIDE DEF d2
  <1>5. /\ Fields(d3, doc.keyslots, d1.digests, d3.tokens, doc.requirements)
        /\ TokensNear(doc.tokens, d3.tokens, s)
    <2>1. CASE st.token = ANY_TOKEN
      <3>1. d3 = d2
        BY <2>1
      <3> HIDE DEF d3
      <3>2. QED BY <1>4, <3>1
    <2>2. CASE st.token # ANY_TOKEN
      <3>1. d3 = LUKS2_token_assign(d2, s, st.token, TRUE)
        BY <2>2
      <3> HIDE DEF d3
      <3>2. /\ Fields(d3, d2.keyslots, d2.digests, d3.tokens, d2.requirements)
            /\ TokensNear(d2.tokens, d3.tokens, s)
        BY <1>4, <3>1, AssignTokens DEF Fields, StoreOK
      <3>3. QED BY <1>4, <3>2, TokensNearTrans DEF Fields
    <2>3. QED BY <2>1, <2>2
  <1> HIDE DEF d3
  <1>6. d4 = [d3 EXCEPT !.keyslots = With(doc.keyslots, s, NewKeyslot(doc, st))]
    <2>1. IsDoc(d3) /\ d3.keyslots = doc.keyslots
      BY <1>5 DEF Fields
    <2>2. CASE s \in DOMAIN doc.keyslots
      <3>1. NewKeyslot(doc, st) = [doc.keyslots[s] EXCEPT !.salt = salts + 1]
        BY <2>2 DEF NewKeyslot
      <3>2. d4 = luks2_keyslot_update(d3, s, salts + 1)
        BY <2>1, <2>2
      <3>3. d4 = [d3 EXCEPT !.keyslots = With(d3.keyslots, s, [d3.keyslots[s] EXCEPT !.salt = salts + 1])]
        BY <3>2, Zenon DEF luks2_keyslot_update
      <3>4. QED BY <2>1, <3>1, <3>3
    <2>3. CASE s \notin DOMAIN doc.keyslots
      <3>1. NewKeyslot(doc, st) =
              [off |-> LUKS2_find_area_gap(doc, KeyLength(key)), len |-> KeyLength(key), salt |-> salts + 1,
               prio |-> PRIO_NORMAL, type |-> "luks2"]
        BY <2>3 DEF NewKeyslot
      <3>2. d4 = luks2_keyslot_alloc(d3, s, KeyLength(key), salts + 1)
        BY <2>1, <2>3
      <3>3. d4 = [d3 EXCEPT !.keyslots = With(d3.keyslots, s,
                    [off |-> LUKS2_find_area_gap(d3, KeyLength(key)), len |-> KeyLength(key), salt |-> salts + 1,
                     prio |-> PRIO_NORMAL, type |-> "luks2"])]
        BY <3>2, Zenon DEF luks2_keyslot_alloc
      <3>4. LUKS2_find_area_gap(d3, KeyLength(key)) = LUKS2_find_area_gap(doc, KeyLength(key))
        BY <2>1, GapSame
      <3>5. QED BY <2>1, <3>1, <3>3, <3>4, Zenon
    <2>4. QED BY <2>2, <2>3
  <1> HIDE DEF d4
  <1>7. Fields(d4, With(doc.keyslots, s, NewKeyslot(doc, st)), d1.digests, d3.tokens, doc.requirements)
    <2>1. IsMap(With(doc.keyslots, s, NewKeyslot(doc, st)), Slots, KsRec)
      <3>1. IsMap(doc.keyslots, Slots, KsRec) /\ s \in Slots
        BY DocFields DEF StoreOK
      <3>2. QED BY <3>1, WithMap
    <2>2. Fields(d4, With(doc.keyslots, s, NewKeyslot(doc, st)), d3.digests, d3.tokens, d3.requirements)
      <3>1. IsDoc(d3)
        BY <1>5 DEF Fields
      <3>2. QED BY <1>6, <2>1, <3>1, Replaced
    <2>3. QED BY <1>5, <2>2 DEF Fields
  <1>8. Fields(LUKS2_digests_erase_unused(d4), d4.keyslots, DigestsUsed(d4.digests), d4.tokens, d4.requirements)
    BY <1>7, EraseUnused DEF Fields
  <1>9. QED
    BY <1>1, <1>3, <1>5, <1>7, <1>8 DEF Fields, Stored

------------------------------------------------------------------------------
\* Well-formedness after a step, and what it leaves alone.

\* Keyslot s of b is the one of a.
SameSlot(a, b, s) ==
  /\ s \in DOMAIN b.keyslots /\ b.keyslots[s].off = a.keyslots[s].off /\ b.keyslots[s].len = a.keyslots[s].len
  /\ b.keyslots[s].salt = a.keyslots[s].salt /\ KeyOf(b, s) = KeyOf(a, s)
\* Keyslots of A that hold the key of the data still do.
KeepsBound(a, b, A) == \A s \in A : Bound(a, s) => Bound(b, s)

\* b is a with the new keyslot of step st.
StoredNew(a, b, st) ==
  /\ WF(b) /\ b.requirements = a.requirements
  /\ DOMAIN b.keyslots = DOMAIN a.keyslots \cup {st.slot}
  /\ \A s \in DOMAIN a.keyslots : SameSlot(a, b, s) /\ b.keyslots[s] = a.keyslots[s]
  /\ b.keyslots[st.slot] = NewKeyslot(a, st)
  /\ KeyOf(b, st.slot) = st.key /\ Holding(b, st.slot, st.key, st.digest)
  /\ \A s \in DOMAIN a.keyslots : InDigest(a, s, st.digest) => Holding(b, s, st.key, st.digest)
  /\ KeepsBound(a, b, DOMAIN a.keyslots)

\* A store in a free slot: the others stay, the new area lies in the gap.
LEMMA StoreNewFact ==
  ASSUME NEW doc, WF(doc), salts \in Nat, NEW st, st.token \in Int, st.key \in VolumeKeys,
         NewSlot(doc, st.slot, st.key, st.digest)
  PROVE  StoredNew(doc, LUKS2_digests_erase_unused(StoreDoc(doc, st)), st)
  <1> DEFINE nd == LUKS2_digests_erase_unused(StoreDoc(doc, st))
             s == st.slot
             d == st.digest
             k == NewKeyslot(doc, st)
             g == LUKS2_find_area_gap(doc, KeyLength(st.key))
             len == KeyLength(st.key)
  <1>1. /\ IsDoc(doc) /\ TokensClosed(doc) /\ DigestsClosed(doc) /\ OneDigest(doc) /\ OneData(doc)
        /\ AreasApart(doc) /\ len \in {1, 2}
    BY KeyLengthFact DEF WF
  <1>2. /\ s \in Slots /\ s \notin DOMAIN doc.keyslots /\ d \in DigestIds /\ g >= 0 /\ StoreOK(doc, st)
    BY DEF NewSlot, StoreOK
  <1>3. /\ g \in Nat /\ MinOffset <= g /\ g + len <= MaxOffset
        /\ \A t \in DOMAIN doc.keyslots : g + len <= doc.keyslots[t].off \/ doc.keyslots[t].off + doc.keyslots[t].len <= g
    BY <1>1, <1>2, GapFact
  <1> HIDE DEF g, len
  <1>4. k = [off |-> g, len |-> len, salt |-> salts + 1, prio |-> PRIO_NORMAL, type |-> "luks2"]
    BY <1>2 DEF NewKeyslot, g, len
  <1>5. k \in KsRec /\ k.off = g /\ k.len = len
    BY <1>1, <1>3, <1>4 DEF KsRec, PRIO_NORMAL
  <1> HIDE DEF k
  <1>6. Stored(doc, nd, st)
    BY <1>1, <1>2, <1>5, StoreFact DEF k
  <1> HIDE DEF nd
  <1>7. /\ IsDoc(nd) /\ nd.requirements = doc.requirements
        /\ nd.keyslots = With(doc.keyslots, s, k)
        /\ DigestsPlus(doc.digests, nd.digests, s, d, st.key)
        /\ TokensNear(doc.tokens, nd.tokens, s)
    BY <1>6 DEF Stored, k
  <1>8. /\ DOMAIN nd.keyslots = DOMAIN doc.keyslots \cup {s} /\ nd.keyslots[s] = k
        /\ \A t \in DOMAIN doc.keyslots : nd.keyslots[t] = doc.keyslots[t]
    BY <1>2, <1>7 DEF With
  <1>9. \A e \in DigestIds, t \in DOMAIN doc.keyslots : InDigest(nd, t, e) <=> InDigest(doc, t, e)
    BY <1>2, <1>7 DEF InDigest, DigestsPlus
  <1>10. \A e \in DigestIds : InDigest(nd, s, e) <=> e = d
    BY <1>1, <1>2, <1>7 DEF InDigest, DigestsPlus, DigestsClosed
  <1>11. \A e \in DigestIds : HasData(nd, e) <=> HasData(doc, e)
    BY <1>7 DEF HasData, DigestsPlus
  <1>12. \A e \in DigestIds : e \in DOMAIN nd.digests /\ e \in DOMAIN doc.digests => nd.digests[e].key = doc.digests[e].key
    BY <1>2, <1>7 DEF DigestsPlus, StoreOK
  <1>13. WF(nd)
    <2>1. OneDigest(nd)
      <3> SUFFICES ASSUME NEW t \in DOMAIN nd.keyslots
                   PROVE  \E e \in DigestIds : InDigest(nd, t, e) /\ \A f \in DigestIds : InDigest(nd, t, f) => f = e
        BY DEF OneDigest
      <3>1. CASE t = s
        BY <1>2, <1>10, <3>1
      <3>2. CASE t \in DOMAIN doc.keyslots
        BY <1>1, <1>9, <3>2 DEF OneDigest
      <3>3. QED BY <1>8, <3>1, <3>2
    <2>2. OneData(nd)
      BY <1>1, <1>11 DEF OneData
    <2>3. DigestsClosed(nd)
      BY <1>1, <1>7, <1>8 DEF DigestsClosed, DigestsPlus
    <2>4. TokensClosed(nd)
      BY <1>1, <1>7, <1>8 DEF TokensClosed, TokensNear
    <2>5. AreasApart(nd)
      BY <1>1, <1>3, <1>5, <1>8 DEF AreasApart, Inside, Apart
    <2>6. QED BY <1>7, <2>1, <2>2, <2>3, <2>4, <2>5 DEF WF
  <1>14. \A t \in DOMAIN doc.keyslots : SameSlot(doc, nd, t)
    <2> TAKE t \in DOMAIN doc.keyslots
    <2>1. PICK e \in DigestIds : InDigest(doc, t, e)
      BY <1>1 DEF OneDigest
    <2>2. KeyOf(doc, t) = doc.digests[e].key
      BY <1>1, <2>1, KeyOfSlot
    <2>3. KeyOf(nd, t) = nd.digests[e].key
      BY <1>8, <1>9, <1>13, <2>1, KeyOfSlot DEF WF
    <2>4. QED BY <1>8, <1>9, <1>12, <2>1, <2>2, <2>3 DEF SameSlot, InDigest
  <1>15. KeyOf(nd, s) = st.key /\ Holding(nd, s, st.key, d)
    <2>1. InDigest(nd, s, d) /\ nd.digests[d].key = st.key
      BY <1>2, <1>7, <1>10 DEF DigestsPlus
    <2>2. KeyOf(nd, s) = nd.digests[d].key
      BY <1>2, <1>8, <1>13, <2>1, KeyOfSlot DEF WF
    <2>3. QED BY <1>8, <2>1, <2>2 DEF Holding
  <1>16. \A t \in DOMAIN doc.keyslots : InDigest(doc, t, d) => Holding(nd, t, st.key, d)
    BY <1>2, <1>7, <1>8, <1>9 DEF Holding, DigestsPlus
  <1>17. KeepsBound(doc, nd, DOMAIN doc.keyslots)
    BY <1>8, <1>9, <1>11 DEF KeepsBound, Bound
  <1>18. QED
    BY <1>7, <1>8, <1>13, <1>14, <1>15, <1>16, <1>17 DEF StoredNew, nd, k

\* b is a with keyslot st.slot stored again under a new salt.
StoredOver(a, b, st) ==
  /\ WF(b) /\ b.requirements = a.requirements
  /\ DOMAIN b.keyslots = DOMAIN a.keyslots
  /\ \A s \in DOMAIN a.keyslots \ {st.slot} : SameSlot(a, b, s) /\ b.keyslots[s] = a.keyslots[s]
  /\ b.keyslots[st.slot].off = a.keyslots[st.slot].off /\ b.keyslots[st.slot].len = a.keyslots[st.slot].len
  /\ b.keyslots[st.slot].salt = salts + 1 /\ KeyOf(b, st.slot) = st.key
  /\ KeepsBound(a, b, DOMAIN a.keyslots)

\* A store over a keyslot of the same key: the area stays, the salt is new.
LEMMA StoreOverFact ==
  ASSUME NEW doc, WF(doc), salts \in Nat, NEW st, st.token \in Int, st.key \in VolumeKeys,
         st.digest \in DigestIds, Holding(doc, st.slot, st.key, st.digest)
  PROVE  StoredOver(doc, LUKS2_digests_erase_unused(StoreDoc(doc, st)), st)
  <1> DEFINE nd == LUKS2_digests_erase_unused(StoreDoc(doc, st))
             s == st.slot
             d == st.digest
             k == NewKeyslot(doc, st)
  <1>1. /\ IsDoc(doc) /\ TokensClosed(doc) /\ DigestsClosed(doc) /\ OneDigest(doc) /\ OneData(doc) /\ AreasApart(doc)
    BY DEF WF
  <1>2. /\ s \in DOMAIN doc.keyslots /\ InDigest(doc, s, d) /\ doc.digests[d].key = st.key
    BY DEF Holding
  <1>3. s \in Slots /\ doc.keyslots[s] \in KsRec
    BY <1>1, <1>2, DocFields DEF IsMap
  <1>4. StoreOK(doc, st)
    BY <1>2, <1>3 DEF StoreOK, InDigest
  <1>5. k = [doc.keyslots[s] EXCEPT !.salt = salts + 1]
    BY <1>2 DEF NewKeyslot
  <1>6. k \in KsRec /\ k.off = doc.keyslots[s].off /\ k.len = doc.keyslots[s].len /\ k.salt = salts + 1
    <2>1. \A x \in KsRec, n \in Nat \ {0} : LET y == [x EXCEPT !.salt = n] IN
            y \in KsRec /\ y.off = x.off /\ y.len = x.len /\ y.salt = n
      BY DEF KsRec
    <2>2. salts + 1 \in Nat \ {0}
      OBVIOUS
    <2>3. QED BY <1>3, <1>5, <2>1, <2>2
  <1> HIDE DEF k
  <1>7. Stored(doc, nd, st)
    BY <1>1, <1>4, <1>6, StoreFact DEF k
  <1> HIDE DEF nd
  <1>8. /\ IsDoc(nd) /\ nd.requirements = doc.requirements
        /\ nd.keyslots = With(doc.keyslots, s, k)
        /\ DigestsPlus(doc.digests, nd.digests, s, d, st.key)
        /\ TokensNear(doc.tokens, nd.tokens, s)
    BY <1>7 DEF Stored, k
  <1>9. /\ DOMAIN nd.keyslots = DOMAIN doc.keyslots /\ nd.keyslots[s] = k
        /\ \A t \in DOMAIN doc.keyslots \ {s} : nd.keyslots[t] = doc.keyslots[t]
    BY <1>2, <1>8 DEF With
  <1>10. \A e \in DigestIds, t \in DOMAIN doc.keyslots : InDigest(nd, t, e) <=> InDigest(doc, t, e)
    BY <1>2, <1>8 DEF InDigest, DigestsPlus
  <1>11. \A e \in DigestIds : HasData(nd, e) <=> HasData(doc, e)
    BY <1>2, <1>8 DEF HasData, DigestsPlus, InDigest
  <1>12. \A e \in DigestIds : e \in DOMAIN nd.digests /\ e \in DOMAIN doc.digests => nd.digests[e].key = doc.digests[e].key
    BY <1>2, <1>8 DEF DigestsPlus
  <1>13. WF(nd)
    <2>1. OneDigest(nd)
      BY <1>1, <1>9, <1>10 DEF OneDigest
    <2>2. OneData(nd)
      BY <1>1, <1>11 DEF OneData
    <2>3. DigestsClosed(nd)
      BY <1>1, <1>2, <1>8, <1>9 DEF DigestsClosed, DigestsPlus
    <2>4. TokensClosed(nd)
      BY <1>1, <1>2, <1>8, <1>9 DEF TokensClosed, TokensNear
    <2>5. AreasApart(nd)
      BY <1>1, <1>6, <1>9 DEF AreasApart, Inside, Apart
    <2>6. QED BY <1>8, <2>1, <2>2, <2>3, <2>4, <2>5 DEF WF
  <1>14. \A t \in DOMAIN doc.keyslots : KeyOf(nd, t) = KeyOf(doc, t)
    <2> TAKE t \in DOMAIN doc.keyslots
    <2>1. PICK e \in DigestIds : InDigest(doc, t, e)
      BY <1>1 DEF OneDigest
    <2>2. KeyOf(doc, t) = doc.digests[e].key
      BY <1>1, <2>1, KeyOfSlot
    <2>3. KeyOf(nd, t) = nd.digests[e].key
      BY <1>9, <1>10, <1>13, <2>1, KeyOfSlot DEF WF
    <2>4. QED BY <1>9, <1>10, <1>12, <2>1, <2>2, <2>3 DEF InDigest
  <1>15. KeyOf(doc, s) = st.key
    BY <1>1, <1>2, KeyOfSlot
  <1>16. KeepsBound(doc, nd, DOMAIN doc.keyslots)
    BY <1>9, <1>10, <1>11 DEF KeepsBound, Bound
  <1>17. \A t \in DOMAIN doc.keyslots \ {s} : SameSlot(doc, nd, t)
    BY <1>9, <1>14 DEF SameSlot
  <1>18. QED
    BY <1>2, <1>6, <1>8, <1>9, <1>13, <1>14, <1>15, <1>16, <1>17 DEF StoredOver, nd
------------------------------------------------------------------------------
\* A keyslot removed.

\* b is a without keyslot s.
Wiped(a, b, s) ==
  /\ WF(b) /\ b.requirements = a.requirements
  /\ DOMAIN b.keyslots = DOMAIN a.keyslots \ {s}
  /\ \A t \in DOMAIN b.keyslots : SameSlot(a, b, t) /\ b.keyslots[t] = a.keyslots[t]
  /\ KeepsBound(a, b, DOMAIN b.keyslots)
  /\ DOMAIN b.tokens = DOMAIN a.tokens
  /\ \A t \in DOMAIN a.tokens : \A r \in Slots \ {s} : r \in b.tokens[t].keyslots <=> r \in a.tokens[t].keyslots

\* What luks2_keyslot_wipe and the deletion of the object compute.
WipedDoc(doc, s) ==
  LUKS2_digests_erase_unused(
    [LUKS2_token_assign(LUKS2_digest_assign(doc, s, ANY_DIGEST, FALSE), s, ANY_TOKEN, FALSE)
       EXCEPT !.keyslots = Without(@, s)])

\* What the removal of a keyslot does to a document.
LEMMA WipeFact ==
  ASSUME NEW doc, WF(doc), NEW s \in Slots
  PROVE  Wiped(doc, WipedDoc(doc, s), s)
  <1> DEFINE d1 == LUKS2_digest_assign(doc, s, ANY_DIGEST, FALSE)
             a == DigestsAssign(doc.digests, s, ANY_DIGEST, FALSE)
             d2 == LUKS2_token_assign(d1, s, ANY_TOKEN, FALSE)
             d3 == [d2 EXCEPT !.keyslots = Without(d2.keyslots, s)]
             nd == LUKS2_digests_erase_unused(d3)
  <1>1. /\ IsDoc(doc) /\ TokensClosed(doc) /\ DigestsClosed(doc) /\ OneDigest(doc) /\ OneData(doc) /\ AreasApart(doc)
    BY DEF WF
  <1>2. IsMap(doc.digests, DigestIds, DigRec) /\ IsMap(doc.keyslots, Slots, KsRec)
    BY <1>1, DocFields
  <1>3. d1 = [doc EXCEPT !.digests = a]
    BY DEF LUKS2_digest_assign, DigestsAssign
  <1>4. \A x : x = a =>
          /\ IsMap(x, DigestIds, DigRec) /\ DOMAIN x = DOMAIN doc.digests
          /\ \A e \in DOMAIN doc.digests :
               /\ x[e].key = doc.digests[e].key /\ x[e].segments = doc.digests[e].segments
               /\ x[e].keyslots = doc.digests[e].keyslots \ {s}
    BY <1>2 DEF IsMap, DigestsAssign, DigRec, DigestIds, ANY_DIGEST
  <1>5. /\ IsMap(a, DigestIds, DigRec) /\ DOMAIN a = DOMAIN doc.digests
        /\ \A e \in DOMAIN doc.digests :
             /\ a[e].key = doc.digests[e].key /\ a[e].segments = doc.digests[e].segments
             /\ a[e].keyslots = doc.digests[e].keyslots \ {s}
    BY <1>4
  <1> HIDE DEF a, d1
  <1>6. Fields(d1, doc.keyslots, a, doc.tokens, doc.requirements)
    BY <1>1, <1>3, <1>5, Replaced
  <1>7. /\ Fields(d2, d1.keyslots, d1.digests, d2.tokens, d1.requirements)
        /\ TokensNear(d1.tokens, d2.tokens, s)
        /\ \A u \in DOMAIN d1.tokens : d2.tokens[u].keyslots \subseteq d1.tokens[u].keyslots
        /\ \A u \in DOMAIN d1.tokens : s \notin d2.tokens[u].keyslots
    <2>1. IsDoc(d1) /\ ANY_TOKEN \in Int
      BY <1>6 DEF Fields, ANY_TOKEN
    <2>2. QED BY <2>1, UnassignTokens
  <1> HIDE DEF d2
  <1>8. Fields(d3, Without(doc.keyslots, s), a, d2.tokens, doc.requirements)
    <2>1. IsMap(Without(doc.keyslots, s), Slots, KsRec)
      BY <1>2, WithoutMap
    <2>2. d2.keyslots = doc.keyslots /\ IsDoc(d2) /\ d2.digests = a /\ d2.requirements = doc.requirements
      BY <1>6, <1>7 DEF Fields
    <2>3. d3 = [d2 EXCEPT !.keyslots = Without(doc.keyslots, s)]
      BY <2>2
    <2> HIDE DEF d3
    <2>4. Fields(d3, Without(doc.keyslots, s), d2.digests, d2.tokens, d2.requirements)
      BY <2>1, <2>2, <2>3, Replaced
    <2>5. QED BY <2>2, <2>4
  <1>9. WipedDoc(doc, s) = nd
    BY Zenon DEF WipedDoc, d1, d2
  <1> HIDE DEF d3
  <1>10. Fields(nd, Without(doc.keyslots, s), DigestsUsed(a), d2.tokens, doc.requirements)
    BY <1>8, EraseUnused DEF Fields
  <1> HIDE DEF nd
  <1>11. /\ IsDoc(nd) /\ nd.requirements = doc.requirements
         /\ DOMAIN nd.keyslots = DOMAIN doc.keyslots \ {s}
         /\ \A t \in DOMAIN doc.keyslots \ {s} : nd.keyslots[t] = doc.keyslots[t]
         /\ nd.tokens = d2.tokens /\ nd.digests = DigestsUsed(a)
    BY <1>10 DEF Fields, Without
  <1>12. /\ DOMAIN nd.digests = {e \in DOMAIN a : a[e].keyslots # {} \/ a[e].segments # {}}
         /\ \A e \in DOMAIN nd.digests : nd.digests[e] = a[e]
    <2>1. IsMap(a, DigestIds, DigRec)
      BY <1>5
    <2>2. /\ DOMAIN DigestsUsed(a) = {e \in DOMAIN a : a[e].keyslots # {} \/ a[e].segments # {}}
          /\ \A e \in DOMAIN DigestsUsed(a) : DigestsUsed(a)[e] = a[e]
      BY <2>1, DigestsUsedFact
    <2>3. nd.digests = DigestsUsed(a)
      BY <1>11
    <2>4. QED BY <2>2, <2>3, Zenon
  <1>13. \A e \in DigestIds, t \in DOMAIN doc.keyslots \ {s} : InDigest(nd, t, e) <=> InDigest(doc, t, e)
    BY <1>5, <1>12 DEF InDigest
  <1>14. \A e \in DigestIds : HasData(nd, e) <=> HasData(doc, e)
    BY <1>5, <1>12 DEF HasData
  <1>15. /\ DOMAIN nd.tokens = DOMAIN doc.tokens
         /\ \A t \in DOMAIN doc.tokens : nd.tokens[t].keyslots = doc.tokens[t].keyslots \ {s}
    BY <1>6, <1>7, <1>11 DEF Fields, TokensNear
  <1>16. WF(nd)
    <2>1. OneDigest(nd)
      BY <1>1, <1>11, <1>13 DEF OneDigest
    <2>2. OneData(nd)
      BY <1>1, <1>14 DEF OneData
    <2>3. DigestsClosed(nd)
      BY <1>1, <1>5, <1>11, <1>12 DEF DigestsClosed
    <2>4. TokensClosed(nd)
      BY <1>1, <1>11, <1>15 DEF TokensClosed
    <2>5. AreasApart(nd)
      BY <1>1, <1>11 DEF AreasApart
    <2>6. QED BY <1>11, <2>1, <2>2, <2>3, <2>4, <2>5 DEF WF
  <1>17. \A t \in DOMAIN nd.keyslots : KeyOf(nd, t) = KeyOf(doc, t)
    <2> TAKE t \in DOMAIN nd.keyslots
    <2>1. t \in DOMAIN doc.keyslots \ {s}
      BY <1>11
    <2>2. PICK e \in DigestIds : InDigest(doc, t, e)
      BY <1>1, <2>1 DEF OneDigest
    <2>3. KeyOf(doc, t) = doc.digests[e].key
      BY <1>1, <2>1, <2>2, KeyOfSlot
    <2>4. KeyOf(nd, t) = nd.digests[e].key
      BY <1>13, <1>16, <2>1, <2>2, KeyOfSlot DEF WF
    <2>5. InDigest(nd, t, e)
      BY <1>13, <2>1, <2>2
    <2>6. QED BY <1>5, <1>12, <2>2, <2>3, <2>4, <2>5 DEF InDigest
  <1>18. KeepsBound(doc, nd, DOMAIN nd.keyslots)
    BY <1>11, <1>13, <1>14 DEF KeepsBound, Bound
  <1>19. \A t \in DOMAIN nd.keyslots : SameSlot(doc, nd, t)
    BY <1>11, <1>17 DEF SameSlot
  <1>20. QED
    BY <1>9, <1>11, <1>15, <1>16, <1>18, <1>19 DEF Wiped

\* Two keyslot objects change their numbers.
SwappedSlots(a, b, s, t) ==
  /\ WF(b) /\ b.requirements = a.requirements /\ b.tokens = a.tokens /\ b.digests = a.digests
  /\ DOMAIN b.keyslots = DOMAIN a.keyslots
  /\ b.keyslots[s] = a.keyslots[t] /\ b.keyslots[t] = a.keyslots[s]
  /\ \A x \in DOMAIN a.keyslots \ {s, t} : b.keyslots[x] = a.keyslots[x]
  /\ \A x \in DOMAIN a.keyslots : KeyOf(b, x) = KeyOf(a, x)
  /\ KeepsBound(a, b, DOMAIN a.keyslots)

\* What the exchange of two keyslots does to a document.
LEMMA SwapFact ==
  ASSUME NEW doc, WF(doc), NEW s \in DOMAIN doc.keyslots, NEW t \in DOMAIN doc.keyslots, s # t
  PROVE  SwappedSlots(doc, LUKS2_keyslot_swap(doc, s, t), s, t)
  <1> DEFINE ks == doc.keyslots
             w == With(With(ks, s, ks[t]), t, ks[s])
             nd == LUKS2_keyslot_swap(doc, s, t)
  <1>1. /\ IsDoc(doc) /\ TokensClosed(doc) /\ DigestsClosed(doc) /\ OneDigest(doc) /\ OneData(doc) /\ AreasApart(doc)
    BY DEF WF
  <1>2. IsMap(ks, Slots, KsRec)
    BY <1>1, DocFields
  <1>3. /\ IsMap(w, Slots, KsRec) /\ DOMAIN w = DOMAIN ks /\ w[s] = ks[t] /\ w[t] = ks[s]
        /\ \A x \in DOMAIN ks \ {s, t} : w[x] = ks[x]
    BY <1>2 DEF With, IsMap
  <1>4. nd = [doc EXCEPT !.keyslots = w]
    BY Zenon DEF LUKS2_keyslot_swap
  <1> HIDE DEF w, nd
  <1>5. Fields(nd, w, doc.digests, doc.tokens, doc.requirements)
    BY <1>1, <1>3, <1>4, Replaced
  <1>6. /\ IsDoc(nd) /\ nd.keyslots = w /\ nd.digests = doc.digests
        /\ nd.tokens = doc.tokens /\ nd.requirements = doc.requirements
    BY <1>5 DEF Fields
  <1>7. WF(nd)
    <2>1. OneDigest(nd) /\ OneData(nd)
      BY <1>1, <1>3, <1>6 DEF OneDigest, OneData, InDigest, HasData
    <2>2. DigestsClosed(nd) /\ TokensClosed(nd)
      BY <1>1, <1>3, <1>6 DEF DigestsClosed, TokensClosed
    <2>3. AreasApart(nd)
      <3>1. \A x \in DOMAIN w : Inside(w[x])
        BY <1>1, <1>3 DEF AreasApart
      <3>2. \A x, y \in DOMAIN ks : x # y => Apart(ks[x], ks[y]) /\ Apart(ks[y], ks[x])
        BY <1>1 DEF AreasApart
      <3>3. \A x, y \in DOMAIN w : x # y => Apart(w[x], w[y])
        BY <1>3, <3>2
      <3>4. QED BY <1>6, <3>1, <3>3 DEF AreasApart
    <2>4. QED BY <1>6, <2>1, <2>2, <2>3 DEF WF
  <1>8. \A x \in DOMAIN ks : KeyOf(nd, x) = KeyOf(doc, x)
    BY <1>6 DEF KeyOf, LUKS2_digest_by_keyslot
  <1>9. KeepsBound(doc, nd, DOMAIN ks)
    BY <1>3, <1>6 DEF KeepsBound, Bound, InDigest, HasData
  <1>10. QED
    BY <1>3, <1>6, <1>7, <1>8, <1>9 DEF SwappedSlots, nd

\* The whole memory part of a wipe: X is the keyslot object that goes.
WipeOK(doc, st) ==
  /\ st.slot \in DOMAIN doc.keyslots /\ ~st.only
  /\ st.swap # ANY_SLOT => st.swap \in DOMAIN doc.keyslots /\ st.swap # st.slot

\* The document after a wipe step is the removal from the swapped document.
LEMMA WipeDocIs ==
  ASSUME NEW doc, NEW st, ~st.only
  PROVE  LUKS2_digests_erase_unused(WipeDoc(doc, st)) = WipedDoc(Swapped(doc, st), st.slot)
  BY Zenon DEF WipeDoc, WipedDoc

\* A keyslot of a well-formed document lies in the keyslots area.
LEMMA SlotIn ==
  ASSUME NEW doc, WF(doc), NEW s \in DOMAIN doc.keyslots
  PROVE  s \in Slots /\ s \in Nat /\ s # ANY_SLOT /\ doc.keyslots[s] \in KsRec /\ Inside(doc.keyslots[s])
  BY DocFields, LimitsAssumption DEF WF, IsMap, Slots, ANY_SLOT, AreasApart

\* After a wipe with a swap: keyslot swap is the object of slot.
WipedSwap(a, b, st) ==
  /\ WF(b) /\ b.requirements = a.requirements
  /\ DOMAIN b.keyslots = DOMAIN a.keyslots \ {st.slot}
  /\ \A t \in DOMAIN a.keyslots \ {st.slot, st.swap} : SameSlot(a, b, t) /\ b.keyslots[t] = a.keyslots[t]
  /\ b.keyslots[st.swap] = a.keyslots[st.slot] /\ KeyOf(b, st.swap) = KeyOf(a, st.swap)
  /\ KeepsBound(a, b, DOMAIN b.keyslots)
  /\ DOMAIN b.tokens = DOMAIN a.tokens
  /\ \A t \in DOMAIN a.tokens : \A r \in Slots \ {st.slot} : r \in b.tokens[t].keyslots <=> r \in a.tokens[t].keyslots

\* A removal, after a swap or without one, wipes the area of the target.
LEMMA WipeSwapFact ==
  ASSUME NEW doc, WF(doc), NEW st, WipeOK(doc, st)
  PROVE  /\ st.swap = ANY_SLOT => Wiped(doc, LUKS2_digests_erase_unused(WipeDoc(doc, st)), st.slot)
         /\ st.swap # ANY_SLOT => WipedSwap(doc, LUKS2_digests_erase_unused(WipeDoc(doc, st)), st)
         /\ Swapped(doc, st).keyslots[st.slot] = doc.keyslots[Target(st)]
  <1> DEFINE nd == LUKS2_digests_erase_unused(WipeDoc(doc, st))
             sw == Swapped(doc, st)
  <1>1. nd = WipedDoc(sw, st.slot)
    BY WipeDocIs DEF WipeOK
  <1>2. st.slot \in Slots /\ st.slot \in DOMAIN doc.keyslots
    BY SlotIn DEF WipeOK
  <1> HIDE DEF nd
  <1>3. CASE st.swap = ANY_SLOT
    <2>1. sw = doc
      BY <1>3 DEF Swapped
    <2>2. Target(st) = st.slot
      BY <1>3 DEF Target
    <2>3. QED BY <1>1, <1>2, <1>3, <2>1, <2>2, WipeFact DEF nd
  <1>4. CASE st.swap # ANY_SLOT
    <2>1. sw = LUKS2_keyslot_swap(doc, st.swap, st.slot)
      BY <1>4 DEF Swapped
    <2>2. SwappedSlots(doc, sw, st.swap, st.slot) /\ st.swap \in DOMAIN doc.keyslots /\ st.swap # st.slot
      BY <1>4, <2>1, SwapFact DEF WipeOK
    <2> HIDE DEF sw
    <2>3. Wiped(sw, nd, st.slot)
      BY <1>1, <1>2, <2>2, WipeFact DEF SwappedSlots
    <2>4. DOMAIN nd.keyslots = DOMAIN doc.keyslots \ {st.slot}
      BY <2>2, <2>3 DEF SwappedSlots, Wiped
    <2>5. \A t \in DOMAIN doc.keyslots \ {st.slot} : nd.keyslots[t] = sw.keyslots[t] /\ KeyOf(nd, t) = KeyOf(doc, t)
      BY <2>2, <2>3, <2>4 DEF SwappedSlots, Wiped, SameSlot
    <2>6. \A t \in DOMAIN doc.keyslots \ {st.slot, st.swap} : SameSlot(doc, nd, t) /\ nd.keyslots[t] = doc.keyslots[t]
      BY <2>2, <2>4, <2>5 DEF SwappedSlots, SameSlot
    <2>7. nd.keyslots[st.swap] = doc.keyslots[st.slot]
      BY <2>2, <2>5 DEF SwappedSlots
    <2>8. KeepsBound(doc, nd, DOMAIN nd.keyslots)
      BY <2>2, <2>3, <2>4 DEF SwappedSlots, Wiped, KeepsBound
    <2>9. WipedSwap(doc, nd, st)
      BY <2>2, <2>3, <2>4, <2>5, <2>6, <2>7, <2>8 DEF WipedSwap, Wiped, SwappedSlots
    <2>10. sw.keyslots[st.slot] = doc.keyslots[Target(st)]
      BY <1>4, <2>2 DEF Target, SwappedSlots
    <2>11. QED BY <1>4, <2>9, <2>10 DEF nd, sw
  <1>5. QED BY <1>3, <1>4

------------------------------------------------------------------------------
\* Header writes without a keyslot area.

HdrChanged(a, b) ==
  /\ WF(b) /\ b.requirements = a.requirements
  /\ DOMAIN b.keyslots = DOMAIN a.keyslots
  /\ \A s \in DOMAIN a.keyslots : SameSlot(a, b, s)

\* Digests unchanged but for what they decrypt.
LEMMA SameKeys ==
  ASSUME NEW a, NEW b, WF(a), IsDoc(b), OneDigest(b), DOMAIN b.keyslots = DOMAIN a.keyslots,
         \A e \in DigestIds, t \in DOMAIN a.keyslots :
           InDigest(a, t, e) => InDigest(b, t, e) /\ b.digests[e].key = a.digests[e].key
  PROVE  \A t \in DOMAIN a.keyslots : KeyOf(b, t) = KeyOf(a, t)
  <1> TAKE t \in DOMAIN a.keyslots
  <1>1. IsDoc(a) /\ OneDigest(a)
    BY DEF WF
  <1>2. PICK e \in DigestIds : InDigest(a, t, e)
    BY <1>1 DEF OneDigest
  <1>3. KeyOf(a, t) = a.digests[e].key
    BY <1>1, <1>2, KeyOfSlot
  <1>4. InDigest(b, t, e) /\ b.digests[e].key = a.digests[e].key
    BY <1>2
  <1>5. KeyOf(b, t) = b.digests[e].key
    BY <1>4, KeyOfSlot
  <1>6. QED BY <1>3, <1>4, <1>5

\* A change that leaves areas and digests alone keeps a document well formed.
LEMMA HeaderOnly ==
  ASSUME NEW a, NEW m, WF(a), IsDoc(m), m.digests = a.digests, m.requirements = a.requirements,
         DOMAIN m.keyslots = DOMAIN a.keyslots,
         \A s \in DOMAIN a.keyslots :
           m.keyslots[s].off = a.keyslots[s].off /\ m.keyslots[s].len = a.keyslots[s].len
           /\ m.keyslots[s].salt = a.keyslots[s].salt,
         TokensClosed(m)
  PROVE  /\ HdrChanged(a, LUKS2_digests_erase_unused(m))
         /\ KeepsBound(a, LUKS2_digests_erase_unused(m), DOMAIN a.keyslots)
  <1> DEFINE b == LUKS2_digests_erase_unused(m)
             u == DigestsUsed(a.digests)
  <1>1. /\ IsDoc(a) /\ TokensClosed(a) /\ DigestsClosed(a) /\ OneDigest(a) /\ OneData(a) /\ AreasApart(a)
    BY DEF WF
  <1>2. Fields(b, m.keyslots, u, m.tokens, m.requirements)
    BY EraseUnused
  <1> HIDE DEF b, u
  <1>3. /\ IsDoc(b) /\ b.keyslots = m.keyslots /\ b.digests = u
        /\ b.tokens = m.tokens /\ b.requirements = a.requirements
    BY <1>2 DEF Fields
  <1>4. /\ DOMAIN u = {e \in DOMAIN a.digests : a.digests[e].keyslots # {} \/ a.digests[e].segments # {}}
        /\ \A e \in DOMAIN u : u[e] = a.digests[e]
    <2>1. IsMap(a.digests, DigestIds, DigRec)
      BY <1>1, DocFields
    <2>2. QED BY <2>1, DigestsUsedFact DEF u
  <1>5. \A e \in DigestIds : \A t :
          (InDigest(b, t, e) <=> InDigest(a, t, e)) /\ (InDigest(a, t, e) => b.digests[e].key = a.digests[e].key)
    BY <1>3, <1>4 DEF InDigest
  <1>6. \A e \in DigestIds : HasData(b, e) <=> HasData(a, e)
    BY <1>3, <1>4 DEF HasData
  <1>7. OneDigest(b)
    BY <1>1, <1>3, <1>5 DEF OneDigest
  <1>8. OneData(b)
    BY <1>1, <1>6 DEF OneData
  <1>9. DigestsClosed(b) /\ TokensClosed(b)
    BY <1>1, <1>3, <1>4 DEF DigestsClosed, TokensClosed
  <1>10. AreasApart(b)
    BY <1>1, <1>3 DEF AreasApart, Inside, Apart
  <1>11. WF(b)
    BY <1>3, <1>7, <1>8, <1>9, <1>10 DEF WF
  <1>12. \A t \in DOMAIN a.keyslots : KeyOf(b, t) = KeyOf(a, t)
    BY <1>3, <1>5, <1>7, SameKeys
  <1>13. HdrChanged(a, b)
    BY <1>3, <1>11, <1>12 DEF HdrChanged, SameSlot
  <1>14. KeepsBound(a, b, DOMAIN a.keyslots)
    BY <1>3, <1>5, <1>6 DEF KeepsBound, Bound
  <1>15. QED BY <1>13, <1>14 DEF b

\* Setting a volume key moves the data to a digest that has a keyslot.
LEMMA SetKeyFact ==
  ASSUME NEW doc, WF(doc), NEW d \in DOMAIN doc.digests, doc.digests[d].keyslots # {}
  PROVE  /\ HdrChanged(doc, LUKS2_digests_erase_unused(SetKeyDoc(doc, d)))
         /\ \E s \in Slots : Bound(LUKS2_digests_erase_unused(SetKeyDoc(doc, d)), s)
  <1> DEFINE c == DigestsSegment(doc.digests, 0, ANY_DIGEST, FALSE)
             e1 == [doc EXCEPT !.digests = c]
             f == DigestsSegment(c, 0, d, TRUE)
             e2 == [e1 EXCEPT !.digests = f]
             u == DigestsUsed(f)
             b == LUKS2_digests_erase_unused(SetKeyDoc(doc, d))
  <1>1. /\ IsDoc(doc) /\ TokensClosed(doc) /\ DigestsClosed(doc) /\ OneDigest(doc) /\ OneData(doc) /\ AreasApart(doc)
    BY DEF WF
  <1>2. IsMap(doc.digests, DigestIds, DigRec) /\ d \in DigestIds
    BY <1>1, DocFields DEF IsMap
  <1>3. IsMap(c, DigestIds, DigRec) /\ DigestsMoved(doc.digests, f, d)
    BY <1>2, DigestsSegmentFact
  <1>4. /\ IsMap(c, DigestIds, DigRec) /\ IsMap(f, DigestIds, DigRec) /\ DOMAIN f = DOMAIN doc.digests
        /\ \A e \in DOMAIN doc.digests :
             /\ f[e].key = doc.digests[e].key /\ f[e].keyslots = doc.digests[e].keyslots
             /\ f[e].segments = IF e = d THEN {0} ELSE {}
    BY <1>3 DEF DigestsMoved
  <1>5. SetKeyDoc(doc, d) = e2
    <2>1. LUKS2_get_default_segment(doc) = 0
      BY <1>1, SegmentCount
    <2>2. SetKeyDoc(doc, d) =
            LUKS2_digest_segment_assign(LUKS2_digest_segment_assign(doc, 0, ANY_DIGEST, FALSE), 0, d, TRUE)
      BY <2>1 DEF SetKeyDoc
    <2>3. LUKS2_digest_segment_assign(doc, 0, ANY_DIGEST, FALSE) = e1
      BY DEF LUKS2_digest_segment_assign, DigestsSegment
    <2> HIDE DEF c
    <2>4. e1.digests = c
      BY <1>1, <1>4, Replaced DEF Fields
    <2> HIDE DEF e1
    <2>5. LUKS2_digest_segment_assign(e1, 0, d, TRUE) = e2
      BY <2>4 DEF LUKS2_digest_segment_assign, DigestsSegment
    <2>6. QED BY <2>2, <2>3, <2>5
  <1> HIDE DEF c
  <1>6. Fields(e1, doc.keyslots, c, doc.tokens, doc.requirements)
    BY <1>1, <1>4, Replaced
  <1> HIDE DEF e1, f
  <1>7. Fields(e2, doc.keyslots, f, doc.tokens, doc.requirements)
    <2>1. IsDoc(e1) /\ e1.keyslots = doc.keyslots /\ e1.tokens = doc.tokens /\ e1.requirements = doc.requirements
      BY <1>6 DEF Fields
    <2>2. Fields(e2, e1.keyslots, f, e1.tokens, e1.requirements)
      BY <1>4, <2>1, Replaced
    <2>3. QED BY <2>1, <2>2
  <1> HIDE DEF e2
  <1>8. Fields(b, doc.keyslots, u, doc.tokens, doc.requirements)
    <2>1. IsDoc(e2) /\ e2.keyslots = doc.keyslots /\ e2.tokens = doc.tokens
          /\ e2.requirements = doc.requirements /\ e2.digests = f
      BY <1>7 DEF Fields
    <2>2. Fields(LUKS2_digests_erase_unused(e2), e2.keyslots, DigestsUsed(e2.digests), e2.tokens, e2.requirements)
      BY <2>1, EraseUnused
    <2>3. QED BY <1>5, <2>1, <2>2
  <1> HIDE DEF b, u
  <1>9. /\ IsDoc(b) /\ b.keyslots = doc.keyslots /\ b.digests = u
        /\ b.tokens = doc.tokens /\ b.requirements = doc.requirements
    BY <1>8 DEF Fields
  <1>10. /\ DOMAIN u = {e \in DOMAIN f : f[e].keyslots # {} \/ f[e].segments # {}}
         /\ \A e \in DOMAIN u : u[e] = f[e]
    <2>1. IsMap(f, DigestIds, DigRec)
      BY <1>4
    <2>2. QED BY <2>1, DigestsUsedFact DEF u
  <1>11. \A e \in DigestIds : \A t :
          (InDigest(b, t, e) <=> InDigest(doc, t, e)) /\ (InDigest(doc, t, e) => b.digests[e].key = doc.digests[e].key)
    BY <1>4, <1>9, <1>10 DEF InDigest
  <1>12. \A e \in DigestIds : HasData(b, e) <=> e = d
    <2>1. d \in DOMAIN u /\ f[d].segments = {0}
      BY <1>4, <1>10
    <2>2. QED BY <1>2, <1>4, <1>9, <1>10, <2>1 DEF HasData
  <1>13. OneDigest(b)
    BY <1>1, <1>9, <1>11 DEF OneDigest
  <1>14. OneData(b)
    BY <1>2, <1>12 DEF OneData
  <1>15. DigestsClosed(b) /\ TokensClosed(b) /\ AreasApart(b)
    BY <1>1, <1>4, <1>9, <1>10 DEF DigestsClosed, TokensClosed, AreasApart
  <1>16. WF(b)
    BY <1>9, <1>13, <1>14, <1>15 DEF WF
  <1>17. \A t \in DOMAIN doc.keyslots : KeyOf(b, t) = KeyOf(doc, t)
    BY <1>9, <1>11, <1>13, SameKeys
  <1>18. HdrChanged(doc, b)
    BY <1>9, <1>16, <1>17 DEF HdrChanged, SameSlot
  <1>19. \E s \in Slots : Bound(b, s)
    <2>1. PICK s : s \in doc.digests[d].keyslots
      OBVIOUS
    <2>2. s \in DOMAIN doc.keyslots /\ InDigest(doc, s, d)
      BY <1>1, <2>1 DEF DigestsClosed, InDigest
    <2>3. s \in Slots
      BY <2>2, SlotIn
    <2>4. QED BY <1>2, <1>9, <1>11, <1>12, <2>2, <2>3 DEF Bound
  <1>20. QED BY <1>18, <1>19 DEF b

\* The change a step makes in memory, by the kind of the step.
LEMMA MemoryChangeIs ==
  ASSUME NEW doc, NEW st
  PROVE  /\ st.do = "store" => MemoryChange(doc, st) = StoreDoc(doc, st)
         /\ st.do = "wipe" => MemoryChange(doc, st) = WipeDoc(doc, st)
         /\ st.do = "setkey" => MemoryChange(doc, st) = SetKeyDoc(doc, st.digest)
         /\ st.do = "token" => MemoryChange(doc, st) = TokenDoc(doc, st.token, st.toks)
         /\ st.do = "assign" => MemoryChange(doc, st) = LUKS2_token_assign(doc, st.slot, st.token, st.assign)
         /\ st.do = "priority" => MemoryChange(doc, st) = LUKS2_keyslot_priority_set(doc, st.slot, st.prio)
  <1>1. st.do = "store" => MemoryChange(doc, st) = StoreDoc(doc, st)
    BY Zenon DEF MemoryChange
  <1>2. st.do = "wipe" => MemoryChange(doc, st) = WipeDoc(doc, st)
    BY Zenon DEF MemoryChange
  <1>3. st.do = "setkey" => MemoryChange(doc, st) = SetKeyDoc(doc, st.digest)
    BY Zenon DEF MemoryChange
  <1>4. st.do = "token" => MemoryChange(doc, st) = TokenDoc(doc, st.token, st.toks)
    BY Zenon DEF MemoryChange
  <1>5. st.do = "assign" => MemoryChange(doc, st) = LUKS2_token_assign(doc, st.slot, st.token, st.assign)
    BY Zenon DEF MemoryChange
  <1>6. st.do = "priority" => MemoryChange(doc, st) = LUKS2_keyslot_priority_set(doc, st.slot, st.prio)
    BY Zenon DEF MemoryChange
  <1>7. QED BY <1>1, <1>2, <1>3, <1>4, <1>5, <1>6

After(doc, st) == LUKS2_digests_erase_unused(MemoryChange(doc, st))

\* Only the tokens differ.
LEMMA TokensOnly ==
  ASSUME NEW a, NEW m, WF(a), Fields(m, a.keyslots, a.digests, m.tokens, a.requirements), TokensClosed(m)
  PROVE  /\ HdrChanged(a, LUKS2_digests_erase_unused(m))
         /\ KeepsBound(a, LUKS2_digests_erase_unused(m), DOMAIN a.keyslots)
  <1>1. /\ IsDoc(m) /\ m.digests = a.digests /\ m.requirements = a.requirements /\ m.keyslots = a.keyslots
    BY DEF Fields
  <1>2. QED BY <1>1, HeaderOnly

\* Token, assignment and priority steps change the header alone.
LEMMA TokenStepFact ==
  ASSUME NEW doc, WF(doc), NEW st, TokenStepOK(doc, st)
  PROVE  HdrChanged(doc, After(doc, st)) /\ KeepsBound(doc, After(doc, st), DOMAIN doc.keyslots)
  <1>0. /\ IsDoc(doc) /\ TokensClosed(doc) /\ IsMap(doc.tokens, TokenIds, TokRec) /\ IsMap(doc.keyslots, Slots, KsRec)
        /\ \A s \in DOMAIN doc.keyslots : s \in Slots
        /\ \A t \in TokenIds : t \in Int
    BY DocFields DEF WF, TokenIds, IsMap
  <1>1. CASE \E t \in TokenIds, pass \in Pass : st = TokenStep(t, {[pass |-> pass, reply |-> 0, keyslots |-> {}]})
    <2>1. PICK t \in TokenIds, pass \in Pass : st = TokenStep(t, {[pass |-> pass, reply |-> 0, keyslots |-> {}]})
      BY <1>1
    <2> DEFINE r == [pass |-> pass, reply |-> 0, keyslots |-> {}]
               w == With(doc.tokens, t, r)
               m == [doc EXCEPT !.tokens = w]
    <2>2. r \in TokRec /\ r.keyslots = {}
      BY DEF TokRec
    <2> HIDE DEF r
    <2>3. st.do = "token" /\ st.token = t /\ st.toks = {r}
      BY <2>1 DEF TokenStep, r
    <2>4. /\ IsMap(w, TokenIds, TokRec) /\ DOMAIN w = DOMAIN doc.tokens \cup {t} /\ w[t] = r
          /\ \A y \in DOMAIN doc.tokens : y # t => w[y] = doc.tokens[y]
      BY <1>0, <2>2, WithMap
    <2>5. MemoryChange(doc, st) = m
      <3>1. MemoryChange(doc, st) = TokenDoc(doc, t, {r})
        BY <2>3, MemoryChangeIs
      <3>2. (CHOOSE k \in {r} : TRUE) = r
        OBVIOUS
      <3>3. {r} # {}
        OBVIOUS
      <3>4. TokenDoc(doc, t, {r}) =
              [doc EXCEPT !.tokens = IF {r} = {} THEN Without(doc.tokens, t)
                                     ELSE With(doc.tokens, t, CHOOSE k \in {r} : TRUE)]
        BY Zenon DEF TokenDoc
      <3>5. QED BY <3>1, <3>2, <3>3, <3>4, Zenon
    <2> HIDE DEF w
    <2>6. Fields(m, doc.keyslots, doc.digests, w, doc.requirements)
      BY <1>0, <2>4, Replaced
    <2> HIDE DEF m
    <2>7. TokensClosed(m)
      BY <1>0, <2>2, <2>4, <2>6 DEF Fields, TokensClosed
    <2>8. Fields(m, doc.keyslots, doc.digests, m.tokens, doc.requirements)
      BY <2>6 DEF Fields
    <2>9. QED BY <2>5, <2>7, <2>8, TokensOnly DEF After
  <1>2. CASE \E t \in TokenIds : st = TokenStep(t, {})
    <2>1. PICK t \in TokenIds : st = TokenStep(t, {})
      BY <1>2
    <2> DEFINE w == Without(doc.tokens, t)
               m == [doc EXCEPT !.tokens = w]
    <2>2. st.do = "token" /\ st.token = t /\ st.toks = {}
      BY <2>1 DEF TokenStep
    <2>3. /\ IsMap(w, TokenIds, TokRec) /\ DOMAIN w = DOMAIN doc.tokens \ {t}
          /\ \A y \in DOMAIN doc.tokens \ {t} : w[y] = doc.tokens[y]
      BY <1>0, WithoutMap
    <2>4. MemoryChange(doc, st) = m
      <3>1. MemoryChange(doc, st) = TokenDoc(doc, t, {})
        BY <2>2, MemoryChangeIs
      <3>2. TokenDoc(doc, t, {}) =
              [doc EXCEPT !.tokens = IF {} = {} THEN Without(doc.tokens, t)
                                     ELSE With(doc.tokens, t, CHOOSE k \in {} : TRUE)]
        BY Zenon DEF TokenDoc
      <3>3. QED BY <3>1, <3>2, Zenon
    <2> HIDE DEF w
    <2>5. Fields(m, doc.keyslots, doc.digests, w, doc.requirements)
      BY <1>0, <2>3, Replaced
    <2> HIDE DEF m
    <2>6. TokensClosed(m)
      BY <1>0, <2>3, <2>5 DEF Fields, TokensClosed
    <2>7. Fields(m, doc.keyslots, doc.digests, m.tokens, doc.requirements)
      BY <2>5 DEF Fields
    <2>8. QED BY <2>4, <2>6, <2>7, TokensOnly DEF After
  <1>3. CASE \E t \in TokenIds, s \in DOMAIN doc.keyslots : st = AssignStep(t, s, TRUE)
    <2>1. PICK t \in TokenIds, s \in DOMAIN doc.keyslots : st = AssignStep(t, s, TRUE)
      BY <1>3
    <2> DEFINE m == LUKS2_token_assign(doc, s, t, TRUE)
    <2>2. MemoryChange(doc, st) = m
      <3>1. st.do = "assign" /\ st.slot = s /\ st.token = t /\ st.assign = TRUE
        BY <2>1, Zenon DEF AssignStep
      <3>2. MemoryChange(doc, st) = LUKS2_token_assign(doc, st.slot, st.token, st.assign)
        BY <3>1, MemoryChangeIs
      <3>3. QED BY <3>1, <3>2, Zenon
    <2>3. /\ Fields(m, doc.keyslots, doc.digests, m.tokens, doc.requirements)
          /\ TokensNear(doc.tokens, m.tokens, s)
      BY <1>0, AssignTokens
    <2> HIDE DEF m
    <2>4. TokensClosed(m)
      BY <1>0, <2>3 DEF Fields, TokensClosed, TokensNear
    <2>5. QED BY <2>2, <2>3, <2>4, TokensOnly DEF After
  <1>4. CASE \E t \in TokenIds, s \in Slots : st = AssignStep(t, s, FALSE)
    <2>1. PICK t \in TokenIds, s \in Slots : st = AssignStep(t, s, FALSE)
      BY <1>4
    <2> DEFINE m == LUKS2_token_assign(doc, s, t, FALSE)
    <2>2. MemoryChange(doc, st) = m
      <3>1. st.do = "assign" /\ st.slot = s /\ st.token = t /\ st.assign = FALSE
        BY <2>1, Zenon DEF AssignStep
      <3>2. MemoryChange(doc, st) = LUKS2_token_assign(doc, st.slot, st.token, st.assign)
        BY <3>1, MemoryChangeIs
      <3>3. QED BY <3>1, <3>2, Zenon
    <2>3. /\ Fields(m, doc.keyslots, doc.digests, m.tokens, doc.requirements)
          /\ TokensNear(doc.tokens, m.tokens, s)
          /\ \A u \in DOMAIN doc.tokens : m.tokens[u].keyslots \subseteq doc.tokens[u].keyslots
      BY <1>0, UnassignTokens
    <2> HIDE DEF m
    <2>4. TokensClosed(m)
      BY <1>0, <2>3 DEF Fields, TokensClosed, TokensNear
    <2>5. QED BY <2>2, <2>3, <2>4, TokensOnly DEF After
  <1>5. CASE \E s \in DOMAIN doc.keyslots, prio \in {PRIO_IGNORE, PRIO_NORMAL, PRIO_PREFER} : st = PriorityStep(s, prio)
    <2>1. PICK s \in DOMAIN doc.keyslots, prio \in {PRIO_IGNORE, PRIO_NORMAL, PRIO_PREFER} : st = PriorityStep(s, prio)
      BY <1>5
    <2> DEFINE k == [doc.keyslots[s] EXCEPT !.prio = prio]
               w == With(doc.keyslots, s, k)
               m == [doc EXCEPT !.keyslots = w]
    <2>2. prio \in Int
      BY DEF PRIO_IGNORE, PRIO_NORMAL, PRIO_PREFER
    <2>3. doc.keyslots[s] \in KsRec
      BY <1>0 DEF IsMap
    <2>4. k \in KsRec /\ k.off = doc.keyslots[s].off /\ k.len = doc.keyslots[s].len /\ k.salt = doc.keyslots[s].salt
      <3>1. \A x \in KsRec, n \in Int : LET y == [x EXCEPT !.prio = n] IN
              y \in KsRec /\ y.off = x.off /\ y.len = x.len /\ y.salt = x.salt
        BY DEF KsRec
      <3>2. QED BY <2>2, <2>3, <3>1
    <2>5. MemoryChange(doc, st) = m
      <3>1. st.do = "priority" /\ st.slot = s /\ st.prio = prio
        BY <2>1 DEF PriorityStep
      <3>2. MemoryChange(doc, st) = LUKS2_keyslot_priority_set(doc, s, prio)
        BY <3>1, MemoryChangeIs
      <3>3. QED BY <3>2, Zenon DEF LUKS2_keyslot_priority_set
    <2> HIDE DEF k
    <2>6. /\ IsMap(w, Slots, KsRec) /\ DOMAIN w = DOMAIN doc.keyslots \cup {s} /\ w[s] = k
          /\ \A y \in DOMAIN doc.keyslots : y # s => w[y] = doc.keyslots[y]
      <3>1. IsMap(doc.keyslots, Slots, KsRec) /\ s \in Slots /\ k \in KsRec
        BY <1>0, <2>4
      <3>2. QED BY <3>1 DEF With, IsMap
    <2> HIDE DEF w
    <2>7. Fields(m, w, doc.digests, doc.tokens, doc.requirements)
      BY <1>0, <2>6, Replaced
    <2> HIDE DEF m
    <2>8. /\ IsDoc(m) /\ m.digests = doc.digests /\ m.requirements = doc.requirements
          /\ DOMAIN m.keyslots = DOMAIN doc.keyslots
          /\ \A x \in DOMAIN doc.keyslots :
               m.keyslots[x].off = doc.keyslots[x].off /\ m.keyslots[x].len = doc.keyslots[x].len
               /\ m.keyslots[x].salt = doc.keyslots[x].salt
      <3>1. m.keyslots = w /\ IsDoc(m) /\ m.digests = doc.digests /\ m.requirements = doc.requirements
        BY <2>7 DEF Fields
      <3>2. QED BY <2>4, <2>6, <3>1
    <2>9. TokensClosed(m)
      BY <1>0, <2>7, <2>8 DEF Fields, TokensClosed
    <2>10. QED BY <2>5, <2>8, <2>9, HeaderOnly DEF After
  <1>6. QED BY <1>1, <1>2, <1>3, <1>4, <1>5 DEF TokenStepOK

------------------------------------------------------------------------------
\* The first step of a plan.

GhostsOK(st) == st.drop \subseteq Pairs /\ st.into \subseteq Pairs /\ st.gain \subseteq SUBSET Pairs
StoreNewStep(doc, st) ==
  /\ st.do = "store" /\ st.token \in Int /\ st.key \in VolumeKeys /\ st.pass \in Pass
  /\ NewSlot(doc, st.slot, st.key, st.digest) /\ st.revoke = {}
StoreOverStep(doc, st) ==
  /\ st.do = "store" /\ st.token \in Int /\ st.key \in VolumeKeys /\ st.pass \in Pass /\ st.digest \in DigestIds
  /\ Holding(doc, st.slot, st.key, st.digest) /\ st.revoke = {}
OnlyStep(doc, st) ==
  st.do = "wipe" /\ st.only /\ st.swap = ANY_SLOT /\ st.slot \in DOMAIN doc.keyslots /\ st.into = {} /\ st.revoke = {}
RemoveStep(doc, st) ==
  st.do = "wipe" /\ WipeOK(doc, st) /\ st.revoke = {SaltOf(doc, Target(st))}
HeaderStep(doc, st) ==
  /\ st.do \notin {"store", "wipe"} /\ (SetKeyOK(doc, st) \/ TokenStepOK(doc, st))
  /\ st.drop = {} /\ st.into = {} /\ st.gain = {} /\ st.revoke = {}
HeadKind(doc, st) ==
  /\ GhostsOK(st)
  /\ \/ StoreNewStep(doc, st) \/ StoreOverStep(doc, st) \/ OnlyStep(doc, st) \/ RemoveStep(doc, st) \/ HeaderStep(doc, st)

\* The steps that write the header and no area.
LEMMA HeaderSteps ==
  ASSUME NEW doc, NEW st, SetKeyOK(doc, st) \/ TokenStepOK(doc, st)
  PROVE  HeaderStep(doc, st)
  <1>1. /\ st.do \notin {"store", "wipe"} /\ st.drop = {} /\ st.into = {} /\ st.gain = {} /\ st.revoke = {}
    <2>1. CASE SetKeyOK(doc, st)
      BY <2>1 DEF SetKeyOK, SetKeyStep
    <2>2. CASE \E t \in TokenIds, pass \in Pass : st = TokenStep(t, {[pass |-> pass, reply |-> 0, keyslots |-> {}]})
      BY <2>2 DEF TokenStep
    <2>3. CASE \E t \in TokenIds : st = TokenStep(t, {})
      BY <2>3 DEF TokenStep
    <2>4. CASE \E t \in TokenIds, s \in DOMAIN doc.keyslots : st = AssignStep(t, s, TRUE)
      BY <2>4 DEF AssignStep
    <2>5. CASE \E t \in TokenIds, s \in Slots : st = AssignStep(t, s, FALSE)
      BY <2>5 DEF AssignStep
    <2>6. CASE \E s \in DOMAIN doc.keyslots, prio \in {PRIO_IGNORE, PRIO_NORMAL, PRIO_PREFER} : st = PriorityStep(s, prio)
      BY <2>6 DEF PriorityStep
    <2>7. QED BY <2>1, <2>2, <2>3, <2>4, <2>5, <2>6 DEF TokenStepOK
  <1>2. QED BY <1>1 DEF HeaderStep

\* The first step of a plan is of one of the kinds.
LEMMA HeadFact ==
  ASSUME NEW doc, WF(doc), NEW plan, PlanOK(doc, plan)
  PROVE  HeadKind(doc, Head(plan))
  <1>0. \A d \in DOMAIN doc.digests : d \in DigestIds
    BY DocFields DEF WF, IsMap
  <1>1. CASE PlanAdd(doc, plan)
    <2>1. PICK s \in Slots, pass \in Pass, key \in VolumeKeys, d \in DigestIds, tok \in TokenIds \cup {ANY_TOKEN} :
            /\ NewSlot(doc, s, key, d)
            /\ plan = <<StoreStep(s, pass, key, d, tok, ANY_SLOT, {}, {}, {{<<pass, key>>}})>>
      BY <1>1 DEF PlanAdd
    <2>2. Head(plan) = StoreStep(s, pass, key, d, tok, ANY_SLOT, {}, {}, {{<<pass, key>>}})
      BY <2>1
    <2>3. tok \in Int /\ <<pass, key>> \in Pairs
      BY DEF TokenIds, ANY_TOKEN, Pairs
    <2>4. QED BY <2>1, <2>2, <2>3 DEF HeadKind, GhostsOK, StoreNewStep, StoreStep
  <1>2. CASE PlanChange1(doc, plan)
    <2>1. PICK f \in Slots, r \in DOMAIN doc.keyslots, old \in Pass, new \in Pass, key \in VolumeKeys, d \in DOMAIN doc.digests :
            /\ NewSlot(doc, f, key, d) /\ Holding(doc, r, key, d)
            /\ plan = <<StoreStep(f, new, key, d, ANY_TOKEN, r, {<<old, key>>}, {<<old, key>>, <<new, key>>}, {}),
                        WipeStep(f, FALSE, r, {<<old, key>>}, {<<new, key>>}, {SaltOf(doc, r)})>>
      BY <1>2 DEF PlanChange1
    <2>2. Head(plan) = StoreStep(f, new, key, d, ANY_TOKEN, r, {<<old, key>>}, {<<old, key>>, <<new, key>>}, {})
      BY <2>1
    <2>3. ANY_TOKEN \in Int /\ <<old, key>> \in Pairs /\ <<new, key>> \in Pairs
      BY DEF ANY_TOKEN, Pairs
    <2>4. QED BY <2>1, <2>2, <2>3 DEF HeadKind, GhostsOK, StoreNewStep, StoreStep
  <1>3. CASE PlanChange2(doc, plan)
    <2>1. PICK f \in DOMAIN doc.keyslots, r \in DOMAIN doc.keyslots, old \in Pass, new \in Pass, key \in VolumeKeys,
               d \in DOMAIN doc.digests :
            /\ f # r /\ Holding(doc, f, key, d) /\ Holding(doc, r, key, d)
            /\ plan = <<WipeStep(f, FALSE, r, {<<old, key>>}, {<<new, key>>}, {SaltOf(doc, r)})>>
      BY <1>3 DEF PlanChange2
    <2>2. Head(plan) = WipeStep(f, FALSE, r, {<<old, key>>}, {<<new, key>>}, {SaltOf(doc, r)})
      BY <2>1
    <2>3. r # ANY_SLOT /\ <<old, key>> \in Pairs /\ <<new, key>> \in Pairs
      BY SlotIn DEF Pairs
    <2>4. QED BY <2>1, <2>2, <2>3 DEF HeadKind, GhostsOK, RemoveStep, WipeOK, WipeStep, Target
  <1>4. CASE PlanInPlace1(doc, plan)
    <2>1. PICK r \in DOMAIN doc.keyslots, old \in Pass, new \in Pass, key \in VolumeKeys, d \in DOMAIN doc.digests :
            /\ Holding(doc, r, key, d)
            /\ plan = <<WipeStep(r, TRUE, ANY_SLOT, {<<old, key>>}, {}, {}),
                        StoreStep(r, new, key, d, ANY_TOKEN, ANY_SLOT, {}, {}, {{<<new, key>>}})>>
      BY <1>4 DEF PlanInPlace1
    <2>2. Head(plan) = WipeStep(r, TRUE, ANY_SLOT, {<<old, key>>}, {}, {})
      BY <2>1
    <2>3. <<old, key>> \in Pairs
      BY DEF Pairs
    <2>4. QED BY <2>1, <2>2, <2>3 DEF HeadKind, GhostsOK, OnlyStep, WipeStep
  <1>5. CASE PlanInPlace2(doc, plan)
    <2>1. PICK r \in DOMAIN doc.keyslots, new \in Pass, key \in VolumeKeys, d \in DOMAIN doc.digests :
            /\ Holding(doc, r, key, d)
            /\ plan = <<StoreStep(r, new, key, d, ANY_TOKEN, ANY_SLOT, {}, {}, {{<<new, key>>}})>>
      BY <1>5 DEF PlanInPlace2
    <2>2. Head(plan) = StoreStep(r, new, key, d, ANY_TOKEN, ANY_SLOT, {}, {}, {{<<new, key>>}})
      BY <2>1
    <2>3. ANY_TOKEN \in Int /\ <<new, key>> \in Pairs
      BY DEF ANY_TOKEN, Pairs
    <2>4. QED BY <1>0, <2>1, <2>2, <2>3 DEF HeadKind, GhostsOK, StoreOverStep, StoreStep
  <1>6. CASE PlanDestroy(doc, plan)
    <2>1. plan \in Seq(DestroySteps) /\ plan # << >>
      BY <1>6 DEF PlanDestroy
    <2>2. Len(plan) \in Nat /\ 1 \in 1..Len(plan) /\ Head(plan) = plan[1] /\ plan[1] \in DestroySteps
      BY <2>1
    <2>3. plan[1].slot \in DOMAIN doc.keyslots /\ plan[1].revoke = {SaltOf(doc, plan[1].slot)}
      BY <1>6, <2>2 DEF PlanDestroy
    <2>4. QED BY <2>2, <2>3 DEF HeadKind, GhostsOK, RemoveStep, WipeOK, Target, DestroySteps
  <1>7. CASE PlanHeader(doc, plan)
    <2>1. Head(plan) = plan[1] /\ (SetKeyOK(doc, plan[1]) \/ TokenStepOK(doc, plan[1]))
      BY <1>7 DEF PlanHeader
    <2>2. HeaderStep(doc, plan[1])
      BY <2>1, HeaderSteps
    <2>3. QED BY <2>1, <2>2 DEF HeadKind, GhostsOK, HeaderStep
  <1>8. QED BY <1>1, <1>2, <1>3, <1>4, <1>5, <1>6, <1>7 DEF PlanOK

\* The document after a step, by the kind of the step.
LEMMA AfterIs ==
  ASSUME NEW doc, WF(doc), NEW st, salts \in Nat
  PROVE  /\ StoreNewStep(doc, st) => StoredNew(doc, After(doc, st), st)
         /\ StoreOverStep(doc, st) => StoredOver(doc, After(doc, st), st)
         /\ OnlyStep(doc, st) => HdrChanged(doc, After(doc, st))
         /\ RemoveStep(doc, st) /\ st.swap = ANY_SLOT => Wiped(doc, After(doc, st), st.slot)
         /\ RemoveStep(doc, st) /\ st.swap # ANY_SLOT => WipedSwap(doc, After(doc, st), st)
         /\ HeaderStep(doc, st) => HdrChanged(doc, After(doc, st))
  <1>1. ASSUME StoreNewStep(doc, st) PROVE StoredNew(doc, After(doc, st), st)
    BY <1>1, MemoryChangeIs, StoreNewFact DEF StoreNewStep, After
  <1>2. ASSUME StoreOverStep(doc, st) PROVE StoredOver(doc, After(doc, st), st)
    BY <1>2, MemoryChangeIs, StoreOverFact DEF StoreOverStep, After
  <1>3. ASSUME OnlyStep(doc, st) PROVE HdrChanged(doc, After(doc, st))
    <2>1. MemoryChange(doc, st) = doc
      BY <1>3, MemoryChangeIs DEF OnlyStep, WipeDoc
    <2>2. IsDoc(doc) /\ TokensClosed(doc)
      BY DEF WF
    <2>3. QED BY <2>1, <2>2, HeaderOnly DEF After
  <1>4. ASSUME RemoveStep(doc, st), st.swap = ANY_SLOT PROVE Wiped(doc, After(doc, st), st.slot)
    BY <1>4, MemoryChangeIs, WipeSwapFact DEF RemoveStep, After
  <1>5. ASSUME RemoveStep(doc, st), st.swap # ANY_SLOT PROVE WipedSwap(doc, After(doc, st), st)
    BY <1>5, MemoryChangeIs, WipeSwapFact DEF RemoveStep, After
  <1>6. ASSUME HeaderStep(doc, st) PROVE HdrChanged(doc, After(doc, st))
    <2>1. CASE TokenStepOK(doc, st)
      BY <2>1, TokenStepFact
    <2>2. CASE SetKeyOK(doc, st)
      <3>1. PICK d \in DOMAIN doc.digests : doc.digests[d].keyslots # {} /\ st = SetKeyStep(d)
        BY <2>2 DEF SetKeyOK
      <3>2. st.do = "setkey" /\ st.digest = d
        BY <3>1 DEF SetKeyStep
      <3>3. QED BY <3>1, <3>2, MemoryChangeIs, SetKeyFact DEF After
    <2>3. QED BY <1>6, <2>1, <2>2 DEF HeaderStep
  <1>7. QED BY <1>1, <1>2, <1>3, <1>4, <1>5, <1>6

\* The document a step writes is well formed and has the same requirements.
LEMMA AfterWF ==
  ASSUME NEW doc, WF(doc), NEW st, HeadKind(doc, st), salts \in Nat
  PROVE  WF(After(doc, st)) /\ After(doc, st).requirements = doc.requirements
  BY AfterIs DEF HeadKind, StoredNew, StoredOver, HdrChanged, Wiped, WipedSwap

\* One and two steps.
LEMMA OneStep ==
  ASSUME NEW a
  PROVE  Tail(<<a>>) = << >> /\ Head(<<a>>) = a /\ <<a>>[1] = a /\ DOMAIN <<a>> = {1} /\ Len(<<a>>) = 1
  <1>1. <<a>> \in Seq({a}) /\ <<a>>[1] = a
    OBVIOUS
  <1>2. Len(Tail(<<a>>)) = 0 /\ Tail(<<a>>) \in Seq({a})
    BY <1>1
  <1>3. QED BY <1>1, <1>2

\* A plan of two steps, taken apart.
LEMMA TwoSteps ==
  ASSUME NEW a, NEW b
  PROVE  Tail(<<a, b>>) = <<b>> /\ Head(<<a, b>>) = a /\ <<a, b>>[1] = a /\ <<a, b>>[2] = b /\ DOMAIN <<a, b>> = {1, 2}
  <1>1. <<a, b>> \in Seq({a, b}) /\ <<a, b>>[1] = a /\ <<a, b>>[2] = b /\ Len(<<a, b>>) = 2
    OBVIOUS
  <1>2. Tail(<<a, b>>) \in Seq({a, b}) /\ Len(Tail(<<a, b>>)) = 1 /\ Tail(<<a, b>>)[1] = b
    BY <1>1
  <1>3. <<b>> \in Seq({a, b}) /\ Len(<<b>>) = 1 /\ <<b>>[1] = b
    OBVIOUS
  <1>4. Tail(<<a, b>>) = <<b>>
    BY <1>2, <1>3
  <1>5. QED BY <1>1, <1>4

\* The document after a step that ran to its end.
Next1(doc, st) == IF WritesHeader(st) THEN After(doc, st) ELSE doc

\* What is left of a plan is a plan for the document its first step leaves.
LEMMA PlanAdvance ==
  ASSUME NEW doc, WF(doc), salts \in Nat, NEW plan, PlanOK(doc, plan), Tail(plan) # << >>
  PROVE  PlanOK(Next1(doc, Head(plan)), Tail(plan))
  <1>0. \A d \in DOMAIN doc.digests : d \in DigestIds
    BY DocFields DEF WF, IsMap
  <1>1. ~PlanAdd(doc, plan) /\ ~PlanChange2(doc, plan) /\ ~PlanInPlace2(doc, plan)
    <2>1. \A a : plan # <<a>>
      BY OneStep
    <2>2. QED BY <2>1 DEF PlanAdd, PlanChange2, PlanInPlace2
  <1>2. CASE PlanChange1(doc, plan)
    <2>1. PICK f \in Slots, r \in DOMAIN doc.keyslots, old \in Pass, new \in Pass, key \in VolumeKeys, d \in DOMAIN doc.digests :
            /\ NewSlot(doc, f, key, d) /\ Holding(doc, r, key, d)
            /\ plan = <<StoreStep(f, new, key, d, ANY_TOKEN, r, {<<old, key>>}, {<<old, key>>, <<new, key>>}, {}),
                        WipeStep(f, FALSE, r, {<<old, key>>}, {<<new, key>>}, {SaltOf(doc, r)})>>
      BY <1>2 DEF PlanChange1
    <2> DEFINE st == StoreStep(f, new, key, d, ANY_TOKEN, r, {<<old, key>>}, {<<old, key>>, <<new, key>>}, {})
    <2>2. Head(plan) = st /\ Tail(plan) = <<WipeStep(f, FALSE, r, {<<old, key>>}, {<<new, key>>}, {SaltOf(doc, r)})>>
      BY <2>1, TwoSteps
    <2>3. st.slot = f /\ st.key = key /\ st.digest = d /\ StoreNewStep(doc, st) /\ WritesHeader(st)
      BY <2>1 DEF StoreNewStep, StoreStep, ANY_TOKEN, WritesHeader
    <2> HIDE DEF st
    <2>4. StoredNew(doc, After(doc, st), st)
      BY <2>3, AfterIs
    <2> DEFINE b == After(doc, st)
    <2> HIDE DEF b
    <2>5. StoredNew(doc, b, st) /\ Next1(doc, Head(plan)) = b
      BY <2>2, <2>3, <2>4 DEF Next1, b
    <2>6. Holding(b, f, key, d) /\ Holding(b, r, key, d) /\ SaltOf(b, r) = SaltOf(doc, r)
      BY <2>1, <2>3, <2>5 DEF StoredNew, Holding, SameSlot, SaltOf
    <2>7. f # r /\ f \in DOMAIN b.keyslots /\ r \in DOMAIN b.keyslots /\ d \in DOMAIN b.digests
      BY <2>1, <2>6 DEF NewSlot, Holding, InDigest
    <2>8. PlanChange2(b, Tail(plan))
      BY <2>2, <2>6, <2>7 DEF PlanChange2
    <2>9. QED BY <2>5, <2>8 DEF PlanOK
  <1>3. CASE PlanInPlace1(doc, plan)
    <2>1. PICK r \in DOMAIN doc.keyslots, old \in Pass, new \in Pass, key \in VolumeKeys, d \in DOMAIN doc.digests :
            /\ Holding(doc, r, key, d)
            /\ plan = <<WipeStep(r, TRUE, ANY_SLOT, {<<old, key>>}, {}, {}),
                        StoreStep(r, new, key, d, ANY_TOKEN, ANY_SLOT, {}, {}, {{<<new, key>>}})>>
      BY <1>3 DEF PlanInPlace1
    <2>2. /\ Head(plan) = WipeStep(r, TRUE, ANY_SLOT, {<<old, key>>}, {}, {})
          /\ Tail(plan) = <<StoreStep(r, new, key, d, ANY_TOKEN, ANY_SLOT, {}, {}, {{<<new, key>>}})>>
      BY <2>1, TwoSteps
    <2>3. Next1(doc, Head(plan)) = doc
      BY <2>2 DEF Next1, WritesHeader, WipeStep
    <2>4. PlanInPlace2(doc, Tail(plan))
      BY <2>1, <2>2 DEF PlanInPlace2
    <2>5. QED BY <2>3, <2>4 DEF PlanOK
  <1>4. CASE PlanDestroy(doc, plan)
    <2>1. plan \in Seq(DestroySteps) /\ plan # << >>
      BY <1>4 DEF PlanDestroy
    <2>2. Len(plan) \in Nat /\ 1 \in 1..Len(plan) /\ Head(plan) = plan[1] /\ plan[1] \in DestroySteps
      BY <2>1
    <2>3. plan[1].slot \in DOMAIN doc.keyslots /\ plan[1].revoke = {SaltOf(doc, plan[1].slot)}
      BY <1>4, <2>2 DEF PlanDestroy
    <2> DEFINE st == plan[1]
    <2>4. RemoveStep(doc, st) /\ st.swap = ANY_SLOT /\ WritesHeader(st)
      BY <2>2, <2>3 DEF RemoveStep, WipeOK, Target, DestroySteps, WritesHeader
    <2> HIDE DEF st
    <2>5. Wiped(doc, After(doc, st), st.slot)
      BY <2>4, AfterIs
    <2> DEFINE b == After(doc, st)
    <2> HIDE DEF b
    <2>6. Wiped(doc, b, st.slot) /\ Next1(doc, Head(plan)) = b
      BY <2>2, <2>4, <2>5 DEF Next1, b, st
    <2> DEFINE rest == Tail(plan)
    <2>7. /\ rest \in Seq(DestroySteps) /\ Len(rest) = Len(plan) - 1
          /\ \A i \in 1..Len(rest) : i + 1 \in 1..Len(plan) /\ rest[i] = plan[i + 1]
      BY <2>1
    <2>8. \A i \in 1..Len(rest) : rest[i].slot \in DOMAIN b.keyslots /\ rest[i].revoke = {SaltOf(b, rest[i].slot)}
      <3> TAKE i \in 1..Len(rest)
      <3>1. i + 1 \in 1..Len(plan) /\ rest[i] = plan[i + 1] /\ i + 1 # 1
        BY <2>7
      <3>2. plan[i + 1].slot \in DOMAIN doc.keyslots /\ plan[i + 1].revoke = {SaltOf(doc, plan[i + 1].slot)}
        BY <1>4, <3>1 DEF PlanDestroy
      <3>3. plan[i + 1].slot # plan[1].slot
        BY <1>4, <2>2, <3>1 DEF PlanDestroy
      <3>4. plan[i + 1].slot \in DOMAIN b.keyslots
        BY <2>6, <3>2, <3>3 DEF Wiped, st
      <3>5. SaltOf(b, plan[i + 1].slot) = SaltOf(doc, plan[i + 1].slot)
        BY <2>6, <3>4 DEF Wiped, SaltOf
      <3>6. QED BY <3>1, <3>2, <3>4, <3>5
    <2>9. \A i, j \in 1..Len(rest) : i # j => rest[i].slot # rest[j].slot
      <3> TAKE i, j \in 1..Len(rest)
      <3>1. i + 1 \in 1..Len(plan) /\ rest[i] = plan[i + 1] /\ j + 1 \in 1..Len(plan) /\ rest[j] = plan[j + 1]
        BY <2>7
      <3>2. i # j => i + 1 # j + 1
        OBVIOUS
      <3>3. QED BY <1>4, <3>1, <3>2 DEF PlanDestroy
    <2>10. PlanDestroy(b, rest)
      BY <2>7, <2>8, <2>9 DEF PlanDestroy
    <2>11. QED BY <2>6, <2>10 DEF PlanOK
  <1>5. CASE PlanHeader(doc, plan)
    <2>1. plan = <<plan[1], plan[2]>> /\ TokenStepOK(doc, plan[1]) /\ TokenStepOK(doc, plan[2])
      <3>1. CASE plan = <<plan[1]>>
        BY <3>1, OneStep, Zenon
      <3>2. QED BY <1>5, <3>1 DEF PlanHeader
    <2> DEFINE st == plan[1] 
               sn == plan[2]
    <2> HIDE DEF st, sn
    <2>2. plan = <<st, sn>> /\ TokenStepOK(doc, st) /\ TokenStepOK(doc, sn)
      BY <2>1 DEF st, sn
    <2>3. HeaderStep(doc, st)
      BY <2>2, HeaderSteps
    <2>4. Head(plan) = st /\ Tail(plan) = <<sn>>
      BY <2>2, TwoSteps
    <2> DEFINE b == After(doc, st)
    <2>5. HdrChanged(doc, b)
      BY <2>3, AfterIs
    <2>6. Next1(doc, Head(plan)) = b
      BY <2>3, <2>4 DEF Next1, WritesHeader, HeaderStep
    <2> HIDE DEF b
    <2>7. DOMAIN b.keyslots = DOMAIN doc.keyslots
      BY <2>5 DEF HdrChanged
    <2>8. TokenStepOK(b, sn)
      BY <2>2, <2>7 DEF TokenStepOK
    <2>9. PlanHeader(b, Tail(plan))
      <3>1. Tail(plan)[1] = sn
        BY <2>4, OneStep
      <3>2. QED BY <2>4, <2>8, <3>1 DEF PlanHeader
    <2>10. QED BY <2>6, <2>9 DEF PlanOK
  <1>6. QED BY <1>1, <1>2, <1>3, <1>4, <1>5 DEF PlanOK

------------------------------------------------------------------------------
\* Opening a keyslot.

LEMMA ForSegment ==
  ASSUME NEW doc, WF(doc), NEW s \in DOMAIN doc.keyslots
  PROVE  /\ LUKS2_keyslot_for_segment(doc, s, ANY_SEGMENT) = 0
         /\ LUKS2_keyslot_for_segment(doc, s, DEFAULT_SEGMENT) = IF Bound(doc, s) THEN 0 ELSE ENOENT
  <1>0. IsDoc(doc) /\ OneDigest(doc)
    BY DEF WF
  <1>1. PICK d \in DigestIds : InDigest(doc, s, d) /\ \A e \in DigestIds : InDigest(doc, s, e) => e = d
    BY <1>0 DEF OneDigest
  <1>2. PICK g \in DigestIds : HasData(doc, g) /\ \A e \in DigestIds : HasData(doc, e) => e = g
    BY DEF WF, OneData
  <1>3. LUKS2_digest_by_keyslot(doc, s) = d
    BY <1>0, <1>1, ByKeyslot
  <1>4. LUKS2_digest_by_segment(doc, 0) = g
    BY <1>0, <1>2, BySegment
  <1>5. LUKS2_get_default_segment(doc) = 0
    BY <1>0, SegmentCount
  <1>6. Bound(doc, s) <=> d = g
    BY <1>1, <1>2 DEF Bound
  <1>7. d \in Nat /\ g \in Nat
    BY DEF DigestIds
  <1>8. _keyslot_for_segment(doc, s, 0) = IF d = g THEN 1 ELSE 0
    BY <1>3, <1>4, <1>7 DEF _keyslot_for_segment, SameDigest, OnSuccess
  <1>9. KeyslotForSegment(doc, s, 0) = IF d = g THEN 0 ELSE ENOENT
    BY <1>8 DEF KeyslotForSegment, IfAny, OnSuccess
  <1>10. LUKS2_keyslot_for_segment(doc, s, DEFAULT_SEGMENT) = KeyslotForSegment(doc, s, 0)
    BY <1>5 DEF LUKS2_keyslot_for_segment, DEFAULT_SEGMENT, ANY_SEGMENT
  <1>11. LUKS2_keyslot_for_segment(doc, s, ANY_SEGMENT) = 0
    BY DEF LUKS2_keyslot_for_segment
  <1>12. QED BY <1>6, <1>9, <1>10, <1>11

\* A keyslot opens exactly when its area holds the key of its digest.
Yields(doc, ar, s, x) == Opens(doc, ar, s, <<x, KeyOf(doc, s)>>)

\* _open_and_verify succeeds exactly on the material of the keyslot's own key.
LEMMA OpenVerify ==
  ASSUME NEW doc, WF(doc), NEW ar, NEW s \in DOMAIN doc.keyslots, NEW x
  PROVE  _open_and_verify(doc, ar, s, x) = IF Yields(doc, ar, s, x) THEN s ELSE EPERM
  <1> DEFINE d == LUKS2_digest_by_keyslot(doc, s)
             key == doc.digests[d].key
             k == doc.keyslots[s]
             got == luks2_keyslot_get_key(doc, ar, s, x)
  <1>1. IsDoc(doc) /\ OneDigest(doc)
    BY DEF WF
  <1>2. d \in DigestIds /\ d \in DOMAIN doc.digests /\ KeyOf(doc, s) = key /\ key \in VolumeKeys
    BY <1>1, KeyOfSlot DEF InDigest, KeyOf
  <1>3. key # NoKey
    BY <1>2, KeyslotsAssumption
  <1>4. got = key <=> Mat(ar, k, x, key)
    BY <1>3 DEF luks2_keyslot_get_key, Mat
  <1>5. Yields(doc, ar, s, x) <=> got = key
    BY <1>2, <1>4 DEF Yields, Opens
  <1>6. _open_and_verify(doc, ar, s, x) = OnSuccess(LUKS2_digest_verify(doc, got, s), s)
    BY DEF _open_and_verify
  <1> HIDE DEF got
  <1>7. LUKS2_digest_verify(doc, got, s) = OnSuccess(d, LUKS2_digest_verify_by_digest(doc, d, got))
    BY DEF LUKS2_digest_verify, VerifyFound
  <1>8. LUKS2_digest_verify_by_digest(doc, d, got) = IF key = got THEN d ELSE EPERM
    BY <1>2 DEF LUKS2_digest_verify_by_digest
  <1> HIDE DEF d, key
  <1>9. d \in Nat
    BY <1>2 DEF DigestIds
  <1>10. QED BY <1>5, <1>6, <1>7, <1>8, <1>9 DEF OnSuccess, EPERM

\* What LUKS2_open_and_verify answers for a keyslot and each segment.
LEMMA OpenSlot ==
  ASSUME NEW doc, WF(doc), NEW ar, NEW s \in DOMAIN doc.keyslots, NEW x
  PROVE  /\ LUKS2_open_and_verify(doc, ar, s, ANY_SEGMENT, x) = IF Yields(doc, ar, s, x) THEN s ELSE EPERM
         /\ LUKS2_open_and_verify(doc, ar, s, DEFAULT_SEGMENT, x) =
              IF ~Bound(doc, s) THEN ENOENT ELSE IF Yields(doc, ar, s, x) THEN s ELSE EPERM
         /\ LUKS2_keyslot_open(doc, ar, s, ANY_SEGMENT, x) = {LUKS2_open_and_verify(doc, ar, s, ANY_SEGMENT, x)}
         /\ LUKS2_keyslot_open(doc, ar, s, DEFAULT_SEGMENT, x) = {LUKS2_open_and_verify(doc, ar, s, DEFAULT_SEGMENT, x)}
  <1>1. s # ANY_SLOT /\ doc.keyslots[s] \in KsRec
    BY SlotIn
  <1>2. doc.keyslots[s].type = "luks2"
    BY <1>1 DEF KsRec
  <1>3. /\ LUKS2_keyslot_for_segment(doc, s, ANY_SEGMENT) = 0
        /\ LUKS2_keyslot_for_segment(doc, s, DEFAULT_SEGMENT) = IF Bound(doc, s) THEN 0 ELSE ENOENT
    BY ForSegment
  <1>4. _open_and_verify(doc, ar, s, x) = IF Yields(doc, ar, s, x) THEN s ELSE EPERM
    BY OpenVerify
  <1>5. LUKS2_open_and_verify(doc, ar, s, ANY_SEGMENT, x) = _open_and_verify(doc, ar, s, x)
    BY <1>2, <1>3 DEF LUKS2_open_and_verify, OnSuccess
  <1>6. LUKS2_open_and_verify(doc, ar, s, DEFAULT_SEGMENT, x) =
          IF Bound(doc, s) THEN _open_and_verify(doc, ar, s, x) ELSE ENOENT
    BY <1>2, <1>3 DEF LUKS2_open_and_verify, OnSuccess, ENOENT
  <1>7. QED BY <1>1, <1>4, <1>5, <1>6 DEF LUKS2_keyslot_open

\* The same as membership.
LEMMA OpenIff ==
  ASSUME NEW doc, WF(doc), NEW ar, NEW s \in DOMAIN doc.keyslots, NEW x
  PROVE  /\ s \in LUKS2_keyslot_open(doc, ar, s, ANY_SEGMENT, x) <=> Yields(doc, ar, s, x)
         /\ s \in LUKS2_keyslot_open(doc, ar, s, DEFAULT_SEGMENT, x) <=> Yields(doc, ar, s, x) /\ Bound(doc, s)
  <1>1. s \in Nat
    BY SlotIn
  <1>2. s # EPERM /\ s # ENOENT
    BY <1>1 DEF EPERM, ENOENT
  <1>3. QED BY <1>2, OpenSlot

\* Any keyslot that a search returns opens.
LEMMA OpenAnySlot ==
  ASSUME NEW doc, WF(doc), NEW ar, NEW slot \in Slots \cup {ANY_SLOT}, NEW x,
         NEW seg \in {ANY_SEGMENT, DEFAULT_SEGMENT},
         NEW r \in LUKS2_keyslot_open(doc, ar, slot, seg, x), r >= 0
  PROVE  /\ r \in DOMAIN doc.keyslots /\ Yields(doc, ar, r, x)
         /\ seg = DEFAULT_SEGMENT => Bound(doc, r)
  <1> DEFINE Good(v) == v \in DOMAIN doc.keyslots /\ Yields(doc, ar, v, x) /\ (seg = DEFAULT_SEGMENT => Bound(doc, v))
  <1>1. \A s \in DOMAIN doc.keyslots :
          \/ LUKS2_open_and_verify(doc, ar, s, seg, x) \in {EPERM, ENOENT}
          \/ LUKS2_open_and_verify(doc, ar, s, seg, x) = s /\ Good(s)
    <2> TAKE s \in DOMAIN doc.keyslots
    <2>1. CASE seg = ANY_SEGMENT
      BY <2>1, OpenSlot DEF ANY_SEGMENT, DEFAULT_SEGMENT
    <2>2. CASE seg = DEFAULT_SEGMENT
      BY <2>2, OpenSlot
    <2>3. QED BY <2>1, <2>2
  <1>2. \A s : s \notin DOMAIN doc.keyslots => LUKS2_open_and_verify(doc, ar, s, seg, x) = ENOENT
    BY DEF LUKS2_open_and_verify
  <1>3. CASE slot # ANY_SLOT
    <2>1. r = LUKS2_open_and_verify(doc, ar, slot, seg, x)
      BY <1>3 DEF LUKS2_keyslot_open
    <2>2. r \notin {EPERM, ENOENT}
      BY DEF EPERM, ENOENT
    <2>3. QED BY <1>1, <1>2, <2>1, <2>2
  <1>4. CASE slot = ANY_SLOT
    <2>1. \A prio : \A v \in LUKS2_keyslot_open_priority(doc, ar, prio, seg, x) : v \in {EPERM, ENOENT} \/ Good(v)
      <3> TAKE prio
      <3> DEFINE res == {LUKS2_open_and_verify(doc, ar, s, seg, x) :
                           s \in {t \in DOMAIN doc.keyslots : doc.keyslots[t].prio = prio}}
      <3>1. \A v \in res : v \in {EPERM, ENOENT} \/ Good(v)
        BY <1>1
      <3>2. LUKS2_keyslot_open_priority(doc, ar, prio, seg, x) = LoopResults(res)
        BY DEF LUKS2_keyslot_open_priority
      <3> HIDE DEF res
      <3>3. LoopResults(res) \subseteq res \cup {ENOENT}
        BY DEF LoopResults
      <3> HIDE DEF Good
      <3>4. QED BY <3>1, <3>2, <3>3
    <2>2. PICK p \in LUKS2_keyslot_open_priority(doc, ar, PRIO_PREFER, seg, x) :
            \/ p \notin {EPERM, ENOENT} /\ r = p
            \/ \E v \in LUKS2_keyslot_open_priority(doc, ar, PRIO_NORMAL, seg, x) : r = IF p = EPERM /\ v = ENOENT THEN p ELSE v
      <3> DEFINE P == LUKS2_keyslot_open_priority(doc, ar, PRIO_PREFER, seg, x)
                 N == LUKS2_keyslot_open_priority(doc, ar, PRIO_NORMAL, seg, x)
      <3>1. r \in UNION {IF p \notin {EPERM, ENOENT} THEN {p}
                         ELSE {IF p = EPERM /\ v = ENOENT THEN p ELSE v : v \in N} : p \in P}
        BY <1>4 DEF LUKS2_keyslot_open
      <3> HIDE DEF P, N
      <3>2. \E p \in P : r \in IF p \notin {EPERM, ENOENT} THEN {p}
                         ELSE {IF p = EPERM /\ v = ENOENT THEN p ELSE v : v \in N}
        BY <3>1
      <3>3. QED BY <3>2 DEF P, N
    <2>3. r \notin {EPERM, ENOENT}
      BY DEF EPERM, ENOENT
    <2>4. r \in {EPERM, ENOENT} \/ Good(r)
      <3> HIDE DEF Good
      <3> QED BY <2>1, <2>2
    <2>5. QED BY <2>3, <2>4
  <1>5. QED BY <1>3, <1>4

------------------------------------------------------------------------------
\* What a command decides.

\* A keyslot holds one passphrase and one key.
LEMMA OpensUnique ==
  ASSUME NEW doc, WF(doc), NEW ar, NEW s, NEW pr \in Pairs, NEW qr \in Pairs,
         Opens(doc, ar, s, pr), Opens(doc, ar, s, qr)
  PROVE  pr = qr
  <1> DEFINE k == doc.keyslots[s]
  <1>1. s \in DOMAIN doc.keyslots /\ KeyOf(doc, s) = pr[2] /\ KeyOf(doc, s) = qr[2] /\ Mat(ar, k, pr[1], pr[2]) /\ Mat(ar, k, qr[1], qr[2])
    BY DEF Opens
  <1>2. k \in KsRec
    BY <1>1, SlotIn
  <1> HIDE DEF k
  <1>3. k.off \in k.off..(k.off + k.len - 1)
    BY <1>2 DEF KsRec
  <1>4. pr[1] = qr[1]
    BY <1>1, <1>3 DEF Mat
  <1>5. pr = <<pr[1], pr[2]>> /\ qr = <<qr[1], qr[2]>>
    BY DEF Pairs
  <1>6. pr[2] = qr[2]
    BY <1>1
  <1>7. QED BY <1>4, <1>5, <1>6, Zenon

\* What opens with a pair yields the keyslot's key to the passphrase.
LEMMA YieldsOpens ==
  ASSUME NEW doc, WF(doc), NEW ar, NEW s, NEW pr \in Pairs, Opens(doc, ar, s, pr)
  PROVE  s \in DOMAIN doc.keyslots /\ pr[1] \in Pass /\ Yields(doc, ar, s, pr[1]) /\ pr = <<pr[1], KeyOf(doc, s)>>
  <1>1. pr[1] \in Pass /\ pr = <<pr[1], pr[2]>>
    BY DEF Pairs
  <1>2. s \in DOMAIN doc.keyslots /\ KeyOf(doc, s) = pr[2]
    BY DEF Opens
  <1>3. QED BY <1>1, <1>2 DEF Yields

\* Holds names every pair that opens a keyslot.
LEMMA HoldsFact ==
  ASSUME NEW doc, WF(doc), NEW s \in DOMAIN doc.keyslots
  PROVE  /\ Holds(doc, s) \subseteq Pairs
         /\ \A pr \in Pairs : Opens(doc, areas, s, pr) => pr \in Holds(doc, s)
  <1>1. KeyOf(doc, s) \in VolumeKeys
    BY KeyOfSlot DEF WF
  <1>2. Holds(doc, s) \subseteq Pairs
    BY <1>1 DEF Holds, Pairs
  <1>3. ASSUME NEW pr \in Pairs, Opens(doc, areas, s, pr) PROVE pr \in Holds(doc, s)
    <2>1. pr[1] \in Pass /\ Yields(doc, areas, s, pr[1]) /\ pr = <<pr[1], KeyOf(doc, s)>>
      BY <1>3, YieldsOpens
    <2>2. s \in LUKS2_keyslot_open(doc, areas, s, ANY_SEGMENT, pr[1])
      BY <2>1, OpenIff
    <2>3. QED BY <2>1, <2>2 DEF Holds
  <1>4. QED BY <1>2, <1>3

DestroyOf(doc, st, s) ==
  /\ st \in DestroySteps /\ st.do = "wipe" /\ st.slot = s /\ ~st.only /\ st.swap = ANY_SLOT /\ st.into = {}
  /\ st.revoke = {SaltOf(doc, s)} /\ Target(st) = s
  /\ \A pr \in Pairs : Opens(doc, areas, s, pr) => pr \in st.drop

\* The step that destroys a keyslot names its salt and all it held.
LEMMA DestroyFact ==
  ASSUME NEW doc, WF(doc), NEW s \in DOMAIN doc.keyslots
  PROVE  DestroyOf(doc, Destroy(doc, s), s)
  <1>1. s \in Slots /\ doc.keyslots[s] \in KsRec
    BY SlotIn
  <1>2. SaltOf(doc, s) \in Nat
    BY <1>1 DEF SaltOf, KsRec
  <1> DEFINE h == Holds(doc, s)
             v == SaltOf(doc, s)
             st == Destroy(doc, s)
  <1>3. h \subseteq Pairs /\ \A pr \in Pairs : Opens(doc, areas, s, pr) => pr \in h
    BY HoldsFact
  <1>4. st = [do |-> "wipe", slot |-> s, only |-> FALSE, swap |-> ANY_SLOT, drop |-> h, into |-> {}, gain |-> {}, revoke |-> {v}]
    BY DEF Destroy, WipeStep
  <1> HIDE DEF h, st
  <1>5. st \in DestroySteps
    BY <1>1, <1>2, <1>3, <1>4 DEF DestroySteps
  <1>6. /\ st.do = "wipe" /\ st.slot = s /\ st.only = FALSE /\ st.swap = ANY_SLOT /\ st.into = {}
        /\ st.revoke = {v} /\ st.drop = h
    BY <1>4
  <1>7. DestroyOf(doc, st, s)
    BY <1>3, <1>5, <1>6 DEF DestroyOf, Target
  <1>8. QED BY <1>7 DEF st

\* What the plan knows of the document it was made from.
PlanSees(doc, plan) ==
  /\ \A i \in DOMAIN plan : plan[i].do = "wipe" =>
       \A pr \in Pairs : Opens(doc, areas, Target(plan[i]), pr) => pr \in plan[i].drop
  /\ plan[1].do = "store" => plan[1].slot \notin DOMAIN doc.keyslots
  /\ plan[1].do = "wipe" => plan[1].into = {} /\ plan[1].swap = ANY_SLOT
PlanLast(doc, plan) ==
  \A i \in DOMAIN plan : plan[i].do = "wipe" =>
    /\ ~plan[i].only
    /\ plan[i].swap = ANY_SLOT =>
         Len(plan) = 1 /\ (Bound(doc, plan[i].slot) => \E s \in Slots \ {plan[i].slot} : Bound(doc, s))
PlanReqs(doc, plan) == doc.requirements = {} \/ PlanDestroy(doc, plan)
Planned(doc, plan, confirmed) ==
  /\ PlanOK(doc, plan) /\ PlanSees(doc, plan) /\ PlanReqs(doc, plan)
  /\ confirmed \/ PlanLast(doc, plan)

\* The plan of luksAddKey is one a busy context may have.
LEMMA PlannedAdd ==
  ASSUME NEW doc, WF(doc), NEW s \in Slots, NEW pass \in Pass, NEW key \in VolumeKeys, NEW d \in DigestIds,
         NEW tok \in TokenIds \cup {ANY_TOKEN}, NewSlot(doc, s, key, d), doc.requirements = {}
  PROVE  Planned(doc, <<StoreStep(s, pass, key, d, tok, ANY_SLOT, {}, {}, {{<<pass, key>>}})>>, FALSE)
  <1> DEFINE st == StoreStep(s, pass, key, d, tok, ANY_SLOT, {}, {}, {{<<pass, key>>}})
             plan == <<st>>
  <1>1. PlanAdd(doc, plan)
    BY DEF PlanAdd
  <1>2. st.do = "store" /\ st.slot = s
    BY DEF StoreStep
  <1> HIDE DEF st
  <1>3. DOMAIN plan = {1} /\ plan[1] = st /\ Len(plan) = 1
    BY OneStep
  <1> HIDE DEF plan
  <1>4. \A i \in DOMAIN plan : plan[i].do # "wipe"
    BY <1>2, <1>3
  <1>5. PlanSees(doc, plan) /\ PlanLast(doc, plan)
    BY <1>2, <1>3, <1>4 DEF PlanSees, PlanLast, NewSlot
  <1>6. Planned(doc, plan, FALSE)
    BY <1>1, <1>5 DEF Planned, PlanOK, PlanReqs
  <1>7. QED BY <1>6 DEF plan, st

\* The plans that change the header alone are ones a busy context may have.
LEMMA PlannedHeader ==
  ASSUME NEW doc, WF(doc), NEW plan, PlanHeader(doc, plan), doc.requirements = {}
  PROVE  Planned(doc, plan, FALSE)
  <1>1. \A st : SetKeyOK(doc, st) \/ TokenStepOK(doc, st) => st.do # "wipe" /\ st.do # "store"
    BY HeaderSteps DEF HeaderStep
  <1>2. CASE plan = <<plan[1]>> /\ (SetKeyOK(doc, plan[1]) \/ TokenStepOK(doc, plan[1]))
    <2>1. DOMAIN plan = {1}
      BY <1>2, OneStep
    <2>2. plan[1].do # "wipe" /\ plan[1].do # "store"
      BY <1>1, <1>2
    <2>3. \A i \in DOMAIN plan : plan[i].do # "wipe"
      BY <2>1, <2>2
    <2>4. QED BY <2>2, <2>3 DEF Planned, PlanOK, PlanSees, PlanLast, PlanReqs
  <1>3. CASE plan = <<plan[1], plan[2]>> /\ TokenStepOK(doc, plan[1]) /\ TokenStepOK(doc, plan[2])
    <2>1. DOMAIN plan = {1, 2}
      BY <1>3, TwoSteps
    <2>2. plan[1].do # "wipe" /\ plan[1].do # "store" /\ plan[2].do # "wipe"
      BY <1>1, <1>3
    <2>3. \A i \in DOMAIN plan : plan[i].do # "wipe"
      BY <2>1, <2>2
    <2>4. QED BY <2>2, <2>3 DEF Planned, PlanOK, PlanSees, PlanLast, PlanReqs
  <1>4. QED BY <1>2, <1>3 DEF PlanHeader

\* The gap is an offset or an error.
LEMMA GapInt ==
  ASSUME NEW doc, IsDoc(doc), AreasApart(doc), NEW len \in {1, 2}
  PROVE  LUKS2_find_area_gap(doc, len) \in Int
  <1> DEFINE ks == doc.keyslots
             ends == {ks[s].off + ks[s].len : s \in DOMAIN ks}
             fits == {o \in {MinOffset} \cup ends :
                        /\ o + len <= MaxOffset
                        /\ \A s \in DOMAIN ks : o + len <= ks[s].off \/ ks[s].off + ks[s].len <= o}
             g == LUKS2_find_area_gap(doc, len)
  <1>1. g = IF fits = {} THEN EINVAL ELSE CHOOSE o \in fits : \A x \in fits : o <= x
    BY Zenon DEF LUKS2_find_area_gap
  <1>2. \A s \in DOMAIN ks : ks[s].off \in Nat /\ ks[s].len \in {1, 2}
    BY DocFields DEF IsMap, KsRec
  <1>3. \A o \in {MinOffset} \cup ends : o \in Nat
    BY <1>2, LimitsAssumption
  <1>4. fits \subseteq Nat
    BY <1>3
  <1>5. CASE fits = {}
    BY <1>1, <1>5 DEF EINVAL
  <1>6. CASE fits # {}
    <2>1. \E o \in fits : \A x \in fits : o <= x
      BY <1>4, <1>6, MinimumExists, Zenon
    <2>2. g \in fits
      BY <1>1, <1>6, <2>1, Zenon
    <2>3. QED BY <1>4, <2>2
  <1>7. QED BY <1>5, <1>6

\* A free keyslot number with room for the key.
LEMMA FindEmpty ==
  ASSUME NEW doc, WF(doc), NEW len \in {1, 2}, LUKS2_keyslot_find_empty(doc, len) >= 0
  PROVE  /\ LUKS2_keyslot_find_empty(doc, len) \in Slots \ DOMAIN doc.keyslots
         /\ LUKS2_find_area_gap(doc, len) >= 0
  <1> DEFINE i == LowestFree(doc.keyslots, KEYSLOTS_MAX)
  <1>0. /\ i \in Int
        /\ i >= 0 => i \in (0..(KEYSLOTS_MAX - 1)) \ DOMAIN doc.keyslots
    <2>1. KEYSLOTS_MAX \in Nat
      BY LimitsAssumption
    <2>2. QED BY <2>1, LowestFreeFact
  <1>1. LUKS2_find_area_gap(doc, len) \in Int
    BY GapInt DEF WF
  <1> DEFINE g == LUKS2_find_area_gap(doc, len)
  <1>2. LUKS2_keyslot_find_empty(doc, len) = IF i < 0 THEN EINVAL ELSE IF len > 0 /\ g < 0 THEN ENOSPC ELSE i
    BY DEF LUKS2_keyslot_find_empty
  <1> HIDE DEF i, g
  <1>3. g \in Int
    BY <1>1 DEF g
  <1>4. g >= 0 /\ i >= 0 /\ LUKS2_keyslot_find_empty(doc, len) = i
    BY <1>0, <1>2, <1>3 DEF EINVAL, ENOSPC
  <1>5. QED BY <1>0, <1>4 DEF g, Slots

\* keyslot_verify_or_find_empty returns a free slot.
LEMMA FreeSlot ==
  ASSUME NEW doc, WF(doc), NEW s \in Slots \cup {ANY_SLOT}, keyslot_verify_or_find_empty(doc, s) >= 0
  PROVE  keyslot_verify_or_find_empty(doc, s) \in Slots \ DOMAIN doc.keyslots
  <1> DEFINE n == IF s = ANY_SLOT THEN LUKS2_keyslot_find_empty(doc, 0) ELSE s
  <1>1. keyslot_verify_or_find_empty(doc, s) = IF LUKS2_keyslot_info(doc, n) = "INACTIVE" THEN n ELSE EINVAL
    BY DEF keyslot_verify_or_find_empty
  <1> HIDE DEF n
  <1>2. LUKS2_keyslot_info(doc, n) = "INACTIVE" /\ keyslot_verify_or_find_empty(doc, s) = n
    BY <1>1 DEF EINVAL
  <1>3. n \in 0..(KEYSLOTS_MAX - 1) /\ n \notin DOMAIN doc.keyslots
    BY <1>2 DEF LUKS2_keyslot_info
  <1>4. QED BY <1>2, <1>3 DEF Slots

\* The plan of luksChangeKey through a free slot.
LEMMA PlannedChange ==
  ASSUME NEW doc, WF(doc), doc.requirements = {}, NEW r \in DOMAIN doc.keyslots, NEW old \in Pass, NEW new \in Pass,
         NEW key, key = KeyOf(doc, r), NEW d, d = LUKS2_digest_by_keyslot(doc, r), Yields(doc, areas, r, old),
         NEW f, f = LUKS2_keyslot_find_empty(doc, KeyLength(key)), f >= 0
  PROVE  Planned(doc, <<StoreStep(f, new, key, d, ANY_TOKEN, r, {<<old, key>>}, {<<old, key>>, <<new, key>>}, {}),
                        WipeStep(f, FALSE, r, {<<old, key>>}, {<<new, key>>}, {SaltOf(doc, r)})>>, FALSE)
  <1> DEFINE a == StoreStep(f, new, key, d, ANY_TOKEN, r, {<<old, key>>}, {<<old, key>>, <<new, key>>}, {})
             b == WipeStep(f, FALSE, r, {<<old, key>>}, {<<new, key>>}, {SaltOf(doc, r)})
             plan == <<a, b>>
  <1>1. InDigest(doc, r, d) /\ d \in DigestIds /\ key \in VolumeKeys
    BY KeyOfSlot DEF WF
  <1>2. d \in DOMAIN doc.digests /\ doc.digests[d].key = key
    BY <1>1 DEF InDigest, KeyOf
  <1>3. KeyLength(key) \in {1, 2}
    BY KeyLengthFact
  <1>4. f \in Slots \ DOMAIN doc.keyslots /\ LUKS2_find_area_gap(doc, KeyLength(key)) >= 0
    BY <1>3, FindEmpty
  <1>5. NewSlot(doc, f, key, d) /\ Holding(doc, r, key, d)
    BY <1>1, <1>2, <1>4 DEF NewSlot, Holding
  <1>6. PlanChange1(doc, plan)
    BY <1>1, <1>2, <1>4, <1>5 DEF PlanChange1
  <1>7. a.do = "store" /\ a.slot = f /\ b.do = "wipe" /\ b.swap = r /\ b.only = FALSE /\ b.drop = {<<old, key>>}
    BY DEF StoreStep, WipeStep
  <1>8. r # ANY_SLOT
    BY SlotIn
  <1>9. \A pr \in Pairs : Opens(doc, areas, r, pr) => pr \in {<<old, key>>}
    <2>1. Opens(doc, areas, r, <<old, key>>) /\ <<old, key>> \in Pairs
      BY <1>1 DEF Yields, Pairs
    <2>2. QED BY <2>1, OpensUnique
  <1> HIDE DEF a, b
  <1>10. DOMAIN plan = {1, 2} /\ plan[1] = a /\ plan[2] = b
    BY TwoSteps
  <1> HIDE DEF plan
  <1>11. Target(b) = r
    BY <1>7, <1>8 DEF Target
  <1>12. \A i \in DOMAIN plan : plan[i].do = "wipe" => plan[i] = b
    BY <1>7, <1>10
  <1>13. PlanSees(doc, plan)
    BY <1>4, <1>7, <1>9, <1>10, <1>11, <1>12 DEF PlanSees
  <1>14. PlanLast(doc, plan)
    BY <1>7, <1>8, <1>12 DEF PlanLast
  <1>15. Planned(doc, plan, FALSE)
    BY <1>6, <1>13, <1>14 DEF Planned, PlanOK, PlanReqs
  <1>16. QED BY <1>15 DEF plan, a, b

\* The plan of luksChangeKey in place, when no slot is free.
LEMMA PlannedInPlace ==
  ASSUME NEW doc, WF(doc), doc.requirements = {}, NEW r \in DOMAIN doc.keyslots, NEW old \in Pass, NEW new \in Pass,
         NEW key, key = KeyOf(doc, r), NEW d, d = LUKS2_digest_by_keyslot(doc, r), Yields(doc, areas, r, old)
  PROVE  Planned(doc, <<WipeStep(r, TRUE, ANY_SLOT, {<<old, key>>}, {}, {}),
                        StoreStep(r, new, key, d, ANY_TOKEN, ANY_SLOT, {}, {}, {{<<new, key>>}})>>, TRUE)
  <1> DEFINE a == WipeStep(r, TRUE, ANY_SLOT, {<<old, key>>}, {}, {})
             b == StoreStep(r, new, key, d, ANY_TOKEN, ANY_SLOT, {}, {}, {{<<new, key>>}})
             plan == <<a, b>>
  <1>1. InDigest(doc, r, d) /\ d \in DigestIds /\ key \in VolumeKeys
    BY KeyOfSlot DEF WF
  <1>2. d \in DOMAIN doc.digests /\ doc.digests[d].key = key
    BY <1>1 DEF InDigest, KeyOf
  <1>5. Holding(doc, r, key, d)
    BY <1>1, <1>2 DEF Holding
  <1>6. PlanInPlace1(doc, plan)
    BY <1>1, <1>2, <1>5 DEF PlanInPlace1
  <1>7. a.do = "wipe" /\ a.slot = r /\ a.swap = ANY_SLOT /\ a.into = {} /\ a.drop = {<<old, key>>} /\ b.do = "store"
    BY DEF StoreStep, WipeStep
  <1>9. \A pr \in Pairs : Opens(doc, areas, r, pr) => pr \in {<<old, key>>}
    <2>1. Opens(doc, areas, r, <<old, key>>) /\ <<old, key>> \in Pairs
      BY <1>1 DEF Yields, Pairs
    <2>2. QED BY <2>1, OpensUnique
  <1> HIDE DEF a, b
  <1>10. DOMAIN plan = {1, 2} /\ plan[1] = a /\ plan[2] = b
    BY TwoSteps
  <1> HIDE DEF plan
  <1>11. Target(a) = r
    BY <1>7 DEF Target
  <1>12. \A i \in DOMAIN plan : plan[i].do = "wipe" => plan[i] = a
    BY <1>7, <1>10
  <1>13. PlanSees(doc, plan)
    BY <1>7, <1>9, <1>10, <1>11, <1>12 DEF PlanSees
  <1>15. Planned(doc, plan, TRUE)
    BY <1>6, <1>13 DEF Planned, PlanOK, PlanReqs
  <1>16. QED BY <1>15 DEF plan, a, b

\* When LUKS2_keyslot_info does not say "last", another keyslot holds the key
\* of the data.
LEMMA NotLast ==
  ASSUME NEW doc, WF(doc), NEW s \in DOMAIN doc.keyslots, LUKS2_keyslot_info(doc, s) # "ACTIVE_LAST", Bound(doc, s)
  PROVE  \E t \in Slots \ {s} : Bound(doc, t)
  <1> SUFFICES ASSUME \A t \in Slots \ {s} : ~Bound(doc, t) PROVE FALSE
    OBVIOUS
  <1> DEFINE A == {t \in DOMAIN doc.keyslots : LUKS2_keyslot_for_segment(doc, t, DEFAULT_SEGMENT) = 0}
  <1>1. \A t \in DOMAIN doc.keyslots : t # s => ~Bound(doc, t)
    BY SlotIn
  <1>2. \A t \in DOMAIN doc.keyslots : LUKS2_keyslot_for_segment(doc, t, DEFAULT_SEGMENT) = 0 <=> Bound(doc, t)
    BY ForSegment DEF ENOENT
  <1>3. A = {s}
    BY <1>1, <1>2
  <1>4. Cardinality({s}) = 1
    BY FS_Singleton
  <1>5. LUKS2_keyslot_active_count(doc, DEFAULT_SEGMENT) = Cardinality(A)
    BY DEF LUKS2_keyslot_active_count
  <1>6. LUKS2_keyslot_active_count(doc, DEFAULT_SEGMENT) = 1
    BY <1>3, <1>4, <1>5
  <1>7. LUKS2_keyslot_for_segment(doc, s, DEFAULT_SEGMENT) = 0
    BY <1>2
  <1>8. s \in 0..(KEYSLOTS_MAX - 1)
    BY SlotIn DEF Slots
  <1> DEFINE d == LUKS2_digest_by_keyslot(doc, s)
  <1>9. PICK e \in DigestIds : InDigest(doc, s, e) /\ HasData(doc, e)
    BY DEF Bound
  <1>10. d = e
    BY <1>9, KeyOfSlot DEF WF
  <1>11. d >= 0 /\ doc.digests[d].segments # {}
    BY <1>9, <1>10 DEF HasData, DigestIds
  <1>12. ~LUKS2_keyslot_unbound(doc, s)
    BY <1>11 DEF LUKS2_keyslot_unbound
  <1>13. ~(d < 0)
    BY <1>9, <1>10 DEF DigestIds
  <1>14. LUKS2_keyslot_info(doc, s) = "ACTIVE_LAST"
    BY <1>6, <1>7, <1>8, <1>12, <1>13 DEF LUKS2_keyslot_info
  <1>15. QED BY <1>14

\* The plan of destroys of the keyslots of a sequence.
DestroysAll(doc, plan, order, n) ==
  /\ DOMAIN plan = 1..n /\ plan = [i \in 1..n |-> plan[i]]
  /\ \A i \in 1..n : order[i] \in DOMAIN doc.keyslots /\ plan[i] = Destroy(doc, order[i])
  /\ \A i, j \in 1..n : i # j => order[i] # order[j]

\* A list of distinct keyslots to destroy is a plan.
LEMMA DestroyPlan ==
  ASSUME NEW doc, WF(doc), NEW n \in Nat \ {0}, NEW plan, NEW order, DestroysAll(doc, plan, order, n)
  PROVE  PlanDestroy(doc, plan) /\ PlanSees(doc, plan)
  <1>0. /\ DOMAIN plan = 1..n /\ plan = [i \in 1..n |-> plan[i]]
        /\ \A i \in 1..n : order[i] \in DOMAIN doc.keyslots /\ plan[i] = Destroy(doc, order[i])
        /\ \A i, j \in 1..n : i # j => order[i] # order[j]
    BY Zenon DEF DestroysAll
  <1>1. \A i \in 1..n : DestroyOf(doc, plan[i], order[i])
    BY <1>0, DestroyFact
  <1>2. plan \in [1..n -> DestroySteps]
    BY <1>0, <1>1 DEF DestroyOf
  <1>3. plan \in Seq(DestroySteps) /\ Len(plan) = n /\ plan # << >>
    BY <1>2
  <1>4. \A i \in 1..n : plan[i].slot \in DOMAIN doc.keyslots /\ plan[i].revoke = {SaltOf(doc, plan[i].slot)}
    BY <1>0, <1>1 DEF DestroyOf
  <1>5. \A i, j \in 1..n : i # j => plan[i].slot # plan[j].slot
    BY <1>0, <1>1 DEF DestroyOf
  <1>6. PlanDestroy(doc, plan)
    BY <1>3, <1>4, <1>5 DEF PlanDestroy
  <1>7. \A i \in 1..n : \A pr \in Pairs : Opens(doc, areas, Target(plan[i]), pr) => pr \in plan[i].drop
    BY <1>0, <1>1 DEF DestroyOf
  <1>8. 1 \in 1..n
    OBVIOUS
  <1>9. plan[1].do = "wipe" /\ plan[1].into = {} /\ plan[1].swap = ANY_SLOT
    BY <1>1, <1>8 DEF DestroyOf
  <1>10. PlanSees(doc, plan)
    BY <1>0, <1>7, <1>9 DEF PlanSees
  <1>11. QED BY <1>3, <1>6, <1>10

\* The plan of luksKillSlot and luksRemoveKey.
LEMMA PlannedDestroy ==
  ASSUME NEW doc, WF(doc), NEW s \in DOMAIN doc.keyslots
  PROVE  /\ Planned(doc, <<Destroy(doc, s)>>, TRUE)
         /\ LUKS2_keyslot_info(doc, s) # "ACTIVE_LAST" => Planned(doc, <<Destroy(doc, s)>>, FALSE)
  <1> DEFINE st == Destroy(doc, s)
             plan == <<st>>
             order == <<s>>
  <1>1. DestroyOf(doc, st, s)
    BY DestroyFact
  <1> HIDE DEF st
  <1>2. DOMAIN plan = {1} /\ plan[1] = st /\ Len(plan) = 1
    BY OneStep
  <1>3. order[1] = s
    BY OneStep
  <1>4. plan = [i \in 1..1 |-> plan[i]]
    OBVIOUS
  <1> HIDE DEF plan, order
  <1>5. \A i \in 1..1 : i = 1
    OBVIOUS
  <1>6. DOMAIN plan = 1..1
    BY <1>2
  <1>7. \A i \in 1..1 : order[i] \in DOMAIN doc.keyslots /\ plan[i] = Destroy(doc, order[i])
    BY <1>2, <1>3, <1>5 DEF st
  <1>8. \A i, j \in 1..1 : i # j => order[i] # order[j]
    BY <1>5
  <1>9. 1 \in Nat \ {0}
    OBVIOUS
  <1>10. PlanDestroy(doc, plan) /\ PlanSees(doc, plan)
    <2>1. DestroysAll(doc, plan, order, 1)
      BY <1>4, <1>6, <1>7, <1>8, Zenon DEF DestroysAll
    <2>2. QED BY <1>9, <2>1, DestroyPlan
  <1>11. Planned(doc, plan, TRUE)
    BY <1>10 DEF Planned, PlanOK, PlanReqs
  <1>12. ASSUME LUKS2_keyslot_info(doc, s) # "ACTIVE_LAST" PROVE Planned(doc, plan, FALSE)
    <2>1. Bound(doc, s) => \E t \in Slots \ {s} : Bound(doc, t)
      BY <1>12, NotLast
    <2>2. plan[1].slot = s /\ ~plan[1].only
      BY <1>1, <1>2 DEF DestroyOf
    <2>3. PlanLast(doc, plan)
      BY <1>2, <2>1, <2>2 DEF PlanLast
    <2>4. QED BY <1>10, <2>3 DEF Planned, PlanOK, PlanReqs
  <1>13. QED BY <1>11, <1>12 DEF plan, st

\* The plan of crypt erase: every active keyslot, in order.
LEMMA PlannedErase ==
  ASSUME NEW doc, WF(doc), NEW A, A \subseteq DOMAIN doc.keyslots, A # {}, NEW order \in [1..Cardinality(A) -> A],
         \A i, j \in DOMAIN order : i < j => order[i] < order[j]
  PROVE  Planned(doc, [i \in DOMAIN order |-> Destroy(doc, order[i])], TRUE)
  <1> DEFINE n == Cardinality(A)
             plan == [i \in DOMAIN order |-> Destroy(doc, order[i])]
  <1>1. A \subseteq Slots
    BY SlotIn
  <1>2. IsFiniteSet(Slots)
    BY FS_Interval, LimitsAssumption DEF Slots
  <1>3. IsFiniteSet(A)
    BY <1>1, <1>2, FS_Subset
  <1>4. n \in Nat /\ n # 0
    BY <1>3, FS_CardinalityType, FS_EmptySet
  <1> HIDE DEF n
  <1>5. order \in [1..n -> A] /\ DOMAIN order = 1..n
    BY DEF n
  <1>6. \A i \in 1..n : order[i] \in A /\ order[i] \in Nat
    <2>1. \A x \in A : x \in Nat
      BY <1>1 DEF Slots
    <2>2. QED BY <1>5, <2>1
  <1>7. \A i, j \in 1..n : i # j => order[i] # order[j]
    <2> TAKE i, j \in 1..n
    <2>1. i < j => order[i] < order[j]
      BY <1>5
    <2>2. j < i => order[j] < order[i]
      BY <1>5
    <2>3. QED BY <1>4, <1>6, <2>1, <2>2
  <1>8. plan = [i \in 1..n |-> plan[i]] /\ DOMAIN plan = 1..n
    BY <1>5
  <1>9. \A i \in 1..n : order[i] \in DOMAIN doc.keyslots /\ plan[i] = Destroy(doc, order[i])
    BY <1>5, <1>6
  <1> HIDE DEF plan
  <1>10. n \in Nat \ {0}
    BY <1>4
  <1>11. PlanDestroy(doc, plan) /\ PlanSees(doc, plan)
    <2>1. DestroysAll(doc, plan, order, n)
      BY <1>7, <1>8, <1>9, Zenon DEF DestroysAll
    <2>2. QED BY <1>10, <2>1, DestroyPlan
  <1>12. Planned(doc, plan, TRUE)
    BY <1>11 DEF Planned, PlanOK, PlanReqs
  <1>13. QED BY <1>12 DEF plan

Started(p, plan) ==
  /\ Begin(p, plan) /\ Planned(ctx[p].doc, plan, TRUE)
  /\ forced' \/ Planned(ctx[p].doc, plan, FALSE)
Start(p) ==
  /\ ctx[p].st = "idle" /\ ops + faults < MaxEvents
  /\ (forced => forced') /\ forced' \in BOOLEAN
  /\ \E plan : Started(p, plan)

\* A plan that needs no confirmation is one with it too.
LEMMA PlannedWeaker ==
  ASSUME NEW doc, NEW plan, Planned(doc, plan, FALSE)
  PROVE  Planned(doc, plan, TRUE)
  BY DEF Planned

\* A command that changes nothing but its own context.
LEMMA StartUnforced ==
  ASSUME NEW p, Ready(p), NEW plan, Begin(p, plan), Planned(ctx[p].doc, plan, FALSE), UNCHANGED forced, forced \in BOOLEAN
  PROVE  Start(p)
  <1>1. Planned(ctx[p].doc, plan, TRUE)
    BY PlannedWeaker
  <1>2. Started(p, plan)
    BY <1>1, Zenon DEF Started
  <1>3. ctx[p].st = "idle" /\ ops + faults < MaxEvents
    BY Zenon DEF Ready
  <1>4. (forced => forced') /\ forced' \in BOOLEAN
    BY Zenon
  <1>5. QED BY <1>2, <1>3, <1>4, Zenon DEF Start

\* A context that takes a command has a well-formed document.
LEMMA ReadyFact ==
  ASSUME DocInv, NEW p \in Procs, Ready(p)
  PROVE  WF(ctx[p].doc) /\ IsDoc(ctx[p].doc) /\ forced \in BOOLEAN
  BY DEF DocInv, Ready, Live, WF

\* AddKey begins one of the plans.
LEMMA AddKeyStart ==
  ASSUME DocInv, NEW p \in Procs, AddKey(p)
  PROVE  Start(p)
  <1> DEFINE doc == ctx[p].doc
  <1>1. Ready(p) /\ onlyLUKS(doc) /\ UNCHANGED forced
    BY DEF AddKey, Reads
  <1>2. WF(doc) /\ IsDoc(doc) /\ forced \in BOOLEAN
    BY <1>1, ReadyFact
  <1>3. doc.requirements = {}
    BY <1>1, <1>2, RequirementsFact DEF onlyLUKS
  <1>4. PICK key \in UNION {ContextKeys(doc, kc) : kc \in KeyContexts(doc)},
             new \in Slots \cup {ANY_SLOT}, tok \in {ANY_TOKEN} \cup DOMAIN doc.tokens, pass \in Pass :
          crypt_keyslot_add_by_keyslot_context(p, key, new, pass, tok)
    BY Zenon DEF AddKey, Reads
  <1> DEFINE s == keyslot_verify_or_find_empty(doc, new)
             d == LUKS2_digest_by_segment(doc, LUKS2_get_default_segment(doc))
             plan == <<StoreStep(s, pass, key, d, tok, ANY_SLOT, {}, {}, {{<<pass, key>>}})>>
  <1>5. /\ s >= 0 /\ LUKS2_digest_verify_by_digest(doc, d, key) = d
        /\ LUKS2_find_area_gap(doc, KeyLength(key)) >= 0 /\ Begin(p, plan)
    BY <1>4, Zenon DEF crypt_keyslot_add_by_keyslot_context, Reads
  <1>6. s \in Slots \ DOMAIN doc.keyslots
    BY <1>2, <1>5, FreeSlot
  <1>7. d \in DigestIds /\ d \in DOMAIN doc.digests
    <2>1. PICK g \in DigestIds : HasData(doc, g) /\ \A e \in DigestIds : HasData(doc, e) => e = g
      BY <1>2 DEF WF, OneData
    <2>2. LUKS2_digest_by_segment(doc, 0) = g
      BY <1>2, <2>1, BySegment
    <2>3. LUKS2_get_default_segment(doc) = 0
      BY <1>2, SegmentCount
    <2>4. QED BY <2>1, <2>2, <2>3 DEF HasData
  <1> HIDE DEF d, s
  <1>8. doc.digests[d].key = key
    <2>1. d # EPERM
      BY <1>7 DEF DigestIds, EPERM
    <2>2. QED BY <1>5, <1>7, <2>1 DEF LUKS2_digest_verify_by_digest
  <1>9. key \in VolumeKeys /\ tok \in TokenIds \cup {ANY_TOKEN}
    <2>1. IsMap(doc.digests, DigestIds, DigRec) /\ IsMap(doc.tokens, TokenIds, TokRec)
      BY <1>2, DocFields
    <2>2. QED BY <1>7, <1>8, <2>1 DEF IsMap, DigRec
  <1>10. NewSlot(doc, s, key, d)
    BY <1>5, <1>6, <1>7, <1>8 DEF NewSlot
  <1>11. s \in Slots
    BY <1>6
  <1> HIDE DEF doc
  <1>12. Planned(doc, plan, FALSE)
    BY <1>2, <1>3, <1>7, <1>9, <1>10, <1>11, PlannedAdd
  <1>13. QED BY <1>1, <1>2, <1>5, <1>12, StartUnforced DEF doc

\* AddUnboundKey begins one of the plans.
LEMMA AddUnboundKeyStart ==
  ASSUME DocInv, NEW p \in Procs, AddUnboundKey(p)
  PROVE  Start(p)
  <1> DEFINE doc == ctx[p].doc
  <1>1. Ready(p) /\ onlyLUKS(doc) /\ UNCHANGED forced
    BY DEF AddUnboundKey, Reads
  <1>2. WF(doc) /\ IsDoc(doc) /\ forced \in BOOLEAN
    BY <1>1, ReadyFact
  <1>3. doc.requirements = {}
    BY <1>1, <1>2, RequirementsFact DEF onlyLUKS
  <1> DEFINE s == keyslot_verify_or_find_empty(doc, ANY_SLOT)
             d == LowestFree(doc.digests, DIGEST_MAX)
             Plan(key, pass) == <<StoreStep(s, pass, key, d, ANY_TOKEN, ANY_SLOT, {}, {}, {{<<pass, key>>}})>>
  <1>4. PICK key \in VolumeKeys, pass \in Pass :
          /\ s >= 0 /\ d >= 0 /\ LUKS2_find_area_gap(doc, KeyLength(key)) >= 0
          /\ Begin(p, Plan(key, pass))
    BY Zenon DEF AddUnboundKey, Reads
  <1>5. s \in Slots \ DOMAIN doc.keyslots
    BY <1>2, <1>4, FreeSlot
  <1>6. d \in DigestIds /\ d \notin DOMAIN doc.digests
    <2>1. DIGEST_MAX \in Nat
      BY LimitsAssumption
    <2>2. d \in (0..(DIGEST_MAX - 1)) \ DOMAIN doc.digests
      BY <1>4, <2>1, LowestFreeFact
    <2>3. QED BY <2>2 DEF DigestIds
  <1>7. NewSlot(doc, s, key, d)
    BY <1>4, <1>5, <1>6 DEF NewSlot
  <1>8. s \in Slots /\ ANY_TOKEN \in TokenIds \cup {ANY_TOKEN}
    BY <1>5
  <1> HIDE DEF doc, s, d
  <1>9. Planned(doc, Plan(key, pass), FALSE)
    BY <1>2, <1>3, <1>6, <1>7, <1>8, PlannedAdd
  <1>10. QED BY <1>1, <1>2, <1>4, <1>9, StartUnforced DEF doc

\* SetVolumeKey begins one of the plans.
LEMMA SetVolumeKeyStart ==
  ASSUME DocInv, NEW p \in Procs, SetVolumeKey(p)
  PROVE  Start(p)
  <1> DEFINE doc == ctx[p].doc
  <1>1. Ready(p) /\ onlyLUKS(doc) /\ UNCHANGED forced
    BY DEF SetVolumeKey, Reads
  <1>2. WF(doc) /\ IsDoc(doc) /\ forced \in BOOLEAN
    BY <1>1, ReadyFact
  <1>3. doc.requirements = {}
    BY <1>1, <1>2, RequirementsFact DEF onlyLUKS
  <1>4. PICK s \in DOMAIN doc.keyslots : Begin(p, <<SetKeyStep(LUKS2_digest_by_keyslot(doc, s))>>)
    BY Zenon DEF SetVolumeKey, Reads
  <1> DEFINE d == LUKS2_digest_by_keyslot(doc, s)
             st == SetKeyStep(d)
             plan == <<st>>
  <1>5. InDigest(doc, s, d)
    BY <1>2, KeyOfSlot DEF WF
  <1>6. SetKeyOK(doc, st)
    BY <1>5 DEF SetKeyOK, InDigest
  <1>7. Begin(p, plan)
    BY <1>4
  <1> HIDE DEF st
  <1>8. plan[1] = st
    BY OneStep
  <1>9. plan = <<plan[1]>>
    BY <1>8
  <1> HIDE DEF plan
  <1>10. PlanHeader(doc, plan)
    BY <1>6, <1>8, <1>9 DEF PlanHeader
  <1>11. Planned(doc, plan, FALSE)
    BY <1>2, <1>3, <1>10, PlannedHeader
  <1>12. QED BY <1>1, <1>2, <1>7, <1>11, StartUnforced

\* crypt_keyslot_change_by_passphrase begins one of the plans.
LEMMA ChangeStart ==
  ASSUME DocInv, NEW p \in Procs, Ready(p), onlyLUKS(ctx[p].doc), NEW r \in DOMAIN ctx[p].doc.keyslots,
         NEW slot, NEW old \in Pass, NEW new \in Pass, Yields(ctx[p].doc, areas, r, old),
         crypt_keyslot_change_by_passphrase(p, slot, r, old, new)
  PROVE  Start(p)
  <1> DEFINE doc == ctx[p].doc
             d == LUKS2_digest_by_keyslot(doc, r)
             key == KeyOf(doc, r)
             free == LUKS2_keyslot_find_empty(doc, KeyLength(key))
             was == <<old, key>>
             now == <<new, key>>
             second == slot = ANY_SLOT /\ free >= 0
             two == <<StoreStep(free, new, key, d, ANY_TOKEN, r, {was}, {was, now}, {}),
                      WipeStep(free, FALSE, r, {was}, {now}, {SaltOf(doc, r)})>>
             one == <<WipeStep(r, TRUE, ANY_SLOT, {was}, {}, {}),
                      StoreStep(r, new, key, d, ANY_TOKEN, ANY_SLOT, {}, {}, {{now}})>>
  <1>1. Begin(p, IF second THEN two ELSE one) /\ forced' = (forced \/ ~second)
    BY Zenon DEF crypt_keyslot_change_by_passphrase, Reads
  <1>2. WF(doc) /\ IsDoc(doc) /\ forced \in BOOLEAN
    BY ReadyFact
  <1>3. doc.requirements = {}
    BY <1>2, RequirementsFact DEF onlyLUKS
  <1>4. CASE second
    <2>0. free >= 0
      BY <1>4
    <2>1. Planned(doc, two, FALSE)
      <3> HIDE DEF doc, key, d, free
      <3>1. key = KeyOf(doc, r) /\ d = LUKS2_digest_by_keyslot(doc, r) /\ free = LUKS2_keyslot_find_empty(doc, KeyLength(key))
        BY DEF key, d, free
      <3>2. Yields(doc, areas, r, old) /\ r \in DOMAIN doc.keyslots
        BY DEF doc
      <3>3. QED BY <1>2, <1>3, <2>0, <3>1, <3>2, PlannedChange
    <2>2. Begin(p, two) /\ UNCHANGED forced
      <3> HIDE DEF two
      <3> QED BY <1>1, <1>2, <1>4, Zenon
    <2> HIDE DEF two
    <2>3. QED BY <1>2, <2>1, <2>2, StartUnforced
  <1>5. CASE ~second
    <2>1. Planned(doc, one, TRUE)
      <3> HIDE DEF doc, key, d
      <3>1. key = KeyOf(doc, r) /\ d = LUKS2_digest_by_keyslot(doc, r)
        BY DEF key, d
      <3>2. Yields(doc, areas, r, old) /\ r \in DOMAIN doc.keyslots
        BY DEF doc
      <3>3. QED BY <1>2, <1>3, <3>1, <3>2, PlannedInPlace
    <2>2. Begin(p, one) /\ forced'
      <3> HIDE DEF one, second
      <3> QED BY <1>1, <1>5, Zenon
    <2> HIDE DEF one
    <2>3. Started(p, one)
      BY <2>1, <2>2, Zenon DEF Started
    <2>4. forced' \in BOOLEAN
      BY <2>2, <1>1, Zenon
    <2>5. QED BY <2>2, <2>3, <2>4, Zenon DEF Start, Ready
  <1>6. QED BY <1>4, <1>5

\* ChangeKey begins one of the plans.
LEMMA ChangeKeyStart ==
  ASSUME DocInv, NEW p \in Procs, ChangeKey(p)
  PROVE  Start(p)
  <1> DEFINE doc == ctx[p].doc
  <1>1. Ready(p) /\ onlyLUKS(doc)
    BY Zenon DEF ChangeKey, Reads
  <1>2. WF(doc)
    BY <1>1, ReadyFact
  <1>3. PICK slot \in Slots \cup {ANY_SLOT}, old \in Pass, new \in Pass :
          \E r \in LUKS2_keyslot_open(doc, areas, slot, ANY_SEGMENT, old) :
            r >= 0 /\ crypt_keyslot_change_by_passphrase(p, slot, r, old, new)
    BY Zenon DEF ChangeKey, Reads
  <1>4. PICK r \in LUKS2_keyslot_open(doc, areas, slot, ANY_SEGMENT, old) :
            r >= 0 /\ crypt_keyslot_change_by_passphrase(p, slot, r, old, new)
    BY <1>3
  <1>5. r \in DOMAIN doc.keyslots /\ Yields(doc, areas, r, old)
    BY <1>2, <1>4, OpenAnySlot
  <1>6. QED BY <1>1, <1>4, <1>5, ChangeStart

\* ConvertKey begins one of the plans.
LEMMA ConvertKeyStart ==
  ASSUME DocInv, NEW p \in Procs, ConvertKey(p)
  PROVE  Start(p)
  <1> DEFINE doc == ctx[p].doc
  <1>1. Ready(p) /\ onlyLUKS(doc)
    BY Zenon DEF ConvertKey, Reads
  <1>2. WF(doc)
    BY <1>1, ReadyFact
  <1>3. PICK slot \in DOMAIN doc.keyslots, pass \in Pass :
          /\ slot \in LUKS2_keyslot_open(doc, areas, slot, ANY_SEGMENT, pass)
          /\ crypt_keyslot_change_by_passphrase(p, slot, slot, pass, pass)
    BY Zenon DEF ConvertKey, Reads
  <1>4. Yields(doc, areas, slot, pass)
    BY <1>2, <1>3, OpenIff
  <1>5. QED BY <1>1, <1>3, <1>4, ChangeStart

\* A removal, confirmed when it is the last, begins one of the plans.
LEMMA DestroyStart ==
  ASSUME DocInv, NEW p \in Procs, Ready(p), NEW s \in DOMAIN ctx[p].doc.keyslots, Begin(p, <<Destroy(ctx[p].doc, s)>>),
         forced' = (forced \/ LUKS2_keyslot_info(ctx[p].doc, s) = "ACTIVE_LAST")
  PROVE  Start(p)
  <1> DEFINE doc == ctx[p].doc
             plan == <<Destroy(doc, s)>>
  <1>1. WF(doc) /\ forced \in BOOLEAN
    BY ReadyFact
  <1>2. Planned(doc, plan, TRUE) /\ (LUKS2_keyslot_info(doc, s) # "ACTIVE_LAST" => Planned(doc, plan, FALSE))
    BY <1>1, PlannedDestroy
  <1>3. Begin(p, plan)
    OBVIOUS
  <1> HIDE DEF plan
  <1>4. Started(p, plan)
    BY <1>2, <1>3, Zenon DEF Started
  <1>5. (forced => forced') /\ forced' \in BOOLEAN
    BY Zenon
  <1>6. QED BY <1>4, <1>5, Zenon DEF Start, Ready

\* RemoveKey begins one of the plans.
LEMMA RemoveKeyStart ==
  ASSUME DocInv, NEW p \in Procs, RemoveKey(p)
  PROVE  Start(p)
  <1> DEFINE doc == ctx[p].doc
  <1>1. Ready(p)
    BY Zenon DEF RemoveKey
  <1>2. WF(doc)
    BY <1>1, ReadyFact
  <1>3. PICK pass \in Pass : \E r \in LUKS2_keyslot_open(doc, areas, ANY_SLOT, DEFAULT_SEGMENT, pass) :
          /\ r >= 0 /\ Begin(p, <<Destroy(doc, r)>>) /\ forced' = (forced \/ LUKS2_keyslot_info(doc, r) = "ACTIVE_LAST")
    BY Zenon DEF RemoveKey, Reads
  <1>4. PICK r \in LUKS2_keyslot_open(doc, areas, ANY_SLOT, DEFAULT_SEGMENT, pass) :
          /\ r >= 0 /\ Begin(p, <<Destroy(doc, r)>>) /\ forced' = (forced \/ LUKS2_keyslot_info(doc, r) = "ACTIVE_LAST")
    BY <1>3, Zenon
  <1>5. r \in DOMAIN doc.keyslots
    BY <1>2, <1>4, OpenAnySlot
  <1>6. QED BY <1>1, <1>4, <1>5, DestroyStart

\* KillSlot begins one of the plans.
LEMMA KillSlotStart ==
  ASSUME DocInv, NEW p \in Procs, KillSlot(p)
  PROVE  Start(p)
  <1> DEFINE doc == ctx[p].doc
  <1>1. Ready(p)
    BY Zenon DEF KillSlot
  <1>2. PICK s \in DOMAIN doc.keyslots :
          Begin(p, <<Destroy(doc, s)>>) /\ forced' = (forced \/ LUKS2_keyslot_info(doc, s) = "ACTIVE_LAST")
    BY Zenon DEF KillSlot, Reads
  <1>3. QED BY <1>1, <1>2, DestroyStart

\* Erase begins one of the plans.
LEMMA EraseStart ==
  ASSUME DocInv, NEW p \in Procs, Erase(p)
  PROVE  Start(p)
  <1> DEFINE doc == ctx[p].doc
             active == {s \in DOMAIN doc.keyslots : LUKS2_keyslot_info(doc, s) \in {"ACTIVE", "ACTIVE_LAST"}}
  <1>1. Ready(p) /\ active # {} /\ forced' = TRUE
    BY Zenon DEF Erase, Reads
  <1>2. WF(doc)
    BY <1>1, ReadyFact
  <1>3. PICK order \in [1..Cardinality(active) -> active] :
          /\ \A i, j \in DOMAIN order : i < j => order[i] < order[j]
          /\ Begin(p, [i \in DOMAIN order |-> Destroy(doc, order[i])])
    BY Zenon DEF Erase, Reads
  <1>4. active \subseteq DOMAIN doc.keyslots
    OBVIOUS
  <1> HIDE DEF active
  <1> DEFINE plan == [i \in DOMAIN order |-> Destroy(doc, order[i])]
  <1>5. Planned(doc, plan, TRUE)
    BY <1>1, <1>2, <1>3, <1>4, PlannedErase
  <1>6. Begin(p, plan)
    BY <1>3
  <1> HIDE DEF plan
  <1>7. Started(p, plan)
    BY <1>1, <1>5, <1>6, Zenon DEF Started
  <1>8. QED BY <1>1, <1>7, Zenon DEF Start, Ready

\* The commands that only write the header.
LEMMA HeaderStart ==
  ASSUME DocInv, NEW p \in Procs, Ready(p), onlyLUKS(ctx[p].doc), UNCHANGED forced, NEW st, TokenStepOK(ctx[p].doc, st),
         \/ Begin(p, <<st>>)
         \/ \E sn : TokenStepOK(ctx[p].doc, sn) /\ Begin(p, <<st, sn>>)
  PROVE  Start(p)
  <1> DEFINE doc == ctx[p].doc
  <1>1. WF(doc) /\ IsDoc(doc) /\ forced \in BOOLEAN
    BY ReadyFact
  <1>2. doc.requirements = {}
    BY <1>1, RequirementsFact DEF onlyLUKS
  <1>3. \E plan : PlanHeader(doc, plan) /\ Begin(p, plan)
    <2>1. CASE Begin(p, <<st>>)
      <3> DEFINE plan == <<st>>
      <3>1. plan[1] = st
        BY OneStep
      <3>2. PlanHeader(doc, plan)
        BY <3>1 DEF PlanHeader
      <3>3. QED BY <2>1, <3>2
    <2>2. CASE \E sn : TokenStepOK(doc, sn) /\ Begin(p, <<st, sn>>)
      <3>1. PICK sn : TokenStepOK(doc, sn) /\ Begin(p, <<st, sn>>)
        BY <2>2
      <3> DEFINE plan == <<st, sn>>
      <3>2. plan[1] = st /\ plan[2] = sn
        BY TwoSteps
      <3>3. PlanHeader(doc, plan)
        BY <3>1, <3>2 DEF PlanHeader
      <3>4. QED BY <3>1, <3>3
    <2>3. QED BY <2>1, <2>2
  <1>4. PICK plan : PlanHeader(doc, plan) /\ Begin(p, plan)
    BY <1>3
  <1>5. Planned(doc, plan, FALSE)
    BY <1>1, <1>2, <1>4, PlannedHeader
  <1>6. QED BY <1>1, <1>4, <1>5, StartUnforced

TokenCommands(p) == TokenAdd(p) \/ TokenImport(p) \/ TokenRemove(p) \/ TokenUnassign(p) \/ SetPriority(p)

\* The token and configuration commands begin one of the plans.
LEMMA TokenStart ==
  ASSUME DocInv, NEW p \in Procs, TokenCommands(p)
  PROVE  Start(p)
  <1> DEFINE doc == ctx[p].doc
  <1>1. Ready(p) /\ onlyLUKS(doc) /\ UNCHANGED forced
    BY Zenon DEF TokenCommands, TokenAdd, TokenImport, TokenRemove, TokenUnassign, SetPriority, Reads
  <1>2. WF(doc) /\ IsDoc(doc)
    BY <1>1, ReadyFact
  <1>3. DOMAIN doc.tokens \subseteq TokenIds
    BY <1>2, DocFields DEF IsMap
  <1>4. TokenPass \subseteq Pass
    BY KeyslotsAssumption
  <1>5. CASE TokenAdd(p)
    <2> DEFINE t == LowestFree(doc.tokens, TOKENS_MAX)
    <2>1. PICK pass \in TokenPass, s \in DOMAIN doc.keyslots :
            t >= 0 /\ Begin(p, <<TokenStep(t, {[pass |-> pass, reply |-> 0, keyslots |-> {}]}), AssignStep(t, s, TRUE)>>)
      BY <1>5, Zenon DEF TokenAdd, Reads
    <2>2. t \in TokenIds
      <3>1. TOKENS_MAX \in Nat
        BY LimitsAssumption
      <3>2. QED BY <2>1, <3>1, LowestFreeFact DEF TokenIds
    <2> HIDE DEF t
    <2> DEFINE st == TokenStep(t, {[pass |-> pass, reply |-> 0, keyslots |-> {}]})
               sn == AssignStep(t, s, TRUE)
    <2>3. TokenStepOK(doc, st)
      BY <1>4, <2>2, Zenon DEF TokenStepOK
    <2>4. TokenStepOK(doc, sn)
      BY <2>2, Zenon DEF TokenStepOK
    <2>5. Begin(p, <<st, sn>>)
      BY <2>1
    <2> HIDE DEF st, sn
    <2>6. QED BY <1>1, <2>3, <2>4, <2>5, HeaderStart
  <1>6. CASE TokenImport(p)
    <2>1. PICK pass \in TokenPass, t \in 0..(TOKENS_MAX - 1) :
            Begin(p, <<TokenStep(t, {[pass |-> pass, reply |-> 0, keyslots |-> {}]})>>)
      BY <1>6, Zenon DEF TokenImport, Reads
    <2> DEFINE st == TokenStep(t, {[pass |-> pass, reply |-> 0, keyslots |-> {}]})
    <2>2. t \in TokenIds /\ pass \in Pass
      BY <1>4 DEF TokenIds
    <2>3. TokenStepOK(doc, st)
      BY <2>2, Zenon DEF TokenStepOK
    <2>4. Begin(p, <<st>>)
      BY <2>1
    <2> HIDE DEF st
    <2>5. QED BY <1>1, <2>3, <2>4, HeaderStart
  <1>7. CASE TokenRemove(p)
    <2>1. PICK t \in DOMAIN doc.tokens : Begin(p, <<TokenStep(t, {})>>)
      BY <1>7, Zenon DEF TokenRemove, Reads
    <2> DEFINE st == TokenStep(t, {})
    <2>2. TokenStepOK(doc, st)
      BY <1>3, Zenon DEF TokenStepOK
    <2>3. Begin(p, <<st>>)
      BY <2>1
    <2> HIDE DEF st
    <2>4. QED BY <1>1, <2>2, <2>3, HeaderStart
  <1>8. CASE TokenUnassign(p)
    <2>1. PICK t \in DOMAIN doc.tokens, s \in Slots : Begin(p, <<AssignStep(t, s, FALSE)>>)
      BY <1>8, Zenon DEF TokenUnassign, Reads
    <2> DEFINE st == AssignStep(t, s, FALSE)
    <2>2. TokenStepOK(doc, st)
      BY <1>3, Zenon DEF TokenStepOK
    <2>3. Begin(p, <<st>>)
      BY <2>1
    <2> HIDE DEF st
    <2>4. QED BY <1>1, <2>2, <2>3, HeaderStart
  <1>9. CASE SetPriority(p)
    <2>1. PICK s \in DOMAIN doc.keyslots, prio \in {PRIO_IGNORE, PRIO_NORMAL, PRIO_PREFER} : Begin(p, <<PriorityStep(s, prio)>>)
      BY <1>9, Zenon DEF SetPriority, Reads
    <2> DEFINE st == PriorityStep(s, prio)
    <2>2. TokenStepOK(doc, st)
      BY Zenon DEF TokenStepOK
    <2>3. Begin(p, <<st>>)
      BY <2>1
    <2> HIDE DEF st
    <2>4. QED BY <1>1, <2>2, <2>3, HeaderStart
  <1>10. QED BY <1>5, <1>6, <1>7, <1>8, <1>9 DEF TokenCommands

\* The commands; every one of them starts a plan that fits the document.
Commands(p) ==
  \/ AddKey(p) \/ AddUnboundKey(p) \/ SetVolumeKey(p) \/ ChangeKey(p) \/ ConvertKey(p)
  \/ RemoveKey(p) \/ KillSlot(p) \/ Erase(p) \/ TokenCommands(p)

\* Every command begins one of the plans.
LEMMA CommandsStart ==
  ASSUME DocInv, NEW p \in Procs, Commands(p)
  PROVE  Start(p)
  BY AddKeyStart, AddUnboundKeyStart, SetVolumeKeyStart, ChangeKeyStart, ConvertKeyStart,
     RemoveKeyStart, KillSlotStart, EraseStart, TokenStart DEF Commands

------------------------------------------------------------------------------
\* The locked sections.

UnitsOf(k) == k.off..(k.off + k.len - 1)
Material(k, x, key, u) == [salt |-> k.salt, pass |-> x, key |-> key, part |-> u - k.off, of |-> k.len]
\* The area of k filled, or wiped.
Filled(ar, br, k, x, key) ==
  /\ br \in [Units -> AreaRec]
  /\ \A u \in Units : br[u] = IF u \in UnitsOf(k) THEN Material(k, x, key, u) ELSE ar[u]
Erased(ar, br, k) ==
  /\ br \in [Units -> AreaRec]
  /\ \A u \in Units : br[u] = IF u \in UnitsOf(k) THEN Junk ELSE ar[u]

\* StoreArea writes the new material over the whole area and nowhere else.
LEMMA FilledFact ==
  ASSUME NEW doc, NEW st, areas \in [Units -> AreaRec], doc.keyslots[st.slot] \in KsRec, st.pass \in Pass, st.key \in VolumeKeys
  PROVE  Filled(areas, StoreArea(doc, st), doc.keyslots[st.slot], st.pass, st.key)
  <1> DEFINE k == doc.keyslots[st.slot]
             x == st.pass
             key == st.key
             br == StoreArea(doc, st)
  <1>1. br = [u \in Units |-> IF u \in UnitsOf(k) THEN Material(k, x, key, u) ELSE areas[u]]
    BY DEF StoreArea, SlotUnits, UnitsOf, Material
  <1> HIDE DEF k, x, key, br
  <1>2. k \in KsRec /\ x \in Pass /\ key \in VolumeKeys
    BY DEF k, x, key
  <1>3. \A u \in Units : u \in Int
    BY LimitsAssumption DEF Units
  <1>4. \A u \in Units : Material(k, x, key, u) \in AreaRec
    BY <1>2, <1>3 DEF Material, AreaRec, KsRec
  <1>5. Filled(areas, br, k, x, key)
    BY <1>1, <1>4 DEF Filled
  <1>6. QED BY <1>5 DEF k, x, key, br

\* WipeArea leaves no salt in the area and writes nowhere else.
LEMMA ErasedFact ==
  ASSUME NEW doc, NEW s, areas \in [Units -> AreaRec]
  PROVE  Erased(areas, WipeArea(doc, s), doc.keyslots[s])
  <1>1. WipeArea(doc, s) = [u \in Units |-> IF u \in UnitsOf(doc.keyslots[s]) THEN Junk ELSE areas[u]]
    BY DEF WipeArea, SlotUnits, UnitsOf
  <1>2. Junk \in AreaRec
    BY DEF Junk, AreaRec
  <1> HIDE DEF Junk
  <1>3. QED BY <1>1, <1>2 DEF Erased

BusyOK(p) ==
  /\ WF(ctx[p].doc) /\ PlanOK(ctx[p].doc, ctx[p].plan) /\ HeadKind(ctx[p].doc, Step(p))
  /\ NewDoc(p) = After(ctx[p].doc, Step(p)) /\ WF(NewDoc(p)) /\ NewDoc(p).requirements = ctx[p].doc.requirements
  /\ LUKS2_hdr_validate(NewDoc(p))
  /\ WF(Next1(ctx[p].doc, Step(p)))
  /\ Tail(ctx[p].plan) # << >> => PlanOK(Next1(ctx[p].doc, Step(p)), Tail(ctx[p].plan))

\* The document a busy context has in memory next is valid.
LEMMA BusyFact ==
  ASSUME DocInv, NEW p \in Procs, ctx[p].st = "busy"
  PROVE  BusyOK(p)
  <1> DEFINE doc == ctx[p].doc
             plan == ctx[p].plan
             st == Head(plan)
  <1>1. WF(doc) /\ PlanOK(doc, plan) /\ salts \in Nat
    BY DEF DocInv, Live, Busy
  <1>2. Step(p) = st /\ NewDoc(p) = After(doc, st)
    BY DEF Step, NewDoc, After
  <1> HIDE DEF doc, plan, st
  <1>3. st = Head(plan)
    BY DEF st
  <1>4. HeadKind(doc, st)
    BY <1>1, <1>3, HeadFact
  <1>5. WF(After(doc, st)) /\ After(doc, st).requirements = doc.requirements
    BY <1>1, <1>4, AfterWF
  <1>6. LUKS2_hdr_validate(After(doc, st))
    BY <1>5, WFValidates
  <1>7. WF(Next1(doc, st))
    BY <1>1, <1>5 DEF Next1
  <1>8. Tail(plan) # << >> => PlanOK(Next1(doc, st), Tail(plan))
    BY <1>1, <1>3, PlanAdvance
  <1>9. QED BY <1>1, <1>2, <1>4, <1>5, <1>6, <1>7, <1>8 DEF BusyOK, doc, plan

\* Kinds of steps, by what they do.
LEMMA HeadDo ==
  ASSUME NEW doc, WF(doc), NEW st, HeadKind(doc, st)
  PROVE  /\ st.do = "store" => (StoreNewStep(doc, st) \/ StoreOverStep(doc, st)) /\ st.pass \in Pass /\ st.key \in VolumeKeys /\ st.slot \in Slots
         /\ st.do = "wipe" => OnlyStep(doc, st) \/ RemoveStep(doc, st)
         /\ st.do \notin {"store", "wipe"} => HeaderStep(doc, st)
         /\ st.do \in {"store", "wipe"} => ~HeaderStep(doc, st)
         /\ st.do # "wipe" => WritesHeader(st)
         /\ OnlyStep(doc, st) => ~WritesHeader(st)
         /\ RemoveStep(doc, st) => WritesHeader(st)
  <1>0. WF(doc) => \A s \in DOMAIN doc.keyslots : s \in Slots
    BY SlotIn
  <1>1. /\ StoreNewStep(doc, st) => st.do = "store" /\ st.pass \in Pass /\ st.key \in VolumeKeys /\ st.slot \in Slots
        /\ StoreOverStep(doc, st) => st.do = "store" /\ st.pass \in Pass /\ st.key \in VolumeKeys /\ st.slot \in DOMAIN doc.keyslots
    BY DEF StoreNewStep, StoreOverStep, NewSlot, Holding
  <1>2. /\ OnlyStep(doc, st) => st.do = "wipe" /\ ~WritesHeader(st)
        /\ RemoveStep(doc, st) => st.do = "wipe" /\ WritesHeader(st)
        /\ st.do # "wipe" => WritesHeader(st)
    BY DEF OnlyStep, RemoveStep, WipeOK, WritesHeader
  <1>3. HeaderStep(doc, st) => st.do # "store" /\ st.do # "wipe"
    BY DEF HeaderStep
  <1>4. StoreNewStep(doc, st) \/ StoreOverStep(doc, st) \/ OnlyStep(doc, st) \/ RemoveStep(doc, st) \/ HeaderStep(doc, st)
    BY DEF HeadKind
  <1>5. QED BY <1>0, <1>1, <1>2, <1>3, <1>4, Zenon

\* The keyslot a store writes, the one a wipe erases.
LEMMA StoredSlot ==
  ASSUME NEW doc, WF(doc), NEW st, HeadKind(doc, st), st.do = "store", salts \in Nat
  PROVE  LET b == After(doc, st) IN
         /\ st.slot \in DOMAIN b.keyslots /\ b.keyslots[st.slot] \in KsRec /\ Inside(b.keyslots[st.slot])
         /\ b.keyslots[st.slot].salt = salts + 1 /\ KeyOf(b, st.slot) = st.key
  <1> DEFINE b == After(doc, st)
  <1>1. WF(b)
    BY AfterWF
  <1>2. /\ st.slot \in DOMAIN b.keyslots
        /\ b.keyslots[st.slot].salt = salts + 1 /\ KeyOf(b, st.slot) = st.key
    <2>1. CASE StoreNewStep(doc, st)
      <3>1. StoredNew(doc, b, st)
        BY <2>1, AfterIs
      <3>2. st.slot \notin DOMAIN doc.keyslots
        BY <2>1 DEF StoreNewStep, NewSlot
      <3> HIDE DEF b
      <3>3. QED BY <3>1, <3>2 DEF StoredNew, NewKeyslot
    <2>2. CASE StoreOverStep(doc, st)
      <3>1. StoredOver(doc, b, st)
        BY <2>2, AfterIs
      <3>2. st.slot \in DOMAIN doc.keyslots
        BY <2>2 DEF StoreOverStep, Holding
      <3> HIDE DEF b
      <3>3. QED BY <3>1, <3>2 DEF StoredOver
    <2>3. QED BY <2>1, <2>2, HeadDo
  <1> HIDE DEF b
  <1>3. QED BY <1>1, <1>2, SlotIn DEF b

\* The area a wipe step erases is that of its target.
LEMMA WipedSlot ==
  ASSUME NEW doc, WF(doc), NEW st, HeadKind(doc, st), st.do = "wipe"
  PROVE  /\ Target(st) \in DOMAIN doc.keyslots /\ st.slot \in DOMAIN doc.keyslots
         /\ Swapped(doc, st).keyslots[st.slot] = doc.keyslots[Target(st)]
  <1>1. CASE OnlyStep(doc, st)
    BY <1>1 DEF OnlyStep, Target, Swapped
  <1>2. CASE RemoveStep(doc, st)
    BY <1>2, WipeSwapFact DEF RemoveStep, WipeOK, Target
  <1>3. QED BY <1>1, <1>2, HeadDo

\* What a section does to the keyslots area.
AreaStore(p) ==
  /\ Step(p).do = "store" /\ salts' = salts + 1
  /\ Filled(areas, areas', NewDoc(p).keyslots[Step(p).slot], Step(p).pass, Step(p).key)
AreaCut(p) ==
  Step(p).do = "store" /\ salts' = salts + 1 /\ Erased(areas, areas', NewDoc(p).keyslots[Step(p).slot])
AreaWipe(p) ==
  Step(p).do = "wipe" /\ salts' = salts /\ Erased(areas, areas', ctx[p].doc.keyslots[Target(Step(p))])
AreaNone(p) == Step(p).do \notin {"store", "wipe"} /\ salts' = salts /\ areas' = areas
SetCtx(p, c) == ctx' = [ctx EXCEPT ![p] = c]
Passed(p) == ctx[p].st = "busy" /\ ctx[p].seq = disk.seq /\ overrun' = (overrun \/ p \in failed)

\* A section that ran to its end.
DoneCtx(p, c) ==
  /\ c.doc = Next1(ctx[p].doc, Step(p)) /\ c.plan = Tail(ctx[p].plan)
  /\ c.st = IF Tail(ctx[p].plan) = << >> THEN "idle" ELSE "busy"
  /\ WritesHeader(Step(p)) => c.seq = disk.seq + 1 /\ disk' = [doc |-> NewDoc(p), seq |-> disk.seq + 1]
  /\ ~WritesHeader(Step(p)) => c.seq = disk.seq /\ disk' = disk
Done(p) ==
  /\ Passed(p)
  /\ \E c : SetCtx(p, c) /\ DoneCtx(p, c)
  /\ AreaStore(p) \/ AreaWipe(p) \/ AreaNone(p)
  /\ Complete(Step(p))
  /\ UNCHANGED <<forced, failed, ops, faults>>

\* A store, a wipe or a header write, as one kind of step.
LEMMA DoneFact ==
  ASSUME DocInv, NEW p \in Procs, KeyslotStore(p) \/ KeyslotWipe(p) \/ HdrWrite(p)
  PROVE  Done(p)
  <1> DEFINE doc == ctx[p].doc
             st == Step(p)
             rest == Tail(ctx[p].plan)
             C(d, q) == [st |-> IF rest = << >> THEN "idle" ELSE "busy", doc |-> d, seq |-> q, plan |-> rest]
  <1>0. Passed(p)
    BY DEF KeyslotStore, KeyslotWipe, HdrWrite, Passes, Passed, SequenceIdMatches
  <1>1. BusyOK(p)
    BY <1>0, BusyFact DEF Passed
  <1>2. WF(doc) /\ HeadKind(doc, st) /\ NewDoc(p) = After(doc, st)
    BY <1>1 DEF BusyOK
  <1>3. areas \in [Units -> AreaRec] /\ salts \in Nat
    BY DEF DocInv
  <1>4. \A d, q : C(d, q).doc = d /\ C(d, q).seq = q /\ C(d, q).plan = rest /\ C(d, q).st = IF rest = << >> THEN "idle" ELSE "busy"
    OBVIOUS
  <1>5. \A d, q : Advance(p, d, q) => SetCtx(p, C(d, q))
    BY Zenon DEF Advance, SetCtx
  <1> HIDE DEF C
  <1>6. CASE KeyslotStore(p)
    <2>1. /\ st.do = "store" /\ areas' = StoreArea(NewDoc(p), st) /\ salts' = salts + 1
          /\ disk' = [doc |-> NewDoc(p), seq |-> disk.seq + 1] /\ Advance(p, NewDoc(p), disk.seq + 1)
          /\ Complete(st) /\ UNCHANGED <<forced, failed, ops, faults>>
      BY <1>6, Zenon DEF KeyslotStore, HdrWritten
    <2>2. WritesHeader(st) /\ Next1(doc, st) = NewDoc(p)
      BY <1>2, <2>1, HeadDo DEF Next1
    <2>3. NewDoc(p).keyslots[st.slot] \in KsRec /\ st.pass \in Pass /\ st.key \in VolumeKeys
      BY <1>2, <1>3, <2>1, StoredSlot, HeadDo
    <2>4. AreaStore(p)
      BY <1>3, <2>1, <2>3, FilledFact DEF AreaStore
    <2>5. SetCtx(p, C(NewDoc(p), disk.seq + 1)) /\ DoneCtx(p, C(NewDoc(p), disk.seq + 1))
      BY <1>4, <1>5, <2>1, <2>2 DEF DoneCtx
    <2>6. QED BY <1>0, <2>1, <2>4, <2>5, Zenon DEF Done
  <1>7. CASE KeyslotWipe(p)
    <2>1. /\ st.do = "wipe" /\ areas' = WipeArea(Swapped(doc, st), st.slot) /\ salts' = salts
          /\ Complete(st) /\ UNCHANGED <<forced, failed, ops, faults>>
      BY <1>7, Zenon DEF KeyslotWipe
    <2>2. /\ st.only => disk' = disk /\ Advance(p, doc, ctx[p].seq)
          /\ ~st.only => disk' = [doc |-> NewDoc(p), seq |-> disk.seq + 1] /\ Advance(p, NewDoc(p), disk.seq + 1)
      BY <1>7, Zenon DEF KeyslotWipe, HdrWritten
    <2>3. WritesHeader(st) <=> ~st.only
      BY <2>1 DEF WritesHeader
    <2>4. AreaWipe(p)
      <3>1. Swapped(doc, st).keyslots[st.slot] = doc.keyslots[Target(st)]
        BY <1>2, <2>1, WipedSlot
      <3>2. Erased(areas, areas', Swapped(doc, st).keyslots[st.slot])
        BY <1>3, <2>1, ErasedFact
      <3>3. QED BY <2>1, <3>1, <3>2 DEF AreaWipe
    <2>5. \E c : SetCtx(p, c) /\ DoneCtx(p, c)
      <3>1. CASE st.only
        <4>1. Next1(doc, st) = doc /\ ctx[p].seq = disk.seq
          BY <1>0, <2>3, <3>1 DEF Next1, Passed
        <4>2. ~WritesHeader(st) /\ disk' = disk /\ Advance(p, doc, disk.seq)
          BY <2>2, <2>3, <3>1, <4>1
        <4>3. SetCtx(p, C(doc, disk.seq))
          BY <1>5, <4>2
        <4>4. DoneCtx(p, C(doc, disk.seq))
          BY <1>4, <4>1, <4>2 DEF DoneCtx
        <4>5. QED BY <4>3, <4>4
      <3>2. CASE ~st.only
        <4>1. Next1(doc, st) = NewDoc(p)
          BY <1>2, <2>3, <3>2 DEF Next1
        <4>2. SetCtx(p, C(NewDoc(p), disk.seq + 1)) /\ DoneCtx(p, C(NewDoc(p), disk.seq + 1))
          BY <1>4, <1>5, <2>2, <2>3, <3>2, <4>1 DEF DoneCtx
        <4>3. QED BY <4>2
      <3>3. QED BY <3>1, <3>2
    <2>6. QED BY <1>0, <2>1, <2>4, <2>5, Zenon DEF Done
  <1>8. CASE HdrWrite(p)
    <2>1. /\ st.do \notin {"store", "wipe"} /\ areas' = areas /\ salts' = salts
          /\ disk' = [doc |-> NewDoc(p), seq |-> disk.seq + 1] /\ Advance(p, NewDoc(p), disk.seq + 1)
          /\ Complete(st) /\ UNCHANGED <<forced, failed, ops, faults>>
      BY <1>8, Zenon DEF HdrWrite, HdrWritten
    <2>2. WritesHeader(st) /\ Next1(doc, st) = NewDoc(p)
      BY <1>2, <2>1, HeadDo DEF Next1
    <2>4. AreaNone(p)
      BY <2>1 DEF AreaNone
    <2>5. SetCtx(p, C(NewDoc(p), disk.seq + 1)) /\ DoneCtx(p, C(NewDoc(p), disk.seq + 1))
      BY <1>4, <1>5, <2>1, <2>2 DEF DoneCtx
    <2>6. QED BY <1>0, <2>1, <2>4, <2>5, Zenon DEF Done
  <1>9. QED BY <1>6, <1>7, <1>8

\* A section that was interrupted.
BrokenCtx(p, c) ==
  \/ c = Unloaded /\ failed' = failed \ {p}
  \/ /\ c.st = "idle" /\ c.plan = << >> /\ c.seq = ctx[p].seq + 1 /\ failed' = failed \cup {p}
     /\ c.doc = IF Step(p).do = "store" THEN ctx[p].doc ELSE NewDoc(p)
  \/ c.st = "idle" /\ c.plan = << >> /\ c.seq = ctx[p].seq /\ c.doc = ctx[p].doc /\ failed' = failed
Broken(p) ==
  /\ Passed(p) /\ faults < MaxFaults /\ ops + faults < MaxEvents /\ faults' = faults + 1
  /\ \E c : SetCtx(p, c) /\ BrokenCtx(p, c)
  /\ \/ (AreaStore(p) \/ AreaCut(p) \/ AreaNone(p)) /\ UNCHANGED keep
     \/ AreaWipe(p) /\ keep' = Promised(Step(p))
  /\ UNCHANGED <<disk, revoked, forced, ops>>

\* An interrupted step, as one kind of step.
LEMMA BrokenFact ==
  ASSUME DocInv, NEW p \in Procs, Interrupted(p)
  PROVE  Broken(p)
  <1> DEFINE doc == ctx[p].doc
             st == Step(p)
             C(d, q) == [st |-> "idle", plan |-> << >>, seq |-> q, doc |-> d]
  <1>0. Passed(p)
    BY DEF Interrupted, Passes, Passed, SequenceIdMatches
  <1>1. BusyOK(p)
    BY <1>0, BusyFact DEF Passed
  <1>2. WF(doc) /\ HeadKind(doc, st) /\ NewDoc(p) = After(doc, st)
    BY <1>1 DEF BusyOK
  <1>3. areas \in [Units -> AreaRec] /\ salts \in Nat
    BY DEF DocInv
  <1>4. \A d, q : C(d, q).doc = d /\ C(d, q).seq = q /\ C(d, q).plan = << >> /\ C(d, q).st = "idle"
    OBVIOUS
  <1>5. \/ ctx' = [ctx EXCEPT ![p] = Unloaded] /\ failed' = failed \ {p}
        \/ WritesHeader(st) /\ ctx' = AfterError(p, TRUE, ctx[p].seq + 1) /\ failed' = failed \cup {p}
        \/ st.do \in {"store", "wipe"} /\ ctx' = AfterError(p, FALSE, ctx[p].seq) /\ UNCHANGED failed
    BY Zenon DEF Interrupted
  <1>6. \E c : SetCtx(p, c) /\ BrokenCtx(p, c)
    <2>1. CASE ctx' = [ctx EXCEPT ![p] = Unloaded] /\ failed' = failed \ {p}
      BY <2>1, Zenon DEF SetCtx, BrokenCtx
    <2>2. CASE ctx' = AfterError(p, TRUE, ctx[p].seq + 1) /\ failed' = failed \cup {p}
      <3> DEFINE d == IF st.do # "store" THEN NewDoc(p) ELSE doc
      <3>1. SetCtx(p, C(d, ctx[p].seq + 1))
        BY <2>2, Zenon DEF SetCtx, AfterError
      <3>2. d = IF st.do = "store" THEN doc ELSE NewDoc(p)
        OBVIOUS
      <3> HIDE DEF d, C
      <3>3. BrokenCtx(p, C(d, ctx[p].seq + 1))
        BY <1>4, <2>2, <3>2 DEF BrokenCtx
      <3>4. QED BY <3>1, <3>3
    <2>3. CASE ctx' = AfterError(p, FALSE, ctx[p].seq) /\ UNCHANGED failed
      <3>1. SetCtx(p, C(doc, ctx[p].seq))
        BY <2>3, Zenon DEF SetCtx, AfterError
      <3> HIDE DEF C
      <3>2. BrokenCtx(p, C(doc, ctx[p].seq))
        BY <1>4, <2>3 DEF BrokenCtx
      <3>3. QED BY <3>1, <3>2
    <2>4. QED BY <1>5, <2>1, <2>2, <2>3
  <1>7. \/ (AreaStore(p) \/ AreaCut(p) \/ AreaNone(p)) /\ UNCHANGED keep
        \/ AreaWipe(p) /\ keep' = Promised(st)
    <2>1. CASE /\ st.do = "store" /\ areas' \in {StoreArea(NewDoc(p), st), WipeArea(NewDoc(p), st.slot)}
               /\ salts' = salts + 1 /\ UNCHANGED keep
      <3>1. NewDoc(p).keyslots[st.slot] \in KsRec /\ st.pass \in Pass /\ st.key \in VolumeKeys
        BY <1>2, <1>3, <2>1, StoredSlot, HeadDo
      <3>2. CASE areas' = StoreArea(NewDoc(p), st)
        BY <1>3, <2>1, <3>1, <3>2, FilledFact DEF AreaStore
      <3>3. CASE areas' = WipeArea(NewDoc(p), st.slot)
        BY <1>3, <2>1, <3>3, ErasedFact DEF AreaCut
      <3>4. QED BY <2>1, <3>2, <3>3
    <2>2. CASE /\ st.do = "wipe" /\ areas' = WipeArea(Swapped(doc, st), st.slot) /\ keep' = Promised(st) /\ UNCHANGED salts
      <3>1. Swapped(doc, st).keyslots[st.slot] = doc.keyslots[Target(st)]
        BY <1>2, <2>2, WipedSlot
      <3>2. Erased(areas, areas', Swapped(doc, st).keyslots[st.slot])
        BY <1>3, <2>2, ErasedFact
      <3>3. QED BY <2>2, <3>1, <3>2 DEF AreaWipe
    <2>3. CASE st.do \notin {"store", "wipe"} /\ UNCHANGED <<areas, salts, keep>>
      BY <2>3 DEF AreaNone
    <2>4. QED BY <2>1, <2>2, <2>3, Zenon DEF Interrupted
  <1>8. /\ faults < MaxFaults /\ ops + faults < MaxEvents /\ faults' = faults + 1
        /\ UNCHANGED <<disk, revoked, forced, ops>>
    BY Zenon DEF Interrupted
  <1>9. QED BY <1>0, <1>6, <1>7, <1>8, Zenon DEF Broken

\* A section that was refused: the sequence id differs, since what a plan
\* leads to always validates.
RejectedCtx(p, c) ==
  /\ c.st = "idle" /\ c.plan = << >> /\ c.seq = ctx[p].seq
  /\ c.doc = IF Step(p).do \in {"store", "wipe"} THEN ctx[p].doc ELSE NewDoc(p)
Rejected(p) ==
  /\ ctx[p].st = "busy" /\ ctx[p].seq # disk.seq
  /\ \E c : SetCtx(p, c) /\ RejectedCtx(p, c)
  /\ UNCHANGED <<disk, areas, salts, keep, revoked, forced, failed, overrun, ops, faults>>

\* A step refused by the sequence id, as one kind of step.
LEMMA RejectedFact ==
  ASSUME DocInv, NEW p \in Procs, Refused(p)
  PROVE  Rejected(p)
  <1> DEFINE doc == ctx[p].doc
             st == Step(p)
             d == IF st.do # "wipe" /\ st.do # "store" THEN NewDoc(p) ELSE doc
             c == [st |-> "idle", plan |-> << >>, seq |-> ctx[p].seq, doc |-> d]
  <1>0. ctx[p].st = "busy"
    BY DEF Refused
  <1>1. BusyOK(p)
    BY <1>0, BusyFact
  <1>2. ctx[p].seq # disk.seq
    BY <1>1 DEF BusyOK, Refused, SequenceIdMatches
  <1>3. SetCtx(p, c)
    BY Zenon DEF Refused, AfterError, SetCtx
  <1>4. RejectedCtx(p, c)
    BY DEF RejectedCtx
  <1>5. UNCHANGED <<disk, areas, salts, keep, revoked, forced, failed, overrun, ops, faults>>
    BY Zenon DEF Refused
  <1>6. QED BY <1>0, <1>2, <1>3, <1>4, <1>5, Zenon DEF Rejected

------------------------------------------------------------------------------
\* The inductive steps, action by action.

LEMMA NextCases ==
  ASSUME DocInv, Next
  PROVE  \E p \in Procs : Load(p) \/ Start(p) \/ Done(p) \/ Broken(p) \/ Rejected(p)
  <1>1. PICK p \in Procs :
          Load(p) \/ Commands(p) \/ (KeyslotStore(p) \/ KeyslotWipe(p) \/ HdrWrite(p)) \/ Refused(p) \/ Interrupted(p)
    BY Zenon DEF Next, Commands, TokenCommands
  <1>2. CASE Commands(p)
    BY <1>2, CommandsStart
  <1>3. CASE KeyslotStore(p) \/ KeyslotWipe(p) \/ HdrWrite(p)
    BY <1>3, DoneFact
  <1>4. CASE Refused(p)
    BY <1>4, RejectedFact
  <1>5. CASE Interrupted(p)
    BY <1>5, BrokenFact
  <1>6. QED BY <1>1, <1>2, <1>3, <1>4, <1>5

\* A step of one context leaves the others as they were.
LEMMA CtxSet ==
  ASSUME DocInv, NEW p \in Procs, NEW c, SetCtx(p, c)
  PROVE  DOMAIN ctx' = Procs /\ ctx'[p] = c /\ \A q \in Procs \ {p} : ctx'[q] = ctx[q]
  BY DEF DocInv, SetCtx

CtxOK(c) ==
  /\ c.st \in {"none", "idle", "busy"} /\ c.seq \in Nat
  /\ c.st # "none" => WF(c.doc)
  /\ c.st = "busy" => PlanOK(c.doc, c.plan)

\* The contexts stay good when the one that moves does.
LEMMA CtxInv ==
  ASSUME DocInv, NEW p \in Procs, NEW c, SetCtx(p, c), CtxOK(c)
  PROVE  DOMAIN ctx' = Procs /\ \A q \in Procs : CtxOK(ctx'[q])
  <1>1. DOMAIN ctx' = Procs /\ ctx'[p] = c /\ \A q \in Procs \ {p} : ctx'[q] = ctx[q]
    BY CtxSet
  <1>2. \A q \in Procs : CtxOK(ctx[q])
    BY DEF DocInv, CtxOK, Live, Busy
  <1>3. QED BY <1>1, <1>2

\* The parts of DocInv.
RestOK ==
  /\ WF(disk.doc) /\ disk.seq \in Nat /\ disk = [doc |-> disk.doc, seq |-> disk.seq]
  /\ areas \in [Units -> AreaRec] /\ salts \in Nat
  /\ keep \subseteq SUBSET Pairs
GhostOK == forced \in BOOLEAN /\ overrun \in BOOLEAN /\ failed \subseteq Procs
CountOK == ops \in Nat /\ faults \in Nat /\ ops + faults <= MaxEvents /\ faults <= MaxFaults

\* DocInv in parts.
LEMMA DocInvParts ==
  DocInv <=> RestOK /\ GhostOK /\ CountOK /\ DOMAIN ctx = Procs /\ \A q \in Procs : CtxOK(ctx[q])
  BY DEF DocInv, RestOK, GhostOK, CountOK, CtxOK, Live, Busy

\* What a step does to the promises keeps their type.
LEMMA PromisedType ==
  ASSUME keep \subseteq SUBSET Pairs, NEW st, GhostsOK(st)
  PROVE  Promised(st) \subseteq SUBSET Pairs
  <1> DEFINE Into(S) == IF st.do = "store" THEN st.into ELSE st.into \cap S
             Aft(S) == IF S \cap st.drop = {} THEN S ELSE (S \ st.drop) \cup Into(S)
  <1>1. Promised(st) = ({Aft(S) : S \in keep} \ {{}}) \cup st.gain
    BY Zenon DEF Promised
  <1>2. \A S : S \subseteq Pairs => Into(S) \subseteq Pairs
    BY DEF GhostsOK
  <1> HIDE DEF Into
  <1>3. \A S : S \subseteq Pairs => Aft(S) \subseteq Pairs
    BY <1>2
  <1> HIDE DEF Aft
  <1>4. \A S \in keep : Aft(S) \in SUBSET Pairs
    BY <1>3
  <1>5. QED BY <1>1, <1>4 DEF GhostsOK

\* What a step does to the areas keeps their type.
LEMMA AreasType ==
  ASSUME NEW p, AreaStore(p) \/ AreaCut(p) \/ AreaWipe(p) \/ AreaNone(p), areas \in [Units -> AreaRec], salts \in Nat
  PROVE  areas' \in [Units -> AreaRec] /\ salts' \in Nat
  BY DEF AreaStore, AreaCut, AreaWipe, AreaNone, Filled, Erased

\* DocInv is kept when a context is loaded.
LEMMA DocLoad ==
  ASSUME DocInv, NEW p \in Procs, Load(p)
  PROVE  DocInv'
  <1> DEFINE c == [st |-> "idle", doc |-> disk.doc, seq |-> disk.seq, plan |-> << >>]
  <1>1. RestOK /\ GhostOK /\ CountOK
    BY DocInvParts
  <1>2. CtxOK(c)
    BY <1>1 DEF RestOK, CtxOK
  <1>3. SetCtx(p, c) /\ failed' = failed \ {p} /\ UNCHANGED <<disk, areas, salts, keep, revoked, forced, overrun, ops, faults>>
    BY Zenon DEF Load, SetCtx
  <1> HIDE DEF c
  <1>4. DOMAIN ctx' = Procs /\ \A q \in Procs : CtxOK(ctx'[q])
    BY <1>2, <1>3, CtxInv
  <1>5. RestOK' /\ CountOK'
    BY <1>1, <1>3 DEF RestOK, CountOK
  <1>6. GhostOK'
    BY <1>1, <1>3 DEF GhostOK
  <1>7. QED BY <1>4, <1>5, <1>6, DocInvParts DEF RestOK, GhostOK, CountOK, DocInv, CtxOK, Live, Busy

\* Begin changes one context.
LEMMA BeginCtx ==
  ASSUME NEW p, NEW plan, Begin(p, plan)
  PROVE  /\ SetCtx(p, [st |-> "busy", doc |-> ctx[p].doc, seq |-> ctx[p].seq, plan |-> plan])
         /\ ops' = ops + 1 /\ UNCHANGED <<disk, areas, salts, keep, revoked, failed, overrun, faults>>
  BY Zenon DEF Begin, SetCtx

\* DocInv is kept when a command begins.
LEMMA DocStart ==
  ASSUME DocInv, NEW p \in Procs, Start(p)
  PROVE  DocInv'
  <1>1. RestOK /\ GhostOK /\ CountOK /\ CtxOK(ctx[p])
    BY DocInvParts
  <1>2. PICK plan : Started(p, plan)
    BY DEF Start
  <1>3. PlanOK(ctx[p].doc, plan) /\ Begin(p, plan)
    BY <1>2 DEF Started, Planned
  <1> DEFINE c == [st |-> "busy", doc |-> ctx[p].doc, seq |-> ctx[p].seq, plan |-> plan]
  <1>4. /\ SetCtx(p, c)
        /\ ops' = ops + 1 /\ UNCHANGED <<disk, areas, salts, keep, revoked, failed, overrun, faults>>
    BY <1>3, BeginCtx
  <1>5. ctx[p].st = "idle" /\ ops + faults < MaxEvents /\ forced' \in BOOLEAN
    BY DEF Start
  <1>6. CtxOK(c)
    BY <1>1, <1>3, <1>5 DEF CtxOK
  <1> HIDE DEF c
  <1>7. DOMAIN ctx' = Procs /\ \A q \in Procs : CtxOK(ctx'[q])
    BY <1>4, <1>6, CtxInv
  <1>8. RestOK'
    BY <1>1, <1>4 DEF RestOK
  <1>9. CountOK'
    <2>1. MaxEvents \in Nat
      BY KeyslotsAssumption
    <2>2. QED BY <1>1, <1>4, <1>5, <2>1 DEF CountOK
  <1>10. GhostOK'
    BY <1>1, <1>4, <1>5, Zenon DEF GhostOK
  <1>11. QED BY <1>7, <1>8, <1>9, <1>10, DocInvParts DEF RestOK, GhostOK, CountOK, DocInv, CtxOK, Live, Busy

\* DocInv is kept by a completed step.
LEMMA DocDone ==
  ASSUME DocInv, NEW p \in Procs, Done(p)
  PROVE  DocInv'
  <1>1. RestOK /\ GhostOK /\ CountOK /\ CtxOK(ctx[p])
    BY DocInvParts
  <1>2. Passed(p) /\ Complete(Step(p)) /\ UNCHANGED <<forced, failed, ops, faults>>
    BY DEF Done
  <1>3. BusyOK(p)
    BY <1>2, BusyFact DEF Passed
  <1>4. PICK c : SetCtx(p, c) /\ DoneCtx(p, c)
    BY DEF Done
  <1>5. CtxOK(c) /\ WF(disk'.doc) /\ disk'.seq \in Nat /\ disk' = [doc |-> disk'.doc, seq |-> disk'.seq]
    <2>1. c.doc = Next1(ctx[p].doc, Step(p)) /\ c.plan = Tail(ctx[p].plan) /\ c.st = IF c.plan = << >> THEN "idle" ELSE "busy"
      BY <1>4 DEF DoneCtx
    <2>2. WF(c.doc) /\ (c.st = "busy" => PlanOK(c.doc, c.plan)) /\ c.st \in {"idle", "busy"}
      BY <1>3, <2>1 DEF BusyOK
    <2>3. WF(disk.doc) /\ disk.seq \in Nat /\ disk = [doc |-> disk.doc, seq |-> disk.seq]
      BY <1>1 DEF RestOK
    <2>4. CASE WritesHeader(Step(p))
      <3>1. c.seq = disk.seq + 1 /\ disk' = [doc |-> NewDoc(p), seq |-> disk.seq + 1]
        BY <1>4, <2>4 DEF DoneCtx
      <3>2. WF(NewDoc(p))
        BY <1>3 DEF BusyOK
      <3>3. disk'.doc = NewDoc(p) /\ disk'.seq = disk.seq + 1
        BY <3>1
      <3>4. QED BY <2>2, <2>3, <3>1, <3>2, <3>3 DEF CtxOK
    <2>5. CASE ~WritesHeader(Step(p))
      <3>1. c.seq = disk.seq /\ disk' = disk
        BY <1>4, <2>5 DEF DoneCtx
      <3>2. QED BY <2>2, <2>3, <3>1 DEF CtxOK
    <2>6. QED BY <2>4, <2>5
  <1>6. DOMAIN ctx' = Procs /\ \A q \in Procs : CtxOK(ctx'[q])
    BY <1>4, <1>5, CtxInv
  <1>7. areas' \in [Units -> AreaRec] /\ salts' \in Nat
    BY <1>1, AreasType DEF Done, RestOK
  <1>8. keep' \subseteq SUBSET Pairs
    <2>1. GhostsOK(Step(p))
      BY <1>3 DEF BusyOK, HeadKind
    <2>2. Promised(Step(p)) \subseteq SUBSET Pairs
      BY <1>1, <2>1, PromisedType DEF RestOK
    <2>3. QED BY <1>2, <2>2 DEF Complete
  <1>9. RestOK'
    BY <1>5, <1>7, <1>8 DEF RestOK
  <1>10. CountOK'
    BY <1>1, <1>2 DEF CountOK
  <1>11. GhostOK'
    BY <1>1, <1>2, Zenon DEF GhostOK, Passed
  <1>12. QED BY <1>6, <1>9, <1>10, <1>11, DocInvParts DEF RestOK, GhostOK, CountOK, DocInv, CtxOK, Live, Busy

\* DocInv is kept by an interrupted step.
LEMMA DocBroken ==
  ASSUME DocInv, NEW p \in Procs, Broken(p)
  PROVE  DocInv'
  <1>1. RestOK /\ GhostOK /\ CountOK /\ CtxOK(ctx[p])
    BY DocInvParts
  <1>2. Passed(p) /\ UNCHANGED <<disk, revoked, forced, ops>>
    BY DEF Broken
  <1>3. BusyOK(p)
    BY <1>2, BusyFact DEF Passed
  <1>4. PICK c : SetCtx(p, c) /\ BrokenCtx(p, c)
    BY DEF Broken
  <1>5. CtxOK(c)
    <2>1. WF(ctx[p].doc) /\ WF(NewDoc(p)) /\ ctx[p].seq \in Nat
      BY <1>1, <1>3 DEF BusyOK, CtxOK
    <2>2. CtxOK(Unloaded)
      BY DEF CtxOK, Unloaded
    <2>3. QED BY <1>4, <2>1, <2>2 DEF BrokenCtx, CtxOK
  <1>6. DOMAIN ctx' = Procs /\ \A q \in Procs : CtxOK(ctx'[q])
    BY <1>4, <1>5, CtxInv
  <1>7. areas' \in [Units -> AreaRec] /\ salts' \in Nat
    BY <1>1, AreasType DEF Broken, RestOK
  <1>8. keep' \subseteq SUBSET Pairs
    <2>1. GhostsOK(Step(p))
      BY <1>3 DEF BusyOK, HeadKind
    <2>2. Promised(Step(p)) \subseteq SUBSET Pairs
      BY <1>1, <2>1, PromisedType DEF RestOK
    <2>3. QED BY <1>1, <2>2 DEF Broken, RestOK
  <1>9. RestOK'
    BY <1>1, <1>2, <1>7, <1>8 DEF RestOK
  <1>10. CountOK'
    <2>1. MaxEvents \in Nat /\ MaxFaults \in Nat
      BY KeyslotsAssumption
    <2>2. QED BY <1>1, <1>2, <2>1 DEF CountOK, Broken
  <1>11. failed' \subseteq Procs
    BY <1>1, <1>4 DEF GhostOK, BrokenCtx
  <1>12. GhostOK'
    BY <1>1, <1>2, <1>11, Zenon DEF GhostOK, Passed
  <1>13. QED BY <1>6, <1>9, <1>10, <1>12, DocInvParts DEF RestOK, GhostOK, CountOK, DocInv, CtxOK, Live, Busy

\* DocInv is kept by a refused step.
LEMMA DocRejected ==
  ASSUME DocInv, NEW p \in Procs, Rejected(p)
  PROVE  DocInv'
  <1>1. RestOK /\ GhostOK /\ CountOK /\ CtxOK(ctx[p])
    BY DocInvParts
  <1>2. ctx[p].st = "busy" /\ UNCHANGED <<disk, areas, salts, keep, revoked, forced, failed, overrun, ops, faults>>
    BY DEF Rejected
  <1>3. BusyOK(p)
    BY <1>2, BusyFact
  <1>4. PICK c : SetCtx(p, c) /\ RejectedCtx(p, c)
    BY DEF Rejected
  <1>5. CtxOK(c)
    <2>1. WF(ctx[p].doc) /\ WF(NewDoc(p)) /\ ctx[p].seq \in Nat
      BY <1>1, <1>3 DEF BusyOK, CtxOK
    <2>2. QED BY <1>4, <2>1 DEF RejectedCtx, CtxOK
  <1>6. DOMAIN ctx' = Procs /\ \A q \in Procs : CtxOK(ctx'[q])
    BY <1>4, <1>5, CtxInv
  <1>7. RestOK' /\ CountOK'
    BY <1>1, <1>2 DEF RestOK, CountOK
  <1>8. GhostOK'
    BY <1>1, <1>2, Zenon DEF GhostOK
  <1>9. QED BY <1>6, <1>7, <1>8, DocInvParts DEF RestOK, GhostOK, CountOK, DocInv, CtxOK, Live, Busy

\* The first document is well formed.
LEMMA InitDocFact ==
  ASSUME NEW reqs \in {{}, {"online-reencrypt-v9"}}, NEW doc, doc = [InitDoc EXCEPT !.requirements = reqs]
  PROVE  /\ WF(doc)
         /\ DOMAIN doc.keyslots = 0..(Len(InitPass) - 1)
         /\ \A s \in 0..(Len(InitPass) - 1) : doc.keyslots[s].off = MinOffset + s /\ doc.keyslots[s].len = 1 /\ doc.keyslots[s].salt = s + 1
         /\ \A s \in 0..(Len(InitPass) - 1) : KeyOf(doc, s) = VK /\ Bound(doc, s)
  <1> DEFINE n == Len(InitPass)
             ks == [s \in 0..(n - 1) |->
                     [off |-> MinOffset + s, len |-> KeyLength(VK), salt |-> s + 1, prio |-> PRIO_NORMAL, type |-> "luks2"]]
             ds == [d \in {0} |-> [key |-> VK, keyslots |-> 0..(n - 1), segments |-> {0}]]
             ts == [t \in {0} |-> [pass |-> InitPass[1], reply |-> 0, keyslots |-> {0}]]
  <1>1. /\ VK \in VolumeKeys /\ InitPass \in Seq(Pass) /\ n \in Nat /\ n > 0 /\ InitPass[1] \in Pass
        /\ n <= KEYSLOTS_MAX /\ MinOffset + n <= MaxOffset /\ DIGEST_MAX > 0 /\ TOKENS_MAX > 0
    <2>1. InitPass \in Seq(Pass) /\ InitPass # << >>
      BY KeyslotsAssumption
    <2>2. n \in Nat /\ n > 0 /\ InitPass[1] \in Pass
      BY <2>1
    <2>3. QED BY <2>1, <2>2, KeyslotsAssumption
  <1>2. KEYSLOTS_MAX \in Nat /\ DIGEST_MAX \in Nat /\ TOKENS_MAX \in Nat /\ MinOffset \in Nat /\ MaxOffset \in Nat
    BY LimitsAssumption
  <1>3. KeyLength(VK) = 1 /\ PRIO_NORMAL \in Int
    BY DEF KeyLength, PRIO_NORMAL
  <1>4. InitDoc = MkDoc(ks, ds, ts, {})
    BY DEF InitDoc, MkDoc, Segments
  <1> HIDE DEF n
  <1>5. /\ DOMAIN ks = 0..(n - 1)
        /\ \A s \in 0..(n - 1) : ks[s].off = MinOffset + s /\ ks[s].len = 1 /\ ks[s].salt = s + 1 /\ ks[s] \in KsRec
        /\ IsMap(ks, Slots, KsRec)
    <2>1. \A s \in 0..(n - 1) : /\ s \in Slots /\ s \in Nat
                                /\ [off |-> MinOffset + s, len |-> 1, salt |-> s + 1, prio |-> PRIO_NORMAL, type |-> "luks2"] \in KsRec
      BY <1>1, <1>2, <1>3 DEF Slots, KsRec
    <2>2. QED BY <1>3, <2>1 DEF IsMap
  <1>6. /\ DOMAIN ds = {0} /\ ds[0].keyslots = 0..(n - 1) /\ ds[0].key = VK /\ ds[0].segments = {0}
        /\ IsMap(ds, DigestIds, DigRec)
    <2>1. 0 \in DigestIds /\ 0..(n - 1) \subseteq Slots
      BY <1>1, <1>2 DEF DigestIds, Slots
    <2>2. [key |-> VK, keyslots |-> 0..(n - 1), segments |-> {0}] \in DigRec
      BY <1>1, <2>1 DEF DigRec
    <2>3. QED BY <2>1, <2>2 DEF IsMap
  <1>7. DOMAIN ts = {0} /\ ts[0].keyslots = {0} /\ IsMap(ts, TokenIds, TokRec)
    <2>1. 0 \in TokenIds /\ {0} \subseteq Slots
      BY <1>1, <1>2 DEF TokenIds, Slots
    <2>2. [pass |-> InitPass[1], reply |-> 0, keyslots |-> {0}] \in TokRec
      BY <1>1, <2>1 DEF TokRec
    <2>3. QED BY <2>1, <2>2 DEF IsMap
  <1> HIDE DEF ks, ds, ts
  <1>8. Fields(InitDoc, ks, ds, ts, {})
    <2>1. IsReqs({})
      BY DEF IsReqs
    <2>2. Fields(MkDoc(ks, ds, ts, {}), ks, ds, ts, {})
      BY <1>5, <1>6, <1>7, <2>1, MkDocIs
    <2>3. QED BY <1>4, <2>2
  <1>9. Fields(doc, ks, ds, ts, reqs)
    <2>1. IsDoc(InitDoc) /\ IsReqs(reqs)
      BY <1>8 DEF Fields, IsReqs
    <2>2. Fields([InitDoc EXCEPT !.requirements = reqs], InitDoc.keyslots, InitDoc.digests, InitDoc.tokens, reqs)
      BY <2>1, Replaced
    <2>3. InitDoc.keyslots = ks /\ InitDoc.digests = ds /\ InitDoc.tokens = ts
      BY <1>8 DEF Fields
    <2>4. QED BY <2>2, <2>3
  <1>10. IsDoc(doc) /\ doc.keyslots = ks /\ doc.digests = ds /\ doc.tokens = ts
    BY <1>9 DEF Fields
  <1>11. 0 \in DigestIds
    BY <1>1, <1>2 DEF DigestIds
  <1>12. TokensClosed(doc) /\ DigestsClosed(doc)
    BY <1>1, <1>5, <1>6, <1>7, <1>10 DEF TokensClosed, DigestsClosed
  <1>13. OneDigest(doc)
    BY <1>5, <1>6, <1>10, <1>11 DEF OneDigest, InDigest
  <1>14. OneData(doc)
    BY <1>6, <1>10, <1>11 DEF OneData, HasData
  <1>15. AreasApart(doc)
    <2>1. \A s \in 0..(n - 1) : s \in Nat /\ s < n
      BY <1>1
    <2>2. \A s \in 0..(n - 1) : Inside(ks[s])
      BY <1>1, <1>2, <1>5, <2>1 DEF Inside
    <2>3. \A s, t \in 0..(n - 1) : s # t => Apart(ks[s], ks[t])
      BY <1>2, <1>5, <2>1 DEF Apart
    <2>4. QED BY <1>5, <1>10, <2>2, <2>3 DEF AreasApart
  <1>16. WF(doc)
    BY <1>10, <1>12, <1>13, <1>14, <1>15 DEF WF
  <1>17. \A s \in 0..(n - 1) : KeyOf(doc, s) = VK /\ Bound(doc, s)
    <2> TAKE s \in 0..(n - 1)
    <2>1. s \in DOMAIN doc.keyslots /\ InDigest(doc, s, 0) /\ HasData(doc, 0)
      BY <1>5, <1>6, <1>10 DEF InDigest, HasData
    <2>2. KeyOf(doc, s) = doc.digests[0].key
      BY <1>11, <1>16, <2>1, KeyOfSlot DEF WF
    <2>3. QED BY <1>6, <1>10, <1>11, <2>1, <2>2 DEF Bound
  <1>18. QED BY <1>5, <1>10, <1>16, <1>17 DEF n

\* The areas of the first keyslots.
LEMMA InitAreas ==
  ASSUME Init
  PROVE  /\ areas \in [Units -> AreaRec]
         /\ \A i \in 0..(Len(InitPass) - 1) :
              MinOffset + i \in Units /\ areas[MinOffset + i] = [salt |-> i + 1, pass |-> InitPass[i + 1], key |-> VK, part |-> 0, of |-> 1]
         /\ \A u \in Units : u - MinOffset < Len(InitPass) => areas[u].salt = u - MinOffset + 1
         /\ \A u \in Units : ~(u - MinOffset < Len(InitPass)) => areas[u].salt = 0
  <1> DEFINE n == Len(InitPass)
             M(u) == [salt |-> u - MinOffset + 1, pass |-> InitPass[u - MinOffset + 1], key |-> VK, part |-> 0, of |-> 1]
  <1>1. VK \in VolumeKeys /\ InitPass \in Seq(Pass) /\ n \in Nat /\ MinOffset + n <= MaxOffset
    BY KeyslotsAssumption
  <1>2. MinOffset \in Nat /\ MaxOffset \in Nat
    BY LimitsAssumption
  <1>3. areas = [u \in Units |-> IF u - MinOffset < n THEN M(u) ELSE Junk]
    BY DEF Init
  <1>4. \A i \in 1..n : InitPass[i] \in Pass
    BY <1>1
  <1> HIDE DEF n
  <1>5. \A u \in Units : u \in Nat /\ u - MinOffset \in Nat /\ u < MaxOffset
    BY <1>2 DEF Units
  <1>6. \A u \in Units : u - MinOffset < n => InitPass[u - MinOffset + 1] \in Pass
    BY <1>1, <1>4, <1>5
  <1>7. \A u \in Units : u - MinOffset < n => M(u) \in AreaRec
    BY <1>1, <1>5, <1>6 DEF AreaRec
  <1>8. Junk \in AreaRec /\ Junk.salt = 0
    BY DEF Junk, AreaRec
  <1> HIDE DEF Junk
  <1>9. \A u : M(u).salt = u - MinOffset + 1
    OBVIOUS
  <1>10. \A i \in 0..(n - 1) : MinOffset + i \in Units /\ (MinOffset + i) - MinOffset = i /\ i < n
    BY <1>1, <1>2 DEF Units
  <1>11. \A i \in 0..(n - 1) : M(MinOffset + i) = [salt |-> i + 1, pass |-> InitPass[i + 1], key |-> VK, part |-> 0, of |-> 1]
    BY <1>10
  <1> HIDE DEF M
  <1>12. \A u \in Units : areas[u] = IF u - MinOffset < n THEN M(u) ELSE Junk
    BY <1>3
  <1>13. \A i \in 0..(n - 1) : areas[MinOffset + i] = M(MinOffset + i)
    BY <1>10, <1>12
  <1>14. areas \in [Units -> AreaRec]
    BY <1>3, <1>7, <1>8
  <1>15. QED BY <1>8, <1>9, <1>10, <1>11, <1>12, <1>13, <1>14 DEF n

\* DocInv holds at the start.
LEMMA DocInit == Init => DocInv
  <1> SUFFICES ASSUME Init PROVE DocInv
    OBVIOUS
  <1>1. PICK reqs \in {{}, {"online-reencrypt-v9"}} : disk = [doc |-> [InitDoc EXCEPT !.requirements = reqs], seq |-> 1]
    BY DEF Init
  <1>2. disk.doc = [InitDoc EXCEPT !.requirements = reqs] /\ disk.seq = 1 /\ disk = [doc |-> disk.doc, seq |-> disk.seq]
    BY <1>1
  <1>3. WF(disk.doc)
    BY <1>2, InitDocFact
  <1>4. areas \in [Units -> AreaRec]
    BY InitAreas
  <1>5. InitPass \in Seq(Pass) /\ VK \in VolumeKeys /\ MaxEvents \in Nat /\ MaxFaults \in Nat
    BY KeyslotsAssumption
  <1>6. salts \in Nat
    BY <1>5 DEF Init
  <1>7. keep \subseteq SUBSET Pairs
    <2>1. \A i \in DOMAIN InitPass : <<InitPass[i], VK>> \in Pairs
      BY <1>5 DEF Pairs
    <2>2. keep = {{<<InitPass[i], VK>>} : i \in DOMAIN InitPass}
      BY DEF Init
    <2>3. QED BY <2>1, <2>2
  <1>8. RestOK
    BY <1>2, <1>3, <1>4, <1>6, <1>7 DEF RestOK
  <1>9. GhostOK /\ CountOK
    <2>1. forced = FALSE /\ overrun = FALSE /\ failed = {} /\ ops = 0 /\ faults = 0
      BY DEF Init
    <2>2. CountOK
      BY <1>5, <2>1 DEF CountOK
    <2>3. GhostOK
      BY <2>1, Zenon DEF GhostOK
    <2>4. QED BY <2>2, <2>3
  <1>10. DOMAIN ctx = Procs /\ \A q \in Procs : CtxOK(ctx[q])
    <2>1. CtxOK(Unloaded)
      BY DEF CtxOK, Unloaded
    <2>2. ctx = [p \in Procs |-> Unloaded]
      BY DEF Init
    <2> HIDE DEF Unloaded
    <2>3. QED BY <2>1, <2>2
  <1>11. QED BY <1>8, <1>9, <1>10, DocInvParts

\* DocInv is inductive.
LEMMA DocNext == DocInv /\ [Next]_vars => DocInv'
  <1> SUFFICES ASSUME DocInv, [Next]_vars PROVE DocInv'
    OBVIOUS
  <1>1. CASE Next
    BY <1>1, NextCases, DocLoad, DocStart, DocDone, DocBroken, DocRejected
  <1>2. CASE UNCHANGED vars
    <2>1. RestOK /\ GhostOK /\ CountOK /\ DOMAIN ctx = Procs /\ \A q \in Procs : CtxOK(ctx[q])
      BY DocInvParts
    <2>2. RestOK' /\ CountOK'
      BY <1>2, <2>1 DEF vars, RestOK, CountOK
    <2>3. GhostOK'
      BY <1>2, <2>1, Zenon DEF vars, GhostOK
    <2>4. DOMAIN ctx' = Procs /\ \A q \in Procs : CtxOK(ctx'[q])
      <3>1. ctx' = ctx
        BY <1>2 DEF vars
      <3>2. QED BY <2>1, <3>1
    <2>5. QED BY <2>2, <2>3, <2>4, DocInvParts DEF RestOK, GhostOK, CountOK, DocInv, CtxOK, Live, Busy
  <1>3. QED BY <1>1, <1>2

\* Whatever the commands of the contexts and however they interleave or stop,
\* the header on disk and the copy of every context are well-formed documents
\* (areas inside the keyslots area and apart, one digest to a keyslot, one
\* digest to the data), and every busy context has a plan its copy allows.
THEOREM DocInvariant == Spec => []DocInv
  BY DocInit, DocNext, PTL DEF Spec

\* The document that goes to the next header write validates, whatever the
\* contexts and however far their copies are behind: luks2_keyslot_alloc,
\* the digest and token assignments, the swap and the removal.
THEOREM PendingAlwaysValid == Spec => []PendingValid
  <1>1. DocInv => PendingValid
    BY BusyFact DEF PendingValid, BusyOK
  <1>2. QED BY <1>1, DocInvariant, PTL

\* Keyslot, digest and token numbers stay below their limits
\* (LUKS2_KEYSLOTS_MAX, LUKS2_DIGEST_MAX, LUKS2_TOKENS_MAX) for every command.
THEOREM TypeCorrect == Spec => []TypeOK
  <1>1. DocInv => TypeOK
    <2> SUFFICES ASSUME DocInv PROVE TypeOK
      OBVIOUS
    <2>1. IsDoc(disk.doc) /\ MaxEvents \in Nat /\ MaxFaults \in Nat
      BY KeyslotsAssumption DEF DocInv, WF
    <2>2. /\ DOMAIN disk.doc.keyslots \subseteq Slots
          /\ DOMAIN disk.doc.digests \subseteq 0..(DIGEST_MAX - 1)
          /\ DOMAIN disk.doc.tokens \subseteq 0..(TOKENS_MAX - 1)
      BY <2>1, DocFields DEF IsMap, DigestIds, TokenIds
    <2>3. disk.seq \in Nat /\ DOMAIN areas = Units /\ salts \in Nat /\ \A p \in Procs : ctx[p].st \in {"none", "idle", "busy"}
      BY DEF DocInv
    <2>4. ops \in 0..MaxEvents /\ faults \in 0..MaxFaults
      BY <2>1 DEF DocInv
    <2>5. forced \in BOOLEAN
      BY DEF DocInv
    <2>6. QED BY <2>2, <2>3, <2>4, <2>5 DEF TypeOK
  <1>2. QED BY <1>1, DocInvariant, PTL

------------------------------------------------------------------------------
\* Salts: every store draws a fresh one, so a salt names one area for ever.

Like(k, l) == k.off = l.off /\ k.len = l.len /\ k.salt = l.salt
RecsLike == \A k \in Recs' : \E l \in Recs : Like(k, l)
RecsPlus(n) == \A k \in Recs' : Like(k, n) \/ \E l \in Recs : Like(k, l)

\* Every keyslot known anywhere lies in the keyslots area.
LEMMA RecsType ==
  ASSUME DocInv, NEW k \in Recs
  PROVE  k \in KsRec /\ Inside(k)
  <1>1. PICK doc \in Docs : k \in {doc.keyslots[s] : s \in DOMAIN doc.keyslots}
    BY DEF Recs
  <1>2. WF(doc)
    BY <1>1 DEF Docs, DocInv
  <1>3. QED BY <1>1, <1>2, SlotIn

\* A keyslot of a known document is a known keyslot.
LEMMA RecIn ==
  ASSUME NEW doc \in Docs, NEW s \in DOMAIN doc.keyslots
  PROVE  doc.keyslots[s] \in Recs
  BY DEF Recs

\* The documents known: the one on disk and those in memory.
LEMMA DocsIn ==
  /\ disk.doc \in Docs
  /\ \A p \in Procs : ctx[p].st # "none" => ctx[p].doc \in Docs
  BY DEF Docs, Live

\* Nothing drawn: an area may be wiped, and its salt revoked.
LEMMA SaltKept ==
  ASSUME DocInv, SaltInv, DocInv', RecsLike, salts' = salts,
         \/ areas' = areas /\ revoked' = revoked
         \/ \E k \in Recs : Erased(areas, areas', k) /\ revoked' \subseteq revoked \cup {k.salt}
  PROVE  SaltInv'
  <1>0. /\ salts \in Nat /\ areas \in [Units -> AreaRec] /\ areas' \in [Units -> AreaRec]
        /\ \A k \in Recs : k.salt \in Nat /\ k.salt > 0 /\ k.off \in Nat /\ k.len \in {1, 2}
    BY RecsType DEF DocInv, KsRec
  <1>1. /\ \A k \in Recs' : k.salt <= salts'
        /\ \A k, l \in Recs' : k.salt = l.salt => k.off = l.off /\ k.len = l.len
    BY DEF RecsLike, Like, SaltInv
  <1>2. \A u \in Units : areas'[u].salt = 0 \/ areas'[u] = areas[u]
    BY DEF Erased, Junk
  <1>3. \A u \in Units : areas'[u].salt <= salts'
    BY <1>0, <1>2 DEF SaltInv
  <1>4. \A u \in Units : \A k \in Recs' : areas'[u].salt = k.salt => k.off <= u /\ u < k.off + k.len
    <2> TAKE u \in Units
    <2> TAKE k \in Recs'
    <2>1. PICK l \in Recs : Like(k, l)
      BY DEF RecsLike
    <2>2. HAVE areas'[u].salt = k.salt
    <2>3. areas'[u] = areas[u]
      BY <1>0, <1>2, <2>1, <2>2 DEF Like
    <2>4. areas[u].salt = l.salt
      BY <2>1, <2>2, <2>3 DEF Like
    <2>5. l.off <= u /\ u < l.off + l.len
      BY <2>4 DEF SaltInv
    <2>6. QED BY <2>1, <2>5 DEF Like
  <1>5. revoked' \subseteq 1..salts'
    <2>1. revoked \subseteq 1..salts
      BY DEF SaltInv
    <2>2. \A k \in Recs : k.salt \in 1..salts
      BY <1>0 DEF SaltInv
    <2>3. QED BY <2>1, <2>2
  <1>6. RevokedIsGone'
    <2> SUFFICES ASSUME NEW u \in Units PROVE areas'[u].salt \notin revoked'
      BY DEF RevokedIsGone
    <2>0. 0 \notin revoked'
      BY <1>0, <1>5
    <2>1. areas[u].salt \notin revoked
      BY DEF SaltInv, RevokedIsGone
    <2>2. CASE areas' = areas /\ revoked' = revoked
      BY <2>1, <2>2
    <2>3. CASE \E k \in Recs : Erased(areas, areas', k) /\ revoked' \subseteq revoked \cup {k.salt}
      <3>1. PICK k \in Recs : Erased(areas, areas', k) /\ revoked' \subseteq revoked \cup {k.salt}
        BY <2>3
      <3>2. CASE u \in UnitsOf(k)
        <4>1. areas'[u] = Junk
          BY <3>1, <3>2 DEF Erased
        <4>2. QED BY <2>0, <4>1 DEF Junk
      <3>3. CASE u \notin UnitsOf(k)
        <4>1. areas'[u] = areas[u]
          BY <3>1, <3>3 DEF Erased
        <4>2. areas[u].salt = k.salt => k.off <= u /\ u < k.off + k.len
          BY DEF SaltInv
        <4>3. u \in Int
          BY LimitsAssumption DEF Units
        <4>4. areas[u].salt # k.salt
          BY <1>0, <3>3, <4>2, <4>3 DEF UnitsOf
        <4>5. QED BY <2>1, <3>1, <4>1, <4>4
      <3>4. QED BY <3>2, <3>3
    <2>4. QED BY <2>2, <2>3
  <1>7. QED BY <1>1, <1>3, <1>4, <1>5, <1>6 DEF SaltInv

\* A store: the new keyslot has the new salt, its area is filled or wiped.
LEMMA SaltDrawn ==
  ASSUME DocInv, SaltInv, DocInv', NEW n \in KsRec, RecsPlus(n), n.salt = salts + 1, salts' = salts + 1, revoked' = revoked,
         NEW x, NEW key, Filled(areas, areas', n, x, key) \/ Erased(areas, areas', n)
  PROVE  SaltInv'
  <1>0. /\ salts \in Nat /\ areas \in [Units -> AreaRec] /\ areas' \in [Units -> AreaRec]
        /\ \A k \in Recs : k.salt \in Nat /\ k.salt > 0 /\ k.off \in Nat /\ k.len \in {1, 2} /\ k.salt <= salts
    BY RecsType DEF DocInv, KsRec, SaltInv
  <1>1. /\ \A k \in Recs' : k.salt <= salts'
        /\ \A k, l \in Recs' : k.salt = l.salt => k.off = l.off /\ k.len = l.len
    <2>1. \A k, l \in Recs : k.salt = l.salt => k.off = l.off /\ k.len = l.len
      BY DEF SaltInv
    <2>2. \A k \in Recs' : Like(k, n) \/ \E l \in Recs : Like(k, l)
      BY DEF RecsPlus
    <2>3. QED BY <1>0, <2>1, <2>2 DEF Like
  <1>2. \A u \in Units : \/ areas'[u].salt = 0
                         \/ areas'[u].salt = salts + 1 /\ u \in UnitsOf(n)
                         \/ areas'[u] = areas[u] /\ areas[u].salt <= salts
    <2>1. \A u \in Units : areas[u].salt <= salts
      BY DEF SaltInv
    <2>2. \A u : Material(n, x, key, u).salt = salts + 1
      BY DEF Material
    <2>3. Junk.salt = 0
      BY DEF Junk
    <2> HIDE DEF Junk
    <2>4. QED BY <2>1, <2>2, <2>3 DEF Filled, Erased
  <1>3. \A u \in Units : areas'[u].salt <= salts'
    <2>1. \A u \in Units : areas[u].salt \in Nat
      BY <1>0 DEF AreaRec
    <2>2. QED BY <1>0, <1>2, <2>1
  <1>4. \A u \in Units : \A k \in Recs' : areas'[u].salt = k.salt => k.off <= u /\ u < k.off + k.len
    <2> TAKE u \in Units
    <2> TAKE k \in Recs'
    <2>1. HAVE areas'[u].salt = k.salt
    <2>0. u \in Int /\ n.off \in Nat /\ n.len \in Nat
      BY LimitsAssumption DEF Units, KsRec
    <2>2. CASE Like(k, n)
      <3>1. areas'[u].salt = salts + 1
        BY <2>1, <2>2 DEF Like
      <3>2. u \in UnitsOf(n)
        BY <1>0, <1>2, <3>1
      <3>3. QED BY <2>0, <2>2, <3>2 DEF Like, UnitsOf
    <2>3. CASE \E l \in Recs : Like(k, l)
      <3>1. PICK l \in Recs : Like(k, l)
        BY <2>3
      <3>2. areas'[u].salt = l.salt /\ l.salt > 0 /\ l.salt <= salts
        BY <1>0, <2>1, <3>1 DEF Like
      <3>3. areas'[u] = areas[u]
        BY <1>0, <1>2, <3>2
      <3>4. l.off <= u /\ u < l.off + l.len
        BY <3>2, <3>3 DEF SaltInv
      <3>5. QED BY <3>1, <3>4 DEF Like
    <2>4. QED BY <2>2, <2>3 DEF RecsPlus
  <1>5. revoked' \subseteq 1..salts'
    <2>1. revoked \subseteq 1..salts
      BY DEF SaltInv
    <2>2. 1..salts \subseteq 1..salts'
      BY <1>0
    <2>3. QED BY <2>1, <2>2
  <1>6. RevokedIsGone'
    <2> SUFFICES ASSUME NEW u \in Units PROVE areas'[u].salt \notin revoked'
      BY DEF RevokedIsGone
    <2>1. areas[u].salt \notin revoked /\ revoked \subseteq 1..salts
      BY DEF SaltInv, RevokedIsGone
    <2>2. 0 \notin revoked /\ salts + 1 \notin revoked
      BY <1>0, <2>1
    <2>3. QED BY <1>2, <2>1, <2>2
  <1>7. QED BY <1>1, <1>3, <1>4, <1>5, <1>6 DEF SaltInv

\* The records of a document after a step.
LEMMA NewRecs ==
  ASSUME NEW doc, WF(doc), NEW st, HeadKind(doc, st), salts \in Nat,
         NEW s \in DOMAIN After(doc, st).keyslots
  PROVE  \/ \E t \in DOMAIN doc.keyslots : Like(After(doc, st).keyslots[s], doc.keyslots[t])
         \/ st.do = "store" /\ s = st.slot
  <1> DEFINE b == After(doc, st)
  <1>1. CASE StoreNewStep(doc, st)
    <2>1. StoredNew(doc, b, st) /\ st.do = "store"
      BY <1>1, AfterIs DEF StoreNewStep
    <2> HIDE DEF b
    <2>2. QED BY <2>1 DEF StoredNew, Like, b
  <1>2. CASE StoreOverStep(doc, st)
    <2>1. StoredOver(doc, b, st) /\ st.do = "store"
      BY <1>2, AfterIs DEF StoreOverStep
    <2> HIDE DEF b
    <2>2. QED BY <2>1 DEF StoredOver, Like, b
  <1>3. CASE OnlyStep(doc, st) \/ HeaderStep(doc, st)
    <2>1. HdrChanged(doc, b)
      BY <1>3, AfterIs
    <2> HIDE DEF b
    <2>2. QED BY <2>1 DEF HdrChanged, SameSlot, Like, b
  <1>4. CASE RemoveStep(doc, st) /\ st.swap = ANY_SLOT
    <2>1. Wiped(doc, b, st.slot)
      BY <1>4, AfterIs
    <2> HIDE DEF b
    <2>2. QED BY <2>1 DEF Wiped, Like, b
  <1>5. CASE RemoveStep(doc, st) /\ st.swap # ANY_SLOT
    <2>1. WipedSwap(doc, b, st) /\ st.slot \in DOMAIN doc.keyslots /\ st.swap \in DOMAIN doc.keyslots
      BY <1>5, AfterIs DEF RemoveStep, WipeOK
    <2> HIDE DEF b
    <2>2. CASE s = st.swap
      BY <2>1, <2>2 DEF WipedSwap, Like, b
    <2>3. CASE s # st.swap
      BY <2>1, <2>3 DEF WipedSwap, Like, b
    <2>4. QED BY <2>2, <2>3
  <1>6. QED BY <1>1, <1>2, <1>3, <1>4, <1>5 DEF HeadKind

\* The documents of the next state are old ones or the new one.
LEMMA RecsNext ==
  ASSUME DocInv, NEW p \in Procs, NEW c, SetCtx(p, c),
         NEW b, disk'.doc \in Docs \cup {b}, c.st # "none" => c.doc \in Docs \cup {b}
  PROVE  \A k \in Recs' : k \in Recs \/ \E s \in DOMAIN b.keyslots : k = b.keyslots[s]
  <1>1. DOMAIN ctx' = Procs /\ ctx'[p] = c /\ \A q \in Procs \ {p} : ctx'[q] = ctx[q]
    BY CtxSet
  <1>2. \A doc \in Docs' : doc \in Docs \cup {b}
    <2> TAKE doc \in Docs'
    <2>1. CASE doc = disk'.doc
      BY <2>1
    <2>2. CASE \E q \in Procs : ctx'[q].st # "none" /\ doc = ctx'[q].doc
      <3>1. PICK q \in Procs : ctx'[q].st # "none" /\ doc = ctx'[q].doc
        BY <2>2
      <3>2. CASE q = p
        BY <1>1, <3>1, <3>2
      <3>3. CASE q # p
        <4>1. ctx[q].st # "none" /\ doc = ctx[q].doc
          BY <1>1, <3>1, <3>3
        <4>2. QED BY <4>1, DocsIn
      <3>4. QED BY <3>2, <3>3
    <2>3. QED BY <2>1, <2>2 DEF Docs, Live
  <1>3. QED BY <1>2 DEF Recs

\* A store.
LEMMA SaltStore ==
  ASSUME DocInv, SaltInv, DocInv', NEW p \in Procs, ctx[p].st = "busy", AreaStore(p) \/ AreaCut(p), revoked' = revoked,
         NEW c, SetCtx(p, c), c.st # "none" => c.doc \in {ctx[p].doc, NewDoc(p)}, disk'.doc \in {disk.doc, NewDoc(p)}
  PROVE  SaltInv'
  <1> DEFINE doc == ctx[p].doc
             st == Step(p)
             b == NewDoc(p)
             n == b.keyslots[st.slot]
  <1>1. WF(doc) /\ HeadKind(doc, st) /\ b = After(doc, st)
    BY BusyFact DEF BusyOK
  <1>2. salts \in Nat /\ st.do = "store" /\ salts' = salts + 1
    BY DEF DocInv, AreaStore, AreaCut
  <1>3. n \in KsRec /\ n.salt = salts + 1
    BY <1>1, <1>2, StoredSlot
  <1>4. disk.doc \in Docs /\ doc \in Docs
    BY DocsIn
  <1>5. \A k \in Recs' : k \in Recs \/ \E s \in DOMAIN b.keyslots : k = b.keyslots[s]
    <2> HIDE DEF b
    <2>1. disk'.doc \in Docs \cup {b} /\ (c.st # "none" => c.doc \in Docs \cup {b})
      BY <1>4 DEF b
    <2>2. QED BY <2>1, RecsNext
  <1>6. \A s \in DOMAIN b.keyslots : s = st.slot \/ \E l \in Recs : Like(b.keyslots[s], l)
    <2> TAKE s \in DOMAIN b.keyslots
    <2>1. \/ \E t \in DOMAIN doc.keyslots : Like(b.keyslots[s], doc.keyslots[t])
          \/ s = st.slot
      BY <1>1, <1>2, NewRecs
    <2>2. QED BY <1>4, <2>1, RecIn
  <1>7. RecsPlus(n)
    <2>1. \A k : Like(k, k)
      BY DEF Like
    <2> HIDE DEF b
    <2>2. QED BY <1>5, <1>6, <2>1 DEF RecsPlus
  <1>8. Filled(areas, areas', n, st.pass, st.key) \/ Erased(areas, areas', n)
    BY DEF AreaStore, AreaCut
  <1> HIDE DEF n
  <1>9. QED BY <1>2, <1>3, <1>7, <1>8, SaltDrawn

\* A wipe, or no area at all.
LEMMA SaltOther ==
  ASSUME DocInv, SaltInv, DocInv', NEW p \in Procs, ctx[p].st = "busy",
         AreaWipe(p) \/ AreaNone(p), revoked' \subseteq revoked \cup Step(p).revoke, AreaNone(p) => revoked' = revoked,
         NEW c, SetCtx(p, c), c.st # "none" => c.doc \in {ctx[p].doc, NewDoc(p)}, disk'.doc \in {disk.doc, NewDoc(p)}
  PROVE  SaltInv'
  <1> DEFINE doc == ctx[p].doc
             st == Step(p)
             b == NewDoc(p)
  <1>1. WF(doc) /\ HeadKind(doc, st) /\ b = After(doc, st)
    BY BusyFact DEF BusyOK
  <1>2. salts \in Nat /\ st.do # "store" /\ salts' = salts
    BY DEF DocInv, AreaWipe, AreaNone
  <1>4. disk.doc \in Docs /\ doc \in Docs
    BY DocsIn
  <1>5. \A k \in Recs' : k \in Recs \/ \E s \in DOMAIN b.keyslots : k = b.keyslots[s]
    <2> HIDE DEF b
    <2>1. disk'.doc \in Docs \cup {b} /\ (c.st # "none" => c.doc \in Docs \cup {b})
      BY <1>4 DEF b
    <2>2. QED BY <2>1, RecsNext
  <1>6. \A s \in DOMAIN b.keyslots : \E l \in Recs : Like(b.keyslots[s], l)
    <2> TAKE s \in DOMAIN b.keyslots
    <2>1. \E t \in DOMAIN doc.keyslots : Like(b.keyslots[s], doc.keyslots[t])
      BY <1>1, <1>2, NewRecs
    <2>2. QED BY <1>4, <2>1, RecIn
  <1>7. RecsLike
    <2>1. \A k : Like(k, k)
      BY DEF Like
    <2> HIDE DEF b
    <2>2. QED BY <1>5, <1>6, <2>1 DEF RecsLike
  <1>8. CASE AreaNone(p)
    <2>1. areas' = areas /\ revoked' = revoked
      BY <1>8 DEF AreaNone
    <2>2. QED BY <1>2, <1>7, <2>1, SaltKept
  <1>9. CASE AreaWipe(p)
    <2> DEFINE k == doc.keyslots[Target(st)]
    <2>1. st.do = "wipe" /\ Erased(areas, areas', k)
      BY <1>9 DEF AreaWipe
    <2>2. Target(st) \in DOMAIN doc.keyslots
      BY <1>1, <2>1, WipedSlot
    <2>3. k \in Recs
      BY <1>4, <2>2, RecIn
    <2>4. st.revoke \subseteq {k.salt}
      <3>1. OnlyStep(doc, st) \/ RemoveStep(doc, st)
        BY <1>1, <2>1, HeadDo
      <3>2. QED BY <3>1 DEF OnlyStep, RemoveStep, SaltOf
    <2>5. revoked' \subseteq revoked \cup {k.salt}
      BY <2>4
    <2> HIDE DEF k
    <2>6. QED BY <1>2, <1>7, <2>1, <2>3, <2>5, SaltKept
  <1>10. QED BY <1>8, <1>9

\* SaltInv is kept by a completed step.
LEMMA SaltDone ==
  ASSUME DocInv, SaltInv, DocInv', NEW p \in Procs, Done(p)
  PROVE  SaltInv'
  <1>1. ctx[p].st = "busy" /\ revoked' = revoked \cup Step(p).revoke
    BY DEF Done, Passed, Complete
  <1>2. WF(ctx[p].doc) /\ HeadKind(ctx[p].doc, Step(p)) /\ NewDoc(p) = After(ctx[p].doc, Step(p))
    BY <1>1, BusyFact DEF BusyOK
  <1>3. PICK c : SetCtx(p, c) /\ DoneCtx(p, c)
    BY DEF Done
  <1>4. c.doc \in {ctx[p].doc, NewDoc(p)} /\ disk'.doc \in {disk.doc, NewDoc(p)}
    BY <1>2, <1>3 DEF DoneCtx, Next1
  <1>5. CASE AreaStore(p)
    <2>1. Step(p).revoke = {}
      BY <1>2, <1>5, HeadDo DEF AreaStore, StoreNewStep, StoreOverStep
    <2>2. QED BY <1>1, <1>3, <1>4, <1>5, <2>1, SaltStore
  <1>6. CASE AreaWipe(p)
    <2>1. ~AreaNone(p)
      BY <1>6 DEF AreaWipe, AreaNone
    <2>2. revoked' \subseteq revoked \cup Step(p).revoke
      BY <1>1
    <2>3. QED BY <1>1, <1>3, <1>4, <1>6, <2>1, <2>2, SaltOther
  <1>7. CASE AreaNone(p)
    <2>1. Step(p).revoke = {}
      BY <1>2, <1>7, HeadDo DEF AreaNone, HeaderStep
    <2>2. revoked' \subseteq revoked \cup Step(p).revoke /\ revoked' = revoked
      BY <1>1, <2>1
    <2>3. QED BY <1>1, <1>3, <1>4, <1>7, <2>2, SaltOther
  <1>8. QED BY <1>5, <1>6, <1>7 DEF Done

\* SaltInv is kept by an interrupted step.
LEMMA SaltBroken ==
  ASSUME DocInv, SaltInv, DocInv', NEW p \in Procs, Broken(p)
  PROVE  SaltInv'
  <1>1. ctx[p].st = "busy" /\ revoked' = revoked /\ disk' = disk
    BY DEF Broken, Passed
  <1>3. PICK c : SetCtx(p, c) /\ BrokenCtx(p, c)
    BY DEF Broken
  <1>4. (c.st # "none" => c.doc \in {ctx[p].doc, NewDoc(p)}) /\ disk'.doc \in {disk.doc, NewDoc(p)}
    BY <1>1, <1>3 DEF BrokenCtx, Unloaded
  <1>5. CASE AreaStore(p) \/ AreaCut(p)
    BY <1>1, <1>3, <1>4, <1>5, SaltStore
  <1>6. CASE AreaWipe(p) \/ AreaNone(p)
    <2>2. revoked' \subseteq revoked \cup Step(p).revoke
      BY <1>1
    <2>3. QED BY <1>1, <1>3, <1>4, <1>6, <2>2, SaltOther
  <1>8. QED BY <1>5, <1>6 DEF Broken

\* SaltInv is kept by a refused step.
LEMMA SaltRejected ==
  ASSUME DocInv, SaltInv, DocInv', NEW p \in Procs, Rejected(p)
  PROVE  SaltInv'
  <1>1. ctx[p].st = "busy" /\ revoked' = revoked /\ disk' = disk /\ salts' = salts /\ areas' = areas
    BY DEF Rejected
  <1>2. WF(ctx[p].doc) /\ HeadKind(ctx[p].doc, Step(p)) /\ NewDoc(p) = After(ctx[p].doc, Step(p)) /\ salts \in Nat
    BY <1>1, BusyFact DEF BusyOK, DocInv
  <1>3. PICK c : SetCtx(p, c) /\ RejectedCtx(p, c)
    BY DEF Rejected
  <1>4. disk.doc \in Docs /\ ctx[p].doc \in Docs
    BY <1>1, DocsIn
  <1>5. CASE Step(p).do = "store"
    <2>1. disk'.doc \in Docs \cup {ctx[p].doc} /\ c.doc \in Docs \cup {ctx[p].doc}
      BY <1>1, <1>3, <1>4, <1>5 DEF RejectedCtx
    <2>2. \A k \in Recs' : k \in Recs \/ \E s \in DOMAIN ctx[p].doc.keyslots : k = ctx[p].doc.keyslots[s]
      BY <1>3, <2>1, RecsNext
    <2>3. \A k \in Recs' : k \in Recs
      BY <1>4, <2>2, RecIn
    <2>4. RecsLike
      BY <2>3 DEF RecsLike, Like
    <2>5. QED BY <1>1, <2>4, SaltKept
  <1>6. CASE Step(p).do # "store"
    <2> DEFINE b == NewDoc(p)
    <2>0. disk'.doc \in Docs \cup {b} /\ c.doc \in Docs \cup {b}
      BY <1>1, <1>3, <1>4 DEF RejectedCtx
    <2>1. \A s \in DOMAIN b.keyslots : \E l \in Recs : Like(b.keyslots[s], l)
      <3> TAKE s \in DOMAIN b.keyslots
      <3>1. \E t \in DOMAIN ctx[p].doc.keyslots : Like(b.keyslots[s], ctx[p].doc.keyslots[t])
        BY <1>2, <1>6, NewRecs
      <3>2. QED BY <1>4, <3>1, RecIn
    <2> HIDE DEF b
    <2>2. \A k \in Recs' : k \in Recs \/ \E s \in DOMAIN b.keyslots : k = b.keyslots[s]
      BY <1>3, <2>0, RecsNext
    <2>3. \A k : Like(k, k)
      BY DEF Like
    <2>4. RecsLike
      BY <2>1, <2>2, <2>3 DEF RecsLike
    <2>5. QED BY <1>1, <2>4, SaltKept
  <1>7. QED BY <1>5, <1>6

\* Load and the start of a command.
LEMMA SaltIdle ==
  ASSUME DocInv, SaltInv, DocInv', NEW p \in Procs, Load(p) \/ Start(p)
  PROVE  SaltInv'
  <1>1. /\ disk' = disk /\ areas' = areas /\ salts' = salts /\ revoked' = revoked
        /\ \E c : SetCtx(p, c) /\ c.doc \in Docs
    <2>1. CASE Load(p)
      <3> DEFINE c == [st |-> "idle", doc |-> disk.doc, seq |-> disk.seq, plan |-> << >>]
      <3>1. SetCtx(p, c) /\ UNCHANGED <<disk, areas, salts, revoked>>
        BY <2>1, Zenon DEF Load, SetCtx
      <3>2. c.doc \in Docs
        BY DocsIn
      <3> HIDE DEF c
      <3>3. QED BY <3>1, <3>2
    <2>2. CASE Start(p)
      <3>1. PICK plan : Begin(p, plan)
        BY <2>2 DEF Start, Started
      <3> DEFINE c == [st |-> "busy", doc |-> ctx[p].doc, seq |-> ctx[p].seq, plan |-> plan]
      <3>2. SetCtx(p, c) /\ UNCHANGED <<disk, areas, salts, revoked>>
        BY <3>1, BeginCtx
      <3>3. ctx[p].st # "none"
        BY <2>2 DEF Start
      <3>4. c.doc \in Docs
        BY <3>3, DocsIn
      <3> HIDE DEF c
      <3>5. QED BY <3>2, <3>4
    <2>3. QED BY <2>1, <2>2
  <1>2. PICK c : SetCtx(p, c) /\ c.doc \in Docs
    BY <1>1
  <1>3. disk.doc \in Docs
    BY DocsIn
  <1>4. \A k \in Recs' : k \in Recs \/ \E s \in DOMAIN disk.doc.keyslots : k = disk.doc.keyslots[s]
    BY <1>1, <1>2, <1>3, RecsNext
  <1>5. \A k \in Recs' : k \in Recs
    BY <1>3, <1>4, RecIn
  <1>6. RecsLike
    BY <1>5 DEF RecsLike, Like
  <1>7. QED BY <1>1, <1>6, SaltKept

\* SaltInv holds at the start.
LEMMA SaltInit == Init => SaltInv
  <1> SUFFICES ASSUME Init PROVE SaltInv
    OBVIOUS
  <1> DEFINE n == Len(InitPass)
  <1>1. PICK reqs \in {{}, {"online-reencrypt-v9"}} : disk = [doc |-> [InitDoc EXCEPT !.requirements = reqs], seq |-> 1]
    BY DEF Init
  <1>2. /\ DOMAIN disk.doc.keyslots = 0..(n - 1)
        /\ \A s \in 0..(n - 1) :
             disk.doc.keyslots[s].off = MinOffset + s /\ disk.doc.keyslots[s].len = 1 /\ disk.doc.keyslots[s].salt = s + 1
    BY <1>1, InitDocFact
  <1>3. InitPass \in Seq(Pass) /\ n \in Nat /\ MinOffset \in Nat
    BY KeyslotsAssumption, LimitsAssumption
  <1>4. salts = n /\ revoked = {} /\ ctx = [p \in Procs |-> Unloaded]
    BY DEF Init
  <1>5. Docs = {disk.doc}
    BY <1>4 DEF Docs, Live, Unloaded
  <1>6. \A k \in Recs : \E s \in 0..(n - 1) : k.off = MinOffset + s /\ k.len = 1 /\ k.salt = s + 1
    BY <1>2, <1>5 DEF Recs
  <1>7. /\ \A u \in Units : u - MinOffset < n => areas[u].salt = u - MinOffset + 1
        /\ \A u \in Units : ~(u - MinOffset < n) => areas[u].salt = 0
    BY InitAreas
  <1>8. \A u \in Units : u \in Int /\ u >= MinOffset
    BY LimitsAssumption DEF Units
  <1> HIDE DEF n
  <1>9. /\ \A k \in Recs : k.salt <= salts
        /\ \A k, l \in Recs : k.salt = l.salt => k.off = l.off /\ k.len = l.len
    BY <1>3, <1>4, <1>6
  <1>10. \A u \in Units : areas[u].salt <= salts
    BY <1>3, <1>4, <1>7, <1>8
  <1>11. \A u \in Units : \A k \in Recs : areas[u].salt = k.salt => k.off <= u /\ u < k.off + k.len
    <2> TAKE u \in Units
    <2> TAKE k \in Recs
    <2>1. PICK s \in 0..(n - 1) : k.off = MinOffset + s /\ k.len = 1 /\ k.salt = s + 1
      BY <1>6
    <2>2. HAVE areas[u].salt = k.salt
    <2>3. u - MinOffset < n
      BY <1>3, <1>7, <1>8, <2>1, <2>2
    <2>4. u - MinOffset + 1 = s + 1
      BY <1>7, <2>1, <2>2, <2>3
    <2>5. QED BY <1>3, <1>8, <2>1, <2>4
  <1>12. QED BY <1>4, <1>9, <1>10, <1>11 DEF SaltInv, RevokedIsGone

\* SaltInv is inductive, given DocInv.
LEMMA SaltNext == DocInv /\ DocInv' /\ SaltInv /\ [Next]_vars => SaltInv'
  <1> SUFFICES ASSUME DocInv, DocInv', SaltInv, [Next]_vars PROVE SaltInv'
    OBVIOUS
  <1>1. CASE Next
    BY <1>1, NextCases, SaltIdle, SaltDone, SaltBroken, SaltRejected
  <1>2. CASE UNCHANGED vars
    <2>1. disk' = disk /\ ctx' = ctx /\ areas' = areas /\ salts' = salts /\ revoked' = revoked
      BY <1>2 DEF vars
    <2>2. Recs' = Recs
      BY <2>1 DEF Recs, Docs, Live
    <2>3. RecsLike
      BY <2>2 DEF RecsLike, Like
    <2>4. QED BY <2>1, <2>3, SaltKept
  <1>3. QED BY <1>1, <1>2

\* After luksRemoveKey, luksKillSlot, luksErase or luksChangeKey has reported
\* success no unit of the keyslots area holds material of the keyslot that
\* went, whatever stale contexts, kills and failed writes came before or come
\* after: the wipe covers every place where its salt was ever written.
THEOREM RevokedGone == Spec => []RevokedIsGone
  <1>1. Spec => []SaltInv
    BY DocInvariant, SaltInit, SaltNext, PTL DEF Spec
  <1>2. SaltInv => RevokedIsGone
    BY DEF SaltInv
  <1>3. QED BY <1>1, <1>2, PTL

------------------------------------------------------------------------------
\* Sequence ids.

SyncOf(q) ==
  Live(q) /\ q \notin failed => ctx[q].seq <= disk.seq /\ (ctx[q].seq = disk.seq => ctx[q].doc = disk.doc)

\* SyncInv in parts.
LEMMA SyncParts ==
  SyncInv <=> (\A q \in Procs : SyncOf(q)) /\ (failed # {} \/ overrun => faults > 0)
  BY DEF SyncInv, SyncOf

\* SyncInv holds at the start.
LEMMA SyncInit == Init => SyncInv
  BY DEF Init, SyncInv, Live, Unloaded

\* SyncInv is kept by steps that write nothing.
LEMMA SyncIdle ==
  ASSUME DocInv, SyncInv, NEW p \in Procs, Load(p) \/ Start(p) \/ Rejected(p)
  PROVE  SyncInv'
  <1>1. PICK c : /\ SetCtx(p, c) /\ disk' = disk /\ overrun' = overrun /\ faults' = faults /\ failed' \subseteq failed
                 /\ \A q \in Procs \ {p} : q \in failed <=> q \in failed'
                 /\ \/ c.seq = disk.seq /\ c.doc = disk.doc
                    \/ c.seq = ctx[p].seq /\ c.doc = ctx[p].doc /\ Live(p) /\ failed' = failed
                    \/ c.seq = ctx[p].seq /\ ctx[p].seq # disk.seq /\ Live(p) /\ failed' = failed
    <2>1. CASE Load(p)
      <3> DEFINE c == [st |-> "idle", doc |-> disk.doc, seq |-> disk.seq, plan |-> << >>]
      <3>1. SetCtx(p, c) /\ UNCHANGED <<disk, overrun, faults>> /\ failed' = failed \ {p}
        BY <2>1, Zenon DEF Load, SetCtx
      <3>2. c.doc = disk.doc /\ c.seq = disk.seq
        OBVIOUS
      <3> HIDE DEF c
      <3>3. QED BY <3>1, <3>2
    <2>2. CASE Start(p)
      <3>1. PICK plan : Begin(p, plan)
        BY <2>2 DEF Start, Started
      <3> DEFINE c == [st |-> "busy", doc |-> ctx[p].doc, seq |-> ctx[p].seq, plan |-> plan]
      <3>2. SetCtx(p, c) /\ UNCHANGED <<disk, overrun, faults, failed>>
        BY <3>1, BeginCtx
      <3>3. Live(p) /\ c.doc = ctx[p].doc /\ c.seq = ctx[p].seq
        BY <2>2 DEF Start, Live
      <3> HIDE DEF c
      <3>4. QED BY <3>2, <3>3
    <2>3. CASE Rejected(p)
      BY <2>3 DEF Rejected, RejectedCtx, Live
    <2>4. QED BY <2>1, <2>2, <2>3
  <1>2. DOMAIN ctx' = Procs /\ ctx'[p] = c /\ \A q \in Procs \ {p} : ctx'[q] = ctx[q]
    BY <1>1, CtxSet
  <1>3. \A q \in Procs : SyncOf(q)
    BY SyncParts
  <1>4. \A q \in Procs \ {p} : SyncOf(q)'
    BY <1>1, <1>2, <1>3 DEF SyncOf, Live
  <1>5. SyncOf(p)'
    <2>0. disk.seq \in Nat
      BY DEF DocInv
    <2>1. QED BY <1>1, <1>2, <1>3, <2>0 DEF SyncOf, Live
  <1>6. failed' # {} \/ overrun' => faults' > 0
    BY <1>1, SyncParts
  <1>7. QED BY <1>4, <1>5, <1>6 DEF SyncInv, SyncOf

\* SyncInv is kept by a completed step: the header gets a new number.
LEMMA SyncDone ==
  ASSUME DocInv, SyncInv, NEW p \in Procs, Done(p)
  PROVE  SyncInv'
  <1>1. PICK c : SetCtx(p, c) /\ DoneCtx(p, c)
    BY DEF Done
  <1>2. DOMAIN ctx' = Procs /\ ctx'[p] = c /\ \A q \in Procs \ {p} : ctx'[q] = ctx[q]
    BY <1>1, CtxSet
  <1>3. /\ Passed(p) /\ failed' = failed /\ faults' = faults /\ disk.seq \in Nat
        /\ \A q \in Procs : ctx[q].seq \in Nat
    BY DEF Done, DocInv
  <1>4. \A q \in Procs : SyncOf(q)
    BY SyncParts
  <1>5. c.doc = Next1(ctx[p].doc, Step(p)) /\ NewDoc(p) = After(ctx[p].doc, Step(p))
    BY <1>1 DEF DoneCtx, NewDoc, After
  <1>6. CASE WritesHeader(Step(p))
    <2>1. c.seq = disk.seq + 1 /\ disk'.seq = disk.seq + 1 /\ disk'.doc = c.doc
      BY <1>1, <1>5, <1>6 DEF DoneCtx, Next1
    <2>2. \A q \in Procs \ {p} : SyncOf(q)'
      BY <1>2, <1>3, <1>4, <2>1 DEF SyncOf, Live
    <2>3. SyncOf(p)'
      BY <1>2, <1>3, <2>1 DEF SyncOf
    <2>4. QED BY <1>3, <2>2, <2>3, SyncParts DEF SyncInv, SyncOf, Passed
  <1>7. CASE ~WritesHeader(Step(p))
    <2>1. c.seq = ctx[p].seq /\ disk' = disk /\ c.doc = ctx[p].doc /\ Live(p)
      BY <1>1, <1>3, <1>5, <1>7 DEF DoneCtx, Next1, Passed, Live
    <2>2. \A q \in Procs : SyncOf(q)'
      BY <1>2, <1>3, <1>4, <2>1 DEF SyncOf, Live
    <2>4. QED BY <1>3, <2>2, SyncParts DEF SyncInv, SyncOf, Passed
  <1>8. QED BY <1>6, <1>7

\* SyncInv is kept by an interrupted step: the context dies or is in failed.
LEMMA SyncBroken ==
  ASSUME DocInv, SyncInv, NEW p \in Procs, Broken(p)
  PROVE  SyncInv'
  <1>1. PICK c : SetCtx(p, c) /\ BrokenCtx(p, c)
    BY DEF Broken
  <1>2. DOMAIN ctx' = Procs /\ ctx'[p] = c /\ \A q \in Procs \ {p} : ctx'[q] = ctx[q]
    BY <1>1, CtxSet
  <1>3. Passed(p) /\ faults' > 0 /\ disk' = disk /\ Live(p)
    BY DEF Broken, DocInv, Passed, Live
  <1>4. \A q \in Procs : SyncOf(q)
    BY SyncParts
  <1>5. \A q \in Procs \ {p} : q \in failed <=> q \in failed'
    BY <1>1 DEF BrokenCtx
  <1>6. \A q \in Procs \ {p} : SyncOf(q)'
    BY <1>2, <1>3, <1>4, <1>5 DEF SyncOf, Live
  <1>7. SyncOf(p)'
    BY <1>1, <1>2, <1>3, <1>4 DEF SyncOf, Live, BrokenCtx, Unloaded
  <1>8. QED BY <1>3, <1>6, <1>7 DEF SyncInv, SyncOf

\* SyncInv is inductive, given DocInv.
LEMMA SyncNext == DocInv /\ SyncInv /\ [Next]_vars => SyncInv'
  <1> SUFFICES ASSUME DocInv, SyncInv, [Next]_vars PROVE SyncInv'
    OBVIOUS
  <1>1. CASE Next
    BY <1>1, NextCases, SyncIdle, SyncDone, SyncBroken
  <1>2. CASE UNCHANGED vars
    <2>1. disk' = disk /\ ctx' = ctx /\ failed' = failed /\ overrun' = overrun /\ faults' = faults
      BY <1>2 DEF vars
    <2>2. QED BY <2>1 DEF SyncInv, Live
  <1>3. QED BY <1>1, <1>2

\* A context that passes the check works on the document of the device.
LEMMA MatchedDoc ==
  ASSUME SyncInv, NEW p \in Procs, ctx[p].st = "busy", ctx[p].seq = disk.seq, p \notin failed
  PROVE  ctx[p].doc = disk.doc
  BY DEF SyncInv, Live
------------------------------------------------------------------------------
\* Areas and what they open.

LEMMA UnitsIn ==
  ASSUME NEW k \in KsRec, Inside(k)
  PROVE  /\ UnitsOf(k) \subseteq Units /\ k.off \in UnitsOf(k)
         /\ \A u \in Units : u \in Nat
  BY LimitsAssumption DEF KsRec, Inside, UnitsOf, Units

\* Areas apart share no unit.
LEMMA ApartUnits ==
  ASSUME NEW k \in KsRec, NEW l \in KsRec, Apart(k, l) \/ Apart(l, k)
  PROVE  \A u \in UnitsOf(k) : u \notin UnitsOf(l)
  BY DEF KsRec, Apart, UnitsOf

\* Material is the same under the same record over the same units.
LEMMA MatSame ==
  ASSUME NEW k \in KsRec, NEW l, Like(k, l), NEW ar, NEW br, \A u \in UnitsOf(k) : br[u] = ar[u], NEW x, NEW key
  PROVE  Mat(ar, k, x, key) <=> Mat(br, l, x, key)
  <1>1. k.off \in UnitsOf(k)
    BY DEF KsRec, UnitsOf
  <1>2. QED BY <1>1 DEF Mat, Like, UnitsOf

\* A filled area holds the material it was filled with.
LEMMA FilledMat ==
  ASSUME NEW k \in KsRec, Inside(k), NEW ar, NEW br, NEW x, NEW key, Filled(ar, br, k, x, key)
  PROVE  Mat(br, k, x, key)
  <1>1. UnitsOf(k) \subseteq Units /\ k.off \in UnitsOf(k)
    BY UnitsIn
  <1>2. \A u \in UnitsOf(k) : br[u] = Material(k, x, key, u)
    BY <1>1 DEF Filled
  <1>3. ASSUME NEW u
        PROVE  LET m == Material(k, x, key, u)
               IN m.salt = k.salt /\ m.pass = x /\ m.part = u - k.off /\ m.of = k.len /\ m.key = key
    BY DEF Material
  <1>4. \A u \in UnitsOf(k) : br[u].salt = k.salt /\ br[u].pass = x /\ br[u].part = u - k.off /\ br[u].of = k.len /\ br[u].key = key
    BY <1>2, <1>3, Zenon
  <1>5. QED BY <1>1, <1>4 DEF Mat, UnitsOf

\* Material of another salt does not open a keyslot.
LEMMA OtherSalt ==
  ASSUME NEW k \in KsRec, NEW br, NEW u \in UnitsOf(k), br[u].salt # k.salt, NEW x, NEW key
  PROVE  ~Mat(br, k, x, key)
  BY DEF Mat, UnitsOf

\* A wipe opens nothing.
LEMMA ErasedMat ==
  ASSUME NEW k \in KsRec, Inside(k), NEW l, NEW ar, NEW br, Erased(ar, br, l), NEW x, NEW key, Mat(br, k, x, key)
  PROVE  Mat(ar, k, x, key) /\ \A u \in UnitsOf(k) : u \notin UnitsOf(l)
  <1>1. UnitsOf(k) \subseteq Units /\ k.off \in UnitsOf(k)
    BY UnitsIn
  <1>2. ASSUME NEW u \in UnitsOf(k), u \in UnitsOf(l) PROVE FALSE
    <2>1. br[u] = Junk
      BY <1>1, <1>2 DEF Erased
    <2>2. br[u].salt = 0 /\ k.salt # 0
      BY <2>1 DEF Junk, KsRec
    <2>3. QED BY <2>2, OtherSalt
  <1>3. \A u \in UnitsOf(k) : br[u] = ar[u]
    BY <1>1, <1>2 DEF Erased
  <1>4. Like(k, k)
    BY DEF Like
  <1>5. QED BY <1>2, <1>3, <1>4, MatSame

\* Outside of one area nothing changes.
SameOutside(ar, br, k) == \A u \in Units : u \notin UnitsOf(k) => br[u] = ar[u]

\* A write to one area leaves the others alone.
LEMMA OutsideFact ==
  ASSUME NEW ar, NEW br, NEW k, NEW x, NEW key, Filled(ar, br, k, x, key) \/ Erased(ar, br, k)
  PROVE  SameOutside(ar, br, k)
  BY DEF Filled, Erased, SameOutside

\* Material outside the written area is what it was.
LEMMA MatOutside ==
  ASSUME NEW k \in KsRec, Inside(k), NEW l, Like(k, l), NEW n \in KsRec, Apart(k, n) \/ Apart(n, k),
         NEW ar, NEW br, SameOutside(ar, br, n), NEW x, NEW key
  PROVE  Mat(ar, k, x, key) <=> Mat(br, l, x, key)
  <1>1. UnitsOf(k) \subseteq Units
    BY UnitsIn
  <1>2. \A u \in UnitsOf(k) : u \notin UnitsOf(n)
    BY ApartUnits
  <1>3. \A u \in UnitsOf(k) : br[u] = ar[u]
    BY <1>1, <1>2 DEF SameOutside
  <1>4. QED BY <1>3, MatSame

------------------------------------------------------------------------------
\* What the steps do to what the keyslots open.

\* The keyslots of A open in one document and area what they open in another.
Moved(a, ar, b, br, A) == \A s \in A : \A pr \in Pairs : Opens(a, ar, s, pr) <=> Opens(b, br, s, pr)

\* A keyslot outside the written area opens with the same pairs as before.
LEMMA OpensMoved ==
  ASSUME NEW a, WF(a), NEW s \in DOMAIN a.keyslots, NEW b, NEW t \in DOMAIN b.keyslots,
         Like(a.keyslots[s], b.keyslots[t]), KeyOf(b, t) = KeyOf(a, s),
         NEW n \in KsRec, Apart(a.keyslots[s], n) \/ Apart(n, a.keyslots[s]),
         NEW ar, NEW br, SameOutside(ar, br, n), NEW pr
  PROVE  Opens(a, ar, s, pr) <=> Opens(b, br, t, pr)
  <1>1. a.keyslots[s] \in KsRec /\ Inside(a.keyslots[s])
    BY SlotIn
  <1>2. Mat(ar, a.keyslots[s], pr[1], pr[2]) <=> Mat(br, b.keyslots[t], pr[1], pr[2])
    BY <1>1, MatOutside
  <1>3. QED BY <1>2 DEF Opens

\* A new area opens nothing of a keyslot with an older salt.
LEMMA DrawnMat ==
  ASSUME NEW k \in KsRec, Inside(k), salts \in Nat, k.salt <= salts, NEW n, UnitsOf(n) = UnitsOf(k), n.salt = salts + 1,
         NEW ar, NEW br, NEW y, NEW yk, Filled(ar, br, n, y, yk) \/ Erased(ar, br, n), NEW x, NEW key
  PROVE  ~Mat(br, k, x, key)
  <1>1. k.off \in UnitsOf(k) /\ k.off \in Units
    BY UnitsIn
  <1>2. br[k.off] = Material(n, y, yk, k.off) \/ br[k.off] = Junk
    BY <1>1 DEF Filled, Erased
  <1>3. Material(n, y, yk, k.off).salt = n.salt /\ Junk.salt = 0
    BY DEF Material, Junk
  <1>4. br[k.off].salt = salts + 1 \/ br[k.off].salt = 0
    BY <1>2, <1>3
  <1>5. br[k.off].salt # k.salt
    BY <1>4 DEF KsRec
  <1>6. QED BY <1>1, <1>5, OtherSalt

StoreMoves(doc, ar, br, st) ==
  LET b == After(doc, st) IN
  /\ DOMAIN b.keyslots = DOMAIN doc.keyslots \cup {st.slot}
  /\ Moved(doc, ar, b, br, DOMAIN doc.keyslots \ {st.slot})
  /\ Moved(doc, ar, doc, br, DOMAIN doc.keyslots \ {st.slot})
  /\ Filled(ar, br, b.keyslots[st.slot], st.pass, st.key) => Opens(b, br, st.slot, <<st.pass, st.key>>)
  /\ st.slot \in DOMAIN doc.keyslots => \A pr : ~Opens(doc, br, st.slot, pr)

\* The keyslots after a store.
LEMMA StoreDocs ==
  ASSUME NEW doc, WF(doc), NEW st, HeadKind(doc, st), st.do = "store", salts \in Nat, NEW b, b = After(doc, st)
  PROVE  /\ WF(b) /\ DOMAIN b.keyslots = DOMAIN doc.keyslots \cup {st.slot}
         /\ \A s \in DOMAIN doc.keyslots \ {st.slot} : b.keyslots[s] = doc.keyslots[s] /\ KeyOf(b, s) = KeyOf(doc, s)
         /\ st.slot \in DOMAIN doc.keyslots => UnitsOf(b.keyslots[st.slot]) = UnitsOf(doc.keyslots[st.slot])
  <1>1. CASE StoreNewStep(doc, st)
    <2>1. StoredNew(doc, b, st)
      BY <1>1, AfterIs
    <2>2. st.slot \notin DOMAIN doc.keyslots
      BY <1>1 DEF StoreNewStep, NewSlot
    <2>3. QED BY <2>1, <2>2 DEF StoredNew, SameSlot
  <1>2. CASE StoreOverStep(doc, st)
    <2>1. StoredOver(doc, b, st)
      BY <1>2, AfterIs
    <2>2. st.slot \in DOMAIN doc.keyslots
      BY <1>2 DEF StoreOverStep, Holding
    <2>3. DOMAIN b.keyslots = DOMAIN doc.keyslots \cup {st.slot}
      BY <2>1, <2>2 DEF StoredOver
    <2>4. QED BY <2>1, <2>3 DEF StoredOver, SameSlot, UnitsOf
  <1>3. QED BY <1>1, <1>2, HeadDo

\* After a store, whole or cut short, the other keyslots open as before.
LEMMA StoreMovesFact ==
  ASSUME NEW doc, WF(doc), NEW st, HeadKind(doc, st), st.do = "store", salts \in Nat,
         \A s \in DOMAIN doc.keyslots : doc.keyslots[s].salt <= salts,
         NEW ar, NEW br, LET n == After(doc, st).keyslots[st.slot]
                         IN Filled(ar, br, n, st.pass, st.key) \/ Erased(ar, br, n)
  PROVE  StoreMoves(doc, ar, br, st)
  <1> DEFINE b == After(doc, st)
             n == b.keyslots[st.slot]
  <1>1. /\ WF(b) /\ DOMAIN b.keyslots = DOMAIN doc.keyslots \cup {st.slot}
        /\ \A s \in DOMAIN doc.keyslots \ {st.slot} : b.keyslots[s] = doc.keyslots[s] /\ KeyOf(b, s) = KeyOf(doc, s)
        /\ st.slot \in DOMAIN doc.keyslots => UnitsOf(n) = UnitsOf(doc.keyslots[st.slot])
    BY StoreDocs
  <1>2. n \in KsRec /\ Inside(n) /\ n.salt = salts + 1 /\ KeyOf(b, st.slot) = st.key
    BY StoredSlot
  <1>3. Filled(ar, br, n, st.pass, st.key) \/ Erased(ar, br, n)
    OBVIOUS
  <1> HIDE DEF b, n
  <1>4. SameOutside(ar, br, n)
    BY <1>3, OutsideFact
  <1>5. ASSUME NEW s \in DOMAIN doc.keyslots \ {st.slot}, NEW pr \in Pairs
        PROVE  (Opens(doc, ar, s, pr) <=> Opens(b, br, s, pr)) /\ (Opens(doc, ar, s, pr) <=> Opens(doc, br, s, pr))
    <2>1. Apart(b.keyslots[s], n)
      <3>1. AreasApart(b) /\ s \in DOMAIN b.keyslots /\ st.slot \in DOMAIN b.keyslots /\ s # st.slot
        BY <1>1 DEF WF
      <3>2. QED BY <3>1 DEF AreasApart, n
    <2>2. Apart(doc.keyslots[s], n) /\ s \in DOMAIN b.keyslots
      BY <1>1, <2>1
    <2>3. Like(doc.keyslots[s], b.keyslots[s]) /\ Like(doc.keyslots[s], doc.keyslots[s]) /\ KeyOf(b, s) = KeyOf(doc, s)
      BY <1>1 DEF Like
    <2>4. Opens(doc, ar, s, pr) <=> Opens(b, br, s, pr)
      BY <1>2, <1>4, <2>2, <2>3, OpensMoved
    <2>5. Opens(doc, ar, s, pr) <=> Opens(doc, br, s, pr)
      BY <1>2, <1>4, <2>2, <2>3, OpensMoved
    <2>6. QED BY <2>4, <2>5
  <1>6. ASSUME Filled(ar, br, n, st.pass, st.key) PROVE Opens(b, br, st.slot, <<st.pass, st.key>>)
    <2>1. Mat(br, n, st.pass, st.key)
      BY <1>2, <1>6, FilledMat
    <2>2. QED BY <1>1, <1>2, <2>1 DEF Opens, n
  <1>7. ASSUME st.slot \in DOMAIN doc.keyslots, NEW pr PROVE ~Opens(doc, br, st.slot, pr)
    <2>1. doc.keyslots[st.slot] \in KsRec /\ Inside(doc.keyslots[st.slot]) /\ doc.keyslots[st.slot].salt <= salts
      BY <1>7, SlotIn
    <2>2. UnitsOf(n) = UnitsOf(doc.keyslots[st.slot])
      BY <1>1, <1>7
    <2>3. ~Mat(br, doc.keyslots[st.slot], pr[1], pr[2])
      BY <1>2, <1>3, <2>1, <2>2, DrawnMat
    <2>4. QED BY <2>3 DEF Opens
  <1>8. QED BY <1>1, <1>5, <1>6, <1>7 DEF StoreMoves, Moved, b, n

\* An area wiped opens nothing any more; the other keyslots keep what they open.
AreaMoves(doc, ar, br, t) ==
  /\ Moved(doc, ar, doc, br, DOMAIN doc.keyslots \ {t})
  /\ \A pr : ~Opens(doc, br, t, pr)

\* After the erasure of one area the other keyslots open as before.
LEMMA AreaMovesFact ==
  ASSUME NEW doc, WF(doc), NEW t \in DOMAIN doc.keyslots, NEW ar, NEW br, Erased(ar, br, doc.keyslots[t])
  PROVE  AreaMoves(doc, ar, br, t)
  <1> DEFINE n == doc.keyslots[t]
  <1>1. n \in KsRec /\ Inside(n) /\ Erased(ar, br, n)
    BY SlotIn
  <1>2. AreasApart(doc)
    BY DEF WF
  <1>3. \A s \in DOMAIN doc.keyslots : s # t => Apart(doc.keyslots[s], n)
    BY <1>2 DEF AreasApart
  <1>4. \A pr : ~Opens(doc, br, t, pr)
    <2> TAKE pr
    <2>1. ASSUME Mat(br, n, pr[1], pr[2]) PROVE FALSE
      <3> HIDE DEF n
      <3>1. \A u \in UnitsOf(n) : u \notin UnitsOf(n)
        BY <1>1, <2>1, ErasedMat
      <3>2. n.off \in UnitsOf(n)
        BY <1>1, UnitsIn
      <3>3. QED BY <3>1, <3>2
    <2>2. QED BY <2>1 DEF Opens
  <1> HIDE DEF n
  <1>5. SameOutside(ar, br, n)
    BY <1>1, OutsideFact
  <1>6. ASSUME NEW s \in DOMAIN doc.keyslots \ {t}, NEW pr \in Pairs
        PROVE  Opens(doc, ar, s, pr) <=> Opens(doc, br, s, pr)
    <2>1. Like(doc.keyslots[s], doc.keyslots[s]) /\ Apart(doc.keyslots[s], n)
      BY <1>3 DEF Like
    <2>2. QED BY <1>1, <1>5, <2>1, OpensMoved
  <1>7. QED BY <1>4, <1>6 DEF AreaMoves, Moved

RemoveMoves(doc, ar, br, st) ==
  LET b == After(doc, st) IN
  /\ DOMAIN b.keyslots = DOMAIN doc.keyslots \ {st.slot}
  /\ Moved(doc, ar, b, br, DOMAIN doc.keyslots \ {st.slot, Target(st)})
  /\ st.swap # ANY_SLOT =>
       st.swap \in DOMAIN b.keyslots /\ \A pr \in Pairs : Opens(doc, ar, st.slot, pr) <=> Opens(b, br, st.swap, pr)

\* After a removal, with a swap or without, what is left opens as before.
LEMMA RemoveMovesFact ==
  ASSUME NEW doc, WF(doc), NEW st, RemoveStep(doc, st), salts \in Nat,
         st.swap # ANY_SLOT => KeyOf(doc, st.slot) = KeyOf(doc, st.swap),
         NEW ar, NEW br, Erased(ar, br, doc.keyslots[Target(st)])
  PROVE  RemoveMoves(doc, ar, br, st)
  <1> DEFINE b == After(doc, st)
             n == doc.keyslots[Target(st)]
  <1>1. /\ Target(st) \in DOMAIN doc.keyslots /\ st.slot \in DOMAIN doc.keyslots
        /\ st.swap = ANY_SLOT => Target(st) = st.slot
        /\ st.swap # ANY_SLOT => Target(st) = st.swap /\ st.swap # st.slot
    BY DEF RemoveStep, WipeOK, Target
  <1>2. n \in KsRec /\ Erased(ar, br, n)
    BY <1>1, SlotIn
  <1>3. \A s \in DOMAIN doc.keyslots : s # Target(st) => Apart(doc.keyslots[s], n)
    BY <1>1 DEF WF, AreasApart
  <1>4. /\ DOMAIN b.keyslots = DOMAIN doc.keyslots \ {st.slot}
        /\ \A t \in DOMAIN doc.keyslots \ {st.slot, Target(st)} : b.keyslots[t] = doc.keyslots[t] /\ KeyOf(b, t) = KeyOf(doc, t)
        /\ st.swap # ANY_SLOT => b.keyslots[st.swap] = doc.keyslots[st.slot] /\ KeyOf(b, st.swap) = KeyOf(doc, st.slot)
    <2>1. CASE st.swap = ANY_SLOT
      <3>1. Wiped(doc, b, st.slot)
        BY <2>1, AfterIs
      <3>2. QED BY <2>1, <3>1 DEF Wiped, SameSlot
    <2>2. CASE st.swap # ANY_SLOT
      <3>1. WipedSwap(doc, b, st)
        BY <2>2, AfterIs
      <3>2. QED BY <1>1, <2>2, <3>1 DEF WipedSwap, SameSlot
    <2>3. QED BY <2>1, <2>2
  <1> HIDE DEF b, n
  <1>5. SameOutside(ar, br, n)
    BY <1>2, OutsideFact
  <1>6. ASSUME NEW s \in DOMAIN doc.keyslots \ {st.slot, Target(st)}, NEW pr \in Pairs
        PROVE  Opens(doc, ar, s, pr) <=> Opens(b, br, s, pr)
    <2>1. Like(doc.keyslots[s], b.keyslots[s]) /\ Apart(doc.keyslots[s], n) /\ s \in DOMAIN b.keyslots /\ KeyOf(b, s) = KeyOf(doc, s)
      BY <1>3, <1>4 DEF Like
    <2>2. QED BY <1>2, <1>5, <2>1, OpensMoved
  <1>7. ASSUME st.swap # ANY_SLOT, NEW pr \in Pairs
        PROVE  st.swap \in DOMAIN b.keyslots /\ (Opens(doc, ar, st.slot, pr) <=> Opens(b, br, st.swap, pr))
    <2>1. Like(doc.keyslots[st.slot], b.keyslots[st.swap]) /\ Apart(doc.keyslots[st.slot], n) /\ st.swap \in DOMAIN b.keyslots
      BY <1>1, <1>3, <1>4, <1>7 DEF Like
    <2>2. KeyOf(b, st.swap) = KeyOf(doc, st.slot)
      BY <1>4, <1>7
    <2>3. QED BY <1>1, <1>2, <1>5, <2>1, <2>2, OpensMoved
  <1>8. st.swap # ANY_SLOT => st.swap \in DOMAIN b.keyslots
    BY <1>1, <1>4
  <1>9. QED BY <1>4, <1>6, <1>7, <1>8 DEF RemoveMoves, Moved, b

\* After a change of the header alone every keyslot opens as before.
LEMMA HeaderMoves ==
  ASSUME NEW doc, WF(doc), NEW st, HeaderStep(doc, st), salts \in Nat, NEW ar
  PROVE  /\ DOMAIN After(doc, st).keyslots = DOMAIN doc.keyslots
         /\ Moved(doc, ar, After(doc, st), ar, DOMAIN doc.keyslots)
  <1> DEFINE b == After(doc, st)
  <1>1. HdrChanged(doc, b)
    BY AfterIs
  <1> HIDE DEF b
  <1>2. ASSUME NEW s \in DOMAIN doc.keyslots, NEW pr \in Pairs
        PROVE  Opens(doc, ar, s, pr) <=> Opens(b, ar, s, pr)
    <2>1. Like(doc.keyslots[s], b.keyslots[s]) /\ KeyOf(b, s) = KeyOf(doc, s) /\ s \in DOMAIN b.keyslots /\ doc.keyslots[s] \in KsRec
      BY <1>1, SlotIn DEF HdrChanged, SameSlot, Like
    <2>2. Mat(ar, doc.keyslots[s], pr[1], pr[2]) <=> Mat(ar, b.keyslots[s], pr[1], pr[2])
      BY <2>1 DEF Mat, Like
    <2>3. QED BY <2>1, <2>2 DEF Opens
  <1>3. QED BY <1>1, <1>2 DEF HdrChanged, Moved, b

\* What a step asks of the promises.
StoreAsks(st) ==
  \/ st.drop = {} /\ st.into = {} /\ st.gain = {{<<st.pass, st.key>>}}
  \/ \E was \in Pairs : st.drop = {was} /\ st.into = {was, <<st.pass, st.key>>} /\ st.gain = {}
WipeAsks(doc, st) ==
  /\ st.gain = {}
  /\ st.swap = ANY_SLOT => st.into = {}
  /\ st.swap # ANY_SLOT => KeyOf(doc, st.slot) = KeyOf(doc, st.swap) /\ ~st.only
StepAsks(doc, st) ==
  /\ st.do = "store" => StoreAsks(st)
  /\ st.do = "wipe" => WipeAsks(doc, st)
  /\ st.do \notin {"store", "wipe"} => st.drop = {} /\ st.into = {} /\ st.gain = {}

\* What a step of a plan asks of the promises.
LEMMA StepAsksFact ==
  ASSUME NEW doc, WF(doc), NEW plan, PlanOK(doc, plan)
  PROVE  StepAsks(doc, Head(plan))
  <1>1. CASE PlanAdd(doc, plan)
    <2>1. PICK s \in Slots, pass \in Pass, key \in VolumeKeys, d \in DigestIds, tok \in TokenIds \cup {ANY_TOKEN} :
            plan = <<StoreStep(s, pass, key, d, tok, ANY_SLOT, {}, {}, {{<<pass, key>>}})>>
      BY <1>1, Zenon DEF PlanAdd
    <2>2. Head(plan) = StoreStep(s, pass, key, d, tok, ANY_SLOT, {}, {}, {{<<pass, key>>}})
      BY <2>1, OneStep, Zenon
    <2>3. StoreAsks(Head(plan)) /\ Head(plan).do = "store"
      BY <2>2 DEF StoreAsks, StoreStep
    <2>4. QED BY <2>3 DEF StepAsks
  <1>2. CASE PlanChange1(doc, plan)
    <2>1. PICK f \in Slots, r \in DOMAIN doc.keyslots, old \in Pass, new \in Pass, key \in VolumeKeys, d \in DOMAIN doc.digests :
            /\ NewSlot(doc, f, key, d) /\ Holding(doc, r, key, d)
            /\ plan = <<StoreStep(f, new, key, d, ANY_TOKEN, r, {<<old, key>>}, {<<old, key>>, <<new, key>>}, {}),
                        WipeStep(f, FALSE, r, {<<old, key>>}, {<<new, key>>}, {SaltOf(doc, r)})>>
      BY <1>2 DEF PlanChange1
    <2>2. Head(plan) = StoreStep(f, new, key, d, ANY_TOKEN, r, {<<old, key>>}, {<<old, key>>, <<new, key>>}, {})
      BY <2>1, TwoSteps, Zenon
    <2>3. <<old, key>> \in Pairs
      BY DEF Pairs
    <2>4. StoreAsks(Head(plan)) /\ Head(plan).do = "store"
      BY <2>2, <2>3 DEF StoreAsks, StoreStep
    <2>5. QED BY <2>4 DEF StepAsks
  <1>3. CASE PlanChange2(doc, plan)
    <2>1. PICK f \in DOMAIN doc.keyslots, r \in DOMAIN doc.keyslots, old \in Pass, new \in Pass, key \in VolumeKeys, d \in DOMAIN doc.digests :
            /\ f # r /\ Holding(doc, f, key, d) /\ Holding(doc, r, key, d)
            /\ plan = <<WipeStep(f, FALSE, r, {<<old, key>>}, {<<new, key>>}, {SaltOf(doc, r)})>>
      BY <1>3, Zenon DEF PlanChange2
    <2>2. Head(plan) = WipeStep(f, FALSE, r, {<<old, key>>}, {<<new, key>>}, {SaltOf(doc, r)})
      BY <2>1, OneStep, Zenon
    <2>3. Head(plan).do = "wipe" /\ Head(plan).slot = f /\ Head(plan).swap = r /\ ~Head(plan).only /\ Head(plan).gain = {}
      BY <2>2 DEF WipeStep
    <2>4. d \in DigestIds /\ IsDoc(doc) /\ OneDigest(doc)
      BY DEF WF, IsDoc, IsMap
    <2>5. KeyOf(doc, f) = key /\ KeyOf(doc, r) = key
      BY <2>1, <2>4, KeyOfSlot DEF Holding
    <2>6. r # ANY_SLOT
      BY SlotIn
    <2>7. QED BY <2>3, <2>5, <2>6 DEF StepAsks, WipeAsks
  <1>4. CASE PlanInPlace1(doc, plan)
    <2>1. PICK r \in DOMAIN doc.keyslots, old \in Pass, new \in Pass, key \in VolumeKeys, d \in DOMAIN doc.digests :
            plan = <<WipeStep(r, TRUE, ANY_SLOT, {<<old, key>>}, {}, {}),
                     StoreStep(r, new, key, d, ANY_TOKEN, ANY_SLOT, {}, {}, {{<<new, key>>}})>>
      BY <1>4, Zenon DEF PlanInPlace1
    <2>2. Head(plan) = WipeStep(r, TRUE, ANY_SLOT, {<<old, key>>}, {}, {})
      BY <2>1, TwoSteps, Zenon
    <2>3. QED BY <2>2 DEF StepAsks, WipeAsks, WipeStep
  <1>5. CASE PlanInPlace2(doc, plan)
    <2>1. PICK r \in DOMAIN doc.keyslots, new \in Pass, key \in VolumeKeys, d \in DOMAIN doc.digests :
            plan = <<StoreStep(r, new, key, d, ANY_TOKEN, ANY_SLOT, {}, {}, {{<<new, key>>}})>>
      BY <1>5, Zenon DEF PlanInPlace2
    <2>2. Head(plan) = StoreStep(r, new, key, d, ANY_TOKEN, ANY_SLOT, {}, {}, {{<<new, key>>}})
      BY <2>1, OneStep, Zenon
    <2>3. StoreAsks(Head(plan)) /\ Head(plan).do = "store"
      BY <2>2 DEF StoreAsks, StoreStep
    <2>4. QED BY <2>3 DEF StepAsks
  <1>6. CASE PlanDestroy(doc, plan)
    <2>1. Head(plan) \in DestroySteps
      BY <1>6 DEF PlanDestroy
    <2>2. QED BY <2>1 DEF DestroySteps, StepAsks, WipeAsks
  <1>7. CASE PlanHeader(doc, plan)
    <2>1. HeaderStep(doc, Head(plan))
      BY <1>7, HeaderSteps, OneStep, TwoSteps DEF PlanHeader
    <2>2. QED BY <2>1 DEF HeaderStep, StepAsks
  <1>8. QED BY <1>1, <1>2, <1>3, <1>4, <1>5, <1>6, <1>7 DEF PlanOK

------------------------------------------------------------------------------
\* The promises after a step.

LEMMA PromisedIn ==
  ASSUME NEW st, NEW T \in Promised(st), T \notin st.gain
  PROVE  /\ T # {}
         /\ \E S \in keep : \A pr \in T :
              \/ pr \in S /\ pr \notin st.drop
              \/ S \cap st.drop # {} /\ pr \in st.into /\ (st.do = "store" \/ pr \in S)
  <1> DEFINE Into(S) == IF st.do = "store" THEN st.into ELSE st.into \cap S
             Aft(S) == IF S \cap st.drop = {} THEN S ELSE (S \ st.drop) \cup Into(S)
  <1>1. T \in {Aft(S) : S \in keep} /\ T # {}
    BY DEF Promised
  <1>2. PICK S \in keep : T = Aft(S)
    BY <1>1
  <1>3. ASSUME NEW pr \in T
        PROVE  \/ pr \in S /\ pr \notin st.drop
               \/ S \cap st.drop # {} /\ pr \in st.into /\ (st.do = "store" \/ pr \in S)
    BY <1>2
  <1>4. QED BY <1>1, <1>3

\* What a step must leave of what opened before.
Survives(doc, ar, b, br, st) ==
  /\ \A pr \in Pairs : pr \notin st.drop /\ OpensSome(doc, ar, pr) => OpensSome(b, br, pr)
  /\ \A S \in keep, pr \in st.into : S \cap st.drop # {} /\ (st.do = "store" \/ pr \in S) => OpensSome(b, br, pr)
  /\ \A G \in st.gain : G # {} /\ \A pr \in G : OpensSome(b, br, pr)

\* The promises hold after a step whose losses are those it says.
LEMMA PromisesNext ==
  ASSUME keep \subseteq SUBSET Pairs, NEW doc, NEW ar, Promises(doc, ar, keep),
         NEW st, NEW b, NEW br, Survives(doc, ar, b, br, st)
  PROVE  Promises(b, br, Promised(st))
  <1> SUFFICES ASSUME NEW T \in Promised(st) PROVE T # {} /\ \A pr \in T : OpensSome(b, br, pr)
    BY DEF Promises
  <1>1. CASE T \in st.gain
    BY <1>1 DEF Survives
  <1>2. CASE T \notin st.gain
    <2>1. T # {}
      BY <1>2, PromisedIn
    <2>2. PICK S \in keep : \A pr \in T :
            \/ pr \in S /\ pr \notin st.drop
            \/ S \cap st.drop # {} /\ pr \in st.into /\ (st.do = "store" \/ pr \in S)
      BY <1>2, PromisedIn
    <2>3. \A pr \in S : pr \in Pairs /\ OpensSome(doc, ar, pr)
      BY DEF Promises
    <2>4. QED BY <2>1, <2>2, <2>3 DEF Survives
  <1>3. QED BY <1>1, <1>2

\* A store loses no promise, and keeps the one it makes.
LEMMA StoreSurvives ==
  ASSUME keep \subseteq SUBSET Pairs, NEW doc, NEW ar, Promises(doc, ar, keep), NEW st, st.do = "store", StoreAsks(st),
         NEW b, b = After(doc, st), NEW br, StoreMoves(doc, ar, br, st),
         Filled(ar, br, b.keyslots[st.slot], st.pass, st.key),
         st.slot \in DOMAIN doc.keyslots => \A pr \in Pairs : ~Opens(doc, ar, st.slot, pr)
  PROVE  Survives(doc, ar, b, br, st)
  <1> DEFINE now == <<st.pass, st.key>>
  <1>1. OpensSome(b, br, now)
    BY DEF StoreMoves, OpensSome
  <1> HIDE DEF now
  <1>2. ASSUME NEW pr \in Pairs, OpensSome(doc, ar, pr) PROVE OpensSome(b, br, pr)
    <2>1. PICK s \in DOMAIN doc.keyslots : Opens(doc, ar, s, pr)
      BY <1>2 DEF OpensSome
    <2>2. s \in DOMAIN doc.keyslots \ {st.slot} /\ s \in DOMAIN b.keyslots
      BY <2>1 DEF StoreMoves
    <2>3. Opens(b, br, s, pr)
      BY <2>1, <2>2 DEF StoreMoves, Moved
    <2>4. QED BY <2>2, <2>3 DEF OpensSome
  <1>3. CASE st.drop = {} /\ st.into = {} /\ st.gain = {{now}}
    BY <1>1, <1>2, <1>3 DEF Survives
  <1>4. ASSUME NEW was \in Pairs, st.drop = {was}, st.into = {was, now}, st.gain = {}
        PROVE  Survives(doc, ar, b, br, st)
    <2>1. ASSUME NEW S \in keep, S \cap st.drop # {}, NEW pr \in st.into PROVE OpensSome(b, br, pr)
      <3>1. was \in S /\ was \in Pairs
        BY <1>4, <2>1
      <3>2. OpensSome(b, br, was)
        BY <1>2, <3>1 DEF Promises
      <3>3. QED BY <1>1, <1>4, <3>2
    <2>2. QED BY <1>2, <1>4, <2>1 DEF Survives
  <1>5. QED BY <1>3, <1>4 DEF StoreAsks, now

\* What KeepsPlan says of a wipe.
WipeKeeps(doc, ar, st) ==
  /\ \A pr \in Pairs : Opens(doc, ar, Target(st), pr) => pr \in st.drop
  /\ \A pr \in st.into : pr \in UNION keep => Opens(doc, ar, st.slot, pr)

\* A removal loses what it says it drops, and no more.
LEMMA RemoveSurvives ==
  ASSUME NEW doc, NEW ar, NEW st, st.do = "wipe", RemoveStep(doc, st), WipeAsks(doc, st), st.into \subseteq Pairs,
         WipeKeeps(doc, ar, st), NEW b, b = After(doc, st), NEW br, RemoveMoves(doc, ar, br, st)
  PROVE  Survives(doc, ar, b, br, st)
  <1>0. /\ st.swap = ANY_SLOT => Target(st) = st.slot
        /\ st.swap # ANY_SLOT => Target(st) = st.swap
    BY DEF Target
  <1>1. ASSUME NEW pr \in Pairs, pr \notin st.drop, OpensSome(doc, ar, pr) PROVE OpensSome(b, br, pr)
    <2>1. PICK s \in DOMAIN doc.keyslots : Opens(doc, ar, s, pr)
      BY <1>1 DEF OpensSome
    <2>2. s # Target(st)
      BY <1>1, <2>1 DEF WipeKeeps
    <2>3. CASE s # st.slot
      <3>1. s \in DOMAIN b.keyslots /\ Opens(b, br, s, pr)
        BY <2>1, <2>2, <2>3 DEF RemoveMoves, Moved
      <3>2. QED BY <3>1 DEF OpensSome
    <2>4. CASE s = st.slot
      <3>1. st.swap # ANY_SLOT
        BY <1>0, <2>2, <2>4
      <3>2. st.swap \in DOMAIN b.keyslots /\ Opens(b, br, st.swap, pr)
        BY <2>1, <2>4, <3>1 DEF RemoveMoves
      <3>3. QED BY <3>2 DEF OpensSome
    <2>5. QED BY <2>3, <2>4
  <1>2. ASSUME NEW S \in keep, NEW pr \in st.into, pr \in S PROVE OpensSome(b, br, pr)
    <2>1. Opens(doc, ar, st.slot, pr) /\ pr \in Pairs
      BY <1>2 DEF WipeKeeps
    <2>2. st.swap # ANY_SLOT
      BY <1>2 DEF WipeAsks
    <2>3. st.swap \in DOMAIN b.keyslots /\ Opens(b, br, st.swap, pr)
      BY <2>1, <2>2 DEF RemoveMoves
    <2>4. QED BY <2>3 DEF OpensSome
  <1>3. QED BY <1>1, <1>2 DEF Survives, WipeAsks

\* An erased area loses what the step says it drops, and no more.
LEMMA AreaSurvives ==
  ASSUME NEW doc, WF(doc), NEW ar, NEW st, HeadKind(doc, st), st.do = "wipe", WipeAsks(doc, st),
         WipeKeeps(doc, ar, st), NEW br, AreaMoves(doc, ar, br, Target(st))
  PROVE  Survives(doc, ar, doc, br, st)
  <1>0. st.slot \in DOMAIN doc.keyslots /\ (st.swap # ANY_SLOT => Target(st) # st.slot)
    <2>1. OnlyStep(doc, st) \/ RemoveStep(doc, st)
      BY HeadDo
    <2>2. QED BY <2>1 DEF OnlyStep, RemoveStep, WipeOK, Target
  <1>1. ASSUME NEW pr \in Pairs, pr \notin st.drop, OpensSome(doc, ar, pr) PROVE OpensSome(doc, br, pr)
    <2>1. PICK s \in DOMAIN doc.keyslots : Opens(doc, ar, s, pr)
      BY <1>1 DEF OpensSome
    <2>2. s # Target(st)
      BY <1>1, <2>1 DEF WipeKeeps
    <2>3. Opens(doc, br, s, pr)
      BY <2>1, <2>2 DEF AreaMoves, Moved
    <2>4. QED BY <2>3 DEF OpensSome
  <1>2. ASSUME NEW S \in keep, NEW pr \in st.into, pr \in S PROVE OpensSome(doc, br, pr)
    <2>1. Opens(doc, ar, st.slot, pr) /\ pr \in Pairs
      BY <1>2 DEF WipeKeeps, HeadKind, GhostsOK
    <2>2. st.slot # Target(st)
      BY <1>0, <1>2 DEF WipeAsks
    <2>3. Opens(doc, br, st.slot, pr)
      BY <1>0, <2>1, <2>2 DEF AreaMoves, Moved
    <2>4. QED BY <1>0, <2>3 DEF OpensSome
  <1>3. QED BY <1>1, <1>2 DEF Survives, WipeAsks

\* A change of the header alone loses nothing.
LEMMA HeaderSurvives ==
  ASSUME NEW doc, NEW ar, NEW st, st.into = {}, st.gain = {}, NEW b,
         DOMAIN b.keyslots = DOMAIN doc.keyslots, Moved(doc, ar, b, ar, DOMAIN doc.keyslots)
  PROVE  Survives(doc, ar, b, ar, st)
  BY DEF Survives, Moved, OpensSome

------------------------------------------------------------------------------
\* What the rest of a plan relies on after its first step.

LEMMA PlanHead ==
  ASSUME NEW doc, NEW plan, PlanOK(doc, plan)
  PROVE  Head(plan) = plan[1] /\ 1 \in DOMAIN plan
  <1>1. CASE PlanDestroy(doc, plan)
    <2>1. plan \in Seq(DestroySteps) /\ plan # << >>
      BY <1>1 DEF PlanDestroy
    <2>2. QED BY <2>1
  <1>2. ASSUME NEW a, plan = <<a>> PROVE Head(plan) = plan[1] /\ 1 \in DOMAIN plan
    BY <1>2, OneStep
  <1>3. ASSUME NEW a, NEW b, plan = <<a, b>> PROVE Head(plan) = plan[1] /\ 1 \in DOMAIN plan
    BY <1>3, TwoSteps
  <1>4. PlanAdd(doc, plan) => \E a : plan = <<a>>
    BY Zenon DEF PlanAdd
  <1>5. PlanChange1(doc, plan) => \E a, b : plan = <<a, b>>
    BY Zenon DEF PlanChange1
  <1>6. PlanChange2(doc, plan) => \E a : plan = <<a>>
    BY Zenon DEF PlanChange2
  <1>7. PlanInPlace1(doc, plan) => \E a, b : plan = <<a, b>>
    BY Zenon DEF PlanInPlace1
  <1>8. PlanInPlace2(doc, plan) => \E a : plan = <<a>>
    BY Zenon DEF PlanInPlace2
  <1>9. PlanHeader(doc, plan) => (\E a : plan = <<a>>) \/ (\E a, b : plan = <<a, b>>)
    BY Zenon DEF PlanHeader
  <1>10. QED
    BY <1>1, <1>2, <1>3, <1>4, <1>5, <1>6, <1>7, <1>8, <1>9, Zenon DEF PlanOK

\* What KeepsPlan says of the first step.
LEMMA KeepsHead ==
  ASSUME NEW doc, NEW plan, PlanOK(doc, plan), NEW ar, KeepsPlan(doc, ar, keep, plan), NEW st, st = Head(plan)
  PROVE  /\ st.do = "wipe" => WipeKeeps(doc, ar, st)
         /\ st.do = "store" /\ st.slot \in DOMAIN doc.keyslots => \A pr \in Pairs : ~Opens(doc, ar, st.slot, pr)
  <1>1. st = plan[1] /\ 1 \in DOMAIN plan
    BY PlanHead
  <1>2. QED BY <1>1 DEF KeepsPlan, WipeKeeps

\* After the store of a change, its removal still keeps the plan.
LEMMA TailChange ==
  ASSUME NEW doc, WF(doc), NEW plan, PlanChange1(doc, plan), NEW ar, NEW kp, NEW kn, KeepsPlan(doc, ar, kp, plan),
         NEW br, StoreMoves(doc, ar, br, Head(plan)),
         Filled(ar, br, After(doc, Head(plan)).keyslots[Head(plan).slot], Head(plan).pass, Head(plan).key)
  PROVE  KeepsPlan(After(doc, Head(plan)), br, kn, Tail(plan))
  <1>1. PICK f \in Slots, r \in DOMAIN doc.keyslots, old \in Pass, new \in Pass, key \in VolumeKeys, d \in DOMAIN doc.digests :
          /\ NewSlot(doc, f, key, d) /\ Holding(doc, r, key, d)
          /\ plan = <<StoreStep(f, new, key, d, ANY_TOKEN, r, {<<old, key>>}, {<<old, key>>, <<new, key>>}, {}),
                      WipeStep(f, FALSE, r, {<<old, key>>}, {<<new, key>>}, {SaltOf(doc, r)})>>
    BY DEF PlanChange1
  <1> DEFINE st == StoreStep(f, new, key, d, ANY_TOKEN, r, {<<old, key>>}, {<<old, key>>, <<new, key>>}, {})
             wp == WipeStep(f, FALSE, r, {<<old, key>>}, {<<new, key>>}, {SaltOf(doc, r)})
             b == After(doc, st)
             was == <<old, key>>
             now == <<new, key>>
  <1>2. r # ANY_SLOT /\ f # r
    BY <1>1, SlotIn DEF NewSlot
  <1>3. wp.do = "wipe" /\ wp.slot = f /\ wp.swap = r /\ wp.drop = {was} /\ wp.into = {now}
    BY DEF WipeStep
  <1>4. st.slot = f /\ st.pass = new /\ st.key = key /\ st.do = "store"
    BY DEF StoreStep
  <1>5. plan = <<st, wp>>
    BY <1>1
  <1>6. Head(plan) = st
    BY <1>1
  <1> HIDE DEF st, wp, was
  <1>7. Tail(plan) = <<wp>> /\ plan[2] = wp /\ 2 \in DOMAIN plan
    BY <1>5, TwoSteps
  <1>8. Target(wp) = r
    BY <1>2, <1>3 DEF Target
  <1>9. \A pr \in Pairs : Opens(doc, ar, r, pr) => pr \in wp.drop
    BY <1>3, <1>7, <1>8 DEF KeepsPlan
  <1>10. StoreMoves(doc, ar, br, st) /\ Filled(ar, br, b.keyslots[f], new, key)
    BY <1>4, <1>6
  <1>11. Opens(b, br, f, now) /\ \A pr \in Pairs : Opens(b, br, r, pr) => Opens(doc, ar, r, pr)
    BY <1>2, <1>4, <1>10 DEF StoreMoves, Moved
  <1> HIDE DEF b, now
  <1>12. KeepsPlan(b, br, kn, <<wp>>)
    <2>1. <<wp>>[1] = wp /\ DOMAIN <<wp>> = {1}
      BY OneStep
    <2>2. \A pr \in Pairs : Opens(b, br, Target(wp), pr) => pr \in wp.drop
      BY <1>8, <1>9, <1>11
    <2>3. \A pr \in wp.into : Opens(b, br, wp.slot, pr)
      BY <1>3, <1>11
    <2>4. QED BY <1>3, <2>1, <2>2, <2>3 DEF KeepsPlan
  <1>13. QED BY <1>6, <1>7, <1>12 DEF b

\* After one removal of several, the others still keep the plan.
LEMMA TailDestroy ==
  ASSUME NEW doc, WF(doc), NEW plan, PlanDestroy(doc, plan), Tail(plan) # << >>, NEW ar, NEW kp, NEW kn, KeepsPlan(doc, ar, kp, plan),
         NEW br, RemoveMoves(doc, ar, br, Head(plan))
  PROVE  KeepsPlan(After(doc, Head(plan)), br, kn, Tail(plan))
  <1> DEFINE b == After(doc, Head(plan))
  <1>1. plan \in Seq(DestroySteps) /\ plan # << >>
    BY DEF PlanDestroy
  <1>2. /\ Head(plan) = plan[1] /\ DOMAIN Tail(plan) = 1..(Len(plan) - 1) /\ Len(plan) \in Nat /\ Len(plan) > 1
        /\ DOMAIN plan = 1..Len(plan)
        /\ \A i \in 1..(Len(plan) - 1) : Tail(plan)[i] = plan[i + 1] /\ i + 1 \in 1..Len(plan)
    BY <1>1
  <1>3. \A i \in 1..Len(plan) : plan[i] \in DestroySteps
    BY <1>1
  <1>4. \A i \in 1..Len(plan) : plan[i].swap = ANY_SLOT /\ plan[i].do = "wipe" /\ plan[i].into = {} /\ Target(plan[i]) = plan[i].slot
    BY <1>3 DEF DestroySteps, Target
  <1>5. RemoveMoves(doc, ar, br, plan[1])
    BY <1>2
  <1> HIDE DEF b
  <1>6. Moved(doc, ar, b, br, DOMAIN doc.keyslots \ {plan[1].slot})
    <2>1. Target(plan[1]) = plan[1].slot /\ Head(plan) = plan[1]
      BY <1>2, <1>4
    <2>2. Moved(doc, ar, b, br, DOMAIN doc.keyslots \ {plan[1].slot, Target(plan[1])})
      BY <1>5, <2>1 DEF RemoveMoves, b
    <2>3. QED BY <2>1, <2>2 DEF Moved
  <1>7. ASSUME NEW i \in DOMAIN Tail(plan), NEW pr \in Pairs, Opens(b, br, Target(Tail(plan)[i]), pr)
        PROVE  pr \in Tail(plan)[i].drop
    <2>1. Tail(plan)[i] = plan[i + 1] /\ i + 1 \in 1..Len(plan) /\ i + 1 # 1 /\ 1 \in 1..Len(plan)
      BY <1>2
    <2>2. Target(plan[i + 1]) = plan[i + 1].slot /\ plan[i + 1].do = "wipe"
      BY <1>4, <2>1
    <2>3. plan[i + 1].slot \in DOMAIN doc.keyslots \ {plan[1].slot}
      BY <2>1 DEF PlanDestroy
    <2>4. Opens(doc, ar, Target(plan[i + 1]), pr)
      BY <1>6, <1>7, <2>1, <2>2, <2>3 DEF Moved
    <2>5. pr \in plan[i + 1].drop
      BY <1>2, <2>1, <2>2, <2>4 DEF KeepsPlan
    <2>6. QED BY <2>1, <2>5
  <1>8. Tail(plan)[1].do = "wipe" /\ Tail(plan)[1].into = {}
    BY <1>2, <1>4
  <1>9. KeepsPlan(b, br, kn, Tail(plan))
    BY <1>7, <1>8 DEF KeepsPlan
  <1>10. QED BY <1>9 DEF b

\* A plan that changes the header alone relies on nothing.
LEMMA TailHeader ==
  ASSUME NEW doc, NEW plan, PlanHeader(doc, plan), Tail(plan) # << >>, NEW b, NEW br, NEW kn
  PROVE  KeepsPlan(b, br, kn, Tail(plan))
  <1>1. plan = <<plan[1], plan[2]>> /\ TokenStepOK(doc, plan[2])
    BY OneStep DEF PlanHeader
  <1>2. HeaderStep(doc, plan[2])
    BY <1>1, HeaderSteps
  <1>3. Tail(plan) = <<plan[2]>>
    <2>1. PICK a, c : plan = <<a, c>>
      BY <1>1
    <2>2. Tail(<<a, c>>) = <<c>> /\ <<a, c>>[2] = c
      BY TwoSteps
    <2>3. QED BY <2>1, <2>2
  <1>4. plan[2].do \notin {"store", "wipe"}
    BY <1>2 DEF HeaderStep
  <1> DEFINE st == plan[2]
  <1>5. st.do # "store" /\ st.do # "wipe" /\ Tail(plan) = <<st>>
    BY <1>3, <1>4
  <1> HIDE DEF st
  <1>6. <<st>>[1] = st /\ DOMAIN <<st>> = {1}
    BY OneStep
  <1>7. KeepsPlan(b, br, kn, <<st>>)
    BY <1>5, <1>6 DEF KeepsPlan
  <1>8. QED BY <1>5, <1>7

\* After the erasure in place nothing opens where the store goes.
LEMMA TailOnly ==
  ASSUME NEW doc, NEW plan, PlanInPlace1(doc, plan), NEW br, NEW kn, \A pr : ~Opens(doc, br, Head(plan).slot, pr)
  PROVE  KeepsPlan(doc, br, kn, Tail(plan)) /\ Head(Tail(plan)).do = "store"
  <1>1. PICK r \in DOMAIN doc.keyslots, old \in Pass, new \in Pass, key \in VolumeKeys, d \in DOMAIN doc.digests :
          /\ Holding(doc, r, key, d)
          /\ plan = <<WipeStep(r, TRUE, ANY_SLOT, {<<old, key>>}, {}, {}),
                      StoreStep(r, new, key, d, ANY_TOKEN, ANY_SLOT, {}, {}, {{<<new, key>>}})>>
    BY DEF PlanInPlace1
  <1> DEFINE wp == WipeStep(r, TRUE, ANY_SLOT, {<<old, key>>}, {}, {})
             st == StoreStep(r, new, key, d, ANY_TOKEN, ANY_SLOT, {}, {}, {{<<new, key>>}})
  <1>2. wp.slot = r /\ st.slot = r /\ st.do = "store"
    BY DEF WipeStep, StoreStep
  <1>3. plan = <<wp, st>>
    BY <1>1
  <1> HIDE DEF wp, st
  <1>4. Head(plan) = wp /\ Tail(plan) = <<st>>
    BY <1>3, TwoSteps
  <1>5. <<st>>[1] = st /\ DOMAIN <<st>> = {1} /\ Head(<<st>>) = st
    BY OneStep
  <1>6. \A pr : ~Opens(doc, br, st.slot, pr)
    BY <1>2, <1>4
  <1>7. KeepsPlan(doc, br, kn, <<st>>) /\ Head(<<st>>).do = "store"
    BY <1>2, <1>5, <1>6 DEF KeepsPlan
  <1>8. QED BY <1>4, <1>7

\* A change begins with a store.
LEMMA ChangeHead ==
  ASSUME NEW doc, NEW plan, PlanChange1(doc, plan)
  PROVE  Head(plan).do = "store" /\ WritesHeader(Head(plan))
  <1>1. PICK f \in Slots, r \in DOMAIN doc.keyslots, old \in Pass, new \in Pass, key \in VolumeKeys, d \in DOMAIN doc.digests :
          /\ NewSlot(doc, f, key, d) /\ Holding(doc, r, key, d)
          /\ plan = <<StoreStep(f, new, key, d, ANY_TOKEN, r, {<<old, key>>}, {<<old, key>>, <<new, key>>}, {}),
                      WipeStep(f, FALSE, r, {<<old, key>>}, {<<new, key>>}, {SaltOf(doc, r)})>>
    BY DEF PlanChange1
  <1> DEFINE st == StoreStep(f, new, key, d, ANY_TOKEN, r, {<<old, key>>}, {<<old, key>>, <<new, key>>}, {})
             wp == WipeStep(f, FALSE, r, {<<old, key>>}, {<<new, key>>}, {SaltOf(doc, r)})
  <1>2. st.do = "store" /\ plan = <<st, wp>>
    BY <1>1 DEF StoreStep
  <1> HIDE DEF st, wp
  <1>3. QED BY <1>2, TwoSteps DEF WritesHeader

\* The plans with a second step.
LEMMA PlanShape ==
  ASSUME NEW doc, WF(doc), NEW plan, PlanOK(doc, plan)
  PROVE  /\ WritesHeader(Head(plan)) /\ Tail(plan) # << >> =>
              \/ PlanChange1(doc, plan) /\ Head(plan).do = "store"
              \/ PlanDestroy(doc, plan) /\ Head(plan).do = "wipe"
              \/ PlanHeader(doc, plan)
         /\ ~WritesHeader(Head(plan)) => PlanInPlace1(doc, plan)
  <1>1. ASSUME PlanAdd(doc, plan) PROVE Tail(plan) = << >> /\ WritesHeader(Head(plan))
    <2>1. PICK s \in Slots, pass \in Pass, key \in VolumeKeys, d \in DigestIds, tok \in TokenIds \cup {ANY_TOKEN} :
            plan = <<StoreStep(s, pass, key, d, tok, ANY_SLOT, {}, {}, {{<<pass, key>>}})>>
      BY <1>1, Zenon DEF PlanAdd
    <2> DEFINE st == StoreStep(s, pass, key, d, tok, ANY_SLOT, {}, {}, {{<<pass, key>>}})
    <2>2. st.do = "store" /\ plan = <<st>>
      BY <2>1 DEF StoreStep
    <2> HIDE DEF st
    <2>3. QED BY <2>2, OneStep DEF WritesHeader
  <1>2. ASSUME PlanChange1(doc, plan) PROVE Head(plan).do = "store" /\ WritesHeader(Head(plan))
    BY <1>2, ChangeHead
  <1>3. ASSUME PlanChange2(doc, plan) PROVE Tail(plan) = << >> /\ WritesHeader(Head(plan))
    <2>1. PICK f \in DOMAIN doc.keyslots, r \in DOMAIN doc.keyslots, old \in Pass, new \in Pass, key \in VolumeKeys, d \in DOMAIN doc.digests :
            plan = <<WipeStep(f, FALSE, r, {<<old, key>>}, {<<new, key>>}, {SaltOf(doc, r)})>>
      BY <1>3, Zenon DEF PlanChange2
    <2> DEFINE wp == WipeStep(f, FALSE, r, {<<old, key>>}, {<<new, key>>}, {SaltOf(doc, r)})
    <2>2. ~wp.only /\ plan = <<wp>>
      BY <2>1 DEF WipeStep
    <2> HIDE DEF wp
    <2>3. QED BY <2>2, OneStep DEF WritesHeader
  <1>4. ASSUME PlanInPlace2(doc, plan) PROVE Tail(plan) = << >> /\ WritesHeader(Head(plan))
    <2>1. PICK r \in DOMAIN doc.keyslots, new \in Pass, key \in VolumeKeys, d \in DOMAIN doc.digests :
            plan = <<StoreStep(r, new, key, d, ANY_TOKEN, ANY_SLOT, {}, {}, {{<<new, key>>}})>>
      BY <1>4, Zenon DEF PlanInPlace2
    <2> DEFINE st == StoreStep(r, new, key, d, ANY_TOKEN, ANY_SLOT, {}, {}, {{<<new, key>>}})
    <2>2. st.do = "store" /\ plan = <<st>>
      BY <2>1 DEF StoreStep
    <2> HIDE DEF st
    <2>3. QED BY <2>2, OneStep DEF WritesHeader
  <1>5. ASSUME PlanInPlace1(doc, plan) PROVE ~WritesHeader(Head(plan))
    <2>1. PICK r \in DOMAIN doc.keyslots, old \in Pass, new \in Pass, key \in VolumeKeys, d \in DOMAIN doc.digests :
            plan = <<WipeStep(r, TRUE, ANY_SLOT, {<<old, key>>}, {}, {}),
                     StoreStep(r, new, key, d, ANY_TOKEN, ANY_SLOT, {}, {}, {{<<new, key>>}})>>
      BY <1>5, Zenon DEF PlanInPlace1
    <2> DEFINE wp == WipeStep(r, TRUE, ANY_SLOT, {<<old, key>>}, {}, {})
               st == StoreStep(r, new, key, d, ANY_TOKEN, ANY_SLOT, {}, {}, {{<<new, key>>}})
    <2>2. wp.only /\ wp.do = "wipe" /\ plan = <<wp, st>>
      BY <2>1 DEF WipeStep
    <2> HIDE DEF wp, st
    <2>3. QED BY <2>2, TwoSteps DEF WritesHeader
  <1>6. ASSUME PlanDestroy(doc, plan) PROVE Head(plan).do = "wipe" /\ WritesHeader(Head(plan))
    <2>1. Head(plan) \in DestroySteps
      BY <1>6 DEF PlanDestroy
    <2>2. QED BY <2>1 DEF DestroySteps, WritesHeader
  <1>7. ASSUME PlanHeader(doc, plan) PROVE WritesHeader(Head(plan))
    <2>1. Head(plan) = plan[1] /\ (SetKeyOK(doc, plan[1]) \/ TokenStepOK(doc, plan[1]))
      BY <1>7 DEF PlanHeader
    <2>2. HeaderStep(doc, plan[1])
      BY <2>1, HeaderSteps
    <2>3. QED BY <2>1, <2>2 DEF HeaderStep, WritesHeader
  <1>8. QED BY <1>1, <1>2, <1>3, <1>4, <1>5, <1>6, <1>7, Zenon DEF PlanOK

\* What is left of a plan after a completed step keeps the promises.
LEMMA TailKeeps ==
  ASSUME NEW doc, WF(doc), NEW plan, PlanOK(doc, plan), Tail(plan) # << >>, WritesHeader(Head(plan)),
         NEW ar, NEW kp, NEW kn, KeepsPlan(doc, ar, kp, plan), NEW br,
         Head(plan).do = "store" =>
           /\ StoreMoves(doc, ar, br, Head(plan))
           /\ Filled(ar, br, After(doc, Head(plan)).keyslots[Head(plan).slot], Head(plan).pass, Head(plan).key),
         Head(plan).do = "wipe" => RemoveMoves(doc, ar, br, Head(plan))
  PROVE  KeepsPlan(After(doc, Head(plan)), br, kn, Tail(plan))
  <1>1. CASE PlanChange1(doc, plan) /\ Head(plan).do = "store"
    BY <1>1, TailChange
  <1>2. CASE PlanDestroy(doc, plan) /\ Head(plan).do = "wipe"
    BY <1>2, TailDestroy
  <1>3. CASE PlanHeader(doc, plan)
    BY <1>3, TailHeader
  <1>4. QED BY <1>1, <1>2, <1>3, PlanShape

\* A context that passes the check, with nothing overrun.
PassedOK(p) ==
  /\ ~overrun /\ p \notin failed /\ ctx[p].doc = disk.doc /\ Matched(p) /\ BusyOK(p)
  /\ Promises(disk.doc, areas, keep) /\ KeepsPlan(disk.doc, areas, keep, ctx[p].plan)
  /\ StepAsks(disk.doc, Step(p)) /\ HeadKind(disk.doc, Step(p))
  /\ \A s \in DOMAIN disk.doc.keyslots : disk.doc.keyslots[s].salt <= salts
  /\ WF(disk.doc) /\ salts \in Nat /\ keep \subseteq SUBSET Pairs /\ disk.seq \in Nat

\* A context that passes the check works on the document on disk.
LEMMA PassedFact ==
  ASSUME DocInv, SaltInv, SyncInv, PromiseInv, NEW p \in Procs, Passed(p), ~overrun'
  PROVE  PassedOK(p)
  <1>1. ~overrun /\ p \notin failed
    BY Zenon DEF Passed
  <1>2. Matched(p) /\ ctx[p].doc = disk.doc
    BY <1>1, MatchedDoc DEF Passed, Matched, Busy
  <1>3. BusyOK(p)
    BY BusyFact DEF Passed
  <1>4. Promises(disk.doc, areas, keep) /\ KeepsPlan(disk.doc, areas, keep, ctx[p].plan)
    BY <1>1, <1>2, Zenon DEF PromiseInv
  <1>5. StepAsks(disk.doc, Step(p)) /\ HeadKind(disk.doc, Step(p))
    BY <1>2, <1>3, StepAsksFact DEF BusyOK, Step
  <1>6. \A s \in DOMAIN disk.doc.keyslots : disk.doc.keyslots[s].salt <= salts
    BY DocsIn, RecIn DEF SaltInv
  <1>7. WF(disk.doc) /\ salts \in Nat /\ keep \subseteq SUBSET Pairs /\ disk.seq \in Nat
    BY DEF DocInv
  <1>8. QED BY <1>1, <1>2, <1>3, <1>4, <1>5, <1>6, <1>7 DEF PassedOK

\* The header is written: what the new document and areas keep.
HeaderKeeps(p, b, br) ==
  /\ Promises(b, br, Promised(Step(p)))
  /\ \A kn : Tail(ctx[p].plan) # << >> => KeepsPlan(b, br, kn, Tail(ctx[p].plan))

\* A step that writes the header keeps the promises and the rest of its plan.
LEMMA HeaderKept ==
  ASSUME NEW p \in Procs, PassedOK(p), WritesHeader(Step(p)), AreaStore(p) \/ AreaWipe(p) \/ AreaNone(p)
  PROVE  HeaderKeeps(p, NewDoc(p), areas')
  <1> DEFINE doc == disk.doc
             st == Step(p)
             plan == ctx[p].plan
             b == NewDoc(p)
             br == areas'
  <1>0. /\ st = Head(plan) /\ b = After(doc, st) /\ PlanOK(doc, plan) /\ WF(doc) /\ HeadKind(doc, st) /\ StepAsks(doc, st)
        /\ KeepsPlan(doc, areas, keep, plan) /\ Promises(doc, areas, keep) /\ keep \subseteq SUBSET Pairs /\ salts \in Nat
        /\ \A s \in DOMAIN doc.keyslots : doc.keyslots[s].salt <= salts
        /\ WritesHeader(st)
    BY DEF PassedOK, BusyOK, Step
  <1>1. /\ AreaStore(p) => st.do = "store" /\ Filled(areas, br, b.keyslots[st.slot], st.pass, st.key)
        /\ AreaWipe(p) => st.do = "wipe" /\ Erased(areas, br, doc.keyslots[Target(st)])
        /\ AreaNone(p) => st.do \notin {"store", "wipe"} /\ br = areas
    BY DEF AreaStore, AreaWipe, AreaNone, PassedOK
  <1> HIDE DEF st, plan, b, br, doc
  <1>2. CASE AreaStore(p)
    <2>1. st.do = "store" /\ Filled(areas, br, b.keyslots[st.slot], st.pass, st.key)
      BY <1>1, <1>2
    <2>2. StoreMoves(doc, areas, br, st)
      BY <1>0, <2>1, StoreMovesFact
    <2>3. StoreAsks(st)
      BY <1>0, <2>1 DEF StepAsks
    <2>4. st.slot \in DOMAIN doc.keyslots => \A pr \in Pairs : ~Opens(doc, areas, st.slot, pr)
      BY <1>0, <2>1, KeepsHead
    <2>5. Survives(doc, areas, b, br, st)
      BY <1>0, <2>1, <2>2, <2>3, <2>4, StoreSurvives
    <2>6. Promises(b, br, Promised(st))
      BY <1>0, <2>5, PromisesNext
    <2>7. ASSUME NEW kn, Tail(plan) # << >> PROVE KeepsPlan(b, br, kn, Tail(plan))
      BY <1>0, <2>1, <2>2, <2>7, TailKeeps
    <2>8. QED BY <2>6, <2>7 DEF HeaderKeeps, st, plan, b, br
  <1>3. CASE AreaWipe(p)
    <2>1. st.do = "wipe" /\ Erased(areas, br, doc.keyslots[Target(st)])
      BY <1>1, <1>3
    <2>2. RemoveStep(doc, st)
      BY <1>0, <2>1, HeadDo
    <2>3. WipeAsks(doc, st) /\ st.into \subseteq Pairs
      BY <1>0, <2>1 DEF StepAsks, HeadKind, GhostsOK
    <2>4. RemoveMoves(doc, areas, br, st)
      BY <1>0, <2>1, <2>2, <2>3, RemoveMovesFact DEF WipeAsks
    <2>5. WipeKeeps(doc, areas, st)
      BY <1>0, <2>1, KeepsHead
    <2>6. Survives(doc, areas, b, br, st)
      BY <1>0, <2>1, <2>2, <2>3, <2>4, <2>5, RemoveSurvives
    <2>7. Promises(b, br, Promised(st))
      BY <1>0, <2>6, PromisesNext
    <2>8. ASSUME NEW kn, Tail(plan) # << >> PROVE KeepsPlan(b, br, kn, Tail(plan))
      BY <1>0, <2>1, <2>4, <2>8, TailKeeps
    <2>9. QED BY <2>7, <2>8 DEF HeaderKeeps, st, plan, b, br
  <1>4. CASE AreaNone(p)
    <2>1. st.do \notin {"store", "wipe"} /\ br = areas
      BY <1>1, <1>4
    <2>2. HeaderStep(doc, st)
      BY <1>0, <2>1, HeadDo
    <2>3. DOMAIN b.keyslots = DOMAIN doc.keyslots /\ Moved(doc, areas, b, br, DOMAIN doc.keyslots)
      BY <1>0, <2>1, <2>2, HeaderMoves
    <2>4. Survives(doc, areas, b, br, st)
      BY <2>1, <2>2, <2>3, HeaderSurvives DEF HeaderStep
    <2>5. Promises(b, br, Promised(st))
      BY <1>0, <2>4, PromisesNext
    <2>6. ASSUME NEW kn, Tail(plan) # << >> PROVE KeepsPlan(b, br, kn, Tail(plan))
      BY <1>0, <2>1, <2>6, TailKeeps
    <2>7. QED BY <2>5, <2>6 DEF HeaderKeeps, st, plan, b, br
  <1>5. QED BY <1>2, <1>3, <1>4

\* Only an area is wiped: the disk, and what other contexts rely on.
LEMMA AreaKept ==
  ASSUME NEW p \in Procs, PassedOK(p), AreaWipe(p)
  PROVE  /\ Promises(disk.doc, areas', Promised(Step(p)))
         /\ AreaMoves(disk.doc, areas, areas', Target(Step(p)))
         /\ WipeKeeps(disk.doc, areas, Step(p)) /\ WipeAsks(disk.doc, Step(p))
  <1> DEFINE doc == disk.doc
             st == Step(p)
             br == areas'
  <1>0. /\ WF(doc) /\ HeadKind(doc, st) /\ WipeAsks(doc, st) /\ st.do = "wipe" /\ st = Head(ctx[p].plan)
        /\ PlanOK(doc, ctx[p].plan) /\ KeepsPlan(doc, areas, keep, ctx[p].plan)
        /\ Promises(doc, areas, keep) /\ keep \subseteq SUBSET Pairs
        /\ Erased(areas, br, doc.keyslots[Target(st)])
    BY DEF PassedOK, BusyOK, Step, AreaWipe, StepAsks
  <1> HIDE DEF st, br, doc
  <1>1. Target(st) \in DOMAIN doc.keyslots
    BY <1>0, WipedSlot
  <1>2. AreaMoves(doc, areas, br, Target(st))
    BY <1>0, <1>1, AreaMovesFact
  <1>3. WipeKeeps(doc, areas, st)
    BY <1>0, KeepsHead
  <1>4. Survives(doc, areas, doc, br, st)
    BY <1>0, <1>2, <1>3, AreaSurvives
  <1>5. Promises(doc, br, Promised(st))
    BY <1>0, <1>4, PromisesNext
  <1>6. QED BY <1>0, <1>2, <1>3, <1>5 DEF st, br, doc

\* A plan still has what it relies on when the areas of the same document
\* open less than before.
LEMMA LessKeeps ==
  ASSUME NEW doc, NEW ar, NEW kp, NEW plan, KeepsPlan(doc, ar, kp, plan), NEW br, NEW kn,
         \A s, pr : pr \in Pairs /\ Opens(doc, br, s, pr) => Opens(doc, ar, s, pr),
         plan[1].do = "wipe" => \A pr \in plan[1].into : pr \in UNION kn => Opens(doc, br, plan[1].slot, pr)
  PROVE  KeepsPlan(doc, br, kn, plan)
  BY DEF KeepsPlan

\* Another context that passes the check is not disturbed by a wipe.
LEMMA OtherWipe ==
  ASSUME DocInv, SyncInv, PromiseInv, NEW p \in Procs, PassedOK(p), AreaWipe(p), NEW q \in Procs, q # p, Matched(q)
  PROVE  KeepsPlan(disk.doc, areas', Promised(Step(p)), ctx[q].plan)
  <1> DEFINE doc == disk.doc
             st == Step(p)
             sq == Head(ctx[q].plan)
             plan == ctx[q].plan
  <1>1. AreaMoves(doc, areas, areas', Target(st)) /\ WipeKeeps(doc, areas, st) /\ WipeAsks(doc, st) /\ st.do = "wipe"
    BY AreaKept DEF AreaWipe
  <1>2. KeepsPlan(doc, areas, keep, plan)
    BY DEF PromiseInv, PassedOK
  <1>3. ctx[q].doc = doc /\ BusyOK(q) /\ WF(doc)
    BY MatchedDoc, BusyFact DEF Matched, Busy, PassedOK
  <1>4. PlanOK(doc, plan) /\ HeadKind(doc, sq) /\ StepAsks(doc, sq) /\ sq = plan[1]
    BY <1>3, StepAsksFact, PlanHead DEF BusyOK, Step
  <1>5. st = Head(ctx[p].plan) /\ Matched(p) /\ ~overrun /\ st.gain = {}
    BY <1>1 DEF Step, PassedOK, WipeAsks
  <1>6. Matched(p) /\ Matched(q) /\ Swapping(p) /\ Swapping(q) => p = q
    BY <1>5 DEF PromiseInv
  <1>7. \A s, pr : pr \in Pairs /\ Opens(doc, areas', s, pr) => Opens(doc, areas, s, pr)
    BY <1>1 DEF AreaMoves, Moved, Opens
  <1>8. ASSUME sq.do = "wipe", NEW pr \in sq.into, pr \in UNION Promised(st)
        PROVE  Opens(doc, areas', sq.slot, pr)
    <2>1. pr \in Pairs /\ sq.swap # ANY_SLOT
      BY <1>4, <1>8 DEF HeadKind, GhostsOK, StepAsks, WipeAsks
    <2>2. PICK T \in Promised(st) : pr \in T
      BY <1>8
    <2>3. PICK S \in keep : \A qr \in T :
            \/ qr \in S /\ qr \notin st.drop
            \/ S \cap st.drop # {} /\ qr \in st.into /\ (st.do = "store" \/ qr \in S)
      BY <1>5, <2>2, PromisedIn
    <2>4. pr \in S /\ (pr \notin st.drop \/ pr \in st.into)
      BY <1>1, <2>2, <2>3
    <2>5. Opens(doc, areas, sq.slot, pr)
      BY <1>2, <1>4, <1>8, <2>4 DEF KeepsPlan
    <2>6. ASSUME sq.slot = Target(st) PROVE FALSE
      <3>1. pr \in st.drop
        BY <1>1, <2>1, <2>5, <2>6 DEF WipeKeeps
      <3>2. st.swap # ANY_SLOT
        BY <1>1, <2>4, <3>1 DEF WipeAsks
      <3>3. Swapping(p) /\ Swapping(q)
        BY <1>1, <1>5, <1>8, <2>1, <3>2 DEF Swapping
      <3>4. QED BY <1>5, <1>6, <3>3
    <2>7. QED BY <1>1, <2>1, <2>5, <2>6 DEF AreaMoves, Moved, Opens
  <1> HIDE DEF st, sq, doc, plan
  <1>9. plan[1].do = "wipe" => \A pr \in plan[1].into : pr \in UNION Promised(st) => Opens(doc, areas', plan[1].slot, pr)
    BY <1>4, <1>8
  <1>10. KeepsPlan(doc, areas', Promised(st), plan)
    BY <1>2, <1>7, <1>9, LessKeeps
  <1>11. QED BY <1>10 DEF st, doc, plan

\* The disk stays: PromiseInv for every context from what happens to one.
LEMMA PromiseSame ==
  ASSUME PromiseInv, ~overrun, NEW p \in Procs, disk' = disk,
         \A q \in Procs \ {p} : ctx'[q] = ctx[q] /\ (q \in failed <=> q \in failed'),
         Promises(disk.doc, areas', keep'),
         \A q \in Procs \ {p} : Matched(q) => KeepsPlan(disk.doc, areas', keep', ctx[q].plan),
         Matched(p)' => KeepsPlan(disk.doc, areas', keep', ctx'[p].plan) /\ ~Swapping(p)'
  PROVE  PromiseInv'
  <1>1. \A q \in Procs \ {p} : Matched(q)' => Matched(q)
    BY DEF Matched, Busy
  <1>2. \A q \in Procs \ {p} : Swapping(q)' => Swapping(q)
    BY DEF Swapping
  <1>3. \A q \in Procs : Matched(q)' => KeepsPlan(disk.doc, areas', keep', ctx'[q].plan)
    BY <1>1
  <1>4. \A q, r \in Procs : Matched(q) /\ Matched(r) /\ Swapping(q) /\ Swapping(r) => q = r
    BY DEF PromiseInv
  <1>5. \A q, r \in Procs : Matched(q)' /\ Matched(r)' /\ Swapping(q)' /\ Swapping(r)' => q = r
    BY <1>1, <1>2, <1>4
  <1>6. QED BY <1>3, <1>5 DEF PromiseInv

\* PromiseInv is kept by a completed step.
LEMMA PromiseDone ==
  ASSUME DocInv, SaltInv, SyncInv, PromiseInv, NEW p \in Procs, Done(p)
  PROVE  PromiseInv'
  <1> SUFFICES ASSUME ~overrun' PROVE PromiseInv'
    BY DEF PromiseInv
  <1>0. Passed(p)
    BY DEF Done
  <1>1. PassedOK(p)
    BY <1>0, PassedFact
  <1>2. PICK c : SetCtx(p, c) /\ DoneCtx(p, c)
    BY DEF Done
  <1>3. DOMAIN ctx' = Procs /\ ctx'[p] = c /\ \A q \in Procs \ {p} : ctx'[q] = ctx[q]
    BY <1>2, CtxSet
  <1>4. failed' = failed /\ keep' = Promised(Step(p)) /\ (AreaStore(p) \/ AreaWipe(p) \/ AreaNone(p))
    BY DEF Done, Complete
  <1>5. CASE WritesHeader(Step(p))
    <2>1. c.plan = Tail(ctx[p].plan) /\ (c.st = "busy" => Tail(ctx[p].plan) # << >>)
          /\ disk'.doc = NewDoc(p) /\ disk'.seq = disk.seq + 1
      BY <1>2, <1>5 DEF DoneCtx
    <2>2. HeaderKeeps(p, NewDoc(p), areas')
      BY <1>1, <1>4, <1>5, HeaderKept
    <2>3. Promises(disk'.doc, areas', keep')
      BY <1>4, <2>1, <2>2 DEF HeaderKeeps
    <2>4. ASSUME NEW q \in Procs, Matched(q)' PROVE q = p
      <3>1. q # p => ctx[q].st = "busy" /\ q \notin failed /\ ctx[q].seq = disk.seq + 1
        BY <1>3, <1>4, <2>1, <2>4 DEF Matched, Busy
      <3>2. q # p => ctx[q].seq <= disk.seq
        BY <3>1 DEF SyncInv, Live
      <3>3. disk.seq \in Nat
        BY <1>1 DEF PassedOK
      <3>4. QED BY <3>1, <3>2, <3>3
    <2>5. ASSUME Matched(p)' PROVE KeepsPlan(disk'.doc, areas', keep', ctx'[p].plan)
      <3>1. c.st = "busy"
        BY <1>3, <2>5 DEF Matched, Busy
      <3>2. QED BY <1>3, <2>1, <2>2, <3>1 DEF HeaderKeeps
    <2>6. QED BY <2>3, <2>4, <2>5 DEF PromiseInv
  <1>6. CASE ~WritesHeader(Step(p))
    <2>1. c.plan = Tail(ctx[p].plan) /\ disk' = disk
      BY <1>2, <1>6 DEF DoneCtx
    <2>2. Step(p).do = "wipe" /\ Step(p).only
      BY <1>6 DEF WritesHeader
    <2>3. AreaWipe(p)
      BY <1>4, <2>2 DEF AreaStore, AreaNone
    <2>4. /\ Promises(disk.doc, areas', keep')
          /\ AreaMoves(disk.doc, areas, areas', Target(Step(p)))
          /\ WipeAsks(disk.doc, Step(p))
      BY <1>1, <1>4, <2>3, AreaKept
    <2>5. \A q \in Procs \ {p} : Matched(q) => KeepsPlan(disk.doc, areas', keep', ctx[q].plan)
      BY <1>1, <1>4, <2>3, OtherWipe
    <2>6. PlanInPlace1(disk.doc, ctx[p].plan) /\ Step(p) = Head(ctx[p].plan)
      BY <1>1, <1>6, PlanShape DEF PassedOK, BusyOK, Step
    <2>7. Target(Step(p)) = Step(p).slot
      BY <2>2, <2>4 DEF WipeAsks, Target
    <2>8. \A pr : ~Opens(disk.doc, areas', Head(ctx[p].plan).slot, pr)
      BY <2>4, <2>6, <2>7 DEF AreaMoves
    <2>9. KeepsPlan(disk.doc, areas', keep', Tail(ctx[p].plan)) /\ Head(Tail(ctx[p].plan)).do = "store"
      BY <2>6, <2>8, TailOnly
    <2>10. KeepsPlan(disk.doc, areas', keep', ctx'[p].plan) /\ ~Swapping(p)'
      BY <1>3, <2>1, <2>9 DEF Swapping
    <2>11. ~overrun
      BY <1>1 DEF PassedOK
    <2>12. QED BY <1>3, <1>4, <2>1, <2>4, <2>5, <2>10, <2>11, PromiseSame
  <1>7. QED BY <1>5, <1>6

\* Broken between the new area and the header.
LEMMA CutKept ==
  ASSUME DocInv, SyncInv, PromiseInv, NEW p \in Procs, PassedOK(p), AreaStore(p) \/ AreaCut(p)
  PROVE  /\ Promises(disk.doc, areas', keep)
         /\ \A q \in Procs \ {p} : Matched(q) => KeepsPlan(disk.doc, areas', keep, ctx[q].plan)
  <1> DEFINE doc == disk.doc
             st == Step(p)
             n == After(doc, st).keyslots[st.slot]
             br == areas'
  <1>0. /\ WF(doc) /\ HeadKind(doc, st) /\ st.do = "store" /\ st = Head(ctx[p].plan)
        /\ PlanOK(doc, ctx[p].plan) /\ KeepsPlan(doc, areas, keep, ctx[p].plan)
        /\ Promises(doc, areas, keep) /\ keep \subseteq SUBSET Pairs /\ salts \in Nat
        /\ \A s \in DOMAIN doc.keyslots : doc.keyslots[s].salt <= salts
        /\ Filled(areas, br, n, st.pass, st.key) \/ Erased(areas, br, n)
    BY DEF PassedOK, BusyOK, Step, AreaStore, AreaCut
  <1>a. ~overrun
    BY DEF PassedOK
  <1> HIDE DEF st, br, doc
  <1>1. StoreMoves(doc, areas, br, st)
    BY <1>0, StoreMovesFact
  <1>2. st.slot \in DOMAIN doc.keyslots => \A pr \in Pairs : ~Opens(doc, areas, st.slot, pr)
    BY <1>0, KeepsHead
  <1>3. \A s, pr : pr \in Pairs => (Opens(doc, br, s, pr) <=> Opens(doc, areas, s, pr))
    <2> SUFFICES ASSUME NEW s, NEW pr \in Pairs PROVE Opens(doc, br, s, pr) <=> Opens(doc, areas, s, pr)
      OBVIOUS
    <2>1. CASE s \notin DOMAIN doc.keyslots
      BY <2>1 DEF Opens
    <2>2. CASE s \in DOMAIN doc.keyslots /\ s = st.slot
      BY <1>1, <1>2, <2>2 DEF StoreMoves
    <2>3. CASE s \in DOMAIN doc.keyslots \ {st.slot}
      BY <1>1, <2>3 DEF StoreMoves, Moved
    <2>4. QED BY <2>1, <2>2, <2>3
  <1>4. Promises(doc, br, keep)
    BY <1>0, <1>3 DEF Promises, OpensSome
  <1>5. ASSUME NEW q \in Procs \ {p}, Matched(q) PROVE KeepsPlan(doc, br, keep, ctx[q].plan)
    <2>1. KeepsPlan(doc, areas, keep, ctx[q].plan)
      BY <1>5, <1>a DEF PromiseInv, doc
    <2>2. keep \subseteq SUBSET Pairs
      BY <1>0
    <2>3. \A s, pr : pr \in Pairs /\ Opens(doc, br, s, pr) => Opens(doc, areas, s, pr)
      BY <1>3
    <2>4. ctx[q].plan[1].do = "wipe" =>
            \A pr \in ctx[q].plan[1].into : pr \in UNION keep => Opens(doc, br, ctx[q].plan[1].slot, pr)
      BY <1>3, <2>1, <2>2 DEF KeepsPlan
    <2>5. QED BY <2>1, <2>3, <2>4, LessKeeps
  <1>6. QED BY <1>4, <1>5 DEF doc, br

\* PromiseInv is kept by an interrupted step.
LEMMA PromiseBroken ==
  ASSUME DocInv, SaltInv, SyncInv, PromiseInv, NEW p \in Procs, Broken(p)
  PROVE  PromiseInv'
  <1> SUFFICES ASSUME ~overrun' PROVE PromiseInv'
    BY DEF PromiseInv
  <1>0. Passed(p) /\ disk' = disk
    BY DEF Broken
  <1>1. PassedOK(p)
    BY <1>0, PassedFact
  <1>2. PICK c : SetCtx(p, c) /\ BrokenCtx(p, c)
    BY DEF Broken
  <1>3. DOMAIN ctx' = Procs /\ ctx'[p] = c /\ \A q \in Procs \ {p} : ctx'[q] = ctx[q]
    BY <1>2, CtxSet
  <1>4. c.st # "busy" /\ \A q \in Procs \ {p} : q \in failed <=> q \in failed'
    BY <1>2 DEF BrokenCtx, Unloaded
  <1>5. ~Matched(p)' /\ ~overrun
    BY <1>1, <1>3, <1>4 DEF Matched, Busy, PassedOK
  <1>6. /\ Promises(disk.doc, areas', keep')
        /\ \A q \in Procs \ {p} : Matched(q) => KeepsPlan(disk.doc, areas', keep', ctx[q].plan)
    <2>1. CASE (AreaStore(p) \/ AreaCut(p)) /\ keep' = keep
      BY <1>1, <2>1, CutKept
    <2>2. CASE AreaNone(p) /\ keep' = keep
      BY <1>1, <1>5, <2>2 DEF AreaNone, PassedOK, PromiseInv
    <2>3. CASE AreaWipe(p) /\ keep' = Promised(Step(p))
      BY <1>1, <2>3, AreaKept, OtherWipe
    <2>4. QED BY <2>1, <2>2, <2>3 DEF Broken
  <1>7. QED BY <1>0, <1>3, <1>4, <1>5, <1>6, PromiseSame

\* PromiseInv is kept by steps that write nothing.
LEMMA PromiseIdle ==
  ASSUME DocInv, SyncInv, PromiseInv, NEW p \in Procs, Load(p) \/ Start(p) \/ Rejected(p)
  PROVE  PromiseInv'
  <1> SUFFICES ASSUME ~overrun' PROVE PromiseInv'
    BY DEF PromiseInv
  <1>1. PICK c : /\ SetCtx(p, c) /\ disk' = disk /\ overrun' = overrun /\ areas' = areas /\ keep' = keep
                 /\ \A q \in Procs \ {p} : q \in failed <=> q \in failed'
                 /\ \/ c.st = "idle"
                    \/ /\ c.st = "busy" /\ failed' = failed /\ ctx[p].st = "idle" /\ c.seq = ctx[p].seq
                       /\ Planned(ctx[p].doc, c.plan, TRUE)
    <2>1. CASE Load(p)
      <3> DEFINE c == [st |-> "idle", doc |-> disk.doc, seq |-> disk.seq, plan |-> << >>]
      <3>1. SetCtx(p, c) /\ UNCHANGED <<disk, overrun, areas, keep>> /\ failed' = failed \ {p}
        BY <2>1, Zenon DEF Load, SetCtx
      <3>2. c.st = "idle"
        OBVIOUS
      <3> HIDE DEF c
      <3>3. QED BY <3>1, <3>2
    <2>2. CASE Start(p)
      <3>1. PICK plan : Begin(p, plan) /\ Planned(ctx[p].doc, plan, TRUE)
        BY <2>2, Zenon DEF Start, Started
      <3> DEFINE c == [st |-> "busy", doc |-> ctx[p].doc, seq |-> ctx[p].seq, plan |-> plan]
      <3>2. SetCtx(p, c) /\ UNCHANGED <<disk, overrun, areas, keep, failed>>
        BY <3>1, BeginCtx
      <3>3. c.st = "busy" /\ c.seq = ctx[p].seq /\ c.plan = plan /\ ctx[p].st = "idle"
        BY <2>2 DEF Start
      <3> HIDE DEF c
      <3>4. QED BY <3>1, <3>2, <3>3
    <2>3. CASE Rejected(p)
      BY <2>3 DEF Rejected, RejectedCtx
    <2>4. QED BY <2>1, <2>2, <2>3
  <1>2. DOMAIN ctx' = Procs /\ ctx'[p] = c /\ \A q \in Procs \ {p} : ctx'[q] = ctx[q]
    BY <1>1, CtxSet
  <1>3. ~overrun
    BY <1>1
  <1>4. /\ Promises(disk.doc, areas', keep')
        /\ \A q \in Procs \ {p} : Matched(q) => KeepsPlan(disk.doc, areas', keep', ctx[q].plan)
    BY <1>1, <1>3 DEF PromiseInv
  <1>5. ASSUME Matched(p)' PROVE KeepsPlan(disk.doc, areas', keep', ctx'[p].plan) /\ ~Swapping(p)'
    <2>1. /\ c.st = "busy" /\ failed' = failed /\ ctx[p].st = "idle" /\ c.seq = ctx[p].seq /\ Planned(ctx[p].doc, c.plan, TRUE)
          /\ p \notin failed' /\ c.seq = disk.seq
      BY <1>1, <1>2, <1>5 DEF Matched, Busy
    <2>2. ctx[p].doc = disk.doc
      BY <2>1 DEF SyncInv, Live
    <2>3. PlanOK(disk.doc, c.plan) /\ PlanSees(disk.doc, c.plan)
      BY <2>1, <2>2, Zenon DEF Planned
    <2>4. Head(c.plan) = c.plan[1]
      BY <2>3, PlanHead
    <2>5. KeepsPlan(disk.doc, areas, keep, c.plan)
      BY <2>3 DEF PlanSees, KeepsPlan
    <2>6. QED BY <1>1, <1>2, <2>3, <2>4, <2>5 DEF PlanSees, Swapping
  <1>6. QED BY <1>1, <1>2, <1>3, <1>4, <1>5, PromiseSame

\* At the start every passphrase opens its keyslot.
LEMMA InitOpens ==
  ASSUME Init, NEW i \in DOMAIN InitPass
  PROVE  i - 1 \in DOMAIN disk.doc.keyslots /\ Opens(disk.doc, areas, i - 1, <<InitPass[i], VK>>)
  <1>2. PICK reqs \in {{}, {"online-reencrypt-v9"}} : disk = [doc |-> [InitDoc EXCEPT !.requirements = reqs], seq |-> 1]
    BY Zenon DEF Init
  <1> DEFINE doc == [InitDoc EXCEPT !.requirements = reqs]
  <1>3. disk.doc = doc
    BY <1>2
  <1> HIDE DEF doc
  <1>4. /\ DOMAIN doc.keyslots = 0..(Len(InitPass) - 1)
        /\ \A s \in 0..(Len(InitPass) - 1) : doc.keyslots[s].off = MinOffset + s /\ doc.keyslots[s].len = 1 /\ doc.keyslots[s].salt = s + 1
        /\ \A s \in 0..(Len(InitPass) - 1) : KeyOf(doc, s) = VK
    BY InitDocFact DEF doc
  <1>5. \A s \in 0..(Len(InitPass) - 1) :
          areas[MinOffset + s] = [salt |-> s + 1, pass |-> InitPass[s + 1], key |-> VK, part |-> 0, of |-> 1]
    BY InitAreas
  <1>6. InitPass \in Seq(Pass) /\ MinOffset \in Nat
    BY KeyslotsAssumption, LimitsAssumption
  <1> DEFINE s == i - 1
             k == doc.keyslots[s]
             a == areas[MinOffset + s]
  <1>7. s \in 0..(Len(InitPass) - 1) /\ s \in Nat /\ s + 1 = i
    BY <1>6
  <1>8. k.off = MinOffset + s /\ k.len = 1 /\ k.salt = i /\ KeyOf(doc, s) = VK /\ s \in DOMAIN doc.keyslots
    BY <1>4, <1>7
  <1>9. a.salt = i /\ a.pass = InitPass[i] /\ a.key = VK /\ a.part = 0 /\ a.of = 1
    <2> HIDE DEF s
    <2>1. a = [salt |-> s + 1, pass |-> InitPass[s + 1], key |-> VK, part |-> 0, of |-> 1]
      BY <1>5, <1>7
    <2> HIDE DEF a
    <2>2. QED BY <1>7, <2>1
  <1> HIDE DEF s, k
  <1>10. Mat(areas, k, InitPass[i], VK)
    <2>1. \A u \in k.off..(k.off + k.len - 1) : u = MinOffset + s /\ u - k.off = 0
      BY <1>6, <1>7, <1>8
    <2>2. QED BY <1>8, <1>9, <2>1 DEF Mat
  <1>11. Opens(doc, areas, s, <<InitPass[i], VK>>)
    BY <1>8, <1>10 DEF Opens, k
  <1>12. QED BY <1>3, <1>8, <1>11 DEF s

\* PromiseInv holds at the start.
LEMMA PromiseInit == Init => PromiseInv
  <1> SUFFICES ASSUME Init PROVE PromiseInv
    OBVIOUS
  <1>1. \A p \in Procs : ~Matched(p)
    BY DEF Init, Unloaded, Matched, Busy
  <1>2. \A i \in DOMAIN InitPass : OpensSome(disk.doc, areas, <<InitPass[i], VK>>)
    BY InitOpens DEF OpensSome
  <1>3. Promises(disk.doc, areas, keep)
    <2>1. keep = {{<<InitPass[i], VK>>} : i \in DOMAIN InitPass}
      BY DEF Init
    <2>2. ASSUME NEW S \in keep PROVE S # {} /\ \A pr \in S : OpensSome(disk.doc, areas, pr)
      <3>1. PICK i \in DOMAIN InitPass : S = {<<InitPass[i], VK>>}
        BY <2>1, <2>2
      <3>2. OpensSome(disk.doc, areas, <<InitPass[i], VK>>)
        BY <1>2
      <3>3. QED BY <3>1, <3>2, Zenon
    <2>3. QED BY <2>2 DEF Promises
  <1>4. QED BY <1>1, <1>3 DEF PromiseInv

\* PromiseInv is inductive, given the invariants before it.
LEMMA PromiseNext == DocInv /\ SaltInv /\ SyncInv /\ PromiseInv /\ [Next]_vars => PromiseInv'
  <1> SUFFICES ASSUME DocInv, SaltInv, SyncInv, PromiseInv, [Next]_vars PROVE PromiseInv'
    OBVIOUS
  <1>1. CASE Next
    BY <1>1, NextCases, PromiseIdle, PromiseDone, PromiseBroken
  <1>2. CASE UNCHANGED vars
    <2>1. disk' = disk /\ ctx' = ctx /\ failed' = failed /\ overrun' = overrun /\ keep' = keep /\ areas' = areas
      BY <1>2 DEF vars
    <2>2. QED BY <2>1 DEF PromiseInv, Matched, Busy, Swapping
  <1>3. QED BY <1>1, <1>2

\* A promised pair that opens works.
LEMMA OpensWorks ==
  ASSUME DocInv, NEW pr \in Pairs, OpensSome(disk.doc, areas, pr)
  PROVE  Works(pr)
  <1>1. PICK s \in DOMAIN disk.doc.keyslots : Opens(disk.doc, areas, s, pr)
    BY DEF OpensSome
  <1>2. WF(disk.doc)
    BY DEF DocInv
  <1>3. Yields(disk.doc, areas, s, pr[1])
    BY <1>1, <1>2, YieldsOpens
  <1>4. s \in LUKS2_keyslot_open(disk.doc, areas, s, ANY_SEGMENT, pr[1])
    BY <1>2, <1>3, OpenIff
  <1>5. KeyOf(disk.doc, s) = pr[2]
    BY <1>1 DEF Opens
  <1>6. QED BY <1>4, <1>5 DEF Works

\* PromiseInv gives PromisesKept: what opens on disk is what Works finds.
LEMMA PromisesFollow == DocInv /\ PromiseInv => PromisesKept
  <1> SUFFICES ASSUME DocInv, PromiseInv, ~overrun PROVE \A S \in keep : \E pair \in S : Works(pair)
    BY DEF PromisesKept
  <1>1. keep \subseteq SUBSET Pairs /\ Promises(disk.doc, areas, keep)
    BY DEF DocInv, PromiseInv
  <1>2. \A S \in keep : \E pair \in S : pair \in Pairs /\ OpensSome(disk.doc, areas, pair)
    BY <1>1 DEF Promises
  <1>3. QED BY <1>2, OpensWorks

\* Documents stay well formed, salts name one area, a context at the number on
\* disk has the document on disk (hdr_write checks the sequence id under the
\* lock), and until overrun every promise opens and every plan that would pass
\* that check leaves it so.
THEOREM PromiseInvariant == Spec => [](DocInv /\ SaltInv /\ SyncInv /\ PromiseInv)
  <1>1. Init => DocInv /\ SaltInv /\ SyncInv /\ PromiseInv
    BY DocInit, SaltInit, SyncInit, PromiseInit
  <1>2. DocInv /\ SaltInv /\ SyncInv /\ PromiseInv /\ [Next]_vars => (DocInv /\ SaltInv /\ SyncInv /\ PromiseInv)'
    BY DocNext, SaltNext, SyncNext, PromiseNext
  <1>3. QED BY <1>1, <1>2, PTL DEF Spec

\* Every passphrase a finished luksAddKey or luksChangeKey has reported works,
\* and while a change is under way the old or the new one does, whatever the
\* other contexts do, wherever one is killed or fails, until a context that
\* went on after a failed header write passes the check of the sequence id.
THEOREM PromisesAlwaysKept == Spec => []PromisesKept
  BY PromiseInvariant, PromisesFollow, PTL

\* What the swap of a changed passphrase leaves.
InPlace(p) ==
  (ctx[p].st = "busy" /\ Step(p).do = "wipe" /\ Step(p).swap # ANY_SLOT /\ KeyslotWipe(p) /\ ~overrun') =>
    /\ Step(p).slot \notin DOMAIN disk'.doc.keyslots
    /\ \A pair \in Step(p).into :
         {pair} \in keep' => Step(p).swap \in LUKS2_keyslot_open(disk'.doc, areas', Step(p).swap, ANY_SEGMENT, pair[1])
    /\ \A t \in DOMAIN disk.doc.tokens :
         LUKS2_token_is_assigned(disk'.doc, Step(p).swap, t) = LUKS2_token_is_assigned(disk.doc, Step(p).swap, t)

\* A completed swap leaves the new passphrase in the slot of the old one.
LEMMA SwapInPlace ==
  ASSUME DocInv, SaltInv, SyncInv, PromiseInv, NEW p \in Procs
  PROVE  InPlace(p)
  <1> SUFFICES ASSUME ctx[p].st = "busy", Step(p).do = "wipe", Step(p).swap # ANY_SLOT, KeyslotWipe(p), ~overrun'
               PROVE  /\ Step(p).slot \notin DOMAIN disk'.doc.keyslots
                      /\ \A pair \in Step(p).into :
                           {pair} \in keep' => Step(p).swap \in LUKS2_keyslot_open(disk'.doc, areas', Step(p).swap, ANY_SEGMENT, pair[1])
                      /\ \A t \in DOMAIN disk.doc.tokens :
                           LUKS2_token_is_assigned(disk'.doc, Step(p).swap, t) = LUKS2_token_is_assigned(disk.doc, Step(p).swap, t)
    BY DEF InPlace
  <1>1. Done(p)
    BY DoneFact
  <1>2. PassedOK(p)
    BY <1>1, PassedFact DEF Done
  <1> DEFINE doc == disk.doc
             st == Step(p)
             b == disk'.doc
             br == areas'
  <1>3. AreaWipe(p) /\ keep' = Promised(st)
    BY <1>1 DEF Done, AreaStore, AreaNone, Complete
  <1>4. /\ WF(doc) /\ HeadKind(doc, st) /\ WipeAsks(doc, st) /\ st.do = "wipe" /\ salts \in Nat
        /\ Erased(areas, br, doc.keyslots[Target(st)]) /\ NewDoc(p) = After(doc, st) /\ WF(NewDoc(p))
        /\ st.swap # ANY_SLOT
    BY <1>2, <1>3 DEF PassedOK, BusyOK, AreaWipe, StepAsks
  <1>5. WipeKeeps(doc, areas, st)
    BY <1>2, <1>3, AreaKept
  <1>6. RemoveStep(doc, st) /\ WritesHeader(st)
    <2>1. ~OnlyStep(doc, st)
      BY <1>4 DEF OnlyStep
    <2>2. QED BY <1>4, <2>1, HeadDo
  <1>7. b = After(doc, st) /\ WF(b)
    BY <1>1, <1>4, <1>6 DEF Done, DoneCtx
  <1> HIDE DEF doc, st, b, br
  <1>8. WipedSwap(doc, b, st)
    BY <1>4, <1>6, <1>7, AfterIs
  <1>9. RemoveMoves(doc, areas, br, st)
    BY <1>4, <1>6, RemoveMovesFact DEF WipeAsks
  <1>10. st.slot \notin DOMAIN b.keyslots
    BY <1>8 DEF WipedSwap
  <1>11. ASSUME NEW pair \in st.into, {pair} \in Promised(st)
         PROVE  st.swap \in LUKS2_keyslot_open(b, br, st.swap, ANY_SEGMENT, pair[1])
    <2>1. st.gain = {} /\ st.do # "store"
      BY <1>4 DEF WipeAsks
    <2>2. PICK S \in keep : \A pr \in {pair} :
            \/ pr \in S /\ pr \notin st.drop
            \/ S \cap st.drop # {} /\ pr \in st.into /\ (st.do = "store" \/ pr \in S)
      BY <1>11, <2>1, PromisedIn
    <2>3. pair \in UNION keep
      BY <2>1, <2>2
    <2>4. Opens(doc, areas, st.slot, pair) /\ pair \in Pairs
      BY <1>4, <1>5, <1>11, <2>3 DEF WipeKeeps, HeadKind, GhostsOK
    <2>5. st.swap \in DOMAIN b.keyslots /\ Opens(b, br, st.swap, pair)
      BY <1>4, <1>7, <1>9, <2>4 DEF RemoveMoves
    <2>6. Yields(b, br, st.swap, pair[1])
      BY <1>7, <2>4, <2>5, YieldsOpens
    <2>7. QED BY <1>7, <2>5, <2>6, OpenIff
  <1>12. ASSUME NEW t \in DOMAIN doc.tokens
         PROVE  LUKS2_token_is_assigned(b, st.swap, t) = LUKS2_token_is_assigned(doc, st.swap, t)
    <2>1. st.swap \in Slots \ {st.slot}
      BY <1>4, <1>6, SlotIn DEF RemoveStep, WipeOK
    <2>2. DOMAIN b.tokens = DOMAIN doc.tokens /\ (st.swap \in b.tokens[t].keyslots <=> st.swap \in doc.tokens[t].keyslots)
      BY <1>8, <2>1 DEF WipedSwap
    <2>3. QED BY <2>2 DEF LUKS2_token_is_assigned
  <1>13. QED BY <1>3, <1>10, <1>11, <1>12 DEF doc, st, b, br

\* A passphrase changed through a second keyslot ends in its old place: the swap
\* and the removal, in one header write, leave the new passphrase under the old
\* number with the old one's tokens, and the second keyslot is gone.
THEOREM ChangesKeepPlace == Spec => ChangeKeepsPlace
  <1>1. DocInv /\ SaltInv /\ SyncInv /\ PromiseInv => \A p \in Procs : InPlace(p)
    BY SwapInPlace
  <1>2. DocInv /\ SaltInv /\ SyncInv /\ PromiseInv /\ [Next]_vars => [\A p \in Procs : InPlace(p)]_vars
    BY <1>1
  <1>3. Spec => [][\A p \in Procs : InPlace(p)]_vars
    BY <1>2, PromiseInvariant, PTL DEF Spec
  <1>4. QED BY <1>3 DEF ChangeKeepsPlace, InPlace

------------------------------------------------------------------------------
\* The last keyslot.

\* LastInv in parts.
AllOpen(doc, ar) == \A s \in DOMAIN doc.keyslots : \E pr \in Pairs : Opens(doc, ar, s, pr)
SomeBound(doc) == \E s \in Slots : Bound(doc, s)
PlanSpares(doc, plan) == \A i \in DOMAIN plan :
  /\ plan[i].do = "wipe" => ~plan[i].only
  /\ plan[i].do = "wipe" /\ plan[i].swap = ANY_SLOT => Len(plan) = 1 /\ \E s \in Slots \ {plan[i].slot} : Bound(doc, s)
  /\ i = 1 /\ plan[i].do = "store" => plan[i].slot \notin DOMAIN doc.keyslots

\* LastInv in parts.
LEMMA LastParts ==
  LastInv <=> (~forced /\ faults = 0 =>
                 AllOpen(disk.doc, areas) /\ SomeBound(disk.doc)
                 /\ \A p \in Procs : Matched(p) => PlanSpares(disk.doc, ctx[p].plan))
  BY Zenon DEF LastInv, AllOpen, SomeBound, PlanSpares

\* LastInv holds at the start.
LEMMA LastInit == Init => LastInv
  <1> SUFFICES ASSUME Init PROVE LastInv
    OBVIOUS
  <1>1. \A p \in Procs : ~Matched(p)
    BY DEF Init, Unloaded, Matched, Busy
  <1>2. PICK reqs \in {{}, {"online-reencrypt-v9"}} : disk = [doc |-> [InitDoc EXCEPT !.requirements = reqs], seq |-> 1]
    BY Zenon DEF Init
  <1> DEFINE doc == [InitDoc EXCEPT !.requirements = reqs]
  <1>3. disk.doc = doc
    BY <1>2
  <1> HIDE DEF doc
  <1>4. /\ DOMAIN doc.keyslots = 0..(Len(InitPass) - 1)
        /\ \A s \in 0..(Len(InitPass) - 1) : Bound(doc, s)
        /\ WF(doc)
    BY InitDocFact DEF doc
  <1>5. ASSUME NEW s \in DOMAIN doc.keyslots PROVE \E pr \in Pairs : Opens(doc, areas, s, pr)
    <2>1. s + 1 \in DOMAIN InitPass /\ InitPass[s + 1] \in Pass /\ VK \in VolumeKeys /\ s \in Int
      BY <1>4, KeyslotsAssumption
    <2> DEFINE pr == <<InitPass[s + 1], VK>>
    <2>2. pr \in Pairs
      BY <2>1 DEF Pairs
    <2>3. Opens(doc, areas, s, pr)
      <3> DEFINE i == s + 1
      <3>0. pr = <<InitPass[i], VK>>
        OBVIOUS
      <3> HIDE DEF pr
      <3>1. i \in DOMAIN InitPass /\ i - 1 = s
        BY <2>1
      <3> HIDE DEF i
      <3>2. Opens(disk.doc, areas, i - 1, <<InitPass[i], VK>>)
        BY <3>1, InitOpens
      <3>3. QED BY <1>3, <3>0, <3>1, <3>2
    <2>4. QED BY <2>2, <2>3
  <1>6. 0 \in 0..(Len(InitPass) - 1)
    BY KeyslotsAssumption
  <1>7. SomeBound(doc)
    BY <1>4, <1>6, SlotIn DEF SomeBound
  <1>8. QED BY <1>1, <1>3, <1>5, <1>7, LastParts DEF AllOpen

\* The second keyslot of a changed passphrase is in the digest of the first.
SwapDigest(doc, st) == st.do = "wipe" /\ st.swap # ANY_SLOT /\ Bound(doc, st.slot) => Bound(doc, st.swap)

\* Both slots of a swap belong to one digest.
LEMMA SwapBound ==
  ASSUME NEW doc, WF(doc), NEW plan, PlanOK(doc, plan)
  PROVE  SwapDigest(doc, Head(plan))
  <1>1. CASE PlanChange2(doc, plan)
    <2>1. PICK f \in DOMAIN doc.keyslots, r \in DOMAIN doc.keyslots, old \in Pass, new \in Pass, key \in VolumeKeys, d \in DOMAIN doc.digests :
            /\ f # r /\ Holding(doc, f, key, d) /\ Holding(doc, r, key, d)
            /\ plan = <<WipeStep(f, FALSE, r, {<<old, key>>}, {<<new, key>>}, {SaltOf(doc, r)})>>
      BY <1>1, Zenon DEF PlanChange2
    <2>2. Head(plan) = WipeStep(f, FALSE, r, {<<old, key>>}, {<<new, key>>}, {SaltOf(doc, r)})
      BY <2>1, OneStep, Zenon
    <2>3. Head(plan).slot = f /\ Head(plan).swap = r
      BY <2>2 DEF WipeStep
    <2>4. d \in DigestIds /\ OneDigest(doc)
      BY DEF WF, IsDoc, IsMap
    <2>5. Bound(doc, f) => Bound(doc, r)
      BY <2>1, <2>4 DEF Bound, Holding, OneDigest
    <2>6. QED BY <2>3, <2>5 DEF SwapDigest
  <1>2. CASE PlanDestroy(doc, plan)
    <2>1. Head(plan) \in DestroySteps
      BY <1>2 DEF PlanDestroy
    <2>2. QED BY <2>1 DEF DestroySteps, SwapDigest
  <1>3. CASE PlanHeader(doc, plan)
    <2>1. HeaderStep(doc, Head(plan))
      BY <1>3, HeaderSteps, OneStep, TwoSteps DEF PlanHeader
    <2>2. QED BY <2>1 DEF HeaderStep, SwapDigest
  <1>4. CASE PlanAdd(doc, plan)
    <2>1. PICK s \in Slots, pass \in Pass, key \in VolumeKeys, d \in DigestIds, tok \in TokenIds \cup {ANY_TOKEN} :
            plan = <<StoreStep(s, pass, key, d, tok, ANY_SLOT, {}, {}, {{<<pass, key>>}})>>
      BY <1>4, Zenon DEF PlanAdd
    <2>2. Head(plan) = StoreStep(s, pass, key, d, tok, ANY_SLOT, {}, {}, {{<<pass, key>>}})
      BY <2>1, OneStep, Zenon
    <2>3. QED BY <2>2 DEF StoreStep, SwapDigest
  <1>5. CASE PlanChange1(doc, plan)
    <2>1. Head(plan).do = "store"
      BY <1>5, ChangeHead
    <2>2. QED BY <2>1 DEF SwapDigest
  <1>6. CASE PlanInPlace1(doc, plan)
    <2>1. PICK r \in DOMAIN doc.keyslots, old \in Pass, new \in Pass, key \in VolumeKeys, d \in DOMAIN doc.digests :
            plan = <<WipeStep(r, TRUE, ANY_SLOT, {<<old, key>>}, {}, {}),
                     StoreStep(r, new, key, d, ANY_TOKEN, ANY_SLOT, {}, {}, {{<<new, key>>}})>>
      BY <1>6, Zenon DEF PlanInPlace1
    <2>2. Head(plan) = WipeStep(r, TRUE, ANY_SLOT, {<<old, key>>}, {}, {})
      BY <2>1, TwoSteps, Zenon
    <2>3. QED BY <2>2 DEF WipeStep, SwapDigest
  <1>7. CASE PlanInPlace2(doc, plan)
    <2>1. PICK r \in DOMAIN doc.keyslots, new \in Pass, key \in VolumeKeys, d \in DOMAIN doc.digests :
            plan = <<StoreStep(r, new, key, d, ANY_TOKEN, ANY_SLOT, {}, {}, {{<<new, key>>}})>>
      BY <1>7, Zenon DEF PlanInPlace2
    <2>2. Head(plan) = StoreStep(r, new, key, d, ANY_TOKEN, ANY_SLOT, {}, {}, {{<<new, key>>}})
      BY <2>1, OneStep, Zenon
    <2>3. QED BY <2>2 DEF StoreStep, SwapDigest
  <1>8. QED BY <1>1, <1>2, <1>3, <1>4, <1>5, <1>6, <1>7 DEF PlanOK

\* A token, priority or key step leaves a keyslot for the data.
LEMMA HeaderBound ==
  ASSUME NEW doc, WF(doc), NEW st, HeaderStep(doc, st), SomeBound(doc)
  PROVE  SomeBound(After(doc, st))
  <1>1. CASE SetKeyOK(doc, st)
    <2>1. PICK d \in DOMAIN doc.digests : doc.digests[d].keyslots # {} /\ st = SetKeyStep(d)
      BY <1>1 DEF SetKeyOK
    <2>2. st.do = "setkey" /\ st.digest = d
      BY <2>1 DEF SetKeyStep
    <2>3. After(doc, st) = LUKS2_digests_erase_unused(SetKeyDoc(doc, d))
      BY <2>2, MemoryChangeIs DEF After
    <2>4. QED BY <2>1, <2>3, SetKeyFact DEF SomeBound
  <1>2. CASE TokenStepOK(doc, st)
    <2>1. KeepsBound(doc, After(doc, st), DOMAIN doc.keyslots)
      BY <1>2, TokenStepFact
    <2>2. QED BY <2>1 DEF SomeBound, KeepsBound, Bound
  <1>3. QED BY <1>1, <1>2 DEF HeaderStep

\* What a step of a context that passes the check leaves.
LEMMA SparesHead ==
  ASSUME NEW doc, NEW plan, PlanOK(doc, plan), PlanSpares(doc, plan), NEW st, st = Head(plan)
  PROVE  /\ st.do = "wipe" => ~st.only
         /\ st.do = "wipe" /\ st.swap = ANY_SLOT => Len(plan) = 1 /\ \E s \in Slots \ {st.slot} : Bound(doc, s)
         /\ st.do = "store" => st.slot \notin DOMAIN doc.keyslots
  BY PlanHead DEF PlanSpares

HeaderSpares(p, b, br) ==
  /\ AllOpen(b, br) /\ SomeBound(b)
  /\ Tail(ctx[p].plan) # << >> => PlanSpares(b, Tail(ctx[p].plan))

\* What is left of a plan spares the last keyslot too.
LEMMA TailSpares ==
  ASSUME NEW doc, WF(doc), NEW plan, PlanOK(doc, plan), Tail(plan) # << >>, PlanSpares(doc, plan), NEW b
  PROVE  PlanSpares(b, Tail(plan))
  <1>0. WritesHeader(Head(plan)) /\ (Head(plan).do = "wipe" /\ Head(plan).swap = ANY_SLOT => Len(plan) = 1)
    BY SparesHead DEF WritesHeader
  <1>1. CASE PlanChange1(doc, plan)
    <2>1. PICK f \in Slots, r \in DOMAIN doc.keyslots, old \in Pass, new \in Pass, key \in VolumeKeys, d \in DOMAIN doc.digests :
            /\ NewSlot(doc, f, key, d) /\ Holding(doc, r, key, d)
            /\ plan = <<StoreStep(f, new, key, d, ANY_TOKEN, r, {<<old, key>>}, {<<old, key>>, <<new, key>>}, {}),
                        WipeStep(f, FALSE, r, {<<old, key>>}, {<<new, key>>}, {SaltOf(doc, r)})>>
      BY <1>1 DEF PlanChange1
    <2> DEFINE st == StoreStep(f, new, key, d, ANY_TOKEN, r, {<<old, key>>}, {<<old, key>>, <<new, key>>}, {})
               wp == WipeStep(f, FALSE, r, {<<old, key>>}, {<<new, key>>}, {SaltOf(doc, r)})
    <2>2. r # ANY_SLOT
      BY SlotIn
    <2>3. ~wp.only /\ wp.swap # ANY_SLOT /\ wp.do = "wipe" /\ plan = <<st, wp>>
      BY <2>1, <2>2 DEF WipeStep
    <2> HIDE DEF st, wp
    <2>4. Tail(plan) = <<wp>> /\ <<wp>>[1] = wp /\ DOMAIN <<wp>> = {1}
      BY <2>3, OneStep, TwoSteps
    <2>5. PlanSpares(b, <<wp>>)
      BY <2>3, <2>4 DEF PlanSpares
    <2>6. QED BY <2>4, <2>5
  <1>2. CASE PlanDestroy(doc, plan)
    <2>1. plan \in Seq(DestroySteps) /\ plan # << >>
      BY <1>2 DEF PlanDestroy
    <2>2. Head(plan) \in DestroySteps
      BY <2>1
    <2>3. Len(plan) = 1
      BY <1>0, <2>2 DEF DestroySteps
    <2>4. Tail(plan) = << >>
      <3> DEFINE rest == Tail(plan)
      <3>1. rest \in Seq(DestroySteps) /\ Len(rest) = 0
        BY <2>1, <2>3
      <3> HIDE DEF rest
      <3>2. rest = << >>
        BY <3>1
      <3>3. QED BY <3>2 DEF rest
    <2>5. QED BY <2>4
  <1>3. CASE PlanHeader(doc, plan)
    <2>1. plan = <<plan[1], plan[2]>> /\ TokenStepOK(doc, plan[2])
      BY <1>3, OneStep DEF PlanHeader
    <2>2. HeaderStep(doc, plan[2])
      BY <2>1, HeaderSteps
    <2>3. Tail(plan) = <<plan[2]>>
      <3>1. PICK a, c : plan = <<a, c>>
        BY <2>1
      <3>2. Tail(<<a, c>>) = <<c>> /\ <<a, c>>[2] = c
        BY TwoSteps
      <3>3. QED BY <3>1, <3>2
    <2> DEFINE st == plan[2]
    <2>4. st.do # "store" /\ st.do # "wipe" /\ Tail(plan) = <<st>>
      BY <2>2, <2>3 DEF HeaderStep
    <2> HIDE DEF st
    <2>5. <<st>>[1] = st /\ DOMAIN <<st>> = {1}
      BY OneStep
    <2>6. PlanSpares(b, <<st>>)
      BY <2>4, <2>5 DEF PlanSpares
    <2>7. QED BY <2>4, <2>6
  <1>4. QED BY <1>0, <1>1, <1>2, <1>3, PlanShape

\* A step that passes the check leaves a keyslot that opens the data.
LEMMA HeaderSpared ==
  ASSUME NEW p \in Procs, PassedOK(p), AreaStore(p) \/ AreaWipe(p) \/ AreaNone(p),
         AllOpen(disk.doc, areas), SomeBound(disk.doc), PlanSpares(disk.doc, ctx[p].plan)
  PROVE  HeaderSpares(p, NewDoc(p), areas') /\ WritesHeader(Step(p))
  <1> DEFINE doc == disk.doc
             st == Step(p)
             plan == ctx[p].plan
             b == NewDoc(p)
             br == areas'
  <1>0. /\ st = Head(plan) /\ b = After(doc, st) /\ PlanOK(doc, plan) /\ WF(doc) /\ HeadKind(doc, st) /\ StepAsks(doc, st)
        /\ salts \in Nat /\ \A s \in DOMAIN doc.keyslots : doc.keyslots[s].salt <= salts
        /\ AllOpen(doc, areas) /\ SomeBound(doc) /\ PlanSpares(doc, plan)
    BY DEF PassedOK, BusyOK, Step
  <1>1. /\ AreaStore(p) => st.do = "store" /\ Filled(areas, br, b.keyslots[st.slot], st.pass, st.key)
        /\ AreaWipe(p) => st.do = "wipe" /\ Erased(areas, br, doc.keyslots[Target(st)])
        /\ AreaNone(p) => st.do \notin {"store", "wipe"} /\ br = areas
    BY DEF AreaStore, AreaWipe, AreaNone, PassedOK
  <1> HIDE DEF st, plan, b, br, doc
  <1>2. Tail(plan) # << >> => PlanSpares(b, Tail(plan))
    BY <1>0, TailSpares
  <1>3. WritesHeader(st)
    BY <1>0, SparesHead DEF WritesHeader
  <1>4. AllOpen(b, br) /\ SomeBound(b)
    <2>1. CASE AreaStore(p)
      <3>1. st.do = "store" /\ Filled(areas, br, b.keyslots[st.slot], st.pass, st.key)
        BY <1>1, <2>1
      <3>2. StoreMoves(doc, areas, br, st)
        BY <1>0, <3>1, StoreMovesFact
      <3>3. st.slot \notin DOMAIN doc.keyslots /\ st.pass \in Pass /\ st.key \in VolumeKeys
        BY <1>0, <3>1, SparesHead, HeadDo
      <3>4. StoredNew(doc, b, st)
        <4>1. StoreNewStep(doc, st) \/ StoreOverStep(doc, st)
          BY <1>0, <3>1, HeadDo
        <4>2. ~StoreOverStep(doc, st)
          BY <3>3 DEF StoreOverStep, Holding
        <4>3. QED BY <1>0, <4>1, <4>2, AfterIs
      <3>5. <<st.pass, st.key>> \in Pairs /\ Opens(b, br, st.slot, <<st.pass, st.key>>)
        BY <1>0, <3>1, <3>2, <3>3 DEF StoreMoves, Pairs
      <3>6. AllOpen(b, br)
        <4> SUFFICES ASSUME NEW s \in DOMAIN b.keyslots PROVE \E pr \in Pairs : Opens(b, br, s, pr)
          BY DEF AllOpen
        <4>1. CASE s = st.slot
          BY <3>5, <4>1
        <4>2. CASE s # st.slot
          <5>1. s \in DOMAIN doc.keyslots \ {st.slot}
            BY <3>4, <4>2 DEF StoredNew
          <5>2. PICK pr \in Pairs : Opens(doc, areas, s, pr)
            BY <1>0, <5>1 DEF AllOpen
          <5>3. Opens(b, br, s, pr)
            BY <1>0, <3>2, <5>1, <5>2 DEF StoreMoves, Moved
          <5>4. QED BY <5>3
        <4>3. QED BY <4>1, <4>2
      <3>7. SomeBound(b)
        BY <1>0, <3>4 DEF SomeBound, StoredNew, KeepsBound, Bound
      <3>8. QED BY <3>6, <3>7
    <2>2. CASE AreaWipe(p)
      <3>1. st.do = "wipe" /\ Erased(areas, br, doc.keyslots[Target(st)])
        BY <1>1, <2>2
      <3>2. RemoveStep(doc, st)
        BY <1>0, <1>3, <3>1, HeadDo
      <3>3. RemoveMoves(doc, areas, br, st)
        BY <1>0, <3>1, <3>2, RemoveMovesFact DEF StepAsks, WipeAsks
      <3>4. /\ DOMAIN b.keyslots = DOMAIN doc.keyslots \ {st.slot} /\ KeepsBound(doc, b, DOMAIN b.keyslots)
        BY <1>0, <3>2, AfterIs DEF Wiped, WipedSwap
      <3>5. AllOpen(b, br)
        <4> SUFFICES ASSUME NEW s \in DOMAIN b.keyslots PROVE \E pr \in Pairs : Opens(b, br, s, pr)
          BY DEF AllOpen
        <4>0. s \in DOMAIN doc.keyslots /\ s # st.slot /\ st.slot \in DOMAIN doc.keyslots
          BY <3>2, <3>4 DEF RemoveStep, WipeOK
        <4>1. CASE s = Target(st)
          <5>1. st.swap # ANY_SLOT /\ s = st.swap
            BY <4>0, <4>1 DEF Target
          <5>2. PICK pr \in Pairs : Opens(doc, areas, st.slot, pr)
            BY <1>0, <4>0 DEF AllOpen
          <5>3. Opens(b, br, st.swap, pr)
            BY <1>0, <3>3, <5>1, <5>2 DEF RemoveMoves
          <5>4. QED BY <5>1, <5>3
        <4>2. CASE s # Target(st)
          <5>1. PICK pr \in Pairs : Opens(doc, areas, s, pr)
            BY <1>0, <4>0 DEF AllOpen
          <5>2. Opens(b, br, s, pr)
            BY <1>0, <3>3, <4>0, <4>2, <5>1 DEF RemoveMoves, Moved
          <5>3. QED BY <5>2
        <4>3. QED BY <4>1, <4>2
      <3>6. \E s \in Slots \ {st.slot} : Bound(doc, s)
        <4>1. CASE st.swap = ANY_SLOT
          BY <1>0, <3>1, <4>1, SparesHead
        <4>2. CASE st.swap # ANY_SLOT
          <5>1. PICK s \in Slots : Bound(doc, s)
            BY <1>0 DEF SomeBound
          <5>2. st.swap \in Slots \ {st.slot}
            BY <1>0, <3>2, <4>2, SlotIn DEF RemoveStep, WipeOK
          <5>3. Bound(doc, st.slot) => Bound(doc, st.swap)
            BY <1>0, <3>1, <4>2, SwapBound DEF SwapDigest
          <5>4. QED BY <5>1, <5>2, <5>3
        <4>3. QED BY <4>1, <4>2
      <3>7. SomeBound(b)
        BY <3>4, <3>6 DEF SomeBound, KeepsBound, Bound
      <3>8. QED BY <3>5, <3>7
    <2>3. CASE AreaNone(p)
      <3>1. st.do \notin {"store", "wipe"} /\ br = areas
        BY <1>1, <2>3
      <3>2. HeaderStep(doc, st)
        BY <1>0, <3>1, HeadDo
      <3>3. DOMAIN b.keyslots = DOMAIN doc.keyslots /\ Moved(doc, areas, b, br, DOMAIN doc.keyslots)
        BY <1>0, <3>1, <3>2, HeaderMoves
      <3>4. AllOpen(b, br)
        BY <1>0, <3>3 DEF AllOpen, Moved
      <3>5. SomeBound(b)
        BY <1>0, <3>2, HeaderBound
      <3>6. QED BY <3>4, <3>5
    <2>4. QED BY <2>1, <2>2, <2>3
  <1>5. QED BY <1>2, <1>3, <1>4 DEF HeaderSpares, st, plan, b, br

\* LastInv is kept by a completed step.
LEMMA LastDone ==
  ASSUME DocInv, SaltInv, SyncInv, PromiseInv, LastInv, NEW p \in Procs, Done(p)
  PROVE  LastInv'
  <1>0. forced' = forced /\ faults' = faults /\ failed' = failed /\ Passed(p) /\ forced \in BOOLEAN
        /\ (AreaStore(p) \/ AreaWipe(p) \/ AreaNone(p))
    BY DEF Done, DocInv
  <1> SUFFICES ASSUME ~forced, faults = 0
               PROVE  /\ AllOpen(disk'.doc, areas') /\ SomeBound(disk'.doc)
                      /\ \A q \in Procs : Matched(q)' => PlanSpares(disk'.doc, ctx'[q].plan)
    BY <1>0, LastParts, Zenon DEF LastInv, AllOpen, SomeBound, PlanSpares
  <1>1. failed = {} /\ ~overrun
    BY DEF SyncInv
  <1>2. ~overrun'
    BY <1>0, <1>1, Zenon DEF Passed
  <1>3. PassedOK(p)
    BY <1>0, <1>2, PassedFact
  <1>4. AllOpen(disk.doc, areas) /\ SomeBound(disk.doc) /\ PlanSpares(disk.doc, ctx[p].plan)
    BY <1>3, LastParts, Zenon DEF PassedOK
  <1>5. HeaderSpares(p, NewDoc(p), areas') /\ WritesHeader(Step(p))
    BY <1>0, <1>3, <1>4, HeaderSpared
  <1>6. PICK c : SetCtx(p, c) /\ DoneCtx(p, c)
    BY DEF Done
  <1>7. DOMAIN ctx' = Procs /\ ctx'[p] = c /\ \A q \in Procs \ {p} : ctx'[q] = ctx[q]
    BY <1>6, CtxSet
  <1>8. c.plan = Tail(ctx[p].plan) /\ (c.st = "busy" => Tail(ctx[p].plan) # << >>)
        /\ disk'.doc = NewDoc(p) /\ disk'.seq = disk.seq + 1
    BY <1>5, <1>6 DEF DoneCtx
  <1>9. ASSUME NEW q \in Procs, Matched(q)' PROVE PlanSpares(disk'.doc, ctx'[q].plan)
    <2>1. q # p => ctx[q].st = "busy" /\ q \notin failed /\ ctx[q].seq = disk.seq + 1
      BY <1>0, <1>7, <1>8, <1>9 DEF Matched, Busy
    <2>2. q # p => ctx[q].seq <= disk.seq
      BY <2>1 DEF SyncInv, Live
    <2>3. disk.seq \in Nat
      BY <1>3 DEF PassedOK
    <2>4. q = p
      BY <2>1, <2>2, <2>3
    <2>5. c.st = "busy"
      BY <1>7, <1>9, <2>4 DEF Matched, Busy
    <2>6. QED BY <1>5, <1>7, <1>8, <2>4, <2>5 DEF HeaderSpares
  <1>10. QED BY <1>5, <1>8, <1>9 DEF HeaderSpares

\* LastInv says nothing after a fault.
LEMMA LastBroken ==
  ASSUME DocInv, NEW p \in Procs, Broken(p)
  PROVE  LastInv'
  <1>1. faults' # 0
    BY DEF Broken, DocInv
  <1>2. QED BY <1>1 DEF LastInv

\* LastInv is kept by steps that write nothing.
LEMMA LastIdle ==
  ASSUME DocInv, SyncInv, LastInv, NEW p \in Procs, Load(p) \/ Start(p) \/ Rejected(p)
  PROVE  LastInv'
  <1>1. PICK c : /\ SetCtx(p, c) /\ disk' = disk /\ areas' = areas /\ faults' = faults /\ (forced => forced')
                 /\ \A q \in Procs \ {p} : q \in failed <=> q \in failed'
                 /\ \/ c.st = "idle"
                    \/ /\ c.st = "busy" /\ failed' = failed /\ ctx[p].st = "idle" /\ c.seq = ctx[p].seq
                       /\ forced' \/ Planned(ctx[p].doc, c.plan, FALSE)
    <2>1. CASE Load(p)
      <3> DEFINE c == [st |-> "idle", doc |-> disk.doc, seq |-> disk.seq, plan |-> << >>]
      <3>1. SetCtx(p, c) /\ UNCHANGED <<disk, areas, faults, forced>> /\ failed' = failed \ {p}
        BY <2>1, Zenon DEF Load, SetCtx
      <3>2. c.st = "idle"
        OBVIOUS
      <3> HIDE DEF c
      <3>3. QED BY <3>1, <3>2
    <2>2. CASE Start(p)
      <3>1. PICK plan : Begin(p, plan) /\ (forced' \/ Planned(ctx[p].doc, plan, FALSE))
        BY <2>2, Zenon DEF Start, Started
      <3> DEFINE c == [st |-> "busy", doc |-> ctx[p].doc, seq |-> ctx[p].seq, plan |-> plan]
      <3>2. SetCtx(p, c) /\ UNCHANGED <<disk, areas, faults, failed>> /\ (forced => forced')
        BY <2>2, <3>1, BeginCtx DEF Start
      <3>3. c.st = "busy" /\ c.seq = ctx[p].seq /\ c.plan = plan /\ ctx[p].st = "idle"
        BY <2>2 DEF Start
      <3> HIDE DEF c
      <3>4. QED BY <3>1, <3>2, <3>3
    <2>3. CASE Rejected(p)
      BY <2>3 DEF Rejected, RejectedCtx
    <2>4. QED BY <2>1, <2>2, <2>3
  <1>2. DOMAIN ctx' = Procs /\ ctx'[p] = c /\ \A q \in Procs \ {p} : ctx'[q] = ctx[q]
    BY <1>1, CtxSet
  <1> SUFFICES ASSUME ~forced', faults' = 0
               PROVE  /\ AllOpen(disk'.doc, areas') /\ SomeBound(disk'.doc)
                      /\ \A q \in Procs : Matched(q)' => PlanSpares(disk'.doc, ctx'[q].plan)
    BY Zenon DEF LastInv, AllOpen, SomeBound, PlanSpares
  <1>3. ~forced /\ faults = 0
    BY <1>1
  <1>4. /\ AllOpen(disk.doc, areas) /\ SomeBound(disk.doc)
        /\ \A q \in Procs : Matched(q) => PlanSpares(disk.doc, ctx[q].plan)
    BY <1>3, LastParts, Zenon
  <1>5. ASSUME NEW q \in Procs \ {p}, Matched(q)' PROVE PlanSpares(disk'.doc, ctx'[q].plan)
    <2>1. Matched(q)
      BY <1>1, <1>2, <1>5 DEF Matched, Busy
    <2>2. QED BY <1>1, <1>2, <1>4, <2>1
  <1>6. ASSUME Matched(p)' PROVE PlanSpares(disk'.doc, ctx'[p].plan)
    <2>1. /\ c.st = "busy" /\ failed' = failed /\ ctx[p].st = "idle" /\ c.seq = ctx[p].seq
          /\ Planned(ctx[p].doc, c.plan, FALSE) /\ p \notin failed' /\ c.seq = disk.seq
      BY <1>1, <1>2, <1>6 DEF Matched, Busy
    <2>2. ctx[p].doc = disk.doc
      BY <2>1 DEF SyncInv, Live
    <2>3. PlanSees(disk.doc, c.plan) /\ PlanLast(disk.doc, c.plan)
      BY <2>1, <2>2, Zenon DEF Planned
    <2>4. PICK s \in Slots : Bound(disk.doc, s)
      BY <1>4 DEF SomeBound
    <2>5. PlanSpares(disk.doc, c.plan)
      BY <2>3, <2>4 DEF PlanSees, PlanLast, PlanSpares
    <2>6. QED BY <1>1, <1>2, <2>5
  <1>7. QED BY <1>1, <1>4, <1>5, <1>6

\* LastInv is inductive, given the invariants before it.
LEMMA LastNext == DocInv /\ SaltInv /\ SyncInv /\ PromiseInv /\ LastInv /\ [Next]_vars => LastInv'
  <1> SUFFICES ASSUME DocInv, SaltInv, SyncInv, PromiseInv, LastInv, [Next]_vars PROVE LastInv'
    OBVIOUS
  <1>1. CASE Next
    BY <1>1, NextCases, LastIdle, LastDone, LastBroken
  <1>2. CASE UNCHANGED vars
    <2>1. disk' = disk /\ ctx' = ctx /\ failed' = failed /\ forced' = forced /\ faults' = faults /\ areas' = areas
      BY <1>2 DEF vars
    <2>2. QED BY <2>1 DEF LastInv, Matched, Busy
  <1>3. QED BY <1>1, <1>2

\* LastInv gives LastKeyslotConfirmed.
LEMMA LastFollows == DocInv /\ LastInv => LastKeyslotConfirmed
  <1> SUFFICES ASSUME DocInv, LastInv, ~forced, ~(faults > 0)
               PROVE  \E s \in DOMAIN disk.doc.keyslots, x \in Pass :
                        s \in LUKS2_keyslot_open(disk.doc, areas, s, DEFAULT_SEGMENT, x)
    BY Zenon DEF LastKeyslotConfirmed
  <1>1. faults = 0 /\ WF(disk.doc)
    BY DEF DocInv
  <1>2. AllOpen(disk.doc, areas) /\ SomeBound(disk.doc)
    BY <1>1, LastParts, Zenon
  <1>3. PICK s \in Slots : Bound(disk.doc, s)
    BY <1>2 DEF SomeBound
  <1>4. s \in DOMAIN disk.doc.keyslots
    BY <1>3 DEF Bound
  <1>5. PICK pr \in Pairs : Opens(disk.doc, areas, s, pr)
    BY <1>2, <1>4 DEF AllOpen
  <1>6. pr[1] \in Pass /\ Yields(disk.doc, areas, s, pr[1])
    BY <1>1, <1>5, YieldsOpens
  <1>7. s \in LUKS2_keyslot_open(disk.doc, areas, s, DEFAULT_SEGMENT, pr[1])
    BY <1>1, <1>3, <1>4, <1>6, OpenIff
  <1>8. QED BY <1>4, <1>6, <1>7

\* Without a fault, a confirmation of the removal of the last keyslot or a
\* change in place, some passphrase opens the data: the check of the sequence
\* id makes the second of two removals see what the first has left.
THEOREM LastAlwaysConfirmed == Spec => []LastKeyslotConfirmed
  <1>1. Init => LastInv
    BY LastInit
  <1>2. DocInv /\ SaltInv /\ SyncInv /\ PromiseInv /\ LastInv /\ [Next]_vars => LastInv'
    BY LastNext
  <1>3. Spec => []LastInv
    BY <1>1, <1>2, PromiseInvariant, PTL DEF Spec
  <1>4. QED BY <1>3, DocInvariant, LastFollows, PTL

------------------------------------------------------------------------------
\* Unknown requirements.

\* A context works on a device with requirements only to remove keyslots.
ReqInv == \A p \in Procs : Busy(p) => ctx[p].doc.requirements = {} \/ ctx[p].plan \in Seq(DestroySteps)

\* ReqInv is inductive, given DocInv.
LEMMA ReqNext == DocInv /\ ReqInv /\ [Next]_vars => ReqInv'
  <1> SUFFICES ASSUME DocInv, ReqInv, [Next]_vars PROVE ReqInv'
    OBVIOUS
  <1> DEFINE OK(c) == c.st = "busy" => c.doc.requirements = {} \/ c.plan \in Seq(DestroySteps)
  <1>0. \A q \in Procs : OK(ctx[q])
    BY DEF ReqInv, Busy
  <1>1. ASSUME NEW p \in Procs, NEW c, SetCtx(p, c), OK(c) PROVE ReqInv'
    <2>1. ctx'[p] = c /\ \A q \in Procs \ {p} : ctx'[q] = ctx[q]
      BY <1>1, CtxSet
    <2>2. \A q \in Procs : OK(ctx'[q])
      BY <1>0, <1>1, <2>1
    <2>3. QED BY <2>2 DEF ReqInv, Busy
  <1>2. CASE UNCHANGED vars
    BY <1>2 DEF vars, ReqInv, Busy
  <1>3. ASSUME NEW p \in Procs, Load(p) PROVE ReqInv'
    <2> DEFINE c == [st |-> "idle", doc |-> disk.doc, seq |-> disk.seq, plan |-> << >>]
    <2>1. SetCtx(p, c)
      BY <1>3, Zenon DEF Load, SetCtx
    <2>2. c.st = "idle"
      OBVIOUS
    <2> HIDE DEF c
    <2>3. QED BY <1>1, <2>1, <2>2
  <1>4. ASSUME NEW p \in Procs, Start(p) PROVE ReqInv'
    <2>1. PICK plan : Begin(p, plan) /\ Planned(ctx[p].doc, plan, TRUE)
      BY <1>4, Zenon DEF Start, Started
    <2> DEFINE c == [st |-> "busy", doc |-> ctx[p].doc, seq |-> ctx[p].seq, plan |-> plan]
    <2>2. SetCtx(p, c)
      BY <2>1, BeginCtx
    <2>3. c.doc = ctx[p].doc /\ c.plan = plan
      OBVIOUS
    <2> HIDE DEF c
    <2>4. PlanReqs(ctx[p].doc, plan)
      BY <2>1, Zenon DEF Planned
    <2>5. OK(c)
      BY <2>3, <2>4 DEF PlanReqs, PlanDestroy
    <2>6. QED BY <1>1, <2>2, <2>5
  <1>5. ASSUME NEW p \in Procs, Done(p) PROVE ReqInv'
    <2>1. PICK c : SetCtx(p, c) /\ DoneCtx(p, c)
      BY <1>5 DEF Done
    <2>2. BusyOK(p) /\ ctx[p].st = "busy"
      BY <1>5, BusyFact DEF Done, Passed
    <2>3. c.doc.requirements = ctx[p].doc.requirements /\ c.plan = Tail(ctx[p].plan)
      BY <2>1, <2>2 DEF DoneCtx, Next1, BusyOK
    <2>4. c.st = "busy" => Tail(ctx[p].plan) # << >>
      BY <2>1 DEF DoneCtx
    <2>5. ASSUME ctx[p].plan \in Seq(DestroySteps) PROVE Tail(ctx[p].plan) \in Seq(DestroySteps)
      <3>1. ctx[p].plan # << >>
        BY <2>2, PlanHead DEF BusyOK
      <3>2. QED BY <2>5, <3>1
    <2>6. OK(c)
      BY <1>0, <2>2, <2>3, <2>5
    <2>7. QED BY <1>1, <2>1, <2>6
  <1>6. ASSUME NEW p \in Procs, Broken(p) \/ Rejected(p) PROVE ReqInv'
    <2>1. PICK c : SetCtx(p, c) /\ (BrokenCtx(p, c) \/ RejectedCtx(p, c))
      BY <1>6 DEF Broken, Rejected
    <2>2. c.st # "busy"
      BY <2>1 DEF BrokenCtx, RejectedCtx, Unloaded
    <2>3. QED BY <1>1, <2>1, <2>2
  <1>7. QED BY <1>2, <1>3, <1>4, <1>5, <1>6, NextCases

\* ReqInv holds at the start.
LEMMA ReqInit == Init => ReqInv
  BY DEF Init, ReqInv, Busy, Unloaded

Respected ==
  ("UNKNOWN" \in LUKS2_config_get_requirements(disk.doc) /\ disk' # disk /\ ~overrun') =>
    /\ DOMAIN disk'.doc.keyslots \subseteq DOMAIN disk.doc.keyslots
    /\ \A s \in DOMAIN disk'.doc.keyslots : disk'.doc.keyslots[s] = disk.doc.keyslots[s]
    /\ disk'.doc.segments = disk.doc.segments
    /\ disk'.doc.requirements = disk.doc.requirements

\* A step on a device with an unknown requirement only removes keyslots.
LEMMA RequirementStep ==
  ASSUME DocInv, SaltInv, SyncInv, PromiseInv, ReqInv, Next
  PROVE  Respected
  <1> SUFFICES ASSUME "UNKNOWN" \in LUKS2_config_get_requirements(disk.doc), disk' # disk, ~overrun'
               PROVE  /\ DOMAIN disk'.doc.keyslots \subseteq DOMAIN disk.doc.keyslots
                      /\ \A s \in DOMAIN disk'.doc.keyslots : disk'.doc.keyslots[s] = disk.doc.keyslots[s]
                      /\ disk'.doc.segments = disk.doc.segments
                      /\ disk'.doc.requirements = disk.doc.requirements
    BY DEF Respected
  <1>1. PICK p \in Procs : Load(p) \/ Start(p) \/ Done(p) \/ Broken(p) \/ Rejected(p)
    BY NextCases
  <1>2. Done(p)
    <2>1. ~Load(p) /\ ~Broken(p) /\ ~Rejected(p)
      BY DEF Load, Broken, Rejected
    <2>2. ~Start(p)
      BY BeginCtx DEF Start, Started
    <2>3. QED BY <1>1, <2>1, <2>2
  <1>3. PassedOK(p)
    BY <1>2, PassedFact DEF Done
  <1> DEFINE doc == disk.doc
             st == Step(p)
             b == disk'.doc
  <1>4. /\ WF(doc) /\ IsDoc(doc) /\ HeadKind(doc, st) /\ salts \in Nat /\ NewDoc(p) = After(doc, st) /\ st = Head(ctx[p].plan)
        /\ ctx[p].doc = doc /\ ctx[p].st = "busy" /\ PlanOK(doc, ctx[p].plan)
    BY <1>3 DEF PassedOK, BusyOK, Step, WF, Matched, Busy
  <1>5. doc.requirements # {}
    BY <1>4, RequirementsFact
  <1>6. ctx[p].plan \in Seq(DestroySteps) /\ 1 \in DOMAIN ctx[p].plan /\ st = ctx[p].plan[1]
    BY <1>4, <1>5, PlanHead DEF ReqInv, Busy
  <1>7. st \in DestroySteps
    BY <1>6
  <1>8. st.do = "wipe" /\ ~st.only /\ st.swap = ANY_SLOT
    BY <1>7 DEF DestroySteps
  <1>9. RemoveStep(doc, st) /\ WritesHeader(st)
    BY <1>4, <1>8, HeadDo DEF OnlyStep
  <1>10. b = After(doc, st)
    BY <1>2, <1>4, <1>9 DEF Done, DoneCtx
  <1> HIDE DEF doc, st, b
  <1>11. Wiped(doc, b, st.slot)
    BY <1>4, <1>8, <1>9, <1>10, AfterIs
  <1>12. b.segments = Segments /\ doc.segments = Segments
    BY <1>4, <1>11, DocFields DEF Wiped, WF
  <1>13. QED BY <1>11, <1>12 DEF Wiped, doc, b

\* A device with a requirement this library does not know is never changed
\* except by the removal of keyslots: crypt_keyslot_destroy is the only function
\* that skips the check, and every later step of a plan was allowed at its start
\* on the document that is still on the device.
THEOREM RequirementsRespected == Spec => UnknownRequirementRespected
  <1>1. Spec => []ReqInv
    BY DocInvariant, ReqInit, ReqNext, PTL DEF Spec
  <1>2. DocInv /\ SaltInv /\ SyncInv /\ PromiseInv /\ ReqInv /\ [Next]_vars => [Respected]_vars
    BY RequirementStep
  <1>3. Spec => [][Respected]_vars
    BY <1>1, <1>2, PromiseInvariant, PTL DEF Spec
  <1>4. QED BY <1>3 DEF UnknownRequirementRespected, Respected

==============================================================================
