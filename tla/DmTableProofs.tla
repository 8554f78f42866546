--------------------------- MODULE DmTableProofs ---------------------------
(***************************************************************************)
(* What holds of the dm-integrity devices of DmTable for every kernel,     *)
(* every request and any number of commands, processes and module loads:   *)
(* a device grown with --wipe, or on a target that can recalculate, is     *)
(* protected, and a format uses the fixes that the target has.             *)
(*                                                                         *)
(* The library works on a system it can only ask: a command is a chain of  *)
(* calls from one system record to the next (Probe, Load, _reload_device,  *)
(* crypt_resize).  Each call has a lemma of what it keeps, and GrownInv    *)
(* says what every command may rely on and re-establishes: IsSys.          *)
(*                                                                         *)
(* GrownIsProtected needs it in two places.  A refresh starts the          *)
(* recalculation only if the process sees that the target has it, which it *)
(* does because the live table holds the module (IsSys, ProbeFacts).  The  *)
(* recalculation covers what the superblock provides, which is not less    *)
(* than the table (IsSys again): the kernel refuses a longer one.          *)
(* FixesUsed rests on SecondProbeSees: the first probe of a process may    *)
(* only learn that the kernel can load a module, the second one loads it.  *)
(***************************************************************************)
EXTENDS DmTable, TLAPS

(* A formatted dm-integrity superblock. *)
SbFields == {"fmt", "tag", "sector", "jsize", "il", "fix", "compat", "provided", "recalc", "valid"}
IsSb(s) == DOMAIN s = SbFields /\ s.fmt = TRUE /\ s.provided \in Nat /\ s.recalc \in BOOLEAN

(* A table is one that _create_dm_targets_params built. *)
IsTable(t) == DOMAIN t = {"type", "spec", "opts", "count", "size", "ro"} /\ t.size \in Nat

IsEnv(e) == DOMAIN e = {"lib", "mods"} /\ DOMAIN e.lib = {"getver", "checked"}

(* What a command finds and leaves: a live dm-integrity table has its        *)
(* superblock, its module is loaded, and it is not longer than what the      *)
(* superblock provides.                                                      *)
IsSys(y) ==
  /\ DOMAIN y = {"e", "sb", "tab", "ok"} /\ y.ok \in BOOLEAN
  /\ IsEnv(y.e)
  /\ y.sb = NoSb \/ IsSb(y.sb)
  /\ y.tab = NoTable \/ IsTable(y.tab)
  /\ y.tab.type = "integrity" =>
       IsSb(y.sb) /\ "integrity" \in y.e.mods /\ y.tab.size <= y.sb.provided

(* _dm_check_versions changes nothing but what the process has seen, and sees
   the version of a target whose module is loaded. *)
LEMMA ProbeFacts ==
  ASSUME NEW y, IsSys(y), NEW t
  PROVE  /\ IsSys(Probe(y, t))
         /\ Probe(y, t).sb = y.sb /\ Probe(y, t).tab = y.tab /\ Probe(y, t).ok = y.ok
         /\ y.e.mods \subseteq Probe(y, t).e.mods
         /\ t \in y.e.mods => t \in Probe(y, t).e.lib.checked
<1> DEFINE e == _dm_check_versions(y.e, t)
<1>1. IsEnv(e) /\ y.e.mods \subseteq e.mods /\ (t \in y.e.mods => t \in e.lib.checked)
  BY DEF IsSys, IsEnv, _dm_check_versions, _dm_check_target
<1>2. /\ DOMAIN Probe(y, t) = DOMAIN y /\ Probe(y, t).e = e
      /\ Probe(y, t).sb = y.sb /\ Probe(y, t).tab = y.tab /\ Probe(y, t).ok = y.ok
  BY DEF IsSys, Probe
<1> HIDE DEF e
<1> QED
  BY <1>1, <1>2 DEF IsSys

(* t is the table of a target. *)
Built(t, tgt, flags, sz) ==
  /\ IsTable(t) /\ t.type = tgt.type /\ t.size = sz
  /\ tgt.type = "integrity" =>
       /\ t.spec.format = FALSE
       /\ "recalculate" \in flags => <<"recalculate">> \in t.opts

(* get_dm_integrity_params writes the option that starts a recalculation, and
   never asks for a format. *)
LEMMA ParamsFacts ==
  ASSUME NEW tgt, NEW flags, NEW sz \in Nat
  PROVE  Built(_create_dm_targets_params(tgt, flags, sz), tgt, flags, sz)
<1> DEFINE p == CASE tgt.type = "crypt" -> get_dm_crypt_params(tgt, flags)
                  [] tgt.type = "verity" -> get_dm_verity_params(tgt, flags)
                  [] tgt.type = "integrity" -> get_dm_integrity_params(tgt, flags)
<1>1. _create_dm_targets_params(tgt, flags, sz) = Target(tgt.type, p, sz, "readonly" \in flags)
  BY DEF _create_dm_targets_params
<1>2. tgt.type = "integrity" => p = get_dm_integrity_params(tgt, flags)
  OBVIOUS
<1>3. /\ get_dm_integrity_params(tgt, flags).spec.format = FALSE
      /\ "recalculate" \in flags => <<"recalculate">> \in get_dm_integrity_params(tgt, flags).opts
  BY DEF get_dm_integrity_params, IntegrityFlags
<1> HIDE DEF p
<1> QED
  BY <1>1, <1>2, <1>3 DEF Target, IsTable, Built

(* The two superblocks come from one format. *)
SameFormat(s, z) == z.fmt = s.fmt /\ z.fix = s.fix /\ z.compat = s.compat

(* z is y after an attempt to make t live. *)
Loaded(y, t, z) ==
  /\ IsSys(z) /\ z.e.lib = y.e.lib /\ y.e.mods \subseteq z.e.mods
  /\ SameFormat(y.sb, z.sb)
  /\ ~z.ok => z.tab = y.tab /\ z.sb = y.sb
  /\ z.ok => /\ z.tab = t
             /\ t.type # "integrity" => z.sb = y.sb
             /\ t.type = "integrity" =>
                  /\ z.sb.valid = y.sb.valid
                  /\ y.sb.recalc \/ <<"recalculate">> \in t.opts => z.sb.recalc

(* A load that fails leaves the live table; one that succeeds keeps the tags
   and starts or continues a recalculation. *)
LEMMA LoadFacts ==
  ASSUME NEW y, IsSys(y), disk \in Nat,
         NEW t, IsTable(t), t.type = "integrity" => t.spec.format = FALSE
  PROVE  Loaded(y, t, Load(y, t))
<1> DEFINE z == Load(y, t)
<1> SUFFICES Loaded(y, t, z)
  OBVIOUS
<1>1. /\ DOMAIN z = DOMAIN y
      /\ IsEnv(z.e) /\ z.e.lib = y.e.lib /\ z.e.mods = y.e.mods \union {t.type}
  BY DEF IsEnv, IsSys, Load, Live, Refused, Fail
<1>2. CASE ~TableLoad(t, y.sb)
  <2>1. z.sb = y.sb /\ z.tab = y.tab /\ z.ok = FALSE
    BY <1>2 DEF Load, Refused, Fail, IsSys
  <2> HIDE DEF z
  <2> QED
    BY <2>1, <1>1 DEF IsSys, Loaded, SameFormat
<1>3. CASE TableLoad(t, y.sb) /\ t.type # "integrity"
  <2>1. z.sb = y.sb /\ z.tab = t /\ z.ok = TRUE
    BY <1>3 DEF Load, Live, IsSys
  <2> HIDE DEF z
  <2> QED
    BY <2>1, <1>1, <1>3 DEF IsSys, Loaded, SameFormat
<1>4. CASE TableLoad(t, y.sb) /\ t.type = "integrity"
  <2> DEFINE r == y.sb.recalc \/ Starts(t.opts)
             s == [y.sb EXCEPT !.provided = Provided(y.sb), !.recalc = r]
  <2>1. IsSb(y.sb) /\ t.size <= Provided(y.sb)
    BY <1>4 DEF TableLoad, Parses, IsSys, NoSb
  <2>2. z.sb = s /\ z.tab = t /\ z.ok = TRUE
    BY <1>4 DEF Load, Live, IsSys
  <2>3. Provided(y.sb) \in Nat
    BY <2>1 DEF Provided, IsSb
  <2>6. r \in BOOLEAN
    BY <2>1 DEF Starts, IsSb
  <2>4. /\ IsSb(s) /\ s.provided = Provided(y.sb) /\ s.valid = y.sb.valid /\ s.recalc = r
        /\ SameFormat(y.sb, s)
    <3>1. ASSUME NEW n \in Nat, NEW b \in BOOLEAN
          PROVE  LET x == [y.sb EXCEPT !.provided = n, !.recalc = b]
                 IN /\ IsSb(x) /\ x.provided = n /\ x.valid = y.sb.valid /\ x.recalc = b
                    /\ SameFormat(y.sb, x)
      BY <2>1 DEF IsSb, SbFields, SameFormat
    <3> HIDE DEF r
    <3> QED
      BY <2>3, <2>6, <3>1, Zenon
  <2>5. y.sb.recalc \/ <<"recalculate">> \in t.opts => r
    BY DEF Starts
  <2> HIDE DEF s, z, r
  <2> QED
    BY <2>1, <2>2, <2>3, <2>4, <2>5, <1>1, <1>4 DEF IsSys, Loaded
<1> QED
  BY <1>2, <1>3, <1>4

(* A table is read back as a target of its own type. *)
LEMMA QueryType ==
  ASSUME NEW t, IsTable(t), t.type \in {"crypt", "integrity"}, NEW s
  PROVE  dm_target_query(t, s).tgt.type = t.type
<1> DEFINE w == TableStatus(t, s)
<1>1. w.type = t.type
  BY DEF TableStatus, WithOpts, IsTable, Target
<1> HIDE DEF w
<1>2. QueryText(w).tgt.type = w.type
  <2>1. CASE w.type = "crypt"
    <3>1. /\ DOMAIN _dm_target_query_crypt(w) = {"ok", "tgt", "flags"}
          /\ _dm_target_query_crypt(w).tgt.type = "crypt"
      BY DEF _dm_target_query_crypt
    <3> QED
      BY <2>1, <3>1 DEF QueryText
  <2>2. CASE w.type = "integrity"
    <3>1. /\ DOMAIN _dm_target_query_integrity(w) = {"ok", "tgt", "flags"}
          /\ _dm_target_query_integrity(w).tgt.type = "integrity"
      BY DEF _dm_target_query_integrity
    <3> QED
      BY <2>2, <3>1 DEF QueryText
  <2> QED
    BY <1>1, <2>1, <2>2
<1> QED
  BY <1>1, <1>2 DEF dm_target_query, w

(* What a reload may change. *)
Reloaded(y, z, flags, sz) ==
  /\ IsSys(z) /\ y.e.mods \subseteq z.e.mods
  /\ z.tab.type = y.tab.type /\ SameFormat(y.sb, z.sb)
  /\ ~z.ok => z.tab = y.tab /\ z.sb = y.sb
  /\ z.ok => z.tab.size = sz
  /\ y.tab.type = "integrity" =>
       /\ z.sb.valid = y.sb.valid
       /\ y.sb.recalc => z.sb.recalc
       /\ z.ok /\ "recalculate" \in flags /\ "recalculate" \in Has("integrity") => z.sb.recalc

(* A failure is only reported. *)
LEMMA FailFacts ==
  ASSUME NEW y, IsSys(y)
  PROVE  /\ IsSys(Fail(y)) /\ ~Fail(y).ok
         /\ Fail(y).e = y.e /\ Fail(y).sb = y.sb /\ Fail(y).tab = y.tab
BY DEF IsSys, Fail

(* _reload_device after its checks: dm_reload_device passes "recalculate" on
   when the live table is a dm-integrity one and the target has it. *)
LEMMA ReloadFacts ==
  ASSUME NEW y, IsSys(y), y.tab.type \in {"crypt", "integrity"}, disk \in Nat,
         NEW tgt, NEW flags, NEW sz \in Nat
  PROVE  Reloaded(y, ReloadQueried(y, tgt, flags, sz), flags, sz)
<1> DEFINE q == dm_target_query(y.tab, y.sb)
           f1 == KeepReadonly(flags, q.flags)
           y1 == Probe(y, q.tgt.type)
           y2 == Probe(y1, "integrity")
           f2 == f1 \ ({"recalculate"} \ dm_flags(y2.e, "integrity"))
           t == _create_dm_targets_params(q.tgt, f2, sz)
<1>1. q.tgt.type = y.tab.type
  <2>1. IsTable(y.tab)
    BY DEF IsSys, NoTable
  <2> QED
    BY <2>1, QueryType
<1>2. CASE ~q.ok \/ ~crypt_compare_dm_devices(tgt, q.tgt) \/ ~Fits(sz)
  <2>1. ReloadQueried(y, tgt, flags, sz) = Fail(y)
    BY <1>2 DEF ReloadQueried, ReloadAs
  <2> QED
    BY <2>1, FailFacts DEF Reloaded, SameFormat
<1>3. CASE ~(~q.ok \/ ~crypt_compare_dm_devices(tgt, q.tgt) \/ ~Fits(sz))
  <2>1. ReloadQueried(y, tgt, flags, sz) = Load(y2, t)
    BY <1>3 DEF ReloadQueried, ReloadAs, dm_reload_device, ReloadProbed
  <2>2. IsSys(y1) /\ y1.sb = y.sb /\ y1.tab = y.tab /\ y.e.mods \subseteq y1.e.mods
    BY ProbeFacts
  <2>3. /\ IsSys(y2) /\ y2.sb = y.sb /\ y2.tab = y.tab /\ y.e.mods \subseteq y2.e.mods
        /\ "integrity" \in y.e.mods => "integrity" \in y2.e.lib.checked
    <3> HIDE DEF y1
    <3> QED
      BY <2>2, ProbeFacts
  <2>4. Built(t, q.tgt, f2, sz)
    BY ParamsFacts
  <2>5. y.tab.type = "integrity" /\ "recalculate" \in flags /\ "recalculate" \in Has("integrity")
          => "recalculate" \in f2
    BY <2>3 DEF dm_flags, KeepReadonly, IsSys
  <2> HIDE DEF y2, t, f2, q
  <2> DEFINE z == Load(y2, t)
  <2>6. Loaded(y2, t, z)
    BY <1>1, <2>3, <2>4, LoadFacts DEF Built
  <2> SUFFICES Reloaded(y, z, flags, sz)
    BY <2>1
  <2> HIDE DEF z
  <2>7. z.tab.type = y.tab.type /\ z.ok \in BOOLEAN
    BY <1>1, <2>3, <2>4, <2>6 DEF Loaded, Built, IsSys
  <2> QED
    BY <1>1, <2>3, <2>4, <2>5, <2>6, <2>7 DEF Reloaded, Loaded, Built
<1> QED
  BY <1>2, <1>3


(* What a resize does not touch. *)
Kept(y, z) ==
  /\ IsSys(z) /\ y.e.mods \subseteq z.e.mods
  /\ z.tab.type = y.tab.type /\ SameFormat(y.sb, z.sb)
  /\ y.tab.type = "integrity" => z.sb.valid = y.sb.valid

(* dm_integrity_target_set only probes. *)
LEMMA TargetSetFacts ==
  ASSUME NEW y, IsSys(y), NEW tgt, NEW tag, NEW compat
  PROVE  LET set == dm_integrity_target_set(y, tgt, tag, compat)
         IN /\ IsSys(set.y) /\ y.e.mods \subseteq set.y.e.mods
            /\ set.y.sb = y.sb /\ set.y.tab = y.tab /\ set.y.ok = y.ok
            /\ set.tgt.type = "integrity"
<1> DEFINE y1 == Probe(y, "integrity")
           y2 == Probe(y1, "integrity")
           y3 == Probe(y2, "integrity")
           set == dm_integrity_target_set(y, tgt, tag, compat)
<1>1. IsSys(y1) /\ y1.sb = y.sb /\ y1.tab = y.tab /\ y1.ok = y.ok /\ y.e.mods \subseteq y1.e.mods
  BY ProbeFacts
<1> HIDE DEF y1
<1>2. IsSys(y2) /\ y2.sb = y.sb /\ y2.tab = y.tab /\ y2.ok = y.ok /\ y.e.mods \subseteq y2.e.mods
  BY <1>1, ProbeFacts
<1> HIDE DEF y2
<1>3. IsSys(y3) /\ y3.sb = y.sb /\ y3.tab = y.tab /\ y3.ok = y.ok /\ y.e.mods \subseteq y3.e.mods
  BY <1>2, ProbeFacts
<1>4. set.y = y3 /\ set.tgt.type = "integrity"
  BY DEF dm_integrity_target_set, SecondProbe, TargetSet, y1, y2
<1> QED
  BY <1>3, <1>4

(* _reload_device refuses authenticated dm-crypt and reloads the rest. *)
LEMMA ReloadDeviceFacts ==
  ASSUME NEW y, IsSys(y), y.tab.type \in {"crypt", "integrity"}, disk \in Nat,
         NEW tgt, NEW flags, NEW sz \in Nat
  PROVE  Reloaded(y, _reload_device(y, tgt, flags, sz), flags, sz)
BY ReloadFacts, FailFacts DEF _reload_device, Reloaded, SameFormat

(* A reload keeps the type of the table and the valid tags. *)
LEMMA ReloadedIsKept ==
  ASSUME NEW y, NEW z, NEW flags, NEW sz, Reloaded(y, z, flags, sz)
  PROVE  Kept(y, z) /\ (z.ok => z.tab.size = sz)
BY DEF Reloaded, Kept

(* crypt_resize keeps type and tags; with a size it ends with that size or
   fails. *)
LEMMA ResizeFacts ==
  ASSUME NEW y, IsSys(y), y.tab.type \in {"crypt", "verity", "integrity"}, disk \in Nat,
         NEW n \in Nat
  PROVE  LET z == crypt_resize(y, n)
         IN Kept(y, z) /\ (z.ok /\ n # 0 => z.tab.size = n)
<1> DEFINE q == dm_target_query(y.tab, y.sb)
           z == crypt_resize(y, n)
<1>1. CASE ~q.ok \/ y.tab.type = "verity"
  <2>1. z = Fail(y)
    BY <1>1 DEF crypt_resize, ResizeQueried
  <2> QED
    BY <2>1, FailFacts DEF Kept, SameFormat
<1>2. CASE q.ok /\ y.tab.type # "verity"
  <2> DEFINE set == IF y.tab.type = "integrity"
                    THEN dm_integrity_target_set(y, crypt_get_integrity_info(q), q.tgt.tag, {})
                    ELSE [y |-> y, tgt |-> q.tgt]
             f == ResizeFlags(q)
             u == IF ReloadMax(set.y, n) THEN _reload_device(set.y, set.tgt, f, set.y.tab.size) ELSE set.y
             goal == IF ReloadMax(u, n) THEN u.sb.provided ELSE device_block_adjust(n)
  <2>1. z = ResizeTo(u, set.tgt, f, goal)
    BY <1>2 DEF crypt_resize, ResizeQueried, ResizeSet, ResizeReloaded
  <2>2. /\ IsSys(set.y) /\ y.e.mods \subseteq set.y.e.mods
        /\ set.y.sb = y.sb /\ set.y.tab = y.tab
    BY TargetSetFacts
  <2> HIDE DEF set, f, q, z
  <2>3. Kept(y, u)
    <3>1. set.y.tab.size \in Nat
      BY <2>2 DEF IsSys, IsTable, NoTable
    <3>2. Reloaded(set.y, _reload_device(set.y, set.tgt, f, set.y.tab.size), f, set.y.tab.size)
      BY <1>2, <2>2, <3>1, ReloadDeviceFacts
    <3> QED
      BY <2>2, <3>2 DEF Kept, Reloaded, SameFormat
  <2> HIDE DEF u
  <2>4. goal \in Nat /\ (n # 0 => goal = n)
    BY <2>3 DEF ReloadMax, device_block_adjust, Kept, IsSys, IsSb
  <2> HIDE DEF goal
  <2>5. Reloaded(u, _reload_device(u, set.tgt, f, goal), f, goal)
    BY <1>2, <2>3, <2>4, ReloadDeviceFacts DEF Kept
  <2>6. Kept(u, z) /\ (z.ok => z.tab.size = goal)
    <3>1. CASE ~u.ok
      BY <2>1, <2>3, <3>1 DEF ResizeTo, Kept, SameFormat
    <3>2. CASE u.ok /\ ~Fits(goal)
      BY <2>1, <2>3, <3>2, FailFacts DEF ResizeTo, Kept, SameFormat
    <3>3. CASE u.ok /\ Fits(goal) /\ goal = u.tab.size
      BY <2>1, <2>3, <3>3 DEF ResizeTo, Kept, SameFormat
    <3>4. CASE u.ok /\ Fits(goal) /\ goal # u.tab.size
      <4>1. z = _reload_device(u, set.tgt, f, goal)
        BY <2>1, <3>4 DEF ResizeTo
      <4> QED
        BY <4>1, <2>5, ReloadedIsKept
    <3>5. u.ok \in BOOLEAN
      BY <2>3 DEF Kept, IsSys
    <3> QED
      BY <3>1, <3>2, <3>3, <3>4, <3>5
  <2>7. Kept(y, z)
    BY <2>3, <2>6 DEF Kept, SameFormat
  <2> QED
    BY <2>4, <2>6, <2>7 DEF z
<1> QED
  BY <1>1, <1>2

(* INTEGRITY_activate_refresh starts the recalculation it is asked for. *)
LEMMA RefreshFacts ==
  ASSUME NEW y, IsSys(y), y.tab.type = "integrity", disk \in Nat, NEW tgt, NEW flags
  PROVE  LET z == INTEGRITY_activate_refresh(y, tgt, flags)
         IN /\ Kept(y, z) /\ (z.ok => z.tab.size = y.tab.size)
            /\ z.ok /\ "recalculate" \in flags /\ "recalculate" \in Has("integrity") => z.sb.recalc
<1> DEFINE set == dm_integrity_target_set(y, tgt, tgt.tag, {})
           f == Recalculating(set.y.sb, flags)
           z == INTEGRITY_activate_refresh(y, tgt, flags)
<1>1. z = _reload_device(set.y, set.tgt, f, set.y.tab.size)
  BY DEF INTEGRITY_activate_refresh, ReloadSet
<1>2. IsSys(set.y) /\ y.e.mods \subseteq set.y.e.mods /\ set.y.sb = y.sb /\ set.y.tab = y.tab
  BY TargetSetFacts
<1>3. "recalculate" \in flags => "recalculate" \in f
  BY DEF Recalculating
<1>4. y.tab.size \in Nat
  BY DEF IsSys, IsTable, NoTable
<1> HIDE DEF set, f, z
<1>5. Reloaded(set.y, z, f, y.tab.size)
  BY <1>1, <1>2, <1>4, ReloadDeviceFacts
<1> QED
  BY <1>2, <1>3, <1>5 DEF Reloaded, Kept, z

(* dm_create_device, with or without the retry of dm-crypt. *)
LEMMA CreateFacts ==
  ASSUME NEW y, IsSys(y), disk \in Nat, NEW tgt, NEW flags, NEW sz \in Nat
  PROVE  LET z == dm_create_device(y, tgt, flags, sz)
         IN IsSys(z) /\ (z.ok => z.tab.type = tgt.type) /\ SameFormat(y.sb, z.sb)
<1> DEFINE y1 == Probe(y, tgt.type)
           t == _create_dm_targets_params(tgt, flags, sz)
           y2 == Load(y1, t)
           y3 == Probe(y2, tgt.type)
           less == check_retry(flags, dm_flags(y3.e, tgt.type))
           t4 == _create_dm_targets_params(tgt, less, sz)
           y4 == Load(y3, t4)
           z == dm_create_device(y, tgt, flags, sz)
<1>1. z \in {y2, y3, y4} /\ (z = y3 => z = y2 \/ z = y4 \/ ~y2.ok)
  BY DEF dm_create_device, AfterTry, Retry
<1> HIDE DEF z
<1>2. IsSys(y1) /\ y1.sb = y.sb
  BY ProbeFacts
<1>3. Built(t, tgt, flags, sz) /\ Built(t4, tgt, less, sz)
  BY ParamsFacts
<1> HIDE DEF y1, t, t4, less
<1>4. Loaded(y1, t, y2)
  BY <1>2, <1>3, LoadFacts DEF Built
<1>5. IsSys(y2) /\ (y2.ok => y2.tab.type = tgt.type) /\ SameFormat(y.sb, y2.sb)
  BY <1>2, <1>3, <1>4 DEF Loaded, Built
<1> HIDE DEF y2
<1>6. IsSys(y3) /\ y3.ok = y2.ok /\ y3.sb = y2.sb
  BY <1>5, ProbeFacts
<1> HIDE DEF y3
<1>7. Loaded(y3, t4, y4)
  BY <1>3, <1>6, LoadFacts DEF Built
<1>8. IsSys(y4) /\ (y4.ok => y4.tab.type = tgt.type) /\ SameFormat(y.sb, y4.sb)
  BY <1>3, <1>5, <1>6, <1>7 DEF Loaded, Built, SameFormat
<1> HIDE DEF y4
<1> QED
  BY <1>1, <1>5, <1>6, <1>8 DEF z

(* INTEGRITY_activate on a formatted device. *)
LEMMA ActivateFacts ==
  ASSUME NEW y, IsSys(y), IsSb(y.sb), disk \in Nat, NEW tgt, NEW compat, NEW flags
  PROVE  LET z == INTEGRITY_activate(y, tgt, compat, flags)
         IN IsSys(z) /\ (z.ok => z.tab.type = "integrity") /\ SameFormat(y.sb, z.sb)
<1> DEFINE set == dm_integrity_target_set(y, tgt, y.sb.tag, compat)
           f == Recalculating(set.y.sb, flags)
<1>1. INTEGRITY_activate(y, tgt, compat, flags) = dm_create_device(set.y, set.tgt, f, set.y.sb.provided)
  BY DEF INTEGRITY_activate, CreateSet
<1>2. IsSys(set.y) /\ set.y.sb = y.sb /\ set.tgt.type = "integrity"
  BY TargetSetFacts
<1>3. set.y.sb.provided \in Nat
  BY <1>2 DEF IsSb
<1> HIDE DEF set, f
<1> QED
  BY <1>1, <1>2, <1>3, CreateFacts

(* FixesUsed, of any superblock. *)
Fixed(s) ==
  s.fmt /\ kernel.getver =>
    /\ "legacy_padding" \notin s.compat /\ "fix_padding" \in Has("integrity") => "fix_padding" \in s.fix
    /\ "legacy_hmac" \notin s.compat /\ "fix_hmac" \in Has("integrity") => "fix_hmac" \in s.fix

(* On a kernel with DM_GET_TARGET_VERSION two probes see any target. *)
LEMMA SecondProbeSees ==
  ASSUME NEW y, IsSys(y), kernel.getver, NEW t
  PROVE  t \in Probe(Probe(y, t), t).e.lib.checked
<1> DEFINE e1 == _dm_check_versions(y.e, t)
           e2 == _dm_check_versions(e1, t)
<1>1. Probe(y, t).e = e1 /\ IsSys(Probe(y, t))
  BY ProbeFacts DEF IsSys, Probe
<1>2. Probe(Probe(y, t), t).e = e2
  BY <1>1 DEF IsSys, Probe
<1>3. t \in e1.lib.checked \/ e1.lib.getver
  BY DEF IsSys, IsEnv, _dm_check_versions, _dm_check_target
<1>4. IsEnv(e1)
  BY <1>1 DEF IsSys
<1> HIDE DEF e1
<1>5. t \in e2.lib.checked
  BY <1>3, <1>4 DEF IsEnv, _dm_check_versions, _dm_check_target
<1> QED
  BY <1>2, <1>5

(* dm_integrity_target_set asks for every fix that the target has and the user
   did not refuse. *)
LEMMA FixesAsked ==
  ASSUME NEW y, IsSys(y), kernel.getver, NEW tgt, NEW tag, NEW compat
  PROVE  LET b == dm_integrity_target_set(y, tgt, tag, compat).tgt.bools
         IN /\ "legacy_padding" \notin compat /\ "fix_padding" \in Has("integrity") => "fix_padding" \in b
            /\ "legacy_hmac" \notin compat /\ "fix_hmac" \in Has("integrity") => "fix_hmac" \in b
<1> DEFINE y2 == Probe(Probe(y, "integrity"), "integrity")
           y3 == Probe(y2, "integrity")
<1>1. IsSys(y2) /\ "integrity" \in y2.e.lib.checked
  BY ProbeFacts, SecondProbeSees
<1> HIDE DEF y2
<1>2. "integrity" \in y3.e.lib.checked
  BY <1>1 DEF Probe, IsSys, _dm_check_versions
<1> HIDE DEF y3
<1>3. dm_flags(y2.e, "integrity") = Has("integrity") /\ dm_flags(y3.e, "integrity") = Has("integrity")
  BY <1>1, <1>2 DEF dm_flags
<1> DEFINE b == dm_integrity_target_set(y, tgt, tag, compat).tgt.bools
<1>4. b = SupportedFix(y2.e, "fix_padding", "legacy_padding", compat)
            \union SupportedFix(y3.e, "fix_hmac", "legacy_hmac", compat)
            \union (compat \intersect {"legacy_recalculate", "meta_device"})
  BY DEF dm_integrity_target_set, SecondProbe, TargetSet, y2, y3
<1> HIDE DEF b
<1> QED
  BY <1>3, <1>4 DEF SupportedFix, b

(* _crypt_format_integrity leaves a superblock with the fixes, or none. *)
LEMMA FormatFacts ==
  ASSUME NEW y, IsSys(y), y.tab.type = "none", disk \in Nat, NEW f
  PROVE  LET z == _crypt_format_integrity(y, f)
         IN IsSys(z) /\ z.tab = y.tab /\ (y.ok /\ z.ok => IsSb(z.sb)) /\ Fixed(z.sb)
<1> DEFINE y1 == [y EXCEPT !.sb = NoSb]
           tag == IF f.tag # 0 THEN f.tag ELSE INTEGRITY_hash_tag_size(f.alg["integrity"][1])
           set == dm_integrity_target_set(y1, f, tag, f.compat)
           z == _crypt_format_integrity(y, f)
<1>1. IsSys(y1) /\ y1.tab = y.tab /\ y1.ok = y.ok /\ y1.sb = NoSb
  BY DEF IsSys
<1>2. z = FormatSet(set, f)
  BY DEF _crypt_format_integrity, INTEGRITY_format
<1> HIDE DEF y1, tag, z
<1>3. IsSys(set.y) /\ set.y.tab = y.tab /\ set.y.ok = y.ok /\ set.y.sb = NoSb
  BY <1>1, TargetSetFacts
<1>4. IsSb(Superblock(f, set.tgt)) /\ Fixed(Superblock(f, set.tgt))
  <2>1. IsSb(Superblock(f, set.tgt))
    BY DEF Superblock, IsSb, SbFields
  <2>2. /\ Superblock(f, set.tgt).compat = f.compat
        /\ Superblock(f, set.tgt).fix = set.tgt.bools \intersect {"fix_padding", "fix_hmac"}
    BY DEF Superblock
  <2>3. kernel.getver =>
          /\ "legacy_padding" \notin f.compat /\ "fix_padding" \in Has("integrity")
               => "fix_padding" \in set.tgt.bools
          /\ "legacy_hmac" \notin f.compat /\ "fix_hmac" \in Has("integrity")
               => "fix_hmac" \in set.tgt.bools
    BY <1>1, FixesAsked
  <2> HIDE DEF set
  <2> QED
    BY <2>1, <2>2, <2>3 DEF Fixed
<1> HIDE DEF set
<1>5. CASE TableLoad(FormatTable(set.tgt), set.y.sb)
  <2> DEFINE s == Superblock(f, set.tgt)
  <2>1. /\ DOMAIN z = DOMAIN set.y /\ z.ok = set.y.ok /\ z.tab = set.y.tab /\ z.sb = s
        /\ DOMAIN z.e = DOMAIN set.y.e /\ z.e.lib = set.y.e.lib
    <3> HIDE DEF s
    <3> QED
      BY <1>2, <1>3, <1>5 DEF FormatSet, IsSys, IsEnv, s
  <2> HIDE DEF s
  <2>2. IsSys(z)
    BY <1>3, <1>4, <2>1 DEF IsSys, IsEnv, s
  <2> QED
    BY <1>3, <1>4, <2>1, <2>2 DEF s, z
<1>6. CASE ~TableLoad(FormatTable(set.tgt), set.y.sb)
  <2>1. /\ DOMAIN z = DOMAIN set.y /\ z.ok = FALSE /\ z.tab = set.y.tab /\ z.sb = set.y.sb
        /\ DOMAIN z.e = DOMAIN set.y.e /\ z.e.lib = set.y.e.lib
    BY <1>2, <1>3, <1>6 DEF FormatSet, Refused, Fail, IsSys, IsEnv
  <2>2. IsSys(z)
    BY <1>3, <2>1 DEF IsSys, IsEnv
  <2> QED
    BY <1>3, <2>1, <2>2 DEF z, Fixed, NoSb
<1> QED
  BY <1>5, <1>6

(* _wipe_data_device leaves no table, also when it is interrupted. *)
LEMMA WipeFacts ==
  ASSUME NEW y, IsSys(y), IsSb(y.sb), disk \in Nat, NEW f, NEW done
  PROVE  LET z == _wipe_data_device(y, f, done)
         IN IsSys(z) /\ SameFormat(y.sb, z.sb)
<1> DEFINE u == INTEGRITY_activate(y, f, f.compat, {"no_journal"})
           v == [u EXCEPT !.tab = NoTable]
           w == [u EXCEPT !.tab = NoTable, !.sb.valid = 1..u.sb.provided]
<1>1. _wipe_data_device(y, f, done) = IF u.ok /\ done THEN w ELSE Fail(v)
  BY DEF _wipe_data_device, WipeAndRemove
<1>2. IsSys(u) /\ (u.ok => u.tab.type = "integrity") /\ SameFormat(y.sb, u.sb)
  BY ActivateFacts
<1> HIDE DEF u
<1>3. IsSys(v) /\ v.sb = u.sb
  BY <1>2 DEF IsSys, NoTable
<1>4. u.ok => IsSys(w) /\ SameFormat(u.sb, w.sb)
  BY <1>2 DEF IsSys, NoTable, IsSb, SbFields, SameFormat
<1> HIDE DEF v, w
<1> QED
  BY <1>1, <1>2, <1>3, <1>4, FailFacts DEF SameFormat

(* A command leaves the system that its last call returned. *)
LEMMA DoneSys ==
  ASSUME NEW y, IsSys(y), NEW op, NEW old, Done(y, op, old)
  PROVE  IsSys(Sys)' /\ last' = [op |-> op, ok |-> y.ok, old |-> old]
BY DEF IsSys, IsEnv, Done, Sys, Env

(* What action_resize leaves of a device that had `old' units. *)
Protected(y, old) == y.sb.recalc \/ Added(old, y.tab.size) \subseteq y.sb.valid

(* A device that did not grow has no added unit. *)
LEMMA NothingAdded ==
  ASSUME NEW old \in Nat, NEW new \in Nat, new <= old
  PROVE  Added(old, new) = {}
BY DEF Added

(* The wipe of action_resize that returns 0 has written every added tag. *)
LEMMA WipeAddedFacts ==
  ASSUME NEW y, IsSys(y), y.tab.type = "integrity", NEW old, NEW done
  PROVE  LET z == WipeAdded(y, old, done)
         IN IsSys(z) /\ z.tab = y.tab /\ SameFormat(y.sb, z.sb) /\ (z.ok => Protected(z, old))
<1> DEFINE v == y.sb.valid \union Added(old, y.tab.size)
           w == [y EXCEPT !.sb.valid = v]
           z == WipeAdded(y, old, done)
<1>1. z = w \/ z = Fail(y)
  BY DEF WipeAdded
<1>2. w.tab = y.tab /\ w.sb.valid = v /\ IsSys(w) /\ SameFormat(y.sb, w.sb)
  <2> HIDE DEF v
  <2> QED
    BY DEF IsSys, IsSb, SbFields, SameFormat
<1>3. Protected(w, old)
  <2> HIDE DEF w
  <2> QED
    BY <1>2 DEF Protected
<1> HIDE DEF w, z
<1> QED
  BY <1>1, <1>2, <1>3, FailFacts DEF z, SameFormat

(* action_resize of integritysetup: whatever it returns 0 for is protected,  *)
(* with --wipe, or if the target can recalculate.                            *)
LEMMA ActionResizeFacts ==
  ASSUME NEW y, IsSys(y), y.tab.type = "integrity", disk \in Nat,
         NEW n \in Nat, NEW wipe \in BOOLEAN, NEW done \in BOOLEAN
  PROVE  LET z == action_resize(y, n, wipe, done).y
         IN /\ IsSys(z) /\ z.tab.type = "integrity" /\ SameFormat(y.sb, z.sb)
            /\ z.ok /\ (wipe \/ "recalculate" \in Has("integrity")) => Protected(z, y.tab.size)
<1> DEFINE q == dm_target_query(y.tab, y.sb)
           old == y.tab.size
           y1 == crypt_resize(y, n)
           new == NewDevSize(n, y1)
           z == action_resize(y, n, wipe, done).y
<1>0. old \in Nat
  BY DEF IsSys, IsTable, NoTable
<1>1. Kept(y, y1) /\ (y1.ok /\ n # 0 => y1.tab.size = n)
  BY ResizeFacts
<1>2. /\ IsSys(y1) /\ y1.tab.type = "integrity" /\ y1.tab.size \in Nat /\ y1.ok \in BOOLEAN
      /\ SameFormat(y.sb, y1.sb)
  BY <1>1 DEF Kept, IsSys, IsTable, NoTable
<1>3. y1.ok => new = y1.tab.size
  BY <1>1 DEF NewDevSize
<1>4. CASE ~_init_by_name_integrity(q)
  <2>1. z = Fail(y)
    BY <1>4 DEF action_resize, ResizeActive
  <2> HIDE DEF z
  <2> QED
    BY <2>1, FailFacts DEF z, SameFormat
<1>5. CASE _init_by_name_integrity(q)
  <2>1. z = AfterResize(y1, q, old, new, wipe, done).y
    BY <1>5 DEF action_resize, ResizeActive, ResizeDone
  <2> HIDE DEF y1, new, q, old
  <2>2. CASE ~y1.ok \/ new <= old
    <3>1. z = y1
      BY <1>0, <1>2, <1>3, <2>1, <2>2 DEF AfterResize
    <3>2. y1.ok => Added(old, y1.tab.size) = {}
      BY <1>0, <1>2, <1>3, <2>2, NothingAdded
    <3> HIDE DEF z
    <3> QED
      BY <1>2, <3>1, <3>2 DEF Protected, z, old
  <2>3. CASE y1.ok /\ new > old /\ wipe
    <3>1. z = WipeAdded(y1, old, done)
      BY <1>0, <1>2, <1>3, <2>1, <2>3 DEF AfterResize
    <3> HIDE DEF z
    <3> QED
      BY <1>2, <3>1, WipeAddedFacts DEF z, old, SameFormat
  <2>4. CASE y1.ok /\ new > old /\ ~wipe
    <3> DEFINE u == INTEGRITY_activate_refresh(y1, crypt_get_integrity_info(q), {"recalculate"})
    <3>1. z = u
      BY <1>0, <1>2, <1>3, <2>1, <2>4 DEF AfterResize, Recalculated
    <3>2. /\ Kept(y1, u)
          /\ u.ok /\ "recalculate" \in Has("integrity") => u.sb.recalc
      BY <1>2, RefreshFacts
    <3> HIDE DEF z, u
    <3> QED
      BY <1>2, <2>4, <3>1, <3>2 DEF Protected, Kept, z, SameFormat
  <2> QED
    BY <1>0, <1>2, <1>3, <2>2, <2>3, <2>4
<1> QED
  BY <1>4, <1>5

(* The inductive invariant. *)
GrownInv ==
  /\ IsSys(Sys) /\ disk \in Nat /\ last.old \in Nat
  /\ GrownIsProtected

(* The invariant holds before the first command. *)
LEMMA GrownInit == Init => GrownInv
<1> SUFFICES ASSUME Init PROVE GrownInv
  OBVIOUS
<1>1. DOMAIN NewLib = {"getver", "checked"} /\ table.type = "none"
  BY DEF NewLib, Init, NoTable
<1>2. IsSys(Sys)
  BY <1>1 DEF IsSys, IsEnv, Sys, Env, Init, NoTable
<1> QED
  BY <1>2 DEF GrownInv, GrownIsProtected, Init

(* Commands other than a resize. *)
LEMMA CommandKeeps ==
  ASSUME GrownInv, NEW y, IsSys(y), NEW op, op \notin {"resize", "resize_wipe"}, Done(y, op, 0)
  PROVE  GrownInv'
<1>1. IsSys(Sys)' /\ last' = [op |-> op, ok |-> y.ok, old |-> 0]
  BY DoneSys
<1>2. disk' = disk
  BY DEF Done
<1> QED
  BY <1>1, <1>2 DEF GrownInv, GrownIsProtected

(* Every step keeps the invariant. *)
LEMMA GrownStep == GrownInv /\ [Next]_vars => GrownInv'
<1> SUFFICES ASSUME GrownInv, [Next]_vars PROVE GrownInv'
  OBVIOUS
<1>0. /\ IsSys(Sys) /\ disk \in Nat /\ Sys.tab = table /\ Sys.sb = sb /\ Sys.ok = TRUE
      /\ Sys.e.mods = mods
  BY DEF GrownInv, Sys, Env
<1>1. CASE UNCHANGED vars
  BY <1>1 DEF vars, GrownInv, GrownIsProtected, Sys, Env, Has, IsSys
<1>2. CASE NewProcess
  <2>1. IsSys(Sys)'
    BY <1>0, <1>2 DEF NewProcess, IsSys, IsEnv, Sys, Env, NewLib
  <2> QED
    BY <2>1, <1>2 DEF NewProcess, GrownInv, GrownIsProtected, Has
<1>3. CASE Rmmod
  <2>1. IsSys(Sys)'
    BY <1>0, <1>3 DEF Rmmod, IsSys, IsEnv, Sys, Env
  <2> QED
    BY <2>1, <1>3 DEF Rmmod, GrownInv, GrownIsProtected, Has
<1>4. CASE GrowDisk
  <2>1. IsSys(Sys)'
    BY <1>0, <1>4 DEF GrowDisk, IsSys, Sys, Env
  <2> QED
    BY <2>1, <1>4 DEF GrowDisk, GrownInv, GrownIsProtected, Has
<1>5. CASE RecalcDone
  <2>1. IsSb(sb) /\ table.size \in Nat /\ table.size <= sb.provided
    BY <1>0, <1>5 DEF RecalcDone, IsSys, IsTable, NoTable
  <2>2. IsSb(sb') /\ sb'.provided = sb.provided /\ sb'.valid = 1..sb.provided
    BY <2>1, <1>5 DEF RecalcDone, IsSb, SbFields
  <2>3. IsSys(Sys)'
    BY <1>0, <1>5, <2>2 DEF RecalcDone, IsSys, Sys, Env
  <2>4. Added(last.old, table.size) \subseteq 1..sb.provided
    BY <2>1 DEF Added, GrownInv, IsSb
  <2> QED
    BY <2>2, <2>3, <2>4, <1>5 DEF RecalcDone, GrownInv, GrownIsProtected
<1>6. CASE Close
  <2> DEFINE y == [Sys EXCEPT !.tab = NoTable]
  <2>1. IsSys(y)
    BY <1>0 DEF IsSys, NoTable
  <2>2. Done(y, "close", 0)
    BY <1>6 DEF Close
  <2> HIDE DEF y
  <2> QED
    BY <2>1, <2>2, CommandKeeps
<1>7. ASSUME NEW r \in CryptReqs, OpenCrypt(r)
      PROVE  GrownInv'
  <2>1. PICK tgt, flags : Done(dm_create_device(Sys, tgt, flags, disk), "open", 0)
    BY <1>7 DEF OpenCrypt, Granted
  <2>2. IsSys(dm_create_device(Sys, tgt, flags, disk))
    BY <1>0, CreateFacts
  <2> QED
    BY <2>1, <2>2, CommandKeeps
<1>8. ASSUME NEW r \in VerityReqs, OpenVerity(r)
      PROVE  GrownInv'
  <2>1. PICK tgt, flags : Done(dm_create_device(Sys, tgt, flags, disk), "open", 0)
    BY <1>8 DEF OpenVerity, Granted, crypt_activate_by_signed_key, VERITY_activate
  <2>2. IsSys(dm_create_device(Sys, tgt, flags, disk))
    BY <1>0, CreateFacts
  <2> QED
    BY <2>1, <2>2, CommandKeeps
<1>9. ASSUME NEW r \in IntegrityReqs, OpenIntegrity(r)
      PROVE  GrownInv'
  <2>1. PICK tgt : Done(INTEGRITY_activate(Sys, tgt, r.compat, r.flags), "open", 0) /\ sb.fmt
    BY <1>9 DEF OpenIntegrity, Granted
  <2>2. IsSb(sb)
    BY <1>0, <2>1 DEF IsSys, NoSb
  <2>3. IsSys(INTEGRITY_activate(Sys, tgt, r.compat, r.flags))
    BY <1>0, <2>2, ActivateFacts
  <2> QED
    BY <2>1, <2>3, CommandKeeps
<1>10. ASSUME NEW f \in Formats, NEW wipe \in BOOLEAN, NEW done \in BOOLEAN, action_format(f, wipe, done)
       PROVE  GrownInv'
  <2> DEFINE y == _crypt_format_integrity(Sys, f)
             z == Formatted(y, f, wipe, done)
  <2>1. table.type = "none" /\ Done(z, "format", 0)
    BY <1>10 DEF action_format, Active
  <2>2. IsSys(y) /\ y.tab = table /\ (y.ok => IsSb(y.sb))
    BY <1>0, <2>1, FormatFacts
  <2> HIDE DEF y
  <2>3. IsSys(z)
    BY <1>0, <2>2, WipeFacts DEF Formatted
  <2> HIDE DEF z
  <2> QED
    BY <2>1, <2>3, CommandKeeps
<1>11. ASSUME NEW r \in CryptReqs, Refresh(r.flags)
       PROVE  GrownInv'
  <2>1. PICK flags : Done(ReloadQueried(Sys, asked.tgt, flags, disk), "refresh", 0)
    BY <1>11 DEF Refresh, Granted
  <2>2. table.type = "crypt"
    BY <1>11 DEF Refresh
  <2>3. IsSys(ReloadQueried(Sys, asked.tgt, flags, disk))
    BY <1>0, <2>2, ReloadFacts DEF Reloaded
  <2> QED
    BY <2>1, <2>3, CommandKeeps
<1>12. ASSUME NEW n \in 0..MaxDisk, ResizeCrypt(n)
       PROVE  GrownInv'
  <2> DEFINE y == crypt_resize(Sys, n)
  <2>0. n \in Nat
    BY DmTableAssumption
  <2>1. table.type \in {"crypt", "verity"} /\ Done(y, "resize", table.size)
    BY <1>12 DEF ResizeCrypt, ResizedTo, Resized
  <2>2. Kept(Sys, y)
    BY <1>0, <2>0, <2>1, ResizeFacts
  <2>3. table.size \in Nat
    BY <1>0, <2>1 DEF IsSys, IsTable, NoTable
  <2> HIDE DEF y
  <2>4. IsSys(y) /\ y.tab.type = table.type
    BY <1>0, <2>2 DEF Kept
  <2>5. IsSys(Sys)' /\ last'.old = table.size
    BY <2>1, <2>4, DoneSys
  <2>6. table' = y.tab /\ disk' = disk
    BY <2>1 DEF Done
  <2> QED
    BY <1>0, <2>1, <2>3, <2>4, <2>5, <2>6 DEF GrownInv, GrownIsProtected
<1>13. ASSUME NEW n \in 0..MaxDisk, NEW wipe \in BOOLEAN, NEW done \in BOOLEAN,
              ResizeIntegrity(n, wipe, done)
       PROVE  GrownInv'
  <2> DEFINE y == action_resize(Sys, n, wipe, done).y
             op == ResizeOp(wipe)
  <2>0. n \in Nat
    BY DmTableAssumption
  <2>1. table.type = "integrity" /\ Done(y, op, table.size)
    BY <1>13 DEF ResizeIntegrity, Resized
  <2>2. /\ IsSys(y)
        /\ y.ok /\ (wipe \/ "recalculate" \in Has("integrity")) => Protected(y, table.size)
    BY <1>0, <2>0, <2>1, ActionResizeFacts
  <2>3. table.size \in Nat
    BY <1>0, <2>1 DEF IsSys, IsTable, NoTable
  <2>a. op = "resize_wipe" => wipe
    BY DEF ResizeOp
  <2> HIDE DEF y, op
  <2>4. IsSys(Sys)' /\ last' = [op |-> op, ok |-> y.ok, old |-> table.size]
    BY <2>1, <2>2, DoneSys
  <2>5. table' = y.tab /\ disk' = disk /\ sb' = y.sb /\ kernel' = kernel
    BY <2>1 DEF Done
  <2>6. Has("integrity")' = Has("integrity")
    BY <2>5 DEF Has
  <2>7. GrownIsProtected'
    BY <2>2, <2>a, <2>4, <2>5, <2>6 DEF GrownIsProtected, Protected
  <2> QED
    BY <1>0, <2>3, <2>4, <2>5, <2>7 DEF GrownInv
<1> QED
  BY <1>1, <1>2, <1>3, <1>4, <1>5, <1>6, <1>7, <1>8, <1>9, <1>10, <1>11, <1>12, <1>13 DEF Next

(* A command that keeps the format of the superblock keeps its fixes. *)
LEMMA FormatKept ==
  ASSUME FixesUsed, NEW y, SameFormat(sb, y.sb), NEW op, NEW old, Done(y, op, old)
  PROVE  FixesUsed'
BY DEF FixesUsed, SameFormat, Done, Has

(* Only a format changes what FixesUsed is about. *)
LEMMA FixesStep == GrownInv /\ FixesUsed /\ [Next]_vars => FixesUsed'
<1> SUFFICES ASSUME GrownInv, FixesUsed, [Next]_vars PROVE FixesUsed'
  OBVIOUS
<1>0. IsSys(Sys) /\ disk \in Nat /\ Sys.tab = table /\ Sys.sb = sb /\ Sys.ok = TRUE
  BY DEF GrownInv, Sys, Env
<1>1. CASE UNCHANGED vars \/ NewProcess \/ Rmmod \/ GrowDisk
  BY <1>1 DEF vars, NewProcess, Rmmod, GrowDisk, FixesUsed, Has
<1>2. CASE RecalcDone
  <2>1. IsSb(sb)
    BY <1>0, <1>2 DEF RecalcDone, IsSys
  <2>2. SameFormat(sb, sb')
    BY <1>2, <2>1 DEF RecalcDone, IsSb, SbFields, SameFormat
  <2> QED
    BY <1>2, <2>2 DEF RecalcDone, SameFormat, FixesUsed, Has
<1>3. CASE Close
  <2> DEFINE y == [Sys EXCEPT !.tab = NoTable]
  <2>1. y.sb = sb
    BY <1>0 DEF IsSys
  <2>2. Done(y, "close", 0)
    BY <1>3 DEF Close
  <2> HIDE DEF y
  <2> QED
    BY <2>1, <2>2, FormatKept DEF SameFormat
<1>4. ASSUME NEW r, OpenCrypt(r) \/ OpenVerity(r)
      PROVE  FixesUsed'
  <2>1. PICK tgt, flags : Done(dm_create_device(Sys, tgt, flags, disk), "open", 0)
    BY <1>4 DEF OpenCrypt, OpenVerity, Granted, crypt_activate_by_signed_key, VERITY_activate
  <2>2. SameFormat(sb, dm_create_device(Sys, tgt, flags, disk).sb)
    BY <1>0, CreateFacts
  <2> QED
    BY <2>1, <2>2, FormatKept
<1>5. ASSUME NEW r \in IntegrityReqs, OpenIntegrity(r)
      PROVE  FixesUsed'
  <2>1. PICK tgt : Done(INTEGRITY_activate(Sys, tgt, r.compat, r.flags), "open", 0) /\ sb.fmt
    BY <1>5 DEF OpenIntegrity, Granted
  <2>2. IsSb(sb)
    BY <1>0, <2>1 DEF IsSys, NoSb
  <2>3. SameFormat(sb, INTEGRITY_activate(Sys, tgt, r.compat, r.flags).sb)
    BY <1>0, <2>2, ActivateFacts
  <2> QED
    BY <2>1, <2>3, FormatKept
<1>6. ASSUME NEW f \in Formats, NEW wipe \in BOOLEAN, NEW done \in BOOLEAN, action_format(f, wipe, done)
      PROVE  FixesUsed'
  <2> DEFINE y == _crypt_format_integrity(Sys, f)
             z == Formatted(y, f, wipe, done)
  <2>1. table.type = "none" /\ Done(z, "format", 0)
    BY <1>6 DEF action_format, Active
  <2>2. IsSys(y) /\ (y.ok => IsSb(y.sb)) /\ Fixed(y.sb)
    BY <1>0, <2>1, FormatFacts
  <2> HIDE DEF y
  <2>3. SameFormat(y.sb, z.sb)
    BY <1>0, <2>2, WipeFacts DEF Formatted, SameFormat
  <2> HIDE DEF z
  <2>4. sb' = z.sb /\ kernel' = kernel
    BY <2>1 DEF Done
  <2> QED
    BY <2>2, <2>3, <2>4 DEF FixesUsed, Fixed, SameFormat, Has
<1>7. ASSUME NEW r \in CryptReqs, Refresh(r.flags)
      PROVE  FixesUsed'
  <2>1. PICK flags : Done(ReloadQueried(Sys, asked.tgt, flags, disk), "refresh", 0)
    BY <1>7 DEF Refresh, Granted
  <2>2. table.type = "crypt"
    BY <1>7 DEF Refresh
  <2>3. SameFormat(sb, ReloadQueried(Sys, asked.tgt, flags, disk).sb)
    BY <1>0, <2>2, ReloadFacts DEF Reloaded
  <2> QED
    BY <2>1, <2>3, FormatKept
<1>8. ASSUME NEW n \in 0..MaxDisk, ResizeCrypt(n)
      PROVE  FixesUsed'
  <2>0. n \in Nat
    BY DmTableAssumption
  <2>1. table.type \in {"crypt", "verity"} /\ Done(crypt_resize(Sys, n), "resize", table.size)
    BY <1>8 DEF ResizeCrypt, ResizedTo, Resized
  <2>2. SameFormat(sb, crypt_resize(Sys, n).sb)
    BY <1>0, <2>0, <2>1, ResizeFacts DEF Kept
  <2> QED
    BY <2>1, <2>2, FormatKept
<1>9. ASSUME NEW n \in 0..MaxDisk, NEW wipe \in BOOLEAN, NEW done \in BOOLEAN,
             ResizeIntegrity(n, wipe, done)
      PROVE  FixesUsed'
  <2>0. n \in Nat
    BY DmTableAssumption
  <2>1. table.type = "integrity" /\ Done(action_resize(Sys, n, wipe, done).y, ResizeOp(wipe), table.size)
    BY <1>9 DEF ResizeIntegrity, Resized
  <2>2. SameFormat(sb, action_resize(Sys, n, wipe, done).y.sb)
    BY <1>0, <2>0, <2>1, ActionResizeFacts
  <2> QED
    BY <2>1, <2>2, FormatKept
<1> QED
  BY <1>1, <1>2, <1>3, <1>4, <1>5, <1>6, <1>7, <1>8, <1>9 DEF Next

(* A format on a kernel that can be asked for versions uses the fixed padding
   and the fixed HMAC that its dm-integrity has, whatever the process has
   probed and whatever is loaded (dm_integrity_target_set, INTEGRITY_format). *)
THEOREM FixesAreUsed == Spec => []FixesUsed
<1>1. Init => FixesUsed
  BY DEF Init, FixesUsed, NoSb
<1> QED
  BY <1>1, GrownInit, GrownStep, FixesStep, PTL DEF Spec

(* An integritysetup resize that grew the device and returned 0 has written
   the tags of what it added, or the kernel is recalculating them, and that
   stays so until the next command (action_resize, crypt_resize): with --wipe
   on every kernel, without it where dm-integrity can recalculate.  On an older
   target the resize returns 0 with neither done (ResizeRecalculates). *)
THEOREM GrowthIsProtected == Spec => []GrownIsProtected
<1>1. GrownInv => GrownIsProtected
  BY DEF GrownInv
<1> QED
  BY <1>1, GrownInit, GrownStep, PTL DEF Spec

============================================================================
