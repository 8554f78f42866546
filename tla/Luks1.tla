-------------------------------- MODULE Luks1 --------------------------------
(***************************************************************************)
(* The LUKS1 header and its keyslots (lib/luks1/keymanage.c), header       *)
(* backup, restore and repair, and the conversion between LUKS1 and LUKS2  *)
(* in place (lib/luks2/luks2_luks1_convert.c).                             *)
(*                                                                         *)
(* `units' is the start of the device in units of LUKS_ALIGN_KEYSLOTS: the *)
(* LUKS1 header is unit 0 and its key material starts at unit 1; LUKS2 has *)
(* two header copies of HDR2 units and its keyslots area behind them, so   *)
(* that the two layouts overlap.  A unit of key material carries the salt  *)
(* and the passphrase it was encrypted with and its position in the        *)
(* anti-forensic material; a key is usable only with all of its units.     *)
(*                                                                         *)
(* LUKS1 has neither a lock nor a sequence id: a process works on the      *)
(* header it loaded.  `gen' counts the writes of the header, and `raced'   *)
(* records that two operations overlapped or that one started from a stale *)
(* header: "slots" when both only touch keyslots, "layout" when one of     *)
(* them converts or restores.  An operation is a plan of steps, each of    *)
(* them one write to the device; a process may be killed before any step,  *)
(* or in the middle of one.                                                *)
(***************************************************************************)
EXTENDS Luks2Json

CONSTANTS
  NUMKEYS,    \* LUKS_NUMKEYS
  AREA,       \* units of the key material of one keyslot
  HDR2,       \* units of one LUKS2 header copy
  Procs,
  Pass,       \* passphrases a user may choose
  InitPass,   \* passphrases of the first slots at the start, a sequence
  MaxEvents,  \* bound on operations
  MaxFaults   \* bound on kills

\* The material of the smallest key (64 bits, 4000 stripes: 8 units of 4096
\* bytes) is longer than the distance a conversion moves it (7 units).
ASSUME Luks1Assumption ==
  /\ AREA > 2 * HDR2 - 1
  /\ NUMKEYS \in Nat \ {0} /\ AREA \in Nat \ {0} /\ HDR2 \in Nat \ {0}
  /\ MinOffset = 2 * HDR2
  /\ MaxOffset >= 2 * HDR2 + NUMKEYS * AREA
  /\ MaxEvents \in Nat /\ MaxFaults \in Nat

VARIABLES
  units,    \* the header area of the device
  file,     \* the header backup file: units, or << >> before it exists
  ctx,      \* per process: the loaded header and the plan in progress
  gen,      \* header writes so far
  moved,    \* value of gen at the last conversion or restore
  raced,    \* kinds of races so far, a subset of {"slots", "layout"}
  salts,    \* salts used so far
  keep,     \* promises: sets of <<slot, passphrase>>, one of each must open
  revoked,  \* salts of the key material reported as destroyed
  torn,     \* a kill hit a conversion or a restore
  active,   \* the volume is mapped
  ops, faults

vars == <<units, file, ctx, gen, moved, raced, salts, keep, revoked, torn, active, ops, faults>>

Slots == 0..(NUMKEYS - 1)
Units == 0..(MaxOffset - 1)
Shift == 2 * HDR2 - 1           \* luks1_shift: 32k - 4k
VKey == "vk"
Zero == [kind |-> "zero", salt |-> 0, pass |-> "none", key |-> NoKey,
         part |-> 0, of |-> 0, hdr |-> << >>]
KeyUnit(salt, pass, i) ==
  [kind |-> "key", salt |-> salt, pass |-> pass, key |-> VKey,
   part |-> i, of |-> AREA, hdr |-> << >>]
Unloaded == [st |-> "none", fmt |-> 0, hdr |-> << >>, seen |-> 0, plan |-> << >>,
             end |-> {}]
------------------------------------------------------------------------------
\* Functions of the LUKS1 header: slot -> [active, off, salt].

LUKS_keyslot_area(h, i) == h[i].off..(h[i].off + AREA - 1)

\* The last unit of key material plus one.
LUKS_device_sectors(h) ==
  CHOOSE e \in {h[i].off + AREA : i \in Slots} : \A i \in Slots : h[i].off + AREA <= e

\* Behind the header, in front of the data, and no two overlap.
LUKS_check_keyslots(h) ==
  /\ \A i \in Slots : 1 <= h[i].off /\ h[i].off + AREA <= MaxOffset
  /\ \A i, j \in Slots : i # j => h[i].off + AREA <= h[j].off \/ h[j].off + AREA <= h[i].off

LUKS_keyslot_info(h, i) ==
  IF i \notin Slots THEN "INVALID"
  ELSE IF ~h[i].active THEN "INACTIVE"
  ELSE IF \E j \in Slots \ {i} : h[j].active THEN "ACTIVE" ELSE "ACTIVE_LAST"

LUKS_keyslot_find_empty(h) ==
  LET free == {i \in Slots : ~h[i].active}
  IN IF free = {} THEN EINVAL ELSE CHOOSE i \in free : \A j \in free : i <= j

\* Decrypt the area, merge it and verify the volume key by its digest.
LUKS_open_key(u, h, i, pass) ==
  IF LUKS_keyslot_info(h, i) \notin {"ACTIVE", "ACTIVE_LAST"} THEN ENOENT
  ELSE IF \A x \in LUKS_keyslot_area(h, i) : u[x] = KeyUnit(h[i].salt, pass, x - h[i].off)
    THEN 0 ELSE EPERM

LUKS_open_key_with_hdr(u, h, i, pass) ==
  IF i # ANY_SLOT THEN IF LUKS_open_key(u, h, i, pass) < 0 THEN LUKS_open_key(u, h, i, pass) ELSE i
  ELSE LET opens == {j \in Slots : LUKS_open_key(u, h, j, pass) = 0}
       IN IF opens # {} THEN CHOOSE j \in opens : \A k \in opens : j <= k
          ELSE IF \E j \in Slots : h[j].active THEN EPERM ELSE ENOENT

\* All keyslots disabled, their areas one after the other.
LUKS_generate_phdr ==
  [i \in Slots |-> [active |-> FALSE, off |-> 1 + i * AREA, salt |-> 0]]

\* Inactive keyslots get the offsets of a generated header back; the result
\* is refused when that makes areas overlap.
_keyslot_repair(h) ==
  LET fixed == [i \in Slots |-> IF h[i].active \/ h[i].off = LUKS_generate_phdr[i].off
                                  THEN h[i] ELSE LUKS_generate_phdr[i]]
  IN IF LUKS_check_keyslots(fixed) THEN {fixed} ELSE {}

\* The header of the device when LUKS_read_phdr accepts it.
LUKS_read_phdr(u) ==
  IF u[0].kind = "luks1" /\ LUKS_check_keyslots(u[0].hdr) THEN {u[0].hdr} ELSE {}
------------------------------------------------------------------------------
\* LUKS2 as far as conversion needs it.

\* The document with keyslots ks, one digest and one segment.
Doc(ks) ==
  LET d == LUKS2_generate_hdr(VKey)
  IN [d EXCEPT !.keyslots = ks, !.digests[0].keyslots = DOMAIN ks]

Hdr2Unit(ks, i) == [Zero EXCEPT !.kind = "luks2", !.part = i, !.hdr = ks]

\* A copy is good when all of its units belong to it.
HdrCopy(u, at) ==
  IF u[at].kind = "luks2" /\ \A i \in 0..(HDR2 - 1) : u[at + i] = Hdr2Unit(u[at].hdr, i)
    THEN {u[at].hdr} ELSE {}
LUKS2_hdr_read(u) ==
  {ks \in IF HdrCopy(u, 0) # {} THEN HdrCopy(u, 0) ELSE HdrCopy(u, HDR2) : LUKS2_hdr_validate(Doc(ks))}

\* _crypt_load_luks: version 1 in the first unit is LUKS1, the rest is LUKS2.
Format(u) == IF u[0].kind = "luks1" THEN 1 ELSE 2
Loadable(u) == IF Format(u) = 1 THEN LUKS_read_phdr(u) ELSE LUKS2_hdr_read(u)

\* Slots and passphrases that open the volume.
Opens(u) ==
  UNION {{<<i, x>> \in (0..(KEYSLOTS_MAX - 1)) \X Pass :
            IF Format(u) = 1 THEN i \in Slots /\ LUKS_open_key(u, h, i, x) = 0
            ELSE LUKS2_open_and_verify(Doc(h), u, i, 0, x) = i} : h \in Loadable(u)}

\* Active keyslots, moved by Shift.  Mutant: moved by one header copy only.
json_luks1_keyslot(h, i) ==
  [off |-> h[i].off, len |-> AREA, salt |-> h[i].salt, prio |-> PRIO_NORMAL, type |-> "luks2"]
json_luks1_object(h) == [i \in {j \in Slots : h[j].active} |-> json_luks1_keyslot(h, i)]
MoveOffsetMut(ks) == [i \in DOMAIN ks |-> [ks[i] EXCEPT !.off = @ + HDR2]]
move_keyslot_offset(ks) == [i \in DOMAIN ks |-> [ks[i] EXCEPT !.off = @ + Shift]]

\* The LUKS2 keyslots for a LUKS1 header, if it can be converted.
LUKS2_luks1_to_luks2(h) ==
  LET ks == move_keyslot_offset(json_luks1_object(h)) IN
  IF /\ \E i \in Slots : h[i].off = 1 /\ \A j \in Slots : h[i].off <= h[j].off
     /\ LUKS_device_sectors(h) + Shift <= MaxOffset
     /\ LUKS2_hdr_validate(Doc(ks))
    THEN {ks} ELSE {}

keyslot_LUKS1_compatible(ks, i) == ks[i].type = "luks2" /\ ks[i].len = AREA

\* placeholder_keyslot_alloc: an unused keyslot takes a gap of its own.
placeholder_keyslot_alloc(ks, i) ==
  LET off == LUKS2_find_area_gap(Doc(ks), AREA)
  IN With(ks, i, [off |-> off, len |-> AREA, salt |-> 0, prio |-> PRIO_NORMAL, type |-> "placeholder"])

\* Offsets of the LUKS1 keyslots: those of the LUKS2 keyslots, and a gap for
\* each unused one; empty when there is no gap.
Luks1Offsets(ks) ==
  LET Place(f, i) ==
        LET off == LUKS2_find_area_gap(Doc(f.ks), AREA) IN
        IF f.bad \/ i \in DOMAIN f.ks THEN f
        ELSE IF off < 0 THEN [f EXCEPT !.bad = TRUE]
        ELSE [f EXCEPT !.offs = With(@, i, off), !.ks = placeholder_keyslot_alloc(@, i)]
      all == FoldLeft(Place, [bad |-> FALSE, ks |-> ks, offs |-> [i \in DOMAIN ks |-> ks[i].off]],
                      [n \in 1..NUMKEYS |-> n - 1])
  IN IF all.bad THEN {} ELSE {all.offs}

\* The LUKS1 header for LUKS2 keyslots, if it can be converted.
LUKS2_luks2_to_luks1(ks) ==
  {[i \in Slots |-> [active |-> i \in DOMAIN ks, off |-> offs[i] - Shift,
                     salt |-> IF i \in DOMAIN ks THEN ks[i].salt ELSE 0]] :
     offs \in {o \in Luks1Offsets(ks) :
                 /\ DOMAIN ks \subseteq Slots /\ DOMAIN ks # {}
                 /\ \A i \in DOMAIN ks : keyslot_LUKS1_compatible(ks, i)}}
------------------------------------------------------------------------------
\* Steps of a plan.

Ready(p) == ctx[p].st = "idle" /\ ops < MaxEvents
Hdr(p) == ctx[p].hdr
Step(p) == Head(ctx[p].plan)

\* What p, with a plan of these steps, would race with.
LayoutOps == {"up", "hdr2", "down", "zero", "phdr", "restore", "wipeall"}
Layout(plan) == \E n \in DOMAIN plan : plan[n].op \in LayoutOps
Races(p, plan) ==
  LET others == {q \in Procs \ {p} : ctx[q].st = "busy"} IN
  IF \E q \in others : Layout(plan) \/ Layout(ctx[q].plan) THEN {"layout"}
  ELSE IF others # {} THEN {"slots"}
  ELSE IF ctx[p].seen < moved \/ (ctx[p].seen # gen /\ Layout(plan)) THEN {"layout"}
  ELSE IF ctx[p].seen # gen THEN {"slots"} ELSE {}

\* A call: its plan, the promises that stand while it lasts, and those it
\* adds when it returns.  A race counts as an event of its own.
Begin(p, plan, during, end) ==
  /\ ops + Cardinality(raced \cup Races(p, plan)) < MaxEvents
  /\ ctx' = [ctx EXCEPT ![p].plan = plan, ![p].st = "busy", ![p].end = end]
  /\ raced' = raced \cup Races(p, plan)
  /\ keep' = during
  /\ salts' = salts + 1
  /\ ops' = ops + 1
  /\ UNCHANGED <<units, file, gen, moved, revoked, torn, active, faults>>

\* A call that works on header h of format fmt rather than on a loaded one.
BeginFresh(p, fmt, h, plan, during, end) ==
  LET others == {q \in Procs \ {p} : ctx[q].st = "busy"}
      races == IF others = {} THEN {} ELSE Races(p, plan)
  IN /\ ops + Cardinality(raced \cup races) < MaxEvents
     /\ ctx' = [ctx EXCEPT ![p] = [st |-> "busy", fmt |-> fmt, hdr |-> h, seen |-> gen,
                                   plan |-> plan, end |-> end]]
     /\ raced' = raced \cup races
     /\ keep' = during
     /\ salts' = salts + 1
     /\ ops' = ops + 1
     /\ UNCHANGED <<units, file, gen, moved, revoked, torn, active, faults>>

\* The promises that do not involve slot i.
Apart(i) == {S \in keep : \A r \in S : r[1] # i}

Op(op, i) == [op |-> op, slot |-> i, salt |-> 0, pass |-> "none", hdr |-> << >>]

\* LUKS_set_key: key material first, then the header that enables it.
LUKS_set_key(i, pass) ==
  << [Op("area", i) EXCEPT !.salt = salts + 1, !.pass = pass],
     [Op("enable", i) EXCEPT !.salt = salts + 1] >>

\* Mutant: the keyslot is disabled and its material stays.
LUKS_del_keyMut(i) == << Op("read", i), Op("disable", i) >>
\* LUKS_del_key reads the header again, wipes the material, then disables.
LUKS_del_key(i) == << Op("read", i), Op("wipe", i), Op("disable", i) >>
------------------------------------------------------------------------------
\* Operations.

Load(p) ==
  /\ ctx[p].st = "none"
  /\ \E h \in Loadable(units) :
       ctx' = [ctx EXCEPT ![p] = [st |-> "idle", fmt |-> Format(units), hdr |-> h,
                                  seen |-> gen, plan |-> << >>, end |-> {}]]
  /\ UNCHANGED <<units, file, gen, moved, raced, salts, keep, revoked, torn, active, ops, faults>>

\* luksAddKey: any existing passphrase, the first free slot.
AddKey(p) ==
  /\ Ready(p) /\ ctx[p].fmt = 1
  /\ \E old, new \in Pass :
       /\ LUKS_open_key_with_hdr(units, Hdr(p), ANY_SLOT, old) >= 0
       /\ LUKS_keyslot_find_empty(Hdr(p)) >= 0
       /\ Begin(p, LUKS_set_key(LUKS_keyslot_find_empty(Hdr(p)), new), keep,
                {{<<LUKS_keyslot_find_empty(Hdr(p)), new>>}})

\* Mutant: the old keyslot is destroyed before the new one is stored.
ChangePlanMut(i, new, pass) == LUKS_del_key(i) \o LUKS_set_key(new, pass)
\* Into a free slot the new key is stored before the old one is destroyed;
\* without a free slot the old one is destroyed first.
ChangePlan(i, new, pass) ==
  IF new = i THEN LUKS_del_key(i) \o LUKS_set_key(i, pass)
  ELSE LUKS_set_key(new, pass) \o LUKS_del_key(i)

\* crypt_keyslot_change_by_passphrase for LUKS1: the slot number changes.
ChangeKey(p) ==
  /\ Ready(p) /\ ctx[p].fmt = 1
  /\ \E old, pass \in Pass :
       LET i == LUKS_open_key_with_hdr(units, Hdr(p), ANY_SLOT, old)
           e == LUKS_keyslot_find_empty(Hdr(p))
           new == IF e < 0 THEN i ELSE e
       IN /\ i >= 0
          /\ Begin(p, ChangePlan(i, new, pass),
                   IF new = i THEN Apart(i)
                   ELSE Apart(i) \cup {{<<i, old>>, <<new, pass>>}}, {{<<new, pass>>}})

\* luksKillSlot, luksRemoveKey.
KillSlot(p) ==
  /\ Ready(p) /\ ctx[p].fmt = 1
  /\ \E i \in Slots :
       /\ LUKS_keyslot_info(Hdr(p), i) \in {"ACTIVE", "ACTIVE_LAST"}
       /\ Begin(p, LUKS_del_key(i), Apart(i), {})

\* luksErase: every active keyslot is destroyed in turn.
Erase(p) ==
  /\ Ready(p) /\ ctx[p].fmt = 1
  /\ \E i \in Slots : Hdr(p)[i].active
  /\ Begin(p, FlattenSeq([n \in 1..NUMKEYS |->
                IF Hdr(p)[n - 1].active THEN LUKS_del_key(n - 1) ELSE << >>]),
           {}, {})

\* luksUUID: the header in memory is written with a new UUID.
LUKS_hdr_uuid_set(p) ==
  /\ Ready(p) /\ ctx[p].fmt = 1
  /\ Begin(p, << Op("write", 0) >>, keep, {})

\* The extent of a header backup: LUKS1 ends with the last key material, LUKS2
\* with its keyslots area.
LUKS_hdr_backup(u) == LUKS_device_sectors(u[0].hdr)
LUKS2_hdr_backup(u) == MaxOffset

\* luksHeaderBackup: into a new file only, of the header just loaded.
crypt_header_backup(p) ==
  /\ ctx[p].st = "none" /\ ops < MaxEvents /\ file = << >>
  /\ Loadable(units) # {}
  /\ file' = [end |-> IF Format(units) = 1 THEN LUKS_hdr_backup(units) ELSE LUKS2_hdr_backup(units),
              units |-> units]
  /\ ops' = ops + 1
  /\ UNCHANGED <<units, ctx, gen, moved, raced, salts, keep, revoked, torn, active, faults>>

\* The backup must hold a valid header; a header of the same kind on the device
\* must have its sizes.  Nothing asks what changed since the backup.
LUKS_hdr_restore(u, f) ==
  LUKS_read_phdr(f.units) # {} /\ \A h \in LUKS_read_phdr(u) : DOMAIN h = DOMAIN f.units[0].hdr
LUKS2_hdr_restore(u, f) == LUKS2_hdr_read(f.units) # {} /\ f.end = MaxOffset

\* luksHeaderRestore: the tool does not load the device first.
crypt_header_restore(p) ==
  /\ ctx[p].st = "none" /\ ops < MaxEvents /\ file # << >>
  /\ IF Format(file.units) = 1 THEN LUKS_hdr_restore(units, file) ELSE LUKS2_hdr_restore(units, file)
  /\ BeginFresh(p, 0, << >>, << Op("restore", 0) >>, {}, {{r} : r \in Opens(file.units)})

\* crypt_repair of a header that does not load.
Repair(p) ==
  /\ ctx[p].st = "none" /\ ops < MaxEvents
  /\ units[0].kind = "luks1" /\ LUKS_read_phdr(units) = {}
  /\ \E h \in _keyslot_repair(units[0].hdr) :
       BeginFresh(p, 1, h, << Op("write", 0) >>, keep, {})

\* Both formats zero everything in front of the data, then write a header
\* without keyslots; the tool stores the first passphrase.
LUKS_wipe_header_areas == Op("wipeall", 0)
LUKS2_wipe_header_areas == Op("wipeall", 0)
_crypt_format_luks1(pass) ==
  << LUKS_wipe_header_areas, [Op("phdr", 0) EXCEPT !.hdr = LUKS_generate_phdr] >>
    \o LUKS_set_key(0, pass)
NewSlot2 == [off |-> MinOffset, len |-> AREA, salt |-> salts + 1, prio |-> PRIO_NORMAL, type |-> "luks2"]
_crypt_format_luks2(pass) ==
  << LUKS2_wipe_header_areas, [Op("hdr2", 0) EXCEPT !.hdr = << >>],
     [Op("area2", 0) EXCEPT !.salt = salts + 1, !.pass = pass],
     [Op("hdr2", 0) EXCEPT !.hdr = (0 :> NewSlot2)] >>

\* luksFormat: refused while the device is in use.
luksFormat(p) ==
  /\ ctx[p].st = "none" /\ ops < MaxEvents /\ ~active
  /\ \E pass \in Pass :
       \/ BeginFresh(p, 1, LUKS_generate_phdr, _crypt_format_luks1(pass), {}, {{<<0, pass>>}})
       \/ BeginFresh(p, 2, << >>, _crypt_format_luks2(pass), {}, {{<<0, pass>>}})

\* crypt_convert: refused while the volume is mapped.
UpPlan(h) == {<< Op("up", 0), [Op("hdr2", 0) EXCEPT !.hdr = ks] >> : ks \in LUKS2_luks1_to_luks2(h)}
DownPlan(ks) ==
  {<< Op("down", 0), Op("zero", 0), [Op("phdr", 0) EXCEPT !.hdr = h] >> : h \in LUKS2_luks2_to_luks1(ks)}
Convert(p) ==
  /\ Ready(p) /\ ~active
  /\ \E plan \in IF ctx[p].fmt = 1 THEN UpPlan(Hdr(p)) ELSE DownPlan(Hdr(p)) : Begin(p, plan, {}, {{r} : r \in Opens(units)})

Activate ==
  /\ \A p \in Procs : ctx[p].st # "busy"
  /\ ~active /\ Opens(units) # {} /\ ops < MaxEvents
  /\ active' = TRUE /\ ops' = ops + 1
  /\ UNCHANGED <<units, file, ctx, gen, moved, raced, salts, keep, revoked, torn, faults>>
------------------------------------------------------------------------------
\* Execution of a step.

\* move_keyslot_areas of n units: read as a whole, then written.
move_keyslot_areas(u, from, to, n) ==
  [x \in Units |-> IF x \in to..(to + n - 1) THEN u[x - to + from] ELSE u[x]]

WriteHdr(u, h) == [u EXCEPT ![0] = [Zero EXCEPT !.kind = "luks1", !.hdr = h]]
WriteHdr2(u, ks) == [x \in Units |-> IF x < 2 * HDR2 THEN Hdr2Unit(ks, x % HDR2) ELSE u[x]]

\* The header in memory after a step that changes it.
NewHdr(p, s) ==
  CASE s.op = "enable" -> [Hdr(p) EXCEPT ![s.slot] = [@ EXCEPT !.active = TRUE, !.salt = s.salt]]
    [] s.op = "disable" -> [Hdr(p) EXCEPT ![s.slot] = [@ EXCEPT !.active = FALSE, !.salt = 0]]
    [] s.op = "phdr" -> s.hdr
    [] OTHER -> Hdr(p)

\* The device after the step of p.
NewUnits(p, s) ==
  CASE s.op = "area" -> [x \in Units |-> IF x \in LUKS_keyslot_area(Hdr(p), s.slot)
                           THEN KeyUnit(s.salt, s.pass, x - Hdr(p)[s.slot].off) ELSE units[x]]
    [] s.op = "wipe" -> [x \in Units |-> IF x \in LUKS_keyslot_area(Hdr(p), s.slot)
                           THEN Zero ELSE units[x]]
    [] s.op \in {"enable", "disable", "write", "phdr"} -> WriteHdr(units, NewHdr(p, s))
    [] s.op = "up" -> move_keyslot_areas(units, 1, 2 * HDR2, LUKS_device_sectors(Hdr(p)) - 1)
    [] s.op = "hdr2" -> WriteHdr2(units, s.hdr)
    [] s.op = "down" -> move_keyslot_areas(units, 2 * HDR2, 1, MaxOffset - 2 * HDR2)
    [] s.op = "area2" -> [x \in Units |-> IF x \in MinOffset..(MinOffset + AREA - 1)
                            THEN KeyUnit(s.salt, s.pass, x - MinOffset) ELSE units[x]]
    [] s.op = "wipeall" -> [x \in Units |-> Zero]
    [] s.op = "zero" -> [units EXCEPT ![0] = Zero]
    [] s.op = "restore" -> [x \in Units |-> IF x < file.end THEN file.units[x] ELSE units[x]]
    [] OTHER -> units

HdrOps == {"enable", "disable", "write", "phdr", "hdr2", "restore"}

\* What is reported as destroyed: the salt the area had in the header.
Revoked(p, s) ==
  CASE s.op = "disable" -> {Hdr(p)[s.slot].salt} \ {0}
    [] s.op = "wipeall" -> 1..(salts - 1)
    [] OTHER -> {}

\* A step that succeeds; after the last one the call returns.
DoStep(p) ==
  /\ ctx[p].st = "busy" /\ ctx[p].plan # << >>
  /\ LET s == Step(p)
         fresh == s.op = "read" \/ s.op \in HdrOps
         last == Len(ctx[p].plan) = 1
         u == NewUnits(p, s)
     IN /\ s.op = "read" => LUKS_read_phdr(units) # {}
        /\ s.op = "area" => ~Hdr(p)[s.slot].active
        /\ units' = u
        /\ gen' = IF s.op \in HdrOps THEN gen + 1 ELSE gen
        /\ moved' = IF s.op \in {"hdr2", "phdr", "restore"} THEN gen' ELSE moved
        /\ ctx' = [ctx EXCEPT ![p] =
             IF last /\ s.op \in {"hdr2", "restore", "phdr"} THEN Unloaded
             ELSE [@ EXCEPT !.hdr = IF s.op = "read" THEN units[0].hdr ELSE NewHdr(p, s),
                            !.seen = IF fresh THEN gen' ELSE @,
                            !.st = IF last THEN "idle" ELSE "busy",
                            !.end = IF last THEN {} ELSE @,
                            !.plan = Tail(@)]]
        /\ revoked' = IF s.op = "restore" THEN revoked \ {u[x].salt : x \in Units}
                      ELSE revoked \cup Revoked(p, s)
        /\ torn' = IF s.op \in {"restore", "wipeall"} THEN FALSE ELSE torn
        /\ keep' = IF last THEN {S \in keep : \A E \in ctx[p].end : S \cap E = {}} \cup ctx[p].end
                   ELSE keep
  /\ UNCHANGED <<file, raced, salts, active, ops, faults>>

\* The header on the device is no longer LUKS1, or the slot is in use.
StepFails(p) ==
  /\ ctx[p].st = "busy" /\ ctx[p].plan # << >>
  /\ LET s == Step(p) IN
       \/ s.op = "read" /\ LUKS_read_phdr(units) = {}
       \/ s.op = "area" /\ Hdr(p)[s.slot].active
  /\ ctx' = [ctx EXCEPT ![p] = Unloaded]
  /\ UNCHANGED <<units, file, gen, moved, raced, salts, keep, revoked, torn, active, ops, faults>>

\* The process ends, or is killed in an operation: before a step, or with
\* the first unit of a write of several units on the device.
Partial(p, s) ==
  LET u == NewUnits(p, s)
      first == CHOOSE x \in Units : u[x] # units[x] /\ \A y \in Units : u[y] # units[y] => x <= y
  IN IF u = units THEN units ELSE [units EXCEPT ![first] = u[first]]
Kill(p) ==
  /\ ctx[p].st = "busy" /\ faults < MaxFaults
  /\ \E u \in {units, Partial(p, Step(p))} :
       /\ units' = u
       /\ torn' = (torn \/ Step(p).op \in {"hdr2", "zero", "phdr"}
                       \/ (Step(p).op \in LayoutOps /\ u # units))
  /\ gen' = IF torn' \/ units'[0] # units[0] THEN gen + 1 ELSE gen
  /\ moved' = IF torn' THEN gen' ELSE moved
  /\ ctx' = [ctx EXCEPT ![p] = Unloaded]
  /\ faults' = faults + 1
  /\ UNCHANGED <<file, raced, salts, keep, revoked, active, ops>>
Exit(p) ==
  /\ ctx[p].st = "idle"
  /\ ctx' = [ctx EXCEPT ![p] = Unloaded]
  /\ UNCHANGED <<units, file, gen, moved, raced, salts, keep, revoked, torn, active, ops, faults>>
------------------------------------------------------------------------------
\* A freshly formatted device with passphrases in its first slots.
Filled(h) ==
  [x \in Units |->
     IF \E i \in DOMAIN h : x \in h[i].off..(h[i].off + AREA - 1)
       THEN LET i == CHOOSE j \in DOMAIN h : x \in h[j].off..(h[j].off + AREA - 1)
            IN KeyUnit(h[i].salt, InitPass[i + 1], x - h[i].off)
       ELSE Zero]
Used == 0..(Len(InitPass) - 1)

\* LUKS1 as formatted; LUKS1 with the offset of an unused slot damaged; LUKS2
\* whose slots were swapped by a change of their passphrases.
Init1 == [i \in Slots |-> [LUKS_generate_phdr[i] EXCEPT !.active = i \in Used,
                                                       !.salt = IF i \in Used THEN i + 1 ELSE 0]]
Damaged1 == [i \in Slots |-> IF i = NUMKEYS - 1 THEN [Init1[i] EXCEPT !.off = 2] ELSE Init1[i]]
Init2 == [i \in Used |-> [off |-> MinOffset + (Len(InitPass) - i) * AREA, len |-> AREA,
                          salt |-> i + 1, prio |-> PRIO_NORMAL, type |-> "luks2"]]
Init ==
  /\ units \in {WriteHdr(Filled([i \in Used |-> Init1[i]]), Init1),
                WriteHdr(Filled([i \in Used |-> Init1[i]]), Damaged1),
                WriteHdr2(Filled(Init2), Init2)}
  /\ file = << >> /\ ctx = [p \in Procs |-> Unloaded]
  /\ gen = 0 /\ moved = 0 /\ raced = {} /\ salts = Len(InitPass)
  /\ keep = {{<<i, InitPass[i + 1]>>} : i \in Used} /\ revoked = {} /\ torn = FALSE
  /\ active = FALSE /\ ops = 0 /\ faults = 0

Next ==
  \/ Activate
  \/ \E p \in Procs :
       \/ Load(p) \/ AddKey(p) \/ ChangeKey(p) \/ KillSlot(p) \/ Erase(p)
       \/ LUKS_hdr_uuid_set(p) \/ crypt_header_backup(p) \/ crypt_header_restore(p)
       \/ luksFormat(p) \/ Repair(p) \/ Convert(p)
       \/ DoStep(p) \/ StepFails(p) \/ Kill(p) \/ Exit(p)

Spec == Init /\ [][Next]_vars
------------------------------------------------------------------------------
\* Properties.

\* Headers, plans and promises keep their types, and no keyslot area leaves
\* the header area.
TypeOK ==
  /\ units \in [Units -> [kind : {"zero", "key", "luks1", "luks2"}, salt : 0..salts,
                          pass : Pass \cup {"none"}, key : {VKey, NoKey}, part : 0..(AREA + HDR2),
                          of : {0, AREA}, hdr : {units[x].hdr : x \in Units}]]
  /\ \A x \in Units : units[x].kind = "luks1" =>
       units[x].hdr \in [Slots -> [active : BOOLEAN, off : Units, salt : 0..salts]]
  /\ \A p \in Procs : ctx[p].st \in {"none", "idle", "busy"} /\ ctx[p].fmt \in 0..2
  /\ \A p \in Procs : (ctx[p].st = "busy") = (ctx[p].plan # << >>)
  /\ revoked \subseteq 1..salts /\ moved \in 0..gen /\ raced \subseteq {"slots", "layout"}

\* Whatever was stored, repaired, converted or restored can be loaded again:
\* no operation leaves a header whose keyslot areas overlap each other, the
\* header or the data (LUKS_check_keyslots, LUKS2_hdr_validate).
HeaderLoadable ==
  \/ raced # {} \/ torn \/ units[0].hdr = Damaged1
  \/ \E p \in Procs : ctx[p].st = "busy" /\ Step(p).op \in {"hdr2", "zero", "phdr", "wipeall"}
  \/ Loadable(units) # {}

\* Without concurrent writers a passphrase that was reported as stored opens
\* the volume until it is removed, whatever is converted or killed since; a
\* kill during a change leaves the old one or the new one.
StoredOpens == raced # {} \/ units[0].hdr = Damaged1 \/ \A S \in keep : S \cap Opens(units) # {}

\* The material of a destroyed keyslot is not complete anywhere on the device,
\* also after the areas have been moved by a conversion and although other
\* processes write keyslots at the same time, unless it was put back from a
\* backup (LUKS_del_key).
DestroyedIsGone ==
  torn \/ "layout" \in raced \/ \A s \in revoked : \E i \in 0..(AREA - 1) :
    \A x \in Units : ~(units[x].salt = s /\ units[x].part = i)

\* A conversion that returns keeps every passphrase and its slot number, in
\* both directions (crypt_convert).
ConversionKeepsSlots ==
  [][\A p \in Procs :
       (ctx[p].st = "busy" /\ ctx[p].end # {} /\ ctx'[p].st = "none" /\ ~torn' /\ raced' = {}
        /\ Step(p).op \in {"hdr2", "phdr"})
         => Opens(units') = UNION ctx[p].end]_vars
==============================================================================
