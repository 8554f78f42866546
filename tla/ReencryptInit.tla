--------------------------- MODULE ReencryptInit ---------------------------
(***************************************************************************)
(* How `cryptsetup reencrypt` starts a LUKS2 reencryption, takes it up     *)
(* again and repairs its metadata (src/utils_reencrypt.c, reencrypt_init,  *)
(* reencrypt_decrypt_with_datashift_init and reencrypt_repair of           *)
(* lib/luks2/luks2_reencrypt.c).  The conversion itself is in Reencrypt.   *)
(*                                                                         *)
(* Scenarios of one device:                                                *)
(*   encrypt      in place: a temporary header, the head of the data moved *)
(*                to the tail, the header put at the head                  *)
(*   encrypt_hdr  with a detached header                                   *)
(*   decrypt      header exported to a file, the head of the data moved    *)
(*                over the header                                          *)
(*   decrypt_hdr  with a detached header                                   *)
(*   reencrypt    new volume key, a new keyslot for every passphrase       *)
(*   legacy       a reencryption that an old version began                 *)
(* One command runs at a time; any write may fail, before or after it took *)
(* effect, and the process may be killed at every step.                    *)
(***************************************************************************)
EXTENDS ReencryptMeta

CONSTANTS
  Scenarios,   \* the scenarios of the run
  MaxSlots,    \* keyslots of a header
  Passes,      \* passphrases of the initial keyslots 0, 1, ...
  VolumeKeys,  \* the volume key the first, the second, ... command generates
  Aligns,      \* block sizes the device may report
  MovedSizes,  \* sizes of the moved segment (--hotzone-size)
  MaxCommands, MaxFaults, MaxKills

ASSUME InitConstants ==
  /\ Scenarios \subseteq {"encrypt", "encrypt_hdr", "decrypt", "decrypt_hdr", "reencrypt", "legacy"}
  /\ MaxSlots \in Nat \ {0} /\ Passes \in Seq(STRING) /\ Passes # <<>> /\ Len(Passes) + 2 <= MaxSlots
  /\ VolumeKeys \in Seq(STRING) /\ MaxCommands <= Len(VolumeKeys)
  /\ \A i \in DOMAIN VolumeKeys : VolumeKeys[i] \notin {"none", "old", "reencrypt"}
  /\ Aligns \subseteq Nat \ {0} /\ MovedSizes \subseteq Nat \ {0} /\ MovedSizes # {}
  /\ MaxCommands \in Nat /\ MaxFaults \in Nat /\ MaxKills \in Nat

VARIABLES
  scenario, align,
  head,     \* head of the data device: data, hdr, wiped, junk or moved
  tail,     \* tail of the data device: free, junk or copy (of the head)
  dev,      \* LUKS2 header at the head (while head = hdr)
  file,     \* header file: its state and its LUKS2 header
  dm,       \* tables of the active device: old or new segments
  beyond,   \* faults no error path makes up for: late, undo, restore
  proc,     \* the command that runs
  before,   \* what the last command found
  last,     \* how it ended
  commands, faults, kills

disk == <<head, tail, dev, file>>
vars == <<scenario, align, disk, dm, beyond, proc, before, last, commands, faults, kills>>

-----------------------------------------------------------------------------
(* Headers *)

Slots   == 0..(MaxSlots - 1)
NoSlot  == [pass |-> "none", key |-> "none"]
Slot(pass, key) == [pass |-> pass, key |-> key]
Blank(slots) == [req |-> 0, ks |-> NoKs, moved |-> 0, old |-> "none", new |-> "none",
                 digest |-> {}, slots |-> slots]
NoHdr   == Blank([i \in Slots |-> NoSlot])
Absent  == [st |-> "absent", hdr |-> NoHdr]
Damaged == [st |-> "junk", hdr |-> NoHdr]
File(h) == [st |-> "ok", hdr |-> h]

Free(h)   == {i \in Slots : h.slots[i] = NoSlot}
Lowest(S) == CHOOSE i \in S : \A j \in S : i <= j
Active(h) == {i \in Slots : h.slots[i].key = "old"}
Opened(h, pass) == {h.slots[i].key : i \in {j \in Slots : h.slots[j].pass = pass}}
PassSet == {Passes[i] : i \in DOMAIN Passes}

\* LUKS2_keyslot_open_all_segments: one passphrase opens every key that is needed.
Unlocked(h, need) == IF \E p \in PassSet : need \subseteq Opened(h, p) THEN need ELSE {}
Needed(h) == {h.old, h.new} \ {"none"}

\* The header the command works on.
Hdr == IF proc.md = "file" THEN file.hdr ELSE dev
PutHdr(h) == IF proc.md = "file" THEN file' = File(h) /\ dev' = dev
                                 ELSE dev' = h /\ file' = file

luks2_reencrypt_in_progress(h) == IF h.req > 0 THEN "luks2_reencrypt" ELSE "luks2"
load_luks(md) ==
  CASE md = "file" -> IF file.st = "ok" THEN luks2_reencrypt_in_progress(file.hdr) ELSE "not_luks"
    [] md = "dev"  -> IF head = "hdr" THEN luks2_reencrypt_in_progress(dev) ELSE "not_luks"

-----------------------------------------------------------------------------
(* Commands *)

Idle == [pc |-> "idle", op |-> "none", md |-> "none", res |-> "unset", hash |-> "unset",
         shift |-> 0, size |-> 0, all |-> TRUE, keep |-> FALSE, online |-> FALSE,
         initonly |-> FALSE, init |-> FALSE, todo |-> {}, added |-> {}]

Detached == scenario \in {"encrypt_hdr", "decrypt_hdr"}
Temp     == scenario = "encrypt"

Op(sc) == CASE sc \in {"encrypt", "encrypt_hdr"} -> {"encrypt"}
            [] sc \in {"decrypt", "decrypt_hdr"} -> {"decrypt"}
            [] sc = "reencrypt"                  -> {"reencrypt"}
            [] sc = "legacy"                     -> {"reencrypt", "repair"}

\* Options given to a command: --resilience and its hash, --reduce-device-size,
\* --hotzone-size, --key-slot, --keep-key, an active name and --init-only.
Resilience == ((Resiliences \cup {"unset"}) \X {"unset"})
                \cup ({"checksum", "datashift-checksum"} \X (Hashes \cup {"unknown"}))
Options ==
  [op     : Op(scenario),
   res    : Resilience,
   shift  : CASE scenario \in {"encrypt", "decrypt"}       -> {1}
              [] scenario \in {"encrypt_hdr", "reencrypt"} -> {0, 1}
              [] OTHER                                     -> {0},
   size   : IF scenario = "decrypt" THEN MovedSizes ELSE {Lowest(MovedSizes)},
   keys   : IF scenario = "reencrypt" THEN {"all", "one", "keep"} ELSE {"all"},
   online : IF dm.live = "none" THEN {FALSE} ELSE BOOLEAN,
   initonly : BOOLEAN]

\* reencrypt(), _encrypt, _decrypt, _reencrypt: where a command goes; "error"
\* when it ends before it changed anything.
EncryptTo(st) ==
  CASE st = "luks2_reencrypt" -> "load"
    [] st = "not_luks" /\ head # "junk" /\ (Detached => file.st # "junk") -> "e_create"
    [] OTHER -> "error"

DecryptTo(st) ==
  CASE st = "luks2_reencrypt" -> "load"
    [] st = "not_luks" /\ file.st = "absent" /\ load_luks("dev") = "luks2" -> "d_backup"
    [] st = "luks2" /\ Detached -> "i_flag"
    [] OTHER -> "error"

ReencryptTo(st) ==
  CASE st = "luks2_reencrypt" -> "load"
    [] st = "luks2" -> "r_keyslots"
    [] OTHER -> "error"

Dispatch(o) ==
  LET md == IF scenario \in {"encrypt_hdr", "decrypt", "decrypt_hdr"} THEN "file" ELSE "dev"
      st == load_luks(md)
      to == CASE o.op = "encrypt"   -> EncryptTo(st)
              [] o.op = "decrypt"   -> DecryptTo(st)
              [] o.op = "reencrypt" -> ReencryptTo(st)
              [] o.op = "repair"    -> IF st = "luks2_reencrypt" /\ RepairNeeded(dev)
                                       THEN "repair" ELSE "error"
  IN  [pc |-> IF st = "luks2_reencrypt" /\ o.initonly THEN "error" ELSE to,
       md |-> IF to \in {"e_create", "d_backup"} THEN "file" ELSE md]

reencrypt(o) ==
  /\ proc = Idle /\ commands < MaxCommands
  /\ Dispatch(o).pc # "error"
  /\ proc' = [Idle EXCEPT !.pc = Dispatch(o).pc, !.md = Dispatch(o).md, !.op = o.op,
                          !.res = o.res[1], !.hash = o.res[2], !.shift = o.shift, !.size = o.size,
                          !.all = o.keys = "all", !.keep = o.keys = "keep", !.online = o.online,
                          !.initonly = o.initonly, !.init = Dispatch(o).pc # "load"]
  /\ before' = [head |-> head, dev |-> dev, file |-> file, dm |-> dm]
  /\ last' = "running" /\ commands' = commands + 1
  /\ UNCHANGED <<scenario, align, disk, dm, beyond, faults, kills>>

Goto(pc) == proc' = [proc EXCEPT !.pc = pc] /\ last' = last
Ends(how) == proc' = Idle /\ last' = how
Fixed == UNCHANGED <<scenario, align, before, commands, kills>>

\* A call that works, or one that fails: by a fault, or because it cannot work.
Works == faults' = faults /\ beyond' = beyond
FailsIf(can) == /\ can => faults < MaxFaults
                /\ faults' = IF can THEN faults + 1 ELSE faults
                /\ beyond' = beyond
Fault == FailsIf(TRUE)
FaultBeyond(what) == /\ faults < MaxFaults /\ faults' = faults + 1
                     /\ beyond' = beyond \cup {what}

\* A header write: done, failed, or done and reported as failed (the second
\* copy could not be written).
HdrWrite(h, ok, failed) ==
  /\ \/ PutHdr(h) /\ Goto(ok) /\ Works
     \/ UNCHANGED <<dev, file>> /\ Goto(failed) /\ Fault
     \/ PutHdr(h) /\ Goto(failed) /\ FaultBeyond("late")
  /\ UNCHANGED <<head, tail, dm>>

-----------------------------------------------------------------------------
(* The metadata of an initialization.  The keys are those the passphrases of
   the command open; the requirement flag and everything else is one write. *)

Default(o) == IF proc.res = "unset" THEN o ELSE proc.res
HashOf == IF proc.hash = "unset" THEN "sha256" ELSE proc.hash
InitParams ==
  [res   |-> CASE scenario = "decrypt" -> proc.res
               [] proc.shift > 0       -> "datashift"
               [] OTHER                -> Default("checksum"),
   hash  |-> HashOf, shift |-> proc.shift]

\* decrypt_luks2_datashift_init translates the option before it asks for a passphrase.
DecryptParams ==
  decrypt_verify_and_set_params([res |-> "datashift-checksum", hash |-> HashOf, shift |-> proc.shift],
                                proc.res)

\* The volume key the command generates.
NewKey == VolumeKeys[commands]

WithReencSlot(h) == [h EXCEPT !.slots[Lowest(Free(h))] = Slot("none", "reencrypt")]

reencrypt_init(h, params) ==
  LET moved == IF scenario \in {"encrypt", "decrypt"} THEN proc.size ELSE 0
      old   == IF proc.op = "encrypt" THEN "none" ELSE "old"
      new   == CASE proc.op = "decrypt" -> "none" [] proc.keep -> "old" [] OTHER -> NewKey
      dir   == IF (proc.op = "decrypt") = (proc.shift > 0) THEN "forward" ELSE "backward"
      ver   == IF scenario = "decrypt" THEN 3 ELSE 2
      keys  == Unlocked(h, {old, new} \ {"none"})
  IN  IF Free(h) = {} THEN {}
      ELSE {g \in Initialized(WithReencSlot(h), proc.op, dir, params, moved, old, new, align, keys, ver) :
              scenario = "decrypt" => MovedFits(g.ks, moved)}

InitFlag(pc, ok, failed) ==
  /\ proc.pc = pc
  /\ \E h \in reencrypt_init(Hdr, InitParams) : HdrWrite(h, ok, failed)
  /\ Fixed

\* The parameters are refused.  In place there is nothing to refuse any more:
\* the checks came before the move.
InitRefused ==
  /\ proc.pc \in {"e_flag", "i_flag", "r_flag"}
  /\ reencrypt_init(Hdr, InitParams) = {}
  /\ Goto(CASE proc.pc = "e_flag" -> "e_destroy" [] proc.pc = "i_flag" -> "failed" [] OTHER -> "r_undo")
  /\ Works /\ UNCHANGED <<disk, dm>> /\ Fixed

-----------------------------------------------------------------------------
(* Encryption: encrypt_luks2_init *)

encrypt_create ==
  /\ proc.pc = "e_create"
  /\ \/ Temp /\ file' = Damaged /\ Goto("e_format") /\ Works
     \/ ~Temp /\ file' = file /\ Goto("e_format") /\ Works
     \/ Temp /\ file' = file /\ Ends("failed") /\ Fault
  /\ UNCHANGED <<head, tail, dev, dm>> /\ Fixed

\* luksFormat writes a header and then its first keyslot.
luksFormat ==
  /\ proc.pc \in {"e_format", "e_keyslot"}
  /\ IF proc.pc = "e_format" THEN HdrWrite(NoHdr, "e_keyslot", "e_out")
     ELSE HdrWrite([NoHdr EXCEPT !.slots[0] = Slot(Passes[1], NewKey)],
                   IF Temp THEN "e_move" ELSE "e_flag", "e_out")
  /\ Fixed

\* The checks of reencrypt_init (sizes, exclusive open) and reencrypt_move_data
\* of the first segment.
encrypt_move ==
  /\ proc.pc = "e_move"
  /\ \/ tail' = (IF head = "data" THEN "copy" ELSE "junk") /\ Goto("e_flag") /\ Works
     \/ tail' \in {tail, "junk"} /\ Goto("e_destroy") /\ Fault
  /\ UNCHANGED <<head, dev, file, dm>> /\ Fixed

encrypt_flag ==
  InitFlag("e_flag", IF Temp THEN "e_restore" ELSE IF proc.initonly THEN "done" ELSE "load",
           "e_destroy")

\* crypt_keyslot_destroy; refused while the header is in reencryption.
encrypt_destroy ==
  /\ proc.pc = "e_destroy"
  /\ IF file.hdr.req = 0
     THEN /\ \/ PutHdr([file.hdr EXCEPT !.slots[0] = NoSlot]) /\ Works
             \/ UNCHANGED <<dev, file>> /\ FaultBeyond("undo")
          /\ Goto("e_out") /\ UNCHANGED <<head, tail, dm>>
     ELSE Goto("e_out") /\ Works /\ UNCHANGED <<disk, dm>>
  /\ Fixed

\* LUKS2_hdr_restore writes header and keyslot areas from the start of the device
\* on: interrupted, it leaves a broken header or one with dead keyslots.
Restoring ==
  {<<head, dev>>, <<"junk", dev>>} \cup
  {<<"hdr", [file.hdr EXCEPT !.slots = [i \in Slots |-> Slot("none", file.hdr.slots[i].key)]]>>}

LUKS2_hdr_restore(ok, failed) ==
  \/ head' = "hdr" /\ dev' = file.hdr /\ Works /\ ok
  \/ (\E r \in Restoring : head' = r[1] /\ dev' = r[2]) /\ FaultBeyond("restore") /\ failed

encrypt_restore ==
  /\ proc.pc = "e_restore"
  /\ LUKS2_hdr_restore(/\ proc' = [proc EXCEPT !.pc = IF proc.initonly THEN "done" ELSE "load",
                                               !.md = "dev"]
                       /\ last' = last,
                       Goto("e_out"))
  /\ UNCHANGED <<tail, file, dm>> /\ Fixed

\* The label out of a failed encryption: the temporary header is unlinked.
encrypt_out ==
  /\ proc.pc = "e_out"
  /\ file' = IF Temp THEN Absent ELSE file
  /\ Ends("failed") /\ Works
  /\ UNCHANGED <<head, tail, dev, dm>> /\ Fixed

-----------------------------------------------------------------------------
(* Decryption with data shift: decrypt_luks2_datashift_init *)

decrypt_backup ==
  /\ proc.pc = "d_backup"
  /\ \/ DecryptParams # {} /\ file' = File(dev) /\ Works
        /\ \E p \in DecryptParams :
             proc' = [proc EXCEPT !.pc = "d_wipe", !.res = p.res] /\ last' = last
     \/ DecryptParams # {} /\ file' = Damaged /\ Ends("failed") /\ Fault
     \/ DecryptParams = {} /\ file' = file /\ Ends("failed") /\ Works
  /\ UNCHANGED <<head, tail, dev, dm>> /\ Fixed

\* tools_wipe_all_signatures opens the device exclusively when no active name is
\* given.  The calls before it (open, fchmod, load) only remove the file again.
decrypt_wipe ==
  LET can == proc.online \/ dm.live = "none"
  IN  /\ proc.pc = "d_wipe"
      /\ \/ can /\ head' = "wiped" /\ file' = file /\ Goto("d_init") /\ Works
         \/ head' \in (IF can THEN {head, "wiped"} ELSE {head}) /\ file' = file
            /\ Goto("d_unwipe") /\ FailsIf(can)
         \/ head' = head /\ file' = Absent /\ Ends("failed") /\ Fault
      /\ UNCHANGED <<tail, dev, dm>> /\ Fixed

UnwipeMut ==
  /\ proc.pc \in {"d_unwipe", "d_restore"}
  /\ LUKS2_hdr_restore(file' = Absent /\ Ends("failed"), file' = Absent /\ Ends("failed"))
  /\ UNCHANGED <<tail, dm>> /\ Fixed

\* The header file goes only when the header is back on the device.
decrypt_unwipe ==
  /\ proc.pc \in {"d_unwipe", "d_restore"}
  /\ LUKS2_hdr_restore(file' = Absent /\ Ends("failed"), file' = file /\ Ends("failed"))
  /\ UNCHANGED <<tail, dm>> /\ Fixed

DecryptFailedMut == IF proc.online THEN "d_cleared" ELSE "d_status"

\* Checks, keys and digest; then the active device gets the new table, inactive.
DecryptFailed == IF proc.online THEN "d_clear" ELSE "d_status"

decrypt_reload ==
  LET can == reencrypt_init(file.hdr, InitParams) # {} /\ (proc.online => dm.live = "old")
  IN  /\ proc.pc = "d_init"
      /\ \/ can /\ ~proc.online /\ dm' = dm /\ Goto("d_move") /\ Works
         \/ can /\ proc.online /\ dm' = [dm EXCEPT !.inactive = "new"] /\ Goto("d_suspend") /\ Works
         \/ dm' = dm /\ Goto("d_status") /\ FailsIf(can)
      /\ UNCHANGED disk /\ Fixed

decrypt_suspend ==
  /\ proc.pc = "d_suspend"
  /\ \/ dm' = [dm EXCEPT !.susp = TRUE] /\ Goto("d_move") /\ Works
     \/ dm' = dm /\ Goto("d_clear") /\ Fault
  /\ UNCHANGED disk /\ Fixed

decrypt_move ==
  /\ proc.pc = "d_move"
  /\ \/ head' = "moved" /\ Goto("d_flag") /\ Works
     \/ head' \in {head, "junk"} /\ Goto(DecryptFailed) /\ Fault
  /\ UNCHANGED <<tail, dev, file, dm>> /\ Fixed

decrypt_flag == InitFlag("d_flag", "d_resume", DecryptFailed)

\* Out of the function, after success and, with the inactive table cleared, after
\* a failure.  A failed resume is only reported.
dm_resume_device ==
  LET resumed == [live |-> IF dm.inactive = "none" THEN dm.live ELSE dm.inactive,
                  inactive |-> "none", susp |-> FALSE]
  IN  /\ proc.pc \in {"d_resume", "d_cleared"}
      /\ \/ proc.online /\ dm' = resumed /\ Works
         \/ proc.online /\ dm' = dm /\ FaultBeyond("undo")
         \/ ~proc.online /\ dm' = dm /\ Works
      /\ Goto(IF proc.pc = "d_cleared" THEN "d_status" ELSE IF proc.initonly THEN "done" ELSE "load")
      /\ UNCHANGED disk /\ Fixed

dm_clear_device ==
  /\ proc.pc = "d_clear"
  /\ \/ dm' = [dm EXCEPT !.inactive = "none"] /\ Goto("d_cleared") /\ Works
     \/ dm' = dm /\ Goto("d_status") /\ FaultBeyond("undo")
  /\ UNCHANGED disk /\ Fixed

\* The header is read back (LUKS2_hdr_rollback): restored when it is not in reencryption.
decrypt_status ==
  /\ proc.pc = "d_status"
  /\ IF file.hdr.req = 0 THEN Goto("d_restore") ELSE Ends("failed")
  /\ Works /\ UNCHANGED <<disk, dm>> /\ Fixed

\* decrypt_luks2_init, with a detached header.
decrypt_luks2_init == InitFlag("i_flag", IF proc.initonly THEN "done" ELSE "load", "failed")

-----------------------------------------------------------------------------
(* Reencryption: reencrypt_luks2_init *)

Unbound(h) == {i \in Slots : h.slots[i].key \notin {"none", "old", "reencrypt"}}

_check_luks2_keyslots(h) ==
  LET active == Cardinality(Active(h))
      unbound == Cardinality(Unbound(h))
      new == IF proc.keep THEN 0 ELSE 1
  IN  /\ active + unbound + new + 1 <= MaxSlots
      /\ ~proc.keep /\ proc.all => 2 * active + unbound + 1 <= MaxSlots

\* fill_keyslot_passwords: every active keyslot, or the one of --key-slot.
fill_keyslot_passwords ==
  /\ proc.pc = "r_keyslots"
  /\ LET act == Active(dev)
         can == _check_luks2_keyslots(dev) /\ act # {}
     IN  \/ /\ can
            /\ \E S \in IF proc.all THEN {act} ELSE {{i} : i \in act} :
                 proc' = [proc EXCEPT !.todo = IF proc.keep THEN {} ELSE S,
                                      !.pc = IF proc.keep THEN "r_flag" ELSE "r_add"]
            /\ last' = last
         \/ ~can /\ Ends("failed")
  /\ Works /\ UNCHANGED <<disk, dm>> /\ Fixed

\* crypt_keyslot_add_by_key of the new key under the passphrase of keyslot i.
AddKeyslot(i) ==
  LET j == Lowest(Free(dev))
      h == [dev EXCEPT !.slots[j] = Slot(dev.slots[i].pass, NewKey)]
      rest == proc.todo \ {i}
      next == IF rest = {} THEN "r_flag" ELSE "r_add"
  IN  /\ file' = file
      /\ \/ dev' = h /\ Works
            /\ proc' = [proc EXCEPT !.todo = rest, !.added = @ \cup {j}, !.pc = next]
         \/ dev' = dev /\ Fault /\ proc' = [proc EXCEPT !.pc = "r_undo"]
         \/ dev' = h /\ FaultBeyond("late") /\ proc' = [proc EXCEPT !.pc = "r_undo"]

crypt_keyslot_add_by_key ==
  /\ proc.pc = "r_add"
  /\ AddKeyslot(Lowest(proc.todo))
  /\ last' = last /\ UNCHANGED <<head, tail, dm>> /\ Fixed

reencrypt_flag == InitFlag("r_flag", IF proc.initonly THEN "done" ELSE "load", "r_undo")

KeyslotDestroyMut ==
  /\ proc.pc = "r_undo"
  /\ Ends("failed") /\ Works /\ UNCHANGED <<dev, file>>
  /\ UNCHANGED <<head, tail, dm>> /\ Fixed

\* Out: the new keyslots go, one by one, unless the header is in reencryption.
crypt_keyslot_destroy ==
  /\ proc.pc = "r_undo"
  /\ IF proc.added # {} /\ dev.req = 0
     THEN LET j == Lowest(proc.added)
              h == [dev EXCEPT !.slots[j] = NoSlot]
          IN  /\ proc' = [proc EXCEPT !.added = @ \ {j}] /\ last' = last /\ file' = file
              /\ (dev' = h /\ Works) \/ (dev' \in {dev, h} /\ FaultBeyond("undo"))
     ELSE Ends("failed") /\ Works /\ UNCHANGED <<dev, file>>
  /\ UNCHANGED <<head, tail, dm>> /\ Fixed

-----------------------------------------------------------------------------
(* Resuming: reencrypt_luks2_load and reencrypt_load_by_passphrase *)

\* Parameters of a load: those of the initialization that goes on, or the options.
LoadParams ==
  IF proc.init THEN {InitParams}
  ELSE reencrypt_verify_and_update_params(LUKS2_reencrypt_get_params(Hdr), proc.op, proc.res, proc.hash)

LoadOK(p) ==
  /\ reencrypt_verify_resilience_params(p, Hdr.moved > 0)
  /\ Unlocked(Hdr, Needed(Hdr)) # {}
  /\ IF proc.online THEN dm.live = (IF Hdr.moved > 0 THEN "new" ELSE "old") ELSE dm.live = "none"

\* The headers a load writes; the header itself when no update is needed.
Loaded(p) ==
  IF reenc_keyslot_update_needed(Hdr.ks.area, p, align)
  THEN LUKS2_keyslot_reencrypt_update(Hdr, p, align, Needed(Hdr)) ELSE {Hdr}

CanLoad == {p \in LoadParams : LoadOK(p) /\ \E h \in Loaded(p) : LUKS2_reencrypt_digest_verify(h, Needed(h))}

reencrypt_luks2_load ==
  /\ proc.pc = "load"
  /\ \/ \E p \in CanLoad : \E h \in Loaded(p) : HdrWrite(h, "done", "failed")
     \/ CanLoad = {} /\ Goto("failed") /\ Works /\ UNCHANGED <<disk, dm>>
  /\ Fixed

\* The command is over; a temporary header of its own is unlinked either way.
Finish ==
  /\ proc.pc \in {"done", "failed"}
  /\ file' = IF Temp /\ proc.init THEN Absent ELSE file
  /\ Ends(IF proc.pc = "done" THEN "ok" ELSE "failed") /\ Works
  /\ UNCHANGED <<head, tail, dev, dm>> /\ Fixed

reencrypt_repair_by_passphrase ==
  /\ proc.pc = "repair"
  /\ \E h \in reencrypt_repair(dev, Unlocked(dev, Needed(dev))) : HdrWrite(h, "done", "failed")
  /\ Fixed

-----------------------------------------------------------------------------
(* Kills and the user *)

\* What a write leaves that is cut off in the middle.
Partial ==
  CASE proc.pc = "e_move"    -> {<<head, "junk", dev>>, <<head, tail, dev>>}
    [] proc.pc = "d_move"    -> {<<"junk", tail, dev>>, <<head, tail, dev>>}
    [] proc.pc = "d_wipe"    -> {<<"wiped", tail, dev>>, <<head, tail, dev>>}
    [] proc.pc \in {"e_restore", "d_unwipe", "d_restore"} -> {<<r[1], tail, r[2]>> : r \in Restoring}
    [] OTHER                 -> {<<head, tail, dev>>}

Kill ==
  /\ proc # Idle /\ kills < MaxKills
  /\ \E r \in Partial : head' = r[1] /\ tail' = r[2] /\ dev' = r[3]
  /\ Ends("killed")
  /\ kills' = kills + 1
  /\ UNCHANGED <<scenario, align, file, dm, beyond, before, commands, faults>>

\* luksHeaderRestore of the exported header, which is then removed.
luksHeaderRestore ==
  /\ scenario = "decrypt" /\ proc = Idle /\ last = "killed"
  /\ file.st = "ok" /\ file.hdr.req = 0 /\ ~dm.susp
  /\ head' = "hdr" /\ dev' = file.hdr /\ file' = Absent
  /\ last' = "restored"
  /\ UNCHANGED <<scenario, align, tail, dm, beyond, proc, before, commands, faults, kills>>

\* The device reports another block size (it was moved to other storage).
Realign ==
  /\ proc = Idle /\ commands = 1
  /\ align' \in Aligns \ {align}
  /\ UNCHANGED <<scenario, disk, dm, beyond, proc, before, last, commands, faults, kills>>

-----------------------------------------------------------------------------
Started(sc) ==
  Blank([i \in Slots |-> IF i + 1 \in DOMAIN Passes /\ sc # "encrypt"
                         THEN Slot(Passes[i + 1], "old") ELSE NoSlot])

Legacy ==
  LET n == Len(Passes)
  IN  [req |-> 1, moved |-> 0, old |-> "old", new |-> "new0", digest |-> {},
       ks |-> [mode |-> "reencrypt", dir |-> "forward",
               area |-> [type |-> "checksum", hash |-> "sha256", block |-> 1, shift |-> 0]],
       slots |-> [i \in Slots |-> IF i = n THEN Slot(Passes[1], "new0")
                                  ELSE IF i = n + 1 THEN Slot("none", "reencrypt")
                                  ELSE Started("legacy").slots[i]]]

Init ==
  /\ scenario \in Scenarios /\ align \in Aligns
  /\ head = IF scenario \in {"decrypt", "reencrypt", "legacy"} THEN "hdr" ELSE "data"
  /\ tail = "free"
  /\ dev = CASE scenario \in {"decrypt", "reencrypt"} -> Started(scenario)
             [] scenario = "legacy" -> Legacy [] OTHER -> NoHdr
  /\ file = IF scenario = "decrypt_hdr" THEN File(Started(scenario)) ELSE Absent
  /\ dm \in {[live |-> l, inactive |-> "none", susp |-> FALSE] :
               l \in IF scenario \in {"decrypt", "decrypt_hdr"} THEN {"none", "old"} ELSE {"none"}}
  /\ proc = Idle /\ beyond = {}
  /\ before = [head |-> head, dev |-> dev, file |-> file, dm |-> dm]
  /\ last = "none" /\ commands = 0 /\ faults = 0 /\ kills = 0

Next ==
  \/ \E o \in Options : reencrypt(o)
  \/ encrypt_create \/ luksFormat \/ encrypt_move \/ encrypt_flag \/ encrypt_destroy
  \/ encrypt_restore \/ encrypt_out
  \/ decrypt_backup \/ decrypt_wipe \/ decrypt_unwipe \/ decrypt_reload \/ decrypt_suspend
  \/ decrypt_move \/ decrypt_flag \/ dm_resume_device \/ dm_clear_device \/ decrypt_status
  \/ decrypt_luks2_init
  \/ InitRefused
  \/ fill_keyslot_passwords \/ crypt_keyslot_add_by_key \/ reencrypt_flag \/ crypt_keyslot_destroy
  \/ reencrypt_luks2_load \/ reencrypt_repair_by_passphrase \/ Finish
  \/ Kill \/ luksHeaderRestore \/ Realign

Spec == Init /\ [][Next]_vars

-----------------------------------------------------------------------------
(* Properties *)

Stored == {h \in {dev} : head = "hdr"} \cup {f.hdr : f \in {x \in {file} : x.st = "ok"}}
InReencryption(h) == h.req > 0

EncryptPcs == {"e_create", "e_format", "e_keyslot", "e_move", "e_flag", "e_destroy", "e_restore", "e_out"}
DecryptPcs == {"d_backup", "d_wipe", "d_unwipe", "d_init", "d_suspend", "d_move", "d_flag", "d_resume",
               "d_clear", "d_cleared", "d_status", "d_restore"}
ReencryptPcs == {"r_keyslots", "r_add", "r_flag", "r_undo"}
Pcs == EncryptPcs \cup DecryptPcs \cup ReencryptPcs
         \cup {"idle", "i_flag", "load", "repair", "done", "failed"}

\* A header as the metadata operations leave it.
IsHdr(h) ==
  /\ DOMAIN h = DOMAIN NoHdr /\ h.req \in 0..3 /\ DOMAIN h.slots = Slots
  /\ \A i \in Slots : DOMAIN h.slots[i] = {"pass", "key"}

\* The device, the headers, the mapping and the command stay in their ranges.
TypeOK ==
  /\ head \in {"data", "hdr", "wiped", "junk", "moved"} /\ tail \in {"free", "junk", "copy"}
  /\ scenario \in Scenarios /\ align \in Aligns /\ beyond \subseteq {"late", "undo", "restore"}
  /\ IsHdr(dev) /\ DOMAIN file = {"st", "hdr"} /\ file.st \in {"ok", "junk", "absent"} /\ IsHdr(file.hdr)
  /\ dm \in [live : {"none", "old", "new"}, inactive : {"none", "new"}, susp : BOOLEAN]
  /\ DOMAIN proc = DOMAIN Idle /\ proc.pc \in Pcs
  /\ faults \in 0..MaxFaults /\ kills \in 0..MaxKills /\ commands \in 0..MaxCommands

(* Whatever fails and whenever the process is killed, the data can be had:
   in-place encryption keeps the head of the data in one of its two places, and
   a header with the volume key, opened by every passphrase, is on the device or
   in the exported file. *)
DataSafe ==
  /\ scenario = "encrypt" => head = "data" \/ tail = "copy"
  /\ scenario \in {"decrypt", "decrypt_hdr", "reencrypt", "legacy"} =>
       \E h \in Stored : \A p \in PassSet : "old" \in Opened(h, p)

(* A header that says a first segment was moved is never there before the move
   is done (reencrypt_init: the header write is the first and only one), and the
   active device runs on the segments of the header: on the new ones only after
   the move and the header write, on the old ones only before. *)
FlagAfterMove ==
  /\ \A h \in Stored : InReencryption(h) /\ h.moved > 0 =>
       IF scenario = "encrypt" THEN tail = "copy" ELSE head = "moved"
  /\ dm.live = "new" => InReencryption(file.hdr)
  /\ scenario = "decrypt" /\ dm.live = "old" /\ InReencryption(file.hdr) => dm.susp \/ beyond # {}

(* A command that failed and was not killed leaves the device, the headers and
   the active mapping as it found them, unless the reencryption has started. *)
CleanFailure ==
  last = "failed" /\ beyond = {} /\ ~(\E h \in Stored : InReencryption(h)) =>
    /\ head = before.head /\ dm.live = before.dm.live /\ dm.susp = before.dm.susp
    /\ head = "hdr" => dev = before.dev
    /\ scenario = "encrypt" => file \in {Absent, before.file}
    /\ scenario = "decrypt" => file \in {Absent, Damaged}

(* The reencryption metadata on disk verify against their digest, whatever
   options changed the resilience, and the moved segment fits its protection. *)
DigestHolds ==
  \A h \in Stored : h.req >= 2 =>
    /\ LUKS2_reencrypt_digest_verify(h, Needed(h))
    /\ reenc_keyslot_validate(h.ks) /\ MovedFits(h.ks, h.moved)

(* When a reencryption to a new volume key starts, every passphrase that opened
   the old key opens the new one; with --key-slot, one of them does. *)
PassphrasesKept ==
  [][proc.op = "reencrypt" /\ dev.req = 0 /\ dev'.req > 0 =>
       LET both == {p \in PassSet : {dev'.old, dev'.new} \subseteq Opened(dev', p)}
       IN  IF proc.all THEN both = PassSet ELSE both # {}]_vars

=============================================================================
