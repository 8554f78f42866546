----------------------------- MODULE Reencrypt -----------------------------
(***************************************************************************)
(* Offline LUKS2 reencryption, encryption and decryption from an           *)
(* initialised header to the end (lib/luks2/luks2_reencrypt.c): the runs   *)
(* of crypt_reencrypt_run, their interruption, and crash recovery.         *)
(*                                                                         *)
(* One process at a time holds the reencryption lock, so there is one      *)
(* actor; what interferes with it are kills and power failures.  A run     *)
(* that ends with REENC_ROLLBACK, REENC_ERR or REENC_FATAL leaves the      *)
(* device as a kill at that point does.                                    *)
(*                                                                         *)
(* LUKS2_hdr_write is atomic here (Luks2Header).  A header, a block of the *)
(* data device and a block of the keyslot area have the values reads       *)
(* return (hdr, data, area) and the values the medium may hold until the   *)
(* device is synced (mhdr, mdata, marea).                                  *)
(***************************************************************************)
EXTENDS ReencryptSegments, FiniteSets

CONSTANTS
  Configs,     \* configurations to start from
  CrashIn,     \* windows (KillWindows, PowerWindows) in which a crash is considered
  MaxKills,    \* bound on kills
  MaxPowerFails, \* bound on power failures
  MaxQuits     \* bound on interruptions through the progress callback

ASSUME ReencryptConstants ==
  /\ CrashIn \subseteq {"protect", "recovered", "unsynced", "teardown", "rewipe", "none"}
  /\ MaxKills \in Nat /\ MaxPowerFails \in Nat /\ MaxQuits \in Nat

VARIABLES
  cfg,             \* configuration, constant
  data, mdata,     \* data device
  area, marea,     \* area of the reencryption keyslot
  hdr, mhdr,       \* header: segments and the online-reencrypt flag
  oldslot,         \* the keyslot of the old volume key is intact
  mem,             \* header in memory
  rh,              \* struct luks2_reencrypt
  buf,             \* rh->reenc_buffer: the blocks as read
  pos,             \* blocks of the hotzone written
  pc, ret,         \* next step; where LUKS2_hdr_write returns to
  op,              \* "run" (crypt_reencrypt_run) or "recover"
  wiped,           \* the teardown destroyed something
  kills, powerfails, quits

disk  == <<data, mdata, area, marea, hdr, mhdr, oldslot>>
proc  == <<mem, rh, buf, pos, pc, ret, op, wiped>>
count == <<kills, powerfails, quits>>
vars  == <<cfg, disk, proc, count>>

-----------------------------------------------------------------------------
(* Blocks *)

Junk == -1
JunkBlock == [key |-> "junk", iv |-> 0, d |-> Junk]
Skip == [key |-> "skip", iv |-> 0, d |-> Junk]

Enc(key, iv, d) == [key |-> key, iv |-> IF key = "plain" THEN 0 ELSE iv, d |-> d]
Dec(key, iv, b) ==
  IF b.key = key /\ (key = "plain" \/ b.iv = iv) THEN b.d ELSE Junk

(* What the block l of the user's data reads as through segments: LUKS2    *)
(* maps the segments one behind the other.                                 *)
SegmentOf(segs, l) ==
  CHOOSE i \in DOMAIN segs :
    /\ Starts(segs)[i] <= l
    /\ segs[i].size = Dynamic \/ l < Starts(segs)[i + 1]
Mapped(segs, l) ==
  \E i \in DOMAIN segs :
    /\ Starts(segs)[i] <= l
    /\ segs[i].size = Dynamic \/ l < Starts(segs)[i + 1]
KeyOf(s) == IF s.type = "linear" THEN "plain" ELSE CHOOSE k \in s.keys : TRUE
ReadThrough(segs, l) ==
  LET i == SegmentOf(segs, l)
      at == l - Starts(segs)[i]
  IN Dec(KeyOf(segs[i]), segs[i].iv + at, data[segs[i].off + at])

(* reencrypt_move_data, and the header or the gap in front. *)
InitBlock(c, b) ==
  LET off == IF EncryptShift(c) THEN 0 ELSE OldOffset(c)
      l == IF c.moved > 0 /\ b \in MovedOffset(c)..(MovedOffset(c) + c.moved - 1)
             THEN b - MovedOffset(c) ELSE b - off
      gone == EncryptShift(c) /\ b < c.head
  IN IF l \in 0..(c.size - 1) /\ ~gone THEN Enc(OldKey(c), l, l) ELSE JunkBlock

Blocks == 0..(DeviceBlocks(cfg) - 1)
Indexes == 0..(cfg.size - 1)
AreaBlocks == 1..(IF cfg.hot > cfg.moved THEN cfg.hot ELSE cfg.moved)

Init ==
  /\ cfg \in Configs
  /\ data = [b \in Blocks |-> InitBlock(cfg, b)]
  /\ mdata = [b \in Blocks |-> {data[b]}]
  /\ area = [i \in AreaBlocks |-> JunkBlock]
  /\ marea = [i \in AreaBlocks |-> {JunkBlock}]
  /\ hdr = [segs |-> InitSegments(cfg), flag |-> TRUE]
  /\ mhdr = {hdr}
  /\ oldslot = TRUE
  /\ mem = hdr
  /\ rh = NoContext
  /\ buf = <<>> /\ pos = 0
  /\ pc = "idle" /\ ret = "idle" /\ op = "run"
  /\ wiped = FALSE
  /\ kills = 0 /\ powerfails = 0 /\ quits = 0

-----------------------------------------------------------------------------
(* Loading *)

(* LUKS2_reencrypt_status *)
Status(h) ==
  IF ~h.flag THEN "none" ELSE IF InReencryption(h.segs) THEN "crash" ELSE "clean"

(* LUKS2_keyslot_open_all_segments: every way to go on, and activation,    *)
(* first unlocks the old and the new volume key.                           *)
CanUnlock == cfg.mode = "encrypt" \/ oldslot

(* rp of reencrypt_step and of reencrypt_recover_segment *)
Protection(r) ==
  IF r.offset = 0 /\ cfg.res = "datashift" /\ cfg.moved > 0 /\ cfg.mres # "unset"
    THEN cfg.mres ELSE cfg.res

(* crypt_reencrypt_init_by_passphrase: reencrypt_load_by_passphrase *)
Resume ==
  /\ pc = "idle" /\ Status(hdr) = "clean" /\ CanUnlock
  /\ rh' = LoadClean(cfg, hdr.segs)
  /\ rh' # NoContext
  /\ mem' = hdr
  /\ pc' = "loop" /\ op' = "run" /\ wiped' = FALSE
  /\ UNCHANGED <<cfg, disk, buf, pos, ret, count>>

(* LUKS2_reencrypt_locked_recovery_by_passphrase: reencrypt_load_crashed *)
Recover ==
  /\ pc = "idle" /\ Status(hdr) = "crash" /\ CanUnlock
  /\ rh' = LoadCrashed(cfg, hdr.segs)
  /\ rh' # NoContext
  /\ mem' = hdr
  /\ pc' = "recover" /\ op' = "recover" /\ wiped' = FALSE
  /\ UNCHANGED <<cfg, disk, buf, pos, ret, count>>

-----------------------------------------------------------------------------
(* LUKS2_hdr_write of the header in memory, called with a return address.  *)

Call(label) == pc' = "hdrwrite" /\ ret' = label

Sync(dataToo) ==
  /\ mhdr' = {hdr}
  /\ marea' = [i \in AreaBlocks |-> {area[i]}]
  /\ mdata' = IF dataToo THEN [b \in Blocks |-> {data[b]}] ELSE mdata

(* The process gives up or ends. *)
EndOfProcess ==
  /\ pc' = "idle" /\ ret' = "idle" /\ op' = "run"
  /\ rh' = NoContext /\ buf' = <<>> /\ pos' = 0 /\ wiped' = FALSE

(* hdr_cleanup_and_validate refuses invalid segments: REENC_ROLLBACK. *)
HdrWrite ==
  /\ pc = "hdrwrite"
  /\ IF ValidSegments(mem.segs)
       THEN /\ hdr' = mem /\ mhdr' = mhdr \cup {mem}
            /\ pc' = "hdrsync"
            /\ UNCHANGED <<mem, rh, buf, pos, ret, op, wiped>>
       ELSE /\ EndOfProcess /\ mem' = hdr
            /\ UNCHANGED <<hdr, mhdr>>
  /\ UNCHANGED <<cfg, data, mdata, area, marea, oldslot, count>>

(* device_sync of the metadata device *)
HdrSync ==
  /\ pc = "hdrsync"
  /\ Sync(cfg.attached)
  /\ IF ret = "idle" THEN EndOfProcess /\ UNCHANGED mem
     ELSE pc' = ret /\ UNCHANGED <<mem, rh, buf, pos, ret, op, wiped>>
  /\ UNCHANGED <<cfg, data, area, hdr, oldslot, count>>

-----------------------------------------------------------------------------
(* reencrypt_step *)

(* Blocks old wrapper cw1 reads: at the moved segment for the last step of *)
(* a reencryption with one.                                                *)
Source(r) ==
  IF r.offset = 0 /\ cfg.res = "datashift" /\ cfg.moved > 0
    THEN MovedOffset(cfg) ELSE OldOffset(cfg) + r.offset

(* The segments are calculated and set in memory, the hotzone is read. *)
StepStart ==
  /\ pc = "loop"
  /\ rh.devsize > rh.progress
  /\ LET hot == HotSegments(cfg, rh, mem.segs)
         post == PostSegments(cfg, rh, hot)
     IN /\ hot # <<>>
        /\ rh' = [rh EXCEPT !.hot = hot, !.post = post]
        /\ mem' = [mem EXCEPT !.segs = AssignDigests(cfg, hot, TRUE)]
  /\ buf' = [i \in 1..rh.length |-> data[Source(rh) + i - 1]]
  /\ pos' = 0
  /\ pc' = "protect"
  /\ UNCHANGED <<cfg, disk, ret, op, wiped, count>>

(* reencrypt_hotzone_protect_final: the blocks, or their checksums, go to  *)
(* the keyslot area; then the header is written.  A checksum identifies    *)
(* the block it was made of.                                               *)
Protect ==
  /\ pc = "protect"
  /\ IF Protection(rh) \in {"checksum", "journal"}
       THEN /\ area' = [i \in AreaBlocks |-> IF i <= Len(buf) THEN buf[i] ELSE area[i]]
            /\ marea' = [i \in AreaBlocks |-> marea[i] \cup {area'[i]}]
       ELSE UNCHANGED <<area, marea>>
  /\ IF Protection(rh) = "none" THEN pc' = "write" /\ UNCHANGED ret ELSE Call("write")
  /\ UNCHANGED <<cfg, data, mdata, hdr, mhdr, oldslot, mem, rh, buf, pos, op, wiped, count>>

(* crypt_storage_wrapper_encrypt_write, a block at a time.  A block that   *)
(* recovery found converted is left alone.                                 *)
WriteBlock ==
  /\ pc = "write"
  /\ pos < rh.length
  /\ pos' = pos + 1
  /\ LET iv == rh.offset + pos
         raw == buf[pos + 1]
         b == NewOffset(cfg) + rh.offset + pos
     IN IF raw = Skip THEN UNCHANGED <<data, mdata>>
        ELSE /\ data' = [data EXCEPT ![b] = Enc(NewKey(cfg), iv, Dec(OldKey(cfg), iv, raw))]
             /\ mdata' = [mdata EXCEPT ![b] = @ \cup {data'[b]}]
  /\ UNCHANGED <<cfg, area, marea, hdr, mhdr, oldslot, mem, rh, buf, pc, ret, op, wiped, count>>

SetPost == mem' = [mem EXCEPT !.segs = AssignDigests(cfg, rh.post, FALSE)]

(* Mutant: no fdatasync before the safe point. *)
DataSyncMut ==
  /\ pc = "write" /\ op = "run" /\ pos = rh.length
  /\ UNCHANGED <<mdata, mhdr, marea>>
  /\ SetPost
  /\ IF Protection(rh) # "none" THEN Call("update") ELSE pc' = "update" /\ UNCHANGED ret
  /\ UNCHANGED <<cfg, data, area, hdr, oldslot, rh, buf, pos, op, wiped, count>>

(* crypt_storage_wrapper_datasync and the commit of the post segments, in  *)
(* memory only without resilience.                                         *)
DataSync ==
  /\ pc = "write" /\ op = "run" /\ pos = rh.length
  /\ IF Protection(rh) = "none" THEN UNCHANGED <<mdata, mhdr, marea>>
     ELSE /\ mdata' = [b \in Blocks |-> {data[b]}]
          /\ IF cfg.attached
               THEN mhdr' = {hdr} /\ marea' = [i \in AreaBlocks |-> {area[i]}]
               ELSE UNCHANGED <<mhdr, marea>>
  /\ SetPost
  /\ IF Protection(rh) # "none" THEN Call("update") ELSE pc' = "update" /\ UNCHANGED ret
  /\ UNCHANGED <<cfg, data, area, hdr, oldslot, rh, buf, pos, op, wiped, count>>

Update ==
  /\ pc = "update"
  /\ rh' = ContextUpdate(cfg, rh)
  /\ buf' = <<>> /\ pos' = 0
  /\ pc' = IF op = "run" THEN "loop" ELSE "teardown"
  /\ UNCHANGED <<cfg, disk, mem, ret, op, wiped, count>>

(* The loop of crypt_reencrypt_run ends: nothing is left, or the progress  *)
(* callback asked to stop.                                                 *)
LoopEnds ==
  /\ pc = "loop"
  /\ \/ rh.devsize <= rh.progress /\ UNCHANGED quits
     \/ rh.devsize > rh.progress /\ quits < MaxQuits /\ quits' = quits + 1
  /\ pc' = "teardown"
  /\ UNCHANGED <<cfg, disk, mem, rh, buf, pos, ret, op, wiped, kills, powerfails>>

-----------------------------------------------------------------------------
(* reencrypt_recover_segment *)

(* Mutant: every checksummed block is converted again. *)
RecoverReadMut ==
  /\ pc = "recover"
  /\ buf' = [i \in 1..rh.length |-> data[NewOffset(cfg) + rh.offset + i - 1]]
  /\ pc' = "write" /\ pos' = 0
  /\ UNCHANGED <<cfg, disk, mem, rh, ret, op, wiped, count>>

(* Where the blocks of the hotzone are with data shift. *)
ShiftSource(r) ==
  LET at == NewOffset(cfg) + r.offset IN
  IF HotIndex(r.hot) = 1 THEN IF cfg.moved > 0 THEN MovedOffset(cfg) ELSE 0
  ELSE IF cfg.dir = "forward" THEN at + cfg.shift ELSE at - cfg.shift

(* The source of the hotzone: the blocks that still have the checksum of   *)
(* the old ones, the journal, or the blocks a data shift away.             *)
RecoverRead ==
  /\ pc = "recover"
  /\ LET at == NewOffset(cfg) + rh.offset IN
     buf' = [i \in 1..rh.length |->
       CASE Protection(rh) = "checksum" ->
              IF data[at + i - 1] = area[i] THEN data[at + i - 1] ELSE Skip
         [] Protection(rh) = "journal" -> area[i]
         [] Protection(rh) = "datashift" -> data[ShiftSource(rh) + i - 1]]
  /\ pc' = "write" /\ pos' = 0
  /\ UNCHANGED <<cfg, disk, mem, rh, ret, op, wiped, count>>

(* reencrypt_assign_segments, in memory only: there is neither a datasync  *)
(* nor a header write before the teardown.                                 *)
RecoverDone ==
  /\ pc = "write" /\ op = "recover" /\ pos = rh.length
  /\ SetPost
  /\ pc' = "update"
  /\ UNCHANGED <<cfg, disk, rh, buf, pos, ret, op, wiped, count>>

-----------------------------------------------------------------------------
(* reencrypt_teardown_ok *)

(* Mutant: off by one block. *)
FinishedMutNever == rh.devsize < rh.progress

Finished == ~(rh.devsize > rh.progress)

Teardown ==
  /\ pc = "teardown"
  /\ IF cfg.res = "none" THEN Call("finish") ELSE pc' = "finish" /\ UNCHANGED ret
  /\ UNCHANGED <<cfg, disk, mem, rh, buf, pos, op, wiped, count>>

(* Not finished: the run ends; recovery writes the header. *)
TeardownUnfinished ==
  /\ pc = "finish" /\ ~Finished
  /\ IF op = "recover" THEN Call("idle") /\ UNCHANGED <<rh, buf, pos, op, wiped>>
                       ELSE EndOfProcess
  /\ UNCHANGED <<cfg, disk, mem, count>>

(* reencrypt_wipe_unused_device_area *)
UnusedArea ==
  IF cfg.moved > 0 /\ cfg.mode = "encrypt"
    THEN MovedOffset(cfg)..(MovedOffset(cfg) + cfg.moved - 1)
  ELSE IF cfg.res = "datashift" /\ cfg.dir = "forward"
    THEN (DeviceBlocks(cfg) - cfg.shift)..(DeviceBlocks(cfg) - 1)
  ELSE {}

WipeUnused ==
  /\ pc = "finish" /\ Finished
  /\ data' = [b \in Blocks |-> IF b \in UnusedArea THEN JunkBlock ELSE data[b]]
  /\ mdata' = [b \in Blocks |-> mdata[b] \cup {data'[b]}]
  /\ wiped' = (UnusedArea # {})
  /\ pc' = IF cfg.mode = "encrypt" THEN "final" ELSE "slots"
  /\ UNCHANGED <<cfg, area, marea, hdr, mhdr, oldslot, mem, rh, buf, pos, ret, op, count>>

(* crypt_keyslot_destroy of the keyslots of the old volume key: their area *)
(* is wiped, then the header is written.                                   *)
DestroyOldKeyslots ==
  /\ pc = "slots"
  /\ oldslot' = FALSE /\ wiped' = TRUE
  /\ Call("final")
  /\ UNCHANGED <<cfg, data, mdata, area, marea, hdr, mhdr, mem, rh, buf, pos, op, count>>

(* The backup segments and the flag go, crypt_keyslot_destroy of the       *)
(* reencryption keyslot wipes its area and writes the header.  Recovery    *)
(* then writes it once more, which changes nothing.                        *)
RemoveFlag ==
  /\ pc = "final"
  /\ mem' = [mem EXCEPT !.flag = FALSE]
  /\ area' = [i \in AreaBlocks |-> JunkBlock]
  /\ marea' = [i \in AreaBlocks |-> marea[i] \cup {JunkBlock}]
  /\ wiped' = TRUE
  /\ Call("idle")
  /\ UNCHANGED <<cfg, data, mdata, hdr, mhdr, oldslot, rh, buf, pos, op, count>>

-----------------------------------------------------------------------------
(* Crashes *)

HotHeader(h) == Status(h) = "crash"

(* Block b of the device belongs to a segment that is not in reencryption. *)
Settled(h, b) ==
  \E i \in DOMAIN h.segs :
    LET s == h.segs[i] IN
    ~s.hot /\ b >= s.off /\ (s.size = Dynamic \/ b < s.off + s.size)

(* Blocks that header h calls converted. *)
Converted(h) ==
  IF h.flag
    THEN {l \in Indexes : LET i == SegmentOf(h.segs, l) IN
            ~h.segs[i].hot /\ KeyOf(h.segs[i]) = NewKey(cfg)}
    ELSE Indexes

Unsynced == {b \in Blocks \ UnusedArea : mdata[b] # {data[b]}}

(* Periods in which the code gives no protection:                          *)
(*  protect   the hot header may be on the medium and the area not, since  *)
(*            nothing is synced between the two writes;                    *)
(*  recovered recovered blocks may be lost although the header that calls  *)
(*            them converted is on the medium, as recovery never syncs;    *)
(*  unsynced  a process was killed before it synced the header, and the    *)
(*            next one went on from it;                                    *)
(*  teardown  all is converted and the flag is still stored;               *)
(*  rewipe    recovery destroyed what it needs while the header is hot;    *)
(*  none      no resilience was asked for: the data are never synced.      *)
KillWindows ==
  {w \in {"teardown", "rewipe", "none"} :
     \/ w = "teardown" /\ \E h \in mhdr : h.flag /\ Converted(h) = Indexes
     \/ w = "rewipe" /\ wiped /\ op = "recover" /\ \E h \in mhdr : HotHeader(h)
     \/ w = "none" /\ cfg.res = "none" /\ pc # "idle"}

PowerWindows ==
  KillWindows \cup
  {w \in {"protect", "recovered", "unsynced", "none"} :
     \/ w = "none" /\ cfg.res = "none" /\ Unsynced # {}
     \/ /\ w = "protect"
        /\ \E h \in mhdr : HotHeader(h)
        /\ \E i \in AreaBlocks : marea[i] # {area[i]}
     \/ /\ w = "recovered"
        /\ cfg.res # "none" /\ kills + powerfails > 0
        /\ \E h \in mhdr, b \in Unsynced : Settled(h, b)
     \/ /\ w = "unsynced"
        /\ kills > 0
        /\ Cardinality(mhdr) > (IF Unsynced = {} THEN 2 ELSE 1)}

(* The process is killed. *)
Kill ==
  /\ kills < MaxKills
  /\ pc # "idle"
  /\ KillWindows \subseteq CrashIn
  /\ kills' = kills + 1
  /\ EndOfProcess /\ mem' = hdr
  /\ UNCHANGED <<cfg, disk, powerfails, quits>>

(* f is what may be left of a device: of each block one of its values. *)
Survives(f, medium, device) ==
  LET dirty == {b \in DOMAIN device : medium[b] # {device[b]}} IN
  \E g \in [dirty -> UNION {medium[b] : b \in dirty}] :
    /\ \A b \in dirty : g[b] \in medium[b]
    /\ f = [b \in DOMAIN device |-> IF b \in dirty THEN g[b] ELSE device[b]]

(* The machine goes down: each block keeps one of the values written since *)
(* the last sync.                                                          *)
PowerFail ==
  /\ powerfails < MaxPowerFails
  /\ PowerWindows \subseteq CrashIn
  /\ powerfails' = powerfails + 1
  /\ Survives(data', mdata, data)
  /\ Survives(area', marea, area)
  /\ hdr' \in mhdr
  /\ mdata' = [b \in Blocks |-> {data'[b]}]
  /\ marea' = [i \in AreaBlocks |-> {area'[i]}]
  /\ mhdr' = {hdr'}
  /\ EndOfProcess /\ mem' = hdr'
  /\ UNCHANGED <<cfg, oldslot, kills, quits>>

(* Nothing is left to do. *)
Done == Status(hdr) = "none" /\ pc = "idle" /\ UNCHANGED vars

Step ==
  \/ Resume \/ Recover
  \/ HdrWrite \/ HdrSync
  \/ StepStart \/ Protect \/ WriteBlock \/ DataSync \/ Update \/ LoopEnds
  \/ RecoverRead \/ RecoverDone
  \/ Teardown \/ TeardownUnfinished \/ WipeUnused \/ DestroyOldKeyslots \/ RemoveFlag

Next == Step \/ Kill \/ PowerFail \/ Done

Spec == Init /\ [][Next]_vars

(* Reencryption is resumed, or recovered, until it is finished. *)
FairSpec == Spec /\ WF_vars(Step)

-----------------------------------------------------------------------------
(* Type correctness of the devices and of the state of the process. *)
BlockType == [key : {"plain", "old", "new", "junk", "skip"}, iv : Indexes, d : Indexes \cup {Junk}]
SegmentType ==
  [type : {"linear", "crypt"}, off : Blocks, iv : Blocks, size : Blocks \cup {Dynamic},
   hot : BOOLEAN, keys : SUBSET {"old", "new"}]
HeaderOK(h) ==
  h.flag \in BOOLEAN /\ \A i \in DOMAIN h.segs : h.segs[i] \in SegmentType

TypeOK ==
  /\ cfg \in Configs
  /\ \A b \in Blocks : data[b] \in BlockType /\ data[b] \in mdata[b]
  /\ \A i \in AreaBlocks : area[i] \in BlockType /\ area[i] \in marea[i]
  /\ hdr \in mhdr /\ \A h \in mhdr : HeaderOK(h)
  /\ HeaderOK(mem)
  /\ {oldslot, wiped} \subseteq BOOLEAN
  /\ rh.offset \in Nat /\ rh.length \in Nat /\ rh.progress \in Nat
  /\ rh.offset + rh.length <= rh.devsize \/ pc \in {"loop", "teardown", "finish"}
                                          \/ Finished
  /\ Len(buf) <= DeviceBlocks(cfg) /\ pos \in 0..rh.length
  /\ kills \in 0..MaxKills /\ powerfails \in 0..MaxPowerFails /\ quits \in 0..MaxQuits

(* Without a segment in reencryption, every block of the user's data reads *)
(* as itself through the segments of the stored header (without resilience *)
(* only between runs).                                                     *)
DataReadable ==
  ~HotHeader(hdr) /\ (cfg.res # "none" \/ pc = "idle") =>
    \A l \in Indexes : Mapped(hdr.segs, l) /\ ReadThrough(hdr.segs, l) = l

(* With a segment in reencryption, every block outside it reads as itself  *)
(* and every block in it is converted, or its old form is where recovery   *)
(* looks for it.                                                           *)
HotzoneRecoverable ==
  HotHeader(hdr) /\ ~wiped =>
    LET h == HotIndex(hdr.segs)
        r == LoadCrashed(cfg, hdr.segs)
        old(l, b) == Dec(OldKey(cfg), l, b) = l
    IN \A l \in Indexes :
         LET i == SegmentOf(hdr.segs, l)
             k == l - Starts(hdr.segs)[i]
             b == data[hdr.segs[i].off + k]
         IN IF i # h THEN ReadThrough(hdr.segs, l) = l
            ELSE \/ Protection(r) = "checksum" /\ IF area[k + 1] = b THEN old(l, b)
                      ELSE Dec(NewKey(cfg), l, b) = l
                 \/ Protection(r) = "journal" /\ old(l, area[k + 1])
                 \/ Protection(r) = "datashift" /\ old(l, data[ShiftSource(r) + k])

(* The manual: after "reencryption process crash, system crash, poweroff"  *)
(* recovery is run "on next activation" or by repair, if it is needed.     *)
(* Activation, resume and recovery first unlock both volume keys           *)
(* (LUKS2_keyslot_open_all_segments): while the stored header is in        *)
(* reencryption and no process works on it, they can be unlocked.  The     *)
(* order of reencrypt_teardown_ok breaks it (window "teardown").           *)
Unlockable == pc = "idle" /\ hdr.flag => CanUnlock

(* The ones that every header the medium may hold calls converted. *)
DurablyConverted == {l \in Indexes : \A h \in mhdr : l \in Converted(h)}

(* A block that was converted, and durably so, is never again taken for    *)
(* one that is not: it would be converted twice.                           *)
NeverConvertedTwice ==
  [][cfg.res # "none" => DurablyConverted \subseteq DurablyConverted']_vars

(* Reencryption finishes, whatever interrupts it before. *)
ReencryptionFinishes == <>[](Status(hdr) = "none")
=============================================================================
