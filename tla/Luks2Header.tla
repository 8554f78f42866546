---------------------------- MODULE Luks2Header ----------------------------
(***************************************************************************)
(* The redundant LUKS2 header: LUKS2_hdr_read, LUKS2_hdr_write and the     *)
(* recovery of a damaged copy (lib/luks2/luks2_disk_metadata.c and the     *)
(* hdr_* part of lib/luks2/luks2_json_metadata.c), run by processes that   *)
(* share one metadata device, under the lock of RWLock.                    *)
(*                                                                         *)
(* The device holds two copies, each a binary header and a JSON area.  A   *)
(* binary header is stored in one sector, so its write is atomic; a JSON   *)
(* area spans sectors and can be torn.  Until device_sync any of the       *)
(* values written since the last one may be what survives a power failure. *)
(*                                                                         *)
(* The JSON document is abstracted to the set of updates made to it, the   *)
(* checksum to the JSON area it was computed for, a UUID to the update     *)
(* that set it (None is the UUID given by luksFormat).  Salts, labels and  *)
(* header sizes play no part in the choice of a copy.  A copy with a valid *)
(* checksum always holds valid JSON here: every writer validates first.    *)
(***************************************************************************)
EXTENDS Naturals, FiniteSets

CONSTANTS
  Procs,          \* processes, each with one crypt_device context at a time
  Updates,        \* metadata updates
  UuidUpdates,    \* the ones that change the UUID (crypt_set_uuid)
  None,           \* no checksum, no header, the UUID of luksFormat
  Torn,           \* contents of a partially written JSON area
  MaxKills,       \* bound on killed processes
  MaxPowerFails,  \* bound on power failures
  MaxIOErr        \* bound on failed opens, reads, writes and syncs

ASSUME HeaderConstants ==
  /\ IsFiniteSet(Procs) /\ IsFiniteSet(Updates)
  /\ UuidUpdates \subseteq Updates
  /\ None # Torn
  /\ None \notin Updates
  /\ \A U \in SUBSET Updates : None # U /\ Torn # U
  /\ MaxKills \in Nat /\ MaxPowerFails \in Nat /\ MaxIOErr \in Nat

VARIABLES
  bin,      \* bin[c]: binary header of copy c as a read returns it
  json,     \* json[c]: JSON area of copy c
  mbin,     \* mbin[c]: what the medium may hold for bin[c]
  mjson,    \* mjson[c]: what the medium may hold for json[c]
  holds,    \* the metadata lock (RWLock)
  pc,       \* pc[p]: next step of p
  op,       \* op[p]: "read" (LUKS2_hdr_read) or "write" (LUKS2_hdr_write)
  hdr,      \* hdr[p]: cd->u.luks2.hdr, or None before crypt_load
  tmp,      \* tmp[p]: header read last (hdr_disk1/2, local hdr of crypt_load)
  target,   \* target[p]: copy p is writing
  rwfd,     \* rwfd[p]: device->dev_fd is open
  issued,   \* updates that were ever made
  acked,    \* updates in headers that LUKS2_hdr_write reported as stored
  kills, powerfails, ioerrs

disk == <<bin, json, mbin, mjson>>
ctx  == <<hdr, tmp, target, op, rwfd>>
hist == <<issued, acked, kills, powerfails>>
vars == <<disk, ctx, hist, holds, pc, ioerrs>>

Copies == {1, 2}
Other(c) == 3 - c

(* Sequence id after luksFormat: LUKS2_generate_hdr, LUKS2_hdr_write_force. *)
FormatSeqid == 2

Lock == INSTANCE RWLock

-----------------------------------------------------------------------------
(* hdr_checksum_check *)
Valid(c) == bin[c].csum = json[c]

(* hdr_read_disk *)
Version(c) ==
  IF Valid(c) THEN [seqid |-> bin[c].seqid, uuid |-> bin[c].uuid, jobj |-> json[c]]
              ELSE None

(* Mutant: sequence ids are not compared. *)
InSyncMut(v1, v2) == v1 # None /\ v2 # None

(* LUKS2_disk_hdr_read: the copy to use, given what was read; a copy that  *)
(* failed, or the older of two good ones, is to be recovered.              *)
Usable(v1, v2) == IF v1 = None \/ (v2 # None /\ v1.seqid < v2.seqid) THEN 2 ELSE 1
InSync(v1, v2) == v1 # None /\ v2 # None /\ v1.seqid = v2.seqid

(* The header a process that reads now would use. *)
Current ==
  LET v == [c \in Copies |-> Version(c)] IN v[Usable(v[1], v[2])]

(* What p writes: the recovered header or the one of its context. *)
Out(p) == IF op[p] = "read" THEN tmp[p] ELSE hdr[p]

Goto(p, from, to) == pc[p] = from /\ pc' = [pc EXCEPT ![p] = to]

Fault == ioerrs < MaxIOErr /\ ioerrs' = ioerrs + 1

Init ==
  LET b == [seqid |-> FormatSeqid, uuid |-> None, csum |-> {}] IN
  /\ bin = [c \in Copies |-> b]
  /\ json = [c \in Copies |-> {}]
  /\ mbin = [c \in Copies |-> {b}]
  /\ mjson = [c \in Copies |-> {{}}]
  /\ Lock!Init
  /\ pc = [p \in Procs |-> "idle"]
  /\ op = [p \in Procs |-> "read"]
  /\ hdr = [p \in Procs |-> None]
  /\ tmp = [p \in Procs |-> None]
  /\ target = [p \in Procs |-> 1]
  /\ rwfd = [p \in Procs |-> FALSE]
  /\ issued = {} /\ acked = {}
  /\ kills = 0 /\ powerfails = 0 /\ ioerrs = 0

-----------------------------------------------------------------------------
(* Reading and recovery *)

(* crypt_load of a new or an already loaded context: LUKS2_hdr_read. *)
LoadStart(p) ==
  /\ Goto(p, "idle", "readlock")
  /\ op' = [op EXCEPT ![p] = "read"]
  /\ UNCHANGED <<disk, hist, holds, hdr, tmp, target, rwfd, ioerrs>>

(* LUKS2_hdr_read: device_read_lock, or device_write_lock without the      *)
(* sequence id check when recovery needs it.                               *)
LoadLock(p) ==
  /\ \/ Goto(p, "readlock", "read1") /\ Lock!Acquire(p, "sh")
     \/ Goto(p, "relock", "read1") /\ Lock!Acquire(p, "ex")
  /\ UNCHANGED <<disk, ctx, hist, ioerrs>>

(* The lock cannot be taken: LUKS2_hdr_read returns the error. *)
LoadLockFails(p) ==
  /\ pc[p] \in {"readlock", "relock"}
  /\ pc' = [pc EXCEPT ![p] = "idle"]
  /\ Fault
  /\ UNCHANGED <<disk, ctx, hist, holds>>

(* hdr_read_disk of copy c gives its version, or HDR_FAIL_IO. *)
ReadResult(c, v) ==
  \/ v = Version(c) /\ UNCHANGED ioerrs
  \/ v = None /\ Fault

(* LUKS2_disk_hdr_read: the primary header. *)
ReadPrimary(p) ==
  /\ Goto(p, "read1", "read2")
  /\ \E v \in {Version(1), None} :
       ReadResult(1, v) /\ tmp' = [tmp EXCEPT ![p] = v]
  /\ UNCHANGED <<disk, hist, holds, hdr, target, op, rwfd>>

(* LUKS2_disk_hdr_read: the secondary header, the choice between them and  *)
(* the start of recovery.  hdr_write_disk needs a descriptor open for      *)
(* writing: an open one is reused, otherwise _open_locked opens it unless  *)
(* only the read lock is held (-EAGAIN).                                   *)
ReadSecondary(p) ==
  /\ pc[p] = "read2"
  /\ \E v2 \in {Version(2), None} :
       LET v1 == tmp[p]
           src == Usable(v1, v2)
       IN
       /\ ReadResult(2, v2)
       /\ tmp' = [tmp EXCEPT ![p] = IF src = 1 THEN v1 ELSE v2]
       /\ target' = [target EXCEPT ![p] = Other(src)]
       /\ pc' = [pc EXCEPT ![p] =
            CASE v1 = None /\ v2 = None            -> "loadfail"
              [] InSync(v1, v2)                    -> "done"
              [] OTHER                             -> "probe"]
  /\ UNCHANGED <<disk, hist, holds, hdr, op, rwfd>>

(* detect_device_signatures found a foreign signature: no recovery and no  *)
(* load.                                                                   *)
ProbeRefuses(p) ==
  /\ Goto(p, "probe", "loadfail")
  /\ UNCHANGED <<disk, ctx, hist, holds, ioerrs>>

RecoveryOpen(p) ==
  /\ rwfd[p] \/ holds[p] = "ex"
  /\ Goto(p, "probe", "bin")
  /\ rwfd' = [rwfd EXCEPT ![p] = TRUE]
  /\ UNCHANGED <<disk, hist, holds, hdr, tmp, target, op, ioerrs>>

(* -EAGAIN: drop the read lock and start again with the write lock. *)
RecoveryNeedsWriteLock(p) ==
  /\ ~rwfd[p] /\ holds[p] = "sh"
  /\ Goto(p, "probe", "relock")
  /\ Lock!Release(p)
  /\ UNCHANGED <<disk, ctx, hist, ioerrs>>

(* No header was usable: nothing changes in the context. *)
LoadFails(p) ==
  /\ Goto(p, "loadfail", "idle")
  /\ Lock!Release(p)
  /\ UNCHANGED <<disk, ctx, hist, ioerrs>>

(* LUKS2_hdr_read succeeds, hdr_update_copy_for_rollback. *)
LoadDone(p) ==
  /\ op[p] = "read"
  /\ Goto(p, "done", "idle")
  /\ Lock!Release(p)
  /\ hdr' = [hdr EXCEPT ![p] =
       [seqid |-> tmp[p].seqid, uuid |-> tmp[p].uuid,
        jobj |-> tmp[p].jobj, rollback |-> tmp[p].jobj]]
  /\ UNCHANGED <<disk, hist, tmp, target, op, rwfd, ioerrs>>

-----------------------------------------------------------------------------
(* Writing *)

(* An operation changes the header in memory (and the UUID, in             *)
(* LUKS2_hdr_uuid) and calls LUKS2_hdr_write.                              *)
UpdateStart(p, u) ==
  /\ Goto(p, "idle", "writelock")
  /\ hdr[p] # None
  /\ u \in Updates \ issued
  /\ issued' = issued \cup {u}
  /\ hdr' = [hdr EXCEPT ![p].jobj = @ \cup {u},
                        ![p].uuid = IF u \in UuidUpdates THEN u ELSE @]
  /\ op' = [op EXCEPT ![p] = "write"]
  /\ UNCHANGED <<disk, acked, kills, powerfails, holds, tmp, target, rwfd, ioerrs>>

(* Mutant: no check. *)
SequenceIdMatchesMut(p) == TRUE

(* LUKS2_check_sequence_id: only the primary binary header is looked at,   *)
(* its checksum is not.                                                    *)
SequenceIdMatches(p) ==
  \/ bin[1].uuid # hdr[p].uuid
  \/ bin[1].seqid = hdr[p].seqid

(* The caller may or may not roll the JSON back (_luks2_rollback); the     *)
(* sequence id and the UUID in memory stay.                                *)
AfterFailure(p) ==
  \E j \in {hdr[p].jobj, hdr[p].rollback} : hdr' = [hdr EXCEPT ![p].jobj = j]

(* Mutant: hdr->seqid is not increased. *)
WriteLockMut(p) ==
  /\ Goto(p, "writelock", "bin")
  /\ SequenceIdMatches(p)
  /\ Lock!Acquire(p, "ex")
  /\ target' = [target EXCEPT ![p] = 1]
  /\ rwfd' = [rwfd EXCEPT ![p] = TRUE]
  /\ UNCHANGED <<disk, hist, hdr, tmp, op, ioerrs>>

(* LUKS2_device_write_lock, then the increment of hdr->seqid. *)
WriteLock(p) ==
  /\ Goto(p, "writelock", "bin")
  /\ SequenceIdMatches(p)
  /\ Lock!Acquire(p, "ex")
  /\ hdr' = [hdr EXCEPT ![p].seqid = @ + 1]
  /\ target' = [target EXCEPT ![p] = 1]
  /\ rwfd' = [rwfd EXCEPT ![p] = TRUE]
  /\ UNCHANGED <<disk, hist, tmp, op, ioerrs>>

(* "Detected attempt for concurrent LUKS2 metadata update."  Taking the    *)
(* lock, reading and dropping the lock is one step here: nothing is        *)
(* changed in between.                                                     *)
WriteRefused(p) ==
  /\ Goto(p, "writelock", "idle")
  /\ ~SequenceIdMatches(p)
  /\ Lock!Compatible(p, "ex")
  /\ AfterFailure(p)
  /\ UNCHANGED <<disk, hist, holds, tmp, target, op, rwfd, ioerrs>>

(* hdr_cleanup_and_validate, the size checks or the lock failed. *)
WriteAborts(p) ==
  /\ Goto(p, "writelock", "idle")
  /\ AfterFailure(p)
  /\ UNCHANGED <<disk, hist, holds, tmp, target, op, rwfd, ioerrs>>

(* LUKS2_hdr_write succeeds, hdr_update_copy_for_rollback. *)
WriteDone(p) ==
  /\ op[p] = "write"
  /\ Goto(p, "done", "idle")
  /\ Lock!Release(p)
  /\ hdr' = [hdr EXCEPT ![p].rollback = hdr[p].jobj]
  /\ acked' = acked \cup hdr[p].jobj
  /\ UNCHANGED <<disk, issued, kills, powerfails, tmp, target, op, rwfd, ioerrs>>

(* LUKS2_disk_hdr_write returns the error of hdr_write_disk. *)
WriteFails(p) ==
  /\ Goto(p, "writefail", "idle")
  /\ Lock!Release(p)
  /\ AfterFailure(p)
  /\ UNCHANGED <<disk, hist, tmp, target, op, rwfd, ioerrs>>

-----------------------------------------------------------------------------
(* hdr_write_disk *)

BinHeader(p, csum) == [seqid |-> Out(p).seqid, uuid |-> Out(p).uuid, csum |-> csum]

StoreBin(c, b) ==
  /\ bin' = [bin EXCEPT ![c] = b]
  /\ mbin' = [mbin EXCEPT ![c] = @ \cup {b}]
  /\ UNCHANGED <<json, mjson>>

StoreJson(c, j) ==
  /\ json' = [json EXCEPT ![c] = j]
  /\ mjson' = [mjson EXCEPT ![c] = @ \cup {j, Torn}]
  /\ UNCHANGED <<bin, mbin>>

(* Mutant: fsync is left out. *)
FlushMut ==
  /\ mbin' = [c \in Copies |-> mbin[c] \cup {bin'[c]}]
  /\ mjson' = [c \in Copies |-> mjson[c] \cup {json'[c]}]

(* device_sync: fsync of the device, both copies included. *)
Flush ==
  /\ mbin' = [c \in Copies |-> {bin'[c]}]
  /\ mjson' = [c \in Copies |-> {json'[c]}]

(* The header without a checksum but with the new sequence id. *)
WriteBinNoCsum(p) ==
  /\ Goto(p, "bin", "json")
  /\ StoreBin(target[p], BinHeader(p, None))
  /\ UNCHANGED <<ctx, hist, holds, ioerrs>>

(* Mutant: the JSON area of the last good header is written. *)
WriteJsonMut(p) ==
  /\ Goto(p, "json", "csum")
  /\ StoreJson(target[p], IF op[p] = "read" THEN tmp[p].jobj ELSE hdr[p].rollback)
  /\ UNCHANGED <<ctx, hist, holds, ioerrs>>

WriteJson(p) ==
  /\ Goto(p, "json", "csum")
  /\ StoreJson(target[p], Out(p).jobj)
  /\ UNCHANGED <<ctx, hist, holds, ioerrs>>

WriteBinCsum(p) ==
  /\ Goto(p, "csum", "sync")
  /\ StoreBin(target[p], BinHeader(p, Out(p).jobj))
  /\ UNCHANGED <<ctx, hist, holds, ioerrs>>

(* device_sync; LUKS2_disk_hdr_write goes on with the secondary copy.  A   *)
(* failed fsync is only logged.                                            *)
DeviceSync(p) ==
  /\ pc[p] = "sync"
  /\ UNCHANGED <<bin, json>>
  /\ \/ Flush /\ UNCHANGED ioerrs
     \/ Fault /\ UNCHANGED <<mbin, mjson>>
  /\ IF op[p] = "write" /\ target[p] = 1
       THEN /\ target' = [target EXCEPT ![p] = 2]
            /\ pc' = [pc EXCEPT ![p] = "bin"]
       ELSE pc' = [pc EXCEPT ![p] = "done"] /\ UNCHANGED target
  /\ UNCHANGED <<hist, holds, hdr, tmp, op, rwfd>>

(* Mutant: the error is dropped. *)
DiskWriteFailsMut(p) ==
  /\ pc[p] \in {"bin", "json", "csum"}
  /\ Fault
  /\ pc' = [pc EXCEPT ![p] = "done"]
  /\ UNCHANGED <<disk, ctx, hist, holds>>

(* A failed write leaves the old or the new sector, or a torn area; the    *)
(* checksum write is followed by device_sync even then.  The failed open   *)
(* of hdr_write_disk is the case that changes nothing.  A failed recovery  *)
(* is not reported: one header was read correctly.                         *)
DiskWriteFails(p) ==
  /\ pc[p] \in {"bin", "json", "csum"}
  /\ Fault
  /\ \/ pc[p] # "csum" /\ UNCHANGED disk
     \/ pc[p] = "bin" /\ StoreBin(target[p], BinHeader(p, None))
     \/ pc[p] = "json" /\ \E j \in {Torn, Out(p).jobj} : StoreJson(target[p], j)
     \/ /\ pc[p] = "csum"
        /\ \E b \in {bin[target[p]], BinHeader(p, Out(p).jobj)} :
             bin' = [bin EXCEPT ![target[p]] = b]
        /\ UNCHANGED json
        /\ Flush
  /\ pc' = [pc EXCEPT ![p] = IF op[p] = "read" THEN "done" ELSE "writefail"]
  /\ UNCHANGED <<ctx, hist, holds>>

-----------------------------------------------------------------------------
(* Environment *)

DropContext(P) ==
  /\ pc' = [p \in Procs |-> IF p \in P THEN "idle" ELSE pc[p]]
  /\ holds' = [p \in Procs |-> IF p \in P THEN "un" ELSE holds[p]]
  /\ op' = [p \in Procs |-> IF p \in P THEN "read" ELSE op[p]]
  /\ hdr' = [p \in Procs |-> IF p \in P THEN None ELSE hdr[p]]
  /\ tmp' = [p \in Procs |-> IF p \in P THEN None ELSE tmp[p]]
  /\ target' = [p \in Procs |-> IF p \in P THEN 1 ELSE target[p]]
  /\ rwfd' = [p \in Procs |-> IF p \in P THEN FALSE ELSE rwfd[p]]

(* crypt_free *)
Free(p) ==
  /\ pc[p] = "idle"
  /\ DropContext({p})
  /\ UNCHANGED <<disk, hist, ioerrs>>

(* The process is killed: what it wrote stays, its flock goes. *)
Kill(p) ==
  /\ kills < MaxKills
  /\ pc[p] # "idle"
  /\ kills' = kills + 1
  /\ DropContext({p})
  /\ UNCHANGED <<disk, issued, acked, powerfails, ioerrs>>

(* Copies with writes that were not synced and that nobody is going to     *)
(* sync: their writer was killed.                                          *)
Orphaned ==
  {c \in Copies :
     /\ mbin[c] # {bin[c]} \/ mjson[c] # {json[c]}
     /\ \A p \in Procs : ~(target[p] = c /\ pc[p] \in {"json", "csum", "sync"})}

(* Every sector keeps one of the values it was given since the last sync.  *)
(* Nothing protects an orphaned copy until the next device_sync: a power   *)
(* failure is left out till then.                                          *)
PowerFail ==
  /\ powerfails < MaxPowerFails
  /\ kills = 0 \/ Orphaned = {}
  /\ powerfails' = powerfails + 1
  /\ bin' \in {b \in [Copies -> UNION {mbin[c] : c \in Copies}] :
                 \A c \in Copies : b[c] \in mbin[c]}
  /\ json' \in {j \in [Copies -> UNION {mjson[c] : c \in Copies}] :
                  \A c \in Copies : j[c] \in mjson[c]}
  /\ Flush
  /\ DropContext(Procs)
  /\ UNCHANGED <<issued, acked, kills, ioerrs>>

LoadStep(p) ==
  \/ LoadStart(p) \/ LoadLock(p) \/ LoadLockFails(p)
  \/ ReadPrimary(p) \/ ReadSecondary(p)
  \/ ProbeRefuses(p) \/ RecoveryOpen(p) \/ RecoveryNeedsWriteLock(p)
  \/ LoadFails(p) \/ LoadDone(p)

WriteStep(p) ==
  \/ \E u \in Updates : UpdateStart(p, u)
  \/ WriteLock(p) \/ WriteRefused(p) \/ WriteAborts(p)
  \/ WriteDone(p) \/ WriteFails(p)

DiskStep(p) ==
  \/ WriteBinNoCsum(p) \/ WriteJson(p) \/ WriteBinCsum(p)
  \/ DeviceSync(p) \/ DiskWriteFails(p)

Next ==
  \/ \E p \in Procs :
       LoadStep(p) \/ WriteStep(p) \/ DiskStep(p) \/ Free(p) \/ Kill(p)
  \/ PowerFail

Spec == Init /\ [][Next]_vars

-----------------------------------------------------------------------------
Steps == {"idle", "readlock", "relock", "read1", "read2", "probe", "loadfail",
          "writelock", "bin", "json", "csum", "sync", "done", "writefail"}
Uuids == Updates \cup {None}
BinHeaders == [seqid : Nat, uuid : Uuids, csum : {None} \cup SUBSET Updates]
Areas == {Torn} \cup SUBSET Updates
Headers == [seqid : Nat, uuid : Uuids, jobj : SUBSET Updates]
Contexts == [seqid : Nat, uuid : Uuids, jobj : SUBSET Updates,
             rollback : SUBSET Updates]

(* "No header" is not a header. *)
ASSUME NoneIsNoHeader == None \notin Headers /\ None \notin Contexts

(* Type invariant. *)
TypeOK ==
  /\ bin \in [Copies -> BinHeaders]
  /\ json \in [Copies -> Areas]
  /\ mbin \in [Copies -> SUBSET BinHeaders]
  /\ mjson \in [Copies -> SUBSET Areas]
  /\ holds \in [Procs -> {"un", "sh", "ex"}]
  /\ pc \in [Procs -> Steps]
  /\ op \in [Procs -> {"read", "write"}]
  /\ hdr \in [Procs -> {None} \cup Contexts]
  /\ tmp \in [Procs -> {None} \cup Headers]
  /\ target \in [Procs -> Copies]
  /\ rwfd \in [Procs -> BOOLEAN]
  /\ issued \in SUBSET Updates /\ acked \in SUBSET Updates
  /\ kills \in Nat /\ powerfails \in Nat /\ ioerrs \in Nat

(* docs/on-disk-format-luks2.pdf, section 4: at least one header is always *)
(* valid, whatever interrupted an update or a recovery of the other one.   *)
SomeHeaderValid == \E c \in Copies : Valid(c)

(* A header that LUKS2_hdr_write reported as stored is never replaced by   *)
(* one that lacks its updates: neither a context loaded before it nor the  *)
(* recovery of an old copy brings older metadata back.                     *)
NoLostUpdate == SomeHeaderValid => acked \subseteq Current.jobj

(* The check of LUKS2_device_write_lock is sound: a context whose sequence *)
(* id and UUID match the primary header on the device was loaded from, or  *)
(* wrote, exactly the header that is current.                              *)
SeqidIdentifiesHeader ==
  \A p \in Procs :
    /\ pc[p] = "idle" /\ hdr[p] # None
    /\ hdr[p].uuid = bin[1].uuid /\ hdr[p].seqid = bin[1].seqid
    /\ \A q \in Procs : holds[q] # "ex"
    => Current # None /\ hdr[p].rollback = Current.jobj

(* A load that succeeds leaves two good and equal copies, unless another   *)
(* process is just rewriting one of them.                                  *)
LoadRestoresRedundancy ==
  [][\A p \in Procs :
       LoadDone(p) /\ (\A q \in Procs \ {p} : pc[q] \notin {"bin", "json", "csum"})
       => Version(1) # None /\ Version(1) = Version(2)]_vars

(* A write that reports success has left two good and equal copies,        *)
(* whatever failed before it.                                              *)
AckedIsRedundant ==
  [][\A p \in Procs :
       WriteDone(p) => Version(1) # None /\ Version(1) = Version(2)]_vars

(* One failed open, read, write or sync does not cost the header: whenever *)
(* no write is under way, one copy is valid.                               *)
SingleFaultSurvived ==
  ioerrs <= 1 /\ (\A p \in Procs : pc[p] \notin {"bin", "json", "csum", "sync"})
  => SomeHeaderValid

(* The two copies, the sequence ids and the lock together implement one    *)
(* register that updates extend atomically.                                *)
Register == INSTANCE MetadataRegister WITH
  value <- IF SomeHeaderValid THEN Current.jobj ELSE None,
  epoch <- powerfails
ImplementsRegister == Register!Spec
=============================================================================
