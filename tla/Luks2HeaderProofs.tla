------------------------- MODULE Luks2HeaderProofs -------------------------
(***************************************************************************)
(* What holds of Luks2Header whatever fails: for any number of processes,  *)
(* updates, killed processes, power failures and failed opens, reads,      *)
(* writes and syncs.                                                       *)
(*                                                                         *)
(* AckedIsRedundant is an action property of the last step of              *)
(* LUKS2_hdr_write.  It rests on StoreInv, which says what the two copies  *)
(* hold at each step of hdr_write_disk, and StoreInv on LockInv: a writer  *)
(* holds the lock exclusively from the sequence id check to the end.       *)
(* BaseInv is their conjunction with the types, and inductive.             *)
(***************************************************************************)
EXTENDS Luks2Header, TLAPS

(* hdr_write_disk is running. *)
Writing == {"bin", "json", "csum", "sync"}

(* Copy c holds header h, with a good checksum. *)
Match(c, h) ==
  /\ bin[c].seqid = h.seqid /\ bin[c].uuid = h.uuid
  /\ bin[c].csum = h.jobj /\ json[c] = h.jobj

(* Copy c has the binary header of h, still without its checksum. *)
Unsealed(c, h) ==
  bin[c].seqid = h.seqid /\ bin[c].uuid = h.uuid /\ bin[c].csum = None

(* Where the lock is held, and which operation runs there. *)
LockInv ==
  /\ \A p, q \in Procs : p # q /\ holds[p] = "ex" => holds[q] = "un"
  /\ \A p \in Procs :
       /\ holds[p] = "un" <=> pc[p] \in {"idle", "readlock", "relock", "writelock"}
       /\ pc[p] \in {"readlock", "relock", "read1", "read2", "probe", "loadfail"}
            => op[p] = "read"
       /\ pc[p] \in {"writelock", "writefail"} => op[p] = "write"
       /\ op[p] = "write" => hdr[p] # None
       /\ op[p] = "write" /\ holds[p] # "un" => holds[p] = "ex"
       /\ op[p] = "read" /\ pc[p] \in Writing \cup {"probe", "done"}
            => tmp[p] # None

(* What LUKS2_disk_hdr_write has put on the device so far: nobody else     *)
(* writes in the meantime.                                                 *)
StoreInv ==
  \A p \in Procs : op[p] = "write" =>
    /\ pc[p] \in {"json", "csum"} => Unsealed(target[p], hdr[p])
    /\ pc[p] \in {"csum", "sync"} => json[target[p]] = hdr[p].jobj
    /\ pc[p] = "sync" => Match(target[p], hdr[p])
    /\ pc[p] \in Writing /\ target[p] = 2 => Match(1, hdr[p])
    /\ pc[p] = "done" => Match(1, hdr[p]) /\ Match(2, hdr[p])

(* The inductive invariant of this module. *)
BaseInv == TypeOK /\ LockInv /\ StoreInv

-----------------------------------------------------------------------------
(* A copy is read as a header of the right shape, or not at all: exactly   *)
(* the copies whose checksum fits (hdr_checksum_check) give one.           *)
LEMMA VersionType ==
  ASSUME TypeOK, NEW c \in Copies
  PROVE  /\ Version(c) \in {None} \cup Headers
         /\ Valid(c) => json[c] \in SUBSET Updates
         /\ Version(c) # None <=> Valid(c)
         /\ \A h \in Headers : Version(c) = h <=> Match(c, h)
<1> USE HeaderConstants, NoneIsNoHeader DEF TypeOK, Copies
<1>1. bin[c] \in BinHeaders /\ json[c] \in Areas
  OBVIOUS
<1>2. Valid(c) => json[c] \in SUBSET Updates
  BY <1>1 DEF Valid, BinHeaders, Areas
<1>3. Valid(c) => Version(c) \in Headers
  BY <1>1, <1>2 DEF Version, BinHeaders, Headers
<1>4. ~Valid(c) => Version(c) = None
  BY DEF Version
<1>5. ASSUME NEW h \in Headers
      PROVE  Version(c) = h <=> Match(c, h)
  BY <1>1, <1>2, <1>3, <1>4, <1>5 DEF Version, Valid, Match, BinHeaders, Headers
<1>6. QED
  BY <1>2, <1>3, <1>4, <1>5

(* UpdateStart adds the update to the document in memory, and changes the  *)
(* UUID only for crypt_set_uuid.                                           *)
LEMMA UpdateContext ==
  ASSUME TypeOK, NEW p \in Procs, NEW u \in Updates, UpdateStart(p, u)
  PROVE  /\ hdr[p] \in Contexts /\ hdr'[p] \in Contexts
         /\ hdr'[p].seqid = hdr[p].seqid
         /\ hdr'[p].jobj = hdr[p].jobj \cup {u}
         /\ hdr'[p].rollback = hdr[p].rollback
         /\ u \notin UuidUpdates => hdr'[p].uuid = hdr[p].uuid
         /\ \A q \in Procs \ {p} : hdr'[q] = hdr[q]
<1>1. hdr[p] \in Contexts
  BY DEF TypeOK, UpdateStart
<1> DEFINE h1 == [hdr[p] EXCEPT !.jobj = @ \cup {u}]
<1>2. hdr'[p] = [h1 EXCEPT !.uuid = IF u \in UuidUpdates THEN u ELSE @]
  BY DEF TypeOK, UpdateStart
<1>3. \A q \in Procs \ {p} : hdr'[q] = hdr[q]
  BY DEF TypeOK, UpdateStart
<1>4. /\ h1 \in Contexts /\ h1.seqid = hdr[p].seqid /\ h1.uuid = hdr[p].uuid
      /\ h1.jobj = hdr[p].jobj \cup {u} /\ h1.rollback = hdr[p].rollback
  BY <1>1 DEF Contexts
<1>5. u \in Uuids
  BY DEF Uuids
<1> HIDE DEF h1
<1>6. QED
  BY <1>1, <1>2, <1>3, <1>4, <1>5 DEF Contexts

(* A failed write leaves the sequence id and the UUID in memory, and one   *)
(* of the two documents the context has.                                   *)
LEMMA FailureContext ==
  ASSUME TypeOK, NEW p \in Procs, hdr[p] # None, AfterFailure(p)
  PROVE  /\ hdr[p] \in Contexts /\ hdr'[p] \in Contexts
         /\ hdr'[p].seqid = hdr[p].seqid /\ hdr'[p].uuid = hdr[p].uuid
         /\ hdr'[p].jobj \in {hdr[p].jobj, hdr[p].rollback}
         /\ hdr'[p].rollback = hdr[p].rollback
         /\ \A q \in Procs \ {p} : hdr'[q] = hdr[q]
<1>1. hdr[p] \in Contexts
  BY DEF TypeOK
<1>2. PICK j \in {hdr[p].jobj, hdr[p].rollback} : hdr' = [hdr EXCEPT ![p].jobj = j]
  BY DEF AfterFailure
<1>3. hdr'[p] = [hdr[p] EXCEPT !.jobj = j]
  BY <1>2 DEF TypeOK
<1>4. \A q \in Procs \ {p} : hdr'[q] = hdr[q]
  BY <1>2 DEF TypeOK
<1>5. QED
  BY <1>1, <1>3, <1>4 DEF Contexts

(* LUKS2_device_write_lock: only the sequence id in memory moves. *)
LEMMA LockedContext ==
  ASSUME TypeOK, NEW p \in Procs, hdr[p] # None, WriteLock(p)
  PROVE  /\ hdr[p] \in Contexts /\ hdr'[p] \in Contexts
         /\ hdr'[p].seqid = hdr[p].seqid + 1 /\ hdr'[p].uuid = hdr[p].uuid
         /\ hdr'[p].jobj = hdr[p].jobj
         /\ hdr'[p].rollback = hdr[p].rollback
         /\ \A q \in Procs \ {p} : hdr'[q] = hdr[q]
<1>1. hdr[p] \in Contexts
  BY DEF TypeOK
<1>2. hdr'[p] = [hdr[p] EXCEPT !.seqid = @ + 1]
  BY DEF TypeOK, WriteLock
<1>3. \A q \in Procs \ {p} : hdr'[q] = hdr[q]
  BY DEF TypeOK, WriteLock
<1>4. QED
  BY <1>1, <1>2, <1>3 DEF Contexts

(* A successful write makes the document the one to roll back to. *)
LEMMA StoredContext ==
  ASSUME TypeOK, NEW p \in Procs, hdr[p] # None, WriteDone(p)
  PROVE  /\ hdr[p] \in Contexts /\ hdr'[p] \in Contexts
         /\ hdr'[p].seqid = hdr[p].seqid /\ hdr'[p].uuid = hdr[p].uuid
         /\ hdr'[p].jobj = hdr[p].jobj
         /\ hdr'[p].rollback = hdr[p].jobj
         /\ \A q \in Procs \ {p} : hdr'[q] = hdr[q]
<1>1. hdr[p] \in Contexts
  BY DEF TypeOK
<1>2. hdr'[p] = [hdr[p] EXCEPT !.rollback = hdr[p].jobj]
  BY DEF TypeOK, WriteDone
<1>3. \A q \in Procs \ {p} : hdr'[q] = hdr[q]
  BY DEF TypeOK, WriteDone
<1>4. QED
  BY <1>1, <1>2, <1>3 DEF Contexts

(* A successful load makes the header that was read the context's. *)
LEMMA LoadedContext ==
  ASSUME TypeOK, NEW p \in Procs, tmp[p] # None, LoadDone(p)
  PROVE  /\ tmp[p] \in Headers /\ hdr'[p] \in Contexts
         /\ hdr'[p].seqid = tmp[p].seqid /\ hdr'[p].uuid = tmp[p].uuid
         /\ hdr'[p].jobj = tmp[p].jobj
         /\ hdr'[p].rollback = tmp[p].jobj
         /\ \A q \in Procs \ {p} : hdr'[q] = hdr[q]
<1>1. tmp[p] \in Headers
  BY DEF TypeOK
<1>2. hdr'[p] = [seqid |-> tmp[p].seqid, uuid |-> tmp[p].uuid,
                 jobj |-> tmp[p].jobj, rollback |-> tmp[p].jobj]
  BY DEF TypeOK, LoadDone
<1>3. \A q \in Procs \ {p} : hdr'[q] = hdr[q]
  BY DEF TypeOK, LoadDone
<1>4. QED
  BY <1>1, <1>2, <1>3 DEF Contexts, Headers

(* crypt_free, or the end of the process: nothing of the context is left. *)
LEMMA DroppedContext ==
  ASSUME TypeOK, NEW p \in Procs, DropContext({p})
  PROVE  /\ pc'[p] = "idle" /\ holds'[p] = "un" /\ op'[p] = "read"
         /\ hdr'[p] = None /\ tmp'[p] = None
         /\ \A q \in Procs \ {p} :
              /\ pc'[q] = pc[q] /\ holds'[q] = holds[q] /\ op'[q] = op[q]
              /\ hdr'[q] = hdr[q] /\ tmp'[q] = tmp[q] /\ target'[q] = target[q]
BY DEF DropContext

(* LUKS2_disk_hdr_read: what ReadSecondary makes of the two copies. *)
LEMMA SecondaryResult ==
  ASSUME TypeOK, NEW p \in Procs, ReadSecondary(p)
  PROVE  \E v2 \in {Version(2), None} :
           /\ v2 # Version(2) => ioerrs' = ioerrs + 1
           /\ tmp'[p] = IF Usable(tmp[p], v2) = 1 THEN tmp[p] ELSE v2
           /\ target'[p] = Other(Usable(tmp[p], v2))
           /\ tmp[p] = None /\ v2 = None => pc'[p] = "loadfail"
           /\ ~(tmp[p] = None /\ v2 = None) /\ InSync(tmp[p], v2) => pc'[p] = "done"
           /\ ~(tmp[p] = None /\ v2 = None) /\ ~InSync(tmp[p], v2) => pc'[p] = "probe"
<1>1. PICK v2 \in {Version(2), None} :
        LET src == Usable(tmp[p], v2) IN
        /\ ReadResult(2, v2)
        /\ tmp' = [tmp EXCEPT ![p] = IF src = 1 THEN tmp[p] ELSE v2]
        /\ target' = [target EXCEPT ![p] = Other(src)]
        /\ pc' = [pc EXCEPT ![p] =
             CASE tmp[p] = None /\ v2 = None -> "loadfail"
               [] InSync(tmp[p], v2)         -> "done"
               [] OTHER                      -> "probe"]
  BY DEF ReadSecondary
<1>2. tmp'[p] = IF Usable(tmp[p], v2) = 1 THEN tmp[p] ELSE v2
  BY <1>1 DEF TypeOK
<1>3. target'[p] = Other(Usable(tmp[p], v2))
  BY <1>1 DEF TypeOK
<1>4. pc'[p] = CASE tmp[p] = None /\ v2 = None -> "loadfail"
                 [] InSync(tmp[p], v2)         -> "done"
                 [] OTHER                      -> "probe"
  BY <1>1 DEF TypeOK
<1>5. v2 # Version(2) => ioerrs' = ioerrs + 1
  BY <1>1 DEF ReadResult, Fault
<1>6. tmp[p] = None /\ v2 = None => ~InSync(tmp[p], v2)
  BY DEF InSync
<1>7. QED
  BY <1>2, <1>3, <1>4, <1>5, <1>6

(* Type correctness of one step. *)
LEMMA HeaderTypeStep ==
  ASSUME BaseInv, [Next]_vars
  PROVE  TypeOK'
<1> USE HeaderConstants, NoneIsNoHeader
<1> USE DEF BaseInv, TypeOK, Copies, Steps, Goto, disk, ctx, hist
<1>v. \A c \in Copies : Version(c) \in {None} \cup Headers
  BY VersionType
<1>h. ASSUME NEW p \in Procs, op[p] = "write"
      PROVE  hdr[p] \in Contexts
  BY <1>h DEF LockInv
<1>t. ASSUME NEW p \in Procs, op[p] = "read", pc[p] \in Writing \cup {"probe", "done"}
      PROVE  tmp[p] \in Headers
  BY <1>t DEF LockInv
<1>1. ASSUME NEW p \in Procs,
             \/ LoadStart(p) \/ LoadLock(p) \/ LoadLockFails(p) \/ ProbeRefuses(p)
             \/ RecoveryOpen(p) \/ RecoveryNeedsWriteLock(p) \/ LoadFails(p)
      PROVE  TypeOK'
  <2>1. rwfd' \in [Procs -> BOOLEAN]
    BY <1>1 DEF LoadStart, LoadLock, LoadLockFails, ProbeRefuses, RecoveryOpen,
                RecoveryNeedsWriteLock, LoadFails
  <2>2. QED
    BY <1>1, <2>1
       DEF LoadStart, LoadLock, LoadLockFails, ProbeRefuses, RecoveryOpen,
           RecoveryNeedsWriteLock, LoadFails, Fault, Lock!Acquire, Lock!Release
<1>2. ASSUME NEW p \in Procs, ReadPrimary(p)
      PROVE  TypeOK'
  BY <1>2, <1>v DEF ReadPrimary, ReadResult, Fault
<1>3. ASSUME NEW p \in Procs, ReadSecondary(p)
      PROVE  TypeOK'
  <2>1. PICK v2 \in {Version(2), None} :
          LET src == Usable(tmp[p], v2) IN
          /\ ReadResult(2, v2)
          /\ tmp' = [tmp EXCEPT ![p] = IF src = 1 THEN tmp[p] ELSE v2]
          /\ target' = [target EXCEPT ![p] = Other(src)]
          /\ pc' = [pc EXCEPT ![p] =
               CASE tmp[p] = None /\ v2 = None -> "loadfail"
                 [] InSync(tmp[p], v2)         -> "done"
                 [] OTHER                      -> "probe"]
    BY <1>3 DEF ReadSecondary
  <2>2. v2 \in {None} \cup Headers
    BY <1>v
  <2>3. Other(Usable(tmp[p], v2)) \in Copies
    BY DEF Other, Usable
  <2>4. tmp' \in [Procs -> {None} \cup Headers]
    BY <2>1, <2>2
  <2>5. pc' \in [Procs -> Steps]
    BY <2>1
  <2>6. target' \in [Procs -> Copies]
    BY <2>1, <2>3
  <2>7. ioerrs' \in Nat
    BY <2>1 DEF ReadResult, Fault
  <2>8. QED
    BY <1>3, <2>4, <2>5, <2>6, <2>7 DEF ReadSecondary
<1>4. ASSUME NEW p \in Procs, LoadDone(p)
      PROVE  TypeOK'
  <2>1. hdr'[p] \in Contexts
    BY <1>4, <1>t DEF LoadDone, Headers, Contexts
  <2>2. QED
    BY <1>4, <2>1 DEF LoadDone, Lock!Release
<1>5. ASSUME NEW p \in Procs, NEW u \in Updates, UpdateStart(p, u)
      PROVE  TypeOK'
  <2>1. hdr[p] \in Contexts
    BY <1>5 DEF UpdateStart
  <2>2. hdr'[p] \in Contexts
    BY <1>5, <2>1 DEF UpdateStart, Contexts, Uuids
  <2>3. \A q \in Procs \ {p} : hdr'[q] = hdr[q]
    BY <1>5 DEF UpdateStart
  <2>4. hdr' \in [Procs -> {None} \cup Contexts]
    BY <1>5, <2>2, <2>3 DEF UpdateStart
  <2>5. QED
    BY <1>5, <2>4 DEF UpdateStart
<1>6. ASSUME NEW p \in Procs, AfterFailure(p), op[p] = "write"
      PROVE  hdr' \in [Procs -> {None} \cup Contexts]
  <2>1. PICK j \in {hdr[p].jobj, hdr[p].rollback} : hdr' = [hdr EXCEPT ![p].jobj = j]
    BY <1>6 DEF AfterFailure
  <2>2. hdr'[p] \in Contexts
    BY <1>6, <1>h, <2>1 DEF Contexts
  <2>3. QED
    BY <2>1, <2>2
<1>7. ASSUME NEW p \in Procs, WriteRefused(p) \/ WriteAborts(p) \/ WriteFails(p)
      PROVE  TypeOK'
  <2>1. op[p] = "write"
    BY <1>7 DEF WriteRefused, WriteAborts, WriteFails, LockInv
  <2>2. hdr' \in [Procs -> {None} \cup Contexts]
    BY <1>6, <1>7, <2>1 DEF WriteRefused, WriteAborts, WriteFails
  <2>3. QED
    BY <1>7, <2>2 DEF WriteRefused, WriteAborts, WriteFails, Lock!Release
<1>8. ASSUME NEW p \in Procs, WriteLock(p)
      PROVE  TypeOK'
  <2>1. hdr[p] \in Contexts
    BY <1>8, <1>h DEF WriteLock, LockInv
  <2>2. hdr'[p] \in Contexts
    BY <1>8, <2>1 DEF WriteLock, Contexts
  <2>3. QED
    BY <1>8, <2>2 DEF WriteLock, Lock!Acquire
<1>9. ASSUME NEW p \in Procs, WriteDone(p)
      PROVE  TypeOK'
  <2>1. hdr[p] \in Contexts
    BY <1>9, <1>h DEF WriteDone
  <2>2. hdr'[p] \in Contexts /\ hdr[p].jobj \in SUBSET Updates
    BY <1>9, <2>1 DEF WriteDone, Contexts
  <2>3. QED
    BY <1>9, <2>2 DEF WriteDone, Lock!Release
<1>10. ASSUME NEW p \in Procs, pc[p] \in Writing
       PROVE  /\ BinHeader(p, None) \in BinHeaders
              /\ BinHeader(p, Out(p).jobj) \in BinHeaders
              /\ Out(p).jobj \in Areas
  BY <1>10, <1>h, <1>t DEF Out, BinHeader, BinHeaders, Headers, Contexts, Areas
<1>11. ASSUME NEW p \in Procs, WriteBinNoCsum(p) \/ WriteBinCsum(p)
       PROVE  TypeOK'
  BY <1>11, <1>10 DEF WriteBinNoCsum, WriteBinCsum, StoreBin, Writing
<1>12. ASSUME NEW p \in Procs, WriteJson(p)
       PROVE  TypeOK'
  BY <1>12, <1>10 DEF WriteJson, StoreJson, Writing, Areas
<1>13. ASSUME NEW p \in Procs, DeviceSync(p)
       PROVE  TypeOK'
  BY <1>13 DEF DeviceSync, Flush, Fault
<1>14. ASSUME NEW p \in Procs, DiskWriteFails(p)
       PROVE  TypeOK'
  <2>1. Torn \in Areas
    BY DEF Areas
  <2>2. /\ bin' \in [Copies -> BinHeaders] /\ json' \in [Copies -> Areas]
        /\ mbin' \in [Copies -> SUBSET BinHeaders]
        /\ mjson' \in [Copies -> SUBSET Areas]
    BY <1>14, <1>10, <2>1 DEF DiskWriteFails, StoreBin, StoreJson, Flush, Writing
  <2>3. QED
    BY <1>14, <2>2 DEF DiskWriteFails, Fault
<1>15. ASSUME NEW p \in Procs, Free(p) \/ Kill(p)
       PROVE  TypeOK'
  <2>1. rwfd' \in [Procs -> BOOLEAN]
    <3>1. rwfd' = [q \in Procs |-> IF q \in {p} THEN FALSE ELSE rwfd[q]]
      BY <1>15 DEF Free, Kill, DropContext
    <3>2. \A q \in Procs : rwfd[q] \in BOOLEAN
      OBVIOUS
    <3>3. QED
      BY ONLY <3>1, <3>2
  <2>2. DropContext({p})
    BY <1>15 DEF Free, Kill
  <2>3. /\ pc' \in [Procs -> Steps] /\ holds' \in [Procs -> {"un", "sh", "ex"}]
        /\ op' \in [Procs -> {"read", "write"}] /\ target' \in [Procs -> Copies]
    BY <2>2 DEF DropContext
  <2>4. /\ hdr' \in [Procs -> {None} \cup Contexts]
        /\ tmp' \in [Procs -> {None} \cup Headers]
    BY <2>2 DEF DropContext
  <2>5. QED
    BY <1>15, <2>1, <2>3, <2>4 DEF Free, Kill
<1>16. CASE PowerFail
  <2>1. bin' \in [Copies -> BinHeaders] /\ json' \in [Copies -> Areas]
    BY <1>16 DEF PowerFail
  <2>2. QED
    BY <1>16, <2>1 DEF PowerFail, Flush, DropContext
<1>17. CASE UNCHANGED vars
  BY <1>17 DEF vars
<1>18. QED
  BY <1>1, <1>2, <1>3, <1>4, <1>5, <1>7, <1>8, <1>9, <1>11, <1>12, <1>13,
     <1>14, <1>15, <1>16, <1>17
     DEF Next, LoadStep, WriteStep, DiskStep

(* The lock is held exactly from the lock to the unlock of LUKS2_hdr_read  *)
(* and LUKS2_hdr_write, and a writer holds it exclusively.                 *)
LEMMA HeaderLockStep ==
  ASSUME BaseInv, [Next]_vars
  PROVE  LockInv'
<1> USE HeaderConstants, NoneIsNoHeader
<1> USE DEF BaseInv, TypeOK, LockInv, Copies, Steps, Goto, disk, ctx, hist, Writing,
            Lock!Acquire, Lock!Release, Lock!Compatible
<1>1. ASSUME NEW p \in Procs,
             LoadStart(p) \/ LoadLock(p) \/ LoadLockFails(p)
      PROVE  LockInv'
  BY <1>1 DEF LoadStart, LoadLock, LoadLockFails
<1>2. ASSUME NEW p \in Procs,
             ProbeRefuses(p) \/ RecoveryOpen(p) \/ RecoveryNeedsWriteLock(p)
      PROVE  LockInv'
  BY <1>2 DEF ProbeRefuses, RecoveryOpen, RecoveryNeedsWriteLock
<1>3. ASSUME NEW p \in Procs,
             ReadPrimary(p)
      PROVE  LockInv'
  BY <1>3 DEF ReadPrimary
<1>4. ASSUME NEW p \in Procs, ReadSecondary(p)
      PROVE  LockInv'
  <2>1. PICK v2 \in {Version(2), None} :
           /\ tmp'[p] = IF Usable(tmp[p], v2) = 1 THEN tmp[p] ELSE v2
           /\ tmp[p] = None /\ v2 = None => pc'[p] = "loadfail"
           /\ pc'[p] \in {"done", "probe", "loadfail"}
    BY <1>4, SecondaryResult
  <2>2. pc'[p] \in {"done", "probe"} => tmp'[p] # None
    BY <2>1 DEF Usable
  <2>3. \A q \in Procs \ {p} : tmp'[q] = tmp[q] /\ pc'[q] = pc[q]
    BY <1>4 DEF ReadSecondary
  <2>4. QED
    BY <1>4, <2>1, <2>2, <2>3 DEF ReadSecondary
<1>5. ASSUME NEW p \in Procs,
             LoadFails(p)
      PROVE  LockInv'
  BY <1>5 DEF LoadFails
<1>6. ASSUME NEW p \in Procs, LoadDone(p)
      PROVE  LockInv'
  BY <1>6, LoadedContext DEF LoadDone
<1>7. ASSUME NEW p \in Procs, NEW u \in Updates, UpdateStart(p, u)
      PROVE  LockInv'
  <2>1. hdr'[p] \in Contexts /\ \A q \in Procs \ {p} : hdr'[q] = hdr[q]
    BY <1>7, UpdateContext
  <2>2. /\ pc[p] = "idle" /\ pc' = [pc EXCEPT ![p] = "writelock"]
        /\ op' = [op EXCEPT ![p] = "write"] /\ UNCHANGED <<holds, tmp>>
    BY <1>7 DEF UpdateStart
  <2>3. QED
    BY <2>1, <2>2
<1>8. ASSUME NEW p \in Procs, WriteLock(p)
      PROVE  LockInv'
  <2>1. hdr'[p] \in Contexts /\ \A q \in Procs \ {p} : hdr'[q] = hdr[q]
    BY <1>8, LockedContext DEF WriteLock
  <2>2. QED
    BY <1>8, <2>1 DEF WriteLock
<1>9. ASSUME NEW p \in Procs, WriteRefused(p) \/ WriteAborts(p) \/ WriteFails(p)
      PROVE  LockInv'
  <2>1. hdr[p] # None /\ AfterFailure(p)
    BY <1>9 DEF WriteRefused, WriteAborts, WriteFails
  <2>2. hdr'[p] \in Contexts /\ \A q \in Procs \ {p} : hdr'[q] = hdr[q]
    BY <2>1, FailureContext
  <2>3. QED
    BY <1>9, <2>2 DEF WriteRefused, WriteAborts, WriteFails
<1>10. ASSUME NEW p \in Procs, WriteDone(p)
       PROVE  LockInv'
  <2>1. hdr'[p] \in Contexts /\ \A q \in Procs \ {p} : hdr'[q] = hdr[q]
    BY <1>10, StoredContext DEF WriteDone
  <2>2. QED
    BY <1>10, <2>1 DEF WriteDone
<1>11. ASSUME NEW p \in Procs,
              WriteBinNoCsum(p) \/ WriteJson(p) \/ WriteBinCsum(p)
       PROVE  LockInv'
  BY <1>11 DEF WriteBinNoCsum, WriteJson, WriteBinCsum
<1>12. ASSUME NEW p \in Procs, DeviceSync(p)
       PROVE  LockInv'
  BY <1>12 DEF DeviceSync
<1>13. ASSUME NEW p \in Procs, DiskWriteFails(p)
       PROVE  LockInv'
  BY <1>13 DEF DiskWriteFails
<1>14. ASSUME NEW p \in Procs, Free(p) \/ Kill(p)
       PROVE  LockInv'
  BY <1>14, DroppedContext DEF Free, Kill
<1>15. CASE PowerFail
  BY <1>15 DEF PowerFail, DropContext
<1>16. CASE UNCHANGED vars
  BY <1>16 DEF vars
<1>17. QED
  BY <1>1, <1>2, <1>3, <1>4, <1>5, <1>6, <1>7, <1>8, <1>9, <1>10, <1>11, <1>12,
     <1>13, <1>14, <1>15, <1>16
     DEF Next, LoadStep, WriteStep, DiskStep

(* LUKS2_disk_hdr_write leaves on the device what it means to. *)
LEMMA HeaderStoreStep ==
  ASSUME BaseInv, [Next]_vars
  PROVE  StoreInv'
<1> USE HeaderConstants, NoneIsNoHeader
<1> USE DEF BaseInv, StoreInv, Copies, Goto, disk, ctx, hist, Writing
<1> DEFINE Busy(q) == op[q] = "write" /\ pc[q] \in Writing \cup {"done"}
<1>b. ASSUME NEW p \in Procs, NEW q \in Procs \ {p}, Busy(q)
      PROVE  holds[p] = "un" /\ pc[p] \in {"idle", "readlock", "relock", "writelock"}
  BY <1>b DEF LockInv, TypeOK, Steps
<1>1. ASSUME NEW p \in Procs,
             \/ LoadStart(p) \/ LoadLock(p) \/ LoadLockFails(p)
             \/ ProbeRefuses(p) \/ RecoveryNeedsWriteLock(p)
      PROVE  StoreInv'
  BY <1>1 DEF LoadStart, LoadLock, LoadLockFails, ProbeRefuses,
              RecoveryNeedsWriteLock, TypeOK, Match, Unsealed
<1>2. ASSUME NEW p \in Procs, LoadFails(p) \/ ReadPrimary(p) \/ RecoveryOpen(p)
      PROVE  StoreInv'
  BY <1>2 DEF LoadFails, ReadPrimary, RecoveryOpen, TypeOK, Match, Unsealed, LockInv
<1>3. ASSUME NEW p \in Procs, ReadSecondary(p)
      PROVE  StoreInv'
  <2>1. op[p] = "read" /\ UNCHANGED <<bin, json, op, hdr>>
    BY <1>3 DEF ReadSecondary, LockInv
  <2>2. \A q \in Procs \ {p} : pc'[q] = pc[q] /\ target'[q] = target[q]
    BY <1>3 DEF ReadSecondary, TypeOK
  <2>3. QED
    BY <2>1, <2>2 DEF Match, Unsealed
<1>4. ASSUME NEW p \in Procs, LoadDone(p)
      PROVE  StoreInv'
  <2>1. /\ op[p] = "read" /\ UNCHANGED <<bin, json, op, target>>
        /\ \A q \in Procs \ {p} : pc'[q] = pc[q] /\ hdr'[q] = hdr[q]
    BY <1>4 DEF LoadDone, TypeOK
  <2>2. QED
    BY <2>1 DEF Match, Unsealed
<1>5. ASSUME NEW p \in Procs, NEW u \in Updates, UpdateStart(p, u)
      PROVE  StoreInv'
  <2>1. /\ pc'[p] = "writelock" /\ UNCHANGED <<bin, json, target>>
        /\ \A q \in Procs \ {p} : pc'[q] = pc[q] /\ hdr'[q] = hdr[q] /\ op'[q] = op[q]
    BY <1>5, UpdateContext DEF UpdateStart, TypeOK
  <2>2. QED
    BY <2>1 DEF Match, Unsealed
<1>6. ASSUME NEW p \in Procs, WriteLock(p)
      PROVE  StoreInv'
  <2>1. /\ pc'[p] = "bin" /\ target'[p] = 1 /\ UNCHANGED <<bin, json, op>>
        /\ \A q \in Procs \ {p} :
             pc'[q] = pc[q] /\ hdr'[q] = hdr[q] /\ target'[q] = target[q]
    BY <1>6 DEF WriteLock, TypeOK
  <2>2. QED
    BY <2>1 DEF Match, Unsealed
<1>7. ASSUME NEW p \in Procs,
             WriteRefused(p) \/ WriteAborts(p) \/ WriteFails(p) \/ WriteDone(p)
      PROVE  StoreInv'
  <2>1. /\ pc'[p] = "idle" /\ UNCHANGED <<bin, json, op, target>>
        /\ \A q \in Procs \ {p} : pc'[q] = pc[q]
    BY <1>7 DEF WriteRefused, WriteAborts, WriteFails, WriteDone, TypeOK
  <2>2. \A q \in Procs \ {p} : hdr'[q] = hdr[q]
    BY <1>7 DEF WriteRefused, WriteAborts, WriteFails, WriteDone, AfterFailure, TypeOK
  <2>3. QED
    BY <2>1, <2>2 DEF Match, Unsealed
<1>8. ASSUME NEW p \in Procs, pc[p] \in Writing, UNCHANGED <<op, hdr>>,
             \A q \in Procs \ {p} : pc'[q] = pc[q],
             op[p] = "write" =>
               /\ pc'[p] \in {"json", "csum"} => Unsealed(target[p], hdr[p])'
               /\ pc'[p] \in {"csum", "sync"} => (json[target[p]] = hdr[p].jobj)'
               /\ pc'[p] = "sync" => Match(target[p], hdr[p])'
               /\ pc'[p] \in Writing /\ target'[p] = 2 => Match(1, hdr[p])'
               /\ pc'[p] = "done" => Match(1, hdr[p])' /\ Match(2, hdr[p])'
      PROVE  StoreInv'
  <2>1. \A q \in Procs \ {p} : ~Busy(q)
    BY <1>8, <1>b
  <2>2. \A q \in Procs \ {p} : op'[q] = "write" => pc'[q] \notin Writing \cup {"done"}
    BY <1>8, <2>1
  <2>3. QED
    BY <1>8, <2>2
<1>9. ASSUME NEW p \in Procs, WriteBinNoCsum(p)
      PROVE  StoreInv'
  <2>1. /\ pc[p] = "bin" /\ pc' = [pc EXCEPT ![p] = "json"]
        /\ bin' = [bin EXCEPT ![target[p]] = BinHeader(p, None)]
        /\ UNCHANGED <<json, op, hdr, target>>
    BY <1>9 DEF WriteBinNoCsum, StoreBin
  <2>2. op[p] = "write" => Unsealed(target[p], hdr[p])'
    BY <2>1 DEF Unsealed, BinHeader, Out, TypeOK
  <2>3. op[p] = "write" /\ target[p] = 2 => Match(1, hdr[p])'
    <3>1. op[p] = "write" /\ target[p] = 2 => Match(1, hdr[p])
      BY <2>1
    <3>2. target[p] = 2 => bin'[1] = bin[1] /\ json'[1] = json[1]
      BY <2>1 DEF TypeOK
    <3>3. QED
      BY <2>1, <3>1, <3>2 DEF Match
  <2>4. QED
    BY <1>8, <2>1, <2>2, <2>3 DEF TypeOK
<1>10. ASSUME NEW p \in Procs, WriteJson(p)
       PROVE  StoreInv'
  <2>1. /\ pc[p] = "json" /\ pc' = [pc EXCEPT ![p] = "csum"]
        /\ json' = [json EXCEPT ![target[p]] = Out(p).jobj]
        /\ UNCHANGED <<bin, op, hdr, target>>
    BY <1>10 DEF WriteJson, StoreJson
  <2>2. op[p] = "write" => /\ Unsealed(target[p], hdr[p])'
                           /\ (json[target[p]] = hdr[p].jobj)'
    BY <2>1 DEF Unsealed, Out, TypeOK
  <2>3. op[p] = "write" /\ target[p] = 2 => Match(1, hdr[p])'
    <3>1. op[p] = "write" /\ target[p] = 2 => Match(1, hdr[p])
      BY <2>1
    <3>2. target[p] = 2 => bin'[1] = bin[1] /\ json'[1] = json[1]
      BY <2>1 DEF TypeOK
    <3>3. QED
      BY <2>1, <3>1, <3>2 DEF Match
  <2>4. QED
    BY <1>8, <2>1, <2>2, <2>3 DEF TypeOK
<1>11. ASSUME NEW p \in Procs, WriteBinCsum(p)
       PROVE  StoreInv'
  <2>1. /\ pc[p] = "csum" /\ pc' = [pc EXCEPT ![p] = "sync"]
        /\ bin' = [bin EXCEPT ![target[p]] = BinHeader(p, Out(p).jobj)]
        /\ UNCHANGED <<json, op, hdr, target>>
    BY <1>11 DEF WriteBinCsum, StoreBin
  <2>2. op[p] = "write" => Match(target[p], hdr[p])'
    BY <2>1 DEF Match, BinHeader, Out, TypeOK
  <2>3. op[p] = "write" => (json[target[p]] = hdr[p].jobj)'
    BY <2>1
  <2>4. op[p] = "write" /\ target[p] = 2 => Match(1, hdr[p])'
    <3>1. op[p] = "write" /\ target[p] = 2 => Match(1, hdr[p])
      BY <2>1
    <3>2. target[p] = 2 => bin'[1] = bin[1] /\ json'[1] = json[1]
      BY <2>1 DEF TypeOK
    <3>3. QED
      BY <2>1, <3>1, <3>2 DEF Match
  <2>5. QED
    BY <1>8, <2>1, <2>2, <2>3, <2>4 DEF TypeOK
<1>12. ASSUME NEW p \in Procs, DeviceSync(p)
       PROVE  StoreInv'
  <2>1. /\ pc[p] = "sync" /\ UNCHANGED <<bin, json, op, hdr>>
        /\ \A q \in Procs \ {p} : pc'[q] = pc[q] /\ target'[q] = target[q]
        /\ op[p] = "write" /\ target[p] = 1 => pc'[p] = "bin" /\ target'[p] = 2
        /\ ~(op[p] = "write" /\ target[p] = 1) => pc'[p] = "done"
    BY <1>12 DEF DeviceSync, TypeOK
  <2>2. op[p] = "write" /\ target[p] = 1 => Match(1, hdr[p])'
    BY <2>1 DEF Match
  <2>3. op[p] = "write" /\ target[p] # 1 => Match(1, hdr[p])' /\ Match(2, hdr[p])'
    <3>1. op[p] = "write" /\ target[p] # 1 => Match(1, hdr[p]) /\ Match(2, hdr[p])
      BY <2>1 DEF TypeOK
    <3>2. QED
      BY <2>1, <3>1 DEF Match
  <2>4. QED
    BY <1>8, <2>1, <2>2, <2>3
<1>13. ASSUME NEW p \in Procs, DiskWriteFails(p)
       PROVE  StoreInv'
  <2>1. /\ pc[p] \in Writing /\ UNCHANGED <<op, hdr, target>>
        /\ \A q \in Procs \ {p} : pc'[q] = pc[q]
        /\ op[p] = "write" => pc'[p] = "writefail"
    BY <1>13 DEF DiskWriteFails, TypeOK
  <2>2. QED
    BY <1>8, <2>1
<1>14. ASSUME NEW p \in Procs, Free(p) \/ Kill(p)
       PROVE  StoreInv'
  <2>1. UNCHANGED <<bin, json>> /\ DropContext({p})
    BY <1>14 DEF Free, Kill
  <2>2. QED
    BY <2>1, DroppedContext DEF Match, Unsealed
<1>15. CASE PowerFail
  <2>1. \A q \in Procs : op'[q] = "read"
    BY <1>15 DEF PowerFail, DropContext
  <2>2. QED
    BY <2>1
<1>16. CASE UNCHANGED vars
  BY <1>16 DEF vars, Match, Unsealed
<1>17. QED
  BY <1>1, <1>2, <1>3, <1>4, <1>5, <1>6, <1>7, <1>9, <1>10, <1>11, <1>12,
     <1>13, <1>14, <1>15, <1>16
     DEF Next, LoadStep, WriteStep, DiskStep

(* Every reachable state satisfies the inductive invariant. *)
THEOREM HeaderBaseInvariant == Spec => []BaseInv
<1> USE HeaderConstants, NoneIsNoHeader
<1>1. Init => BaseInv
  BY DEF Init, BaseInv, TypeOK, LockInv, StoreInv, Lock!Init, Copies, Steps,
         BinHeaders, Uuids, Areas, FormatSeqid, Writing
<1>2. BaseInv /\ [Next]_vars => BaseInv'
  <2> SUFFICES ASSUME BaseInv, [Next]_vars
               PROVE  BaseInv'
    OBVIOUS
  <2>1. QED
    BY HeaderTypeStep, HeaderLockStep, HeaderStoreStep DEF BaseInv
<1>3. QED
  BY <1>1, <1>2, PTL DEF Spec

(* The state of the header store keeps its types: a copy that is read is a *)
(* header, and no step leaves a context half filled.                       *)
THEOREM HeaderTypeCorrect == Spec => []TypeOK
<1>1. BaseInv => TypeOK
  BY DEF BaseInv
<1>2. QED
  BY <1>1, HeaderBaseInvariant, PTL

(* A write that reports success has left two good and equal copies, for    *)
(* any number of processes, failed reads, writes and syncs, kills and      *)
(* power failures before it.                                               *)
THEOREM AckedWriteIsRedundant == Spec => AckedIsRedundant
<1>1. BaseInv /\ [Next]_vars =>
        [\A p \in Procs :
           WriteDone(p) => Version(1) # None /\ Version(1) = Version(2)]_vars
  <2> SUFFICES ASSUME BaseInv, NEW p \in Procs, WriteDone(p)
               PROVE  Version(1) # None /\ Version(1) = Version(2)
    OBVIOUS
  <2>1. Match(1, hdr[p]) /\ Match(2, hdr[p])
    BY DEF BaseInv, StoreInv, WriteDone, Goto
  <2>2. Valid(1) /\ Version(1) = Version(2)
    BY <2>1 DEF Match, Version, Valid
  <2>3. QED
    BY <2>2, VersionType DEF BaseInv, Copies
<1>2. QED
  BY <1>1, HeaderBaseInvariant, PTL DEF Spec, AckedIsRedundant

----------------------------------------------------------------------------
(***************************************************************************)
(* What the redundancy of the LUKS2 header is worth: for any number of     *)
(* processes, updates and power failures, one valid header survives, no    *)
(* acknowledged update is lost, the sequence id check is sound, and the    *)
(* store implements MetadataRegister.                                      *)
(*                                                                         *)
(* None of this holds without a bound on faults, which Tolerated states.   *)
(*   - A write that fails can leave one copy bad and the next one can then *)
(*     fail on the other.                                                  *)
(*   - LUKS2_check_sequence_id accepts any sequence id once the UUID on    *)
(*     the device differs from the one in memory.                          *)
(*   - hdr_write_disk reuses an open descriptor under the read lock        *)
(*     (device_open_internal), so after a kill several readers may recover *)
(*     one copy at once.  If one of them has finished and goes on to write *)
(*     the other copy, a second kill can find both copies bad.             *)
(*                                                                         *)
(* The inductive invariant is FaultInv.  ChainInv orders everything the    *)
(* medium may hold by sequence id and makes it grow by inclusion; ValidInv *)
(* is the redundancy; RecoverInv, ReadInv and WriteInv say what a process  *)
(* at each step of recovery, load and write may rely on; LoadedInv what a  *)
(* context in memory has to do with the device; PrivateInv that an update  *)
(* in the making is nowhere else; KillInv why the first kill finds no two  *)
(* writers.  Each has a lemma that a step preserves it, over the pointwise *)
(* forms of the steps that StepForms derives from Next.                    *)
(***************************************************************************)

(* At most one process was killed, no I/O failed, the UUID was not changed. *)
Tolerated == ioerrs = 0 /\ kills <= 1 /\ issued \cap UuidUpdates = {}

(* Written since the last sync. *)
Dirty(c) == mbin[c] # {bin[c]} \/ mjson[c] # {json[c]}

(* The good headers a power failure may leave in copy c. *)
Stored(c) == {b \in mbin[c] : b.csum \in mjson[c]}

(* hdr_read_disk of copy c returns v. *)
Reads(c, v) == IF Valid(c) THEN v # None /\ Match(c, v) ELSE v = None

(* A process at work on the recovery of a copy. *)
Recovering(p) == op[p] = "read" /\ pc[p] \in Writing \cup {"probe"}

Agree == Valid(1) /\ Valid(2) /\ bin[1].seqid = bin[2].seqid

(* Headers in memory and on the device have their origin in updates.       *)
MetaInv ==
  /\ \A c \in Copies :
       /\ bin[c] \in mbin[c] /\ json[c] \in mjson[c]
       /\ \A b \in mbin[c] :
            b.uuid = None /\ (b.csum # None => b.csum \subseteq issued)
       /\ \A j \in mjson[c] : j # Torn => j \subseteq issued
  /\ \A p \in Procs :
       /\ hdr[p] # None =>
            /\ hdr[p].uuid = None /\ hdr[p].jobj \subseteq issued
            /\ hdr[p].rollback \subseteq hdr[p].jobj
       /\ tmp[p] # None => tmp[p].uuid = None /\ tmp[p].jobj \subseteq issued
       /\ pc[p] # "writefail"

(* A document has one sequence id; what the medium may hold is a chain of  *)
(* documents, every acknowledged update in all of them, below a header     *)
(* that can be read now.                                                   *)
ChainInv ==
  /\ \A c, d \in Copies : \A b \in mbin[c], e \in mbin[d] :
       b.csum # None /\ b.csum = e.csum => b.seqid = e.seqid
  /\ \A c, d \in Copies : \A b \in Stored(c), e \in Stored(d) :
       b.seqid <= e.seqid => b.csum \subseteq e.csum
  /\ \A c \in Copies : \A b \in Stored(c) :
       /\ acked \subseteq b.csum
       /\ \E d \in Copies : Valid(d) /\ b.seqid <= bin[d].seqid

(* One copy is good, and so is the synced one when the other is not.       *)
ValidInv ==
  /\ \E c \in Copies : Valid(c)
  /\ \A c \in Copies : Dirty(c) /\ ~Dirty(Other(c)) => Valid(Other(c))

(* Recoveries that run at once (readers with an open descriptor) write the *)
(* same header to the same copy; the other copy is its source.             *)
RecoverInv ==
  \A p \in Procs : Recovering(p) =>
    /\ Match(Other(target[p]), tmp[p])
    /\ Valid(target[p]) => bin[target[p]].seqid <= tmp[p].seqid
    /\ pc[p] \in {"json", "csum", "sync"} =>
         /\ bin[target[p]].seqid = tmp[p].seqid
         /\ bin[target[p]].csum \in {None, tmp[p].jobj}
    /\ pc[p] \in {"csum", "sync"} => json[target[p]] = tmp[p].jobj
    /\ pc[p] = "sync" =>
         \/ bin[target[p]].csum = tmp[p].jobj
         \/ \E q \in Procs : pc[q] \in {"json", "csum"} /\ target[q] = target[p]
    /\ \A q \in Procs : Recovering(q) => target[q] = target[p]

(* The primary header that p has read was replaced by a recovery since: the *)
(* secondary copy is the newer one.                                         *)
Replaced(p) ==
  /\ Valid(2)
  /\ Valid(1) => bin[1].seqid <= bin[2].seqid
  /\ tmp[p] # None => tmp[p].seqid < bin[2].seqid \/ Match(2, tmp[p])
  /\ \A q \in Procs : Recovering(q) => target[q] = 1
  /\ tmp[p] # None /\ Match(2, tmp[p]) =>
       Match(1, tmp[p]) \/ \E q \in Procs : pc[q] \in Writing /\ target[q] = 1

(* The header that p is about to return is in both copies, or will be. *)
Kept(p) ==
  \A c \in Copies :
    Match(c, tmp[p]) \/ \E q \in Procs : pc[q] \in Writing /\ target[q] = c

(* A reader's primary header is what is on the device, or what a recovery  *)
(* has replaced since by the newer secondary one.                          *)
ReadInv ==
  \A p \in Procs :
    /\ pc[p] = "read2" => Reads(1, tmp[p]) \/ Replaced(p)
    /\ pc[p] = "done" /\ op[p] = "read" => Kept(p)

(* LUKS2_hdr_write starts from the header that is current: the secondary   *)
(* copy keeps it until the primary is synced.  The new document is new to  *)
(* every copy it has not reached.                                          *)
WriteInv ==
  \A p \in Procs : op[p] = "write" =>
    /\ pc[p] \in Writing =>
         /\ target[p] = 1 =>
              /\ Valid(2) /\ json[2] = hdr[p].rollback
              /\ bin[2].seqid + 1 = hdr[p].seqid
              /\ Valid(1) /\ pc[p] # "sync" => bin[1].seqid = bin[2].seqid
         /\ target[p] = 2 => (Valid(2) => bin[2].seqid <= hdr[p].seqid)
         /\ \E u \in hdr[p].jobj : \A c \in Copies :
              c > target[p] \/ (c = target[p] /\ pc[p] # "sync") =>
                \A b \in mbin[c] : b.csum # None => u \notin b.csum
         /\ \A q \in Procs \ {p} : hdr[q] # None => hdr[q].seqid < hdr[p].seqid
    /\ pc[p] = "done" => \A c \in Copies : ~Dirty(c)

(* Update u is nowhere but in the header of p. *)
Private(p, u) ==
  /\ \A c \in Copies :
       /\ \A b \in mbin[c] : b.csum # None => u \notin b.csum
       /\ \A j \in mjson[c] : j # Torn => u \notin j
  /\ \A q \in Procs :
       /\ tmp[q] # None => u \notin tmp[q].jobj
       /\ q # p /\ hdr[q] # None => u \notin hdr[q].jobj

PrivateInv ==
  \A p \in Procs : pc[p] = "writelock" => \E u \in hdr[p].jobj : Private(p, u)

(* A context that is not writing: its sequence id is not ahead of the      *)
(* device, stands for one document, and if it is the one of the primary    *)
(* header, the secondary copy is good and the same (unless a live process  *)
(* is recovering it).                                                      *)
Loaded(p) ==
  hdr[p] # None /\ ~(op[p] = "write" /\ pc[p] \in Writing \cup {"done"})

LoadedInv ==
  \A p \in Procs : Loaded(p) =>
    /\ \A c \in Copies :
         Valid(c) /\ bin[c].seqid = hdr[p].seqid => json[c] = hdr[p].rollback
    /\ \E c \in Copies : Valid(c) /\ hdr[p].seqid <= bin[c].seqid
    /\ /\ hdr[p].seqid = bin[1].seqid
       /\ \A q \in Procs : pc[q] \in Writing => target[q] # 2
       => Valid(2) /\ bin[2].seqid = hdr[p].seqid

(* Before anybody is killed, only a power failure damages a copy, and the  *)
(* recovery runs alone: no context of before is left.                      *)
KillInv ==
  kills = 0 =>
    /\ \A p \in Procs :
         /\ pc[p] \in Writing => holds[p] = "ex"
         /\ pc[p] = "read2" => Reads(1, tmp[p])
         /\ pc[p] = "probe" => ~Agree
         /\ pc[p] \in Writing /\ op[p] = "read" => \A q \in Procs : hdr[q] = None
         /\ rwfd[p] \/ hdr[p] # None =>
              Agree \/ \E q \in Procs : pc[q] \in Writing
    /\ \A c \in Copies : Dirty(c) =>
         \E p \in Procs : pc[p] \in {"json", "csum", "sync"} /\ target[p] = c

FaultInv ==
  /\ MetaInv /\ ChainInv /\ ValidInv /\ RecoverInv /\ ReadInv
  /\ WriteInv /\ PrivateInv /\ LoadedInv /\ KillInv

HeaderInv == BaseInv /\ (Tolerated => FaultInv)

-----------------------------------------------------------------------------
(* The steps, in the form the proofs use: pointwise. *)

Others(p, f) == \A q \in Procs \ {p} : f'[q] = f[q]

SameDisk == UNCHANGED <<bin, json, mbin, mjson>>
SameHist == UNCHANGED <<issued, acked, kills, powerfails>>

(* Steps that only move the program counter, the lock or the operation. *)
ControlForm(p) ==
  /\ SameDisk /\ SameHist /\ UNCHANGED <<hdr, tmp, target, rwfd>>
  /\ pc[p] \in {"idle", "readlock", "relock", "probe", "loadfail"}
  /\ pc'[p] \in {"idle", "readlock", "relock", "read1", "loadfail"}
  /\ op'[p] \in {op[p], "read"}
  /\ Others(p, pc) /\ Others(p, op) /\ Others(p, holds)

(* A write that ended before anything was stored. *)
FailForm(p) ==
  /\ SameDisk /\ SameHist /\ UNCHANGED <<tmp, target, rwfd, op, holds>>
  /\ pc[p] = "writelock" /\ pc'[p] = "idle" /\ Others(p, pc) /\ Others(p, hdr)
  /\ hdr[p] # None /\ hdr'[p] # None
  /\ hdr'[p].seqid = hdr[p].seqid /\ hdr'[p].uuid = hdr[p].uuid
  /\ hdr'[p].jobj \in {hdr[p].jobj, hdr[p].rollback}
  /\ hdr'[p].rollback = hdr[p].rollback

(* crypt_free, or the end of the process. *)
DropForm(p) ==
  /\ SameDisk /\ UNCHANGED <<issued, acked, powerfails>>
  /\ pc'[p] = "idle" /\ holds'[p] = "un" /\ op'[p] = "read"
  /\ hdr'[p] = None /\ tmp'[p] = None /\ ~rwfd'[p]
  /\ Others(p, pc) /\ Others(p, holds) /\ Others(p, op) /\ Others(p, hdr)
  /\ Others(p, tmp) /\ Others(p, target) /\ Others(p, rwfd)
  /\ \/ pc[p] = "idle" /\ kills' = kills
     \/ kills = 0 /\ kills' = 1

(* One step of hdr_write_disk, on copy t, for header o. *)
DiskForm(p, from, to) ==
  /\ pc[p] = from /\ pc'[p] = to /\ Others(p, pc)
  /\ SameHist /\ UNCHANGED <<hdr, tmp, op, rwfd, holds>>

BinForm(p) ==
  LET t == target[p] o == Out(p) IN
  /\ DiskForm(p, "bin", "json")
  /\ UNCHANGED <<target, json, mjson>>
  /\ bin'[t].seqid = o.seqid /\ bin'[t].uuid = o.uuid /\ bin'[t].csum = None
  /\ mbin'[t] = mbin[t] \cup {bin'[t]}
  /\ bin'[Other(t)] = bin[Other(t)] /\ mbin'[Other(t)] = mbin[Other(t)]

JsonForm(p) ==
  LET t == target[p] o == Out(p) IN
  /\ DiskForm(p, "json", "csum")
  /\ UNCHANGED <<target, bin, mbin>>
  /\ json'[t] = o.jobj /\ mjson'[t] = mjson[t] \cup {o.jobj, Torn}
  /\ json'[Other(t)] = json[Other(t)] /\ mjson'[Other(t)] = mjson[Other(t)]

CsumForm(p) ==
  LET t == target[p] o == Out(p) IN
  /\ DiskForm(p, "csum", "sync")
  /\ UNCHANGED <<target, json, mjson>>
  /\ bin'[t].seqid = o.seqid /\ bin'[t].uuid = o.uuid /\ bin'[t].csum = o.jobj
  /\ mbin'[t] = mbin[t] \cup {bin'[t]}
  /\ bin'[Other(t)] = bin[Other(t)] /\ mbin'[Other(t)] = mbin[Other(t)]

SyncForm(p) ==
  /\ UNCHANGED <<bin, json>>
  /\ \A c \in Copies : mbin'[c] = {bin[c]} /\ mjson'[c] = {json[c]}
  /\ Others(p, target)
  /\ \/ /\ op[p] = "write" /\ target[p] = 1 /\ target'[p] = 2
        /\ DiskForm(p, "sync", "bin")
     \/ /\ ~(op[p] = "write" /\ target[p] = 1) /\ target'[p] = target[p]
        /\ DiskForm(p, "sync", "done")

(* LUKS2_disk_hdr_read, without I/O errors. *)
ReadForm(p) ==
  /\ SameDisk /\ SameHist /\ UNCHANGED <<hdr, rwfd, op, holds>>
  /\ Others(p, pc) /\ Others(p, tmp) /\ Others(p, target)
  /\ \/ pc[p] = "read1" /\ pc'[p] = "read2" /\ Reads(1, tmp'[p])
     \/ /\ pc[p] = "read2"
        /\ \E v2 \in {None} \cup Headers :
             /\ Reads(2, v2)
             /\ tmp'[p] = IF Usable(tmp[p], v2) = 1 THEN tmp[p] ELSE v2
             /\ target'[p] = Other(Usable(tmp[p], v2))
             /\ tmp[p] = None /\ v2 = None => pc'[p] = "loadfail"
             /\ ~(tmp[p] = None /\ v2 = None) =>
                  pc'[p] = IF InSync(tmp[p], v2) THEN "done" ELSE "probe"

(* hdr_write_disk gets its descriptor for a recovery. *)
OpenForm(p) ==
  /\ SameDisk /\ SameHist /\ UNCHANGED <<hdr, tmp, target, op, holds>>
  /\ pc[p] = "probe" /\ pc'[p] = "bin" /\ Others(p, pc) /\ Others(p, rwfd)
  /\ rwfd[p] \/ holds[p] = "ex"

LoadForm(p) ==
  /\ SameDisk /\ SameHist /\ UNCHANGED <<tmp, target, op, rwfd>>
  /\ op[p] = "read" /\ pc[p] = "done" /\ pc'[p] = "idle" /\ tmp[p] # None
  /\ Others(p, pc) /\ Others(p, holds) /\ Others(p, hdr)
  /\ hdr'[p] # None
  /\ hdr'[p].seqid = tmp[p].seqid /\ hdr'[p].uuid = tmp[p].uuid
  /\ hdr'[p].jobj = tmp[p].jobj /\ hdr'[p].rollback = tmp[p].jobj

UpdateForm(p, u) ==
  /\ SameDisk /\ UNCHANGED <<tmp, target, rwfd, holds, acked, kills, powerfails>>
  /\ pc[p] = "idle" /\ pc'[p] = "writelock" /\ Others(p, pc) /\ Others(p, op)
  /\ u \notin issued /\ issued' = issued \cup {u}
  /\ hdr[p] # None /\ hdr'[p] # None /\ Others(p, hdr) /\ op'[p] = "write"
  /\ hdr'[p].seqid = hdr[p].seqid /\ hdr'[p].uuid = hdr[p].uuid
  /\ hdr'[p].jobj = hdr[p].jobj \cup {u} /\ hdr'[p].rollback = hdr[p].rollback

WriteForm(p) ==
  /\ SameDisk /\ SameHist /\ UNCHANGED <<tmp, op>>
  /\ pc[p] = "writelock" /\ pc'[p] = "bin" /\ target'[p] = 1
  /\ SequenceIdMatches(p)
  /\ \A q \in Procs \ {p} : holds[q] = "un"
  /\ holds'[p] = "ex"
  /\ Others(p, pc) /\ Others(p, holds) /\ Others(p, hdr)
  /\ Others(p, target) /\ Others(p, rwfd)
  /\ hdr[p] # None /\ hdr'[p] # None
  /\ hdr'[p].seqid = hdr[p].seqid + 1 /\ hdr'[p].uuid = hdr[p].uuid
  /\ hdr'[p].jobj = hdr[p].jobj /\ hdr'[p].rollback = hdr[p].rollback

AckForm(p) ==
  /\ SameDisk /\ UNCHANGED <<tmp, target, op, rwfd, issued, kills, powerfails>>
  /\ op[p] = "write" /\ pc[p] = "done" /\ pc'[p] = "idle"
  /\ Others(p, pc) /\ Others(p, holds) /\ Others(p, hdr)
  /\ acked' = acked \cup hdr[p].jobj
  /\ hdr[p] # None /\ hdr'[p] # None
  /\ hdr'[p].seqid = hdr[p].seqid /\ hdr'[p].uuid = hdr[p].uuid
  /\ hdr'[p].jobj = hdr[p].jobj /\ hdr'[p].rollback = hdr[p].jobj

PowerForm ==
  /\ kills = 0 \/ Orphaned = {}
  /\ UNCHANGED <<issued, acked, kills>> /\ powerfails' = powerfails + 1
  /\ \A c \in Copies :
       /\ bin'[c] \in mbin[c] /\ json'[c] \in mjson[c]
       /\ mbin'[c] = {bin'[c]} /\ mjson'[c] = {json'[c]}
  /\ \A p \in Procs :
       /\ pc'[p] = "idle" /\ op'[p] = "read" /\ holds'[p] = "un"
       /\ hdr'[p] = None /\ tmp'[p] = None /\ ~rwfd'[p]

StepForm ==
  \/ \E p \in Procs :
       \/ ControlForm(p) \/ FailForm(p) \/ DropForm(p)
       \/ BinForm(p) \/ JsonForm(p) \/ CsumForm(p) \/ SyncForm(p)
       \/ ReadForm(p) \/ OpenForm(p) \/ LoadForm(p)
       \/ WriteForm(p) \/ AckForm(p) \/ \E u \in Updates : UpdateForm(p, u)
  \/ PowerForm
  \/ UNCHANGED vars

(* A fault is never taken back. *)
LEMMA ToleratedBefore ==
  ASSUME TypeOK, TypeOK', [Next]_vars, Tolerated'
  PROVE  Tolerated /\ ioerrs' = 0
<1> USE DEF Tolerated, TypeOK, disk, ctx, hist
<1>1. ASSUME NEW p \in Procs, LoadStep(p)
      PROVE  UNCHANGED <<issued, kills>> /\ ioerrs' >= ioerrs
  BY <1>1 DEF LoadStep, LoadStart, LoadLock, LoadLockFails, ReadPrimary,
              ReadSecondary, ReadResult, ProbeRefuses, RecoveryOpen,
              RecoveryNeedsWriteLock, LoadFails, LoadDone, Fault
<1>2. ASSUME NEW p \in Procs, WriteStep(p)
      PROVE  issued \subseteq issued' /\ UNCHANGED <<kills, ioerrs>>
  BY <1>2 DEF WriteStep, UpdateStart, WriteLock, WriteRefused, WriteAborts,
              WriteDone, WriteFails
<1>3. ASSUME NEW p \in Procs, DiskStep(p)
      PROVE  UNCHANGED <<issued, kills>> /\ ioerrs' >= ioerrs
  BY <1>3 DEF DiskStep, WriteBinNoCsum, WriteJson, WriteBinCsum, DeviceSync,
              DiskWriteFails, Fault
<1>4. ASSUME NEW p \in Procs, Free(p) \/ Kill(p)
      PROVE  UNCHANGED <<issued, ioerrs>> /\ kills' >= kills
  BY <1>4 DEF Free, Kill
<1>5. PowerFail => UNCHANGED <<issued, kills, ioerrs>>
  BY DEF PowerFail
<1>6. UNCHANGED vars => UNCHANGED <<issued, kills, ioerrs>>
  BY DEF vars
<1>7. issued \subseteq issued' /\ kills' >= kills /\ ioerrs' >= ioerrs
  BY <1>1, <1>2, <1>3, <1>4, <1>5, <1>6 DEF Next
<1>8. QED
  BY <1>7

(* Without I/O errors, and while the UUID stays, every step has one of the *)
(* forms above.                                                            *)
LEMMA StepForms ==
  ASSUME BaseInv, BaseInv', MetaInv, Tolerated, Tolerated', [Next]_vars
  PROVE  StepForm
<1> USE HeaderConstants, NoneIsNoHeader
<1> USE DEF Others, SameDisk, SameHist, Goto, disk, ctx, hist
<1>t. TypeOK /\ TypeOK' /\ ioerrs' = 0 /\ ioerrs = 0
  BY ToleratedBefore DEF BaseInv, Tolerated
<1>l. LockInv
  BY DEF BaseInv
<1>f. ~Fault
  BY <1>t DEF Fault
<1>1. ASSUME NEW p \in Procs,
             \/ LoadStart(p) \/ LoadLock(p) \/ LoadLockFails(p) \/ ProbeRefuses(p)
             \/ RecoveryNeedsWriteLock(p) \/ LoadFails(p)
      PROVE  ControlForm(p)
  BY <1>1, <1>t, <1>f DEF LoadStart, LoadLock, LoadLockFails, ProbeRefuses,
         RecoveryNeedsWriteLock, LoadFails, ControlForm, TypeOK,
         Lock!Acquire, Lock!Release
<1>2. ASSUME NEW p \in Procs, ReadPrimary(p)
      PROVE  ReadForm(p)
  <2>1. tmp'[p] = Version(1)
    BY <1>2, <1>t, <1>f DEF ReadPrimary, ReadResult, TypeOK
  <2>2. Reads(1, tmp'[p])
    BY <2>1, <1>t, VersionType DEF Reads, Copies
  <2>3. QED
    BY <1>2, <1>t, <2>2 DEF ReadPrimary, ReadForm, TypeOK
<1>3. ASSUME NEW p \in Procs, ReadSecondary(p)
      PROVE  ReadForm(p)
  <2>1. PICK v2 \in {Version(2), None} :
           /\ v2 # Version(2) => ioerrs' = ioerrs + 1
           /\ tmp'[p] = IF Usable(tmp[p], v2) = 1 THEN tmp[p] ELSE v2
           /\ target'[p] = Other(Usable(tmp[p], v2))
           /\ tmp[p] = None /\ v2 = None => pc'[p] = "loadfail"
           /\ ~(tmp[p] = None /\ v2 = None) /\ InSync(tmp[p], v2) => pc'[p] = "done"
           /\ ~(tmp[p] = None /\ v2 = None) /\ ~InSync(tmp[p], v2) => pc'[p] = "probe"
    BY <1>3, <1>t, SecondaryResult
  <2>2. v2 = Version(2)
    BY <1>t, <2>1
  <2>3. v2 \in {None} \cup Headers /\ Reads(2, v2)
    BY <2>2, <1>t, VersionType DEF Reads, Copies
  <2>4. pc[p] = "read2" /\ Others(p, pc) /\ Others(p, tmp) /\ Others(p, target)
    BY <1>3, <1>t DEF ReadSecondary, TypeOK
  <2>5. SameDisk /\ SameHist /\ UNCHANGED <<hdr, rwfd, op, holds>>
    BY <1>3 DEF ReadSecondary
  <2>6. QED
    BY <2>1, <2>3, <2>4, <2>5 DEF ReadForm
<1>4. ASSUME NEW p \in Procs, RecoveryOpen(p)
      PROVE  OpenForm(p)
  BY <1>4, <1>t DEF RecoveryOpen, OpenForm, TypeOK
<1>5. ASSUME NEW p \in Procs, LoadDone(p)
      PROVE  LoadForm(p)
  <2>1. tmp[p] # None
    BY <1>5, <1>l DEF LoadDone, LockInv
  <2>2. /\ hdr'[p] # None
        /\ hdr'[p].seqid = tmp[p].seqid /\ hdr'[p].uuid = tmp[p].uuid
        /\ hdr'[p].jobj = tmp[p].jobj /\ hdr'[p].rollback = tmp[p].jobj
        /\ Others(p, hdr)
    BY <1>5, <1>t, <2>1, LoadedContext
  <2>3. QED
    BY <1>5, <1>t, <2>1, <2>2 DEF LoadDone, LoadForm, Lock!Release, TypeOK
<1>6. ASSUME NEW p \in Procs, NEW u \in Updates, UpdateStart(p, u)
      PROVE  UpdateForm(p, u)
  <2>1. u \notin UuidUpdates
    BY <1>6 DEF UpdateStart, Tolerated
  <2>2. /\ hdr[p] # None /\ hdr'[p] # None /\ Others(p, hdr)
        /\ hdr'[p].seqid = hdr[p].seqid /\ hdr'[p].uuid = hdr[p].uuid
        /\ hdr'[p].jobj = hdr[p].jobj \cup {u} /\ hdr'[p].rollback = hdr[p].rollback
    BY <1>6, <1>t, <2>1, UpdateContext
  <2>3. /\ SameDisk /\ UNCHANGED <<tmp, target, rwfd, holds, acked, kills, powerfails>>
        /\ pc[p] = "idle" /\ pc'[p] = "writelock" /\ Others(p, pc) /\ Others(p, op)
        /\ u \notin issued /\ issued' = issued \cup {u} /\ op'[p] = "write"
    BY <1>6, <1>t DEF UpdateStart, TypeOK
  <2>4. QED
    BY <2>2, <2>3 DEF UpdateForm
<1>7. ASSUME NEW p \in Procs, WriteLock(p)
      PROVE  WriteForm(p)
  <2>1. hdr[p] # None
    BY <1>7, <1>l DEF WriteLock, LockInv
  <2>2. /\ hdr'[p] # None /\ Others(p, hdr)
        /\ hdr'[p].seqid = hdr[p].seqid + 1 /\ hdr'[p].uuid = hdr[p].uuid
        /\ hdr'[p].jobj = hdr[p].jobj /\ hdr'[p].rollback = hdr[p].rollback
    BY <1>7, <1>t, <2>1, LockedContext
  <2>3. (\A q \in Procs \ {p} : holds[q] = "un") /\ holds'[p] = "ex" /\ Others(p, holds)
    BY <1>7, <1>t DEF WriteLock, Lock!Acquire, Lock!Compatible, TypeOK
  <2>4. /\ SameDisk /\ SameHist /\ UNCHANGED <<tmp, op>>
        /\ pc[p] = "writelock" /\ pc'[p] = "bin" /\ target'[p] = 1
        /\ SequenceIdMatches(p)
        /\ Others(p, pc) /\ Others(p, target) /\ Others(p, rwfd)
    BY <1>7, <1>t DEF WriteLock, TypeOK
  <2>5. QED
    BY <2>1, <2>2, <2>3, <2>4 DEF WriteForm
<1>8. ASSUME NEW p \in Procs, WriteRefused(p) \/ WriteAborts(p)
      PROVE  FailForm(p)
  <2>1. hdr[p] # None /\ AfterFailure(p)
    BY <1>8, <1>l DEF WriteRefused, WriteAborts, LockInv
  <2>2. /\ hdr'[p] # None /\ Others(p, hdr)
        /\ hdr'[p].seqid = hdr[p].seqid /\ hdr'[p].uuid = hdr[p].uuid
        /\ hdr'[p].jobj \in {hdr[p].jobj, hdr[p].rollback}
        /\ hdr'[p].rollback = hdr[p].rollback
    BY <1>t, <2>1, FailureContext
  <2>3. /\ SameDisk /\ SameHist /\ UNCHANGED <<tmp, target, rwfd, op, holds>>
        /\ pc[p] = "writelock" /\ pc'[p] = "idle" /\ Others(p, pc)
    BY <1>8, <1>t DEF WriteRefused, WriteAborts, TypeOK
  <2>4. QED
    BY <2>1, <2>2, <2>3 DEF FailForm
<1>9. ASSUME NEW p \in Procs, WriteDone(p)
      PROVE  AckForm(p)
  <2>1. hdr[p] # None
    BY <1>9, <1>l DEF WriteDone, LockInv
  <2>2. /\ hdr'[p] # None /\ Others(p, hdr)
        /\ hdr'[p].seqid = hdr[p].seqid /\ hdr'[p].uuid = hdr[p].uuid
        /\ hdr'[p].jobj = hdr[p].jobj /\ hdr'[p].rollback = hdr[p].jobj
    BY <1>9, <1>t, <2>1, StoredContext
  <2>3. /\ SameDisk /\ UNCHANGED <<tmp, target, op, rwfd, issued, kills, powerfails>>
        /\ op[p] = "write" /\ pc[p] = "done" /\ pc'[p] = "idle"
        /\ Others(p, pc) /\ Others(p, holds)
        /\ acked' = acked \cup hdr[p].jobj
    BY <1>9, <1>t DEF WriteDone, Lock!Release, TypeOK
  <2>4. QED
    BY <2>1, <2>2, <2>3 DEF AckForm
<1>10. ASSUME NEW p \in Procs, WriteFails(p)
       PROVE  FALSE
  BY <1>10 DEF WriteFails, MetaInv
<1>11. ASSUME NEW p \in Procs, WriteBinNoCsum(p)
       PROVE  BinForm(p)
  BY <1>11, <1>t DEF WriteBinNoCsum, StoreBin, BinHeader, BinForm, DiskForm,
                     TypeOK, Copies, Other
<1>12. ASSUME NEW p \in Procs, WriteJson(p)
       PROVE  JsonForm(p)
  BY <1>12, <1>t DEF WriteJson, StoreJson, JsonForm, DiskForm, TypeOK, Copies, Other
<1>13. ASSUME NEW p \in Procs, WriteBinCsum(p)
       PROVE  CsumForm(p)
  BY <1>13, <1>t DEF WriteBinCsum, StoreBin, BinHeader, CsumForm, DiskForm,
                     TypeOK, Copies, Other
<1>14. ASSUME NEW p \in Procs, DeviceSync(p)
       PROVE  SyncForm(p)
  BY <1>14, <1>t, <1>f DEF DeviceSync, Flush, SyncForm, DiskForm, TypeOK
<1>15. ASSUME NEW p \in Procs, DiskWriteFails(p)
       PROVE  FALSE
  BY <1>15, <1>f DEF DiskWriteFails
<1>16. ASSUME NEW p \in Procs, Free(p) \/ Kill(p)
       PROVE  DropForm(p)
  <2>1. DropContext({p}) /\ SameDisk /\ UNCHANGED <<issued, acked, powerfails>>
    BY <1>16 DEF Free, Kill
  <2>2. ~rwfd'[p] /\ Others(p, rwfd)
    BY <2>1 DEF DropContext
  <2>3. \/ pc[p] = "idle" /\ kills' = kills
        \/ kills = 0 /\ kills' = 1
    BY <1>16, <1>t DEF Free, Kill, Tolerated, TypeOK
  <2>4. QED
    BY <1>t, <2>1, <2>2, <2>3, DroppedContext DEF DropForm
<1>17. ASSUME PowerFail
       PROVE  PowerForm
  <2>1. \A c \in Copies : bin'[c] \in mbin[c] /\ json'[c] \in mjson[c]
    BY <1>17 DEF PowerFail
  <2>2. \A p \in Procs : /\ pc'[p] = "idle" /\ op'[p] = "read" /\ holds'[p] = "un"
                         /\ hdr'[p] = None /\ tmp'[p] = None
    BY <1>17 DEF PowerFail, DropContext
  <2>3. \A p \in Procs : ~rwfd'[p]
    BY <1>17 DEF PowerFail, DropContext
  <2>4. QED
    BY <1>17, <2>1, <2>2, <2>3 DEF PowerFail, PowerForm, Flush
<1>18. QED
  BY <1>1, <1>2, <1>3, <1>4, <1>5, <1>6, <1>7, <1>8, <1>9, <1>10, <1>11, <1>12,
     <1>13, <1>14, <1>15, <1>16, <1>17
     DEF Next, LoadStep, WriteStep, DiskStep, StepForm

-----------------------------------------------------------------------------
(* The types of the parts of headers, process by process and copy by copy. *)
Parts ==
  /\ \A c \in Copies :
       /\ bin[c].seqid \in Nat /\ bin[c].csum \in {None} \cup SUBSET Updates
       /\ json[c] \in {Torn} \cup SUBSET Updates
       /\ \A b \in mbin[c] : b.seqid \in Nat /\ b.csum \in {None} \cup SUBSET Updates
       /\ \A j \in mjson[c] : j \in {Torn} \cup SUBSET Updates
  /\ \A p \in Procs :
       /\ target[p] \in Copies
       /\ op[p] \in {"read", "write"}
       /\ hdr[p] # None => /\ hdr[p].seqid \in Nat /\ hdr[p].jobj \in SUBSET Updates
                           /\ hdr[p].rollback \in SUBSET Updates
       /\ tmp[p] # None => tmp[p].seqid \in Nat /\ tmp[p].jobj \in SUBSET Updates

(* The type invariant, in those terms. *)
LEMMA PartTypes == BaseInv => Parts
<1> SUFFICES ASSUME BaseInv PROVE Parts
  OBVIOUS
<1>1. TypeOK
  BY DEF BaseInv
<1>2. ASSUME NEW c \in Copies
      PROVE  /\ bin[c].seqid \in Nat /\ bin[c].csum \in {None} \cup SUBSET Updates
             /\ json[c] \in {Torn} \cup SUBSET Updates
             /\ \A b \in mbin[c] : b.seqid \in Nat /\ b.csum \in {None} \cup SUBSET Updates
             /\ \A j \in mjson[c] : j \in {Torn} \cup SUBSET Updates
  BY <1>1, <1>2 DEF TypeOK, BinHeaders, Areas
<1>3. ASSUME NEW p \in Procs
      PROVE  /\ target[p] \in Copies
             /\ op[p] \in {"read", "write"}
             /\ hdr[p] # None => /\ hdr[p].seqid \in Nat /\ hdr[p].jobj \in SUBSET Updates
                                 /\ hdr[p].rollback \in SUBSET Updates
             /\ tmp[p] # None => tmp[p].seqid \in Nat /\ tmp[p].jobj \in SUBSET Updates
  BY <1>1, <1>3 DEF TypeOK, Contexts, Headers
<1>4. QED
  BY <1>2, <1>3 DEF Parts

(* The same in the next state. *)
LEMMA PartTypesNext == BaseInv' => Parts'
BY PartTypes, PTL

(* What hdr_write_disk can rely on: the copy it does not write is good, not *)
(* older than the one it writes, and holds the same header, or the one that *)
(* the new header extends.                                                  *)
LEMMA WritingFacts ==
  ASSUME BaseInv, FaultInv, NEW p \in Procs, pc[p] \in Writing
  PROVE  LET t == target[p] s == Other(target[p]) o == Out(p) IN
         /\ t \in Copies /\ s \in Copies /\ s # t /\ \A c \in Copies : c \in {t, s}
         /\ o.seqid \in Nat /\ o.jobj \in SUBSET Updates /\ o.uuid = None
         /\ o.jobj \subseteq issued
         /\ Valid(s)
         /\ Valid(t) /\ pc[p] # "sync" => bin[t].seqid <= bin[s].seqid
         /\ \/ Match(s, o)
            \/ /\ op[p] = "write" /\ t = 1 /\ bin[s].seqid + 1 = o.seqid
               /\ json[s] \subseteq o.jobj
               /\ pc[p] # "sync" =>
                    \E u \in o.jobj : \A c \in Copies : \A b \in mbin[c] :
                      b.csum # None => u \notin b.csum
         /\ \A q \in Procs : pc[q] \in Writing \cup {"probe"} => target[q] = t
         /\ pc[p] \in {"json", "csum", "sync"} =>
              bin[t].seqid = o.seqid /\ bin[t].csum \in {None, o.jobj}
         /\ pc[p] \in {"csum", "sync"} => json[t] = o.jobj
         /\ op[p] = "write" => \A q \in Procs \ {p} : holds[q] = "un"
<1> DEFINE t == target[p]
           s == Other(target[p])
           o == Out(p)
<1> USE PartTypes
<1>c. t \in Copies /\ s \in Copies /\ s # t /\ \A c \in Copies : c \in {t, s}
  BY DEF Parts, Other, Copies
<1>l. LockInv /\ StoreInv /\ TypeOK
  BY DEF BaseInv
<1>x. op[p] = "write" => \A q \in Procs \ {p} : holds[q] = "un"
  BY <1>l DEF LockInv, Writing
<1>q. \A q \in Procs : pc[q] \in Writing \cup {"probe"} => holds[q] # "un"
  BY <1>l DEF LockInv, Writing
<1>o. /\ o.seqid \in Nat /\ o.jobj \in SUBSET Updates /\ o.uuid = None
      /\ o.jobj \subseteq issued
  BY <1>l DEF Out, LockInv, Parts, FaultInv, MetaInv
<1>1. CASE op[p] = "read"
  <2>1. Recovering(p) /\ o = tmp[p]
    BY <1>1 DEF Recovering, Out
  <2>2. /\ Match(s, tmp[p])
        /\ Valid(t) => bin[t].seqid <= tmp[p].seqid
        /\ pc[p] \in {"json", "csum", "sync"} =>
             bin[t].seqid = tmp[p].seqid /\ bin[t].csum \in {None, tmp[p].jobj}
        /\ pc[p] \in {"csum", "sync"} => json[t] = tmp[p].jobj
        /\ \A q \in Procs : Recovering(q) => target[q] = t
    BY <2>1 DEF FaultInv, RecoverInv
  <2>3. Valid(s) /\ bin[s].seqid = tmp[p].seqid
    BY <2>2 DEF Match, Valid
  <2>4. \A q \in Procs : pc[q] \in Writing \cup {"probe"} => target[q] = t
    <3>1. ASSUME NEW q \in Procs, pc[q] \in Writing \cup {"probe"}
          PROVE  op[q] = "read"
      BY <1>1, <1>l, <1>q, <3>1 DEF LockInv, Parts, Writing
    <3>2. QED
      BY <2>2, <3>1 DEF Recovering
  <2>5. QED
    BY <1>1, <1>c, <1>x, <1>o, <2>1, <2>2, <2>3, <2>4
<1>2. CASE op[p] = "write"
  <2>1. o = hdr[p] /\ hdr[p] # None
    BY <1>2, <1>l DEF Out, LockInv
  <2>2. \A q \in Procs : pc[q] \in Writing \cup {"probe"} => target[q] = t
    BY <1>2, <1>x, <1>q
  <2>3. /\ pc[p] \in {"json", "csum", "sync"} =>
             bin[t].seqid = o.seqid /\ bin[t].csum \in {None, o.jobj}
        /\ pc[p] \in {"csum", "sync"} => json[t] = o.jobj
    BY <1>2, <1>l, <2>1 DEF StoreInv, Unsealed, Match
  <2>4. CASE t = 1
    <3>1. s = 2
      BY <2>4 DEF Other
    <3>2. /\ Valid(2) /\ json[2] = hdr[p].rollback
          /\ bin[2].seqid + 1 = hdr[p].seqid
          /\ Valid(1) /\ pc[p] # "sync" => bin[1].seqid = bin[2].seqid
          /\ \E u \in hdr[p].jobj : \A c \in Copies :
               c > 1 \/ (c = 1 /\ pc[p] # "sync") =>
                 \A b \in mbin[c] : b.csum # None => u \notin b.csum
      BY <1>2, <2>4 DEF FaultInv, WriteInv
    <3>3. pc[p] # "sync" =>
            \E u \in o.jobj : \A c \in Copies : \A b \in mbin[c] :
              b.csum # None => u \notin b.csum
      BY <2>1, <3>2 DEF Copies
    <3>4. json[s] \subseteq o.jobj
      BY <2>1, <3>1, <3>2 DEF FaultInv, MetaInv
    <3>5. Valid(t) /\ pc[p] # "sync" => bin[t].seqid <= bin[s].seqid
      BY <2>4, <3>1, <3>2, <1>c DEF Parts
    <3>6. QED
      BY <1>2, <1>c, <1>x, <1>o, <2>1, <2>2, <2>3, <2>4, <3>1, <3>2, <3>3, <3>4, <3>5
  <2>5. CASE t = 2
    <3>1. s = 1
      BY <2>5 DEF Other
    <3>2. Match(1, hdr[p]) /\ (Valid(2) => bin[2].seqid <= hdr[p].seqid)
      BY <1>2, <1>l, <2>5 DEF FaultInv, WriteInv, StoreInv
    <3>3. Valid(s) /\ bin[s].seqid = hdr[p].seqid
      BY <3>1, <3>2 DEF Match, Valid
    <3>4. QED
      BY <1>2, <1>c, <1>x, <1>o, <2>1, <2>2, <2>3, <2>5, <3>1, <3>2, <3>3
  <2>6. QED
    BY <1>c, <2>4, <2>5 DEF Copies
<1>3. QED
  BY <1>1, <1>2 DEF Parts

(* Headers only carry updates that were made. *)
LEMMA MetaStep ==
  ASSUME BaseInv, BaseInv', FaultInv, StepForm
  PROVE  MetaInv'
<1> USE HeaderConstants DEF Others, SameDisk, SameHist
<1>m. MetaInv /\ Parts /\ Parts'
  BY PartTypes, PartTypesNext DEF FaultInv
<1>1. ASSUME NEW p \in Procs, ControlForm(p) \/ FailForm(p) \/ DropForm(p)
      PROVE  MetaInv'
  BY <1>1, <1>m DEF ControlForm, FailForm, DropForm, MetaInv
<1>2. ASSUME NEW p \in Procs, OpenForm(p) \/ LoadForm(p) \/ WriteForm(p) \/ AckForm(p)
      PROVE  MetaInv'
  BY <1>2, <1>m DEF OpenForm, LoadForm, WriteForm, AckForm, MetaInv
<1>3. ASSUME NEW p \in Procs, NEW u \in Updates, UpdateForm(p, u)
      PROVE  MetaInv'
  BY <1>3, <1>m DEF UpdateForm, MetaInv
<1>4. ASSUME NEW c \in Copies, NEW v, Reads(c, v), v # None
      PROVE  v.uuid = None /\ v.jobj \subseteq issued
  BY <1>4, <1>m DEF Reads, Match, MetaInv, Parts, Valid
<1>5. ASSUME NEW p \in Procs, ReadForm(p)
      PROVE  MetaInv'
  <2>1. /\ SameDisk /\ UNCHANGED <<hdr, issued>>
        /\ Others(p, pc) /\ Others(p, tmp) /\ pc'[p] # "writefail"
    BY <1>5 DEF ReadForm
  <2>2. tmp'[p] # None => tmp'[p].uuid = None /\ tmp'[p].jobj \subseteq issued
    BY <1>4, <1>5, <1>m DEF ReadForm, MetaInv, Copies
  <2>3. QED
    BY <2>1, <2>2, <1>m DEF MetaInv
<1>6. ASSUME NEW p \in Procs, BinForm(p) \/ CsumForm(p)
      PROVE  MetaInv'
  <2>1. /\ DiskForm(p, "bin", "json") \/ DiskForm(p, "csum", "sync")
        /\ UNCHANGED <<json, mjson>>
    BY <1>6 DEF BinForm, CsumForm
  <2>2. pc[p] \in Writing
    BY <2>1 DEF DiskForm, Writing
  <2>3. \A c \in Copies : /\ bin'[c] \in mbin'[c]
                          /\ \A b \in mbin'[c] :
                               b.uuid = None /\ (b.csum # None => b.csum \subseteq issued)
    BY <1>6, <1>m, <2>2, WritingFacts DEF BinForm, CsumForm, MetaInv
  <2>4. QED
    BY <2>1, <2>3, <1>m DEF DiskForm, MetaInv
<1>7. ASSUME NEW p \in Procs, JsonForm(p)
      PROVE  MetaInv'
  <2>1. DiskForm(p, "json", "csum") /\ UNCHANGED <<bin, mbin>>
    BY <1>7 DEF JsonForm
  <2>2. pc[p] \in Writing
    BY <2>1 DEF DiskForm, Writing
  <2>3. \A c \in Copies : /\ json'[c] \in mjson'[c]
                          /\ \A j \in mjson'[c] : j # Torn => j \subseteq issued
    BY <1>7, <1>m, <2>2, WritingFacts DEF JsonForm, MetaInv
  <2>4. QED
    BY <2>1, <2>3, <1>m DEF DiskForm, MetaInv
<1>8. ASSUME NEW p \in Procs, SyncForm(p)
      PROVE  MetaInv'
  BY <1>8, <1>m DEF SyncForm, DiskForm, MetaInv
<1>9. CASE PowerForm
  BY <1>9, <1>m DEF PowerForm, MetaInv
<1>10. CASE UNCHANGED vars
  BY <1>10, <1>m DEF vars, disk, ctx, hist, MetaInv
<1>11. QED
  BY <1>1, <1>2, <1>3, <1>5, <1>6, <1>7, <1>8, <1>9, <1>10 DEF StepForm

(* Nothing that a step leaves on the device, or on the medium, breaks the  *)
(* chain of documents.                                                     *)
LEMMA ChainStep ==
  ASSUME BaseInv, BaseInv', FaultInv, StepForm
  PROVE  ChainInv'
<1> USE HeaderConstants DEF SameDisk, SameHist
<1>m. /\ MetaInv /\ MetaInv' /\ ChainInv /\ Parts /\ Parts'
  BY PartTypes, PartTypesNext, MetaStep DEF FaultInv
<1>v. \A c \in Copies : Valid(c) => bin[c] \in Stored(c) /\ bin[c].csum = json[c]
  BY <1>m DEF Valid, Stored, MetaInv
<1>n. \A c \in Copies : None \notin mjson[c] /\ \A b \in mbin[c] : b.csum # Torn
  <2>1. \A x \in {Torn} \cup SUBSET Updates : x # None
    OBVIOUS
  <2>2. \A x \in {None} \cup SUBSET Updates : x # Torn
    OBVIOUS
  <2>3. QED
    BY <2>1, <2>2, <1>m DEF Parts
<1>1. ASSUME SameDisk, acked' = acked
      PROVE  ChainInv'
  BY <1>1, <1>m DEF ChainInv, Stored, Valid
<1>2. ASSUME NEW p \in Procs,
             \/ ControlForm(p) \/ FailForm(p) \/ DropForm(p) \/ ReadForm(p)
             \/ OpenForm(p) \/ LoadForm(p) \/ WriteForm(p)
             \/ \E u \in Updates : UpdateForm(p, u)
      PROVE  ChainInv'
  BY <1>1, <1>2 DEF ControlForm, FailForm, DropForm, ReadForm, OpenForm, LoadForm,
                    WriteForm, UpdateForm
<1>3. ASSUME NEW p \in Procs, AckForm(p)
      PROVE  ChainInv'
  <2>1. \A c \in Copies : Match(c, hdr[p]) /\ ~Dirty(c)
    BY <1>3 DEF AckForm, BaseInv, StoreInv, FaultInv, WriteInv, Copies
  <2>2. \A c \in Copies : \A b \in Stored(c) : b.csum = hdr[p].jobj
    BY <2>1 DEF Dirty, Stored, Match
  <2>3. SameDisk /\ acked' = acked \cup hdr[p].jobj
    BY <1>3 DEF AckForm
  <2>4. QED
    BY <2>2, <2>3, <1>m DEF ChainInv, Stored, Valid
<1>4. ASSUME NEW p \in Procs, BinForm(p)
      PROVE  ChainInv'
  <2>0. PICK t \in Copies, s \in Copies : t = target[p] /\ s = Other(target[p])
    BY <1>4, WritingFacts DEF BinForm, DiskForm, Writing
  <2>1. /\ t \in Copies /\ s \in Copies /\ s # t /\ \A c \in Copies : c \in {t, s}
        /\ Valid(s) /\ (Valid(t) => bin[t].seqid <= bin[s].seqid)
    BY <1>4, <2>0, WritingFacts DEF BinForm, DiskForm, Writing
  <2>2. /\ bin'[t].csum = None /\ mbin'[t] = mbin[t] \cup {bin'[t]}
        /\ bin'[s] = bin[s] /\ mbin'[s] = mbin[s] /\ UNCHANGED <<json, mjson, acked>>
    BY <1>4, <2>0 DEF BinForm, DiskForm
  <2>3. Stored(t)' = Stored(t) /\ Stored(s)' = Stored(s)
    BY <2>1, <2>2, <1>n DEF Stored
  <2>4. Valid(s)'
    BY <2>1, <2>2 DEF Valid
  <2>5. \A c \in Copies : Stored(c)' = Stored(c)
    BY <2>1, <2>3
  <2>6. \A c \in Copies : \A b \in Stored(c) : b.seqid <= bin[s].seqid
    BY <2>1, <1>m DEF ChainInv, Parts, Stored
  <2>7. \A c \in Copies : \A b \in mbin'[c] : b.csum # None => b \in mbin[c]
    BY <2>1, <2>2
  <2>8. \A c, d \in Copies : \A b \in mbin'[c], e \in mbin'[d] :
          b.csum # None /\ b.csum = e.csum => b.seqid = e.seqid
    BY <2>7, <1>m DEF ChainInv
  <2>9. QED
    BY <2>1, <2>2, <2>4, <2>5, <2>6, <2>8, <1>m DEF ChainInv
<1>5. ASSUME NEW p \in Procs, JsonForm(p)
      PROVE  ChainInv'
  <2>0. PICK t \in Copies, s \in Copies : t = target[p] /\ s = Other(target[p])
    BY <1>5, WritingFacts DEF JsonForm, DiskForm, Writing
  <2> DEFINE o == Out(p)
  <2>1. /\ t \in Copies /\ s \in Copies /\ s # t /\ \A c \in Copies : c \in {t, s}
        /\ Valid(s) /\ (Valid(t) => bin[t].seqid <= bin[s].seqid)
        /\ o.jobj \in SUBSET Updates
        /\ \/ Match(s, o)
           \/ \E u \in o.jobj : \A c \in Copies : \A b \in mbin[c] :
                b.csum # None => u \notin b.csum
    BY <1>5, <2>0, WritingFacts DEF JsonForm, DiskForm, Writing
  <2>2. /\ json'[t] = o.jobj /\ mjson'[t] = mjson[t] \cup {o.jobj, Torn}
        /\ json'[s] = json[s] /\ mjson'[s] = mjson[s] /\ UNCHANGED <<bin, mbin, acked>>
    BY <1>5, <2>0 DEF JsonForm, DiskForm
  <2> HIDE DEF o
  <2>3. Valid(s)'
    BY <2>1, <2>2 DEF Valid
  <2>4. \A c \in Copies : \A b \in Stored(c) : b.seqid <= bin[s].seqid
    BY <2>1, <1>m DEF ChainInv, Parts, Stored
  (* A header whose area is complete now is the one of the other copy. *)
  <2>5. ASSUME NEW c \in Copies, NEW b \in Stored(c)'
        PROVE  \E d \in Copies : \E e \in Stored(d) : e.seqid = b.seqid /\ e.csum = b.csum
    <3>1. b \in mbin[c] /\ b.csum \in mjson'[c]
      BY <2>2, <2>5 DEF Stored
    <3>2. CASE b.csum \in mjson[c]
      BY <3>1, <3>2 DEF Stored
    <3>3. CASE b.csum \notin mjson[c]
      <4>1. c = t /\ b.csum = o.jobj
        BY <2>1, <2>2, <3>1, <3>3, <1>n
      <4>2. Match(s, o)
        BY <2>1, <3>1, <4>1
      <4>3. bin[s] \in Stored(s) /\ bin[s].csum = b.csum /\ bin[s] \in mbin[s]
        BY <1>v, <1>m, <2>1, <4>1, <4>2 DEF Match, MetaInv
      <4>4. b.csum # None
        BY <4>1, <2>1
      <4>5. bin[s].seqid = b.seqid
        BY <3>1, <4>3, <4>4, <2>1, <1>m DEF ChainInv
      <4>6. QED
        BY <4>3, <4>5, <2>1
    <3>4. QED
      BY <3>2, <3>3
  <2>6. \A c, d \in Copies : \A b \in Stored(c)', e \in Stored(d)' :
          b.seqid <= e.seqid => b.csum \subseteq e.csum
    BY <2>5, <1>m DEF ChainInv
  <2>7. \A c \in Copies : \A b \in Stored(c)' : acked \subseteq b.csum /\ b.seqid <= bin[s].seqid
    BY <2>4, <2>5, <1>m DEF ChainInv
  <2>8. QED
    BY <2>1, <2>2, <2>3, <2>6, <2>7, <1>m DEF ChainInv
<1>6. ASSUME NEW p \in Procs, CsumForm(p)
      PROVE  ChainInv'
  <2>0. PICK t \in Copies, s \in Copies : t = target[p] /\ s = Other(target[p])
    BY <1>6, WritingFacts DEF CsumForm, DiskForm, Writing
  <2> DEFINE o == Out(p)
             n == bin'[t]
  <2>1. /\ t \in Copies /\ s \in Copies /\ s # t /\ \A c \in Copies : c \in {t, s}
        /\ Valid(s) /\ (Valid(t) => bin[t].seqid <= bin[s].seqid)
        /\ o.jobj \in SUBSET Updates /\ o.seqid \in Nat /\ json[t] = o.jobj
        /\ \/ Match(s, o)
           \/ /\ bin[s].seqid + 1 = o.seqid /\ json[s] \subseteq o.jobj
              /\ \E u \in o.jobj : \A c \in Copies : \A b \in mbin[c] :
                   b.csum # None => u \notin b.csum
    BY <1>6, <2>0, WritingFacts DEF CsumForm, DiskForm, Writing
  <2>2. /\ n.seqid = o.seqid /\ n.csum = o.jobj /\ mbin'[t] = mbin[t] \cup {n}
        /\ bin'[s] = bin[s] /\ mbin'[s] = mbin[s] /\ UNCHANGED <<json, mjson, acked>>
    BY <1>6, <2>0 DEF CsumForm, DiskForm
  <2>3. Valid(s)' /\ Valid(t)' /\ bin'[t] = n
    BY <2>1, <2>2 DEF Valid
  <2> HIDE DEF o, n
  <2>4. \A c \in Copies : \A b \in mbin'[c] : b \in mbin[c] \/ b = n
    BY <2>1, <2>2
  <2>5. \A c \in Copies : \A b \in Stored(c)' : b \in Stored(c) \/ b = n
    BY <2>2, <2>4 DEF Stored
  <2>6. \A c \in Copies : \A b \in Stored(c) : b.seqid <= bin[s].seqid
    BY <2>1, <1>m DEF ChainInv, Parts, Stored
  <2>7. bin[s] \in Stored(s) /\ bin[s] \in mbin[s] /\ bin[s].csum = json[s]
    BY <2>1, <1>m, <1>v DEF MetaInv
  <2>8. CASE Match(s, o)
    <3>1. n.seqid = bin[s].seqid /\ n.csum = bin[s].csum
      BY <2>2, <2>8 DEF Match
    <3>2. \A c, d \in Copies : \A b \in mbin'[c], e \in mbin'[d] :
            b.csum # None /\ b.csum = e.csum => b.seqid = e.seqid
      BY <2>1, <2>4, <2>7, <3>1, <1>m DEF ChainInv
    <3>3. \A c, d \in Copies : \A b \in Stored(c)', e \in Stored(d)' :
            b.seqid <= e.seqid => b.csum \subseteq e.csum
      BY <2>1, <2>5, <2>7, <3>1, <1>m DEF ChainInv
    <3>4. \A c \in Copies : \A b \in Stored(c)' :
            acked \subseteq b.csum /\ b.seqid <= bin[s].seqid
      BY <2>1, <2>5, <2>6, <2>7, <3>1, <1>m DEF ChainInv
    <3>5. QED
      BY <2>1, <2>2, <2>3, <3>2, <3>3, <3>4 DEF ChainInv
  <2>9. CASE ~Match(s, o)
    <3>1. PICK u \in o.jobj : \A c \in Copies : \A b \in mbin[c] :
                                b.csum # None => u \notin b.csum
      BY <2>1, <2>9
    <3>2. bin[s].seqid + 1 = n.seqid /\ bin[s].csum \subseteq n.csum
      BY <2>1, <2>2, <2>7, <2>9
    <3>3. \A c, d \in Copies : \A b \in mbin'[c], e \in mbin'[d] :
            b.csum # None /\ b.csum = e.csum => b.seqid = e.seqid
      BY <2>1, <2>2, <2>4, <3>1, <1>m DEF ChainInv
    <3>4. \A c \in Copies : \A b \in Stored(c) : b.seqid < n.seqid /\ b.csum \subseteq n.csum
      BY <2>1, <2>6, <2>7, <3>2, <1>m DEF ChainInv, Parts, Stored
    <3>5. \A c, d \in Copies : \A b \in Stored(c)', e \in Stored(d)' :
            b.seqid <= e.seqid => b.csum \subseteq e.csum
      BY <2>1, <2>2, <2>5, <3>4, <1>m DEF ChainInv, Parts, Stored
    <3>6. \A c \in Copies : \A b \in Stored(c)' :
            acked \subseteq b.csum /\ b.seqid <= n.seqid
      BY <2>1, <2>2, <2>5, <2>7, <3>2, <3>4, <1>m DEF ChainInv, Parts, Stored
    <3>7. QED
      BY <2>1, <2>2, <2>3, <3>3, <3>5, <3>6 DEF ChainInv
  <2>10. QED
    BY <2>8, <2>9
<1>7. ASSUME NEW p \in Procs, SyncForm(p)
      PROVE  ChainInv'
  <2>1. /\ UNCHANGED <<bin, json, acked>>
        /\ \A c \in Copies : mbin'[c] = {bin[c]} /\ mjson'[c] = {json[c]}
    BY <1>7 DEF SyncForm, DiskForm
  <2>2. \A c \in Copies : \A b \in mbin'[c] : b \in mbin[c]
    BY <2>1, <1>m DEF MetaInv
  <2>3. \A c \in Copies : \A b \in Stored(c)' : b \in Stored(c)
    BY <2>1, <1>m DEF MetaInv, Stored
  <2>4. QED
    BY <2>1, <2>2, <2>3, <1>m DEF ChainInv, Valid
<1>8. CASE PowerForm
  <2>1. /\ UNCHANGED acked
        /\ \A c \in Copies : /\ bin'[c] \in mbin[c] /\ json'[c] \in mjson[c]
                             /\ mbin'[c] = {bin'[c]} /\ mjson'[c] = {json'[c]}
    BY <1>8 DEF PowerForm
  <2>2. \A c \in Copies : \A b \in mbin'[c] : b \in mbin[c]
    BY <2>1
  <2>3. \A c \in Copies : \A b \in Stored(c)' :
          b \in Stored(c) /\ b = bin'[c] /\ Valid(c)'
    BY <2>1 DEF Stored, Valid
  <2>4. \A c \in Copies : \A b \in Stored(c)' :
          \E d \in Copies : Valid(d)' /\ b.seqid <= bin'[d].seqid
    BY <2>3, <1>m DEF Parts, Stored
  <2>5. QED
    BY <2>1, <2>2, <2>3, <2>4, <1>m DEF ChainInv
<1>9. CASE UNCHANGED vars
  BY <1>1, <1>9 DEF vars, disk, hist
<1>10. QED
  BY <1>2, <1>3, <1>4, <1>5, <1>6, <1>7, <1>8, <1>9 DEF StepForm

(* What is written is never the last good copy, and a power failure finds  *)
(* the copy that is not being written synced.                              *)
LEMMA ValidStep ==
  ASSUME BaseInv, BaseInv', FaultInv, StepForm
  PROVE  ValidInv'
<1> USE HeaderConstants DEF SameDisk
<1>m. MetaInv /\ ValidInv /\ Parts
  BY PartTypes DEF FaultInv
<1>1. ASSUME SameDisk
      PROVE  ValidInv'
  BY <1>1, <1>m DEF ValidInv, Valid, Dirty
<1>2. ASSUME NEW p \in Procs,
             \/ ControlForm(p) \/ FailForm(p) \/ DropForm(p) \/ ReadForm(p)
             \/ OpenForm(p) \/ LoadForm(p) \/ WriteForm(p) \/ AckForm(p)
             \/ \E u \in Updates : UpdateForm(p, u)
      PROVE  ValidInv'
  BY <1>1, <1>2 DEF ControlForm, FailForm, DropForm, ReadForm, OpenForm, LoadForm,
                    WriteForm, AckForm, UpdateForm
<1>3. ASSUME NEW t \in Copies, NEW s \in Copies, s = Other(t), t = Other(s),
             \A c \in Copies : c \in {t, s}, Valid(s)',
             Dirty(s)' => Dirty(t)' \/ Valid(t)'
      PROVE  ValidInv'
  BY <1>3 DEF ValidInv
<1>4. ASSUME NEW p \in Procs, BinForm(p)
      PROVE  ValidInv'
  <2>0. PICK t \in Copies, s \in Copies : t = target[p] /\ s = Other(target[p])
    BY <1>4, WritingFacts DEF BinForm, DiskForm, Writing
  <2>1. Valid(s) /\ t = Other(s) /\ s = Other(t) /\ \A c \in Copies : c \in {t, s}
    BY <1>4, <2>0, WritingFacts DEF BinForm, DiskForm, Writing, Other, Copies
  <2>2. /\ bin'[t].csum = None /\ mbin'[t] = mbin[t] \cup {bin'[t]}
        /\ bin'[s] = bin[s] /\ mbin'[s] = mbin[s] /\ UNCHANGED <<json, mjson>>
    BY <1>4, <2>0 DEF BinForm, DiskForm
  <2>3. Valid(s)'
    BY <2>1, <2>2 DEF Valid
  <2>4. ASSUME Dirty(s)', ~Dirty(t)'
        PROVE  FALSE
    <3>1. Dirty(s)
      BY <2>2, <2>4 DEF Dirty
    <3>2. mbin[t] \cup {bin'[t]} = {bin'[t]} /\ mjson[t] = {json[t]}
      BY <2>2, <2>4 DEF Dirty
    <3>3. bin[t] = bin'[t] /\ mbin[t] = {bin[t]}
      BY <3>2, <1>m DEF MetaInv
    <3>4. Valid(t)
      BY <2>1, <3>1, <3>2, <3>3, <1>m DEF ValidInv, Dirty
    <3>5. json[t] # None
      <4>1. \A x \in {Torn} \cup SUBSET Updates : x # None
        OBVIOUS
      <4>2. QED
        BY <4>1, <1>m DEF Parts
    <3>6. QED
      BY <2>2, <3>3, <3>4, <3>5 DEF Valid
  <2>5. QED
    BY <1>3, <2>1, <2>3, <2>4
<1>5. ASSUME NEW p \in Procs, JsonForm(p)
      PROVE  ValidInv'
  <2>0. PICK t \in Copies, s \in Copies : t = target[p] /\ s = Other(target[p])
    BY <1>5, WritingFacts DEF JsonForm, DiskForm, Writing
  <2>1. /\ Valid(s) /\ t = Other(s) /\ s = Other(t) /\ \A c \in Copies : c \in {t, s}
        /\ Out(p).jobj \in SUBSET Updates
    BY <1>5, <2>0, WritingFacts DEF JsonForm, DiskForm, Writing, Other, Copies
  <2>2. /\ json'[t] = Out(p).jobj /\ mjson'[t] = mjson[t] \cup {Out(p).jobj, Torn}
        /\ json'[s] = json[s] /\ mjson'[s] = mjson[s] /\ UNCHANGED <<bin, mbin>>
    BY <1>5, <2>0 DEF JsonForm, DiskForm
  <2>3. Valid(s)'
    BY <2>1, <2>2 DEF Valid
  <2>4. json'[t] # Torn
    BY <2>1, <2>2
  <2>5. Dirty(t)'
    BY <2>2, <2>4 DEF Dirty
  <2>6. QED
    BY <1>3, <2>1, <2>3, <2>5
<1>6. ASSUME NEW p \in Procs, CsumForm(p)
      PROVE  ValidInv'
  <2>0. PICK t \in Copies, s \in Copies : t = target[p] /\ s = Other(target[p])
    BY <1>6, WritingFacts DEF CsumForm, DiskForm, Writing
  <2>1. /\ Valid(s) /\ t = Other(s) /\ s = Other(t) /\ \A c \in Copies : c \in {t, s}
        /\ json[t] = Out(p).jobj
    BY <1>6, <2>0, WritingFacts DEF CsumForm, DiskForm, Writing, Other, Copies
  <2>2. /\ bin'[t].csum = Out(p).jobj /\ bin'[s] = bin[s] /\ UNCHANGED json
    BY <1>6, <2>0 DEF CsumForm, DiskForm
  <2>3. Valid(s)' /\ Valid(t)'
    BY <2>1, <2>2 DEF Valid
  <2>4. QED
    BY <1>3, <2>1, <2>3
<1>7. ASSUME NEW p \in Procs, SyncForm(p)
      PROVE  ValidInv'
  BY <1>7, <1>m DEF SyncForm, ValidInv, Valid, Dirty
<1>8. CASE PowerForm
  <2>1. \A c \in Copies :
          /\ bin'[c] \in mbin[c] /\ json'[c] \in mjson[c]
          /\ mbin'[c] = {bin'[c]} /\ mjson'[c] = {json'[c]}
    BY <1>8 DEF PowerForm
  <2>2. \A c \in Copies : ~Dirty(c)'
    BY <2>1 DEF Dirty
  <2>3. \A c \in Copies : ~Dirty(c) /\ Valid(c) => Valid(c)'
    BY <2>1 DEF Dirty, Valid
  <2>4. \A c \in Copies : Dirty(c) =>
          \E p \in Procs : pc[p] \in {"json", "csum", "sync"} /\ target[p] = c
    BY <1>8 DEF PowerForm, Orphaned, Dirty, FaultInv, KillInv
  <2>5. \A c \in Copies : Dirty(c) => ~Dirty(Other(c)) /\ Other(c) \in Copies
    <3> SUFFICES ASSUME NEW c \in Copies, Dirty(c)
                 PROVE  ~Dirty(Other(c)) /\ Other(c) \in Copies
      OBVIOUS
    <3>1. PICK p \in Procs : pc[p] \in Writing /\ target[p] = c
      BY <2>4 DEF Writing
    <3>2. /\ Other(c) \in Copies /\ Other(c) # c
          /\ \A q \in Procs : pc[q] \in Writing => target[q] = c
      BY <3>1, WritingFacts
    <3>3. QED
      BY <2>4, <3>2 DEF Writing
  <2>6. \E c \in Copies : Valid(c)'
    <3>1. CASE \E c \in Copies : Dirty(c)
      BY <2>3, <2>5, <3>1, <1>m DEF ValidInv
    <3>2. CASE \A c \in Copies : ~Dirty(c)
      BY <2>3, <3>2, <1>m DEF ValidInv
    <3>3. QED
      BY <3>1, <3>2
  <2>7. QED
    BY <2>2, <2>6 DEF ValidInv
<1>9. CASE UNCHANGED vars
  BY <1>1, <1>9 DEF vars, disk
<1>10. QED
  BY <1>2, <1>4, <1>5, <1>6, <1>7, <1>8, <1>9 DEF StepForm

(* A process that finds work for recovery: the copy it writes is bad or    *)
(* older, the other one is what it writes, and whoever recovers at the     *)
(* same time works on the same copy.                                       *)
LEMMA ProbeFacts ==
  ASSUME BaseInv, FaultInv, NEW p \in Procs, ReadForm(p), pc'[p] = "probe"
  PROVE  \E t, s \in Copies :
           /\ t = target'[p] /\ s = Other(t) /\ t = Other(s) /\ s # t
           /\ Match(s, tmp'[p])
           /\ Valid(t) => bin[t].seqid <= tmp'[p].seqid
           /\ \A q \in Procs : Recovering(q) => target[q] = t
           /\ ~Agree \/ ~Reads(1, tmp[p])
           /\ Valid(2) /\ (Valid(1) => bin[1].seqid <= bin[2].seqid) => t = 1
<1> USE PartTypes DEF Copies
<1>1. PICK v \in {None} \cup Headers :
        /\ Reads(2, v)
        /\ tmp'[p] = IF Usable(tmp[p], v) = 1 THEN tmp[p] ELSE v
        /\ target'[p] = Other(Usable(tmp[p], v))
        /\ ~(tmp[p] = None /\ v = None) /\ ~InSync(tmp[p], v)
  BY DEF ReadForm
<1>2. pc[p] = "read2"
  BY DEF ReadForm
<1>3. Valid(2) => v # None /\ Match(2, v) /\ v.seqid = bin[2].seqid
  BY <1>1 DEF Reads, Match
<1>4. ~Valid(2) => v = None
  BY <1>1 DEF Reads
<1>5. bin[1].seqid \in Nat /\ bin[2].seqid \in Nat
  BY DEF Parts
<1>6. CASE Reads(1, tmp[p])
  <2>1. Valid(1) => tmp[p] # None /\ Match(1, tmp[p]) /\ tmp[p].seqid = bin[1].seqid
    BY <1>6 DEF Reads, Match
  <2>2. ~Valid(1) => tmp[p] = None
    BY <1>6 DEF Reads
  <2>3. Valid(1) \/ Valid(2)
    BY <1>1, <1>4, <2>2
  <2>4. ~Agree
    BY <1>1, <1>3, <2>1 DEF Agree, InSync
  <2>5. CASE Usable(tmp[p], v) = 1
    <3>1. /\ target'[p] = 2 /\ tmp'[p] = tmp[p] /\ Valid(1)
          /\ Valid(2) => bin[2].seqid < bin[1].seqid
      BY <1>1, <1>3, <1>4, <1>5, <2>1, <2>2, <2>5 DEF Usable, Other, InSync
    <3>2. ASSUME NEW q \in Procs, Recovering(q)
          PROVE  target[q] = 2
      <4>1. target[q] = 1 => /\ Match(2, tmp[q])
                             /\ Valid(1) => bin[1].seqid <= tmp[q].seqid
        BY <3>2 DEF FaultInv, RecoverInv, Other
      <4>2. Match(2, tmp[q]) => Valid(2) /\ tmp[q].seqid = bin[2].seqid
        BY DEF Match, Valid
      <4>3. target[q] \in Copies
        BY DEF Parts
      <4>4. QED
        BY <1>5, <3>1, <4>1, <4>2, <4>3
    <3>3. Match(1, tmp'[p]) /\ (Valid(2) => bin[2].seqid <= tmp'[p].seqid)
      BY <1>5, <2>1, <3>1
    <3>4. Other(2) = 1 /\ Other(1) = 2
      BY DEF Other
    <3>5. QED
      BY <1>5, <2>4, <3>1, <3>2, <3>3, <3>4
  <2>6. CASE Usable(tmp[p], v) # 1
    <3>1. /\ target'[p] = 1 /\ tmp'[p] = v /\ Valid(2)
          /\ Valid(1) => bin[1].seqid < bin[2].seqid
      BY <1>1, <1>3, <1>4, <1>5, <2>1, <2>2, <2>6 DEF Usable, Other, InSync
    <3>2. ASSUME NEW q \in Procs, Recovering(q)
          PROVE  target[q] = 1
      <4>1. target[q] = 2 => /\ Match(1, tmp[q])
                             /\ Valid(2) => bin[2].seqid <= tmp[q].seqid
        BY <3>2 DEF FaultInv, RecoverInv, Other
      <4>2. Match(1, tmp[q]) => Valid(1) /\ tmp[q].seqid = bin[1].seqid
        BY DEF Match, Valid
      <4>3. target[q] \in Copies
        BY DEF Parts
      <4>4. QED
        BY <1>5, <3>1, <4>1, <4>2, <4>3
    <3>3. Match(2, tmp'[p]) /\ (Valid(1) => bin[1].seqid <= tmp'[p].seqid)
      BY <1>3, <1>5, <3>1
    <3>4. Other(2) = 1 /\ Other(1) = 2
      BY DEF Other
    <3>5. QED
      BY <2>4, <3>1, <3>2, <3>3, <3>4
  <2>7. QED
    BY <2>5, <2>6
<1>7. CASE ~Reads(1, tmp[p])
  <2>1. /\ Valid(2)
        /\ Valid(1) => bin[1].seqid <= bin[2].seqid
        /\ tmp[p] # None => tmp[p].seqid < bin[2].seqid \/ Match(2, tmp[p])
        /\ \A q \in Procs : Recovering(q) => target[q] = 1
    BY <1>2, <1>7 DEF FaultInv, ReadInv, Replaced
  <2>2. tmp[p] = None \/ tmp[p].seqid < v.seqid
    BY <1>1, <1>3, <2>1 DEF InSync, Match
  <2>3. tmp'[p] = v /\ target'[p] = 1
    BY <1>1, <1>3, <2>1, <2>2 DEF Usable, Other
  <2>4. Other(2) = 1 /\ Other(1) = 2
    BY DEF Other
  <2>5. QED
    BY <1>3, <1>7, <2>1, <2>3, <2>4
<1>8. QED
  BY <1>6, <1>7

(* Recoveries stay in step with each other and with their source. *)
LEMMA RecoverStep ==
  ASSUME BaseInv, BaseInv', FaultInv, StepForm
  PROVE  RecoverInv'
<1> USE HeaderConstants DEF Others, SameDisk, SameHist
<1>m. RecoverInv /\ Parts /\ LockInv
  BY PartTypes DEF FaultInv, BaseInv
<1>n. \A c \in Copies : json[c] # None
  <2>1. \A x \in {Torn} \cup SUBSET Updates : x # None
    OBVIOUS
  <2>2. QED
    BY <2>1, <1>m DEF Parts
<1>1. ASSUME UNCHANGED <<bin, json>>,
             \A q \in Procs : Recovering(q)' =>
               /\ Recovering(q) /\ tmp'[q] = tmp[q] /\ target'[q] = target[q]
               /\ pc'[q] = pc[q] \/ pc'[q] \in {"bin", "probe"},
             \A q, r \in Procs :
               Recovering(q)' /\ pc'[q] = "sync" /\ pc[r] \in {"json", "csum"} =>
                 pc'[r] = pc[r] /\ target'[r] = target[r]
      PROVE  RecoverInv'
  <2> SUFFICES ASSUME NEW q \in Procs, Recovering(q)'
               PROVE  /\ Match(Other(target[q]), tmp[q])'
                      /\ Valid(target[q])' => bin'[target'[q]].seqid <= tmp'[q].seqid
                      /\ pc'[q] \in {"json", "csum", "sync"} =>
                           /\ bin'[target'[q]].seqid = tmp'[q].seqid
                           /\ bin'[target'[q]].csum \in {None, tmp'[q].jobj}
                      /\ pc'[q] \in {"csum", "sync"} => json'[target'[q]] = tmp'[q].jobj
                      /\ pc'[q] = "sync" =>
                           \/ bin'[target'[q]].csum = tmp'[q].jobj
                           \/ \E r \in Procs : pc'[r] \in {"json", "csum"}
                                               /\ target'[r] = target'[q]
                      /\ \A r \in Procs : Recovering(r)' => target'[r] = target'[q]
    BY DEF RecoverInv
  <2>1. /\ Recovering(q) /\ tmp'[q] = tmp[q] /\ target'[q] = target[q]
        /\ pc'[q] = pc[q] \/ pc'[q] \in {"bin", "probe"}
    BY <1>1
  <2>2. /\ Match(Other(target[q]), tmp[q])
        /\ Valid(target[q]) => bin[target[q]].seqid <= tmp[q].seqid
        /\ pc[q] \in {"json", "csum", "sync"} =>
             /\ bin[target[q]].seqid = tmp[q].seqid
             /\ bin[target[q]].csum \in {None, tmp[q].jobj}
        /\ pc[q] \in {"csum", "sync"} => json[target[q]] = tmp[q].jobj
        /\ pc[q] = "sync" =>
             \/ bin[target[q]].csum = tmp[q].jobj
             \/ \E r \in Procs : pc[r] \in {"json", "csum"} /\ target[r] = target[q]
        /\ \A r \in Procs : Recovering(r) => target[r] = target[q]
    BY <2>1, <1>m DEF RecoverInv
  <2>3. pc'[q] = "sync" /\ bin[target[q]].csum # tmp[q].jobj =>
          \E r \in Procs : pc'[r] \in {"json", "csum"} /\ target'[r] = target'[q]
    BY <1>1, <2>1, <2>2
  <2>4. \A r \in Procs : Recovering(r)' => target'[r] = target'[q]
    BY <1>1, <2>1, <2>2
  <2>5. QED
    BY <1>1, <2>1, <2>2, <2>3, <2>4 DEF Match, Valid
<1>2. ASSUME NEW p \in Procs,
             \/ ControlForm(p) \/ FailForm(p) \/ OpenForm(p)
             \/ LoadForm(p) \/ WriteForm(p) \/ AckForm(p)
             \/ \E u \in Updates : UpdateForm(p, u)
      PROVE  RecoverInv'
  <2>1. UNCHANGED <<bin, json, tmp>> /\ \A q \in Procs \ {p} : target'[q] = target[q]
    BY <1>2 DEF ControlForm, FailForm, OpenForm, LoadForm, WriteForm,
                AckForm, UpdateForm
  <2>2. \A q \in Procs \ {p} : Recovering(q)' => Recovering(q) /\ pc'[q] = pc[q]
    BY <1>2 DEF ControlForm, FailForm, OpenForm, LoadForm, WriteForm,
                AckForm, UpdateForm, Recovering
  <2>3. Recovering(p)' => /\ Recovering(p) /\ target'[p] = target[p]
                          /\ pc'[p] \in {"bin", "probe"}
    BY <1>2, <1>m DEF ControlForm, FailForm, OpenForm, LoadForm, WriteForm,
                AckForm, UpdateForm, Recovering, Writing, LockInv
  <2>4. pc[p] \notin {"json", "csum"} /\ Others(p, pc)
    BY <1>2 DEF ControlForm, FailForm, OpenForm, LoadForm, WriteForm,
                AckForm, UpdateForm
  <2>5. QED
    BY <1>1, <2>1, <2>2, <2>3, <2>4
<1>3. ASSUME NEW p \in Procs, DropForm(p)
      PROVE  RecoverInv'
  <2>1. /\ UNCHANGED <<bin, json>> /\ ~Recovering(p)'
        /\ \A q \in Procs \ {p} : /\ Recovering(q)' <=> Recovering(q)
                                  /\ tmp'[q] = tmp[q] /\ target'[q] = target[q]
                                  /\ pc'[q] = pc[q]
    BY <1>3 DEF DropForm, Recovering, Writing
  <2>2. ASSUME NEW q \in Procs, Recovering(q)', pc'[q] = "sync"
        PROVE  q # p /\ pc[q] \in Writing
    BY <2>1, <2>2 DEF Writing
  <2>3. ASSUME NEW q \in Procs, Recovering(q)', pc'[q] = "sync", pc[p] \in {"json", "csum"}
        PROVE  FALSE
    <3>1. kills = 0
      BY <1>3, <2>3 DEF DropForm
    <3>2. holds[p] = "ex" /\ holds[q] = "ex" /\ q # p
      BY <2>2, <2>3, <3>1 DEF FaultInv, KillInv, Writing
    <3>3. QED
      BY <3>2, <1>m DEF LockInv
  <2>4. QED
    BY <1>1, <2>1, <2>3
<1>4. ASSUME NEW p \in Procs, ReadForm(p)
      PROVE  RecoverInv'
  <2>1. /\ UNCHANGED <<bin, json, op>> /\ pc[p] \in {"read1", "read2"}
        /\ \A q \in Procs \ {p} : /\ Recovering(q)' <=> Recovering(q)
                                  /\ tmp'[q] = tmp[q] /\ target'[q] = target[q]
                                  /\ pc'[q] = pc[q]
    BY <1>4 DEF ReadForm, Recovering
  <2>2. CASE pc'[p] # "probe"
    <3>1. ~Recovering(p)'
      BY <1>4, <2>2 DEF ReadForm, Recovering, Writing
    <3>2. QED
      BY <1>1, <2>1, <3>1
  <2>3. CASE pc'[p] = "probe"
    <3>1. PICK t \in Copies, s \in Copies :
           /\ t = target'[p] /\ s = Other(t)
           /\ Match(s, tmp'[p])
           /\ Valid(t) => bin[t].seqid <= tmp'[p].seqid
           /\ \A q \in Procs : Recovering(q) => target[q] = t
      BY <1>4, <2>3, ProbeFacts
    <3>2. ASSUME NEW q \in Procs \ {p}, Recovering(q)'
          PROVE  /\ target'[q] = t
                 /\ Match(s, tmp'[q])
                 /\ Valid(t) => bin[t].seqid <= tmp'[q].seqid
                 /\ pc'[q] \in {"json", "csum", "sync"} =>
                      bin[t].seqid = tmp'[q].seqid /\ bin[t].csum \in {None, tmp'[q].jobj}
                 /\ pc'[q] \in {"csum", "sync"} => json[t] = tmp'[q].jobj
                 /\ pc'[q] = "sync" =>
                      \/ bin[t].csum = tmp'[q].jobj
                      \/ \E r \in Procs : pc'[r] \in {"json", "csum"} /\ target'[r] = t
      <4>1. Recovering(q) /\ target[q] = t /\ tmp'[q] = tmp[q] /\ pc'[q] = pc[q]
        BY <2>1, <3>1, <3>2
      <4>2. /\ Match(s, tmp[q])
            /\ Valid(t) => bin[t].seqid <= tmp[q].seqid
            /\ pc[q] \in {"json", "csum", "sync"} =>
                 bin[t].seqid = tmp[q].seqid /\ bin[t].csum \in {None, tmp[q].jobj}
            /\ pc[q] \in {"csum", "sync"} => json[t] = tmp[q].jobj
            /\ pc[q] = "sync" =>
                 \/ bin[t].csum = tmp[q].jobj
                 \/ \E r \in Procs : pc[r] \in {"json", "csum"} /\ target[r] = t
        BY <3>1, <4>1, <1>m DEF RecoverInv
      <4>3. \A r \in Procs : pc[r] \in {"json", "csum"} =>
              pc'[r] = pc[r] /\ target'[r] = target[r]
        BY <2>1
      <4>4. QED
        BY <2>1, <4>1, <4>2, <4>3
    <3>3. QED
      BY <2>1, <2>3, <3>1, <3>2 DEF RecoverInv, Match, Valid
  <2>4. QED
    BY <2>2, <2>3
<1>5. ASSUME NEW p \in Procs, NEW t \in Copies, NEW s \in Copies,
             t = target[p], s = Other(t), pc[p] \in Writing,
             op' = op, tmp' = tmp, target' = target,
             \A q \in Procs \ {p} : pc'[q] = pc[q],
             bin'[s] = bin[s], json'[s] = json[s],
             bin'[t].seqid = Out(p).seqid,
             bin'[t].csum \in {None, Out(p).jobj},
             json'[t] \in {json[t], Out(p).jobj},
             pc'[p] \in {"csum", "sync"} => json'[t] = Out(p).jobj,
             \/ bin'[t].csum = Out(p).jobj
             \/ pc'[p] \in {"json", "csum"}
      PROVE  RecoverInv'
  <2>1. CASE op[p] = "write"
    <3>1. \A q \in Procs \ {p} : pc[q] \notin Writing \cup {"probe"}
      BY <1>5, <2>1, <1>m DEF LockInv, Writing
    <3>2. \A q \in Procs : ~Recovering(q)'
      BY <1>5, <2>1, <3>1 DEF Recovering
    <3>3. QED
      BY <3>2 DEF RecoverInv
  <2>2. CASE op[p] = "read"
    <3>1. Recovering(p) /\ Out(p) = tmp[p]
      BY <1>5, <2>2 DEF Recovering, Out
    <3>2. Match(s, tmp[p]) /\ \A q \in Procs : Recovering(q) => target[q] = t
      BY <1>5, <3>1, <1>m DEF RecoverInv
    <3>3. ASSUME NEW q \in Procs, Recovering(q)'
          PROVE  /\ Recovering(q) /\ target[q] = t /\ Match(s, tmp[q])
                 /\ q # p /\ pc[q] \in {"csum", "sync"} => json[t] = tmp[q].jobj
      <4>1. Recovering(q)
        BY <1>5, <3>1, <3>3 DEF Recovering
      <4>2. QED
        BY <1>5, <3>2, <4>1, <1>m DEF RecoverInv
    <3>4. ASSUME NEW q \in Procs, Recovering(q)'
          PROVE  /\ pc'[q] \in Writing \cup {"probe"}
                 /\ tmp[q].seqid = tmp[p].seqid /\ tmp[q].jobj = tmp[p].jobj
                 /\ target'[q] = t /\ tmp'[q] = tmp[q]
                 /\ Match(s, tmp[q])'
                 /\ pc'[q] \in {"csum", "sync"} => json'[t] = tmp[p].jobj
      <4>1. Recovering(q) /\ target[q] = t /\ Match(s, tmp[q])
        BY <3>3, <3>4
      <4>2. tmp[q].seqid = tmp[p].seqid /\ tmp[q].jobj = tmp[p].jobj
        BY <3>2, <4>1 DEF Match
      <4>3. target'[q] = t /\ tmp'[q] = tmp[q]
        BY <1>5, <4>1
      <4>4. Match(s, tmp[q])'
        BY <1>5, <4>1, <4>3 DEF Match
      <4>5. pc'[q] \in {"csum", "sync"} => json'[t] = tmp[p].jobj
        BY <1>5, <3>1, <3>3, <3>4, <4>2
      <4>6. QED
        BY <3>4, <4>2, <4>3, <4>4, <4>5 DEF Recovering
    <3>5. tmp[p].seqid \in Nat
      BY <3>1, <1>m DEF Parts, LockInv, Recovering
    <3>6. ASSUME NEW q \in Procs, Recovering(q)'
          PROVE  /\ Match(Other(target[q]), tmp[q])'
                 /\ bin'[target'[q]].seqid = tmp'[q].seqid
                 /\ bin'[target'[q]].csum \in {None, tmp'[q].jobj}
                 /\ tmp'[q].seqid \in Nat
                 /\ pc'[q] \in {"csum", "sync"} => json'[target'[q]] = tmp'[q].jobj
                 /\ \/ bin'[target'[q]].csum = tmp'[q].jobj
                    \/ pc'[p] \in {"json", "csum"} /\ target'[p] = target'[q]
                 /\ \A r \in Procs : Recovering(r)' => target'[r] = target'[q]
      BY <1>5, <3>1, <3>4, <3>5, <3>6 DEF Match
    <3>7. QED
      BY <3>6 DEF RecoverInv
  <2>3. QED
    BY <2>1, <2>2, <1>m DEF Parts
<1>6. ASSUME NEW p \in Procs, BinForm(p) \/ JsonForm(p) \/ CsumForm(p)
      PROVE  RecoverInv'
  <2>1. pc[p] \in Writing /\ op' = op /\ tmp' = tmp /\ target' = target
    BY <1>6 DEF BinForm, JsonForm, CsumForm, DiskForm, Writing
  <2>0. PICK t \in Copies, s \in Copies : t = target[p] /\ s = Other(target[p])
    BY <2>1, WritingFacts
  <2>2. /\ pc[p] \in {"json", "csum", "sync"} =>
              bin[t].seqid = Out(p).seqid /\ bin[t].csum \in {None, Out(p).jobj}
        /\ pc[p] \in {"csum", "sync"} => json[t] = Out(p).jobj
    BY <2>0, <2>1, WritingFacts
  <2>3. CASE BinForm(p)
    BY <1>5, <2>0, <2>1, <2>3 DEF BinForm, DiskForm
  <2>4. CASE JsonForm(p)
    BY <1>5, <2>0, <2>1, <2>2, <2>4 DEF JsonForm, DiskForm
  <2>5. CASE CsumForm(p)
    BY <1>5, <2>0, <2>1, <2>2, <2>5 DEF CsumForm, DiskForm
  <2>6. QED
    BY <1>6, <2>3, <2>4, <2>5
<1>7. ASSUME NEW p \in Procs, SyncForm(p)
      PROVE  RecoverInv'
  <2>1. /\ UNCHANGED <<bin, json, op, tmp>> /\ pc[p] = "sync" /\ Others(p, pc)
        /\ Others(p, target) /\ (pc'[p] = "done" \/ op[p] = "write")
    BY <1>7 DEF SyncForm, DiskForm
  <2>2. ~Recovering(p)' /\ \A q \in Procs \ {p} : Recovering(q)' => Recovering(q)
    BY <2>1 DEF Recovering, Writing
  <2>3. QED
    BY <1>1, <2>1, <2>2
<1>8. CASE PowerForm
  BY <1>8 DEF PowerForm, RecoverInv, Recovering, Writing
<1>9. CASE UNCHANGED vars
  BY <1>9, <1>m DEF vars, disk, ctx, RecoverInv, Recovering, Match, Valid
<1>10. QED
  BY <1>2, <1>3, <1>4, <1>6, <1>7, <1>8, <1>9 DEF StepForm

(* Two good copies with the same sequence id are the same header. *)
LEMMA SameSeqid ==
  ASSUME BaseInv, FaultInv, NEW c \in Copies, NEW d \in Copies, NEW h,
         Match(c, h), Valid(d), bin[d].seqid = h.seqid
  PROVE  Match(d, h)
<1> USE PartTypes DEF FaultInv
<1>1. bin[c] \in Stored(c) /\ bin[d] \in Stored(d) /\ Valid(c)
  BY DEF Stored, Valid, Match, MetaInv
<1>2. bin[c].seqid = bin[d].seqid /\ bin[c].seqid \in Nat
  BY DEF Match, Parts
<1>3. bin[c].csum \subseteq bin[d].csum /\ bin[d].csum \subseteq bin[c].csum
  BY <1>1, <1>2 DEF ChainInv
<1>4. bin[c].uuid = None /\ bin[d].uuid = None
  BY DEF MetaInv
<1>5. bin[c].csum = bin[d].csum
  BY <1>3
<1>6. QED
  BY <1>1, <1>4, <1>5 DEF Match, Valid

(* The end of a recovery: the copy is good, or another process is just     *)
(* writing the same to it.                                                 *)
LEMMA RecoveredCopy ==
  ASSUME BaseInv, FaultInv, NEW p \in Procs, pc[p] = "sync", op[p] = "read"
  PROVE  \E t, s \in Copies :
           /\ t = target[p] /\ s = Other(t) /\ s # t /\ \A c \in Copies : c \in {t, s}
           /\ Match(s, tmp[p])
           /\ \A q \in Procs : pc[q] \in Writing \cup {"probe"} => target[q] = t
           /\ \/ Match(t, tmp[p])
              \/ \E q \in Procs \ {p} : pc[q] \in Writing /\ target[q] = t
<1>0. PICK t \in Copies, s \in Copies : t = target[p] /\ s = Other(target[p])
  BY WritingFacts DEF Writing
<1>1. /\ s # t /\ \A c \in Copies : c \in {t, s}
      /\ \A q \in Procs : pc[q] \in Writing \cup {"probe"} => target[q] = t
  BY <1>0, WritingFacts DEF Writing
<1>2. /\ Match(s, tmp[p])
      /\ bin[t].seqid = tmp[p].seqid /\ json[t] = tmp[p].jobj
      /\ \/ bin[t].csum = tmp[p].jobj
         \/ \E q \in Procs : pc[q] \in {"json", "csum"} /\ target[q] = t
  <2>1. Recovering(p)
    BY DEF Recovering, Writing
  <2>2. QED
    BY <1>0, <2>1 DEF FaultInv, RecoverInv
<1>3. bin[t].uuid = None /\ tmp[p].uuid = None
  BY <1>2 DEF FaultInv, MetaInv, Match
<1>4. QED
  BY <1>0, <1>1, <1>2, <1>3 DEF Match, Writing

(* What a reader has in hand stays right whatever the others do to the     *)
(* device meanwhile.                                                       *)
LEMMA ReadStep ==
  ASSUME BaseInv, BaseInv', FaultInv, StepForm
  PROVE  ReadInv'
<1> USE HeaderConstants DEF Others, SameDisk, SameHist
<1>m. ReadInv /\ Parts /\ LockInv
  BY PartTypes DEF FaultInv, BaseInv
<1>c. 1 \in Copies /\ 2 \in Copies /\ \A c \in Copies : c \in {1, 2}
  BY DEF Copies
<1>1. ASSUME NEW p \in Procs, UNCHANGED <<bin, json>>,
             \A q \in Procs : pc[q] \in Writing =>
               pc'[q] \in Writing /\ target'[q] = target[q],
             tmp'[p] = tmp[p]
      PROVE  /\ Reads(1, tmp[p]) => Reads(1, tmp[p])'
             /\ Kept(p) => Kept(p)'
             /\ /\ Replaced(p)
                /\ \A q \in Procs : Recovering(q)' => target'[q] = 1
                => Replaced(p)'
  BY <1>1 DEF Reads, Kept, Replaced, Match, Valid
<1>2. ASSUME UNCHANGED <<bin, json>>,
             \A q \in Procs :
               /\ pc[q] \in Writing => pc'[q] \in Writing /\ target'[q] = target[q]
               /\ Recovering(q)' => Recovering(q) /\ target'[q] = target[q]
               /\ pc'[q] = "read2" => pc[q] = "read2" /\ tmp'[q] = tmp[q]
               /\ pc'[q] = "done" /\ op'[q] = "read" =>
                    pc[q] = "done" /\ op[q] = "read" /\ tmp'[q] = tmp[q]
      PROVE  ReadInv'
  <2>1. ASSUME NEW q \in Procs, pc'[q] = "read2"
        PROVE  Reads(1, tmp[q])' \/ Replaced(q)'
    <3>1. Reads(1, tmp[q]) \/ Replaced(q)
      BY <1>2, <2>1, <1>m DEF ReadInv
    <3>2. Replaced(q) => \A r \in Procs : Recovering(r)' => target'[r] = 1
      BY <1>2 DEF Replaced
    <3>3. QED
      BY <1>1, <1>2, <2>1, <3>1, <3>2
  <2>2. ASSUME NEW q \in Procs, pc'[q] = "done", op'[q] = "read"
        PROVE  Kept(q)'
    BY <1>1, <1>2, <2>2, <1>m DEF ReadInv
  <2>3. QED
    BY <2>1, <2>2 DEF ReadInv
<1>3. ASSUME NEW p \in Procs, ControlForm(p) \/ FailForm(p) \/ OpenForm(p)
      PROVE  ReadInv'
  BY <1>2, <1>3, <1>m DEF ControlForm, FailForm, OpenForm, Recovering, Writing, LockInv
<1>4. ASSUME NEW p \in Procs,
             \/ LoadForm(p) \/ WriteForm(p) \/ AckForm(p)
             \/ \E u \in Updates : UpdateForm(p, u)
      PROVE  ReadInv'
  BY <1>2, <1>4, <1>m DEF LoadForm, WriteForm, AckForm, UpdateForm, Recovering,
                          Writing, LockInv
<1>5. ASSUME NEW p \in Procs, DropForm(p)
      PROVE  ReadInv'
  <2>1. /\ UNCHANGED <<bin, json>> /\ pc'[p] = "idle"
        /\ \A q \in Procs \ {p} : /\ pc'[q] = pc[q] /\ op'[q] = op[q]
                                  /\ tmp'[q] = tmp[q] /\ target'[q] = target[q]
    BY <1>5 DEF DropForm
  <2>2. CASE pc[p] = "idle"
    BY <1>2, <2>1, <2>2 DEF Recovering, Writing
  <2>3. CASE kills = 0
    <3>1. \A q \in Procs \ {p} : pc[q] = "read2" => Reads(1, tmp[q])'
      BY <2>1, <2>3 DEF FaultInv, KillInv, Reads, Match, Valid
    <3>2. ASSUME NEW q \in Procs \ {p}, pc[q] = "done", op[q] = "read"
          PROVE  Kept(q)'
      <4>1. Kept(q)
        BY <3>2, <1>m DEF ReadInv
      <4>2. pc[p] \in Writing => FALSE
        BY <2>3, <3>2, <1>m DEF LockInv, FaultInv, KillInv, Writing
      <4>3. QED
        BY <2>1, <4>1, <4>2 DEF Kept, Match
    <3>3. QED
      BY <2>1, <3>1, <3>2 DEF ReadInv
  <2>4. QED
    BY <1>5, <2>2, <2>3 DEF DropForm
<1>6. ASSUME NEW p \in Procs, ReadForm(p)
      PROVE  ReadInv'
  <2>1. /\ UNCHANGED <<bin, json, op>> /\ pc[p] \in {"read1", "read2"}
        /\ \A q \in Procs \ {p} : /\ pc'[q] = pc[q] /\ tmp'[q] = tmp[q]
                                  /\ target'[q] = target[q]
                                  /\ Recovering(q)' <=> Recovering(q)
    BY <1>6 DEF ReadForm, Recovering
  <2>2. \A q \in Procs : pc[q] \in Writing => pc'[q] \in Writing /\ target'[q] = target[q]
    BY <2>1 DEF Writing
  <2>3. ASSUME NEW q \in Procs \ {p}, pc[q] = "read2"
        PROVE  Reads(1, tmp[q])' \/ Replaced(q)'
    <3>1. Reads(1, tmp[q]) \/ Replaced(q)
      BY <2>3, <1>m DEF ReadInv
    <3>2. CASE Replaced(q)
      <4>1. pc'[p] = "probe" => target'[p] = 1
        BY <1>6, <3>2, ProbeFacts DEF Replaced
      <4>2. Recovering(p)' => target'[p] = 1
        BY <1>6, <4>1 DEF Recovering, Writing, ReadForm
      <4>3. \A r \in Procs : Recovering(r)' => target'[r] = 1
        BY <2>1, <3>2, <4>2 DEF Replaced
      <4>4. QED
        BY <1>1, <2>1, <2>2, <3>2, <4>3
    <3>3. CASE Reads(1, tmp[q])
      BY <1>1, <2>1, <2>2, <3>3
    <3>4. QED
      BY <3>1, <3>2, <3>3
  <2>4. ASSUME NEW q \in Procs \ {p}, pc[q] = "done", op[q] = "read"
        PROVE  Kept(q)'
    BY <1>1, <2>1, <2>2, <2>4, <1>m DEF ReadInv
  <2>5. pc'[p] = "read2" => Reads(1, tmp[p])'
    BY <1>6 DEF ReadForm, Reads, Match, Valid
  <2>6. ASSUME pc'[p] = "done"
        PROVE  Kept(p)'
    <3>1. PICK v \in {None} \cup Headers :
            Reads(2, v) /\ tmp[p] # None /\ v # None /\ tmp[p].seqid = v.seqid
            /\ tmp'[p] = IF Usable(tmp[p], v) = 1 THEN tmp[p] ELSE v
      BY <1>6, <2>6 DEF ReadForm, InSync
    <3>2. tmp'[p] = tmp[p]
      BY <3>1, <1>m DEF Usable, Parts
    <3>3. Valid(2) /\ bin[2].seqid = tmp[p].seqid /\ bin[2].seqid \in Nat
      BY <3>1, <1>m, <1>c DEF Reads, Match, Parts
    <3>4. pc[p] = "read2"
      BY <1>6, <2>6 DEF ReadForm
    <3>5. CASE Reads(1, tmp[p])
      <4>1. Match(1, tmp[p])
        BY <3>1, <3>5 DEF Reads
      <4>2. Match(2, tmp[p])
        BY <3>3, <4>1, <1>c, SameSeqid
      <4>3. Kept(p)
        BY <4>1, <4>2, <1>c DEF Kept
      <4>4. QED
        BY <1>1, <2>1, <2>2, <3>2, <4>3
    <3>6. CASE Replaced(p)
      <4>1. Match(2, tmp[p])
        BY <3>1, <3>3, <3>6 DEF Replaced
      <4>2. Kept(p)
        BY <3>1, <3>6, <4>1, <1>c DEF Kept, Replaced
      <4>3. QED
        BY <1>1, <2>1, <2>2, <3>2, <4>2
    <3>7. QED
      BY <3>4, <3>5, <3>6, <1>m DEF ReadInv
  <2>7. QED
    BY <2>1, <2>3, <2>4, <2>5, <2>6 DEF ReadInv
<1>7. ASSUME NEW p \in Procs, BinForm(p) \/ JsonForm(p) \/ CsumForm(p)
      PROVE  ReadInv'
  <2>1. /\ pc[p] \in Writing /\ pc'[p] \in Writing /\ pc'[p] # "bin"
        /\ op' = op /\ tmp' = tmp /\ target' = target
        /\ \A q \in Procs \ {p} : pc'[q] = pc[q]
    BY <1>7 DEF BinForm, JsonForm, CsumForm, DiskForm, Writing
  <2>0. PICK t \in Copies, s \in Copies : t = target[p] /\ s = Other(target[p])
    BY <2>1, WritingFacts
  <2>2. s # t /\ (\A c \in Copies : c \in {t, s}) /\ bin'[s] = bin[s] /\ json'[s] = json[s]
    BY <1>7, <2>0, <2>1, WritingFacts DEF BinForm, JsonForm, CsumForm
  <2>3. \A q \in Procs \ {p} : holds[q] # "un" => op[p] = "read"
    BY <2>0, <2>1, WritingFacts, <1>m DEF Parts
  <2>4. ASSUME NEW q \in Procs \ {p}, pc[q] = "done", op[q] = "read"
        PROVE  Kept(q)'
    <3>1. Kept(q)
      BY <2>4, <1>m DEF ReadInv
    <3>2. QED
      BY <2>0, <2>1, <2>2, <3>1 DEF Kept, Match
  <2>5. ASSUME NEW q \in Procs \ {p}, pc[q] = "read2"
        PROVE  Reads(1, tmp[q])' \/ Replaced(q)'
    <3>1. op[p] = "read" /\ Recovering(p) /\ Recovering(p)'
      BY <2>1, <2>3, <2>5, <1>m DEF LockInv, Recovering
    <3>2. Match(s, tmp[p]) /\ (Valid(t) => bin[t].seqid <= tmp[p].seqid)
      BY <2>0, <3>1 DEF FaultInv, RecoverInv
    <3>3. CASE t = 2
      <4>1. ~Replaced(q) /\ s = 1
        BY <2>0, <2>2, <3>1, <3>3, <1>c DEF Replaced
      <4>2. Reads(1, tmp[q])
        BY <2>5, <4>1, <1>m DEF ReadInv
      <4>3. QED
        BY <2>1, <2>2, <4>1, <4>2 DEF Reads, Match, Valid
    <3>4. CASE t = 1
      <4>1. s = 2 /\ Valid(2) /\ bin[2].seqid = tmp[p].seqid
        BY <2>0, <3>2, <3>4 DEF Other, Match, Valid
      <4>2. /\ Valid(1)' => bin'[1].seqid <= tmp[p].seqid
            /\ \A r \in Procs : Recovering(r)' => target'[r] = 1
        BY <2>0, <2>1, <3>1, <3>4, RecoverStep DEF RecoverInv
      <4>3. ASSUME tmp[q] # None
            PROVE  tmp[q].seqid < bin[2].seqid \/ Match(2, tmp[q])
        <5>1. CASE Replaced(q)
          BY <4>3, <5>1 DEF Replaced
        <5>2. CASE Reads(1, tmp[q])
          <6>1. Valid(1) /\ Match(1, tmp[q]) /\ tmp[q].seqid = bin[1].seqid
            BY <4>3, <5>2 DEF Reads, Match
          <6>2. bin[1].seqid <= bin[2].seqid /\ bin[1].seqid \in Nat /\ bin[2].seqid \in Nat
            BY <3>2, <3>4, <4>1, <6>1, <1>m, <1>c DEF Parts
          <6>3. bin[2].seqid = tmp[q].seqid => Match(2, tmp[q])
            BY <4>1, <6>1, <1>c, SameSeqid
          <6>4. QED
            BY <6>1, <6>2, <6>3
        <5>3. QED
          BY <2>5, <5>1, <5>2, <1>m DEF ReadInv
      <4>4. Valid(2)' /\ bin'[2] = bin[2] /\ json'[2] = json[2]
        BY <2>2, <4>1 DEF Valid
      <4>5. pc'[p] \in Writing /\ target'[p] = 1
        BY <2>0, <2>1, <3>4
      <4>6. tmp'[q] # None => tmp'[q].seqid < bin'[2].seqid \/ Match(2, tmp[q])'
        BY <2>1, <4>3, <4>4 DEF Match
      <4>7. Replaced(q)'
        BY <4>1, <4>2, <4>4, <4>5, <4>6 DEF Replaced
      <4>8. QED
        BY <4>7
    <3>5. QED
      BY <3>3, <3>4, <1>c
  <2>6. pc'[p] \notin {"read2", "done"}
    BY <2>1 DEF Writing
  <2>7. QED
    BY <2>1, <2>4, <2>5, <2>6 DEF ReadInv
<1>8. ASSUME NEW p \in Procs, SyncForm(p)
      PROVE  ReadInv'
  <2>1. /\ UNCHANGED <<bin, json, op, tmp>> /\ pc[p] = "sync"
        /\ \A q \in Procs \ {p} : pc'[q] = pc[q] /\ target'[q] = target[q]
        /\ pc'[p] \in {"bin", "done"} /\ (op[p] = "read" => pc'[p] = "done")
    BY <1>8 DEF SyncForm, DiskForm
  <2>2. CASE op[p] = "write"
    <3>1. \A q \in Procs \ {p} : holds[q] = "un"
      BY <2>1, <2>2, WritingFacts DEF Writing
    <3>2. \A q \in Procs : pc'[q] # "read2" /\ ~(pc'[q] = "done" /\ op'[q] = "read")
      BY <2>1, <2>2, <3>1, <1>m DEF LockInv
    <3>3. QED
      BY <3>2 DEF ReadInv
  <2>3. CASE op[p] = "read"
    <3>1. PICK t \in Copies, s \in Copies :
           /\ t = target[p] /\ s = Other(t) /\ s # t /\ \A c \in Copies : c \in {t, s}
           /\ Match(s, tmp[p])
           /\ \A q \in Procs : pc[q] \in Writing \cup {"probe"} => target[q] = t
           /\ \/ Match(t, tmp[p])
              \/ \E q \in Procs \ {p} : pc[q] \in Writing /\ target[q] = t
      BY <2>1, <2>3, RecoveredCopy
    <3>2. (\E q \in Procs \ {p} : pc[q] \in Writing /\ target[q] = t)
            => \E q \in Procs : pc'[q] \in Writing /\ target'[q] = t
      BY <2>1
    (* Every reader of the header has it in both copies now. *)
    <3>3. ASSUME NEW q \in Procs, Match(s, tmp[q])
          PROVE  Match(t, tmp[q])' \/ \E r \in Procs : pc'[r] \in Writing /\ target'[r] = t
      <4>1. Match(t, tmp[p]) => Match(t, tmp[q])
        BY <3>1, <3>3 DEF Match
      <4>2. QED
        BY <2>1, <3>1, <3>2, <4>1 DEF Match
    <3>4. ASSUME NEW q \in Procs, pc'[q] = "done", op'[q] = "read"
          PROVE  Kept(q)'
      <4>1. CASE q = p
        BY <2>1, <3>1, <3>3, <4>1 DEF Kept, Match
      <4>2. CASE q # p
        <5>1. Kept(q)
          BY <2>1, <3>4, <4>2, <1>m DEF ReadInv
        <5>2. Match(s, tmp[q])
          BY <3>1, <5>1 DEF Kept
        <5>3. QED
          BY <2>1, <3>1, <3>3, <5>2 DEF Kept, Match
      <4>3. QED
        BY <4>1, <4>2
    <3>5. ASSUME NEW q \in Procs, pc'[q] = "read2"
          PROVE  Reads(1, tmp[q])' \/ Replaced(q)'
      <4>1. q # p /\ pc[q] = "read2"
        BY <2>1, <3>5
      <4>2. CASE Reads(1, tmp[q])
        BY <2>1, <4>2 DEF Reads, Match, Valid
      <4>3. CASE Replaced(q)
        <5>1. (t = 1 /\ s = 2) \/ (t = 2 /\ s = 1)
          BY <3>1, <1>c
        <5>2. \A r \in Procs : Recovering(r)' => Recovering(r) /\ target'[r] = target[r]
          BY <2>1, <2>3 DEF Recovering, Writing
        <5>3. ASSUME tmp[q] # None, Match(2, tmp[q])
              PROVE  \/ Match(1, tmp[q])'
                     \/ \E r \in Procs : pc'[r] \in Writing /\ target'[r] = 1
          <6>1. CASE t = 1
            BY <3>3, <5>1, <5>3, <6>1
          <6>2. CASE t = 2
            <7>1. Match(1, tmp[q])
              BY <3>1, <4>3, <5>1, <5>3, <6>2 DEF Replaced
            <7>2. QED
              BY <2>1, <7>1 DEF Match
          <6>3. QED
            BY <5>1, <6>1, <6>2
        <5>4. QED
          BY <2>1, <4>3, <5>2, <5>3 DEF Replaced, Match, Valid
      <4>4. QED
        BY <4>1, <4>2, <4>3, <1>m DEF ReadInv
    <3>6. QED
      BY <3>4, <3>5 DEF ReadInv
  <2>4. QED
    BY <2>2, <2>3, <1>m DEF Parts
<1>9. CASE PowerForm
  BY <1>9 DEF PowerForm, ReadInv
<1>10. CASE UNCHANGED vars
  BY <1>2, <1>10 DEF vars, disk, ctx, Recovering
<1>11. QED
  BY <1>3, <1>4, <1>5, <1>6, <1>7, <1>8, <1>9, <1>10 DEF StepForm

(* LUKS2_hdr_write goes on from where LUKS2_check_sequence_id found it:    *)
(* nobody comes between.                                                   *)
LEMMA WriteInvStep ==
  ASSUME BaseInv, BaseInv', FaultInv, StepForm
  PROVE  WriteInv'
<1> USE HeaderConstants DEF Others, SameDisk, SameHist
<1>m. WriteInv /\ Parts /\ LockInv /\ MetaInv
  BY PartTypes DEF FaultInv, BaseInv
<1>c. 1 \in Copies /\ 2 \in Copies /\ \A c \in Copies : c \in {1, 2}
  BY DEF Copies
<1>n. \A c \in Copies : json[c] # None /\ json'[c] # None
  <2>1. \A x \in {Torn} \cup SUBSET Updates : x # None
    OBVIOUS
  <2>2. QED
    BY <2>1, <1>m, PartTypesNext DEF Parts
(* The writer is alone. *)
<1>a. ASSUME NEW p \in Procs, op[p] = "write", pc[p] \in Writing \cup {"done"}
      PROVE  \A q \in Procs \ {p} : holds[q] = "un"
  BY <1>a, <1>m DEF LockInv, Writing
<1>1. ASSUME SameDisk,
             \A p \in Procs : op'[p] = "write" /\ pc'[p] \in Writing \cup {"done"} =>
               /\ op[p] = "write" /\ pc'[p] = pc[p] /\ target'[p] = target[p]
               /\ hdr'[p] = hdr[p]
               /\ \A q \in Procs \ {p} : hdr'[q] # None =>
                    hdr[q] # None /\ hdr'[q].seqid = hdr[q].seqid
      PROVE  WriteInv'
  <2> SUFFICES ASSUME NEW p \in Procs, op'[p] = "write",
                      pc'[p] \in Writing \cup {"done"}
               PROVE  /\ pc'[p] \in Writing =>
                           /\ target'[p] = 1 =>
                                /\ Valid(2)' /\ json'[2] = hdr'[p].rollback
                                /\ bin'[2].seqid + 1 = hdr'[p].seqid
                                /\ Valid(1)' /\ pc'[p] # "sync" => bin'[1].seqid = bin'[2].seqid
                           /\ target'[p] = 2 => (Valid(2)' => bin'[2].seqid <= hdr'[p].seqid)
                           /\ \E u \in hdr'[p].jobj : \A c \in Copies :
                                c > target'[p] \/ (c = target'[p] /\ pc'[p] # "sync") =>
                                  \A b \in mbin'[c] : b.csum # None => u \notin b.csum
                           /\ \A q \in Procs \ {p} :
                                hdr'[q] # None => hdr'[q].seqid < hdr'[p].seqid
                      /\ pc'[p] = "done" => \A c \in Copies : ~Dirty(c)'
    BY DEF WriteInv, Writing
  <2>1. /\ op[p] = "write" /\ pc'[p] = pc[p] /\ target'[p] = target[p]
        /\ hdr'[p] = hdr[p]
        /\ \A q \in Procs \ {p} : hdr'[q] # None =>
             hdr[q] # None /\ hdr'[q].seqid = hdr[q].seqid
    BY <1>1
  <2>2. QED
    BY <1>1, <2>1, <1>m DEF WriteInv, Valid, Dirty
<1>2. ASSUME NEW p \in Procs,
             \/ ControlForm(p) \/ FailForm(p) \/ DropForm(p)
             \/ \E u \in Updates : UpdateForm(p, u)
      PROVE  WriteInv'
  <2>1. /\ SameDisk /\ pc'[p] \notin Writing \cup {"done"}
        /\ \A q \in Procs \ {p} : /\ op'[q] = op[q] /\ pc'[q] = pc[q] /\ hdr'[q] = hdr[q]
                                  /\ target'[q] = target[q]
    BY <1>2 DEF ControlForm, FailForm, DropForm, UpdateForm, Writing
  <2>2. hdr'[p] # None => hdr[p] # None /\ hdr'[p].seqid = hdr[p].seqid
    BY <1>2 DEF ControlForm, FailForm, DropForm, UpdateForm
  <2>3. QED
    BY <1>1, <2>1, <2>2
<1>3. ASSUME \A p \in Procs : op'[p] = "write" => pc'[p] \notin Writing \cup {"done"}
      PROVE  WriteInv'
  BY <1>3 DEF WriteInv
<1>4. ASSUME NEW p \in Procs, holds[p] # "un",
             \A q \in Procs \ {p} : op'[q] = op[q] /\ pc'[q] = pc[q],
             op'[p] = "write" => pc'[p] \notin Writing \cup {"done"}
      PROVE  WriteInv'
  BY <1>3, <1>4, <1>a
<1>5. ASSUME NEW p \in Procs, ReadForm(p) \/ OpenForm(p) \/ LoadForm(p) \/ AckForm(p)
      PROVE  WriteInv'
  <2>1. holds[p] # "un" /\ \A q \in Procs \ {p} : op'[q] = op[q] /\ pc'[q] = pc[q]
    BY <1>5, <1>m DEF ReadForm, OpenForm, LoadForm, AckForm, LockInv
  <2>2. op'[p] = "write" => pc'[p] \notin Writing \cup {"done"}
    BY <1>5, <1>m DEF ReadForm, OpenForm, LoadForm, AckForm, LockInv, Writing
  <2>3. QED
    BY <1>4, <2>1, <2>2
<1>6. ASSUME NEW p \in Procs, WriteForm(p)
      PROVE  WriteInv'
  <2>1. \A q \in Procs \ {p} :
          /\ pc[q] \notin Writing \cup {"done"} /\ pc'[q] = pc[q] /\ hdr'[q] = hdr[q]
    BY <1>6, <1>m DEF WriteForm, LockInv, Writing
  <2>2. /\ pc[p] = "writelock" /\ Loaded(p) /\ pc'[p] = "bin" /\ target'[p] = 1 /\ SameDisk
        /\ hdr'[p].seqid = hdr[p].seqid + 1
        /\ hdr'[p].jobj = hdr[p].jobj /\ hdr'[p].rollback = hdr[p].rollback
    BY <1>6 DEF WriteForm, Loaded, Writing
  <2>3. bin[1].seqid = hdr[p].seqid /\ hdr[p].seqid \in Nat
    <3>1. bin[1].uuid = None /\ hdr[p].uuid = None
      BY <1>6, <1>m, <1>c DEF MetaInv, WriteForm
    <3>2. QED
      BY <1>6, <3>1, <1>m DEF WriteForm, SequenceIdMatches, Parts
  <2>4. \A q \in Procs : pc[q] \in Writing => target[q] # 2
    BY <2>1, <2>2 DEF Writing
  <2>5. Valid(2) /\ bin[2].seqid = hdr[p].seqid /\ json[2] = hdr[p].rollback
    BY <2>2, <2>3, <2>4, <1>c DEF FaultInv, LoadedInv
  <2>6. PICK u \in hdr[p].jobj : \A c \in Copies :
          \A b \in mbin[c] : b.csum # None => u \notin b.csum
    BY <2>2 DEF FaultInv, PrivateInv, Private
  <2>7. ASSUME NEW q \in Procs \ {p}, hdr'[q] # None
        PROVE  hdr'[q].seqid < hdr'[p].seqid
    <3>1. hdr[q] # None /\ Loaded(q) /\ hdr[q].seqid \in Nat
      BY <2>1, <2>7, <1>m DEF Loaded, Parts
    <3>2. \E c \in Copies : Valid(c) /\ hdr[q].seqid <= bin[c].seqid
      BY <3>1 DEF FaultInv, LoadedInv
    <3>3. hdr[q].seqid <= hdr[p].seqid
      BY <2>3, <2>5, <3>2, <1>c
    <3>4. QED
      BY <2>1, <2>2, <2>3, <3>1, <3>3
  <2>8. Valid(2)' /\ json'[2] = json[2] /\ bin' = bin /\ mbin' = mbin
    BY <2>2, <2>5 DEF Valid
  <2>9. \E w \in hdr'[p].jobj : \A c \in Copies :
          \A b \in mbin'[c] : b.csum # None => w \notin b.csum
    BY <2>2, <2>6, <2>8
  <2>10. pc'[p] # "done"
    BY <2>2
  <2>11. QED
    BY <2>1, <2>2, <2>3, <2>5, <2>7, <2>8, <2>9, <2>10 DEF WriteInv
<1>7. ASSUME NEW p \in Procs, BinForm(p) \/ JsonForm(p) \/ CsumForm(p) \/ SyncForm(p)
      PROVE  WriteInv'
  <2>1. /\ pc[p] \in Writing /\ op' = op /\ hdr' = hdr
        /\ \A q \in Procs \ {p} : pc'[q] = pc[q]
    BY <1>7 DEF BinForm, JsonForm, CsumForm, SyncForm, DiskForm, Writing
  <2>2. holds[p] # "un"
    BY <2>1, <1>m DEF LockInv, Writing
  <2>3. CASE op[p] = "read"
    BY <1>4, <2>1, <2>2, <2>3
  <2>4. CASE op[p] = "write"
    <3>0. PICK t \in Copies, s \in Copies : t = target[p] /\ s = Other(target[p])
      BY <2>1, WritingFacts
    <3>1. \A q \in Procs \ {p} : pc'[q] \notin Writing \cup {"done"}
      BY <2>1, <2>4, <1>a, <1>m DEF LockInv, Writing
    <3>2. /\ t = 1 => /\ Valid(2) /\ json[2] = hdr[p].rollback
                      /\ bin[2].seqid + 1 = hdr[p].seqid
          /\ t = 2 => (Valid(2) => bin[2].seqid <= hdr[p].seqid)
          /\ \A q \in Procs \ {p} : hdr[q] # None => hdr[q].seqid < hdr[p].seqid
      BY <2>1, <2>4, <3>0, <1>m DEF WriteInv
    <3>3. PICK u \in hdr[p].jobj : \A c \in Copies :
            c > t \/ (c = t /\ pc[p] # "sync") =>
              \A b \in mbin[c] : b.csum # None => u \notin b.csum
      BY <2>1, <2>4, <3>0, <1>m DEF WriteInv
    <3>4. /\ Out(p) = hdr[p] /\ hdr[p].seqid \in Nat
          /\ pc[p] \in {"json", "csum"} => bin[t].csum = None
      BY <2>4, <3>0, <1>m DEF Out, Parts, LockInv, BaseInv, StoreInv, Unsealed
    <3>5. (t = 1 /\ s = 2) \/ (t = 2 /\ s = 1)
      BY <3>0 DEF Copies, Other
    <3>6. ASSUME NEW r \in Copies, r = target'[p],
                 pc'[p] \in Writing,
                 r = 1 => /\ Valid(2)' /\ json'[2] = hdr[p].rollback
                          /\ bin'[2].seqid + 1 = hdr[p].seqid
                          /\ ~Valid(1)' \/ pc'[p] = "sync",
                 r = 2 => (Valid(2)' => bin'[2].seqid <= hdr[p].seqid),
                 \A c \in Copies : c > r \/ (c = r /\ pc'[p] # "sync") =>
                   \A b \in mbin'[c] : b.csum # None => u \notin b.csum
          PROVE  WriteInv'
      <4>1. pc'[p] # "done"
        BY <3>6 DEF Writing
      <4>2. \E w \in hdr'[p].jobj : \A c \in Copies :
              c > target'[p] \/ (c = target'[p] /\ pc'[p] # "sync") =>
                \A b \in mbin'[c] : b.csum # None => w \notin b.csum
        BY <2>1, <3>6
      <4>3. QED
        BY <2>1, <3>1, <3>2, <3>6, <4>1, <4>2 DEF WriteInv
    <3>7. CASE BinForm(p)
      <4>1. /\ bin'[t].csum = None /\ mbin'[t] = mbin[t] \cup {bin'[t]}
            /\ bin'[s] = bin[s] /\ mbin'[s] = mbin[s] /\ UNCHANGED json
            /\ pc[p] = "bin" /\ pc'[p] = "json" /\ target'[p] = t
        BY <3>0, <3>7 DEF BinForm, DiskForm
      <4>2. ~Valid(t)' /\ (Valid(s) => Valid(s)')
        BY <4>1, <1>n DEF Valid
      <4>3. \A c \in Copies : c > t \/ c = t =>
              \A b \in mbin'[c] : b.csum # None => u \notin b.csum
        BY <3>3, <3>5, <4>1, <1>c
      <4>4. QED
        BY <3>2, <3>5, <3>6, <4>1, <4>2, <4>3 DEF Writing
    <3>8. CASE JsonForm(p)
      <4>1. /\ UNCHANGED <<bin, mbin>> /\ json'[s] = json[s]
            /\ pc[p] = "json" /\ pc'[p] = "csum" /\ target'[p] = t
        BY <3>0, <3>8 DEF JsonForm, DiskForm
      <4>2. ~Valid(t)' /\ (Valid(s) => Valid(s)')
        BY <3>4, <4>1, <1>n DEF Valid
      <4>3. \A c \in Copies : c > t \/ c = t =>
              \A b \in mbin'[c] : b.csum # None => u \notin b.csum
        BY <3>3, <4>1
      <4>4. QED
        BY <3>2, <3>5, <3>6, <4>1, <4>2, <4>3 DEF Writing
    <3>9. CASE CsumForm(p)
      <4>1. /\ bin'[t].seqid = hdr[p].seqid /\ UNCHANGED json
            /\ bin'[s] = bin[s] /\ mbin'[s] = mbin[s]
            /\ pc[p] = "csum" /\ pc'[p] = "sync" /\ target'[p] = t
        BY <3>0, <3>4, <3>9 DEF CsumForm, DiskForm
      <4>2. Valid(s) => Valid(s)'
        BY <4>1 DEF Valid
      <4>3. \A c \in Copies : c > t =>
              \A b \in mbin'[c] : b.csum # None => u \notin b.csum
        BY <3>3, <3>5, <4>1, <1>c
      <4>4. QED
        BY <3>2, <3>4, <3>5, <3>6, <4>1, <4>2, <4>3 DEF Writing
    <3>10. CASE SyncForm(p)
      <4>1. /\ UNCHANGED <<bin, json>> /\ pc[p] = "sync"
            /\ \A c \in Copies : mbin'[c] = {bin[c]} /\ mjson'[c] = {json[c]}
            /\ t = 1 => target'[p] = 2 /\ pc'[p] = "bin"
            /\ t # 1 => pc'[p] = "done"
        BY <2>4, <3>0, <3>10 DEF SyncForm, DiskForm
      <4>2. CASE t = 1
        <5>1. \A b \in mbin'[2] : b.csum # None => u \notin b.csum
          BY <3>3, <4>1, <4>2, <1>c, <1>m DEF MetaInv
        <5>2. Valid(2)' => bin'[2].seqid <= hdr[p].seqid
          BY <3>2, <4>1, <4>2, <1>c, <1>m DEF Parts
        <5>3. \A c \in Copies : c > 2 \/ c = 2 =>
                \A b \in mbin'[c] : b.csum # None => u \notin b.csum
          BY <5>1, <1>c
        <5>4. QED
          BY <3>6, <4>1, <4>2, <5>2, <5>3, <1>c DEF Writing
      <4>3. CASE t # 1
        <5>1. pc'[p] = "done" /\ \A c \in Copies : ~Dirty(c)'
          BY <4>1, <4>3 DEF Dirty
        <5>2. pc'[p] \notin Writing
          BY <5>1 DEF Writing
        <5>3. QED
          BY <3>1, <5>1, <5>2 DEF WriteInv
      <4>4. QED
        BY <4>2, <4>3
    <3>11. QED
      BY <1>7, <3>7, <3>8, <3>9, <3>10
  <2>5. QED
    BY <2>3, <2>4, <1>m DEF Parts
<1>8. CASE PowerForm
  BY <1>8 DEF PowerForm, WriteInv
<1>9. CASE UNCHANGED vars
  BY <1>1, <1>9 DEF vars, disk, ctx
<1>10. QED
  BY <1>2, <1>5, <1>6, <1>7, <1>8, <1>9 DEF StepForm

(* An update that is not stored yet stays with its context. *)
LEMMA PrivateStep ==
  ASSUME BaseInv, BaseInv', FaultInv, StepForm
  PROVE  PrivateInv'
<1> USE HeaderConstants DEF Others, SameDisk, SameHist
<1>m. PrivateInv /\ Parts /\ LockInv /\ MetaInv
  BY PartTypes DEF FaultInv, BaseInv
<1>n. \A c \in Copies : json[c] # None
  <2>1. \A x \in {Torn} \cup SUBSET Updates : x # None
    OBVIOUS
  <2>2. QED
    BY <2>1, <1>m DEF Parts
<1>1. ASSUME \A p \in Procs : pc'[p] = "writelock" =>
               /\ pc[p] = "writelock" /\ hdr'[p].jobj = hdr[p].jobj
               /\ \A u \in hdr[p].jobj : Private(p, u) => Private(p, u)'
      PROVE  PrivateInv'
  BY <1>1, <1>m DEF PrivateInv
<1>2. ASSUME NEW p \in Procs,
             \/ ControlForm(p) \/ FailForm(p) \/ DropForm(p) \/ OpenForm(p)
             \/ LoadForm(p) \/ WriteForm(p) \/ AckForm(p)
      PROVE  PrivateInv'
  <2>1. /\ SameDisk /\ pc'[p] # "writelock" /\ \A q \in Procs : tmp'[q] \in {tmp[q], None}
        /\ \A q \in Procs \ {p} : pc'[q] = pc[q] /\ hdr'[q] = hdr[q]
    BY <1>2 DEF ControlForm, FailForm, DropForm, OpenForm, LoadForm, WriteForm, AckForm
  <2>2. \/ hdr'[p] = None
        \/ hdr[p] # None /\ hdr'[p].jobj \subseteq hdr[p].jobj
        \/ tmp[p] # None /\ hdr'[p].jobj = tmp[p].jobj
    BY <1>2, <1>m DEF ControlForm, FailForm, DropForm, OpenForm, LoadForm, WriteForm,
                      AckForm, MetaInv
  <2>3. ASSUME NEW q \in Procs \ {p}, NEW u, Private(q, u)
        PROVE  Private(q, u)'
    BY <2>1, <2>2, <2>3 DEF Private
  <2>4. QED
    BY <1>1, <2>1, <2>3
<1>3. ASSUME NEW p \in Procs, NEW w \in Updates, UpdateForm(p, w)
      PROVE  PrivateInv'
  <2>1. /\ SameDisk /\ tmp' = tmp /\ w \notin issued
        /\ hdr[p] # None /\ hdr'[p].jobj = hdr[p].jobj \cup {w}
        /\ \A q \in Procs \ {p} : pc'[q] = pc[q] /\ hdr'[q] = hdr[q]
    BY <1>3 DEF UpdateForm
  <2>2. Private(p, w)' /\ w \in hdr'[p].jobj
    BY <2>1, <1>m DEF MetaInv, Private
  <2>3. ASSUME NEW q \in Procs \ {p}, pc'[q] = "writelock"
        PROVE  \E u \in hdr'[q].jobj : Private(q, u)'
    <3>1. PICK u \in hdr[q].jobj : Private(q, u)
      BY <2>1, <2>3, <1>m DEF PrivateInv
    <3>2. u # w
      BY <2>1, <2>3, <3>1, <1>m DEF MetaInv, LockInv
    <3>3. Private(q, u)'
      BY <2>1, <3>1, <3>2 DEF Private
    <3>4. QED
      BY <2>1, <3>1, <3>3
  <2>4. QED
    BY <2>2, <2>3 DEF PrivateInv
<1>4. ASSUME NEW p \in Procs, ReadForm(p)
      PROVE  PrivateInv'
  <2>1. /\ SameDisk /\ hdr' = hdr /\ pc'[p] # "writelock"
        /\ \A q \in Procs \ {p} : pc'[q] = pc[q] /\ tmp'[q] = tmp[q]
    BY <1>4 DEF ReadForm
  <2>2. tmp'[p] \in {None, tmp[p]} \/ \E c \in Copies : Reads(c, tmp'[p])
    BY <1>4 DEF ReadForm, Copies
  <2>3. ASSUME tmp'[p] # None
        PROVE  \/ tmp'[p] = tmp[p]
               \/ \E c \in Copies : \E b \in mbin[c] : b.csum # None /\ b.csum = tmp'[p].jobj
    BY <2>2, <2>3, <1>m, <1>n DEF Reads, Match, Valid, MetaInv
  <2>4. ASSUME NEW q \in Procs, NEW u, Private(q, u)
        PROVE  Private(q, u)'
    BY <2>1, <2>3, <2>4 DEF Private
  <2>5. QED
    BY <1>1, <2>1, <2>4
<1>5. ASSUME NEW p \in Procs, BinForm(p) \/ JsonForm(p) \/ CsumForm(p) \/ SyncForm(p)
      PROVE  PrivateInv'
  <2>1. /\ pc[p] \in Writing /\ pc'[p] # "writelock" /\ hdr' = hdr /\ tmp' = tmp
        /\ \A q \in Procs \ {p} : pc'[q] = pc[q]
    BY <1>5 DEF BinForm, JsonForm, CsumForm, SyncForm, DiskForm, Writing
  <2>2. ASSUME NEW q \in Procs \ {p}, NEW u, Private(q, u)
        PROVE  u \notin Out(p).jobj
    <3>1. op[p] = "read" => tmp[p] # None
      BY <2>1, <1>m DEF LockInv
    <3>2. op[p] # "read" => hdr[p] # None
      BY <1>m DEF LockInv, Parts
    <3>3. QED
      BY <2>2, <3>1, <3>2 DEF Private, Out
  <2>3. ASSUME NEW c \in Copies, NEW b \in mbin'[c]
        PROVE  b \in mbin[c] \/ b.csum \in {None, Out(p).jobj}
    <3>0. PICK t \in Copies, s \in Copies : t = target[p] /\ s = Other(target[p])
      BY <2>1, WritingFacts
    <3>1. c \in {t, s}
      BY <2>1, <3>0, WritingFacts
    <3>2. CASE BinForm(p) \/ CsumForm(p)
      BY <2>3, <3>0, <3>1, <3>2 DEF BinForm, CsumForm
    <3>3. CASE JsonForm(p)
      BY <2>3, <3>3 DEF JsonForm
    <3>4. CASE SyncForm(p)
      BY <2>3, <3>4, <1>m DEF SyncForm, MetaInv
    <3>5. QED
      BY <1>5, <3>2, <3>3, <3>4
  <2>4. ASSUME NEW c \in Copies, NEW j \in mjson'[c]
        PROVE  j \in mjson[c] \/ j \in {Torn, Out(p).jobj}
    <3>0. PICK t \in Copies, s \in Copies : t = target[p] /\ s = Other(target[p])
      BY <2>1, WritingFacts
    <3>1. c \in {t, s}
      BY <2>1, <3>0, WritingFacts
    <3>2. CASE BinForm(p) \/ CsumForm(p)
      BY <2>4, <3>2 DEF BinForm, CsumForm
    <3>3. CASE JsonForm(p)
      BY <2>4, <3>0, <3>1, <3>3 DEF JsonForm
    <3>4. CASE SyncForm(p)
      BY <2>4, <3>4, <1>m DEF SyncForm, MetaInv
    <3>5. QED
      BY <1>5, <3>2, <3>3, <3>4
  <2>5. ASSUME NEW q \in Procs \ {p}, NEW u, Private(q, u)
        PROVE  Private(q, u)'
    BY <2>1, <2>2, <2>3, <2>4, <2>5 DEF Private
  <2>6. QED
    BY <1>1, <2>1, <2>5
<1>6. CASE PowerForm
  BY <1>6 DEF PowerForm, PrivateInv
<1>7. CASE UNCHANGED vars
  BY <1>7, <1>m DEF vars, disk, ctx, PrivateInv, Private
<1>8. QED
  BY <1>2, <1>3, <1>4, <1>5, <1>6, <1>7 DEF StepForm

(* A context keeps naming the header it was loaded from by its sequence    *)
(* id, whatever is written or recovered meanwhile.                         *)
LEMMA LoadedStep ==
  ASSUME BaseInv, BaseInv', FaultInv, StepForm
  PROVE  LoadedInv'
<1> USE HeaderConstants DEF Others, SameDisk, SameHist
<1>m. LoadedInv /\ Parts /\ LockInv /\ WriteInv /\ StoreInv
  BY PartTypes DEF FaultInv, BaseInv
<1>c. 1 \in Copies /\ 2 \in Copies /\ \A c \in Copies : c \in {1, 2}
  BY DEF Copies
(* The context of p as before; only a writer of the secondary copy that    *)
(* is gone matters.                                                        *)
<1>1. ASSUME NEW p \in Procs, UNCHANGED <<bin, json>>, Loaded(p),
             hdr'[p].seqid = hdr[p].seqid, hdr'[p].rollback = hdr[p].rollback,
             \/ \A q \in Procs : pc[q] \in Writing /\ target[q] = 2 =>
                  pc'[q] \in Writing /\ target'[q] = 2
             \/ hdr[p].seqid # bin[1].seqid
             \/ \E q \in Procs : pc'[q] \in Writing /\ target'[q] = 2
             \/ Valid(2) /\ bin[2].seqid = bin[1].seqid
      PROVE  /\ \A c \in Copies : Valid(c)' /\ bin'[c].seqid = hdr'[p].seqid
                                    => json'[c] = hdr'[p].rollback
             /\ \E c \in Copies : Valid(c)' /\ hdr'[p].seqid <= bin'[c].seqid
             /\ /\ hdr'[p].seqid = bin'[1].seqid
                /\ \A q \in Procs : pc'[q] \in Writing => target'[q] # 2
                => Valid(2)' /\ bin'[2].seqid = hdr'[p].seqid
  <2>1. /\ \A c \in Copies : Valid(c) /\ bin[c].seqid = hdr[p].seqid
                               => json[c] = hdr[p].rollback
        /\ \E c \in Copies : Valid(c) /\ hdr[p].seqid <= bin[c].seqid
        /\ /\ hdr[p].seqid = bin[1].seqid
           /\ \A q \in Procs : pc[q] \in Writing => target[q] # 2
           => Valid(2) /\ bin[2].seqid = hdr[p].seqid
    BY <1>1, <1>m DEF LoadedInv
  <2>2. \A c \in Copies : Valid(c)' <=> Valid(c)
    BY <1>1 DEF Valid
  <2>3. /\ hdr'[p].seqid = bin'[1].seqid
        /\ \A q \in Procs : pc'[q] \in Writing => target'[q] # 2
        => Valid(2)' /\ bin'[2].seqid = hdr'[p].seqid
    BY <1>1, <1>c, <2>1, <2>2
  <2>4. QED
    BY <1>1, <2>1, <2>2, <2>3
<1>2. ASSUME NEW p \in Procs,
             \/ ControlForm(p) \/ FailForm(p) \/ ReadForm(p) \/ OpenForm(p)
             \/ WriteForm(p) \/ \E u \in Updates : UpdateForm(p, u)
      PROVE  LoadedInv'
  <2>1. UNCHANGED <<bin, json>> /\ pc[p] \notin Writing
    BY <1>2 DEF ControlForm, FailForm, ReadForm, OpenForm, WriteForm, UpdateForm, Writing
  <2>2. \A q \in Procs \ {p} : /\ op'[q] = op[q] /\ pc'[q] = pc[q] /\ hdr'[q] = hdr[q]
                               /\ target'[q] = target[q]
    BY <1>2 DEF ControlForm, FailForm, ReadForm, OpenForm, WriteForm, UpdateForm
  <2>3. Loaded(p)' => /\ Loaded(p) /\ hdr'[p].seqid = hdr[p].seqid
                      /\ hdr'[p].rollback = hdr[p].rollback
    BY <1>2, <1>m DEF ControlForm, FailForm, ReadForm, OpenForm, WriteForm, UpdateForm,
                Loaded, Writing, LockInv
  <2>4. \A q \in Procs : Loaded(q)' => /\ Loaded(q) /\ hdr'[q].seqid = hdr[q].seqid
                                       /\ hdr'[q].rollback = hdr[q].rollback
    BY <2>2, <2>3 DEF Loaded
  <2>5. QED
    BY <1>1, <2>1, <2>2, <2>4 DEF LoadedInv
<1>3. ASSUME NEW p \in Procs, DropForm(p)
      PROVE  LoadedInv'
  <2>1. /\ UNCHANGED <<bin, json>> /\ ~Loaded(p)' /\ pc'[p] = "idle"
        /\ \A q \in Procs \ {p} : /\ op'[q] = op[q] /\ pc'[q] = pc[q] /\ hdr'[q] = hdr[q]
                                  /\ target'[q] = target[q]
    BY <1>3 DEF DropForm, Loaded
  <2>2. \A q \in Procs : Loaded(q)' => Loaded(q) /\ q # p
    BY <2>1 DEF Loaded
  <2>3. CASE ~(pc[p] \in Writing /\ target[p] = 2)
    BY <1>1, <2>1, <2>2, <2>3 DEF LoadedInv
  <2>4. CASE pc[p] \in Writing /\ target[p] = 2
    <3>1. kills = 0
      BY <1>3, <2>4 DEF DropForm, Writing
    <3>2. op[p] = "read" => \A q \in Procs : hdr[q] = None
      BY <2>4, <3>1 DEF FaultInv, KillInv
    <3>3. op[p] = "write" => \A q \in Procs \ {p} : hdr[q] # None => hdr[q].seqid # bin[1].seqid
      <4>1. op[p] = "write" =>
              /\ bin[1].seqid = hdr[p].seqid /\ hdr[p] # None
              /\ \A q \in Procs \ {p} : hdr[q] # None => hdr[q].seqid < hdr[p].seqid
        BY <2>4, <1>m DEF WriteInv, StoreInv, Match, LockInv
      <4>2. QED
        BY <4>1, <1>m DEF Parts
    <3>4. \A q \in Procs : Loaded(q)' => hdr[q].seqid # bin[1].seqid
      BY <2>2, <3>2, <3>3, <1>m DEF Loaded, Parts
    <3>5. QED
      BY <1>1, <2>1, <2>2, <3>4 DEF LoadedInv
  <2>5. QED
    BY <2>3, <2>4
(* A context that is new, or was just stored. *)
<1>4. ASSUME NEW p \in Procs, LoadForm(p) \/ AckForm(p)
      PROVE  LoadedInv'
  <2>1. /\ UNCHANGED <<bin, json, target>> /\ pc[p] = "done" /\ pc'[p] = "idle"
        /\ \A q \in Procs \ {p} : op'[q] = op[q] /\ pc'[q] = pc[q] /\ hdr'[q] = hdr[q]
    BY <1>4 DEF LoadForm, AckForm
  <2>2. \A q \in Procs : pc'[q] \in Writing <=> pc[q] \in Writing
    BY <2>1 DEF Writing
  <2>3. \A q \in Procs \ {p} : Loaded(q)' => Loaded(q)
    BY <2>1 DEF Loaded
  <2>4. PICK h : /\ hdr'[p].seqid = h.seqid /\ hdr'[p].rollback = h.jobj
                 /\ \A c \in Copies : \/ Match(c, h)
                                      \/ \E q \in Procs : pc[q] \in Writing /\ target[q] = c
    <3>1. CASE LoadForm(p)
      BY <3>1 DEF LoadForm, FaultInv, ReadInv, Kept
    <3>2. CASE AckForm(p)
      BY <3>2, <1>m, <1>c DEF AckForm, StoreInv
    <3>3. QED
      BY <1>4, <3>1, <3>2
  <2>5. \E c \in Copies : Match(c, h)
    <3>1. ASSUME NEW q \in Procs, pc[q] \in Writing
          PROVE  \E c \in Copies : c # target[q]
      BY <1>c
    <3>2. ASSUME NEW q \in Procs, NEW r \in Procs, pc[q] \in Writing, pc[r] \in Writing
          PROVE  target[q] = target[r]
      BY <3>2, WritingFacts
    <3>3. QED
      BY <1>c, <2>4, <3>1, <3>2
  <2>6. PICK d \in Copies : Match(d, h)
    BY <2>5
  <2>7. /\ \A c \in Copies : Valid(c)' /\ bin'[c].seqid = hdr'[p].seqid
                                => json'[c] = hdr'[p].rollback
        /\ Valid(d)' /\ hdr'[p].seqid <= bin'[d].seqid
    <3>1. ASSUME NEW c \in Copies, Valid(c), bin[c].seqid = h.seqid
          PROVE  json[c] = h.jobj
      <4>1. Match(c, h)
        BY <2>6, <3>1, SameSeqid
      <4>2. QED
        BY <4>1 DEF Match
    <3>2. Valid(d) /\ bin[d].seqid = h.seqid /\ bin[d].seqid \in Nat
      BY <2>6, <1>m DEF Match, Valid, Parts
    <3>3. QED
      BY <2>1, <2>4, <3>1, <3>2 DEF Valid
  <2>8. (\A q \in Procs : pc'[q] \in Writing => target'[q] # 2)
          => Valid(2)' /\ bin'[2].seqid = hdr'[p].seqid
    BY <2>1, <2>2, <2>4, <1>c DEF Match, Valid
  <2>9. QED
    BY <1>1, <2>1, <2>2, <2>3, <2>7, <2>8 DEF LoadedInv
<1>5. ASSUME NEW p \in Procs, BinForm(p) \/ JsonForm(p) \/ CsumForm(p)
      PROVE  LoadedInv'
  <2>1. /\ pc[p] \in Writing /\ pc[p] # "sync" /\ pc'[p] \in Writing
        /\ op' = op /\ hdr' = hdr /\ target' = target
        /\ \A q \in Procs \ {p} : pc'[q] = pc[q]
    BY <1>5 DEF BinForm, JsonForm, CsumForm, DiskForm, Writing
  <2>0. PICK t \in Copies, s \in Copies : t = target[p] /\ s = Other(target[p])
    BY <2>1, WritingFacts
  <2> DEFINE o == Out(p)
  <2>2. /\ s # t /\ (\A c \in Copies : c \in {t, s}) /\ o.seqid \in Nat
        /\ Valid(s) /\ (Valid(t) => bin[t].seqid <= bin[s].seqid)
        /\ op[p] = "read" => Match(s, o)
    BY <2>0, <2>1, WritingFacts DEF FaultInv, RecoverInv, Recovering, Out
  <2>3. /\ bin'[s] = bin[s] /\ json'[s] = json[s] /\ bin'[t].seqid = o.seqid
        /\ Valid(t)' => json'[t] = o.jobj
    <3>1. /\ pc[p] \in {"json", "csum", "sync"} => bin[t].seqid = o.seqid
          /\ pc[p] \in {"csum", "sync"} => json[t] = o.jobj
      BY <2>0, <2>1, WritingFacts
    <3>n. json[t] # None
      <4>1. \A x \in {Torn} \cup SUBSET Updates : x # None
        OBVIOUS
      <4>2. QED
        BY <4>1, <1>m DEF Parts
    <3>2. CASE BinForm(p)
      BY <2>0, <3>2, <3>n DEF BinForm, Valid
    <3>3. CASE JsonForm(p)
      BY <2>0, <3>1, <3>3 DEF JsonForm, DiskForm
    <3>4. CASE CsumForm(p)
      BY <2>0, <3>1, <3>4 DEF CsumForm, DiskForm
    <3>5. QED
      BY <1>5, <3>2, <3>3, <3>4
  <2>4. op[p] = "write" =>
          \A q \in Procs : Loaded(q) => q # p /\ hdr[q].seqid < o.seqid
    BY <2>1, <1>m DEF WriteInv, Out, Loaded
  <2> HIDE DEF o
  <2>5. ASSUME NEW q \in Procs, Loaded(q)'
        PROVE  /\ \A c \in Copies : Valid(c)' /\ bin'[c].seqid = hdr[q].seqid
                                      => json'[c] = hdr[q].rollback
               /\ Valid(s)' /\ hdr[q].seqid <= bin'[s].seqid
               /\ /\ hdr[q].seqid = bin'[1].seqid
                  /\ \A r \in Procs : pc'[r] \in Writing => target'[r] # 2
                  => Valid(2)' /\ bin'[2].seqid = hdr[q].seqid
    <3>1. Loaded(q)
      BY <2>1, <2>5 DEF Loaded, Writing
    <3>2. /\ \A c \in Copies : Valid(c) /\ bin[c].seqid = hdr[q].seqid
                                 => json[c] = hdr[q].rollback
          /\ \E c \in Copies : Valid(c) /\ hdr[q].seqid <= bin[c].seqid
      BY <3>1, <1>m DEF LoadedInv
    <3>3. hdr[q].seqid \in Nat /\ \A c \in Copies : bin[c].seqid \in Nat
      BY <3>1, <1>m DEF Loaded, Parts
    <3>4. Valid(s)' /\ hdr[q].seqid <= bin'[s].seqid
      BY <2>2, <2>3, <3>2, <3>3 DEF Valid
    <3>5. Valid(t)' /\ bin'[t].seqid = hdr[q].seqid => json'[t] = hdr[q].rollback
      BY <2>2, <2>3, <2>4, <3>1, <3>2, <3>3, <1>m DEF Parts, Match
    <3>6. Valid(s)' /\ bin'[s].seqid = hdr[q].seqid => json'[s] = hdr[q].rollback
      BY <2>2, <2>3, <3>2
    <3>7. ASSUME hdr[q].seqid = bin'[1].seqid,
                 \A r \in Procs : pc'[r] \in Writing => target'[r] # 2
          PROVE  Valid(2)' /\ bin'[2].seqid = hdr[q].seqid
      <4>1. t = 1 /\ s = 2
        BY <2>0, <2>1, <2>2, <3>7, <1>c
      <4>2. op[p] = "read"
        BY <2>3, <2>4, <3>1, <3>3, <3>7, <4>1, <1>m DEF Parts
      <4>3. QED
        BY <2>2, <2>3, <3>4, <3>7, <4>1, <4>2 DEF Match
    <3>8. QED
      BY <2>2, <3>4, <3>5, <3>6, <3>7
  <2>6. QED
    BY <2>1, <2>5 DEF LoadedInv
<1>6. ASSUME NEW p \in Procs, SyncForm(p)
      PROVE  LoadedInv'
  <2>1. /\ UNCHANGED <<bin, json, op, hdr>> /\ pc[p] = "sync"
        /\ pc'[p] \in {"bin", "done"}
        /\ \A q \in Procs \ {p} : pc'[q] = pc[q] /\ target'[q] = target[q]
    BY <1>6 DEF SyncForm, DiskForm
  <2>2. \A q \in Procs : Loaded(q)' => Loaded(q)
    BY <2>1 DEF Loaded, Writing
  <2>3. pc[p] \in Writing /\ target[p] \in Copies
    BY <2>1, <1>m DEF Writing, Parts
  <2>4. CASE target[p] = 1
    <3>1. \A q \in Procs : pc[q] \in Writing => target[q] = 1
      BY <2>3, <2>4, WritingFacts
    <3>2. QED
      BY <1>1, <2>1, <2>2, <3>1 DEF LoadedInv
  <2>5. CASE target[p] = 2 /\ op[p] = "write"
    <3>1. /\ bin[1].seqid = hdr[p].seqid /\ hdr[p] # None
          /\ \A q \in Procs \ {p} : hdr[q] # None => hdr[q].seqid < hdr[p].seqid
      BY <2>3, <2>5, <1>m DEF WriteInv, StoreInv, Match, LockInv
    <3>2. \A q \in Procs : Loaded(q)' => hdr[q].seqid # bin[1].seqid
      BY <2>1, <2>2, <2>3, <2>5, <3>1, <1>m DEF Loaded, Parts
    <3>3. QED
      BY <1>1, <2>1, <2>2, <3>2 DEF LoadedInv
  <2>6. CASE target[p] = 2 /\ op[p] = "read"
    <3>1. PICK t \in Copies, s \in Copies :
           /\ t = target[p] /\ s = Other(t)
           /\ Match(s, tmp[p])
           /\ \/ Match(t, tmp[p])
              \/ \E q \in Procs \ {p} : pc[q] \in Writing /\ target[q] = t
      BY <2>1, <2>6, RecoveredCopy
    <3>2. t = 2 /\ s = 1
      BY <2>6, <3>1 DEF Other
    <3>3. \/ Valid(2) /\ bin[2].seqid = bin[1].seqid
          \/ \E q \in Procs : pc'[q] \in Writing /\ target'[q] = 2
      BY <2>1, <3>1, <3>2 DEF Match, Valid
    <3>4. QED
      BY <1>1, <2>1, <2>2, <3>3 DEF LoadedInv
  <2>7. QED
    BY <2>3, <2>4, <2>5, <2>6, <1>c, <1>m DEF Parts
<1>7. CASE PowerForm
  BY <1>7 DEF PowerForm, LoadedInv, Loaded
<1>8. CASE UNCHANGED vars
  BY <1>8, <1>m DEF vars, disk, ctx, LoadedInv, Loaded, Valid
<1>9. QED
  BY <1>2, <1>3, <1>4, <1>5, <1>6, <1>7, <1>8 DEF StepForm

(* While nobody has been killed, writers hold the lock exclusively. *)
LEMMA KillStep ==
  ASSUME BaseInv, BaseInv', FaultInv, StepForm
  PROVE  KillInv'
<1> USE HeaderConstants DEF Others, SameDisk, SameHist
<1>m. Parts /\ Parts' /\ LockInv /\ StoreInv
  BY PartTypes, PartTypesNext DEF FaultInv, BaseInv
<1>c. 1 \in Copies /\ 2 \in Copies /\ \A c \in Copies : c \in {1, 2}
  BY DEF Copies
<1> SUFFICES ASSUME kills' = 0
             PROVE  /\ \A p \in Procs :
                         /\ pc'[p] \in Writing => holds'[p] = "ex"
                         /\ pc'[p] = "read2" => Reads(1, tmp[p])'
                         /\ pc'[p] = "probe" => ~Agree'
                         /\ pc'[p] \in Writing /\ op'[p] = "read" =>
                              \A q \in Procs : hdr'[q] = None
                         /\ rwfd'[p] \/ hdr'[p] # None =>
                              Agree' \/ \E q \in Procs : pc'[q] \in Writing
                    /\ \A c \in Copies : Dirty(c)' =>
                         \E p \in Procs : pc'[p] \in {"json", "csum", "sync"}
                                          /\ target'[p] = c
  BY DEF KillInv
<1>k. kills = 0
  BY DEF StepForm, ControlForm, FailForm, DropForm, BinForm, JsonForm, CsumForm,
         SyncForm, DiskForm, ReadForm, OpenForm, LoadForm, WriteForm, AckForm,
         UpdateForm, PowerForm, vars, hist
<1>i. /\ \A p \in Procs :
           /\ pc[p] \in Writing => holds[p] = "ex"
           /\ pc[p] = "read2" => Reads(1, tmp[p])
           /\ pc[p] = "probe" => ~Agree
           /\ pc[p] \in Writing /\ op[p] = "read" => \A q \in Procs : hdr[q] = None
           /\ rwfd[p] \/ hdr[p] # None => Agree \/ \E q \in Procs : pc[q] \in Writing
      /\ \A c \in Copies : Dirty(c) =>
           \E p \in Procs : pc[p] \in {"json", "csum", "sync"} /\ target[p] = c
  BY <1>k DEF FaultInv, KillInv
(* A writer is alone. *)
<1>a. ASSUME NEW p \in Procs, pc[p] \in Writing
      PROVE  \A q \in Procs \ {p} : /\ holds[q] = "un"
                                    /\ pc[q] \notin Writing \cup {"read2", "probe", "done"}
  BY <1>a, <1>i, <1>m DEF LockInv, Writing
<1>1. ASSUME SameDisk
      PROVE  /\ Agree' <=> Agree
             /\ \A c \in Copies : Dirty(c)' <=> Dirty(c)
             /\ \A q \in Procs : tmp'[q] = tmp[q] => (Reads(1, tmp[q]) => Reads(1, tmp[q])')
  BY <1>1 DEF Agree, Dirty, Valid, Reads, Match
<1>2. ASSUME NEW p \in Procs, SameDisk, pc[p] \notin Writing,
             \A q \in Procs \ {p} :
               /\ pc'[q] = pc[q] /\ op'[q] = op[q] /\ tmp'[q] = tmp[q] /\ hdr'[q] = hdr[q]
               /\ target'[q] = target[q] /\ holds'[q] = holds[q] /\ rwfd'[q] = rwfd[q],
             pc'[p] \in Writing => holds'[p] = "ex",
             pc'[p] = "read2" => Reads(1, tmp[p])',
             pc'[p] = "probe" => ~Agree,
             pc'[p] \in Writing /\ op'[p] = "read" => \A q \in Procs : hdr'[q] = None,
             (\E q \in Procs : pc[q] \in Writing /\ op[q] = "read") => hdr'[p] = None,
             rwfd'[p] \/ hdr'[p] # None => Agree \/ \E q \in Procs : pc'[q] \in Writing
      PROVE  KillInv'
  <2>1. \A q \in Procs : pc[q] \in Writing => q # p /\ pc'[q] = pc[q]
    BY <1>2
  <2>2. \A q \in Procs \ {p} :
          /\ pc'[q] \in Writing => holds'[q] = "ex"
          /\ pc'[q] = "read2" => Reads(1, tmp[q])'
          /\ pc'[q] = "probe" => ~Agree'
          /\ pc'[q] \in Writing /\ op'[q] = "read" => \A r \in Procs : hdr'[r] = None
    BY <1>1, <1>2, <1>i
  <2>3. \A q \in Procs \ {p} : rwfd'[q] \/ hdr'[q] # None =>
          Agree' \/ \E r \in Procs : pc'[r] \in Writing
    BY <1>1, <1>2, <1>i, <2>1
  <2>4. \A c \in Copies : Dirty(c)' =>
          \E r \in Procs : pc'[r] \in {"json", "csum", "sync"} /\ target'[r] = c
    BY <1>1, <1>2, <1>i DEF Writing
  <2>5. rwfd'[p] \/ hdr'[p] # None => Agree' \/ \E q \in Procs : pc'[q] \in Writing
    BY <1>1, <1>2
  <2>6. QED
    BY <1>1, <1>2, <2>2, <2>3, <2>4, <2>5 DEF KillInv
<1>3. ASSUME NEW p \in Procs, ControlForm(p) \/ FailForm(p) \/ \E u \in Updates : UpdateForm(p, u)
      PROVE  KillInv'
  <2>1. /\ SameDisk /\ pc[p] \notin Writing /\ rwfd' = rwfd
        /\ pc'[p] \notin Writing \cup {"read2", "probe"}
        /\ \A q \in Procs \ {p} : /\ pc'[q] = pc[q] /\ op'[q] = op[q] /\ tmp'[q] = tmp[q]
                                  /\ hdr'[q] = hdr[q] /\ target'[q] = target[q]
                                  /\ holds'[q] = holds[q]
    BY <1>3 DEF ControlForm, FailForm, UpdateForm, Writing
  <2>2. hdr'[p] # None => hdr[p] # None
    BY <1>3 DEF ControlForm, FailForm, UpdateForm
  <2>3. rwfd'[p] \/ hdr'[p] # None => Agree \/ \E q \in Procs : pc'[q] \in Writing
    BY <1>i, <2>1, <2>2
  <2>4. QED
    BY <1>2, <1>i, <2>1, <2>2, <2>3
<1>4. ASSUME NEW p \in Procs, DropForm(p)
      PROVE  KillInv'
  <2>1. /\ SameDisk /\ pc[p] = "idle" /\ pc'[p] = "idle" /\ hdr'[p] = None
        /\ \A q \in Procs \ {p} : /\ pc'[q] = pc[q] /\ op'[q] = op[q] /\ tmp'[q] = tmp[q]
                                  /\ hdr'[q] = hdr[q] /\ target'[q] = target[q]
                                  /\ holds'[q] = holds[q] /\ rwfd'[q] = rwfd[q]
    BY <1>4 DEF DropForm
  <2>2. ~rwfd'[p]
    BY <1>4 DEF DropForm
  <2>3. pc[p] \notin Writing /\ pc'[p] \notin Writing
    BY <2>1 DEF Writing
  <2>4. QED
    BY <1>2, <2>1, <2>2, <2>3
<1>5. ASSUME NEW p \in Procs, ReadForm(p)
      PROVE  KillInv'
  <2>1. /\ SameDisk /\ pc[p] \in {"read1", "read2"} /\ hdr' = hdr /\ rwfd' = rwfd
        /\ pc'[p] \notin Writing
        /\ \A q \in Procs \ {p} : /\ pc'[q] = pc[q] /\ op'[q] = op[q] /\ tmp'[q] = tmp[q]
                                  /\ target'[q] = target[q] /\ holds'[q] = holds[q]
    BY <1>5 DEF ReadForm, Writing
  <2>2. pc'[p] = "read2" => Reads(1, tmp[p])'
    BY <1>5 DEF ReadForm, Reads, Match, Valid
  <2>3. pc'[p] = "probe" => ~Agree
    <3>1. pc'[p] = "probe" => pc[p] = "read2"
      BY <1>5 DEF ReadForm
    <3>2. QED
      BY <1>5, <1>i, <3>1, ProbeFacts
  <2>4. pc[p] \notin Writing
    BY <2>1 DEF Writing
  <2>5. rwfd'[p] \/ hdr'[p] # None => Agree \/ \E q \in Procs : pc'[q] \in Writing
    BY <1>i, <2>1, <2>4
  <2>6. QED
    BY <1>2, <1>i, <2>1, <2>2, <2>3, <2>4, <2>5
<1>6. ASSUME NEW p \in Procs, OpenForm(p)
      PROVE  KillInv'
  <2>1. /\ SameDisk /\ pc[p] = "probe" /\ pc'[p] = "bin" /\ hdr' = hdr /\ tmp' = tmp
        /\ target' = target /\ op' = op /\ holds' = holds
        /\ \A q \in Procs \ {p} : pc'[q] = pc[q] /\ rwfd'[q] = rwfd[q]
    BY <1>6 DEF OpenForm
  (* No header is written, and the copies differ: nobody has loaded one. *)
  <2>2. ~Agree /\ \A q \in Procs : pc[q] \notin Writing
    BY <1>a, <1>i, <2>1 DEF Writing
  <2>3. \A q \in Procs : ~rwfd[q] /\ hdr[q] = None
    BY <1>i, <2>2
  <2>4. holds[p] = "ex"
    BY <1>6, <2>3 DEF OpenForm
  <2>5. pc[p] \notin Writing /\ pc'[p] \in Writing
    BY <2>1 DEF Writing
  <2>6. QED
    BY <1>2, <2>1, <2>3, <2>4, <2>5
<1>7. ASSUME NEW p \in Procs, LoadForm(p) \/ AckForm(p)
      PROVE  KillInv'
  <2>1. /\ SameDisk /\ pc[p] = "done" /\ pc'[p] = "idle" /\ rwfd' = rwfd
        /\ \A q \in Procs \ {p} : /\ pc'[q] = pc[q] /\ op'[q] = op[q] /\ tmp'[q] = tmp[q]
                                  /\ hdr'[q] = hdr[q] /\ target'[q] = target[q]
                                  /\ holds'[q] = holds[q]
    BY <1>7 DEF LoadForm, AckForm
  <2>2. \A q \in Procs : pc[q] \notin Writing
    BY <1>a, <2>1 DEF Writing
  <2>3. PICK h : Match(1, h) /\ Match(2, h)
    <3>1. CASE LoadForm(p)
      BY <2>2, <3>1, <1>c DEF LoadForm, FaultInv, ReadInv, Kept
    <3>2. CASE AckForm(p)
      BY <3>2, <1>m DEF AckForm, StoreInv
    <3>3. QED
      BY <1>7, <3>1, <3>2
  <2>4. Agree
    BY <2>3 DEF Agree, Match, Valid
  <2>5. pc[p] \notin Writing /\ pc'[p] \notin Writing
    BY <2>1 DEF Writing
  <2>6. QED
    BY <1>2, <2>1, <2>2, <2>4, <2>5
<1>8. ASSUME NEW p \in Procs, WriteForm(p)
      PROVE  KillInv'
  <2>1. /\ SameDisk /\ pc[p] = "writelock" /\ pc'[p] = "bin" /\ tmp' = tmp
        /\ op' = op /\ holds'[p] = "ex"
        /\ \A q \in Procs \ {p} : /\ pc'[q] = pc[q] /\ hdr'[q] = hdr[q]
                                  /\ target'[q] = target[q] /\ holds'[q] = holds[q]
                                  /\ rwfd'[q] = rwfd[q]
    BY <1>8 DEF WriteForm
  <2>2. \A q \in Procs : pc[q] \notin Writing
    BY <1>8, <1>m DEF WriteForm, LockInv, Writing
  <2>3. pc[p] \notin Writing /\ pc'[p] \in Writing /\ op'[p] # "read"
    BY <2>1, <1>m DEF LockInv, Writing
  <2>4. QED
    BY <1>2, <2>1, <2>2, <2>3
<1>9. ASSUME NEW p \in Procs, pc[p] \in Writing, op' = op, hdr' = hdr, holds' = holds,
             \A q \in Procs \ {p} : pc'[q] = pc[q],
             pc'[p] \in Writing \cup {"done"},
             pc'[p] = "done" => Agree',
             \A c \in Copies : Dirty(c)' =>
               \E q \in Procs : pc'[q] \in {"json", "csum", "sync"} /\ target'[q] = c
      PROVE  KillInv'
  <2>1. \A q \in Procs \ {p} : pc'[q] \notin Writing \cup {"read2", "probe"}
    BY <1>9, <1>a
  <2>2. pc'[p] \notin {"read2", "probe"} /\ (pc'[p] \in Writing => holds'[p] = "ex")
    BY <1>9, <1>i DEF Writing
  <2>3. op'[p] = "read" => \A q \in Procs : hdr'[q] = None
    BY <1>9, <1>i
  <2>4. Agree' \/ \E q \in Procs : pc'[q] \in Writing
    BY <1>9
  <2>5. QED
    BY <1>9, <2>1, <2>2, <2>3, <2>4 DEF KillInv
<1>10. ASSUME NEW p \in Procs, BinForm(p) \/ JsonForm(p) \/ CsumForm(p)
       PROVE  KillInv'
  <2>1. /\ pc[p] \in Writing /\ pc'[p] \in {"json", "csum", "sync"}
        /\ op' = op /\ hdr' = hdr /\ holds' = holds /\ target' = target
        /\ \A q \in Procs \ {p} : pc'[q] = pc[q]
    BY <1>10 DEF BinForm, JsonForm, CsumForm, DiskForm, Writing
  <2>0. PICK t \in Copies, s \in Copies : t = target[p] /\ s = Other(target[p])
    BY <2>1, WritingFacts
  <2>2. \A c \in Copies : c \in {t, s}
    BY <2>0, <2>1, WritingFacts
  <2>3. Dirty(s)' => Dirty(s)
    BY <1>10, <2>0 DEF BinForm, JsonForm, CsumForm, Dirty
  <2>4. Dirty(s) => \E q \in Procs \ {p} : pc'[q] \in {"json", "csum", "sync"} /\ target'[q] = s
    <3>1. s # t
      BY <2>0, <2>1, WritingFacts
    <3>2. QED
      BY <1>i, <2>0, <2>1, <3>1
  <2>5. \A c \in Copies : Dirty(c)' =>
          \E q \in Procs : pc'[q] \in {"json", "csum", "sync"} /\ target'[q] = c
    BY <2>0, <2>1, <2>2, <2>3, <2>4
  <2>6. pc'[p] \in Writing /\ pc'[p] # "done"
    BY <2>1 DEF Writing
  <2>7. QED
    BY <1>9, <2>1, <2>5, <2>6
<1>11. ASSUME NEW p \in Procs, SyncForm(p)
       PROVE  KillInv'
  <2>1. /\ UNCHANGED <<bin, json, op, hdr, holds>> /\ pc[p] = "sync"
        /\ pc'[p] \in {"bin", "done"}
        /\ \A q \in Procs \ {p} : pc'[q] = pc[q]
        /\ \A c \in Copies : mbin'[c] = {bin[c]} /\ mjson'[c] = {json[c]}
    BY <1>11 DEF SyncForm, DiskForm
  <2>2. pc[p] \in Writing /\ pc'[p] \in Writing \cup {"done"}
    BY <2>1 DEF Writing
  <2>3. \A c \in Copies : ~Dirty(c)'
    BY <2>1 DEF Dirty
  <2>4. ASSUME pc'[p] = "done"
        PROVE  Agree'
    <3>1. PICK h : Match(1, h) /\ Match(2, h)
      <4>1. CASE op[p] = "write"
        <5>1. target[p] = 2
          BY <1>11, <2>4, <4>1, <1>m, <1>c DEF SyncForm, DiskForm, Parts
        <5>2. QED
          BY <2>1, <2>2, <4>1, <5>1, <1>m DEF StoreInv
      <4>2. CASE op[p] = "read"
        BY <1>a, <2>1, <2>2, <4>2, <1>c, RecoveredCopy
      <4>3. QED
        BY <4>1, <4>2, <1>m DEF Parts
    <3>2. QED
      BY <2>1, <3>1 DEF Agree, Match, Valid
  <2>5. QED
    BY <1>9, <2>1, <2>2, <2>3, <2>4
<1>12. CASE PowerForm
  <2>1. \A p \in Procs : pc'[p] = "idle" /\ hdr'[p] = None
    BY <1>12 DEF PowerForm
  <2>2. \A p \in Procs : ~rwfd'[p]
    BY <1>12 DEF PowerForm
  <2>3. \A c \in Copies : ~Dirty(c)'
    BY <1>12 DEF PowerForm, Dirty
  <2>4. QED
    BY <2>1, <2>2, <2>3 DEF Writing
<1>13. CASE UNCHANGED vars
  BY <1>13, <1>i DEF vars, disk, ctx, Agree, Dirty, Reads, Match, Valid
<1>14. QED
  BY <1>3, <1>4, <1>5, <1>6, <1>7, <1>8, <1>10, <1>11, <1>12, <1>13 DEF StepForm, KillInv

-----------------------------------------------------------------------------
(* The device after luksFormat satisfies the invariant. *)
LEMMA FaultInit == Init => FaultInv
<1> SUFFICES ASSUME Init PROVE FaultInv
  OBVIOUS
<1> USE HeaderConstants
<1>1. /\ \A c \in Copies : /\ bin[c].seqid = FormatSeqid /\ bin[c].uuid = None
                           /\ bin[c].csum = {} /\ json[c] = {}
                           /\ mbin[c] = {bin[c]} /\ mjson[c] = {{}}
      /\ acked = {} /\ kills = 0
  BY DEF Init
<1>2. \A p \in Procs : /\ pc[p] = "idle" /\ op[p] = "read"
                       /\ hdr[p] = None /\ tmp[p] = None
  BY DEF Init
<1>3. \A p \in Procs : ~rwfd[p]
  BY DEF Init
<1>4. \A c \in Copies : Valid(c) /\ ~Dirty(c)
  BY <1>1 DEF Valid, Dirty
<1>5. 1 \in Copies /\ 2 \in Copies
  BY DEF Copies
<1>6. MetaInv /\ ValidInv
  BY <1>1, <1>2, <1>4, <1>5 DEF MetaInv, ValidInv
<1>7. ChainInv
  BY <1>1, <1>4 DEF ChainInv, Stored, FormatSeqid
<1>8. RecoverInv /\ ReadInv /\ WriteInv /\ PrivateInv /\ LoadedInv
  BY <1>2 DEF RecoverInv, ReadInv, WriteInv, PrivateInv, LoadedInv, Recovering, Loaded,
              Writing
<1>9. KillInv
  BY <1>2, <1>3, <1>4 DEF KillInv, Writing
<1>10. QED
  BY <1>6, <1>7, <1>8, <1>9 DEF FaultInv

(* The inductive invariant: with the faults that the header tolerates,     *)
(* every copy, lock holder and context is where the code expects it.       *)
THEOREM HeaderInvariant == Spec => []HeaderInv
<1>1. Init => (Tolerated => FaultInv)
  BY FaultInit
<1>2. BaseInv /\ BaseInv' /\ (Tolerated => FaultInv) /\ [Next]_vars
        => (Tolerated => FaultInv)'
  <2> SUFFICES ASSUME BaseInv, BaseInv', Tolerated => FaultInv, [Next]_vars, Tolerated'
               PROVE  FaultInv'
    OBVIOUS
  <2>1. Tolerated /\ FaultInv
    BY ToleratedBefore DEF BaseInv
  <2>2. StepForm
    BY <2>1, StepForms DEF FaultInv
  <2>3. QED
    BY <2>1, <2>2, MetaStep, ChainStep, ValidStep, RecoverStep, ReadStep,
       WriteInvStep, PrivateStep, LoadedStep, KillStep DEF FaultInv
<1>3. QED
  BY <1>1, <1>2, HeaderBaseInvariant, PTL DEF Spec, HeaderInv

(* docs/on-disk-format-luks2.pdf: whatever interrupts an update or a       *)
(* recovery, one of the two headers is valid.  For any number of           *)
(* processes, updates and power failures, and the faults of Tolerated.     *)
THEOREM HeaderSurvives == Spec => [](Tolerated => SomeHeaderValid)
<1>1. HeaderInv => (Tolerated => SomeHeaderValid)
  BY DEF HeaderInv, FaultInv, ValidInv, SomeHeaderValid
<1>2. QED
  BY <1>1, HeaderInvariant, PTL

(* LUKS2_disk_hdr_read uses a good copy, and no other one is newer. *)
CurrentIsNewest ==
  /\ Current # None
  /\ \E c \in Copies :
       /\ Valid(c) /\ Current.jobj = json[c] /\ json[c] \in SUBSET Updates
       /\ bin[c].csum = json[c]
       /\ \A d \in Copies : Valid(d) => bin[d].seqid <= bin[c].seqid

(* When a copy is good, the header that is used is the newest good one. *)
LEMMA CurrentHeader == BaseInv /\ SomeHeaderValid => CurrentIsNewest
<1> SUFFICES ASSUME BaseInv, SomeHeaderValid PROVE CurrentIsNewest
  OBVIOUS
<1>c. 1 \in Copies /\ 2 \in Copies /\ \A c \in Copies : c \in {1, 2}
  BY DEF Copies
<1>1. \A c \in Copies :
        /\ Version(c) # None <=> Valid(c)
        /\ Valid(c) => /\ Version(c).seqid = bin[c].seqid /\ Version(c).jobj = json[c]
                       /\ json[c] \in SUBSET Updates
  BY VersionType DEF BaseInv, Version
<1>2. Valid(1) \/ Valid(2)
  BY <1>c DEF SomeHeaderValid
<1>3. bin[1].seqid \in Nat /\ bin[2].seqid \in Nat
  BY PartTypes, <1>c DEF Parts
<1> DEFINE u == Usable(Version(1), Version(2))
<1>4. u \in Copies /\ Current = Version(u)
  BY DEF Current, Usable, Copies
<1>5. Valid(u) /\ \A d \in Copies : Valid(d) => bin[d].seqid <= bin[u].seqid
  BY <1>1, <1>2, <1>3, <1>c DEF Usable
<1> HIDE DEF u
<1>6. QED
  BY <1>1, <1>4, <1>5 DEF Valid, CurrentIsNewest

(* A reader never misses an update that LUKS2_hdr_write reported as        *)
(* stored.                                                                 *)
THEOREM UpdatesSurvive == Spec => [](Tolerated => NoLostUpdate)
<1>1. HeaderInv => (Tolerated => NoLostUpdate)
  <2> SUFFICES ASSUME BaseInv, FaultInv, SomeHeaderValid
               PROVE  acked \subseteq Current.jobj
    BY DEF HeaderInv, NoLostUpdate
  <2>1. PICK c \in Copies : Valid(c) /\ Current.jobj = json[c] /\ bin[c].csum = json[c]
    BY CurrentHeader DEF CurrentIsNewest
  <2>2. bin[c] \in Stored(c)
    BY <2>1 DEF Stored, FaultInv, MetaInv
  <2>3. QED
    BY <2>1, <2>2 DEF FaultInv, ChainInv
<1>2. QED
  BY <1>1, HeaderInvariant, PTL

(* LUKS2_check_sequence_id identifies the header: a context that passes it *)
(* holds exactly the header that is current.                               *)
THEOREM SequenceIdIsSound == Spec => [](Tolerated => SeqidIdentifiesHeader)
<1>1. HeaderInv => (Tolerated => SeqidIdentifiesHeader)
  <2> SUFFICES ASSUME BaseInv, FaultInv, NEW p \in Procs,
                      pc[p] = "idle", hdr[p] # None, hdr[p].seqid = bin[1].seqid,
                      \A q \in Procs : holds[q] # "ex"
               PROVE  Current # None /\ hdr[p].rollback = Current.jobj
    BY DEF HeaderInv, SeqidIdentifiesHeader
  <2>c. 1 \in Copies /\ 2 \in Copies /\ \A c \in Copies : c \in {1, 2}
    BY DEF Copies
  <2>1. SomeHeaderValid
    BY DEF FaultInv, ValidInv, SomeHeaderValid
  <2>2. PICK c \in Copies :
          /\ Valid(c) /\ Current.jobj = json[c] /\ Current # None
          /\ \A d \in Copies : Valid(d) => bin[d].seqid <= bin[c].seqid
    BY <2>1, CurrentHeader DEF CurrentIsNewest
  <2>3. Loaded(p)
    BY DEF Loaded, Writing
  <2>4. bin[1].seqid \in Nat /\ bin[2].seqid \in Nat
    BY <2>c, PartTypes DEF Parts
  <2>5. bin[c].seqid = hdr[p].seqid
    <3>1. CASE \A q \in Procs : pc[q] \in Writing => target[q] # 2
      <4>1. Valid(2) /\ bin[2].seqid = hdr[p].seqid
        BY <2>3, <3>1 DEF FaultInv, LoadedInv
      <4>2. QED
        BY <2>2, <2>4, <2>c, <4>1
    <3>2. CASE \E q \in Procs : pc[q] \in Writing /\ target[q] = 2
      <4>1. PICK q \in Procs : pc[q] \in Writing /\ target[q] = 2
        BY <3>2
      <4>2. op[q] = "read"
        BY <4>1, PartTypes DEF BaseInv, LockInv, Parts, Writing
      <4>3. Match(1, tmp[q]) /\ (Valid(2) => bin[2].seqid <= tmp[q].seqid)
        BY <4>1, <4>2 DEF FaultInv, RecoverInv, Recovering, Other
      <4>4. Valid(1) /\ (Valid(2) => bin[2].seqid <= bin[1].seqid)
        BY <4>3 DEF Match, Valid
      <4>5. QED
        BY <2>2, <2>4, <2>c, <4>4
    <3>3. QED
      BY <3>1, <3>2
  <2>6. QED
    BY <2>2, <2>3, <2>5 DEF FaultInv, LoadedInv
<1>2. QED
  BY <1>1, HeaderInvariant, PTL

(* A load that succeeds while no other copy is being written leaves two    *)
(* good and equal copies, recovery by several readers at once included.    *)
THEOREM LoadIsRedundant == Spec /\ []Tolerated => LoadRestoresRedundancy
<1>1. HeaderInv /\ Tolerated /\ [Next]_vars =>
        [\A p \in Procs :
           LoadDone(p) /\ (\A q \in Procs \ {p} : pc[q] \notin {"bin", "json", "csum"})
           => Version(1) # None /\ Version(1) = Version(2)]_vars
  <2> SUFFICES ASSUME BaseInv, FaultInv, NEW p \in Procs, LoadDone(p),
                      \A q \in Procs \ {p} : pc[q] \notin {"bin", "json", "csum"}
               PROVE  Version(1) # None /\ Version(1) = Version(2)
    BY DEF HeaderInv
  <2>c. 1 \in Copies /\ 2 \in Copies /\ \A c \in Copies : c \in {1, 2}
    BY DEF Copies
  <2>1. pc[p] = "done" /\ op[p] = "read" /\ holds[p] # "un"
    BY DEF LoadDone, Goto, BaseInv, LockInv
  <2>2. \A q \in Procs : pc[q] \in Writing => pc[q] = "sync" /\ q # p
    BY <2>1 DEF Writing
  <2>3. Kept(p)
    BY <2>1 DEF FaultInv, ReadInv
  <2>4. \A c \in Copies : Match(c, tmp[p])
    <3>1. CASE \A q \in Procs : pc[q] \notin Writing
      BY <2>3, <3>1 DEF Kept
    <3>2. CASE \E q \in Procs : pc[q] \in Writing
      <4>1. PICK q \in Procs : pc[q] \in Writing
        BY <3>2
      <4>2. pc[q] = "sync" /\ op[q] = "read"
        BY <2>1, <2>2, <4>1, PartTypes DEF BaseInv, LockInv, Parts
      <4>3. Recovering(q)
        BY <4>1, <4>2 DEF Recovering
      <4>4. PICK t \in Copies, s \in Copies :
              /\ t = target[q] /\ s = Other(t) /\ s # t /\ \A c \in Copies : c \in {t, s}
              /\ Match(s, tmp[q])
              /\ \A r \in Procs : pc[r] \in Writing \cup {"probe"} => target[r] = t
        BY <4>2, RecoveredCopy
      <4>5. bin[t].seqid = tmp[q].seqid /\ bin[t].csum = tmp[q].jobj /\ json[t] = tmp[q].jobj
        BY <2>1, <2>2, <4>2, <4>3, <4>4 DEF FaultInv, RecoverInv, Writing
      <4>6. Valid(t) /\ bin[t].seqid = tmp[q].seqid
        BY <4>5 DEF Valid
      <4>7. Match(t, tmp[q])
        BY <4>4, <4>6, SameSeqid
      <4>8. Match(s, tmp[p])
        BY <2>3, <4>4 DEF Kept
      <4>9. QED
        BY <4>4, <4>7, <4>8 DEF Match
    <3>3. QED
      BY <3>1, <3>2
  <2>5. Valid(1) /\ Version(1) = Version(2)
    BY <2>4, <2>c DEF Match, Version, Valid
  <2>6. QED
    BY <2>5, <2>c, VersionType DEF BaseInv
<1>2. QED
  BY <1>1, HeaderInvariant, PTL DEF Spec, LoadRestoresRedundancy

-----------------------------------------------------------------------------
(* The header store implements MetadataRegister. *)

(* A good copy s that the other copy t is not newer than holds the header  *)
(* that is used.                                                           *)
CurrentAt ==
  \A s, t \in Copies :
    /\ \A c \in Copies : c \in {t, s}
    /\ Valid(s) /\ (Valid(t) => bin[t].seqid <= bin[s].seqid)
    => SomeHeaderValid /\ Current.jobj = json[s] /\ json[s] \in SUBSET Updates

(* Copies with the same sequence id are equal, so the choice between them  *)
(* does not matter.                                                        *)
LEMMA CurrentIs == BaseInv /\ FaultInv => CurrentAt
<1> SUFFICES ASSUME BaseInv, FaultInv, NEW s \in Copies, NEW t \in Copies,
                    \A c \in Copies : c \in {t, s},
                    Valid(s), Valid(t) => bin[t].seqid <= bin[s].seqid
             PROVE  SomeHeaderValid /\ Current.jobj = json[s] /\ json[s] \in SUBSET Updates
  BY DEF CurrentAt
<1>1. SomeHeaderValid
  BY DEF SomeHeaderValid
<1>2. PICK c \in Copies :
        /\ Valid(c) /\ Current.jobj = json[c] /\ json[c] \in SUBSET Updates
        /\ \A d \in Copies : Valid(d) => bin[d].seqid <= bin[c].seqid
  BY <1>1, CurrentHeader DEF CurrentIsNewest
<1>3. \A d \in Copies : bin[d].seqid \in Nat
  BY PartTypes DEF Parts
<1>4. bin[c].seqid = bin[s].seqid
  BY <1>2, <1>3
<1>5. bin[c] \in Stored(c) /\ bin[s] \in Stored(s)
  BY <1>2 DEF Stored, Valid, FaultInv, MetaInv
<1>6. bin[c].csum \subseteq bin[s].csum /\ bin[s].csum \subseteq bin[c].csum
  BY <1>3, <1>4, <1>5 DEF FaultInv, ChainInv
<1>7. bin[c].csum = bin[s].csum
  BY <1>6
<1>8. json[c] = json[s]
  BY <1>2, <1>7 DEF Valid
<1>9. QED
  BY <1>1, <1>2, <1>8

(* Every step of the processes and the environment is a step of the        *)
(* register, or leaves it alone: the header changes for a reader when the  *)
(* checksum of a new primary header is written.                            *)
LEMMA RegisterStep ==
  ASSUME BaseInv, BaseInv', FaultInv, FaultInv', StepForm
  PROVE  [Register!Next]_<<IF SomeHeaderValid THEN Current.jobj ELSE None,
                           acked, powerfails>>
<1> DEFINE value == IF SomeHeaderValid THEN Current.jobj ELSE None
<1> USE DEF SameDisk, SameHist
<1>n. CurrentAt /\ CurrentAt'
  <2>1. CurrentAt
    BY CurrentIs
  <2>2. BaseInv' /\ FaultInv' => CurrentAt'
    BY CurrentIs, PTL
  <2>3. QED
    BY <2>1, <2>2
<1>m. SomeHeaderValid /\ SomeHeaderValid' /\ CurrentIsNewest /\ CurrentIsNewest'
  <2>1. SomeHeaderValid /\ SomeHeaderValid'
    BY DEF FaultInv, ValidInv, SomeHeaderValid
  <2>2. BaseInv' /\ SomeHeaderValid' => CurrentIsNewest'
    BY CurrentHeader, PTL
  <2>3. QED
    BY <2>1, <2>2, CurrentHeader
<1>v. value = Current.jobj /\ value' = (Current.jobj)'
  BY <1>m
<1> HIDE DEF value
<1>1. ASSUME UNCHANGED <<bin, json, acked, powerfails>>
      PROVE  UNCHANGED <<value, acked, powerfails>>
  BY <1>1, <1>v DEF Current, Version, Valid
<1>2. ASSUME NEW p \in Procs,
             \/ ControlForm(p) \/ FailForm(p) \/ DropForm(p) \/ ReadForm(p)
             \/ OpenForm(p) \/ LoadForm(p) \/ WriteForm(p) \/ SyncForm(p)
             \/ \E u \in Updates : UpdateForm(p, u)
      PROVE  UNCHANGED <<value, acked, powerfails>>
  BY <1>1, <1>2 DEF ControlForm, FailForm, DropForm, ReadForm, OpenForm, LoadForm,
                    WriteForm, SyncForm, DiskForm, UpdateForm
<1>3. ASSUME NEW p \in Procs, AckForm(p)
      PROVE  /\ value' = value /\ acked' \in SUBSET value /\ acked \subseteq acked'
             /\ powerfails' = powerfails
  <2>1. Match(1, hdr[p]) /\ Match(2, hdr[p])
    BY <1>3 DEF AckForm, BaseInv, StoreInv
  <2>2. /\ UNCHANGED <<bin, json, powerfails>> /\ acked' = acked \cup hdr[p].jobj
    BY <1>3 DEF AckForm
  <2>3. PICK c \in Copies : Valid(c) /\ Current.jobj = json[c] /\ bin[c].csum = json[c]
    BY <1>m DEF CurrentIsNewest
  <2>4. value = hdr[p].jobj
    BY <1>v, <2>1, <2>3 DEF Match, Copies
  <2>5. acked \subseteq value
    BY <1>v, <2>3 DEF FaultInv, ChainInv, MetaInv, Stored
  <2>6. value' = value
    BY <1>v, <2>2 DEF Current, Version, Valid
  <2>7. QED
    BY <2>2, <2>4, <2>5, <2>6
<1>4. ASSUME NEW p \in Procs, BinForm(p) \/ JsonForm(p) \/ CsumForm(p)
      PROVE  /\ value' \in SUBSET Updates /\ value \subseteq value'
             /\ UNCHANGED <<acked, powerfails>>
  <2>1. pc[p] \in Writing /\ pc[p] # "sync" /\ UNCHANGED <<acked, powerfails>>
    BY <1>4 DEF BinForm, JsonForm, CsumForm, DiskForm, Writing
  <2>0. PICK t \in Copies, s \in Copies : t = target[p] /\ s = Other(target[p])
    BY <2>1, WritingFacts
  <2> DEFINE o == Out(p)
  <2>2. /\ s # t /\ (\A c \in Copies : c \in {t, s}) /\ o.seqid \in Nat
        /\ Valid(s) /\ (Valid(t) => bin[t].seqid <= bin[s].seqid)
        /\ \/ Match(s, o)
           \/ bin[s].seqid + 1 = o.seqid /\ json[s] \subseteq o.jobj
    BY <2>0, <2>1, WritingFacts
  <2>3. /\ bin'[s] = bin[s] /\ json'[s] = json[s] /\ bin'[t].seqid = o.seqid
        /\ Valid(t)' => json'[t] = o.jobj
    <3>1. /\ pc[p] \in {"json", "csum", "sync"} => bin[t].seqid = o.seqid
          /\ pc[p] \in {"csum", "sync"} => json[t] = o.jobj
      BY <2>0, <2>1, WritingFacts
    <3>n. json[t] # None
      <4>1. \A x \in {Torn} \cup SUBSET Updates : x # None
        BY HeaderConstants
      <4>2. QED
        BY <4>1, PartTypes DEF Parts
    <3>2. CASE BinForm(p)
      BY <2>0, <3>2, <3>n DEF BinForm, Valid
    <3>3. CASE JsonForm(p)
      BY <2>0, <3>1, <3>3 DEF JsonForm, DiskForm
    <3>4. CASE CsumForm(p)
      BY <2>0, <3>1, <3>4 DEF CsumForm, DiskForm
    <3>5. QED
      BY <1>4, <3>2, <3>3, <3>4
  <2> HIDE DEF o
  <2>4. value = json[s] /\ json[s] \in SUBSET Updates /\ Valid(s)'
    BY <1>n, <1>v, <2>2, <2>3 DEF CurrentAt, Valid
  <2>5. bin[s].seqid \in Nat
    BY PartTypes DEF Parts
  <2>6. CASE Valid(t)' => o.seqid <= bin[s].seqid
    <3>1. (Current.jobj)' = json'[s]
      BY <1>n, <2>2, <2>3, <2>4, <2>6 DEF CurrentAt
    <3>2. QED
      BY <1>v, <2>1, <2>3, <2>4, <3>1
  <2>7. CASE Valid(t)' /\ ~(o.seqid <= bin[s].seqid)
    <3>1. json[s] \subseteq o.jobj /\ bin'[s].seqid <= bin'[t].seqid
      BY <2>2, <2>3, <2>5, <2>7 DEF Match
    <3>2. (Current.jobj)' = json'[t] /\ json'[t] \in SUBSET Updates
      BY <1>n, <2>2, <2>7, <3>1 DEF CurrentAt
    <3>3. QED
      BY <1>v, <2>1, <2>3, <2>4, <2>7, <3>1, <3>2
  <2>8. QED
    BY <2>6, <2>7
<1>5. ASSUME PowerForm
      PROVE  /\ powerfails' = powerfails + 1 /\ value' \in SUBSET value
             /\ acked \subseteq value' /\ acked' = acked
  <2>1. /\ powerfails' = powerfails + 1 /\ acked' = acked
        /\ \A c \in Copies : bin'[c] \in mbin[c] /\ json'[c] \in mjson[c]
    BY <1>5 DEF PowerForm
  <2>2. PICK c \in Copies : (Current.jobj)' = json'[c] /\ bin'[c].csum = json'[c]
    BY <1>m DEF CurrentIsNewest
  <2>3. bin'[c] \in Stored(c)
    BY <2>1, <2>2 DEF Stored
  <2>4. PICK d \in Copies : Valid(d) /\ bin'[c].seqid <= bin[d].seqid
    BY <2>3 DEF FaultInv, ChainInv
  <2>5. PICK e \in Copies : /\ Current.jobj = json[e] /\ bin[e].csum = json[e]
                            /\ bin[d].seqid <= bin[e].seqid
    BY <1>m, <2>4 DEF CurrentIsNewest
  <2>6. bin[e] \in Stored(e) /\ bin'[c].seqid <= bin[e].seqid
    <3>1. bin'[c].seqid \in Nat /\ bin[d].seqid \in Nat /\ bin[e].seqid \in Nat
      BY <2>1, PartTypes DEF Parts
    <3>2. QED
      BY <2>4, <2>5, <3>1 DEF Stored, FaultInv, MetaInv
  <2>7. bin'[c].csum \subseteq bin[e].csum /\ acked \subseteq bin'[c].csum
    BY <2>3, <2>6 DEF FaultInv, ChainInv
  <2>8. QED
    BY <1>v, <2>1, <2>2, <2>5, <2>7
<1>6. ASSUME UNCHANGED vars
      PROVE  UNCHANGED <<value, acked, powerfails>>
  BY <1>1, <1>6 DEF vars, disk, hist
<1>7. \/ UNCHANGED <<value, acked, powerfails>>
      \/ value' \in SUBSET Updates /\ value \subseteq value' /\ UNCHANGED <<acked, powerfails>>
      \/ acked' \in SUBSET value /\ acked \subseteq acked' /\ UNCHANGED <<value, powerfails>>
      \/ /\ powerfails' = powerfails + 1 /\ value' \in SUBSET value
         /\ acked \subseteq value' /\ UNCHANGED acked
  BY <1>2, <1>3, <1>4, <1>5, <1>6 DEF StepForm
<1>8. QED
  BY <1>7 DEF value, Register!Next, Register!Commit, Register!Acknowledge,
              Register!PowerFailure

(* The two copies, the sequence ids and the lock together implement one    *)
(* register: updates extend it atomically, and a power failure undoes only *)
(* what was not acknowledged.                                              *)
THEOREM HeaderIsRegister == Spec /\ []Tolerated => ImplementsRegister
<1>1. Init => Register!Init
  <2> SUFFICES ASSUME Init PROVE Register!Init
    OBVIOUS
  <2>1. \A c \in Copies : bin[c].csum = {} /\ json[c] = {}
    BY DEF Init
  <2>2. /\ \A c \in Copies : Valid(c) /\ Version(c).jobj = {}
    BY <2>1 DEF Valid, Version
  <2>3. SomeHeaderValid /\ Current.jobj = {}
    BY <2>2 DEF SomeHeaderValid, Current, Usable, Copies
  <2>4. acked = {} /\ powerfails = 0
    BY DEF Init
  <2>5. QED
    BY <2>3, <2>4 DEF Register!Init
<1>2. HeaderInv /\ HeaderInv' /\ Tolerated /\ Tolerated' /\ [Next]_vars =>
        [Register!Next]_<<IF SomeHeaderValid THEN Current.jobj ELSE None,
                          acked, powerfails>>
  <2> SUFFICES ASSUME BaseInv, BaseInv', FaultInv, FaultInv', Tolerated, Tolerated',
                      [Next]_vars
               PROVE  [Register!Next]_<<IF SomeHeaderValid THEN Current.jobj ELSE None,
                                        acked, powerfails>>
    BY DEF HeaderInv
  <2>1. StepForm
    BY StepForms DEF FaultInv
  <2>2. QED
    BY <2>1, RegisterStep
<1>3. QED
  BY <1>1, <1>2, HeaderInvariant, PTL DEF Spec, ImplementsRegister, Register!Spec

===========================================================================
