# A TLA+ model of cryptsetup

cryptsetup manages encrypted volumes. What it must never do is lose the
metadata that unlocks a volume, or the data while it converts them, and it has
to keep that promise although several processes work on one device, any of them
can be killed, and the power can fail at any time. This directory models the
parts of libcryptsetup and its tools that carry the promise, checks them with
TLC, and proves with TLAPS the parts that everything else rests on: the lock,
the redundant header, keyslots under concurrent contexts, the commands that
activate a volume, the start of a reencryption and the devices under a mapping while it runs, and the offline
reencryption of LUKS1.

Paths below are relative to the repository.

## 1. The system

| Component | State | Operations | Interacts with |
|---|---|---|---|
| **Device and name locking** `lib/utils_device_locking.c` | lock files in the locking directory, flock modes, a handle with a reference count per device | read and write lock, nested lock, unlock, `device_locked_verify` | header storage, reencryption (a named lock per UUID) |
| **LUKS2 header storage** `lib/luks2/luks2_disk_metadata.c`, `luks2_json_metadata.c`, `lib/utils_device.c` | two copies on the device, each with a sequence id and a checksum; the header and its rollback copy in memory | load, auto-recovery, write with the sequence id check, rollback, backup, restore | everything that changes metadata |
| **LUKS2 keyslots, digests, tokens** `luks2_keyslot*.c`, `luks2_digest*.c`, `luks2_token*.c`, `lib/setup.c` | JSON objects that refer to each other, binary areas | add, change, swap, destroy, assign, unlock by priority | header storage |
| **LUKS2 reencryption** `lib/luks2/luks2_reencrypt*.c`, `luks2_segment.c`, `luks2_keyslot_reenc.c`, `lib/utils_storage_wrappers.c`, `src/utils_reencrypt.c` | the segments and flags of the header, the area of the reencryption keyslot, the data; `struct luks2_reencrypt` in memory; overlay and hotzone devices | initialise, run, interrupt, resume, recover, repair, tear down; offline and online | header storage, keyslots, device-mapper |
| **LUKS1** `lib/luks1/` | one header, eight keyslots, no lock | format, set and delete keyslots, repair, backup, restore | blockwise I/O, anti-forensic splitter |
| **Conversion LUKS1 / LUKS2** `luks2_luks1_convert.c` | both headers, moved keyslot areas | convert up, convert down | both formats |
| **LUKS1 offline reencryption** `src/utils_reencrypt_luks1.c` | log file, header backups, an "unusable" magic, copied offset | prepare, copy forward or backward, resume, restore the header | LUKS1, the command line |
| **Activation** `lib/setup.c`, `lib/libdevmapper.c`, `lib/tcrypt`, `lib/integrity` | dm devices with a live and an inactive table, keyring keys | open, close (deferred, forced), suspend, resume, refresh, resize | the kernel |
| **Device-mapper tables** `lib/libdevmapper.c`, `src/integritysetup.c`, `lib/verity/verity.c` | the text of a table, the flags probed from the kernel, the integrity superblock | build, parse, probe, create with fallbacks, reload, resize, format | the kernel |
| **Pure algorithms** `lib/luks1/af.c`, `lib/verity/verity_hash.c`, `lib/utils_io.c`, `lib/utils_wipe.c` | none | splitting, hash tree levels, unaligned I/O, wiping | their callers |
| **Formats of others, crypto backend, argument handling, SSH token, benchmarks** | none that lasts | parsing, ciphers | |

What is hard:

* *locking*: the lock file is unlinked by its last user while others open it or
  wait on it; the name, the inode and the flock are three different things;
* *the header*: the writes of two copies, kills and power failures between any
  two of them, readers that repair, stale contexts, failing I/O;
* *keyslots*: a command is several locked sections on a private copy of the
  document; areas and header are written one after the other;
* *reencryption*: a protocol over three places (data, keyslot area, header),
  five ways to describe a half-converted device, and a resume that has to
  reconstruct from the segments alone where it was; online, a user's I/O runs
  through devices that are swapped under it;
* *LUKS1, conversion, LUKS1 reencryption*: no redundancy and no lock, so the
  order of writes is all there is;
* *activation*: the kernel's state changes under the library, which reads it,
  computes and loads the next one;
* *tables*: there is no record of an active device but the text of its table.

What makes each correct:

* a lock excludes, is not lost with its file, and is always obtainable;
* at least one header is valid at any time; an acknowledged update is never lost;
  a load restores redundancy;
* an acknowledged passphrase works until its removal is asked for, a removed
  one leaves no material, the last keyslot does not go by accident;
* every block of the user's data can be read, or recovered, from what is on the
  medium; nothing is converted twice; both keys stay available as long as they
  are needed; the operation finishes;
* I/O reaches a block only under the key it is stored with, and no I/O hangs;
* conversion and LUKS1 reencryption always leave one usable header or say that
  there is none;
* a suspended device holds no key, an active one its own, and no layer of a
  stack is left behind;
* what was asked for is what the kernel has, after any number of changes.

`PROJECT.json` lists all components with their status, the hazards with the
properties aimed at them, and for every definition the lines it models.

## 2. The modules

```
RWLock              abstract readers/writer lock
  DeviceLock        the flock protocol            implements RWLock
    DeviceLockProofs   theorems about DeviceLock
MetadataRegister    abstract atomic register
  Luks2Header       the redundant header          implements MetadataRegister,
    MCLuks2Header                                 uses RWLock as its lock
    Luks2HeaderProofs     theorems under all faults and under the tolerated ones
Luks2Json           the metadata document         (operators only)
  Keyslots          several contexts, one device  a locked section is one step
    MCKeyslots
    KeyslotsProofs     theorems about Keyslots
  Luks1             LUKS1, backup, conversion     the LUKS2 side uses Luks2Json
    MCLuks1
Luks1Reencrypt      the LUKS1 tool
  MCLuks1Reencrypt  command lines
  Luks1ReencryptProofs  theorems about Luks1Reencrypt
ReencryptSegments   segment and offset arithmetic (operators only)
  Reencrypt         offline reencryption          LUKS2_hdr_write is one step
    MCReencrypt     configurations
ReencryptMeta       reencryption keyslot and digest (operators only)
  ReencryptInit     start, resume, repair         the conversion is Reencrypt
    MCReencryptInit
    ReencryptInitProofs   theorems about ReencryptInit
OnlineStack         overlay and hotzone devices   a chunk is a step of Reencrypt
  MCOnlineStack
  OnlineStackProofs   theorems about OnlineStack
DeviceMapper        the kernel's devices          (operators only)
  Activation        commands of several processes
    MCActivation
    ActivationProofs   theorems about Activation
DmTable             tables, probing, resize
  MCDmTable         kernels and requests
  DmTableProofs     theorems about DmTable
```

The layers meet in the abstract specifications: `DeviceLock` is proved to
implement the lock that `Luks2Header` uses; `Luks2Header` is proved to implement,
under the faults it tolerates, an atomic register, which is what `Keyslots`, `Reencrypt`, `ReencryptInit` and
`OnlineStack` take `LUKS2_hdr_write` for.

### DeviceLock

`path` is the inode behind the name of the lock file, `fd[p]` the one a process
has open, `flk[p]` its flock. One action is one system call. `OpenResource`,
`Flock`, `VerifyLockHandle` (fstat and stat agree) and `VerifyStale` (they do
not: release and try again) are `acquire_and_verify`; `Unlock`, `FlockUn`,
`Relock`, `RelockBusy`, `StatResource`, `UnlinkResource`, `CloseHandle` are
`device_unlock_internal` and `release_lock_handle`. `LockNested` is the
reference count. `Crash` closes the descriptors of a process at any point. An
inode can be used again as soon as neither the name nor a descriptor refers to it.

### Luks2Header

Each copy is a binary header `bin[c]` (one sector, atomic) and a JSON area
`json[c]` (many sectors, can be `Torn`). `mbin` and `mjson` hold what the medium
may contain until `device_sync`: a power failure picks one of the values written
since. The document is the set of updates made to it; a checksum is the area it
was computed for. `LoadStart` to `LoadDone` are `LUKS2_hdr_read` with
`LUKS2_disk_hdr_read`, including the switch from the read lock to the write lock
when a copy has to be repaired (`-EAGAIN` of `_open_locked`) and the reuse of a
descriptor that is already open for writing. `UpdateStart` to `WriteDone` are
`LUKS2_hdr_write` with the sequence id check of `LUKS2_device_write_lock`;
`WriteBinNoCsum`, `WriteJson`, `WriteBinCsum` and `DeviceSync` are
`hdr_write_disk` for either purpose. `AfterFailure` allows the caller to roll
the JSON back or not, as different callers do. A context with a reencryption
loaded skips the sequence id check; it is then alone under the reencryption
lock, and `Reencrypt` models it.

### Luks2Json and Keyslots

`Luks2Json` has the document as a record of keyslots, digests, tokens, segments
and requirements, and the library's functions on it under their own names:
`LUKS2_hdr_validate` with its parts, `LUKS2_find_area_gap`, the `find_free`
functions, `LUKS2_digest_assign`, `LUKS2_token_assign`, `LUKS2_keyslot_swap`,
`LUKS2_keyslot_open` and the choice by priority. Where the answer depends on the
order of JSON members, the operator is the set of possible answers.

In `Keyslots` a context holds its own copy `ctx[p].doc` and sequence id. A
command decides from that copy and the areas, then runs a plan of steps; a step
is one section under the write lock (`KeyslotStore`, `KeyslotWipe`, `HdrWrite`),
which fails if the sequence id on the device is not the context's (`Refused`).
A kill or a failed write comes between the area and the header (`Interrupted`).
`keep` holds what the library has acknowledged, as sets of passphrases one of
which must work; `revoked` holds the removed keyslots. A header write that fails
leaves the sequence id in memory one ahead of the device: `failed` are the
contexts in that state, and `overrun` is set when one of them passes the check
because another context has stored that number meanwhile.

### Luks1

`units` is the start of the device; both layouts live in it, so that a
conversion overwrites what it moves. Key material is a run of units that carry
their salt, passphrase and position: a key needs all of them, which is what the
anti-forensic splitter is for. A command is a plan of single writes, between and
inside which the process may be killed. There is no lock in this code: `raced`
records that two commands overlapped, and `torn` that a conversion was killed
half-way, the two cases the code leaves without protection.

### Luks1Reencrypt

The device, the log, the two header files and the context of the tool. One
action per part of `reencrypt_luks1`; the copy is one block per step, with the
log and the sync that the options ask for as steps of their own. `dirty` are the
blocks that a power failure may take back. A signal is looked at between two
blocks (`Interrupt`), a block that cannot be read is not written (`ReadFails`);
inside a block the write fails after nothing, a piece or all of it is written
(`WriteFails`), or writes a piece and reports no error (`ShortWrite`), the log
fails (`LogFails`) or the fsync does (`SyncFails`), which may lose what was not
synced. All of these run the tool's own clean-up, with a last `write_log` that may
fail unnoticed; `Kill` and `PowerFail` do not. After each the user starts the same
command again. The manual says "The LUKS1 reencryption code is not resistant to
hardware or kernel failures during reencryption (you can lose your data in this
case)" (`man/cryptsetup-reencrypt.8.adoc:125`): the properties say how much. Left
out are a header write that fails half-way, a torn sector of the log, and writeback
errors without `--use-fsync`, which nobody reports.

### ReencryptSegments and Reencrypt

Data are blocks of the size of one checksum. A block is its key, its IV and its
contents; decryption with another key or IV gives junk, so that a block that is
lost, shifted wrongly or converted twice can be told apart. The header is the
list of segments and the `online-reencrypt` flag. `data`, `area` and `hdr` have
the values a read returns, `mdata`, `marea`, `mhdr` those the medium may hold.

`HotSegments`, `PostSegments`, `AssignDigests`, `ReencryptOffset`,
`ContextInit`, `LoadClean`, `LoadCrashed` and `ContextUpdate` are the functions
of those purposes for the modes of a configuration (in place forward and
backward, encryption with data shift, decryption with data shift).
`Resume`/`Recover` load a context; `StepStart`, `Protect`, `WriteBlock`,
`DataSync`, `Update` are `reencrypt_step` and the context update of
`crypt_reencrypt_run`; `RecoverRead`, `RecoverDone` are
`reencrypt_recover_segment` and `reencrypt_recovery`; `Teardown` to `RemoveFlag`
are `reencrypt_teardown_ok`.

The code leaves periods without protection. They are named in `KillWindows` and
`PowerWindows`; a run says with `CrashIn` which of them a crash may hit, and the
run says none. They are facts about the code, each listed as a hazard; what a
kill in `teardown` does is in section 3:

| Window | What is unprotected |
|---|---|
| `protect` | checksums or journal and the header that needs them are written without a sync between them |
| `recovered` | recovery commits the header without a sync of a separate data device |
| `unsynced` | a process died before its sync and the next one went on from what it read |
| `teardown` | all blocks are converted, the flag is still stored, the old keyslots may be gone |
| `rewipe` | recovery of the last hotzone wipes its own source before the header is replaced |
| `none` | resilience `none`: nothing is promised while a run is under way |

### ReencryptMeta and ReencryptInit

`ReencryptMeta` has the reencryption keyslot, its validation and the updates a
resume with other options makes (`LUKS2_keyslot_reencrypt_update`), and the
digest over the metadata, which is represented by what it was computed from.
`ReencryptInit` starts from a device in one of six scenarios: in-place
encryption (temporary header, head moved to the tail), decryption (exported
header, head moved over the header), both with a detached header, reencryption
to a new key, and the repair of a reencryption that an old version began. Each
write is a step that may fail before or after it took effect, with the error
paths of the library and of the tool; the process may be killed at every step.
`beyond` collects the faults no error path makes up for.

### OnlineStack

`dm` has the user's device, the overlay and the hotzone, each with a live and
an inactive table; `bio` is a write of the user on its way through them. One
action is one ioctl, one header write, or the read or write of the chunk that is
converted: `reenc_refresh_helper_devices`, `reencrypt_step` and
`reencrypt_teardown_ok`, with their error paths. Another process may open,
close, recover or reencrypt, under the lock named after the UUID.

### DeviceMapper and Activation

`DeviceMapper` has the operations of the kernel on a set of nodes, two layers
per name. `Activation` has the commands open, close (deferred, forced,
cancelled), refresh, resize, suspend and resume for LUKS2, LUKS2 with integrity,
and TCRYPT, one ioctl or one query per action. The volumes in `Wrapped` have a
wrapped-key cipher, whose key luksSuspend does not wipe. Options the kernel does
not know are dropped when a dm-crypt device is created (`check_retry`) and make
every other load fail. `torn` records for a name how a stack was left half-way, or
that a command acted on another device than the one it had looked at, so that a
property can say which cases it excepts.

### DmTable

A table is its positional parameters, its options with their announced number,
its length and the read-only bit. The module has the builder and the parser of
crypt, verity and integrity tables, `_dm_check_versions` with a kernel that
loads modules on demand, `dm_create_device` with its retries, `_reload_device`,
`crypt_resize`, format and resize of integrity devices. `asked` is what the API
was last asked for and granted. Commands run one after the other here.

## 3. What is checked

| Run | Instance | Properties |
|---|---|---|
| `DeviceLock` | 2 processes, 3 inodes, nesting 2, 1 kill | `MutualExclusion`; `HeldFileLinked`; `NoStaleFile` (no file is left when nobody uses the lock and nobody was killed); `ImplementsRWLock`; `SomeoneGetsLock` |
| `Luks2Header` | 3 processes, 2 updates, 1 kill, 1 power failure | `SomeHeaderValid`; `NoLostUpdate`; `SeqidIdentifiesHeader`; `LoadRestoresRedundancy`; `ImplementsRegister` |
| `Luks2Header_ioerr` | 2 processes, 2 updates, 1 failed operation | `SingleFaultSurvived`; `AckedIsRedundant` |
| `Keyslots` | 2 contexts, 3 keyslots, 2 tokens, 3 passphrases, 3 commands and faults, 1 of them a fault | `PromisesKept`; `RevokedIsGone`; `LastKeyslotConfirmed`; `ChangeKeepsPlace` |
| `Luks1` | 2 processes, 3 keyslots, 3 commands, 1 kill | `StoredOpens`; `DestroyedIsGone`; `ConversionKeepsSlots` |
| `Luks1Reencrypt` | 3 blocks, every documented command line, 2 kills, power failures or I/O errors, 1 signal or failing read | `LossBounded` (each crash and each I/O error costs at most one block, a signal none); `MixedIsUnusable`; `Completes` |
| `Reencrypt` | 12 configurations, 3 to 5 blocks, 2 kills, 1 power failure, 1 interruption | `DataReadable`; `HotzoneRecoverable`; `NeverConvertedTwice`; `ReencryptionFinishes` |
| `ReencryptInit` | 6 scenarios, 2 passphrases, 2 commands, 2 failing writes, 1 kill | `DataSafe`; `FlagAfterMove`; `CleanFailure`; `DigestHolds` |
| `OnlineStack` | 2 processes, 2 chunks, 3 commands, 2 writes, 1 failed call, kill or reboot | `ReadsRight`; `CloseWaits`; `WritesFinish` |
| `Activation` | 2 processes, 2 volumes of 3 kinds, 1 of them with wrapped keys, 2 kernels, 3 commands, 1 failing ioctl or kill | `KeyMatches`; `SuspendedIsKeyless`; `StackWhole`; `SuspendSticks` (a suspended device comes back through luksResume or a reload begun before) |
| `DmTable` | 3 kernels, 9 crypt, 4 verity and 6 integrity requests, 3 formats, 4 commands | `TableAsAsked`; `GrownIsProtected` (an integrity device grown with `--wipe`, or where the target can recalculate, is covered by tags) |

One more run, `Luks1Reencrypt_interrupt`, shows a disagreement between the code
and its documentation, described under "findings": LUKS1 encryption with a
detached header copies forward; a single signal makes the tool delete the only
header with the new key although a part of the data is already encrypted with it.

The modules state a few more properties that hold in these instances and that
can be added to the configurations: the type invariants, `PendingValid` and
`UnknownRequirementRespected` (Keyslots), `HeaderLoadable` (Luks1),
`FinishedIsNew` (Luks1Reencrypt), `RefreshAtomic` (Activation), `StackGone`
(OnlineStack), `PassphrasesKept` (ReencryptInit),
`FixesUsed` (DmTable).

### Where the code does not keep a property

The passing runs leave out cases in which the code itself has no protection.
Each is a named bound or a named exception of the property, is listed as a
hazard, and is refuted by TLC when it is put back. Where a manual page says
otherwise, the row quotes it.

| Case | Put it back with | Refuted |
|---|---|---|
| `LUKS2_check_sequence_id` compares nothing when the UUID differs, so a change of the UUID through a stale context drops an acknowledged update | `Luks2Header`: 2 processes, 3 updates, one in `UuidUpdates` | `NoLostUpdate` |
| a failed write leaves the sequence id in memory one ahead, and the stale context passes the check once that id is stored | `Luks2Header`: 2 processes, 3 updates, `MaxIOErr = 1` | `NoLostUpdate` |
| the same for keyslots: the context that passes writes its old document over the keyslot the other one has added (and, on a device that got an unknown requirement, over that) | `Keyslots`: `MaxEvents = 4`, `PromisesKept` without `overrun` | `PromisesKept` |
| readers with a descriptor that is open for writing repair a copy under the read lock (`device_open_internal` hands out the open descriptor), so two can repair the secondary copy at once; one finishes and writes the primary while the other is killed in the middle, and a second kill leaves no good copy | `Luks2Header`: 3 processes, `MaxKills = 2` | `SomeHeaderValid` |
| `dm_reload_device` and the messages to dm-crypt name a device and nothing checks that it is still the one that was looked at: a name that is closed and opened for another volume under a refresh, resize or luksResume gets a table or a key of the wrong volume | `Activation`: 3 processes, 5 commands, `KeyMatches` without `Pure(n, {"reused"})` | `KeyMatches` |
| recovery of a shorter last backward hotzone is not seen as the end: converted data are converted again | `Reencrypt`: `Configs <- OddBackward`, one kill | `DataReadable` |
| a kill between the last step and the removal of the flag restarts the conversion at the first block: the header has one segment, which `_offset_forward` takes for an untouched device, and the converted blocks are converted once more (cryptsetup-reencrypt.8.adoc:100: "To resume already initialized or interrupted reencryption, just run the cryptsetup reencrypt command again") | `Reencrypt`: `CrashIn = {"teardown"}`, one kill, `Configs <- PlainReencrypt` or `PlainEncrypt` | `DataReadable`; `NeverConvertedTwice` |
| a kill after the old keyslots are destroyed and before the flag is removed leaves a device no action opens: `LUKS2_keyslot_open_all_segments` asks for a keyslot of the old key first (cryptsetup-reencrypt.8.adoc:107: "The recovery is currently run automatically on next activation (action open) when needed") | `Reencrypt`: `CrashIn = {"teardown"}`, one kill, `Configs <- PlainReencrypt`, `INVARIANT Unlockable` | `Unlockable` |
| decryption with data shift and a smaller moved segment cannot be resumed | `Reencrypt`: `Configs <- SmallMoved`, `FairSpec`, one interruption | `ReencryptionFinishes` |
| a close that has no header takes a lock of another name and removes the helpers of a running reencryption | `OnlineStack`: `Detached = TRUE` | `CloseWaits` |
| LUKS1 `--decrypt` with `--reduce-device-size` is not refused and copies backward over blocks it has not read; `--keep-key` with a reduction writes a header that looks for the data at another place | `Luks1Reencrypt`: `ReencAssumption` without its last two conjuncts, one such command line in `Options` (no crash needed) | `LossBounded` |
| a short write of the forward copy of LUKS1 is taken for a whole block, and all later blocks land at the wrong place | `Luks1Reencrypt`: `Excepted` without `slip` | `LossBounded` |
| luksSuspend reads the cipher of one volume, the name is closed and opened for another, and the key of that one is not wiped because the first has a wrapped-key cipher (the FIXME in `crypt_suspend`) | `Activation`: 2 processes, 4 commands, no mishap, `SuspendedIsKeyless` without `Pure(n, {"mistaken"})` | `SuspendedIsKeyless` |
| luksSuspend of a volume with a wrapped-key cipher returns 0 and leaves the key in the live table (setup.c:3362-3364; cryptsetup-luksSuspend.8.adoc:11: "suspends an active device and wipes the key") | `Activation`: 1 process, 2 commands, no mishap, `INVARIANT SuspendWipesKey` | `SuspendWipesKey` |
| on a dm-integrity older than 1.2 a resize without `--wipe` that grows the device returns 0, although `dm_reload_device` has dropped the recalculation and nobody writes the tags of what was added (integritysetup.8.adoc:78-79: "After resize, the *recalculating* flag is set.") | `DmTable`: `Kernels <- OldKernel`, `INVARIANT ResizeRecalculates` | `ResizeRecalculates` |
| a deferred close of a busy device of two layers never removes the lower one | `Activation`: `INVARIANT DeferredIsWhole` | `DeferredIsWhole` |

Others are history variables that a property excepts: `raced` and `torn` in
Luks1 (no lock; a conversion killed half-way), `early` in Luks1Reencrypt (a kill,
or a log that fails twice, before the first log entry), `stale` in OnlineStack (a mapping made from a
header read before the reencryption was initialised), `beyond` in ReencryptInit
(a write that fails after it took effect, a failing undo, a failing restore of
the header), `overrun` in Keyslots (above), the reasons in `torn` of Activation.
`TableAsAsked` takes what an integrity resize asks for, `recalculate` alone, as
what is wanted from then on: the other options of the device are lost there, as
the code has it.

### Bounds

*DeviceLock*: the races are between one leaver and one newcomer; a third inode
lets a name be recreated while both old ones are still open. The proofs cover
any number. *Luks2Header*: a lost update needs a stale context, a writer and an
observer, hence three processes; a crash in a repair of what a crash left needs a
kill and a power failure. *Keyslots*: one context loads, the other changes the
device, the first acts on its stale copy, with a fault in between: two contexts
and three events. Three keyslots with two in use leave one for a change and none
after it; an unbound key takes two of the four units of the area, so that numbers
and space run out in different orders. Three events are too few for a context
to go on after its own failed write, which the proof of `PromisesKept` brought
up; the theorems cover any number. *Luks1*: a conversion, an operation on the other side and a
conversion back are three operations. *Luks1Reencrypt*: first, middle and last
block, a crash or an error in the run that resumes after a crash or an error, and
an error whose clean-up fails too; with three, at most two of a kind, the
properties hold too. *Reencrypt*: the sizes make
the last hotzone shorter than the others where that is safe (5 blocks with
hotzones of 2 forward, and with a shift of 2), and give at least two steps, so
that recovery, resume and another crash follow each other. *ReencryptInit*: the
second fault hits the error path of the first; the second command meets what the
first one left. *OnlineStack*: one chunk is converted while the other is in
use; both orders of the two writes occur. *Activation*: two processes on one
name, a third command behind them; the volume with wrapped keys is always of the
kind "luks2". With four commands (2.5 million states) the properties hold too. *DmTable*: format, open, resize and refresh
in any order; the kernels have none, some and all of the versioned options, and
two take an option their version does not announce.

`CHECK_DEADLOCK FALSE`: once all updates or commands are issued, processes may
stop. `DeviceLock`, `Reencrypt` and `Luks1Reencrypt` are checked for deadlock.

A power failure in `Luks2Header` after a kill waits until no copy has writes
that nobody is going to sync (`Orphaned`): the code has no protection there.

### Fairness

`DeviceLock!FairSpec`: weak fairness of every process's next system call: the
kernel runs every process, and a process that asked for the lock continues. No
fairness between waiters in flock is assumed, hence "someone gets the lock".
`Reencrypt!FairSpec`: weak fairness of the steps of the process and of starting
a resume or a recovery; the manual page tells the user to run the command again,
so "finishes" means: if one keeps doing so. `Luks1Reencrypt`: the same, with
strong fairness of the steps that a wrong passphrase or a full disk fails: they
do not fail for ever. `OnlineStack`: weak fairness of a started run and of the
kernel's handling of a write. Kills, power failures, signals, failures and new
commands are bounded and not fair.

### Mutants

For every property of a passing run `PROJECT.json` names a plausible mistake
(`...Mut` next to the definition it replaces) under which TLC refutes the
property: a dropped verification, a missing sync, an ignored error, an error path
that does not undo, an off-by-one in the end test.

## 4. What is proved

TLC checks the instances above; the theorems below hold for every value of the
constants. Each inductive invariant was checked by TLC as an invariant of the
run's instance before it was proved.

### The lock: `DeviceLockProofs`

For every set of processes and inodes, any nesting bound, any number of kills:
`LockInvariant` (`Spec => []LockInv`), `LockTypeCorrect`, `LockMutualExclusion`,
`HeldFileStaysLinked`, `LockDirectoryClean` (`NoStaleFile`) and
`DeviceLockImplementsRWLock`, the refinement of `RWLock`.

The assumption is `LockConstants` (there is an inode to spare, the bounds are
numbers). Mutual exclusion is not inductive: nothing in it says that the holder's
inode is the one the name refers to. `LockInv` adds `FlockExclusive` (flocks on
one inode exclude each other) and `StepInv`, which says for every program point
which flock a process has; the core is that a process at "unlink" holds an
exclusive flock on the inode the name refers to, and a holder holds a flock on the
same inode, so that the two cannot coexist. The refinement then needs one case
per action: only `VerifyLockHandle` acquires, only the last `Unlock` and `Crash`
release. A file without a user needs somebody who has it open and will unlink it,
or a kill; that is the invariant behind `LockDirectoryClean`.

### The header, whatever fails: `Luks2HeaderProofs`

`AckedWriteIsRedundant`: a `LUKS2_hdr_write` that reports success has left two
good and equal copies, for any number of processes, kills, power failures and
failed operations. The property is about one step; what makes it true is
`StoreInv`, which says what the copies hold at each step of `hdr_write_disk`,
and that rests on `LockInv`: a writer holds the lock exclusively from the
sequence id check to the end. `HeaderBaseInvariant` and `HeaderTypeCorrect` are
the invariant and the types. Assumptions: `HeaderConstants` and
`NoneIsNoHeader` (the value for "no header" is not a header).

### The header, within what it is made for: `Luks2HeaderProofs`, second part

`HeaderSurvives`, `UpdatesSurvive`, `SequenceIdIsSound`, `LoadIsRedundant` and
`HeaderIsRegister` (the refinement of `MetadataRegister`) hold under

    Tolerated == ioerrs = 0 /\ kills <= 1 /\ issued \cap UuidUpdates = {}

for any number of processes, updates and power failures. The theorems name the
condition because each conjunct is needed: the first three rows of the table in
section 3 are what happens without it. Power
failures are those of the model: one that comes after a kill waits until nothing
the dead process wrote is unsynced (`Orphaned`).

The invariant `HeaderInv` is `BaseInv` and, under `Tolerated`, `FaultInv`:

* `ChainInv`: everything the medium may hold that would be read as a header is
  ordered by its sequence id, the documents grow along that order, and all
  acknowledged updates are in each of them. This is what makes the choice
  between two good copies, and between what a power failure may leave, harmless;
* `ValidInv`: a copy is good, and when only the other one has unsynced writes,
  it is this one;
* `RecoverInv`, `ReadInv`, `WriteInv`: what a process relies on in each step of
  recovery, load and write. Recoveries that run at once write the same header to
  the same copy; what a reader has in hand is on the device, or was replaced by
  a recovery from the newer copy; a writer's secondary copy keeps the current
  header until the primary is synced;
* `LoadedInv`, `PrivateInv`: a context in memory whose sequence id is the stored
  one has the stored document; an update under way is in no other place;
* `KillInv`: before the first kill only a power failure damages a copy, and it
  leaves no context alive, so that the recovery runs alone.

The refinement maps the write of the primary copy's checksum, which makes the
new header current, to the commit of the register, the return of the call to the
acknowledgement, a power failure to the register's own, and everything else,
recovery included, to stuttering.

### Keyslots: `KeyslotsProofs`

For any number of contexts, keyslots, digests, tokens, passphrases, volume keys
and units of the keyslots area, any number of commands, kills and failed writes:
`RevokedGone` (`RevokedIsGone`), `PromisesAlwaysKept` (`PromisesKept`),
`ChangesKeepPlace` (`ChangeKeepsPlace`), `LastAlwaysConfirmed`
(`LastKeyslotConfirmed`), and `PendingAlwaysValid` (`PendingValid`),
`RequirementsRespected` (`UnknownRequirementRespected`), `TypeCorrect`. The
assumption is `KeyslotsAssumption`: the device starts with at least one keyslot,
its keyslots fit into the area, the limits are positive, and no volume key is
the value for "no key".

None of the properties is inductive: each is about the disk, and the next write
to the disk comes from a copy of the document and a plan that a context made
earlier. The invariants say what such a plan can be:

* `DocInv`: the document on disk and every copy is well formed (`WF`: areas
  inside the keyslots area and apart from each other, each keyslot in exactly one
  digest, the data in exactly one, no dangling references), and the plan of a
  busy context is one of seven shapes, each related to the context's own document
  (`PlanOK`). `WFValidates` shows that `WF` passes `LUKS2_hdr_validate`;
  `StoreNewFact`, `StoreOverFact`, `WipeFact`, `SwapFact`, `SetKeyFact`,
  `TokenStepFact` are the library's functions on documents, and `AfterWF` that
  every step gives a well-formed document. No sequence id enters here, so it
  also holds of contexts that are hopelessly behind;
* `SaltInv`, for `RevokedIsGone`: a store draws a new salt, so a salt names one
  area in every document, on disk or in memory, and material with that salt is
  nowhere else; a wipe therefore reaches all of it, also with other contexts at
  work;
* `SyncInv`: a context whose sequence id is the one on the device has the
  document of the device, unless it is in `failed`;
* `PromiseInv`, for `PromisesKept` and `ChangeKeepsPlace`, until `overrun`: every
  pair of every promise opens a keyslot, and for each context that would pass
  the check, its plan takes away only what it says (`KeepsPlan`): what it erases
  opens with dropped pairs only, it stores only where nothing opens, and what it
  puts in place of a promise opens already. Of the contexts in the middle of a
  change (new keyslot stored, old one not yet removed) only one can pass, because
  the first half of the change has written the header. A kill between area and
  header costs nothing that was not dropped, which is the order the code has;
* `LastInv`, for `LastKeyslotConfirmed`: without a confirmation or a fault each
  keyslot opens, one of them opens the data, and the plan of each context that
  would pass leaves one, although it counted the keyslots before others wrote;
* `ReqInv`: with requirements in its document a context only removes keyslots.

The four kinds of steps (`Start`, `Done`, `Broken`, `Rejected`) are shown once
to be what the actions do, and each invariant is then proved for the kinds.

The proof of `PromisesKept` failed at a context that goes on after a failed
header write. TLC confirmed it with one event more than the run has (the table in
section 3), and the exception is now in the model as `overrun`. The same proof
made `LUKS2_find_area_gap` a declarative first fit, checked with TLC against the
loop over the sorted areas for all documents of up to three areas.

### Activation: `ActivationProofs`

For every set of processes, names, volumes and commands, any number of kills and
failing ioctls: `ActivationTypeCorrect`, `ActiveHasItsKey` (`KeyMatches`),
`SuspendedHasNoKey` (`SuspendedIsKeyless`), `StackIsWhole` (`StackWhole`), all
from `ActivationInvariant`, and `SuspendStays` (`SuspendSticks`). The assumption
is `ActivationAssumption`: commands are well formed, "none" is no name and no
volume, and `Wrapped` has volumes. Of a volume in `Wrapped`, or one that took the
name of such a volume under a luksSuspend, `SuspendedHasNoKey` says only that no
inactive table is left: its key stays in the live one.

The properties are about a name nobody works on, or about one device; none is
inductive. `ActInv` says for every name who answers for what in between:

* `OwnerInv`: one volume owns a name. Both tables, and every command that has
  looked at the device and has not lost it since, agree on the volume;
* `SuspInv`: an inactive table, and a suspended device that still has a key which
  luksSuspend should wipe, have a process at a program point from which it
  resumes, clears or wipes them;
* `StackInv`: a lower layer without an upper one has a process that will put a
  device on it or remove it, and a close under way knows whether there is one;
* `TopInv`, `ProcInv`: the shape of the tables of a user's device, and what a
  command at each program point was started with.

A kill, a failing ioctl or a reused name ends a responsibility, and `torn`
records which, so that the invariant says exactly what each exception excuses.
Actions touch one name: `OneName` reduces the proof of a step to the name of its
process, and the lemmas named after the ioctls (`CreateEffect` to
`ClosedEffect`) say what each does to its device and that it leaves the others
alone.

`SuspendStays` needs `AwakeInv` besides: whoever is in a reload has queried the
table while the device was not suspended, because `dm_query_device` never returns
an empty key. Every step either wakes no suspended device of a user (`Calmly`)
or is one of the five resumes of `Wakes`.

Two things came out of the proofs. The first `KeyMatches` excepted only a name
reused under luksResume; no invariant could be found for a refresh or a resize,
and TLC, with one more process and two more commands, refuted it (the table in
section 3). The exception is now stated for all three. `SuspendSticks` had left
out that a luksSuspend whose "key wipe" fails resumes whatever is loaded by
then, which may be the table of another process's reload.

### Online reencryption: `OnlineStackProofs`

`NoBioPasses` (`ReadsRight`) holds for any number of chunks, processes, commands,
writes, failed calls, kills and reboots, with the header on the device or
detached; `CloseIsRefused` (`CloseWaits`) for the header on the device, which
the table in section 3 shows is needed. Both follow from `OnlineInvariant`; the
assumption is `OnlineConstants`.

That I/O goes right is not inductive: whether the hotzone may be resumed depends
on where the run is, what the header says, and which bios have passed the
overlay. `OnlineInv` has:

* `LockInv`: one process runs, with the reencryption lock; offline it has the
  data device to itself, and online the lock is all it has;
* `ShapeInv`, `BioInv`: the tables each of the three devices can have, and that a
  bio below name was passed on by the devices above;
* `StoreInv`, the core: every chunk is under the key the header says and holds
  the last write, but for the one under conversion, which the journal has; a
  table of the segments with k chunks done is live only while the header says k,
  and one with a chunk over the hotzone only if the hotzone lets nothing through
  or the chunk is committed;
* `CallInv`: for each program point of a run, what it knows of the header
  (`HdrAt`), of the chunk in its buffer (`DataAt`), how far it has got with the
  stack (`StepAt`), and that nobody has touched name (`FirmAt`) or the helpers
  (`WaitAt`) meanwhile;
* `CloseInv`: a close that found a helper holds the lock.

`StepAt` is kept where a close removes or errors the helpers of a run (a
detached header): a helper that is gone lets nothing through, so `NoBioPasses`
needs neither `WaitAt` nor the lock of the close. `FrameStep` is the proof for
every step that leaves the devices alone (commands that start, fail or are
killed); `RunStep`, `OutsideStep`, `UserStep` and `LastStep` say what is left to
show of a step of the run, of another process, of the user, and of one after
which nobody runs.

### The start of a reencryption: `ReencryptInitProofs`

For any number of passphrases, keyslots, commands, failing writes and kills, and
any block sizes and sizes of the moved segment: `InitTypeCorrect`,
`ReencryptionFollowsMove` (`FlagAfterMove`), `StoredDigestVerifies`
(`DigestHolds`), `DataIsSafe` (`DataSafe`), `EveryPassphraseOpens`
(`PassphrasesKept`) and `FailureIsClean` (`CleanFailure`). The assumptions are `InitConstants` and `MetaConstants`.
Among them: the initial headers fit (an interrupted reencryption has two keyslots
besides those of the passphrases; whether there is room for what a new one adds
is for `_check_luks2_keyslots`, which is in the model), and `VolumeKeys`, the
keys the commands generate, do not contain the key of the data. Two commands may
generate the same key.

* `FlowInv`, for `FlagAfterMove`: the property says nothing of a command between
  the move and the header write, so `FlowInv` says per scenario what each program
  point has behind it. `EncryptInv`: the head is at its place or copied, and the
  requirement is in the file only when it is copied. `DecryptInv`: before the
  requirement is in the file the move can be undone; the mapping is suspended,
  with the new table loaded, from before the move until after the header write,
  and `beyond` is the only excuse for a mapping that runs on old segments after
  it. `PlaceInv` and `OtherInv` say which command is where and what it never does.
* `DigestInv`, for `DigestHolds`: also holds of a header file no command would
  load, and says of the metadata of an old version what the repair relies on.
  The lemmas about `ReencryptMeta` (which keyslot `reenc_keyslot_validate`
  accepts, that an update of the resilience leaves what the digest covers
  consistent) are where the arithmetic of block and moved sizes is.
* `SafeInv`, for `DataSafe`: until the exported file is complete the header on
  the device is untouched; a keyslot of the old key is never overwritten.
* `KeysInv`, for `PassphrasesKept` and for `SafeInv` of a reencryption: the passphrases
  still to do, the keyslots added and the free ones. Each passphrase either
  opens the new key or is still to do, and more keyslots are free than are to do,
  so the addition finds one and one stays for the reencryption keyslot.
* `CleanInv`, for `CleanFailure`: the property speaks of a command that is over,
  so `CleanInv` says at every program point how the state differs from `before`,
  as long as no error path has failed (`beyond`). Encryption: the head is
  untouched until the restore. Decryption: the exported file has the header that
  was found, so writing it back undoes the wipe and the move, and the mapping is
  suspended only where the way out resumes it. Reencryption: the header that was
  found is the one on the device without the keyslots in `added` (`Without`), and
  a header has nothing but its fields and keyslots (`Whole`), so with `added`
  empty again the two are equal. Past the header write (`Begun`) a failure leaves
  a reencryption, and the property asks for nothing.

### The LUKS1 tool: `Luks1ReencryptProofs`

For devices and headers of every size, any number of kills, power failures, I/O
errors and signals, any set of the documented command lines: `ToolInvariant`,
`OffsetsInRange` (`TypeOK`), `CrashCostsABlock` (`LossBounded`),
`MixedDeviceIsMarked` (`MixedIsUnusable`) and `EndedIsComplete`
(`FinishedIsNew`). The assumption is `ReencAssumption`: the device is not reduced
by more than its size, and decryption and `--keep-key` go without a reduction;
the table in section 3 has what happens otherwise.

`LossBounded` counts blocks and is not inductive. `Data` says where they are: one
offset, `Front`, splits the blocks into those stored with the new key and those
stored with the old one, but for a set of blocks in doubt with at most one member
per crash or I/O error. With `--use-fsync` what a power failure may take back are only blocks
of that set, and the block being written, which is why a later power failure can
hit the same block again without a second loss. `CopyStep` is where the direction
matters: forward to a lower or the same offset, backward to a higher one, a write
never hits a block that is still to be read. The lemmas `DataCopied`, `DataKilled`,
`DataLost`, `DataSynced`, `DataAtEnd` say what each kind of step does to `Data`;
`DataBounds` turns it into the count.

`RunInv` says in which of three phases the run is. `Fresh`: nothing has been
copied and the old header is there. `Copying`: the two header files and the log
exist, the log agrees with the command line, with `--write-log` its offset is
`Front` (one block behind while a block is not logged), and nothing unlinks the
files before the log is at the end and the new header is written. `Ended`: the
log is gone, the new header (or none, for decryption) is on the device. It is
excused by a crash, or two failing log writes, before the first entry of
`copy_data` (`early`), by a short write of the forward copy (`slip`), by the
forward encryption of the finding, and for `--keep-key`, which copies nothing and
has `KeepInv`.

### Integrity devices: `DmTableProofs`

For every kernel (versions, backported options, with and without
DM_GET_TARGET_VERSION), every request, any number of commands, processes, module
loads and unloads: `GrowthIsProtected` (`GrownIsProtected`) and `FixesAreUsed`
(`FixesUsed`). The assumption is `DmTableAssumption` (the bounds are numbers).
`GrownIsProtected` speaks of every kernel for a resize with `--wipe`; without it,
only of kernels whose dm-integrity has "recalculate" (1.2 and later). Below that
the code returns 0 with nothing done (the table in section 3).

The state a command finds is a record that every call of the library turns into
the next one, and each call has a lemma of what it keeps. What all of them keep,
`IsSys`, is the invariant: a live dm-integrity table has a formatted superblock,
its module is loaded, and it is not longer than the superblock provides. Both
halves are needed for growth. A refresh drops "recalculate" when the process has
not seen that the target has it; if the target has it, the process has seen it,
because the table that is live holds the module, so the probe before the reload
sees its version. And when the kernel
finishes the recalculation it has covered what the superblock provides, which
includes all of the table. The rest is arithmetic of `action_resize`: without
`--wipe` and without a recalculation it returns 0 only if nothing was added, which
needs that `crypt_resize` with a size ends with that size or fails.
`FixesAreUsed` rests on `SecondProbeSees`: the first probe of a process may find no
module and only learn that the kernel can load it, the second one loads it; and on
the fact that only a format writes the flags of the superblock.

### Only model-checked

* Liveness (`SomeoneGetsLock`, `ReencryptionFinishes`, `Completes`,
  `WritesFinish`): out of the prover's reach.
* What recursive definitions and folds compute for every input, and sizes and
  counts over them, which is induction over data. `TableAsAsked`: the table is
  readable when its announced number of arguments is the sum over its set of
  options (`MapThenSumSet`), and an option is found again by `CHOOSE`. The
  properties of `Reencrypt` (`DataReadable`, `HotzoneRecoverable`,
  `NeverConvertedTwice`): where a segment starts is a recursive sum over the
  segments before it. `StoredOpens` and `ConversionKeepsSlots` of `Luks1`: the
  conversion back finds gaps for the unused keyslots one after the other in a
  fold over the document.
* `SingleFaultSurvived`: the tolerance theorem excludes failed I/O altogether.
  One failed operation leaves contexts in memory that no longer agree with any
  copy, and the chain argument above does not carry over.
* `DestroyedIsGone` (`Luks1`) and `RefreshAtomic` (`Activation`): nothing known
  stands in the way, they are just not proved.

## 5. Not modelled

* **Parsers of foreign formats** (BITLK, FVAULT2, loop-AES, the header of
  TCRYPT): read-only, sequential, no state on disk.
* **The cryptographic backend**, PBKDF, random numbers, benchmarks: abstracted to
  keys that fit or do not; nothing in their control is for a model checker.
* **Hash tree and Reed-Solomon coding** of dm-verity, **unaligned I/O**, the
  **wipe loop**: sequential computations over bytes; their callers use them as
  steps that may stop half-way.
* **Argument parsing, prompts, dumps, logging, JSON syntax, udev**.
* **Token plugins** and the SSH token: external code and network I/O; a token is
  its handler's answer.
* **Combinations across modules**: failing I/O of the data during `Reencrypt`;
  commands of other processes during `ReencryptInit`; the restore of a backup
  over a LUKS2 header that other contexts have loaded; data shift without a
  moved segment.

## 6. What comes next

`Luks1`: `DestroyedIsGone`, with the argument of `SaltInv`: the conversions move
areas, so the claim has to be about both layouts.
