--------------------------- MODULE Luks1Reencrypt ---------------------------
(***************************************************************************)
(* Offline reencryption of LUKS1 devices (src/utils_reencrypt_luks1.c).    *)
(*                                                                         *)
(* The tool keeps three files in its working directory: the log, the old   *)
(* header (.org) and the new one (.new).  It marks the header of the       *)
(* device unusable, maps the device twice, with the old and with the new   *)
(* header, and copies block by block from one mapping to the other.        *)
(*                                                                         *)
(* `phys' is the device: every cell holds a block of data and the key it   *)
(* is encrypted with ("plain" for none).  A block read with another key    *)
(* than the one it was written with is garbage.  `dirty' are the cells     *)
(* that have not reached the medium, with what the medium holds.           *)
(***************************************************************************)
EXTENDS Naturals, FiniteSets, Sequences, TLC

CONSTANTS
  Size,           \* blocks of data
  HdrBlocks,      \* blocks of a header on the device
  Options,        \* command lines to explore
  MaxInterrupts,  \* bound on signals and failing reads
  MaxMishaps      \* bound on kills, power failures, and I/O errors that hit a block or the log

ASSUME ReencAssumption ==
  /\ Size \in Nat \ {0} /\ HdrBlocks \in Nat \ {0}
  /\ MaxInterrupts \in Nat /\ MaxMishaps \in Nat
  /\ Options \subseteq [mode : {"REENCRYPT", "ENCRYPT", "DECRYPT"}, shift : Nat, detached : BOOLEAN,
                        wlog : BOOLEAN, fsync : BOOLEAN, keep : BOOLEAN]
  \* The documented uses: decryption moves the data to the front, a header of
  \* the same key has the same offset.  The tool refuses none of the others.
  /\ \A o \in Options :
       /\ o.shift <= Size
       /\ o.mode = "DECRYPT" => o.shift = 0
       /\ o.keep => o.mode = "REENCRYPT" /\ o.shift = 0

VARIABLES
  opt,        \* the command line, the same whenever the tool is started
  phys,       \* cells of the device
  dirty,      \* <<position, cell on the medium>> of unsynced writes
  hdr,        \* header of the device: "luks", "nomagic", "new" or "none"
  log,        \* << >> or <<[dir, mode, off]>>
  files,      \* subset of {"org", "new"}
  rc,         \* reenc_ctx
  pc,         \* where the tool is
  early,      \* the log of open_log outlived a run that never wrote another
  slip,       \* a forward copy runs behind its offset: "no", "now" or "before"
  crashes, interrupts, errors

vars == <<opt, phys, dirty, hdr, log, files, rc, pc, early, slip, crashes, interrupts, errors>>
device == <<phys, dirty, hdr>>
world == <<opt, early, slip, crashes, interrupts, errors>>

\* Where the mappings start and what they encrypt with.
H == IF opt.detached THEN 0 ELSE HdrBlocks
OffOld == IF opt.mode = "ENCRYPT" THEN 0 ELSE H
OffNew == CASE opt.mode = "REENCRYPT" -> H + opt.shift
            [] opt.mode = "ENCRYPT" -> opt.shift
            [] opt.mode = "DECRYPT" -> 0
KeyOld == IF opt.mode = "ENCRYPT" THEN "plain" ELSE "old"
KeyNew == CASE opt.mode = "DECRYPT" -> "plain" [] opt.keep -> KeyOld [] OTHER -> "new"
Positions == 0..(Size + HdrBlocks - 1)

\* rc->device_size: of the old mapping for decryption, else of the new one.
Blocks == IF opt.mode = "DECRYPT" THEN Size ELSE Size - opt.shift

Garbage == [blk |-> Size, key |-> "plain"]
Cell(b, k) == [blk |-> b, key |-> k]
NoCtx == [in_progress |-> FALSE, stained |-> TRUE, dir |-> "FORWARD", mode |-> "REENCRYPT", off |-> 0]
------------------------------------------------------------------------------
\* Functions of the tool.

\* write_log: what the context holds at that moment.
write_log(c) == << [dir |-> c.dir, mode |-> c.mode, off |-> c.off] >>

\* open_log: a new log is written before direction and mode are known; an
\* existing one is parsed into the context.
open_log ==
  IF log = << >> THEN [ctx |-> [NoCtx EXCEPT !.stained = FALSE], log |-> write_log(NoCtx)]
  ELSE [ctx |-> [in_progress |-> TRUE, stained |-> TRUE, dir |-> log[1].dir,
                 mode |-> log[1].mode, off |-> log[1].off], log |-> log]

\* The first run takes direction and mode from the command line.
initialize_context(c) ==
  IF c.in_progress THEN c
  ELSE [in_progress |-> FALSE, stained |-> c.stained, mode |-> opt.mode,
        dir |-> IF opt.shift = 0 THEN "FORWARD" ELSE "BACKWARD",
        off |-> IF opt.shift = 0 THEN 0 ELSE Size + 1]

\* The device can be identified: by its header, by the header marked unusable,
\* or, without a header, by --encrypt or by the UUID given with --decrypt.
initialize_uuid ==
  \/ opt.mode = "ENCRYPT" /\ hdr = "none"
  \/ opt.mode # "ENCRYPT" /\ hdr \in {"luks", "nomagic", "new"}
  \/ opt.mode = "DECRYPT" /\ log # << >>

\* Passphrases are tried on the header the run starts from.
initialize_passphrase(c) ==
  \/ c.mode = "ENCRYPT" /\ ~c.in_progress
  \/ ~c.in_progress /\ hdr \in {"luks", "new"}
  \/ c.in_progress /\ (IF opt.mode = "DECRYPT" THEN "org" ELSE "new") \in files

\* Both headers load, and a fake header opens only without a passphrase.
activate_luks_headers(c) == {"org", "new"} \subseteq files /\ c.mode = opt.mode

\* What a read of block b through the old mapping returns.
ReadOld(b) ==
  LET cell == phys[OffOld + b] IN IF cell.key = KeyOld THEN cell.blk ELSE Garbage.blk

\* The device after block b has been written through the new mapping.  A copy
\* that has slipped writes a piece of it and a piece of the block before.
NewCell(b) == IF slip = "now" THEN Garbage ELSE Cell(ReadOld(b), KeyNew)
Written(b, cell) == [phys EXCEPT ![OffNew + b] = cell]
Unsynced(b) ==
  dirty \cup (IF \E d \in dirty : d[1] = OffNew + b THEN {}
              ELSE {<<OffNew + b, phys[OffNew + b]>>})

HeaderAfter(b) == IF OffNew + b < H THEN "none" ELSE hdr

\* The device without the blocks in lost, of those in torn a piece is there.
Undone(lost, torn) ==
  [x \in Positions |-> IF \E d \in torn : d[1] = x THEN Garbage
                        ELSE IF \E d \in lost : d[1] = x THEN (CHOOSE d \in lost : d[1] = x)[2]
                        ELSE phys[x]]

\* With --write-log the log follows every block.
LogAfter(c, l) == IF opt.wlog THEN write_log(c) ELSE l

\* The block copied next, and the offset afterwards.
Working == IF rc.dir = "FORWARD" THEN rc.off ELSE rc.off - 1
Advanced == IF rc.dir = "FORWARD" THEN rc.off + 1 ELSE rc.off - 1
More == IF rc.dir = "FORWARD" THEN rc.off < Blocks ELSE rc.off > 0

\* What may each cost a block.
Mishaps == crashes + errors

\* n more errors.
Errors(n) == Mishaps + n <= MaxMishaps /\ errors' = errors + n

\* Every way out of the loops comes to the `(void)write_log(rc)' of copy_data:
\* nobody notices when it fails too.
last_log(n) ==
  \/ log' = write_log(rc) /\ Errors(n)
  \/ log' = log /\ Errors(n + 1)
------------------------------------------------------------------------------
\* reencrypt_luks1, one action per part.

Fail == pc' = "destroy"

\* The device is opened exclusively, identified, and the log opened.
Start ==
  /\ pc = "idle"
  /\ ~(opt.mode = "ENCRYPT" /\ hdr \in {"luks", "new"})
  /\ initialize_uuid
  /\ rc' = initialize_context(open_log.ctx)
  /\ log' = open_log.log
  /\ pc' = "passphrase"
  /\ UNCHANGED <<device, files, world>>

Passphrase ==
  /\ pc = "passphrase"
  /\ \/ /\ initialize_passphrase(rc)
        /\ pc' = IF rc.in_progress THEN "activate" ELSE "backup"
     \/ Fail
  /\ UNCHANGED <<device, log, files, rc, world>>

\* backup_luks_headers: the old header is copied, then a new one is formatted;
\* both files must be new.  The header of a decrypted device is a fake one.
backup_luks_headers ==
  /\ pc = "backup" /\ rc.mode # "ENCRYPT"
  /\ \/ /\ "org" \notin files
        /\ files' = files \cup {"org"}
        /\ pc' = IF rc.mode = "DECRYPT" THEN "fake" ELSE "format"
     \/ Fail /\ UNCHANGED files
  /\ UNCHANGED <<device, log, rc, world>>

\* backup_fake_header: in place of the missing old or new header.
backup_fake_header ==
  /\ \/ pc = "backup" /\ rc.mode = "ENCRYPT" /\ "org" \notin files
        /\ files' = files \cup {"org"} /\ pc' = "format"
     \/ pc = "fake" /\ "new" \notin files
        /\ files' = files \cup {"new"} /\ pc' = "unusable"
     \/ pc \in {"backup", "fake"} /\ rc.mode # "REENCRYPT" /\ Fail /\ UNCHANGED files
  /\ UNCHANGED <<device, log, rc, world>>

\* create_new_header: format and keyslots; a signal ends it with an error.
create_new_header ==
  /\ pc = "format"
  /\ \/ /\ "new" \notin files
        /\ files' = files \cup {"new"}
        /\ pc' = IF rc.mode = "ENCRYPT" THEN "activate" ELSE "unusable"
     \/ Fail /\ UNCHANGED files
  /\ UNCHANGED <<device, log, rc, world>>

\* Mutant: the header is read and written back as it was.
MAKE_UNUSABLEMut == hdr
MAKE_UNUSABLE == "nomagic"
\* device_check(MAKE_UNUSABLE): read, overwrite the magic, fsync.
device_check ==
  /\ pc = "unusable"
  /\ IF hdr \in {"luks", "new"}
       THEN hdr' = MAKE_UNUSABLE /\ rc' = [rc EXCEPT !.stained = TRUE] /\ pc' = "activate"
       ELSE Fail /\ UNCHANGED <<hdr, rc>>
  /\ UNCHANGED <<phys, dirty, log, files, world>>

Activate ==
  /\ pc = "activate"
  /\ IF opt.keep THEN pc' = "restore"
     ELSE IF activate_luks_headers(rc) THEN pc' = "copy" ELSE Fail
  /\ UNCHANGED <<device, log, files, rc, world>>

\* copy_data up to the loop: where to start, and the first real log.
copy_data ==
  /\ pc = "copy"
  /\ LET c == IF rc.dir = "FORWARD" THEN rc
              ELSE [rc EXCEPT !.stained = TRUE, !.off = IF rc.in_progress THEN @ ELSE Blocks]
     IN rc' = c /\ log' = write_log(c)
  /\ slip' = IF slip = "now" THEN "before" ELSE slip
  /\ pc' = "loop"
  /\ UNCHANGED <<device, files, opt, early, crashes, interrupts, errors>>
\* That log cannot be written: the backward copy has not set `stained' yet.
FirstLogFails ==
  /\ pc = "copy"
  /\ LET c == IF rc.dir = "FORWARD" \/ rc.in_progress THEN rc ELSE [rc EXCEPT !.off = Blocks]
     IN /\ rc' = c
        /\ \/ log' = write_log(c) /\ Errors(1) /\ early' = early
           \/ log' = log /\ Errors(2) /\ early' = (early \/ (rc.stained /\ ~rc.in_progress))
  /\ Fail
  /\ UNCHANGED <<device, files, opt, slip, crashes, interrupts>>

\* One block: written and not yet logged.  Decryption overwrites the header.
copy_block ==
  /\ pc = "loop" /\ More
  /\ phys' = Written(Working, NewCell(Working))
  /\ dirty' = Unsynced(Working)
  /\ hdr' = HeaderAfter(Working)
  /\ rc' = [rc EXCEPT !.off = Advanced]
  /\ pc' = "logging"
  /\ UNCHANGED <<log, files, world>>
log_block ==
  /\ pc = "logging"
  /\ log' = LogAfter(rc, log)
  /\ pc' = "syncing"
  /\ UNCHANGED <<device, files, rc, world>>
sync_block ==
  /\ pc = "syncing"
  /\ dirty' = IF opt.fsync THEN {} ELSE dirty
  /\ pc' = "loop"
  /\ UNCHANGED <<phys, hdr, log, files, rc, world>>

\* The end of the loop: the rest of a decrypted device is zeroed, the log written.
zero_rest_of_device ==
  IF rc.mode = "DECRYPT"
    THEN [x \in Positions |-> IF x >= Size /\ x < Size + H THEN Garbage ELSE phys[x]] ELSE phys
copy_done ==
  /\ pc = "loop" /\ ~More
  /\ phys' = zero_rest_of_device
  /\ last_log(0)
  /\ pc' = IF rc.mode = "DECRYPT" THEN "finish" ELSE "restore"
  /\ UNCHANGED <<dirty, hdr, files, rc, opt, early, slip, crashes, interrupts>>

\* The copy ends before its end.  A signal, whenever it came, is looked at
\* between two blocks, also after the last one; a block that cannot be read is
\* not written either.
Stop ==
  /\ interrupts < MaxInterrupts /\ interrupts' = interrupts + 1
  /\ last_log(0) /\ Fail
  /\ UNCHANGED <<device, files, rc, opt, early, slip, crashes>>
Interrupt == pc = "loop" /\ Stop
ReadFails == pc = "loop" /\ More /\ Mishaps < MaxMishaps /\ Stop

\* write() fails: nothing, all or a piece of the block is written, and the
\* offset stays.
WriteFails ==
  /\ pc = "loop" /\ More
  /\ \/ UNCHANGED device
     \/ /\ \E cell \in {NewCell(Working), Garbage} : phys' = Written(Working, cell)
        /\ dirty' = Unsynced(Working)
        /\ hdr' = HeaderAfter(Working)
  /\ last_log(1) /\ Fail
  /\ UNCHANGED <<files, rc, opt, early, slip, crashes, interrupts>>

\* write() writes a piece, which is taken for the whole block.  The backward copy
\* seeks before the next one, the forward copy goes on where that piece ends.
ShortWrite ==
  /\ pc = "loop" /\ More /\ Errors(1)
  /\ phys' = Written(Working, Garbage)
  /\ dirty' = Unsynced(Working)
  /\ hdr' = HeaderAfter(Working)
  /\ slip' = IF rc.dir = "FORWARD" THEN "now" ELSE slip
  /\ rc' = [rc EXCEPT !.off = Advanced]
  /\ pc' = "logging"
  /\ UNCHANGED <<log, files, opt, early, crashes, interrupts>>

\* The log of a block fails: the block is neither logged nor synced.
LogFails ==
  /\ pc = "logging" /\ opt.wlog
  /\ last_log(1) /\ Fail
  /\ UNCHANGED <<device, files, rc, opt, early, slip, crashes, interrupts>>

\* fsync() fails: the offset is past blocks that may not have reached the medium.
SyncFails ==
  /\ pc = "syncing" /\ opt.fsync
  /\ \E lost, torn \in SUBSET dirty : phys' = Undone(lost, torn)
  /\ dirty' = {}
  /\ last_log(1) /\ Fail
  /\ UNCHANGED <<hdr, files, rc, opt, early, slip, crashes, interrupts>>

\* Mutant: the device is left with the header marked unusable.
RestoreMut == hdr
\* The header of the device after crypt_header_restore.
restore_luks_header == "new"
Restore ==
  /\ pc = "restore"
  /\ IF "new" \in files
       THEN hdr' = restore_luks_header /\ rc' = [rc EXCEPT !.stained = FALSE] /\ pc' = "destroy"
       ELSE Fail /\ UNCHANGED <<hdr, rc>>
  /\ UNCHANGED <<phys, dirty, log, files, world>>
Finish ==
  /\ pc = "finish"
  /\ rc' = [rc EXCEPT !.stained = FALSE]
  /\ pc' = "destroy"
  /\ UNCHANGED <<device, log, files, world>>

\* Mutant: the files are removed whatever happened.
KeepsFilesMut(c) == FALSE
KeepsFiles(c) == c.stained
\* destroy_context: the log is unlinked before the headers.
destroy_context ==
  /\ pc = "destroy"
  /\ IF KeepsFiles(rc) THEN pc' = "idle" /\ UNCHANGED log ELSE log' = << >> /\ pc' = "unlink"
  /\ UNCHANGED <<device, files, rc, world>>

Finished == \/ opt.mode # "DECRYPT" /\ hdr = "new"
            \/ opt.mode = "DECRYPT" /\ OffNew = 0 /\ rc.off = Blocks /\ rc.mode = "DECRYPT"
unlink_headers ==
  /\ pc = "unlink"
  /\ files' = {}
  /\ pc' = IF Finished THEN "done" ELSE "idle"
  /\ UNCHANGED <<device, log, rc, world>>
------------------------------------------------------------------------------
\* The process is killed: what it has written stays.
Running == pc \notin {"idle", "done"}
EarlyPhases == {"passphrase", "backup", "fake", "format", "unusable", "activate", "copy"}
Crashed ==
  /\ crashes' = crashes + 1
  /\ early' = (early \/ (~rc.in_progress /\ (pc \in EarlyPhases
                                               \/ (pc = "destroy" /\ ~rc.stained /\ ~Finished))))
  /\ pc' = IF pc = "unlink" /\ Finished THEN "done" ELSE "idle"
  /\ rc' = NoCtx
  /\ UNCHANGED <<opt, hdr, log, files, slip, interrupts, errors>>
Kill ==
  /\ Running /\ Mishaps < MaxMishaps
  /\ Crashed /\ UNCHANGED <<phys, dirty>>

\* Power fails while the tool runs with --use-fsync: any of the unsynced
\* blocks are lost; the log is opened with O_SYNC.
PowerFail ==
  /\ Running /\ Mishaps < MaxMishaps /\ opt.fsync
  /\ \E lost, torn \in SUBSET dirty : phys' = Undone(lost, torn)
  /\ dirty' = {}
  /\ Crashed

\* ENCRYPT whose header was restored before a crash: the tool refuses.
Done == pc = "idle" /\ opt.mode = "ENCRYPT" /\ hdr = "new" /\ pc' = "done"
        /\ UNCHANGED <<device, log, files, rc, world>>
Terminated == pc = "done" /\ UNCHANGED vars
------------------------------------------------------------------------------
Init ==
  /\ opt \in Options
  /\ phys = [x \in Positions |-> IF x >= OffOld /\ x < OffOld + Size
                                   THEN Cell(x - OffOld, KeyOld) ELSE Garbage]
  /\ dirty = {} /\ log = << >> /\ files = {} /\ rc = NoCtx /\ pc = "idle"
  /\ hdr = IF opt.mode = "ENCRYPT" THEN "none" ELSE "luks"
  /\ early = FALSE /\ slip = "no" /\ crashes = 0 /\ interrupts = 0 /\ errors = 0

Tool ==
  \/ Start \/ Passphrase \/ backup_luks_headers \/ backup_fake_header
  \/ create_new_header \/ device_check \/ Activate \/ copy_data \/ copy_block
  \/ log_block \/ sync_block \/ copy_done \/ Restore \/ Finish
  \/ destroy_context \/ unlink_headers \/ Done
Fault ==
  \/ FirstLogFails \/ ReadFails \/ WriteFails \/ ShortWrite \/ LogFails \/ SyncFails
  \/ Kill \/ PowerFail
Next == Tool \/ Interrupt \/ Fault \/ Terminated

\* The user runs the command again until it ends well, the tool is scheduled,
\* and a passphrase or a signal does not fail it for ever.
Spec ==
  /\ Init /\ [][Next]_vars
  /\ WF_vars(Tool)
  /\ SF_vars(Passphrase /\ pc' # "destroy")
  /\ SF_vars(backup_luks_headers /\ pc' # "destroy")
  /\ SF_vars(backup_fake_header /\ pc' # "destroy")
  /\ SF_vars(create_new_header /\ pc' # "destroy")
------------------------------------------------------------------------------
\* Properties.

\* Blocks a user can still get at: with the new header, or with the old one
\* from the device or from the backup file.
OldHeader == opt.mode = "ENCRYPT" \/ hdr \in {"luks", "nomagic"} \/ "org" \in files
NewHeader == opt.mode = "DECRYPT" \/ hdr = "new" \/ "new" \in files
Readable(b) ==
  \/ OldHeader /\ phys[OffOld + b] = Cell(b, KeyOld)
  \/ NewHeader /\ phys[OffNew + b] = Cell(b, KeyNew)
Lost == {b \in 0..(Blocks - 1) : ~Readable(b)}

\* Whether the log can be relied on: it can without --write-log only if nothing
\* went wrong.
Logged == opt.wlog \/ Mishaps = 0
CopiedButFor(n) ==
  \/ ~Logged
  \/ Cardinality({b \in 0..(Blocks - 1) : phys[OffNew + b] # Cell(b, KeyNew)}) <= n
ForwardEncrypt == opt.mode = "ENCRYPT" /\ opt.shift = 0

Dirs  == {"FORWARD", "BACKWARD"}
Modes == {"REENCRYPT", "ENCRYPT", "DECRYPT"}
Logs  == [dir : Dirs, mode : Modes, off : 0..Blocks]
LogFiles == {<< >>} \cup {<<l>> : l \in Logs}
Cells == [blk : 0..Size, key : {"plain", "old", "new"}]

\* The context, the log and the device stay within their ranges; the offset
\* never leaves the device.
TypeOK ==
  /\ opt \in Options
  /\ phys \in [Positions -> Cells] /\ dirty \subseteq Positions \X Cells
  /\ hdr \in {"luks", "nomagic", "new", "none"} /\ files \subseteq {"org", "new"}
  /\ log \in LogFiles
  /\ rc \in [in_progress : BOOLEAN, stained : BOOLEAN, dir : Dirs, mode : Modes, off : 0..(Size + 1)]
  /\ pc \in {"loop", "logging", "syncing"} => rc.off <= Blocks
  /\ pc \in EarlyPhases /\ (rc.in_progress \/ rc.dir = "FORWARD") => rc.off <= Blocks
  /\ pc \in EarlyPhases \cup {"idle", "loop", "logging", "syncing", "restore", "finish", "destroy", "unlink", "done"}
  /\ early \in BOOLEAN /\ slip \in {"no", "now", "before"}
  /\ crashes \in 0..MaxMishaps /\ interrupts \in 0..MaxInterrupts /\ errors \in 0..MaxMishaps

\* Exceptions of the properties that follow.  A resumed run takes the log of
\* open_log for its own (early), encryption that copies forward removes the
\* files (ForwardEncrypt, the finding), and after a short write a forward copy
\* writes the rest of its blocks at the wrong place (slip).
Excepted == early \/ ForwardEncrypt \/ slip # "no"

\* With --write-log (and --use-fsync against power failures) a crash costs at
\* most one block, also when it hits again after a resume, and so does an error
\* of the device or of the log, at whatever point of a block; signals and blocks
\* that cannot be read cost nothing, nor do they without --write-log
\* (copy_data_forward, copy_data_backward, write_log, destroy_context).
LossBounded == Excepted \/ ~Logged \/ Cardinality(Lost) <= Mishaps

\* While the device holds data of both keys its header cannot be activated,
\* and the log says how to go on (device_check, restore_luks_header).
MixedIsUnusable ==
  \/ Excepted \/ opt.mode = "ENCRYPT" \/ opt.keep
  \/ \A b \in 0..(Blocks - 1) : phys[OffNew + b] # Cell(b, KeyNew)
  \/ hdr \in {"nomagic", "none"} /\ (log # << >> \/ pc \in {"unlink", "done"})
  \/ hdr = "new" /\ CopiedButFor(Mishaps)

\* When the tool has ended well every block, but for one per crash or error, is
\* stored with the new key where the new header looks for it, and without a
\* crash no file is left.
FinishedIsNew ==
  pc = "done" =>
    /\ Excepted \/ CopiedButFor(Mishaps)
    /\ crashes = 0 /\ ~early => (log = << >> /\ files = {})

\* Run again often enough the tool completes, unless it was killed, or failed
\* to write the log twice, before copy_data had written its first log.
Completes == <>(pc = "done" \/ early)

\* The manual: "Reencryption process may be safely interrupted by a user via
\* SIGINT signal (ctrl+c)": without a crash no block is ever lost.
InterruptIsSafe == crashes = 0 => Lost = {}
==============================================================================
