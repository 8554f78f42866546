---------------------------- MODULE OnlineStack ----------------------------
(***************************************************************************)
(* Online LUKS2 reencryption: the stack of device-mapper devices under an  *)
(* active mapping while crypt_reencrypt_run converts the chunks below it,  *)
(* and the commands that race with it (open, close, repair).               *)
(*                                                                         *)
(*   name     the mapping its users hold open; during a run dm-linear over *)
(*   overlay  the segments of the header; the chunk in conversion is       *)
(*            mapped, under the new key, to                                *)
(*   hotzone  dm-linear over the data device, suspended while the chunk    *)
(*            is read, converted and committed.                            *)
(*                                                                         *)
(* One user writes chunks through name; a bio moves down the stack, waits  *)
(* at a suspended device and fails at a dm-error target.  Suspending a     *)
(* device waits for the bios it has passed on.  A chunk on the data device *)
(* is its key and its contents; Reencrypt has the conversion and the       *)
(* recovery in detail, and both are one step each here.                    *)
(***************************************************************************)
EXTENDS Naturals

CONSTANTS
  N,           \* chunks of the data device
  Procs,       \* processes
  Detached,    \* the header is detached: close is given no header
  MaxCommands, \* bound on commands
  MaxMishaps,  \* bound on failed calls, kills and reboots
  MaxWrites    \* bound on the user's writes

ASSUME OnlineConstants ==
  /\ N \in Nat \ {0} /\ Detached \in BOOLEAN
  /\ MaxCommands \in Nat /\ MaxMishaps \in Nat /\ MaxWrites \in Nat

VARIABLES
  hdr,      \* LUKS2 header on disk: reencryption status, chunks done, journal
  disk,     \* data device: chunk -> key and contents
  last,     \* chunk -> contents of the last completed write
  dm,       \* name, overlay, hotzone
  users,    \* name is held open
  bio,      \* the user's write in flight
  proc,     \* processes
  lock,     \* who holds the reencryption lock of this header's uuid
  nulllock, \* who holds the lock named after no uuid
  excl,     \* who has the data device open exclusively
  stale,    \* name was once activated from a header read before a reencryption
  commands, mishaps, writes

stack  == <<hdr, disk, last, dm>>
locks  == <<lock, nulllock, excl>>
user   == <<users, bio, writes>>
vars   == <<stack, user, proc, locks, stale, commands, mishaps>>

-----------------------------------------------------------------------------
(* Devices.  A table is direct(k) (the segments with k chunks done), hot(k)
   (the same with chunk k+1 over the hotzone), linear (over the overlay),
   map (over the data device) or error. *)

Tab(t, k) == [t |-> t, k |-> k]
NoTab == Tab("none", 0)
NoDev == [live |-> NoTab, inactive |-> NoTab, susp |-> FALSE]

Exists(d) == dm[d].live # NoTab
Below(tab) == CASE tab.t = "linear" -> {"overlay"} [] tab.t = "hot" -> {"hotzone"} [] OTHER -> {}
OpenedBy(d) == {e \in DOMAIN dm : d \in Below(dm[e].live) \cup Below(dm[e].inactive)}

CanRemove(d) == /\ Exists(d)
                /\ OpenedBy(d) = {}
                /\ d = "name" => ~users
Removed(d) == IF CanRemove(d) THEN [dm EXCEPT ![d] = NoDev] ELSE dm
Loaded(d, tab) == [dm EXCEPT ![d].inactive = tab]
Suspended(d) == [dm EXCEPT ![d].susp = TRUE]
Resumed(d) ==
  [dm EXCEPT ![d] = [live |-> IF @.inactive = NoTab THEN @.live ELSE @.inactive,
                     inactive |-> NoTab, susp |-> FALSE]]
Errored(d) == [dm EXCEPT ![d] = [NoDev EXCEPT !.live = Tab("error", 0)]]

\* DEV_EXCL: neither a mapping nor an exclusive open holds the data device.
DeviceFree ==
  /\ excl = {}
  /\ \A d \in DOMAIN dm : {dm[d].live.t, dm[d].inactive.t} \cap {"direct", "hot", "map"} = {}

\* The key of a chunk in the segments with k chunks done.
KeyOf(k, i) == IF i <= k THEN "new" ELSE "old"

-----------------------------------------------------------------------------
(* Bios *)

NoBio == [i |-> 0, at |-> "none", key |-> "none", through |-> {}]
InFlight(d) == d \in bio.through

\* Chunk i, under the key of a crypt segment, reaches the data device.
Lands(i, key) ==
  LET v == 1 - last[i]
  IN  /\ disk' = [disk EXCEPT ![i] = [key |-> key, val |-> v]]
      /\ last' = [last EXCEPT ![i] = v]
      /\ bio' = NoBio

Passes(d, key) ==
  /\ bio' = [bio EXCEPT !.at = d, !.key = key, !.through = @ \cup {bio.at}]
  /\ UNCHANGED <<disk, last>>

\* The device the bio waits at maps it, unless it is suspended.
BioStep ==
  /\ bio # NoBio /\ ~dm[bio.at].susp
  /\ LET tab == dm[bio.at].live
     IN  \/ tab.t = "direct" /\ Lands(bio.i, KeyOf(tab.k, bio.i))
         \/ tab.t = "linear" /\ Passes("overlay", "none")
         \/ tab.t = "hot" /\ bio.i = tab.k + 1 /\ Passes("hotzone", "new")
         \/ tab.t = "hot" /\ bio.i # tab.k + 1 /\ Lands(bio.i, KeyOf(tab.k, bio.i))
         \/ tab.t = "map" /\ Lands(bio.i, bio.key)
         \/ tab.t = "error" /\ bio' = NoBio /\ UNCHANGED <<disk, last>>
  /\ UNCHANGED <<hdr, dm, users, writes, proc, locks, stale, commands, mishaps>>

Submit(i) ==
  /\ users /\ bio = NoBio /\ writes < MaxWrites
  /\ bio' = [NoBio EXCEPT !.i = i, !.at = "name"]
  /\ writes' = writes + 1
  /\ UNCHANGED <<stack, users, proc, locks, stale, commands, mishaps>>

UserOpen == /\ ~users /\ Exists("name")
            /\ users' = TRUE
            /\ UNCHANGED <<stack, bio, writes, proc, locks, stale, commands, mishaps>>
UserClose == /\ users /\ bio = NoBio
             /\ users' = FALSE
             /\ UNCHANGED <<stack, bio, writes, proc, locks, stale, commands, mishaps>>

-----------------------------------------------------------------------------
(* Processes *)

Idle == [pc |-> "idle", online |-> FALSE, k |-> 0, buf |-> 0, deps |-> {}, seen |-> "none"]

Step(p, pc) == proc' = [proc EXCEPT ![p].pc = pc]
End(p) == /\ proc' = [proc EXCEPT ![p] = Idle]
          /\ lock' = lock \ {p} /\ nulllock' = nulllock \ {p} /\ excl' = excl \ {p}
Quiet == UNCHANGED <<user, stale, commands>>

\* A system call that could work may fail; one that cannot work does.
Works == mishaps' = mishaps
FailsIf(can) == /\ can => mishaps < MaxMishaps
                /\ mishaps' = IF can THEN mishaps + 1 ELSE mishaps
Fails == FailsIf(TRUE)

\* A failed step of the run ends it: everything but REENC_OK leaves the stack
\* as it is and frees the context and its lock.
reencrypt_teardown(p) == End(p) /\ Quiet /\ UNCHANGED stack

\* A dm call of the run: it does its work and goes on, or the run fails.
DmCall(p, pc, can, d, next) ==
  /\ proc[p].pc = pc
  /\ \/ can /\ Works /\ dm' = d /\ Step(p, next) /\ Quiet /\ UNCHANGED <<hdr, disk, last, locks>>
     \/ FailsIf(can) /\ reencrypt_teardown(p)

-----------------------------------------------------------------------------
(* cryptsetup reencrypt: initialise or load, then run. *)

StatusNone == hdr.state \in {"none", "done"}

\* The command looks for the active mapping first; reencrypt_init then writes
\* the header, under its lock, when there is no reencryption in it yet.
StartReencrypt(p) ==
  /\ proc[p] = Idle /\ commands < MaxCommands /\ hdr.state # "done"
  /\ commands' = commands + 1
  /\ proc' = [proc EXCEPT ![p] = [Idle EXCEPT !.pc = "rinit", !.online = Exists("name")]]
  /\ UNCHANGED <<stack, user, locks, stale, mishaps>>

reencrypt_init(p) ==
  /\ proc[p].pc = "rinit"
  /\ hdr' = IF hdr.state = "none" THEN [hdr EXCEPT !.state = "clean"] ELSE hdr
  /\ Step(p, "rload")
  /\ Quiet /\ UNCHANGED <<disk, last, dm, locks, mishaps>>

\* reencrypt_lock_and_verify, the comparison of the active mapping with the
\* header's segments, or the exclusive open of an inactive device.
LoadOK(p) ==
  /\ lock = {} /\ hdr.state = "clean"
  /\ IF proc[p].online THEN dm["name"].live = Tab("direct", hdr.done) ELSE DeviceFree

reencrypt_load_by_passphrase(p) ==
  /\ proc[p].pc = "rload"
  /\ \/ /\ LoadOK(p)
        /\ lock' = lock \cup {p}
        /\ excl' = IF proc[p].online THEN excl ELSE excl \cup {p}
        /\ proc' = [proc EXCEPT ![p].pc = IF proc[p].online THEN "stack1" ELSE "rloop",
                                ![p].k = hdr.done]
        /\ Quiet /\ UNCHANGED <<stack, nulllock, mishaps>>
     \/ ~LoadOK(p) /\ Works /\ reencrypt_teardown(p)

\* reencrypt_init_device_stack: a failure after the first device removes the
\* helpers, as far as they are free.
reencrypt_activate_hotzone_device(p) ==
  DmCall(p, "stack1", ~Exists("hotzone"), [dm EXCEPT !["hotzone"].live = Tab("map", 0)], "stack2")

StackCall(p, pc, can, d, next) ==
  /\ proc[p].pc = pc
  /\ Quiet /\ UNCHANGED <<hdr, disk, last, locks>>
  /\ \/ can /\ Works /\ dm' = d /\ Step(p, next)
     \/ FailsIf(can) /\ UNCHANGED dm /\ Step(p, "undo1")

reencrypt_replace_device(p) ==
  StackCall(p, "stack2", Exists("name"),
            [dm EXCEPT !["overlay"] = [NoDev EXCEPT !.live = dm["name"].live]], "stack3")
SwapLoad(p) ==
  StackCall(p, "stack3", Exists("name") /\ Exists("overlay"), Loaded("name", Tab("linear", 0)), "stack4")
SwapResume(p) ==
  ~InFlight("name") /\ StackCall(p, "stack4", Exists("name"), Resumed("name"), "rloop")

StackUndo1(p) ==
  /\ proc[p].pc = "undo1"
  /\ dm' = Removed("overlay") /\ Step(p, "undo2")
  /\ Quiet /\ UNCHANGED <<hdr, disk, last, locks, mishaps>>
StackUndo2(p) ==
  /\ proc[p].pc = "undo2"
  /\ dm' = Removed("hotzone") /\ End(p)
  /\ Quiet /\ UNCHANGED <<hdr, disk, last, mishaps>>

-----------------------------------------------------------------------------
(* crypt_reencrypt_run and reencrypt_step *)

\* The loop ends when all is converted, or when the progress callback says so.
crypt_reencrypt_run(p) ==
  /\ proc[p].pc = "rloop"
  /\ \/ proc[p].k < N /\ Step(p, IF proc[p].online THEN "oload" ELSE "read")
     \/ Step(p, IF proc[p].online THEN "tload" ELSE "tend")
  /\ Quiet /\ UNCHANGED <<stack, locks, mishaps>>

reencrypt_load_overlay_device(p) ==
  DmCall(p, "oload", Exists("overlay") /\ Exists("hotzone"),
         Loaded("overlay", Tab("hot", proc[p].k)), "osusp")

\* reenc_refresh_helper_devices: suspend the stack from top to bottom.
SuspendOverlay(p) == DmCall(p, "osusp", Exists("overlay"), Suspended("overlay"), "hsusp")
\* Mutant: the hotzone is left running while it is converted.
SuspendHotzoneMut(p) ==
  ~InFlight("overlay") /\ DmCall(p, "hsusp", Exists("hotzone"), dm, "ores")

SuspendHotzone(p) ==
  ~InFlight("overlay") /\ DmCall(p, "hsusp", Exists("hotzone"), Suspended("hotzone"), "ores")
ResumeOverlay(p) ==
  ~InFlight("hotzone") /\ DmCall(p, "ores", Exists("overlay"), Resumed("overlay"), "read")

ReadHotzone(p) ==
  /\ proc[p].pc = "read"
  /\ \/ /\ Works
        /\ proc' = [proc EXCEPT ![p].pc = "protect",
                                ![p].buf = IF disk[proc[p].k + 1].key = "old"
                                           THEN disk[proc[p].k + 1].val ELSE 2]
        /\ Quiet /\ UNCHANGED <<stack, locks>>
     \/ Fails /\ reencrypt_teardown(p)

reencrypt_hotzone_protect_final(p) ==
  /\ proc[p].pc = "protect"
  /\ \/ /\ Works
        /\ hdr' = [hdr EXCEPT !.state = "hot", !.saved = proc[p].buf]
        /\ Step(p, "write")
        /\ Quiet /\ UNCHANGED <<disk, last, dm, locks>>
     \/ Fails /\ reencrypt_teardown(p)

\* REENC_FATAL: the suspended hotzone becomes dm-error.
reencrypt_teardown_fatal(p) ==
  /\ dm' = IF proc[p].online /\ dm["hotzone"].susp THEN Errored("hotzone") ELSE dm
  /\ End(p) /\ Quiet

WriteHotzone(p) ==
  /\ proc[p].pc = "write"
  /\ \/ /\ Works
        /\ disk' = [disk EXCEPT ![proc[p].k + 1] = [key |-> "new", val |-> proc[p].buf]]
        /\ Step(p, "commit")
        /\ Quiet /\ UNCHANGED <<hdr, last, dm, locks>>
     \/ /\ Fails
        /\ disk' = [disk EXCEPT ![proc[p].k + 1] = [key |-> "torn", val |-> 2]]
        /\ reencrypt_teardown_fatal(p) /\ UNCHANGED <<hdr, last>>

CommitHotzone(p) ==
  /\ proc[p].pc = "commit"
  /\ \/ /\ Works
        /\ hdr' = [hdr EXCEPT !.state = "clean", !.done = proc[p].k + 1]
        /\ proc' = [proc EXCEPT ![p].pc = IF proc[p].online THEN "hres" ELSE "rloop", ![p].k = @ + 1]
        /\ Quiet /\ UNCHANGED <<disk, last, dm, locks>>
     \/ Fails /\ reencrypt_teardown_fatal(p) /\ UNCHANGED <<hdr, disk, last>>

\* Mutant: the hotzone stays suspended between two chunks.
ResumeHotzoneMut(p) == DmCall(p, "hres", Exists("hotzone"), dm, "rloop")

ResumeHotzone(p) == DmCall(p, "hres", Exists("hotzone"), Resumed("hotzone"), "rloop")

\* reencrypt_teardown_ok: a failed reload or resume of name is reported, and
\* the helpers are removed all the same if they are free.
TeardownReload(p) ==
  /\ proc[p].pc = "tload"
  /\ \/ Exists("name") /\ Works /\ dm' = Loaded("name", Tab("direct", proc[p].k)) /\ Step(p, "tres")
     \/ FailsIf(Exists("name")) /\ UNCHANGED dm /\ Step(p, "trmo")
  /\ Quiet /\ UNCHANGED <<hdr, disk, last, locks>>
TeardownResume(p) ==
  /\ proc[p].pc = "tres" /\ ~InFlight("name")
  /\ \/ Exists("name") /\ Works /\ dm' = Resumed("name")
     \/ FailsIf(Exists("name")) /\ UNCHANGED dm
  /\ Step(p, "trmo")
  /\ Quiet /\ UNCHANGED <<hdr, disk, last, locks>>
TeardownRemove(p) ==
  /\ \/ proc[p].pc = "trmo" /\ dm' = Removed("overlay") /\ Step(p, "trmh")
     \/ proc[p].pc = "trmh" /\ dm' = Removed("hotzone") /\ Step(p, "tend")
  /\ Quiet /\ UNCHANGED <<hdr, disk, last, locks, mishaps>>

\* When finished: the old keyslots, the requirement and the reencryption
\* keyslot go.
TeardownFinish(p) ==
  /\ proc[p].pc = "tend"
  /\ hdr' = IF proc[p].k = N THEN [hdr EXCEPT !.state = "done"] ELSE hdr
  /\ End(p)
  /\ Quiet /\ UNCHANGED <<disk, last, dm, mishaps>>

-----------------------------------------------------------------------------
(* cryptsetup close: LUKS2_deactivate *)

\* dm_device_deps follows the live tables.
dm_device_deps(d) == Below(dm[d].live) \cup UNION {Below(dm[e].live) : e \in Below(dm[d].live)}

\* is_reencryption_helper compares the last eight characters of the name with
\* "-overlay" and with "-hotzone-", which has nine: no hotzone name matches.
is_reencryption_helper(d) == d = "overlay"

StartClose(p) ==
  /\ proc[p] = Idle /\ commands < MaxCommands /\ Exists("name")
  /\ commands' = commands + 1
  /\ proc' = [proc EXCEPT ![p] = [Idle EXCEPT !.pc = "cdeps"]]
  /\ UNCHANGED <<stack, user, locks, stale, mishaps>>

\* LUKS2_reencrypt_lock_by_dm_uuid: a context without a header has no uuid;
\* the one taken from the mapping's uuid is not what is passed on, and the
\* lock is that of the uuid "(null)".
LockByDmUuid(p) ==
  /\ lock' = IF Detached THEN lock ELSE {p}
  /\ nulllock' = IF Detached THEN {p} ELSE nulllock
\* Mutant: close looks at the lock of the missing uuid only.
LockBusyMut == nulllock # {}

LockBusy == IF Detached THEN nulllock # {} ELSE lock # {}

CloseDeps(p) ==
  /\ proc[p].pc = "cdeps"
  /\ LET deps == dm_device_deps("name")
         helper == \E d \in deps : is_reencryption_helper(d)
     IN  \/ /\ Exists("name")
            /\ \/ helper /\ ~LockBusy /\ LockByDmUuid(p)
               \/ ~helper /\ UNCHANGED <<lock, nulllock>>
            /\ proc' = [proc EXCEPT ![p].pc = "cerr", ![p].deps = deps]
            /\ UNCHANGED excl
         \/ /\ ~Exists("name") \/ (helper /\ LockBusy)
            /\ End(p)
  /\ Quiet /\ UNCHANGED <<stack, mishaps>>

\* Suspended helpers become dm-error so that nothing waits for them.
CloseError(p) ==
  /\ proc[p].pc = "cerr"
  /\ dm' = [d \in DOMAIN dm |->
              IF d \in proc[p].deps /\ is_reencryption_helper(d) /\ dm[d].susp
              THEN Errored(d)[d] ELSE dm[d]]
  /\ Step(p, "crm")
  /\ Quiet /\ UNCHANGED <<hdr, disk, last, locks, mishaps>>

CloseRemove(p) ==
  /\ proc[p].pc = "crm"
  /\ \/ CanRemove("name") /\ dm' = Removed("name") /\ Step(p, "crmo") /\ UNCHANGED locks
     \/ ~CanRemove("name") /\ End(p) /\ UNCHANGED dm
  /\ Quiet /\ UNCHANGED <<hdr, disk, last, mishaps>>
CloseDep(p) ==
  /\ \/ /\ proc[p].pc = "crmo" /\ Step(p, "crmh") /\ UNCHANGED locks
        /\ dm' = IF "overlay" \in proc[p].deps THEN Removed("overlay") ELSE dm
     \/ /\ proc[p].pc = "crmh" /\ End(p)
        /\ dm' = IF "hotzone" \in proc[p].deps THEN Removed("hotzone") ELSE dm
  /\ Quiet /\ UNCHANGED <<hdr, disk, last, mishaps>>

-----------------------------------------------------------------------------
(* cryptsetup open and repair *)

\* The header is read, and then the user types a passphrase.
StartOpen(p) ==
  /\ proc[p] = Idle /\ commands < MaxCommands /\ ~Exists("name")
  /\ commands' = commands + 1
  /\ proc' = [proc EXCEPT ![p] = [Idle EXCEPT !.pc = "okey", !.seen = hdr.state]]
  /\ UNCHANGED <<stack, user, locks, stale, mishaps>>

StartRepair(p) ==
  /\ proc[p] = Idle /\ commands < MaxCommands /\ hdr.state = "hot"
  /\ commands' = commands + 1
  /\ proc' = [proc EXCEPT ![p] = [Idle EXCEPT !.pc = "repair"]]
  /\ UNCHANGED <<stack, user, locks, stale, mishaps>>

\* Recovery completes the hotzone from the journal, and the reencryption with
\* it when it was the last one.
Recovered == [hdr EXCEPT !.done = @ + 1, !.state = IF hdr.done + 1 = N THEN "done" ELSE "clean"]
LUKS2_reencrypt_locked_recovery(h) ==
  /\ hdr' = h
  /\ disk' = IF hdr.state = "hot"
             THEN [disk EXCEPT ![hdr.done + 1] = [key |-> "new", val |-> hdr.saved]] ELSE disk

reencrypt_recovery_by_passphrase(p) ==
  /\ proc[p].pc = "repair" /\ End(p)
  /\ \/ lock = {} /\ hdr.state = "hot" /\ DeviceFree /\ LUKS2_reencrypt_locked_recovery(Recovered)
     \/ ~(lock = {} /\ hdr.state = "hot" /\ DeviceFree) /\ UNCHANGED <<hdr, disk>>
  /\ Quiet /\ UNCHANGED <<last, dm, mishaps>>

Activated(k) == [dm EXCEPT !["name"] = [NoDev EXCEPT !.live = Tab("direct", k)]]
CanActivate == DeviceFree /\ ~Exists("name")
OldKeyslot(p) == proc[p].seen = "none" => hdr.state # "done"

\* The context says there is no reencryption: the device is mapped from the
\* segments read at the start.  Its keyslot must still be there.
_open_and_activate(p) ==
  /\ proc[p].pc = "okey" /\ proc[p].seen \in {"none", "done"} /\ End(p)
  /\ \/ /\ OldKeyslot(p) /\ CanActivate
        /\ dm' = Activated(IF proc[p].seen = "none" THEN 0 ELSE N)
        /\ stale' = (stale \/ proc[p].seen # hdr.state)
     \/ /\ ~(OldKeyslot(p) /\ CanActivate)
        /\ UNCHANGED <<dm, stale>>
  /\ UNCHANGED <<hdr, disk, last, user, commands, mishaps>>

\* Otherwise the header is read again under the reencryption lock, recovered
\* if need be, and the device mapped from it.
_open_and_activate_reencrypt_device(p) ==
  /\ proc[p].pc = "okey" /\ proc[p].seen \in {"clean", "hot"} /\ End(p)
  /\ \/ /\ lock = {} /\ CanActivate
        /\ LET h == IF hdr.state = "hot" THEN Recovered ELSE hdr
           IN  /\ LUKS2_reencrypt_locked_recovery(h)
               /\ dm' = Activated(h.done)
     \/ /\ ~(lock = {} /\ CanActivate)
        /\ UNCHANGED <<hdr, disk, dm>>
  /\ UNCHANGED <<last, user, stale, commands, mishaps>>

-----------------------------------------------------------------------------
(* Mishaps *)

Kill(p) ==
  /\ proc[p] # Idle /\ Fails /\ End(p)
  /\ Quiet /\ UNCHANGED stack

Reboot ==
  /\ Fails
  /\ dm' = [d \in DOMAIN dm |-> NoDev]
  /\ users' = FALSE /\ bio' = NoBio
  /\ proc' = [p \in Procs |-> Idle]
  /\ lock' = {} /\ nulllock' = {} /\ excl' = {}
  /\ UNCHANGED <<hdr, disk, last, writes, stale, commands>>

-----------------------------------------------------------------------------

Init ==
  /\ hdr = [state |-> "none", done |-> 0, saved |-> 0]
  /\ disk = [i \in 1..N |-> [key |-> "old", val |-> 0]]
  /\ last = [i \in 1..N |-> 0]
  /\ dm \in {[d \in {"name", "overlay", "hotzone"} |->
                IF d = "name" THEN [NoDev EXCEPT !.live = t] ELSE NoDev] : t \in {NoTab, Tab("direct", 0)}}
  /\ users = FALSE /\ bio = NoBio /\ writes = 0
  /\ proc = [p \in Procs |-> Idle]
  /\ lock = {} /\ nulllock = {} /\ excl = {}
  /\ stale = FALSE /\ commands = 0 /\ mishaps = 0

ReencryptStep(p) ==
  \/ reencrypt_init(p) \/ reencrypt_load_by_passphrase(p)
  \/ reencrypt_activate_hotzone_device(p) \/ reencrypt_replace_device(p)
  \/ SwapLoad(p) \/ SwapResume(p) \/ StackUndo1(p) \/ StackUndo2(p)
  \/ crypt_reencrypt_run(p) \/ reencrypt_load_overlay_device(p)
  \/ SuspendOverlay(p) \/ SuspendHotzone(p) \/ ResumeOverlay(p)
  \/ ReadHotzone(p) \/ reencrypt_hotzone_protect_final(p) \/ WriteHotzone(p)
  \/ CommitHotzone(p) \/ ResumeHotzone(p)
  \/ TeardownReload(p) \/ TeardownResume(p) \/ TeardownRemove(p) \/ TeardownFinish(p)
CloseStep(p) == CloseDeps(p) \/ CloseError(p) \/ CloseRemove(p) \/ CloseDep(p)
OpenStep(p) ==
  \/ reencrypt_recovery_by_passphrase(p)
  \/ _open_and_activate(p) \/ _open_and_activate_reencrypt_device(p)

Next ==
  \/ BioStep \/ UserOpen \/ UserClose \/ \E i \in 1..N : Submit(i)
  \/ \E p \in Procs :
       \/ StartReencrypt(p) \/ StartClose(p) \/ StartOpen(p) \/ StartRepair(p)
       \/ ReencryptStep(p) \/ CloseStep(p) \/ OpenStep(p) \/ Kill(p)
  \/ Reboot

\* A started run goes on (its process is scheduled and the kernel answers),
\* and the kernel moves bios.
Spec == /\ Init /\ [][Next]_vars
        /\ WF_vars(BioStep)
        /\ \A p \in Procs : WF_vars(ReencryptStep(p) \/ CloseStep(p))

-----------------------------------------------------------------------------
(* Properties *)

Devices == {"name", "overlay", "hotzone"}
Tabs == {NoTab} \cup [t : {"direct", "hot", "linear", "map", "error"}, k : 0..N]
Devs == [live : Tabs, inactive : Tabs, susp : BOOLEAN]
Pcs == {"idle", "rinit", "rload", "stack1", "stack2", "stack3", "stack4", "undo1", "undo2", "rloop", "oload",
        "osusp", "hsusp", "ores", "read", "protect", "write", "commit", "hres", "tload", "tres", "trmo", "trmh",
        "tend", "cdeps", "cerr", "crm", "crmo", "crmh", "okey", "repair"}
States == {"none", "clean", "hot", "done"}
Calls == [pc : Pcs, online : BOOLEAN, k : 0..N, buf : 0..2, deps : SUBSET Devices, seen : States]

\* The type of the state; what is left of a device that is gone is nothing.
TypeOK ==
  /\ hdr \in [state : States, done : 0..N, saved : 0..2]
  /\ disk \in [1..N -> [key : {"old", "new", "torn"}, val : 0..2]]
  /\ last \in [1..N -> 0..1]
  /\ dm \in [Devices -> Devs] /\ \A d \in Devices : ~Exists(d) => dm[d] = NoDev
  /\ users \in BOOLEAN /\ stale \in BOOLEAN
  /\ bio \in [i : 0..N, at : Devices \cup {"none"}, key : {"none", "new"}, through : SUBSET Devices]
  /\ proc \in [Procs -> Calls]
  /\ lock \subseteq Procs /\ excl \subseteq Procs

\* The key under which a user of name reaches chunk i, "none" when the I/O
\* waits or fails.
Reached(i) ==
  LET n == dm["name"].live  o == dm["overlay"].live  h == dm["hotzone"].live
  IN  CASE n.t = "direct" /\ ~dm["name"].susp -> KeyOf(n.k, i)
        [] n.t = "linear" /\ ~dm["overlay"].susp /\ (o.t = "direct" \/ (o.t = "hot" /\ i # o.k + 1)) ->
             KeyOf(o.k, i)
        [] n.t = "linear" /\ ~dm["overlay"].susp /\ o.t = "hot" /\ i = o.k + 1
             /\ h.t = "map" /\ ~dm["hotzone"].susp -> "new"
        [] OTHER -> "none"

\* "None bio shall pass!" (reencrypt_step): whatever a user of the active
\* mapping can reach at any moment of an online reencryption is stored under
\* the key the stack uses for it and holds the user's last write; no failed
\* call, kill, reboot, recovery or concurrent command breaks that.  Excepted
\* is a mapping made by an open that read the header before the reencryption
\* was initialised and never read it again.
ReadsRight ==
  stale \/ \A i \in 1..N : Reached(i) # "none" => disk[i] = [key |-> Reached(i), val |-> last[i]]

\* reencrypt_teardown_ok takes the stack down in the order its tables allow:
\* when nothing failed and no command is under way no helper device is left,
\* and name maps what the header says.
StackGone ==
  (mishaps = 0 /\ (\A p \in Procs : proc[p] = Idle) /\ ~stale) =>
    /\ ~Exists("overlay") /\ ~Exists("hotzone")
    /\ dm["name"] \in {NoDev, [NoDev EXCEPT !.live = Tab("direct", hdr.done)]}

\* "Reencryption in-progress. Cannot deactivate device." (LUKS2_deactivate):
\* no close takes a helper away from a running online reencryption, not even
\* one that found no helper before the run started and removed name under it.
RunPcs == {"rloop", "oload", "osusp", "hsusp", "ores", "read", "protect", "write", "commit", "hres"}
CloseWaits ==
  \A p \in Procs : proc[p].online /\ proc[p].pc \in RunPcs =>
    /\ dm["name"].live.t \in {"linear", "none"}
    /\ \A d \in {"overlay", "hotzone"} : Exists(d) /\ dm[d].live.t # "error"

\* reenc_refresh_helper_devices: "always suspend the stack from top to bottom"
\* and reencrypt_step resumes the hotzone: a write submitted during a
\* reencryption in which no call fails does complete.
WritesFinish == (bio # NoBio) ~> (bio = NoBio \/ mishaps > 0)
=============================================================================
