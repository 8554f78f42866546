----------------------------- MODULE Activation -----------------------------
(***************************************************************************)
(* Activation, refresh, resize, suspend, resume and deactivation of a      *)
(* volume (lib/setup.c, lib/luks2/luks2_json_metadata.c, lib/tcrypt,       *)
(* lib/integrity) over the device-mapper of DeviceMapper.                  *)
(*                                                                         *)
(* Nothing serializes these calls: processes interleave between any two    *)
(* ioctls, may be killed there, and an ioctl may fail.  A volume is        *)
(* "luks2" (one dm-crypt device; LUKS1, plain, loop-AES, BITLK, FVAULT2    *)
(* and dm-verity take the same steps), "luks2i" (dm-crypt over             *)
(* dm-integrity) or "tcrypt" (a cascade of two dm-crypt devices).          *)
(***************************************************************************)
EXTENDS DeviceMapper

CONSTANTS
  Procs, Kinds,    \* processes; volume -> kind, one of them chosen in Init
  Commands,        \* [op, n, vol, o, sz, flag] a process may run
  Capabilities,    \* dm_flags of the kernel, one of them chosen in Init
  Wrapped,         \* volumes with a wrapped-key cipher ("paes")
  FullSize,        \* size of the data device
  RetryCount,      \* RETRY_COUNT of dm_remove_device
  MaxCommands,
  MaxMishaps       \* bound on failing ioctls and kills

ASSUME ActivationAssumption ==
  /\ \A k \in Kinds : k \in [Vols -> {"luks2", "luks2i", "tcrypt"}]
  /\ Wrapped \subseteq Vols
  /\ FullSize \in Nat \ {0} /\ RetryCount \in Nat \ {0}
  /\ MaxCommands \in Nat /\ MaxMishaps \in Nat
  /\ Commands \subseteq [op : {"open", "refresh", "resize", "suspend", "resume", "close"}, n : Names,
                         vol : Vols \cup {"none"}, o : Nat, sz : Nat, flag : {"none", "deferred", "force", "cancel"}]
  /\ \A c \in Commands : c.op \in {"open", "refresh"} => c.vol \in Vols
  /\ "none" \notin Names /\ "none" \notin Vols

VARIABLES
  kind, caps,
  dm,         \* the kernel's devices
  proc,       \* what every process is doing
  ring,       \* volume whose key is in the thread keyring of a process
  torn,       \* how the stack of a name was left half-way: a history variable
  commands, mishaps

vars == <<kind, caps, dm, proc, ring, torn, commands, mishaps>>
world == <<kind, caps, commands>>

Idle == [op |-> "none", n |-> "none", vol |-> "none", o |-> 0, sz |-> 0, flag |-> "none", pc |-> "idle",
         refresh |-> FALSE, low |-> FALSE, from |-> "none", awake |-> FALSE, gone |-> FALSE, tries |-> 0]

\* crypt_use_keyring_for_vk: LUKS2 only, when the kernel can.
UseKeyring(vol) == vol # "none" /\ kind[vol] \in {"luks2", "luks2i"} /\ "keyring" \in caps
\* Options the kernel does not know make an ioctl fail; the creation of a
\* dm-crypt device is then tried without them.
Known(o) == o # 0 => "options" \in caps
check_retry(o) == IF Known(o) THEN o ELSE 0
\* "We can't simply wipe wrapped keys."
crypt_cipher_wrapped_key(vol) == vol \in Wrapped

\* Nothing is active, or a volume was opened and suspended before.
Init ==
  /\ kind \in Kinds /\ caps \in Capabilities
  /\ \/ dm = [x \in Nodes |-> NoDev]
     \/ \E n \in Names, v \in Vols :
          /\ kind[v] = "luks2" /\ ~crypt_cipher_wrapped_key(v)
          /\ dm = dm_key_wipe(dm_suspend(dm_create_device([x \in Nodes |-> NoDev], Top(n),
                       dm_crypt_target(v, UseKeyring(v), 0, FullSize, FALSE)), Top(n)), Top(n))
  /\ proc = [p \in Procs |-> Idle]
  /\ ring = [p \in Procs |-> "none"]
  /\ torn = [n \in Names |-> {}]
  /\ commands = 0 /\ mishaps = 0

Name(p) == proc[p].n
Vol(p) == proc[p].vol
Kind(p) == IF Vol(p) = "none" THEN "luks2" ELSE kind[Vol(p)]
Stacked(p) == Kind(p) \in {"luks2i", "tcrypt"}
At(p, pc) == proc[p].pc = pc

Goto(p, pc) == proc' = [proc EXCEPT ![p].pc = pc]
Return(p) == proc' = [proc EXCEPT ![p] = Idle]
Torn(n, why) == torn' = [torn EXCEPT ![n] = @ \cup {why}]
Same(p) == UNCHANGED <<ring, torn, mishaps>>

\* The kernel takes a table: it finds the devices and knows the options.
CanMake(x, t) == CanCreate(dm, x, t) /\ Known(t.opts)
CanReload(x, t) == CanLoad(dm, x, t) /\ Known(t.opts)

\* An ioctl works as the kernel allows or fails for reasons of its own.
Works == UNCHANGED mishaps
Breaks(can) == IF can THEN mishaps < MaxMishaps /\ mishaps' = mishaps + 1 ELSE UNCHANGED mishaps

\* The thread keyring of a process holds the key it has loaded last.
crypt_volume_key_load_in_keyring(p, vol) == ring' = [ring EXCEPT ![p] = vol]
crypt_drop_keyring_key(p, drop) == ring' = [ring EXCEPT ![p] = IF drop THEN "none" ELSE @]

\* The error path of an activation or resume.
Fail(p) == Return(p) /\ crypt_drop_keyring_key(p, UseKeyring(Vol(p)))

\* Commands that load or resume tables; two at once on one name overlap.
Loaders == {"open", "refresh", "resize", "resume"}

\* crypt_init_by_name_and_header: commands on an active device take the volume
\* from its live table, close takes an error target as well.
crypt_init_by_name_and_header(n) == dm[Top(n)].live.vol
_init_by_name_crypt(n) == dm_status_device(dm, Top(n)) /\ crypt_init_by_name_and_header(n) # "none"

Start(p, c, vol, pc) ==
  /\ At(p, "idle") /\ commands < MaxCommands
  /\ proc' = [proc EXCEPT ![p] =
       [Idle EXCEPT !.op = c.op, !.n = c.n, !.vol = vol, !.o = c.o, !.sz = c.sz, !.flag = c.flag,
                    !.refresh = (c.op = "refresh"), !.tries = RetryCount, !.pc = pc]]
  /\ IF c.op \in Loaders /\ \E q \in Procs : Name(q) = c.n /\ proc[q].op \in Loaders
     THEN Torn(c.n, "overlap") ELSE UNCHANGED torn
  /\ commands' = commands + 1
  /\ UNCHANGED <<kind, caps, dm, ring, mishaps>>

\* Only LUKS can be refreshed and suspended.
action_open(p) ==
  \E c \in Commands :
    /\ c.op \in {"open", "refresh"} /\ (c.op = "refresh" => kind[c.vol] # "tcrypt")
    /\ Start(p, c, c.vol, "check")

OnActive(p, op, pc) ==
  \E c \in Commands :
    /\ c.op = op /\ _init_by_name_crypt(c.n)
    /\ kind[crypt_init_by_name_and_header(c.n)] # "tcrypt"
    /\ Start(p, c, crypt_init_by_name_and_header(c.n), pc)

action_resize(p) == OnActive(p, "resize", "rquery")
action_luksSuspend(p) == OnActive(p, "suspend", "scheck")
action_luksResume(p) == OnActive(p, "resume", "ucheck")

action_close(p) ==
  \E c \in Commands :
    /\ c.op = "close" /\ dm_status_device(dm, Top(c.n))
    /\ Start(p, c, crypt_init_by_name_and_header(c.n), "cquery")

---------------------------------------------------------------------------
\* Activation.

\* A device that exists already is refused unless it is to be refreshed.
_activate_check_status(p) ==
  /\ At(p, "check")
  /\ IF dm_status_device(dm, Top(Name(p))) /\ ~proc[p].refresh THEN Return(p) ELSE Goto(p, "key")
  /\ UNCHANGED dm /\ Same(p) /\ UNCHANGED world

\* The passphrase opens a keyslot, or not; the volume key goes to the thread
\* keyring.
_open_and_activate(p) ==
  /\ At(p, "key")
  /\ \/ Return(p) /\ UNCHANGED ring
     \/ /\ Goto(p, IF Kind(p) = "tcrypt" THEN "excl" ELSE "devices")
        /\ crypt_volume_key_load_in_keyring(p, IF UseKeyring(Vol(p)) THEN Vol(p) ELSE ring[p])
  /\ UNCHANGED <<dm, torn, mishaps>> /\ UNCHANGED world

\* CRYPT_ACTIVATE_REFRESH is dropped when a device of the stack is missing.
check_devices(p) ==
  LET n == Name(p)
      dif == Kind(p) = "luks2i"
      r1 == proc[p].refresh /\ (dif => dm_status_device(dm, Low(n)))
      r2 == r1 /\ dm_status_device(dm, Top(n))
      busy == \/ dif /\ dm_status_device(dm, Low(n)) /\ ~proc[p].refresh
              \/ dm_status_device(dm, Top(n)) /\ ~r1
  IN  /\ At(p, "devices")
      /\ IF busy THEN Fail(p)
         ELSE proc' = [proc EXCEPT ![p].pc = IF r2 THEN "query" ELSE "excl"] /\ UNCHANGED ring
      /\ UNCHANGED <<dm, torn, mishaps>> /\ UNCHANGED world

\* device_block_adjust with DEV_EXCL opens the data device exclusively and
\* closes it again.  An integrity device left without its dm-crypt device is
\* taken over when a refresh was asked for.
device_block_adjust(p) ==
  LET takeover == Kind(p) = "luks2i" /\ dm_status_device(dm, Low(Name(p)))
  IN  /\ At(p, "excl")
      /\ \/ takeover /\ proc[p].refresh /\ Goto(p, "lload") /\ UNCHANGED ring
         \/ ~takeover /\ ~Claimed(dm, Vol(p)) /\ Goto(p, IF Stacked(p) THEN "low" ELSE "top")
            /\ UNCHANGED ring
         \/ (IF takeover THEN ~proc[p].refresh ELSE Claimed(dm, Vol(p))) /\ Fail(p)
      /\ UNCHANGED <<dm, torn, mishaps>> /\ UNCHANGED world

\* The lower layer: dm-integrity, or the inner cipher of a cascade.
INTEGRITY_create_dmd_device(p) == dm_integrity_target(Vol(p), proc[p].o, FullSize)
TCRYPT_activate(p) == dm_crypt_target(Vol(p), FALSE, check_retry(proc[p].o), FullSize, FALSE)
LowTable(p) == IF Kind(p) = "luks2i" THEN INTEGRITY_create_dmd_device(p) ELSE TCRYPT_activate(p)
TopTable(p) ==
  dm_crypt_target(Vol(p), UseKeyring(Vol(p)), check_retry(proc[p].o), FullSize, Stacked(p))

INTEGRITY_activate_dmd_device(p) ==
  LET x == Low(Name(p))  can == CanMake(x, LowTable(p))
  IN  /\ At(p, "low")
      /\ \/ can /\ Works /\ dm' = dm_create_device(dm, x, LowTable(p)) /\ Goto(p, "top") /\ UNCHANGED ring
         \/ Breaks(can) /\ UNCHANGED dm /\ Fail(p)
      /\ UNCHANGED torn /\ UNCHANGED world

reload_low(p) ==
  LET x == Low(Name(p))  can == CanReload(x, LowTable(p)) /\ dm[x].live.type = "integrity"
                                /\ dm[x].live.vol = Vol(p)
  IN  /\ At(p, "lload")
      /\ \/ can /\ Works /\ dm' = dm_reload(dm, x, LowTable(p)) /\ Goto(p, "lresume") /\ UNCHANGED ring
         \/ Breaks(can) /\ UNCHANGED dm /\ Fail(p)
      /\ UNCHANGED torn /\ UNCHANGED world

resume_low(p) ==
  LET x == Low(Name(p))
  IN  /\ At(p, "lresume")
      /\ \/ CanResume(dm, x) /\ Works /\ dm' = dm_resume(dm, x) /\ Goto(p, "top") /\ UNCHANGED <<ring, torn>>
         \/ Breaks(CanResume(dm, x)) /\ UNCHANGED dm /\ Fail(p) /\ Torn(Name(p), "fault")
      /\ UNCHANGED world

\* The top layer.  A LUKS2 stack is taken down when it cannot be created; what
\* TCRYPT_activate has created below stays.
dm_create_top(p) ==
  LET x == Top(Name(p))
      can == /\ CanMake(x, TopTable(p))
             /\ Kind(p) = "luks2i" => open_count(dm, Low(Name(p))) = 0
  IN  /\ At(p, "top")
      /\ \/ can /\ Works /\ dm' = dm_create_device(dm, x, TopTable(p)) /\ Return(p) /\ UNCHANGED <<ring, torn>>
         \/ /\ Breaks(can) /\ UNCHANGED dm
            /\ IF Kind(p) = "luks2i" THEN Goto(p, "undo") /\ UNCHANGED <<ring, torn>>
               ELSE Fail(p) /\ IF Stacked(p) THEN Torn(Name(p), "cascade") ELSE UNCHANGED torn
      /\ UNCHANGED world

\* Mutant: the integrity device stays.
UndoMut(p) ==
  /\ At(p, "undo") /\ Fail(p) /\ UNCHANGED <<dm, torn, mishaps>> /\ UNCHANGED world

_create_device_undo(p) ==
  LET x == Low(Name(p))
  IN  /\ At(p, "undo") /\ Fail(p) /\ Works
      /\ IF CanRemove(dm, x) THEN dm' = dm_remove(dm, x) /\ UNCHANGED torn
         ELSE UNCHANGED dm /\ (IF dm[x].users > 0 THEN Torn(Name(p), "busy") ELSE UNCHANGED torn)
      /\ UNCHANGED world

---------------------------------------------------------------------------
\* Refresh and resize.

\* Mutant: the tables are not compared.
QueryMatchesMut(p) == dm[Top(Name(p))].live.type = "crypt" /\ dm[Top(Name(p))].live.low = Stacked(p)

\* The key is asked for, so a suspended device is refused; the tables must
\* match (crypt_compare_dm_devices), the volume and its key with them.
_compare_crypt_devices(p, t) == t.type = "crypt" /\ t.vol = Vol(p) /\ t.key = Vol(p)
_compare_integrity_devices(p) == dm[Low(Name(p))].live.type = "integrity"
QueryMatches(p) ==
  LET t == dm[Top(Name(p))].live
  IN  /\ dm_query_key(dm, Top(Name(p)))
      /\ _compare_crypt_devices(p, t)
      /\ t.low = Stacked(p)
      /\ Stacked(p) => _compare_integrity_devices(p) /\ proc[p].op = "refresh"

_reload_query(p) ==
  /\ At(p, "query")
  /\ IF QueryMatches(p)
     THEN /\ proc' = [proc EXCEPT ![p] =
               [@ EXCEPT !.pc = IF Stacked(p) THEN "iload" ELSE "load", !.from = dm[Top(Name(p))].live.vol,
                         !.awake = ~dm[Top(Name(p))].susp, !.gone = FALSE]]
          /\ UNCHANGED ring
     ELSE IF proc[p].op = "refresh" THEN Fail(p) ELSE Return(p) /\ UNCHANGED ring
  /\ UNCHANGED <<dm, torn, mishaps>> /\ UNCHANGED world

\* The new table: the queried one with the requested options, size and the key
\* the caller opened.  A resize keeps the options it has queried; a reload is
\* not tried without options.
NewTable(p) ==
  LET t == [TopTable(p) EXCEPT !.vol = proc[p].from, !.opts = proc[p].o]
  IN  IF proc[p].op = "refresh" THEN t ELSE [t EXCEPT !.size = proc[p].sz]

FailReload(p) == IF proc[p].op = "refresh" THEN Fail(p) ELSE Return(p) /\ UNCHANGED ring

\* Nothing checks that the name still is the device whose table was queried.
Reused(p) == IF proc[p].gone THEN Torn(Name(p), "reused") ELSE UNCHANGED torn

dm_reload_device(p) ==
  LET x == Top(Name(p))  can == CanReload(x, NewTable(p))
  IN  /\ At(p, "load")
      /\ \/ can /\ Works /\ dm' = dm_reload(dm, x, NewTable(p)) /\ Goto(p, "resume") /\ Reused(p) /\ UNCHANGED ring
         \/ Breaks(can) /\ UNCHANGED <<dm, torn>> /\ FailReload(p)
      /\ UNCHANGED world

\* A resume that fails leaves the table it should have made live.
dm_reload_resume(p) ==
  LET x == Top(Name(p))
  IN  /\ At(p, "resume")
      /\ \/ CanResume(dm, x) /\ Works /\ dm' = dm_resume(dm, x) /\ Return(p) /\ UNCHANGED <<ring, torn>>
         \/ Breaks(CanResume(dm, x)) /\ UNCHANGED dm /\ FailReload(p) /\ Torn(Name(p), "fault")
      /\ UNCHANGED world

\* One step of _reload_device_with_integrity: the ioctl works and the next one
\* follows, or it fails and both inactive tables are cleared.
Step(p, from, can, after, to, else) ==
  /\ At(p, from)
  /\ \/ can /\ Works /\ dm' = after /\ Goto(p, to) /\ UNCHANGED ring
        /\ IF from = "tload" THEN Reused(p) ELSE UNCHANGED torn
     \/ /\ Breaks(can) /\ UNCHANGED dm
        /\ IF else = "fail" THEN Fail(p) ELSE Goto(p, else) /\ UNCHANGED ring
        /\ UNCHANGED torn
  /\ UNCHANGED world

_reload_device_with_integrity(p) ==
  LET n == Name(p)
  IN  \/ Step(p, "iload", CanReload(Low(n), LowTable(p)), dm_reload(dm, Low(n), LowTable(p)), "tload", "fail")
      \/ Step(p, "tload", CanReload(Top(n), NewTable(p)), dm_reload(dm, Top(n), NewTable(p)), "susp0", "clr0")
      \/ Step(p, "susp0", CanSuspend(dm, Top(n)), dm_suspend(dm, Top(n)), "susp1", "clr0")
      \/ Step(p, "susp1", CanSuspend(dm, Low(n)), dm_suspend(dm, Low(n)), "res1", "clr0")
      \/ Step(p, "res1", CanResume(dm, Low(n)), dm_resume(dm, Low(n)), "res0", "clr0")

\* The last resume, and the worst case: both devices become error targets.
_reload_device_resume(p) ==
  LET x == Top(Name(p))
  IN  /\ At(p, "res0")
      /\ \/ CanResume(dm, x) /\ Works /\ dm' = dm_resume(dm, x) /\ Return(p) /\ UNCHANGED torn
         \/ Breaks(CanResume(dm, x)) /\ UNCHANGED dm /\ Goto(p, "err0") /\ Torn(Name(p), "burnt")
      /\ UNCHANGED ring /\ UNCHANGED world

_reload_device_error(p) ==
  /\ \E l \in {0, 1} :
       LET x == <<Name(p), l>>  can == dm_status_device(dm, x)
       IN  /\ At(p, IF l = 0 THEN "err0" ELSE "err1")
           /\ \/ can /\ Works /\ dm' = dm_error_device(dm, x) /\ UNCHANGED torn
              \/ Breaks(can) /\ UNCHANGED dm /\ Torn(Name(p), "fault")
           /\ IF l = 0 THEN Goto(p, "err1") /\ UNCHANGED ring ELSE Fail(p)
  /\ UNCHANGED world

\* clear: drop the inactive tables and resume what is suspended, the upper
\* device first.
_reload_device_clear(p) ==
  /\ \E l \in {0, 1} :
       LET x == <<Name(p), l>>
       IN  /\ At(p, IF l = 0 THEN "clr0" ELSE "clr1")
           /\ dm' = IF dm_status_device(dm, x) THEN dm_clear_device(dm, x) ELSE dm
           /\ Goto(p, IF l = 0 THEN "clr1" ELSE "un0")
  /\ UNCHANGED <<ring, torn, mishaps>> /\ UNCHANGED world

_reload_device_unsuspend(p) ==
  /\ \E l \in {0, 1} :
       LET x == <<Name(p), l>>  can == dm_status_suspended(dm, x) /\ CanResume(dm, x)
       IN  /\ At(p, IF l = 0 THEN "un0" ELSE "un1")
           /\ \/ can /\ Works /\ dm' = dm_resume(dm, x) /\ UNCHANGED torn
              \/ can /\ Breaks(TRUE) /\ UNCHANGED dm /\ Torn(Name(p), "fault")
              \/ ~can /\ Works /\ UNCHANGED <<dm, torn>>
           /\ IF l = 0 THEN Goto(p, "un1") /\ UNCHANGED ring ELSE Fail(p)
  /\ UNCHANGED world

\* crypt_resize reads the table with its key; a table whose key is in the
\* keyring needs the key in the keyring of this process, which the command
\* gets by asking for the passphrase.
crypt_resize(p) ==
  LET t == dm[Top(Name(p))].live
  IN  /\ At(p, "rquery")
      /\ \/ Return(p) /\ UNCHANGED ring
         \/ /\ dm_query_key(dm, Top(Name(p))) /\ t.type = "crypt" /\ t.size # proc[p].sz
            /\ proc' = [proc EXCEPT ![p].pc = "query", ![p].o = t.opts]
            /\ crypt_volume_key_load_in_keyring(p, IF t.ring THEN Vol(p) ELSE ring[p])
      /\ UNCHANGED <<dm, torn, mishaps>> /\ UNCHANGED world

---------------------------------------------------------------------------
\* Suspend and resume.

crypt_suspend(p) ==
  /\ At(p, "scheck")
  /\ IF dm_status_device(dm, Top(Name(p))) /\ ~dm_status_suspended(dm, Top(Name(p)))
     THEN Goto(p, "ssusp") ELSE Return(p)
  /\ UNCHANGED dm /\ Same(p) /\ UNCHANGED world

\* DM_SUSPEND_WIPE_KEY is dropped when the cipher of the context's volume has
\* wrapped keys; nothing checks that the device is of that volume.
dm_suspend_device(p) ==
  LET x == Top(Name(p))  wrapped == crypt_cipher_wrapped_key(Vol(p))
  IN  /\ At(p, "ssusp")
      /\ \/ /\ CanSuspend(dm, x) /\ Works /\ dm' = dm_suspend(dm, x) /\ Goto(p, IF wrapped THEN "sdrop" ELSE "swipe")
            /\ IF wrapped /\ dm[x].live.vol # Vol(p) THEN Torn(Name(p), "mistaken") ELSE UNCHANGED torn
         \/ Breaks(CanSuspend(dm, x)) /\ UNCHANGED <<dm, torn>> /\ Return(p)
      /\ UNCHANGED ring /\ UNCHANGED world

\* "key wipe"; when the message fails the device is resumed.
dm_suspend_wipe(p) ==
  LET x == Top(Name(p))
  IN  /\ At(p, "swipe")
      /\ \/ CanMessage(dm, x) /\ Works /\ dm' = dm_key_wipe(dm, x) /\ Goto(p, "sdrop")
         \/ Breaks(CanMessage(dm, x)) /\ Goto(p, "sundo") /\ UNCHANGED dm
      /\ UNCHANGED <<ring, torn>> /\ UNCHANGED world

\* Mutant: the device is not resumed.
SuspendUndoMut(p) ==
  /\ At(p, "sundo") /\ Return(p) /\ UNCHANGED <<dm, ring, torn, mishaps>> /\ UNCHANGED world

dm_suspend_undo(p) ==
  LET x == Top(Name(p))
  IN  /\ At(p, "sundo") /\ Return(p)
      /\ \/ /\ CanResume(dm, x) /\ Works /\ dm' = dm_resume(dm, x)
            /\ IF dm[x].inactive # NoTable THEN Torn(Name(p), "overlap") ELSE UNCHANGED torn
         \/ Breaks(CanResume(dm, x)) /\ UNCHANGED dm /\ Torn(Name(p), "fault")
      /\ UNCHANGED ring /\ UNCHANGED world

crypt_suspend_drop(p) ==
  /\ At(p, "sdrop") /\ Return(p)
  /\ crypt_drop_keyring_key(p, ring[p] = Vol(p))
  /\ UNCHANGED <<dm, torn, mishaps>> /\ UNCHANGED world

crypt_resume_by_passphrase(p) ==
  /\ At(p, "ucheck")
  /\ \/ Return(p) /\ UNCHANGED ring
     \/ /\ dm_status_suspended(dm, Top(Name(p))) /\ Goto(p, "uset")
        /\ crypt_volume_key_load_in_keyring(p, IF UseKeyring(Vol(p)) THEN Vol(p) ELSE ring[p])
  /\ UNCHANGED <<dm, torn, mishaps>> /\ UNCHANGED world

\* "key set" and resume.  Nothing checks that the name still is the device
\* that was found suspended.
dm_reinstate_key(p) ==
  LET x == Top(Name(p))
  IN  /\ At(p, "uset")
      /\ \/ /\ CanMessage(dm, x) /\ Works /\ dm' = dm_key_set(dm, x, Vol(p), UseKeyring(Vol(p)))
            /\ Goto(p, "uresume") /\ UNCHANGED ring /\ Reused(p)
         \/ Breaks(CanMessage(dm, x)) /\ UNCHANGED <<dm, torn>> /\ Fail(p)
      /\ UNCHANGED world

dm_resume_device(p) ==
  LET x == Top(Name(p))
  IN  /\ At(p, "uresume")
      /\ \/ CanResume(dm, x) /\ Works /\ dm' = dm_resume(dm, x) /\ Return(p) /\ UNCHANGED <<ring, torn>>
         \/ Breaks(CanResume(dm, x)) /\ UNCHANGED dm /\ Fail(p) /\ Torn(Name(p), "fault")
      /\ UNCHANGED world

---------------------------------------------------------------------------
\* Deactivation.

\* The device under a name goes away while others are at work on it.
Forget(pr, n) ==
  [q \in Procs |-> IF pr[q].op \in {"refresh", "resize", "resume", "close"} /\ pr[q].n = n THEN [pr[q] EXCEPT !.gone = TRUE] ELSE pr[q]]

\* crypt_deactivate_by_name: LUKS2_deactivate refuses a device of another
\* volume than the context's.  The integrity device to remove is taken from
\* the live table now.
crypt_deactivate_by_name(p) ==
  LET x == Top(Name(p))  t == dm[x].live
  IN  /\ At(p, "cquery")
      /\ IF \/ ~dm_status_device(dm, x)
            \/ dm[x].users > 0 /\ proc[p].flag = "none"
            \/ proc[p].flag = "cancel"
            \/ t.vol # "none" /\ t.vol # Vol(p) /\ Kind(p) # "tcrypt"
         THEN Return(p)
         ELSE proc' = [proc EXCEPT ![p] = [@ EXCEPT !.pc = "cremove", !.low = (t.type = "crypt" /\ t.low),
                                                    !.vol = IF t.vol = "none" THEN Vol(p) ELSE t.vol]]
      /\ dm' = IF dm_status_device(dm, x) /\ proc[p].flag = "cancel" THEN dm_cancel_deferred_removal(dm, x) ELSE dm
      /\ UNCHANGED <<ring, torn, mishaps>> /\ UNCHANGED world

\* dm_remove_device on the upper layer.  A forced removal of a device in use
\* makes it an error target and tries again; a deferred one succeeds at once.
dm_remove_device(p) ==
  LET x == Top(Name(p))
      drop == dm_query_key(dm, x) /\ dm[x].live.ring /\ ring[p] = dm[x].live.vol
      dropped == crypt_drop_keyring_key(p, drop)
  IN  /\ At(p, "cremove")
      /\ \/ /\ CanRemove(dm, x) /\ dm' = dm_remove(dm, x) /\ dropped
            /\ proc' = Forget([proc EXCEPT ![p].pc = "clow"], Name(p)) /\ Reused(p)
         \/ /\ ~CanRemove(dm, x) /\ dm_status_device(dm, x) /\ proc[p].flag = "deferred"
            /\ dm' = dm_remove_deferred(dm, x) /\ dropped /\ Goto(p, "clow") /\ Torn(Name(p), "deferred")
         \/ /\ ~CanRemove(dm, x) /\ dm_status_device(dm, x) /\ proc[p].flag = "force" /\ proc[p].tries > 1
            /\ dm' = dm_error_device(dm, x) /\ Torn(Name(p), "forced") /\ UNCHANGED ring
            /\ proc' = [proc EXCEPT ![p].tries = @ - 1]
         \/ /\ ~CanRemove(dm, x)
            /\ dm_status_device(dm, x) => proc[p].flag # "deferred" /\ (proc[p].flag = "force" => proc[p].tries = 1)
            /\ Return(p) /\ UNCHANGED <<dm, ring, torn>>
      /\ UNCHANGED mishaps /\ UNCHANGED world

\* The lower layer: removed unless it is in use.
RemoveLow(p, wanted) ==
  LET x == Low(Name(p))
  IN  /\ At(p, "clow") /\ Return(p)
      /\ IF wanted /\ CanRemove(dm, x) THEN dm' = dm_remove(dm, x) /\ UNCHANGED torn
         ELSE UNCHANGED dm /\ (IF wanted /\ dm[x].users > 0 THEN Torn(Name(p), "busy") ELSE UNCHANGED torn)
      /\ UNCHANGED <<ring, mishaps>> /\ UNCHANGED world

\* LUKS2_deactivate removes the integrity device it has seen before, without
\* the caller's flags; TCRYPT_remove_one asks for the next one of the cascade.
LUKS2_deactivate(p) == Kind(p) # "tcrypt" /\ RemoveLow(p, proc[p].low)
TCRYPT_remove_one(p) == Kind(p) = "tcrypt" /\ RemoveLow(p, TRUE)

---------------------------------------------------------------------------
\* The environment: a device is mounted or probed, a process is killed.

UserOpen(x) ==
  /\ dm_status_device(dm, x) /\ dm[x].users = 0
  /\ dm' = [dm EXCEPT ![x].users = 1]
  /\ UNCHANGED <<proc, ring, torn, mishaps>> /\ UNCHANGED world

UserClose(x) ==
  /\ dm[x].users = 1
  /\ dm' = Closed(dm, x)
  /\ proc' = IF x[2] = 0 /\ ~dm_status_device(dm', x) THEN Forget(proc, x[1]) ELSE proc
  /\ UNCHANGED <<ring, torn, mishaps>> /\ UNCHANGED world

Kill(p) ==
  /\ ~At(p, "idle") /\ mishaps < MaxMishaps
  /\ mishaps' = mishaps + 1
  /\ Return(p) /\ Torn(Name(p), "killed")
  /\ ring' = [ring EXCEPT ![p] = "none"]
  /\ UNCHANGED <<kind, caps, dm, commands>>

Next ==
  \/ \E p \in Procs :
       \/ action_open(p) \/ action_resize(p) \/ action_luksSuspend(p) \/ action_luksResume(p) \/ action_close(p)
       \/ _activate_check_status(p) \/ _open_and_activate(p) \/ check_devices(p)
       \/ device_block_adjust(p) \/ INTEGRITY_activate_dmd_device(p) \/ reload_low(p) \/ resume_low(p)
       \/ dm_create_top(p) \/ _create_device_undo(p)
       \/ _reload_query(p) \/ dm_reload_device(p) \/ dm_reload_resume(p)
       \/ _reload_device_with_integrity(p) \/ _reload_device_resume(p) \/ _reload_device_error(p)
       \/ _reload_device_clear(p) \/ _reload_device_unsuspend(p) \/ crypt_resize(p)
       \/ crypt_suspend(p) \/ dm_suspend_device(p) \/ dm_suspend_wipe(p) \/ dm_suspend_undo(p)
       \/ crypt_suspend_drop(p)
       \/ crypt_resume_by_passphrase(p) \/ dm_reinstate_key(p) \/ dm_resume_device(p)
       \/ crypt_deactivate_by_name(p) \/ dm_remove_device(p) \/ LUKS2_deactivate(p) \/ TCRYPT_remove_one(p)
       \/ Kill(p)
  \/ \E x \in Nodes : UserOpen(x) \/ UserClose(x)

Spec == Init /\ [][Next]_vars

---------------------------------------------------------------------------
\* Properties.

Tables == [type : {"none", "crypt", "integrity", "error"}, vol : Vols \cup {"none"}, key : Vols \cup {"none"},
           ring : BOOLEAN, opts : Nat, size : Nat, low : BOOLEAN]
Devices == [live : Tables, inactive : Tables, susp : BOOLEAN, users : {0, 1}, deferred : BOOLEAN]
Points == {"idle", "check", "key", "devices", "excl", "low", "lload", "lresume", "top", "undo", "query", "load",
           "resume", "iload", "tload", "susp0", "susp1", "res1", "res0", "clr0", "clr1", "un0", "un1", "err0",
           "err1", "rquery", "scheck", "ssusp", "swipe", "sundo", "sdrop", "ucheck", "uset", "uresume",
           "cquery", "cremove", "clow"}
Calls == [op : {"none", "open", "refresh", "resize", "suspend", "resume", "close"},
          n : Names \cup {"none"}, vol : Vols \cup {"none"}, o : Nat, sz : Nat,
          flag : {"none", "deferred", "force", "cancel"}, pc : Points, refresh : BOOLEAN, low : BOOLEAN,
          from : Vols \cup {"none"}, awake : BOOLEAN, gone : BOOLEAN, tries : 0..RetryCount]
Reasons == {"overlap", "reused", "fault", "killed", "busy", "deferred", "forced", "cascade", "burnt", "mistaken"}

WellFormed(d) == (d.live.type = "none" => d = NoDev) /\ (d.inactive.type = "none" => d.inactive = NoTable)

\* The type of the state; what is left of a device that is gone is nothing.
TypeOK ==
  /\ kind \in Kinds
  /\ dm \in [Nodes -> Devices]
  /\ torn \in [Names -> SUBSET Reasons]
  /\ proc \in [Procs -> Calls]
  /\ ring \in [Procs -> Vols \cup {"none"}]
  /\ \A x \in Nodes : WellFormed(dm[x])

Quiet(n) == \A p \in Procs : Name(p) # n
Pure(n, excused) == torn[n] \cap excused = {}

\* A device that lets I/O through decrypts a volume with that volume's own key,
\* whatever opens, refreshes, resizes and resumes run at once.  The one way
\* around it is a name that is closed and opened for another volume while a
\* luksResume is asking for the passphrase, or while a refresh or a resize is
\* between the query of the table and the load of the new one.
KeyMatches ==
  \A n \in Names : Pure(n, {"reused"}) =>
    LET d == dm[Top(n)] IN d.live.type = "crypt" /\ ~d.susp => d.live.key = d.live.vol

\* Once luksSuspend has returned, no copy of the volume key is left in the
\* tables of the device, not in the inactive one either, unless a process was
\* killed or an ioctl failed in the middle of a reload.  Excepted is the key of
\* a wrapped-key cipher, which crypt_suspend leaves in the live table, and with
\* it the key of another volume: luksSuspend reads the cipher of one volume, the
\* name is closed and opened for another, and the flags for the first apply to
\* the second (the FIXME at the head of crypt_suspend asks for the check).
SuspendedIsKeyless ==
  \A n \in Names :
    LET d == dm[Top(n)]
    IN  Quiet(n) /\ Pure(n, {"killed", "fault"}) /\ dm_status_suspended(dm, Top(n)) =>
          /\ d.live.vol \notin Wrapped /\ Pure(n, {"mistaken"}) => d.live.key = "none"
          /\ d.inactive = NoTable

\* man/cryptsetup-luksSuspend.8.adoc:11: "suspends an active device and wipes the
\* key", whatever the cipher of the volume (crypt_suspend).
SuspendWipesKey ==
  \A n \in Names :
    Quiet(n) /\ Pure(n, {"killed", "fault", "mistaken"}) /\ dm_status_suspended(dm, Top(n)) =>
      dm[Top(n)].live.key = "none"

\* Nobody has a lower layer without its upper one, unless something interfered
\* that the calls report: a kill, a failing ioctl of the error path, a device
\* in use, a deferred or forced close.
StackWhole ==
  \A n \in Names :
    Quiet(n) /\ Pure(n, {"killed", "fault", "busy", "deferred", "forced", "cascade", "burnt", "reused"}) =>
      (dm_status_device(dm, Low(n)) => dm_status_device(dm, Top(n)))

\* A refresh of a LUKS2 device with integrity takes effect on both layers or on
\* none, or turns both into error targets; two refreshes at once may mix.
RefreshAtomic ==
  \A n \in Names :
    LET t == dm[Top(n)].live  l == dm[Low(n)].live
    IN  Quiet(n) /\ Pure(n, {"killed", "fault", "forced", "overlap"}) /\ t.low /\ l.type = "integrity" =>
          t.opts = l.opts /\ ~dm[Low(n)].susp

\* Lazy deactivation removes the volume once its last user releases it: when
\* nothing but a deferred close has happened, no lower layer is left without
\* its upper one.
DeferredIsWhole ==
  \A n \in Names :
    Quiet(n) /\ torn[n] \subseteq {"deferred"} =>
      (dm_status_device(dm, Low(n)) => dm_status_device(dm, Top(n)))

\* A suspended device without a key comes back only through luksResume, or
\* through a table that was made with the key before: by the refresh or resize
\* that read the live table while the device was not suspended, or by a
\* luksSuspend that could not wipe the key and resumes the table such a reload
\* has left.
SuspendSticks ==
  [][\A n \in Names :
       LET d == dm[Top(n)]  e == dm'[Top(n)]
       IN  (dm_status_suspended(dm, Top(n)) /\ d.live.key = "none" /\ e.live.type = "crypt" /\ ~e.susp) =>
             \E p \in Procs :
               /\ Name(p) = n /\ proc'[p] # proc[p]
               /\ \/ proc[p].op = "resume" \/ proc[p].awake
                  \/ At(p, "sundo") /\ d.inactive # NoTable]_vars
=============================================================================
