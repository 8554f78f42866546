---------------------------- MODULE DeviceMapper ----------------------------
(***************************************************************************)
(* The kernel's device-mapper as lib/libdevmapper.c uses it.               *)
(*                                                                         *)
(* A node is <<name, layer>>: layer 0 is the device the user asked for,    *)
(* layer 1 the private one below it (<name>_dif of LUKS2 with integrity,   *)
(* <name>_1 of a TCRYPT cascade).  A device has a live and an inactive     *)
(* table: DM_TABLE_LOAD fills the inactive one, DM_DEV_RESUME makes it     *)
(* live.  Every operator takes the map `d' from nodes to devices; the      *)
(* Can... ones say when the ioctl succeeds, the others what it leaves.     *)
(*                                                                         *)
(* A table keeps what the properties tell apart: the target, the volume    *)
(* it maps, the key in it ("none" once wiped), whether the key came        *)
(* through the keyring, the activation options, the size and whether it    *)
(* lies on the lower layer.                                                *)
(***************************************************************************)
EXTENDS Naturals, FiniteSets

CONSTANTS Names, Vols

Nodes == Names \X {0, 1}
Top(n) == <<n, 0>>
Low(n) == <<n, 1>>

NoTable == [type |-> "none", vol |-> "none", key |-> "none", ring |-> FALSE,
            opts |-> 0, size |-> 0, low |-> FALSE]
NoDev == [live |-> NoTable, inactive |-> NoTable, susp |-> FALSE, users |-> 0, deferred |-> FALSE]

\* Targets, as dm_crypt_target_set, dm_integrity_target_set and _error_device
\* fill them in.
dm_crypt_target(vol, ring, o, sz, low) ==
  [type |-> "crypt", vol |-> vol, key |-> vol, ring |-> ring, opts |-> o, size |-> sz, low |-> low]
dm_integrity_target(vol, o, sz) ==
  [type |-> "integrity", vol |-> vol, key |-> "none", ring |-> FALSE, opts |-> o, size |-> sz, low |-> FALSE]
dm_error_target(sz) == [NoTable EXCEPT !.type = "error", !.size = sz]

\* dm_status_device, dm_status_suspended and the open count of dm_query_device:
\* those who hold it open, and the upper layer whose live or inactive table
\* refers to it.
dm_status_device(d, x) == d[x].live.type # "none"
dm_status_suspended(d, x) == dm_status_device(d, x) /\ d[x].susp
open_count(d, x) ==
  d[x].users + Cardinality({t \in {"live", "inactive"} :
                              /\ x[2] = 1
                              /\ d[Top(x[1])][t].low})

\* Never allow one to return empty key: a query for the key fails while the
\* device is suspended.
dm_query_key(d, x) == dm_status_device(d, x) /\ ~d[x].susp

\* dm opens what a table refers to; the lower layer must be there.
Loadable(d, x, t) == t.low => dm_status_device(d, Low(x[1]))

CanCreate(d, x, t) == ~dm_status_device(d, x) /\ Loadable(d, x, t)
dm_create_device(d, x, t) == [d EXCEPT ![x] = [NoDev EXCEPT !.live = t]]

CanRemove(d, x) == dm_status_device(d, x) /\ open_count(d, x) = 0
dm_remove(d, x) == [d EXCEPT ![x] = NoDev]

\* A deferred removal of a device in use succeeds at once and happens when the
\* last user leaves.
dm_remove_deferred(d, x) == [d EXCEPT ![x].deferred = TRUE]
dm_cancel_deferred_removal(d, x) == [d EXCEPT ![x].deferred = FALSE]

CanLoad(d, x, t) == dm_status_device(d, x) /\ Loadable(d, x, t)
dm_reload(d, x, t) == [d EXCEPT ![x].inactive = t]
dm_clear_device(d, x) == [d EXCEPT ![x].inactive = NoTable]

CanSuspend(d, x) == dm_status_device(d, x) /\ ~d[x].susp
dm_suspend(d, x) == [d EXCEPT ![x].susp = TRUE]

\* The table a resume makes live; dm-crypt refuses to resume without a key.
Resumed(d, x) == IF d[x].inactive # NoTable THEN d[x].inactive ELSE d[x].live
CanResume(d, x) ==
  /\ dm_status_device(d, x)
  /\ Resumed(d, x).type = "crypt" => Resumed(d, x).key # "none"
dm_resume(d, x) ==
  [d EXCEPT ![x].live = Resumed(d, x), ![x].inactive = NoTable, ![x].susp = FALSE]

\* Messages to dm-crypt, which takes them on its live table while suspended.
CanMessage(d, x) == dm_status_suspended(d, x) /\ d[x].live.type = "crypt"
dm_key_wipe(d, x) == [d EXCEPT ![x].live.key = "none"]
dm_key_set(d, x, vol, ring) == [d EXCEPT ![x].live.key = vol, ![x].live.ring = ring]

\* _error_device: load a read-only error target and resume.
dm_error_device(d, x) ==
  [d EXCEPT ![x].live = dm_error_target(d[x].live.size), ![x].inactive = NoTable, ![x].susp = FALSE]

\* The last user leaves: a deferred removal happens.
Closed(d, x) ==
  LET u == [d EXCEPT ![x].users = 0]
  IN  IF u[x].deferred /\ open_count(u, x) = 0 THEN dm_remove(u, x) ELSE u

\* device_info with DEV_EXCL: a volume some table maps cannot be opened
\* exclusively.
Claimed(d, vol) ==
  \E x \in Nodes : \E t \in {"live", "inactive"} : d[x][t].vol = vol /\ ~d[x][t].low
=============================================================================
