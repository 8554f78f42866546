------------------------------- MODULE RWLock -------------------------------
(***************************************************************************)
(* The promise of the metadata lock: a readers/writer lock.  A process     *)
(* holds it shared ("sh"), exclusively ("ex") or not at all ("un").        *)
(* DeviceLock implements this module with files and flock(2); Luks2Header  *)
(* is built on it.                                                         *)
(***************************************************************************)
CONSTANT Procs

VARIABLE holds          \* holds[p]: the mode process p holds the lock in

Modes == {"sh", "ex"}

Init == holds = [p \in Procs |-> "un"]

(* Mode m of p can coexist with what every other process holds. *)
Compatible(p, m) ==
  \A q \in Procs \ {p} : holds[q] # "un" => m = "sh" /\ holds[q] = "sh"

Acquire(p, m) ==
  /\ holds[p] = "un"
  /\ Compatible(p, m)
  /\ holds' = [holds EXCEPT ![p] = m]

Release(p) ==
  /\ holds[p] # "un"
  /\ holds' = [holds EXCEPT ![p] = "un"]

Next == \E p \in Procs : Release(p) \/ \E m \in Modes : Acquire(p, m)

Spec == Init /\ [][Next]_holds
=============================================================================
