-------------------------- MODULE MetadataRegister --------------------------
(***************************************************************************)
(* What the LUKS2 metadata store promises its users: one register whose    *)
(* value is the set of updates that went into the header.  Updates are     *)
(* never dropped by another update; a power failure may undo only updates  *)
(* that were not acknowledged yet.                                         *)
(***************************************************************************)
EXTENDS Naturals

CONSTANT Updates

VARIABLES
  value,    \* updates a reader finds in the header
  acked,    \* updates whose writer was told that they are stored
  epoch     \* power failures so far

Init == value = {} /\ acked = {} /\ epoch = 0

(* A write takes effect: it extends what was stored. *)
Commit ==
  /\ value' \in SUBSET Updates
  /\ value \subseteq value'
  /\ UNCHANGED <<acked, epoch>>

(* A write returns success. *)
Acknowledge ==
  /\ acked' \in SUBSET value
  /\ acked \subseteq acked'
  /\ UNCHANGED <<value, epoch>>

PowerFailure ==
  /\ epoch' = epoch + 1
  /\ value' \in SUBSET value
  /\ acked \subseteq value'
  /\ UNCHANGED acked

Next == Commit \/ Acknowledge \/ PowerFailure

Spec == Init /\ [][Next]_<<value, acked, epoch>>
=============================================================================
