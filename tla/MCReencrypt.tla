---------------------------- MODULE MCReencrypt ----------------------------
(* Configurations to check Reencrypt with. *)
EXTENDS Reencrypt

InPlaceConfig(mode, dir, res, size, hot, attached) ==
  [mode |-> mode, dir |-> dir, res |-> res, mres |-> "unset", size |-> size, hot |-> hot,
   shift |-> 0, moved |-> 0, head |-> IF attached THEN 1 ELSE 0, attached |-> attached]

ShiftConfig(mode, mres, size, shift, moved, attached) ==
  [mode |-> mode, dir |-> IF mode = "encrypt" THEN "backward" ELSE "forward",
   res |-> "datashift", mres |-> mres, size |-> size, hot |-> 1, shift |-> shift,
   moved |-> moved, head |-> shift, attached |-> attached]

(* Supported by the tools: reencryption in place, encryption in place with *)
(* a detached header, decryption in place, which goes backward, encryption *)
(* and decryption with data shift.  Backward, the size is a multiple of    *)
(* the hotzone.                                                            *)
SafeConfigs ==
  {InPlaceConfig("reencrypt", "forward", r, 5, 2, TRUE) : r \in {"checksum", "journal", "none"}}
  \cup {InPlaceConfig("reencrypt", "backward", "checksum", 4, 2, TRUE)}
  \cup {InPlaceConfig("encrypt", "forward", r, 3, 2, FALSE) : r \in {"checksum", "journal"}}
  \cup {InPlaceConfig("decrypt", "backward", r, 4, 2, FALSE) : r \in {"checksum", "none"}}
  \cup {ShiftConfig("encrypt", "unset", n, 2, 2, TRUE) : n \in {4, 5}}
  \cup {ShiftConfig("decrypt", m, 5, 2, 2, FALSE) : m \in {"checksum", "journal"}}

(* Decryption in place of a size that is no multiple of the hotzone. *)
OddBackward == {InPlaceConfig("decrypt", "backward", "checksum", 5, 2, FALSE)}

(* Reencryption in place, the default of the tool. *)
PlainReencrypt == {InPlaceConfig("reencrypt", "forward", "checksum", 5, 2, TRUE)}

(* Encryption in place with a detached header. *)
PlainEncrypt == {InPlaceConfig("encrypt", "forward", "checksum", 3, 2, FALSE)}

(* Decryption with data shift and a smaller moved segment (--hotzone-size). *)
SmallMoved == {ShiftConfig("decrypt", "checksum", 5, 2, 1, FALSE)}
=============================================================================
