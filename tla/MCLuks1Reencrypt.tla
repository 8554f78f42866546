--------------------------- MODULE MCLuks1Reencrypt ---------------------------
EXTENDS Luks1Reencrypt

\* The documented command lines: encryption needs a detached header or a
\* reduction of the device, decryption and --keep-key go without a reduction.
MCOptions ==
  {o \in [mode : {"REENCRYPT", "ENCRYPT", "DECRYPT"}, shift : {0, 1}, detached : BOOLEAN,
          wlog : BOOLEAN, fsync : BOOLEAN, keep : BOOLEAN] :
     /\ o.mode = "ENCRYPT" => o.detached \/ o.shift > 0
     /\ o.mode = "DECRYPT" => o.shift = 0
     /\ o.keep => o.mode = "REENCRYPT" /\ o.shift = 0}
==============================================================================
