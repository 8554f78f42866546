-------------------------- MODULE MCReencryptInit --------------------------
(* Two passphrases, six keyslots, two block sizes; a moved segment of 3 units
   fits checksums of 2-unit blocks only, one of 2 units fits every protection. *)
EXTENDS ReencryptInit

MCScenarios == {"encrypt", "encrypt_hdr", "decrypt", "decrypt_hdr", "reencrypt", "legacy"}
MCHashes == {"sha256", "sha1"}
MCPasses == <<"p1", "p2">>
MCVolumeKeys == <<"new1", "new2">>
MCAligns == {1, 2}
MCMovedSizes == {2, 3}
=============================================================================
