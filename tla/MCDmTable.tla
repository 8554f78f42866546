------------------------------ MODULE MCDmTable ------------------------------
(***************************************************************************)
(* Small instances of DmTable: three kernels, a few requests per target.   *)
(***************************************************************************)
EXTENDS DmTable

Old == [ver |-> [crypt |-> <<1, 10, 0>>, verity |-> <<1, 2, 0>>, integrity |-> <<1, 1, 0>>],
        getver |-> FALSE, backport |-> {}]
Middle == [ver |-> [crypt |-> <<1, 14, 0>>, verity |-> <<1, 5, 0>>, integrity |-> <<1, 4, 0>>],
           getver |-> TRUE, backport |-> {"legacy_recalculate", "no_read_workqueue"}]
New == [ver |-> [crypt |-> <<1, 24, 0>>, verity |-> <<1, 9, 0>>, integrity |-> <<1, 10, 0>>],
        getver |-> TRUE, backport |-> {"legacy_recalculate"}]
MCKernels == {Old, Middle, New}
OldKernel == {Old}

Cipher(c, m, i) == [c |-> c, mode |-> m, iv |-> i]
Crypt(c, integ, sector) == [type |-> "crypt", cipher |-> c, integ |-> integ, tag |-> 0, sector |-> sector]
MCCryptReqs ==
  {[tgt |-> Crypt(Cipher("aes", "xts", "plain64"), "NULL", 4096),
    flags |-> {"allow_discards", "keyring", "iv_large_sectors"}],
   [tgt |-> Crypt(Cipher("aes", "xts", "plain64"), "NULL", 512),
    flags |-> {"allow_discards", "same_cpu_crypt", "no_read_workqueue"}],
   [tgt |-> Crypt(Cipher("cipher_null", "ecb", ""), "NULL", 512), flags |-> {"readonly", "no_write_workqueue"}],
   [tgt |-> Crypt(Cipher("aes", "ccm", "random"), "aead", 512), flags |-> {}],
   [tgt |-> Crypt(Cipher("aes", "gcm", "random"), "aead", 512), flags |-> {"keyring"}],
   [tgt |-> Crypt(Cipher("aegis256", "", "random"), "aead", 512), flags |-> {"no_read_workqueue"}],
   [tgt |-> Crypt(Cipher("chacha20", "", "random"), "poly1305", 512), flags |-> {"allow_discards"}],
   [tgt |-> Crypt(Cipher("aes", "xts", "random"), "hmac(sha256)", 4096), flags |-> {"keyring"}],
   [tgt |-> Crypt(Cipher("aes", "xts", "random"), "none", 4096), flags |-> {"submit_from_crypt_cpus"}]}

Verity(fec, sig, salt) == [type |-> "verity", root |-> "r", hash |-> "sha256", salt_size |-> salt,
                           fec |-> fec, sig |-> sig]
NoFec == [start |-> 0, blocks |-> 0, roots |-> 0]
Fec == [start |-> 3, blocks |-> 5, roots |-> 2]
MCVerityReqs ==
  {[tgt |-> Verity(NoFec, FALSE, 0), flags |-> {}],
   [tgt |-> Verity(Fec, FALSE, 32), flags |-> {"ignore_corruption", "restart_on_corruption", "check_at_most_once"}],
   [tgt |-> Verity(Fec, TRUE, 32), flags |-> {"panic_on_corruption", "restart_on_corruption", "try_verify_in_tasklet"}],
   [tgt |-> Verity(NoFec, TRUE, 0), flags |-> {"ignore_zero_blocks", "ignore_corruption"}]}

Num(js, wm, ct, bs) ==
  [journal_size |-> js, journal_watermark |-> wm, journal_commit_time |-> ct,
   interleave_sectors |-> 0, sector_size |-> 512, buffer_sectors |-> bs]
Alg(h, hk, m, mk) == [integrity |-> <<h, hk>>, journal_integrity |-> <<m, mk>>, journal_crypt |-> <<"NULL", "NULL">>]
Crc == Alg("crc32c", "NULL", "NULL", "NULL")
Hmac == Alg("hmac(sha256)", "k", "NULL", "NULL")
MCFormats ==
  {[num |-> Num(0, 0, 0, 0), alg |-> Crc, tag |-> 0, compat |-> {}],
   [num |-> Num(8388624, 20, 0, 0), alg |-> Hmac, tag |-> 16, compat |-> {"legacy_hmac"}],
   [num |-> Num(64, 0, 0, 0), alg |-> Crc, tag |-> 0, compat |-> {"legacy_padding", "meta_device"}]}
Itgt(num, alg) == [num |-> num, alg |-> alg]
MCIntegrityReqs ==
  {[tgt |-> Itgt(Num(0, 0, 0, 0), Crc), compat |-> {}, flags |-> {"recalculate"}],
   [tgt |-> Itgt(Num(0, 70, 500, 0), Crc), compat |-> {}, flags |-> {"allow_discards"}],
   [tgt |-> Itgt(Num(0, 0, 0, 256), Crc), compat |-> {}, flags |-> {"no_journal", "recovery"}],
   [tgt |-> Itgt(Num(0, 1024, 100, 0), Crc), compat |-> {"meta_device"}, flags |-> {"no_journal", "bitmap", "allow_discards"}],
   [tgt |-> Itgt(Num(0, 0, 0, 0), Hmac), compat |-> {}, flags |-> {"no_journal", "reset_recalculate"}],
   [tgt |-> Itgt(Num(0, 30, 0, 0), Hmac), compat |-> {"legacy_recalculate"}, flags |-> {"recalculate", "allow_discards"}]}
====
