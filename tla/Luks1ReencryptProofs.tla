------------------------ MODULE Luks1ReencryptProofs ------------------------
(***************************************************************************)
(* The safety of the LUKS1 tool for devices and headers of every size, any *)
(* command line of ReencAssumption, any number of crashes, signals and     *)
(* I/O errors.                                                             *)
(*   CrashCostsABlock     a crash or an error costs at most one block      *)
(*   MixedDeviceIsMarked  a device of two keys cannot be activated         *)
(*   EndedIsComplete      a run that ends well has copied everything       *)
(* The core is Data: one offset splits the blocks into those stored with   *)
(* the new key and those stored with the old one, but for a set of blocks  *)
(* that has at most one member per crash or error.                         *)
(***************************************************************************)
EXTENDS Luks1Reencrypt, FiniteSetTheorems, TLAPS

-----------------------------------------------------------------------------
(* The data *)

\* Where a run reads and writes, as a value that no step changes.
Geo == [old |-> OffOld, new |-> OffNew, kold |-> KeyOld, knew |-> KeyNew, blocks |-> Blocks,
        fwd |-> opt.shift = 0, fsync |-> opt.fsync]
All(g) == 0..(g.blocks - 1)

\* With the offset off, block b is done; the block that was written last and the
\* one to come; where the copy ends.
Past(g, b, off) == IF g.fwd THEN b < off ELSE b >= off
Latest(g, off)  == IF g.fwd THEN off - 1 ELSE off
Coming(g, off)  == IF g.fwd THEN off ELSE off - 1
End(g)          == IF g.fwd THEN g.blocks ELSE 0

\* But for the blocks in B, those behind off are stored with the new key and
\* those before it with the old one.
Split(g, p, off, B) ==
  \A b \in All(g) \ B : IF Past(g, b, off) THEN p[g.new + b] = Cell(b, g.knew)
                                           ELSE p[g.old + b] = Cell(b, g.kold)
\* What a power failure may take back are blocks in doubt that are done or, if
\* no block is being written, are about to be written again.
Unsure(g, d, off, B, last) ==
  g.fsync => \A x \in d : \E b \in (B \cup last) \cap All(g) :
                 x[1] = g.new + b /\ (Past(g, b, off) \/ (last = {} /\ b = Coming(g, off)))

\* At most n blocks are in doubt, and those of the set last.
Data(g, p, d, off, n, last) ==
  \E B \in SUBSET All(g) :
    Cardinality(B) <= n /\ Split(g, p, off, B) /\ Unsure(g, d, off, B, last)

-----------------------------------------------------------------------------
(* The run *)

Loop == {"loop", "logging", "syncing"}
\* The offset from which the run, or the next one, goes on.
Front == IF pc \in Loop THEN rc.off
         ELSE IF log = << >> \/ pc = "done" THEN End(Geo) ELSE log[1].off

\* Without --write-log the log is right as long as nothing goes wrong.
DataInv ==
  Logged =>
    Data(Geo, phys, dirty, Front, Mishaps,
         IF pc \in {"logging", "syncing"} THEN {Latest(Geo, Front)} ELSE {})

Dir == IF opt.shift = 0 THEN "FORWARD" ELSE "BACKWARD"

Untouched ==
  /\ \A b \in All(Geo) : phys[OffOld + b] = Cell(b, KeyOld) /\ phys[OffNew + b] # Cell(b, KeyNew)
  /\ dirty = {}

\* Nothing has been copied: no run yet, or one that has not come to copy_data.
Fresh ==
  /\ Untouched
  /\ hdr = IF opt.mode = "ENCRYPT" THEN "none"
           ELSE IF pc \in {"activate", "copy"} THEN "nomagic" ELSE "luks"
  /\ pc \in EarlyPhases \cup {"idle", "destroy", "unlink"}
  /\ pc \in {"idle", "unlink"} <=> log = << >>
  /\ pc \in EarlyPhases \cup {"destroy"} => ~rc.in_progress
  /\ pc \in EarlyPhases => rc.mode = opt.mode /\ rc.dir = Dir
  /\ pc # "idle" => (opt.shift = 0 => rc.off = 0)
  /\ pc \in EarlyPhases \cup {"destroy"} =>
       (rc.stained <=> opt.mode # "ENCRYPT" /\ pc \in {"activate", "copy"})
  /\ pc \in {"fake", "format"} => "org" \in files
  /\ pc \in {"unusable", "activate", "copy"} => files = {"org", "new"}
  /\ pc = "fake" => opt.mode = "DECRYPT"
  /\ pc = "unusable" => opt.mode # "ENCRYPT"

\* copy_data has begun: the log tells how far it has come, and what destroy_context
\* unlinks is no longer needed.
Copying ==
  /\ files = {"org", "new"} /\ log # << >> /\ log[1].dir = Dir /\ log[1].mode = opt.mode
  /\ hdr \in IF opt.mode = "ENCRYPT" THEN {"none", "new"}
             ELSE IF opt.mode = "REENCRYPT" THEN {"nomagic", "new"} ELSE {"nomagic", "none"}
  /\ hdr = "new" /\ Logged => Front = End(Geo) /\ log[1].off = End(Geo)
  /\ pc \in {"idle", "passphrase", "activate", "copy", "restore", "finish", "destroy"} \cup Loop
  /\ pc \in {"passphrase", "activate", "copy"} => rc.in_progress /\ rc.off = log[1].off
  /\ pc \in {"passphrase", "activate", "copy"} \cup Loop => rc.dir = Dir /\ rc.mode = opt.mode
  /\ pc \in {"passphrase", "activate", "copy", "restore", "finish"} \cup Loop => rc.stained
  /\ pc \in {"restore", "finish"} /\ Logged => log[1].off = End(Geo)
  /\ pc = "restore" => opt.mode # "DECRYPT"
  /\ pc = "finish" => opt.mode = "DECRYPT"
  /\ pc = "destroy" /\ ~rc.stained =>
       (Logged => log[1].off = End(Geo)) /\ (opt.mode # "DECRYPT" => hdr = "new")
  /\ opt.mode = "DECRYPT" /\ (pc = "finish" \/ (pc = "destroy" /\ ~rc.stained)) =>
       rc.off = End(Geo) /\ rc.mode = "DECRYPT"
  /\ opt.wlog /\ pc \in {"loop", "syncing"} => log[1].off = rc.off
  /\ opt.wlog /\ pc = "logging" => rc.off = IF opt.shift = 0 THEN log[1].off + 1 ELSE log[1].off - 1
  /\ pc \in {"logging", "syncing"} => Latest(Geo, rc.off) \in All(Geo)

\* The tool has come to its end, or only has to unlink the files.
Ended ==
  /\ pc \in {"unlink", "done"}
  /\ IF opt.mode = "DECRYPT" THEN hdr \in {"nomagic", "none"} ELSE hdr = "new"
  /\ pc = "unlink" => log = << >> /\ (opt.mode = "DECRYPT" => rc.off = End(Geo) /\ rc.mode = "DECRYPT")

\* With --keep-key nothing is copied.
KeepInv ==
  opt.keep =>
    /\ \A b \in All(Geo) : phys[OffOld + b] = Cell(b, KeyOld)
    /\ hdr # "none" /\ pc \notin Loop \cup {"copy", "finish"}
    /\ dirty = {}

\* What the properties except, and --keep-key, for which KeepInv says more.
Excused == Excepted \/ opt.keep
RunInv == Excused \/ Fresh \/ (Copying /\ DataInv) \/ (Ended /\ DataInv)
ToolInv == TypeOK /\ KeepInv /\ RunInv

-----------------------------------------------------------------------------
(* Sizes and keys *)

IsGeo(g) ==
  /\ g.old \in Nat /\ g.new \in Nat /\ g.blocks \in Nat /\ g.fwd \in BOOLEAN
  /\ g.fwd => g.new <= g.old
  /\ ~g.fwd => g.new > g.old
  /\ \A b \in All(g) : g.new + b \in Positions /\ g.old + b \in Positions

\* The command line, as ReencAssumption gives it.
LEMMA OptionFacts ==
  ASSUME opt \in Options
  PROVE  /\ opt.mode \in Modes /\ opt.shift \in 0..Size /\ opt.detached \in BOOLEAN
         /\ opt.wlog \in BOOLEAN /\ opt.fsync \in BOOLEAN /\ opt.keep \in BOOLEAN
         /\ opt.mode = "DECRYPT" => opt.shift = 0
         /\ opt.keep => opt.mode = "REENCRYPT" /\ opt.shift = 0
         /\ Size \in Nat \ {0} /\ HdrBlocks \in Nat \ {0}
<1>1. opt \in [mode : {"REENCRYPT", "ENCRYPT", "DECRYPT"}, shift : Nat, detached : BOOLEAN,
               wlog : BOOLEAN, fsync : BOOLEAN, keep : BOOLEAN]
  BY ReencAssumption
<1>2. opt.shift <= Size /\ (opt.mode = "DECRYPT" => opt.shift = 0)
      /\ (opt.keep => opt.mode = "REENCRYPT" /\ opt.shift = 0)
  BY ReencAssumption, Zenon
<1>3. Size \in Nat \ {0} /\ HdrBlocks \in Nat \ {0}
  BY ReencAssumption
<1> QED BY <1>1, <1>2, <1>3 DEF Modes

\* Where the new mapping starts, case by case.
LEMMA OffNewFacts ==
  /\ opt.mode = "REENCRYPT" => OffNew = H + opt.shift
  /\ opt.mode = "ENCRYPT" => OffNew = opt.shift
  /\ opt.mode = "DECRYPT" => OffNew = 0
<1>1. "REENCRYPT" # "ENCRYPT" /\ "REENCRYPT" # "DECRYPT" /\ "ENCRYPT" # "DECRYPT"
  OBVIOUS
<1> QED BY <1>1, Zenon DEF OffNew

\* What the mappings encrypt with, case by case.
LEMMA KeyFacts ==
  ASSUME opt \in Options
  PROVE  /\ opt.mode = "DECRYPT" => KeyNew = "plain" /\ KeyOld = "old"
         /\ opt.mode = "ENCRYPT" => KeyNew = "new" /\ KeyOld = "plain"
         /\ opt.mode = "REENCRYPT" => KeyNew = (IF opt.keep THEN "old" ELSE "new") /\ KeyOld = "old"
<1>1. opt.mode # "ENCRYPT" => KeyOld = "old"
  BY DEF KeyOld
<1>2. opt.mode = "ENCRYPT" => KeyOld = "plain"
  BY DEF KeyOld
<1>3. opt.mode \in Modes /\ opt.keep \in BOOLEAN /\ (opt.keep => opt.mode = "REENCRYPT")
  BY OptionFacts
<1>4. opt.mode = "DECRYPT" => KeyNew = "plain"
  <2>1. ASSUME opt.mode = "DECRYPT" PROVE ~opt.keep
    BY <1>3, <2>1
  <2> QED BY <2>1, Zenon DEF KeyNew
<1>5. opt.mode # "DECRYPT" /\ opt.keep => KeyNew = KeyOld
  BY Zenon DEF KeyNew
<1>6. opt.mode # "DECRYPT" /\ ~opt.keep => KeyNew = "new"
  BY Zenon DEF KeyNew
<1> QED BY <1>1, <1>2, <1>3, <1>4, <1>5, <1>6 DEF Modes

\* The fields of Geo.
LEMMA GeoFields ==
  /\ Geo.old = OffOld /\ Geo.new = OffNew /\ Geo.kold = KeyOld /\ Geo.knew = KeyNew
  /\ Geo.blocks = Blocks /\ Geo.fwd = (opt.shift = 0) /\ Geo.fsync = opt.fsync
BY DEF Geo

\* The sizes: a copy that goes forward never writes behind what it reads, and
\* one that goes backward never before it.
LEMMA GeoFacts ==
  ASSUME opt \in Options
  PROVE  IsGeo(Geo) /\ Blocks \in 0..Size /\ (opt.mode = "DECRYPT" => Blocks = Size) /\ H \in 0..HdrBlocks
<1>1. /\ opt.mode \in Modes /\ opt.shift \in 0..Size
      /\ opt.mode = "DECRYPT" => opt.shift = 0
      /\ Size \in Nat \ {0} /\ HdrBlocks \in Nat \ {0}
  BY OptionFacts
<1>2. H \in 0..HdrBlocks
  BY <1>1 DEF H
<1>3. Blocks \in 0..Size /\ (opt.mode = "DECRYPT" => Blocks = Size)
  BY <1>1 DEF Blocks
<1>4. OffOld = IF opt.mode = "ENCRYPT" THEN 0 ELSE H
  BY DEF OffOld
<1>5. IsGeo(Geo)
  <2>0. /\ Geo.old = OffOld /\ Geo.new = OffNew /\ Geo.blocks = Blocks
        /\ Geo.fwd <=> opt.shift = 0
        /\ Geo.fwd \in BOOLEAN
    BY GeoFields
  <2>1. CASE opt.mode = "REENCRYPT"
    <3>1. OffNew = H + opt.shift /\ OffOld = H /\ Blocks = Size - opt.shift
      BY <2>1, <1>4, OffNewFacts DEF Blocks
    <3> QED BY <1>1, <1>2, <3>1, <2>0 DEF IsGeo, All, Positions
  <2>2. CASE opt.mode = "ENCRYPT"
    <3>1. OffNew = opt.shift /\ OffOld = 0 /\ Blocks = Size - opt.shift
      BY <2>2, <1>4, OffNewFacts DEF Blocks
    <3> QED BY <1>1, <1>2, <3>1, <2>0 DEF IsGeo, All, Positions
  <2>3. CASE opt.mode = "DECRYPT"
    <3>1. OffNew = 0 /\ OffOld = H /\ Blocks = Size
      BY <2>3, <1>4, OffNewFacts DEF Blocks
    <3> QED BY <1>1, <1>2, <2>3, <3>1, <2>0 DEF IsGeo, All, Positions
  <2> QED BY <1>1, <2>1, <2>2, <2>3 DEF Modes
<1> QED BY <1>2, <1>3, <1>5

\* No step changes the command line.
LEMMA Frame ==
  ASSUME opt' = opt
  PROVE  /\ Geo' = Geo /\ OffOld' = OffOld /\ OffNew' = OffNew /\ KeyOld' = KeyOld /\ KeyNew' = KeyNew
         /\ Blocks' = Blocks /\ Dir' = Dir /\ H' = H /\ ForwardEncrypt' = ForwardEncrypt /\ LogFiles' = LogFiles
<1>1. H' = H /\ Blocks' = Blocks /\ Dir' = Dir /\ ForwardEncrypt' = ForwardEncrypt /\ KeyOld' = KeyOld
  BY DEF H, Blocks, Dir, ForwardEncrypt, KeyOld
<1>2. OffOld' = OffOld
  BY <1>1 DEF OffOld
<1>3. OffNew' = OffNew
  BY <1>1, Zenon DEF OffNew
<1>4. KeyNew' = KeyNew
  BY <1>1, Zenon DEF KeyNew
<1>5. LogFiles' = LogFiles
  BY <1>1 DEF LogFiles, Logs
<1> QED BY <1>1, <1>2, <1>3, <1>4, <1>5 DEF Geo

-----------------------------------------------------------------------------
(* What the steps of a copy do to Data *)

\* Block w is copied: p and d become q and e, the offset off becomes next.
CopyStep(g, p, q, d, e, off, next, w) ==
  /\ off \in Nat /\ next \in Nat /\ w \in All(g) /\ w = Coming(g, off) /\ w = Latest(g, next)
  /\ next = IF g.fwd THEN off + 1 ELSE off - 1
  /\ p[g.old + w] = Cell(w, g.kold) => q[g.new + w] = Cell(w, g.knew)
  /\ \A x \in Positions : x # g.new + w => q[x] = p[x]
  /\ \A x \in e : x \in d \/ x[1] = g.new + w

\* The block that is copied is as good as it was, and in doubt until it is
\* logged and synced.
LEMMA DataCopied ==
  ASSUME NEW g, IsGeo(g), NEW p, NEW q, NEW d, NEW e, NEW off, NEW next, NEW w, NEW n,
         CopyStep(g, p, q, d, e, off, next, w), Data(g, p, d, off, n, {})
  PROVE  Data(g, q, e, next, n, {w})
<1>0. /\ off \in Nat /\ next \in Nat /\ w \in All(g) /\ w = Coming(g, off) /\ w = Latest(g, next)
      /\ next = IF g.fwd THEN off + 1 ELSE off - 1
      /\ p[g.old + w] = Cell(w, g.kold) => q[g.new + w] = Cell(w, g.knew)
      /\ \A x \in Positions : x # g.new + w => q[x] = p[x]
      /\ \A x \in e : x \in d \/ x[1] = g.new + w
  BY DEF CopyStep
<1> USE <1>0
<1>1. PICK B \in SUBSET All(g) :
        Cardinality(B) <= n /\ Split(g, p, off, B) /\ Unsure(g, d, off, B, {})
  BY DEF Data
<1>2. Split(g, q, next, B)
  <2> SUFFICES ASSUME NEW b \in All(g) \ B
               PROVE  IF Past(g, b, next) THEN q[g.new + b] = Cell(b, g.knew)
                                          ELSE q[g.old + b] = Cell(b, g.kold)
    BY DEF Split
  <2>0. b \in Int /\ w \in Int /\ b >= 0 /\ w >= 0 /\ g.new + b \in Positions /\ g.old + b \in Positions
        /\ g.new \in Nat /\ g.old \in Nat
    BY DEF All, IsGeo
  <2>1. CASE b = w
    <3>1. ~Past(g, b, off) /\ Past(g, b, next)
      BY <2>0, <2>1 DEF Past, Coming, IsGeo
    <3>2. p[g.old + w] = Cell(w, g.kold)
      BY <1>1, <2>1, <3>1 DEF Split
    <3> QED BY <2>0, <2>1, <3>1, <3>2
  <2>2. CASE b # w
    <3>1. Past(g, b, next) = Past(g, b, off)
      BY <2>0, <2>2 DEF Past, Coming, IsGeo
    <3>2. CASE Past(g, b, off)
      <4>1. p[g.new + b] = Cell(b, g.knew)
        BY <1>1, <3>2 DEF Split
      <4>2. g.new + b # g.new + w
        BY <2>0, <2>2
      <4> QED BY <2>0, <3>1, <3>2, <4>1, <4>2
    <3>3. CASE ~Past(g, b, off)
      <4>1. p[g.old + b] = Cell(b, g.kold)
        BY <1>1, <3>3 DEF Split
      <4>2. g.old + b # g.new + w
        BY <2>0, <2>2, <3>3 DEF Past, Coming, IsGeo
      <4> QED BY <2>0, <3>1, <3>3, <4>1, <4>2
    <3> QED BY <3>2, <3>3
  <2> QED BY <2>1, <2>2
<1>3. Unsure(g, e, next, B, {w})
  <2> SUFFICES ASSUME g.fsync, NEW x \in e
               PROVE  \E b \in (B \cup {w}) \cap All(g) :
                        x[1] = g.new + b /\ Past(g, b, next)
    BY DEF Unsure
  <2>0. w \in Int /\ w >= 0
    BY DEF All, IsGeo
  <2>1. Past(g, w, next)
    BY <2>0 DEF Past, Coming, IsGeo
  <2>2. CASE x[1] = g.new + w
    BY <2>1, <2>2
  <2>3. CASE x \in d
    <3>1. PICK b \in (B \cup {}) \cap All(g) : x[1] = g.new + b /\ (Past(g, b, off) \/ b = Coming(g, off))
      BY <1>1, <2>3 DEF Unsure
    <3>2. b \in Int
      BY DEF All, IsGeo
    <3>3. Past(g, b, next)
      BY <3>1, <3>2, <2>0 DEF Past, Coming, IsGeo
    <3> QED BY <3>1, <3>3
  <2> QED BY <2>2, <2>3
<1> QED
  BY <1>1, <1>2, <1>3 DEF Data

\* A set of blocks is finite.
LEMMA BlocksFinite ==
  ASSUME NEW g, IsGeo(g), NEW B \in SUBSET All(g)
  PROVE  IsFiniteSet(B) /\ Cardinality(B) \in Nat
<1>0. g.blocks - 1 \in Int
  BY DEF IsGeo
<1>1. IsFiniteSet(All(g))
  BY <1>0, FS_Interval DEF All
<1> QED BY <1>1, FS_Subset, FS_CardinalityType

\* A step that spoils the block it writes puts it in doubt, whether the offset
\* goes on or stays.
SpoilStep(g, p, q, d, e, off, next, w) ==
  /\ off \in Nat /\ next \in Nat /\ w \in All(g) /\ w = Coming(g, off) /\ w = Latest(g, next)
  /\ next = IF g.fwd THEN off + 1 ELSE off - 1
  /\ \A x \in Positions : x # g.new + w => q[x] = p[x]
  /\ \A x \in e : x \in d \/ x[1] = g.new + w

LEMMA DataSpoiled ==
  ASSUME NEW g, IsGeo(g), NEW p, NEW q, NEW d, NEW e, NEW off, NEW next, NEW w, NEW n \in Nat,
         SpoilStep(g, p, q, d, e, off, next, w), Data(g, p, d, off, n, {})
  PROVE  Data(g, q, e, off, n + 1, {}) /\ Data(g, q, e, next, n + 1, {w})
<1>0. /\ off \in Nat /\ next \in Nat /\ w \in All(g) /\ w = Coming(g, off) /\ w = Latest(g, next)
      /\ next = IF g.fwd THEN off + 1 ELSE off - 1
      /\ \A x \in Positions : x # g.new + w => q[x] = p[x]
      /\ \A x \in e : x \in d \/ x[1] = g.new + w
  BY DEF SpoilStep
<1> USE <1>0
<1>1. PICK B \in SUBSET All(g) :
        Cardinality(B) <= n /\ Split(g, p, off, B) /\ Unsure(g, d, off, B, {})
  BY DEF Data
<1> DEFINE C == B \cup {w}
<1>2. C \in SUBSET All(g) /\ Cardinality(C) <= n + 1
  <2>1. IsFiniteSet(B) /\ Cardinality(B) \in Nat
    BY BlocksFinite
  <2>2. Cardinality(C) = Cardinality(B) \/ Cardinality(C) = Cardinality(B) + 1
    BY <2>1, FS_AddElement
  <2> QED BY <1>1, <2>1, <2>2
<1>3. w \in Int /\ w >= 0
  BY DEF All, IsGeo
<1>4. Split(g, q, off, C) /\ Split(g, q, next, C)
  <2> SUFFICES ASSUME NEW b \in All(g) \ C
               PROVE  /\ Past(g, b, next) <=> Past(g, b, off)
                      /\ IF Past(g, b, off) THEN q[g.new + b] = Cell(b, g.knew)
                                             ELSE q[g.old + b] = Cell(b, g.kold)
    BY DEF Split
  <2>0. b \in Int /\ b >= 0 /\ b # w /\ g.new + b \in Positions /\ g.old + b \in Positions
        /\ g.new \in Nat /\ g.old \in Nat
    BY DEF All, IsGeo
  <2>1. Past(g, b, next) <=> Past(g, b, off)
    BY <1>3, <2>0 DEF Past, Coming, IsGeo
  <2>2. CASE Past(g, b, off)
    <3>1. p[g.new + b] = Cell(b, g.knew)
      BY <1>1, <2>2 DEF Split
    <3>2. g.new + b # g.new + w
      BY <1>3, <2>0
    <3> QED BY <2>0, <2>1, <2>2, <3>1, <3>2
  <2>3. CASE ~Past(g, b, off)
    <3>1. p[g.old + b] = Cell(b, g.kold)
      BY <1>1, <2>3 DEF Split
    <3>2. g.old + b # g.new + w
      BY <1>3, <2>0, <2>3 DEF Past, Coming, IsGeo
    <3> QED BY <2>0, <2>1, <2>3, <3>1, <3>2
  <2> QED BY <2>2, <2>3, <2>1
<1>5. Unsure(g, e, off, C, {}) /\ Unsure(g, e, next, C, {w})
  <2> SUFFICES ASSUME g.fsync, NEW x \in e
               PROVE  \E b \in C \cap All(g) :
                        x[1] = g.new + b /\ (Past(g, b, off) \/ b = w) /\ Past(g, b, next)
    BY DEF Unsure
  <2>1. Past(g, w, next)
    BY <1>3 DEF Past, Coming, IsGeo
  <2>2. CASE x[1] = g.new + w
    BY <2>1, <2>2
  <2>3. CASE x \in d
    <3>1. PICK b \in B \cap All(g) : x[1] = g.new + b /\ (Past(g, b, off) \/ b = Coming(g, off))
      BY <1>1, <2>3 DEF Unsure
    <3>2. b \in Int
      BY DEF All, IsGeo
    <3>3. Past(g, b, next)
      BY <1>3, <3>1, <3>2 DEF Past, Coming, IsGeo
    <3> QED BY <3>1, <3>3
  <2> QED BY <2>2, <2>3
<1> QED
  BY <1>2, <1>4, <1>5 DEF Data

\* A crash before the last block is logged or synced puts that block in doubt;
\* the next run goes on at the logged offset.
LEMMA DataKilled ==
  ASSUME NEW g, IsGeo(g), NEW p, NEW d, NEW off \in Nat, NEW back \in Nat, NEW n \in Nat,
         Latest(g, off) \in All(g),
         back = off \/ off = IF g.fwd THEN back + 1 ELSE back - 1,
         Data(g, p, d, off, n, {Latest(g, off)})
  PROVE  Data(g, p, d, back, n + 1, {})
<1> DEFINE w == Latest(g, off)
<1>1. PICK B \in SUBSET All(g) :
        Cardinality(B) <= n /\ Split(g, p, off, B) /\ Unsure(g, d, off, B, {w})
  BY DEF Data
<1> DEFINE C == B \cup {w}
<1>2. C \in SUBSET All(g) /\ Cardinality(C) <= n + 1
  <2>1. IsFiniteSet(B) /\ Cardinality(B) \in Nat
    BY BlocksFinite
  <2>2. Cardinality(C) = Cardinality(B) \/ Cardinality(C) = Cardinality(B) + 1
    BY <2>1, FS_AddElement
  <2> QED BY <1>1, <2>1, <2>2
<1>3. Split(g, p, back, C)
  <2> SUFFICES ASSUME NEW b \in All(g) \ C
               PROVE  IF Past(g, b, back) THEN p[g.new + b] = Cell(b, g.knew)
                                          ELSE p[g.old + b] = Cell(b, g.kold)
    BY DEF Split
  <2>1. b \in Int /\ b # w
    BY DEF All, IsGeo
  <2>2. Past(g, b, back) <=> Past(g, b, off)
    BY <2>1 DEF Past, Latest, IsGeo
  <2> QED BY <1>1, <2>2 DEF Split
<1>4. Unsure(g, d, back, C, {})
  <2> SUFFICES ASSUME g.fsync, NEW x \in d
               PROVE  \E b \in (C \cup {}) \cap All(g) :
                        x[1] = g.new + b /\ (Past(g, b, back) \/ b = Coming(g, back))
    BY DEF Unsure
  <2>1. PICK b \in (B \cup {w}) \cap All(g) : x[1] = g.new + b /\ Past(g, b, off)
    BY <1>1 DEF Unsure
  <2>2. b \in Int
    BY DEF All, IsGeo
  <2>3. Past(g, b, back) \/ b = Coming(g, back)
    BY <2>1, <2>2 DEF Past, Coming, IsGeo
  <2> QED BY <2>1, <2>3
<1> QED
  BY <1>2, <1>3, <1>4 DEF Data

\* More blocks may be in doubt.
LEMMA DataMore ==
  ASSUME NEW g, IsGeo(g), NEW p, NEW d, NEW off, NEW n \in Nat, NEW m \in Nat, n <= m, NEW last,
         Data(g, p, d, off, n, last)
  PROVE  Data(g, p, d, off, m, last)
<1>1. PICK B \in SUBSET All(g) :
        Cardinality(B) <= n /\ Split(g, p, off, B) /\ Unsure(g, d, off, B, last)
  BY DEF Data
<1>2. Cardinality(B) <= m
  BY <1>1, BlocksFinite
<1> QED BY <1>1, <1>2 DEF Data

\* Power fails: unsynced blocks are lost, and they are in doubt already.
LEMMA DataLost ==
  ASSUME NEW g, IsGeo(g), NEW p, NEW q, NEW d, NEW off \in Nat, NEW n, g.fsync,
         \A x \in Positions : (\A e \in d : e[1] # x) => q[x] = p[x],
         Data(g, p, d, off, n, {})
  PROVE  Data(g, q, {}, off, n, {})
<1>1. PICK B \in SUBSET All(g) :
        Cardinality(B) <= n /\ Split(g, p, off, B) /\ Unsure(g, d, off, B, {})
  BY DEF Data
<1>2. Split(g, q, off, B)
  <2> SUFFICES ASSUME NEW b \in All(g) \ B
               PROVE  IF Past(g, b, off) THEN q[g.new + b] = Cell(b, g.knew)
                                         ELSE q[g.old + b] = Cell(b, g.kold)
    BY DEF Split
  <2>1. b \in Int /\ g.new + b \in Positions /\ g.old + b \in Positions /\ g.new \in Nat /\ g.old \in Nat
    BY DEF All, IsGeo
  <2>2. ASSUME NEW e \in d
        PROVE  e[1] # g.new + b /\ (~Past(g, b, off) => e[1] # g.old + b)
    <3>1. PICK c \in (B \cup {}) \cap All(g) : e[1] = g.new + c /\ (Past(g, c, off) \/ c = Coming(g, off))
      BY <1>1 DEF Unsure
    <3>2. c \in Int /\ c # b
      BY DEF All, IsGeo
    <3>3. e[1] # g.new + b
      BY <2>1, <3>1, <3>2
    <3>4. ~Past(g, b, off) => g.new + c # g.old + b
      BY <2>1, <3>1, <3>2 DEF Past, Coming, IsGeo
    <3> QED BY <3>1, <3>3, <3>4
  <2>3. CASE Past(g, b, off)
    BY <1>1, <2>1, <2>2, <2>3 DEF Split
  <2>4. CASE ~Past(g, b, off)
    BY <1>1, <2>1, <2>2, <2>4 DEF Split
  <2> QED BY <2>3, <2>4
<1>3. Unsure(g, {}, off, B, {})
  BY DEF Unsure
<1> QED
  BY <1>1, <1>2, <1>3 DEF Data

\* Synced blocks are in doubt no longer; without --use-fsync no power failure is
\* taken care of.
LEMMA DataSynced ==
  ASSUME NEW g, NEW p, NEW d, NEW e, NEW off, NEW n, NEW last, Data(g, p, d, off, n, last),
         g.fsync => e = {}
  PROVE  Data(g, p, e, off, n, {})
<1>1. PICK B \in SUBSET All(g) : Cardinality(B) <= n /\ Split(g, p, off, B)
  BY DEF Data
<1>2. Unsure(g, e, off, B, {})
  BY DEF Unsure
<1> QED BY <1>1, <1>2 DEF Data

\* At the end only what the new mapping shows matters.
LEMMA DataAtEnd ==
  ASSUME NEW g, IsGeo(g), NEW p, NEW q, NEW d, NEW n,
         Data(g, p, d, End(g), n, {}), \A b \in All(g) : q[g.new + b] = p[g.new + b]
  PROVE  Data(g, q, d, End(g), n, {})
<1>1. PICK B \in SUBSET All(g) :
        Cardinality(B) <= n /\ Split(g, p, End(g), B) /\ Unsure(g, d, End(g), B, {})
  BY DEF Data
<1>2. \A b \in All(g) : Past(g, b, End(g))
  BY DEF All, Past, End, IsGeo
<1>3. Split(g, q, End(g), B)
  BY <1>1, <1>2 DEF Split
<1> QED BY <1>1, <1>3 DEF Data

\* Before the first block nothing is in doubt.
LEMMA DataAtStart ==
  ASSUME NEW g, IsGeo(g), NEW p, NEW n \in Nat,
         \A b \in All(g) : p[g.old + b] = Cell(b, g.kold)
  PROVE  Data(g, p, {}, IF g.fwd THEN 0 ELSE g.blocks, n, {})
<1> DEFINE off == IF g.fwd THEN 0 ELSE g.blocks
<1>1. \A b \in All(g) : ~Past(g, b, off)
  BY DEF All, Past, IsGeo
<1>2. Split(g, p, off, {}) /\ Unsure(g, {}, off, {}, {})
  BY <1>1 DEF Split, Unsure
<1>3. {} \in SUBSET All(g) /\ Cardinality({}) <= n
  BY FS_EmptySet
<1> QED BY <1>2, <1>3 DEF Data

\* At most n blocks are in neither place.
LEMMA DataBounds ==
  ASSUME NEW g, IsGeo(g), NEW p, NEW d, NEW off, NEW n \in Nat, NEW last, Data(g, p, d, off, n, last),
         NEW S \in SUBSET All(g),
         \A b \in S : IF Past(g, b, off) THEN p[g.new + b] # Cell(b, g.knew)
                                         ELSE p[g.old + b] # Cell(b, g.kold)
  PROVE  Cardinality(S) <= n
<1>1. PICK B \in SUBSET All(g) : Cardinality(B) <= n /\ Split(g, p, off, B)
  BY DEF Data
<1>2. S \subseteq B
  BY <1>1 DEF Split
<1>3. IsFiniteSet(B) /\ Cardinality(B) \in Nat /\ Cardinality(S) \in Nat
  BY BlocksFinite
<1>4. Cardinality(S) <= Cardinality(B)
  BY <1>2, <1>3, FS_Subset
<1> QED BY <1>1, <1>3, <1>4

-----------------------------------------------------------------------------
(* Types *)

\* A log has one entry.
LEMMA LogFacts ==
  /\ TypeOK /\ log # << >> => log[1] \in Logs
  /\ << >> \in LogFiles
BY DEF TypeOK, LogFiles

\* What write_log writes of a context with an offset on the device.
LEMMA WriteLogFacts ==
  ASSUME NEW c \in [in_progress : BOOLEAN, stained : BOOLEAN, dir : Dirs, mode : Modes, off : 0..(Size + 1)],
         c.off <= Blocks, opt \in Options
  PROVE  /\ write_log(c) # << >>
         /\ write_log(c)[1] \in Logs
         /\ write_log(c)[1].dir = c.dir /\ write_log(c)[1].mode = c.mode /\ write_log(c)[1].off = c.off
         /\ write_log(c) \in LogFiles
<1> DEFINE l == [dir |-> c.dir, mode |-> c.mode, off |-> c.off]
<1>1. Blocks \in 0..Size /\ Size \in Nat
  BY GeoFacts, OptionFacts
<1>2. c.off \in 0..Blocks
  BY <1>1
<1>3. l \in Logs /\ l.dir = c.dir /\ l.mode = c.mode /\ l.off = c.off
  BY <1>2 DEF Logs
<1>4. write_log(c) = <<l>>
  BY DEF write_log
<1>5. <<l>> # << >> /\ <<l>>[1] = l
  OBVIOUS
<1> QED BY <1>3, <1>4, <1>5 DEF LogFiles

Contexts == [in_progress : BOOLEAN, stained : BOOLEAN, dir : Dirs, mode : Modes, off : 0..(Size + 1)]

\* The contexts a run starts with: of the log, or new and from the command line.
LEMMA StartFacts ==
  ASSUME TypeOK
  PROVE  /\ NoCtx \in Contexts /\ NoCtx.off = 0
         /\ LET c == initialize_context(open_log.ctx) IN
              /\ c \in Contexts
              /\ log # << >> => c = [in_progress |-> TRUE, stained |-> TRUE, dir |-> log[1].dir,
                                     mode |-> log[1].mode, off |-> log[1].off]
              /\ log = << >> => c = [in_progress |-> FALSE, stained |-> FALSE, dir |-> Dir, mode |-> opt.mode,
                                     off |-> IF opt.shift = 0 THEN 0 ELSE Size + 1]
         /\ open_log.log = IF log = << >> THEN write_log(NoCtx) ELSE log
<1>1. opt \in Options /\ Size \in Nat /\ opt.mode \in Modes /\ Blocks \in 0..Size
  BY OptionFacts, GeoFacts DEF TypeOK
<1>2. NoCtx \in Contexts /\ NoCtx.off = 0
  BY <1>1 DEF NoCtx, Contexts, Dirs, Modes
<1>3. CASE log = << >>
  <2>1. open_log.ctx = [in_progress |-> FALSE, stained |-> FALSE, dir |-> "FORWARD", mode |-> "REENCRYPT", off |-> 0]
        /\ open_log.log = write_log(NoCtx)
    BY <1>3 DEF open_log, NoCtx
  <2>2. initialize_context(open_log.ctx) =
          [in_progress |-> FALSE, stained |-> FALSE, dir |-> Dir, mode |-> opt.mode,
           off |-> IF opt.shift = 0 THEN 0 ELSE Size + 1]
    BY <2>1 DEF initialize_context, Dir
  <2>3. Dir \in Dirs
    BY DEF Dir, Dirs
  <2>4. (IF opt.shift = 0 THEN 0 ELSE Size + 1) \in 0..(Size + 1)
    BY <1>1
  <2>5. initialize_context(open_log.ctx) \in Contexts
    BY <1>1, <2>2, <2>3, <2>4 DEF Contexts
  <2> QED BY <1>2, <1>3, <2>1, <2>2, <2>5
<1>4. CASE log # << >>
  <2>1. open_log.ctx = [in_progress |-> TRUE, stained |-> TRUE, dir |-> log[1].dir,
                        mode |-> log[1].mode, off |-> log[1].off] /\ open_log.log = log
    BY <1>4 DEF open_log
  <2>2. initialize_context(open_log.ctx) = open_log.ctx
    BY <2>1 DEF initialize_context
  <2>3. log[1] \in Logs
    BY <1>4, LogFacts
  <2>4. log[1].off \in 0..(Size + 1) /\ log[1].dir \in Dirs /\ log[1].mode \in Modes
    BY <1>1, <2>3 DEF Logs
  <2>5. open_log.ctx \in Contexts
    BY <2>1, <2>4 DEF Contexts
  <2> QED BY <1>2, <1>4, <2>1, <2>2, <2>5
<1> QED BY <1>3, <1>4

\* What TypeOK says of the parts of the state.
LEMMA TypeFacts ==
  ASSUME TypeOK
  PROVE  /\ opt \in Options /\ rc \in Contexts /\ DOMAIN phys = Positions
         /\ crashes \in Nat /\ errors \in Nat /\ Mishaps \in Nat /\ Logged \in BOOLEAN
         /\ Size \in Nat /\ Blocks \in 0..Size
         /\ \A x \in Positions : phys[x] \in Cells
<1>1. crashes \in Nat /\ errors \in Nat
  BY ReencAssumption DEF TypeOK
<1>2. Mishaps \in Nat /\ Logged \in BOOLEAN
  BY <1>1, OptionFacts DEF Mishaps, Logged, TypeOK
<1> QED BY <1>1, <1>2, OptionFacts, GeoFacts DEF TypeOK, Contexts

LEMMA SumGrows ==
  ASSUME NEW a \in Nat, NEW b \in Nat, NEW c \in Nat, NEW d \in Nat, c >= a, d >= b
  PROVE  /\ c + d \in Nat /\ a + b \in Nat /\ a + b <= c + d
         /\ d > b \/ c > a => (a + b) + 1 <= c + d
OBVIOUS

\* Mishaps only become more, and with them the log no better.
LEMMA MishapsGrow ==
  ASSUME TypeOK, opt' = opt, crashes' \in Nat, errors' \in Nat, crashes' >= crashes, errors' >= errors
  PROVE  /\ Mishaps' \in Nat /\ Mishaps \in Nat /\ Mishaps <= Mishaps' /\ (Logged' => Logged)
         /\ errors' > errors \/ crashes' > crashes => Mishaps + 1 <= Mishaps' /\ (Logged' => opt.wlog)
<1>1. crashes \in Nat /\ errors \in Nat
  BY TypeFacts
<1>2. Mishaps' \in Nat /\ Mishaps \in Nat /\ Mishaps <= Mishaps'
  BY <1>1, SumGrows DEF Mishaps
<1>3. errors' > errors \/ crashes' > crashes => Mishaps + 1 <= Mishaps'
  BY <1>1, SumGrows DEF Mishaps
<1>4. (Logged <=> opt.wlog \/ Mishaps = 0) /\ (Logged' <=> opt.wlog \/ Mishaps' = 0)
  BY DEF Logged
<1>5. Mishaps' = 0 => Mishaps = 0 /\ ~(Mishaps + 1 <= Mishaps')
  BY <1>2
<1> QED BY <1>2, <1>3, <1>4, <1>5

\* The errors of a step, and the last log.
LEMMA ErrorFacts ==
  ASSUME TypeOK, NEW n \in Nat
  PROVE  /\ Errors(n) => errors' \in 0..MaxMishaps /\ errors' = errors + n /\ errors' \in Nat
         /\ last_log(n) => /\ errors' \in 0..MaxMishaps /\ errors' \in Nat
                          /\ \/ log' = write_log(rc) /\ errors' = errors + n
                             \/ log' = log /\ errors' = errors + (n + 1)
<1>1. errors \in 0..MaxMishaps /\ crashes \in 0..MaxMishaps /\ MaxMishaps \in Nat
  BY ReencAssumption DEF TypeOK
<1> QED BY <1>1 DEF Errors, Mishaps, last_log

\* What is left when unsynced blocks are lost.
LEMMA UndoneFacts ==
  ASSUME TypeOK, NEW lost \in SUBSET dirty, NEW torn \in SUBSET dirty
  PROVE  /\ Undone(lost, torn) \in [Positions -> Cells]
         /\ \A x \in Positions : (\A e \in dirty : e[1] # x) => Undone(lost, torn)[x] = phys[x]
<1>1. ASSUME NEW x \in Positions, \E d \in lost : d[1] = x
      PROVE  (CHOOSE d \in lost : d[1] = x)[2] \in Cells
  <2>1. (CHOOSE d \in lost : d[1] = x) \in lost
    BY <1>1
  <2>2. lost \subseteq Positions \X Cells
    BY DEF TypeOK
  <2> QED BY <2>1, <2>2
<1>2. Garbage \in Cells
  BY TypeFacts DEF Garbage, Cells
<1>3. Undone(lost, torn) \in [Positions -> Cells]
  BY <1>1, <1>2 DEF Undone, TypeOK
<1> QED BY <1>3 DEF Undone

\* The device after a step of copy_block.
LEMMA CellFacts ==
  ASSUME TypeOK, NEW b \in All(Geo)
  PROVE  /\ OffOld + b \in Positions /\ OffNew + b \in Positions
         /\ NewCell(b) \in Cells /\ Garbage \in Cells
         /\ slip # "now" /\ phys[OffOld + b] = Cell(b, KeyOld) => NewCell(b) = Cell(b, KeyNew)
<1>1. OffOld + b \in Positions /\ OffNew + b \in Positions
  BY GeoFacts, GeoFields DEF IsGeo, TypeOK
<1>2. phys[OffOld + b] \in Cells
  BY <1>1 DEF TypeOK
<1>3. ReadOld(b) \in 0..Size
  BY <1>2, OptionFacts DEF ReadOld, Garbage, Cells, TypeOK
<1>4. KeyNew \in {"plain", "old", "new"}
  BY KeyFacts, OptionFacts DEF TypeOK, Modes
<1>5. Garbage \in Cells
  BY TypeFacts DEF Garbage, Cells
<1> QED
  BY <1>1, <1>3, <1>4, <1>5 DEF Cell, Cells, ReadOld, NewCell

\* The device after a write to block b.
LEMMA WrittenFacts ==
  ASSUME TypeOK, NEW b \in All(Geo), NEW cell \in Cells
  PROVE  /\ Written(b, cell) \in [Positions -> Cells]
         /\ Written(b, cell)[OffNew + b] = cell
         /\ \A x \in Positions : x # OffNew + b => Written(b, cell)[x] = phys[x]
         /\ Unsynced(b) \subseteq Positions \X Cells
         /\ \A x \in Unsynced(b) : x \in dirty \/ x[1] = OffNew + b
<1>1. OffNew + b \in Positions
  BY CellFacts
<1>2. phys \in [Positions -> Cells] /\ dirty \subseteq Positions \X Cells
  BY DEF TypeOK
<1>3. \A x \in Unsynced(b) : x \in dirty \/ x = <<OffNew + b, phys[OffNew + b]>>
  BY DEF Unsynced
<1> QED BY <1>1, <1>2, <1>3 DEF Written

\* The variables have their types at the start.
LEMMA TypeInit == Init => TypeOK
<1> SUFFICES ASSUME Init PROVE TypeOK
  OBVIOUS
<1>1. /\ opt \in Options /\ opt.mode \in Modes /\ Size \in Nat /\ Blocks \in 0..Size
  BY OptionFacts, GeoFacts DEF Init
<1>2. KeyOld \in {"plain", "old", "new"} /\ OffOld \in Nat
  BY <1>1, KeyFacts, GeoFacts, GeoFields DEF Modes, IsGeo
<1>3. \A x \in Positions : (IF x >= OffOld /\ x < OffOld + Size THEN Cell(x - OffOld, KeyOld) ELSE Garbage) \in Cells
  BY <1>1, <1>2, ReencAssumption DEF Cell, Garbage, Cells, Positions
<1>4. phys \in [Positions -> Cells]
  BY <1>3 DEF Init
<1>5. NoCtx \in [in_progress : BOOLEAN, stained : BOOLEAN, dir : Dirs, mode : Modes, off : 0..(Size + 1)]
  BY <1>1 DEF NoCtx, Dirs, Modes
<1>6. opt \in Options /\ dirty = {} /\ log = << >> /\ files = {} /\ rc = NoCtx /\ pc = "idle"
      /\ hdr \in {"none", "luks"} /\ early = FALSE /\ slip = "no"
      /\ crashes = 0 /\ interrupts = 0 /\ errors = 0
  BY DEF Init
<1>7. pc \notin EarlyPhases /\ pc \notin {"loop", "logging", "syncing"} /\ log \in LogFiles
  BY <1>6, LogFacts DEF EarlyPhases
<1>8. dirty \subseteq Positions \X Cells /\ crashes \in 0..MaxMishaps /\ interrupts \in 0..MaxInterrupts /\ errors \in 0..MaxMishaps
      /\ slip \in {"no", "now", "before"} /\ files \subseteq {"org", "new"} /\ hdr \in {"luks", "nomagic", "new", "none"}
      /\ pc \in EarlyPhases \cup {"idle", "loop", "logging", "syncing", "restore", "finish", "destroy", "unlink", "done"}
  BY <1>6, ReencAssumption
<1> QED BY <1>4, <1>5, <1>6, <1>7, <1>8 DEF TypeOK

\* Every step keeps the types.
LEMMA TypeNext == TypeOK /\ [Next]_vars => TypeOK'
<1> SUFFICES ASSUME TypeOK, [Next]_vars PROVE TypeOK'
  OBVIOUS
<1> USE DEF vars, device, world
<1>0. /\ opt \in Options /\ rc \in Contexts /\ crashes \in Nat /\ Size \in Nat /\ Blocks \in 0..Size
      /\ log # << >> => log[1] \in Logs
      /\ MaxInterrupts \in Nat /\ MaxMishaps \in Nat
      /\ errors \in Nat
  BY TypeFacts, LogFacts, ReencAssumption
<1>f. /\ opt' = opt => Blocks' = Blocks /\ LogFiles' = LogFiles
      /\ << >> \in LogFiles
  BY Frame, LogFacts
<1>a. Contexts = [in_progress : BOOLEAN, stained : BOOLEAN, dir : Dirs, mode : Modes, off : 0..(Size + 1)]
  BY DEF Contexts
<1>1. CASE Start
  <2>1. rc' \in Contexts /\ log' = (IF log = << >> THEN write_log(NoCtx) ELSE log) /\ NoCtx \in Contexts
          /\ NoCtx.off = 0
    BY <1>1, StartFacts DEF Start
  <2>2. write_log(NoCtx) \in LogFiles
    BY <1>0, <2>1, <1>a, WriteLogFacts
  <2>3. rc'.in_progress \/ rc'.dir = "FORWARD" => rc'.off <= Blocks
    BY <1>0, <1>1, StartFacts DEF Start, Logs, Dir
  <2> QED BY <1>0, <1>1, <1>f, <1>a, <2>1, <2>2, <2>3 DEF Start, TypeOK, EarlyPhases
<1>2. CASE Passphrase \/ backup_luks_headers \/ backup_fake_header \/ create_new_header \/ Activate \/ Done
  BY <1>0, <1>2, <1>f, <1>a
     DEF Passphrase, backup_luks_headers, backup_fake_header, create_new_header, Activate, Done, Fail,
         TypeOK, EarlyPhases
<1>3. CASE device_check \/ Restore \/ Finish
  BY <1>0, <1>3, <1>f, <1>a
     DEF device_check, MAKE_UNUSABLE, Restore, restore_luks_header, Finish, Fail, TypeOK, EarlyPhases
<1>4. CASE copy_data
  <2>1. CASE rc.dir = "FORWARD"
    <3>1. pc = "copy" /\ rc' = rc /\ log' = write_log(rc) /\ pc' = "loop"
          /\ slip' \in {slip, "before"} /\ UNCHANGED <<device, files, opt, early, crashes, interrupts, errors>>
      BY <1>4, <2>1, Zenon DEF copy_data
    <3>2. rc.off <= Blocks
      BY <2>1, <3>1 DEF TypeOK, EarlyPhases
    <3>3. log' \in LogFiles
      BY <1>0, <1>a, <3>1, <3>2, WriteLogFacts
    <3> QED BY <1>0, <1>f, <1>a, <3>1, <3>2, <3>3 DEF TypeOK, EarlyPhases
  <2>2. CASE rc.dir # "FORWARD"
    <3> DEFINE o == IF rc.in_progress THEN rc.off ELSE Blocks
               c == [rc EXCEPT !.stained = TRUE, !.off = o]
    <3>1. pc = "copy" /\ rc' = c /\ log' = write_log(c) /\ pc' = "loop"
          /\ slip' \in {slip, "before"} /\ UNCHANGED <<device, files, opt, early, crashes, interrupts, errors>>
      BY <1>4, <2>2, Zenon DEF copy_data
    <3>2. o \in 0..Blocks
      BY <1>0, <3>1 DEF TypeOK, EarlyPhases, Contexts
    <3> HIDE DEF o
    <3>3. c \in Contexts /\ c.off <= Blocks
      <4>1. \A e \in Contexts, m \in 0..(Size + 1) : [e EXCEPT !.off = m] \in Contexts /\ [e EXCEPT !.off = m].off = m
        BY DEF Contexts
      <4>2. [rc EXCEPT !.stained = TRUE] \in Contexts
        BY <1>0 DEF Contexts
      <4>3. o \in 0..(Size + 1) /\ o <= Blocks
        BY <1>0, <3>2
      <4> QED BY <4>1, <4>2, <4>3
    <3>4. log' \in LogFiles
      BY <1>0, <1>a, <3>1, <3>3, WriteLogFacts
    <3> QED BY <1>0, <1>f, <1>a, <3>1, <3>3, <3>4 DEF TypeOK, EarlyPhases
  <2> QED BY <2>1, <2>2
<1>5. CASE copy_block \/ ShortWrite \/ WriteFails
  <2>1. rc.off \in 0..Blocks /\ pc = "loop" /\ More
    BY <1>0, <1>5 DEF copy_block, ShortWrite, WriteFails, TypeOK, Contexts
  <2>2. Working \in All(Geo) /\ Advanced \in 0..Blocks
    BY <1>0, <2>1, GeoFields DEF Working, Advanced, More, All, Contexts, Dirs
  <2>3. NewCell(Working) \in Cells /\ Garbage \in Cells
    BY <2>2, CellFacts
  <2>4. \A cell \in Cells : Written(Working, cell) \in [Positions -> Cells]
    BY <2>2, WrittenFacts
  <2>5. Unsynced(Working) \subseteq Positions \X Cells
    BY <2>2, <2>3, WrittenFacts
  <2>6. [rc EXCEPT !.off = Advanced] \in Contexts /\ [rc EXCEPT !.off = Advanced].off <= Blocks
    BY <1>0, <2>2 DEF Contexts
  <2>7. HeaderAfter(Working) \in {"luks", "nomagic", "new", "none"}
    BY DEF HeaderAfter, TypeOK
  <2>8. CASE copy_block
    BY <1>0, <1>f, <1>a, <2>3, <2>4, <2>5, <2>6, <2>7, <2>8 DEF copy_block, TypeOK, EarlyPhases
  <2>9. CASE ShortWrite
    <3>1. errors' \in 0..MaxMishaps
      BY <2>9, ErrorFacts DEF ShortWrite
    <3> QED BY <1>0, <1>f, <1>a, <2>3, <2>4, <2>5, <2>6, <2>7, <2>9, <3>1 DEF ShortWrite, TypeOK, EarlyPhases
  <2>10. CASE WriteFails
    <3>1. errors' \in 0..MaxMishaps /\ (log' = log \/ log' = write_log(rc))
      BY <2>10, ErrorFacts DEF WriteFails
    <3>2. write_log(rc) \in LogFiles
      BY <1>0, <1>a, <2>1, WriteLogFacts
    <3>3. phys' \in [Positions -> Cells] /\ dirty' \subseteq Positions \X Cells
          /\ hdr' \in {"luks", "nomagic", "new", "none"}
      BY <2>3, <2>4, <2>5, <2>7, <2>10 DEF WriteFails, TypeOK, device
    <3>4. pc' = "destroy" /\ UNCHANGED <<files, rc, opt, early, slip, crashes, interrupts>>
      BY <2>10 DEF WriteFails, Fail
    <3>5. log' \in LogFiles
      BY <3>1, <3>2 DEF TypeOK
    <3> HIDE DEF device, world, vars
    <3> QED BY <1>0, <1>f, <1>a, <3>1, <3>3, <3>4, <3>5 DEF TypeOK, EarlyPhases
  <2> QED BY <1>5, <2>8, <2>9, <2>10
<1>6. CASE log_block \/ Interrupt \/ ReadFails \/ LogFails \/ SyncFails
  <2>1. rc.off <= Blocks /\ (log' = log \/ log' = write_log(rc))
    BY <1>6 DEF log_block, LogAfter, Interrupt, ReadFails, LogFails, SyncFails, Stop, last_log, TypeOK
  <2>2. write_log(rc) \in LogFiles
    BY <1>0, <1>a, <2>1, WriteLogFacts
  <2>3. CASE log_block
    BY <1>0, <1>f, <1>a, <2>1, <2>2, <2>3 DEF log_block, TypeOK, EarlyPhases
  <2>4. CASE Interrupt \/ ReadFails \/ LogFails \/ SyncFails
    <3>1. errors' \in 0..MaxMishaps
      BY <2>4, ErrorFacts DEF Interrupt, ReadFails, LogFails, SyncFails, Stop
    <3>2. interrupts' \in 0..MaxInterrupts
      BY <1>0, <2>4 DEF Interrupt, ReadFails, LogFails, SyncFails, Stop, TypeOK
    <3>3. phys' \in [Positions -> Cells] /\ dirty' \subseteq Positions \X Cells
      BY <2>4, UndoneFacts DEF Interrupt, ReadFails, LogFails, SyncFails, Stop, TypeOK
    <3>4. pc' = "destroy" /\ UNCHANGED <<hdr, files, rc, opt, early, slip, crashes>>
      BY <2>4 DEF Interrupt, ReadFails, LogFails, SyncFails, Stop, Fail
    <3> HIDE DEF device, world, vars
    <3> QED BY <1>0, <1>f, <1>a, <2>1, <2>2, <3>1, <3>2, <3>3, <3>4 DEF TypeOK, EarlyPhases
  <2> QED BY <1>6, <2>3, <2>4
<1>7. CASE sync_block \/ destroy_context \/ unlink_headers
  BY <1>0, <1>7, <1>f, <1>a DEF sync_block, destroy_context, unlink_headers, TypeOK, EarlyPhases
<1>8. CASE copy_done
  <2>1. rc.off <= Blocks /\ (log' = log \/ log' = write_log(rc)) /\ errors' \in 0..MaxMishaps
    BY <1>8, ErrorFacts DEF copy_done, TypeOK
  <2>2. write_log(rc) \in LogFiles
    BY <1>0, <1>a, <2>1, WriteLogFacts
  <2>3. Garbage \in Cells
    BY <1>0 DEF Garbage, Cells
  <2>4. phys' \in [Positions -> Cells]
    BY <1>8, <2>3 DEF copy_done, zero_rest_of_device, TypeOK
  <2> QED BY <1>0, <1>8, <1>f, <1>a, <2>1, <2>2, <2>4 DEF copy_done, TypeOK, EarlyPhases
<1>9. CASE Kill
  <2>1. NoCtx \in Contexts /\ NoCtx.off = 0
    BY StartFacts
  <2> QED BY <1>0, <1>9, <1>f, <1>a, <2>1 DEF Kill, Crashed, Mishaps, TypeOK, EarlyPhases
<1>10. CASE PowerFail
  <2>1. NoCtx \in Contexts /\ NoCtx.off = 0
    BY StartFacts
  <2>2. phys' \in [Positions -> Cells]
    BY <1>10, UndoneFacts DEF PowerFail
  <2> QED BY <1>0, <1>10, <1>f, <1>a, <2>1, <2>2 DEF PowerFail, Crashed, Mishaps, TypeOK, EarlyPhases
<1>12. CASE FirstLogFails
  <2> DEFINE o == IF rc.dir = "FORWARD" \/ rc.in_progress THEN rc.off ELSE Blocks
  <2>1. o \in 0..Blocks
    BY <1>0, <1>12 DEF FirstLogFails, TypeOK, EarlyPhases, Contexts
  <2>2. rc' \in Contexts /\ rc'.off <= Blocks /\ (log' = log \/ log' = write_log(rc'))
    <3>1. rc' = IF rc.dir = "FORWARD" \/ rc.in_progress THEN rc ELSE [rc EXCEPT !.off = Blocks]
      BY <1>12, Zenon DEF FirstLogFails
    <3>2. log' = log \/ log' = write_log(rc')
      BY <1>12, <3>1, Zenon DEF FirstLogFails
    <3> QED BY <1>0, <2>1, <3>1, <3>2 DEF Contexts
  <2>3. write_log(rc') \in LogFiles
    BY <1>0, <1>a, <2>2, WriteLogFacts
  <2>4. errors' \in 0..MaxMishaps
    BY <1>12, ErrorFacts DEF FirstLogFails
  <2>5. early' \in BOOLEAN /\ pc' = "destroy"
    BY <1>0, <1>12 DEF FirstLogFails, Fail, TypeOK, Contexts
  <2>6. UNCHANGED <<device, files, opt, slip, crashes, interrupts>>
    BY <1>12 DEF FirstLogFails
  <2>7. log' \in LogFiles
    BY <2>2, <2>3 DEF TypeOK
  <2> HIDE DEF world, vars
  <2> QED BY <1>0, <1>f, <1>a, <2>2, <2>4, <2>5, <2>6, <2>7 DEF TypeOK, EarlyPhases
<1>11. CASE Terminated \/ UNCHANGED vars
  BY <1>0, <1>11, <1>f, <1>a DEF Terminated, TypeOK, EarlyPhases
<1> QED
  BY <1>1, <1>2, <1>3, <1>4, <1>5, <1>6, <1>7, <1>8, <1>9, <1>10, <1>11, <1>12
     DEF Next, Tool, Fault

-----------------------------------------------------------------------------
(* The steps of a run *)

\* The command line stays.
LEMMA OptionStays == [Next]_vars => opt' = opt
BY DEF Next, Tool, Fault, vars, device, world, Start, Passphrase, backup_luks_headers, backup_fake_header,
       create_new_header, device_check, Activate, copy_data, copy_block, log_block, sync_block,
       copy_done, Interrupt, ReadFails, Stop, FirstLogFails, WriteFails, ShortWrite, LogFails, SyncFails,
       Restore, Finish, destroy_context, unlink_headers, Kill, PowerFail, Crashed, Done, Terminated

\* With --keep-key nothing is copied and the header stays.
LEMMA KeepNext == TypeOK /\ KeepInv /\ [Next]_vars => KeepInv'
<1> SUFFICES ASSUME TypeOK, KeepInv, [Next]_vars PROVE KeepInv'
  OBVIOUS
<1>o. opt' = opt
  BY OptionStays
<1>k. CASE ~opt.keep
  BY <1>o, <1>k, Zenon DEF KeepInv
<1> SUFFICES ASSUME opt.keep PROVE KeepInv'
  BY <1>k
<1> USE DEF vars, device, world
<1>0. Geo' = Geo /\ OffOld' = OffOld /\ KeyOld' = KeyOld
  BY <1>o, Frame
<1>1. /\ \A b \in All(Geo) : phys[OffOld + b] = Cell(b, KeyOld)
      /\ hdr # "none" /\ pc \notin Loop \cup {"copy", "finish"} /\ dirty = {}
  BY DEF KeepInv
<1>2. SUFFICES /\ \A b \in All(Geo) : phys'[OffOld + b] = Cell(b, KeyOld)
               /\ hdr' # "none" /\ pc' \notin Loop \cup {"copy", "finish"} /\ dirty' = {}
  <2>1. \A b : Cell(b, KeyOld)' = Cell(b, KeyOld)
    BY <1>0 DEF Cell
  <2>2. All(Geo)' = All(Geo)
    BY <1>0 DEF All
  <2> QED BY <1>0, <2>1, <2>2, Zenon DEF KeepInv, Loop
<1>3. CASE PowerFail
  <2>2. \A x \in Positions : phys'[x] = phys[x]
    BY <1>1, <1>3, UndoneFacts DEF PowerFail
  <2>3. \A b \in All(Geo) : OffOld + b \in Positions
    BY CellFacts
  <2>4. hdr' # "none" /\ pc' \notin Loop \cup {"copy", "finish"} /\ dirty' = {}
    BY <1>1, <1>3 DEF PowerFail, Crashed, Loop
  <2> QED BY <1>1, <2>2, <2>3, <2>4
<1>4. CASE Start \/ Passphrase \/ backup_luks_headers \/ backup_fake_header \/ create_new_header
           \/ device_check \/ Activate
  BY <1>1, <1>4 DEF Start, Passphrase, backup_luks_headers, backup_fake_header, create_new_header,
           device_check, MAKE_UNUSABLE, Activate, Fail, Loop
<1>5. CASE copy_data \/ copy_block \/ log_block \/ sync_block \/ copy_done \/ Interrupt \/ Finish
           \/ FirstLogFails \/ ReadFails \/ WriteFails \/ ShortWrite \/ LogFails \/ SyncFails
  BY <1>1, <1>5 DEF copy_data, copy_block, log_block, sync_block, copy_done, Interrupt, Finish, FirstLogFails,
           ReadFails, WriteFails, ShortWrite, LogFails, SyncFails, Loop
<1>6. CASE Restore \/ destroy_context \/ unlink_headers \/ Kill \/ Done \/ Terminated \/ UNCHANGED vars
  BY <1>1, <1>6 DEF Restore, restore_luks_header, destroy_context, unlink_headers, Kill, Crashed, Done,
           Terminated, Fail, Loop
<1> QED
  BY <1>3, <1>4, <1>5, <1>6 DEF Next, Tool, Fault

\* A step in which nothing goes wrong.
LEMMA MishapsStay ==
  ASSUME opt' = opt, crashes' = crashes, errors' = errors
  PROVE  Mishaps' = Mishaps /\ Logged' = Logged
BY DEF Mishaps, Logged

\* A step that leaves the data and the offset alone.
LEMMA DataStays ==
  ASSUME opt' = opt, phys' = phys, dirty' = dirty, crashes' = crashes, errors' = errors,
         Logged => Front' = Front,
         pc \notin {"logging", "syncing"}, pc' \notin {"logging", "syncing"}, DataInv
  PROVE  DataInv'
BY Frame, MishapsStay DEF DataInv

\* The flags of the command line tell the direction.
LEMMA DirFacts ==
  /\ Geo.fwd <=> opt.shift = 0
  /\ Geo.fwd => Dir = "FORWARD" /\ End(Geo) = Blocks
  /\ ~Geo.fwd => Dir = "BACKWARD" /\ End(Geo) = 0
BY GeoFields DEF Dir, End

\* The tool is started: for the first time, or again with its log.
LEMMA RunStart ==
  ASSUME TypeOK, Start, Fresh \/ (Copying /\ DataInv) \/ (Ended /\ DataInv)
  PROVE  Fresh' \/ (Copying' /\ DataInv')
<1> USE DEF device, world
<1>1. pc = "idle" /\ pc' = "passphrase" /\ UNCHANGED <<opt, phys, dirty, hdr, files, early, crashes, interrupts, errors>>
  BY DEF Start
<1>2. Geo' = Geo /\ Dir' = Dir /\ OffOld' = OffOld /\ OffNew' = OffNew /\ KeyOld' = KeyOld /\ KeyNew' = KeyNew
  BY <1>1, Frame
<1>m. Mishaps' = Mishaps /\ Logged' = Logged
  BY <1>1, MishapsStay
<1>3. CASE Fresh
  <2>1. log = << >>
    BY <1>1, <1>3 DEF Fresh
  <2>2. /\ rc' = [in_progress |-> FALSE, stained |-> FALSE, dir |-> Dir, mode |-> opt.mode,
                  off |-> IF opt.shift = 0 THEN 0 ELSE Size + 1]
        /\ log' = write_log(NoCtx)
    BY <2>1, StartFacts DEF Start
  <2>3. log' # << >>
    BY <2>2 DEF write_log
  <2>4. Untouched'
    BY <1>1, <1>2, <1>3 DEF Fresh, Untouched
  <2> QED BY <1>1, <1>2, <1>3, <2>2, <2>3, <2>4 DEF Fresh, EarlyPhases
<1>4. CASE Copying /\ DataInv
  <2>1. log # << >>
    BY <1>4 DEF Copying
  <2>2. /\ rc' = [in_progress |-> TRUE, stained |-> TRUE, dir |-> log[1].dir,
                  mode |-> log[1].mode, off |-> log[1].off]
        /\ log' = log
    BY <2>1, StartFacts DEF Start
  <2>3. Front' = Front
    BY <1>1, <1>2, <2>1, <2>2 DEF Front, Loop
  <2>4. DataInv'
    BY <1>1, <1>4, <2>3, DataStays
  <2>5. Copying'
    BY <1>1, <1>2, <1>m, <1>4, <2>2, <2>3 DEF Copying, Loop
  <2> QED BY <2>4, <2>5
<1>5. ~Ended
  BY <1>1 DEF Ended
<1> QED BY <1>3, <1>4, <1>5

\* The steps before the copy.
LEMMA RunPrepare ==
  ASSUME TypeOK, ~opt.keep,
         Passphrase \/ backup_luks_headers \/ backup_fake_header \/ create_new_header \/ device_check \/ Activate,
         Fresh \/ (Copying /\ DataInv) \/ (Ended /\ DataInv)
  PROVE  Fresh' \/ (Copying' /\ DataInv')
<1> USE DEF device, world
<1>1. /\ pc \in {"passphrase", "backup", "fake", "format", "unusable", "activate"}
      /\ pc' \in EarlyPhases \cup {"destroy"} /\ UNCHANGED <<opt, phys, dirty, log, crashes, errors>>
  BY DEF Passphrase, backup_luks_headers, backup_fake_header, create_new_header, device_check, Activate,
         Fail, EarlyPhases
<1>2. Geo' = Geo /\ Dir' = Dir /\ OffOld' = OffOld /\ OffNew' = OffNew /\ KeyOld' = KeyOld /\ KeyNew' = KeyNew
  BY <1>1, Frame
<1>m. Mishaps' = Mishaps /\ Logged' = Logged
  BY <1>1, MishapsStay
<1>3. CASE Fresh
  <2>1. Untouched'
    BY <1>1, <1>2, <1>3 DEF Fresh, Untouched
  <2>2. opt.mode \in Modes /\ rc \in Contexts
    BY OptionFacts, TypeFacts
  <2>3. CASE Passphrase
    BY <1>2, <1>3, <2>1, <2>3 DEF Passphrase, Fail, Fresh, EarlyPhases
  <2>4. CASE backup_luks_headers
    BY <1>2, <1>3, <2>1, <2>2, <2>4 DEF backup_luks_headers, Fail, Fresh, EarlyPhases, Modes
  <2>5. CASE backup_fake_header
    BY <1>2, <1>3, <2>1, <2>2, <2>5 DEF backup_fake_header, Fail, Fresh, EarlyPhases, Modes, TypeOK
  <2>6. CASE create_new_header
    BY <1>2, <1>3, <2>1, <2>2, <2>6 DEF create_new_header, Fail, Fresh, EarlyPhases, Modes, TypeOK
  <2>7. CASE device_check
    BY <1>2, <1>3, <2>1, <2>2, <2>7 DEF device_check, MAKE_UNUSABLE, Fail, Fresh, EarlyPhases, Contexts
  <2>8. CASE Activate
    BY <1>2, <1>3, <2>1, <2>8 DEF Activate, activate_luks_headers, Fail, Fresh, EarlyPhases
  <2> QED BY <2>3, <2>4, <2>5, <2>6, <2>7, <2>8
<1>4. CASE Copying /\ DataInv
  <2>1. pc \in {"passphrase", "activate"} /\ log # << >> /\ rc.in_progress
    BY <1>1, <1>4 DEF Copying, Loop
  <2>2. pc' \in {"activate", "copy", "destroy"} /\ UNCHANGED <<hdr, files, rc>>
    BY <1>4, <2>1 DEF Passphrase, backup_luks_headers, backup_fake_header, create_new_header, device_check,
         Activate, activate_luks_headers, Fail, Copying
  <2>3. Front' = Front
    BY <1>1, <1>2, <2>1, <2>2 DEF Front, Loop
  <2>4. DataInv'
    BY <1>1, <1>4, <2>1, <2>2, <2>3, DataStays
  <2>5. Copying'
    BY <1>1, <1>2, <1>m, <1>4, <2>1, <2>2, <2>3 DEF Copying, Loop
  <2> QED BY <2>4, <2>5
<1>5. ~Ended
  BY <1>1 DEF Ended
<1> QED BY <1>3, <1>4, <1>5

\* copy_data up to its loop: the first log, or the same one again.
LEMMA RunCopyData ==
  ASSUME TypeOK, ~ForwardEncrypt, copy_data, Fresh \/ (Copying /\ DataInv) \/ (Ended /\ DataInv)
  PROVE  Copying' /\ DataInv'
<1> USE DEF device, world
<1>1. pc = "copy" /\ pc' = "loop" /\ UNCHANGED <<opt, phys, dirty, hdr, files, crashes, errors>>
  BY DEF copy_data
<1>2. /\ Geo' = Geo /\ Dir' = Dir
      /\ opt \in Options /\ rc \in Contexts /\ Blocks \in 0..Size /\ Size \in Nat /\ Mishaps \in Nat
      /\ Mishaps' = Mishaps /\ Logged' = Logged
      /\ opt.mode \in Modes
  BY <1>1, Frame, TypeFacts, OptionFacts, MishapsStay
<1>3. rc.dir = Dir /\ rc.mode = opt.mode
  BY <1>1 DEF Fresh, Copying, Ended, EarlyPhases, Loop
<1> DEFINE o == IF rc.dir = "FORWARD" \/ rc.in_progress THEN rc.off ELSE Blocks
<1>4. /\ rc'.off = o /\ rc'.dir = Dir /\ rc'.mode = opt.mode
      /\ rc'.stained = (rc.stained \/ rc.dir # "FORWARD")
      /\ rc' \in Contexts /\ log' = write_log(rc') /\ o \in 0..Blocks
  <2>1. CASE rc.dir = "FORWARD"
    <3>1. rc' = rc /\ log' = write_log(rc)
      BY <2>1, Zenon DEF copy_data
    <3>2. rc.off <= Blocks
      BY <1>1, <2>1 DEF TypeOK, EarlyPhases
    <3> QED BY <1>2, <1>3, <2>1, <3>1, <3>2 DEF Contexts
  <2>2. CASE rc.dir # "FORWARD"
    <3> DEFINE m == IF rc.in_progress THEN rc.off ELSE Blocks
    <3>1. rc' = [rc EXCEPT !.stained = TRUE, !.off = m] /\ log' = write_log([rc EXCEPT !.stained = TRUE, !.off = m])
      BY <2>2, Zenon DEF copy_data
    <3>2. m \in 0..Blocks /\ m = o
      BY <1>1, <1>2, <2>2 DEF TypeOK, EarlyPhases, Contexts
    <3> HIDE DEF m
    <3>3. \A e \in Contexts, i \in 0..(Size + 1) :
            /\ [e EXCEPT !.off = i] \in Contexts /\ [e EXCEPT !.off = i].off = i
            /\ [e EXCEPT !.off = i].dir = e.dir /\ [e EXCEPT !.off = i].mode = e.mode
            /\ [e EXCEPT !.off = i].stained = e.stained
      BY DEF Contexts
    <3>4. /\ [rc EXCEPT !.stained = TRUE] \in Contexts /\ [rc EXCEPT !.stained = TRUE].stained
          /\ [rc EXCEPT !.stained = TRUE].dir = rc.dir /\ [rc EXCEPT !.stained = TRUE].mode = rc.mode
      BY <1>2 DEF Contexts
    <3>5. m \in 0..(Size + 1)
      BY <1>2, <3>2
    <3>6. /\ rc' \in Contexts /\ rc'.off = m /\ rc'.dir = rc.dir /\ rc'.mode = rc.mode /\ rc'.stained
          /\ log' = write_log(rc')
      BY <3>1, <3>3, <3>4, <3>5
    <3> QED BY <1>2, <1>3, <2>2, <3>2, <3>6 DEF Contexts
  <2> QED BY <2>1, <2>2
<1>5. log' # << >> /\ log'[1].off = o /\ log'[1].dir = Dir /\ log'[1].mode = opt.mode
  <2>1. rc'.off <= Blocks
    BY <1>2, <1>4
  <2>2. /\ write_log(rc') # << >> /\ write_log(rc')[1].off = rc'.off
        /\ write_log(rc')[1].dir = rc'.dir /\ write_log(rc')[1].mode = rc'.mode
    BY <1>2, <1>4, <2>1, WriteLogFacts DEF Contexts
  <2> QED BY <1>4, <2>2
<1>6. Front' = o
  BY <1>1, <1>4 DEF Front, Loop
<1> HIDE DEF o
<1>7. CASE Fresh
  <2>1. o = IF Geo.fwd THEN 0 ELSE Geo.blocks
    BY <1>1, <1>2, <1>3, <1>7, DirFacts, GeoFields DEF o, Fresh, EarlyPhases
  <2>2. /\ \A b \in All(Geo) : phys[Geo.old + b] = Cell(b, Geo.kold)
        /\ dirty = {}
    BY <1>7, GeoFields DEF Fresh, Untouched
  <2>3. Data(Geo, phys, dirty, o, Mishaps, {})
    BY <1>2, <2>1, <2>2, GeoFacts, DataAtStart
  <2>4. DataInv'
    BY <1>1, <1>2, <1>6, <2>3 DEF DataInv
  <2>5. /\ hdr # "new" /\ files = {"org", "new"} /\ rc'.stained
        /\ hdr \in IF opt.mode = "ENCRYPT" THEN {"none", "new"}
                   ELSE IF opt.mode = "REENCRYPT" THEN {"nomagic", "new"} ELSE {"nomagic", "none"}
    BY <1>1, <1>2, <1>3, <1>4, <1>7, DirFacts DEF Fresh, ForwardEncrypt, EarlyPhases, Modes
  <2>6. Copying'
    BY <1>1, <1>2, <1>4, <1>5, <2>5 DEF Copying, Loop
  <2> QED BY <2>4, <2>6
<1>8. CASE Copying /\ DataInv
  <2>1. rc.in_progress /\ rc.stained /\ rc.off = log[1].off
    BY <1>1, <1>8 DEF Copying, Loop
  <2>2. o = log[1].off /\ Front = log[1].off
    BY <1>1, <1>8, <2>1 DEF o, Front, Copying, Loop
  <2>3. DataInv'
    BY <1>1, <1>6, <1>8, <2>2, DataStays
  <2>4. Copying'
    BY <1>1, <1>2, <1>4, <1>5, <1>6, <1>8, <2>1, <2>2 DEF Copying, Loop
  <2> QED BY <2>3, <2>4
<1>9. ~Ended
  BY <1>1 DEF Ended
<1> QED BY <1>7, <1>8, <1>9

\* A block is copied.
LEMMA RunCopyBlock ==
  ASSUME TypeOK, slip # "now", copy_block, Fresh \/ (Copying /\ DataInv) \/ (Ended /\ DataInv)
  PROVE  Copying' /\ DataInv'
<1> USE DEF device, world
<1>1. pc = "loop" /\ pc' = "logging" /\ More /\ UNCHANGED <<opt, log, files, crashes, errors>>
  BY DEF copy_block
<1>2. /\ Geo' = Geo /\ Dir' = Dir /\ opt.mode \in Modes
      /\ opt \in Options /\ rc \in Contexts /\ Blocks \in 0..Size /\ Size \in Nat /\ Mishaps \in Nat
      /\ Mishaps' = Mishaps /\ Logged' = Logged
      /\ DOMAIN phys = Positions /\ IsGeo(Geo)
  BY <1>1, Frame, TypeFacts, OptionFacts, GeoFacts, MishapsStay
<1>3. Copying /\ DataInv
  BY <1>1 DEF Fresh, Ended, EarlyPhases
<1>4. rc.off \in 0..Blocks /\ rc.dir = Dir
  BY <1>1, <1>2, <1>3 DEF TypeOK, Contexts, Copying, Loop
<1>5. /\ Working \in All(Geo) /\ Advanced \in 0..Blocks
      /\ Working = Coming(Geo, rc.off) /\ Working = Latest(Geo, Advanced)
      /\ Advanced = (IF Geo.fwd THEN rc.off + 1 ELSE rc.off - 1)
      /\ rc.off # End(Geo)
  BY <1>1, <1>2, <1>4, DirFacts, GeoFields DEF Working, Advanced, More, All, Coming, Latest, End
<1>6. /\ rc' \in Contexts /\ rc'.off = Advanced /\ rc'.dir = rc.dir /\ rc'.mode = rc.mode /\ rc'.stained = rc.stained
  BY <1>2, <1>5 DEF copy_block, Contexts
<1>7. Front = rc.off /\ Front' = Advanced
  BY <1>1, <1>6 DEF Front, Loop
<1>8. DataInv'
  <2> SUFFICES ASSUME Logged
               PROVE  Data(Geo, phys', dirty', Advanced, Mishaps, {Working})
    BY <1>1, <1>2, <1>5, <1>7 DEF DataInv
  <2>1. Data(Geo, phys, dirty, rc.off, Mishaps, {})
    BY <1>1, <1>3, <1>7 DEF DataInv
  <2>2. /\ phys' = Written(Working, NewCell(Working)) /\ dirty' = Unsynced(Working)
        /\ NewCell(Working) \in Cells
    BY <1>5, CellFacts DEF copy_block
  <2>3. /\ phys[Geo.old + Working] = Cell(Working, Geo.kold) => phys'[Geo.new + Working] = Cell(Working, Geo.knew)
        /\ \A x \in Positions : x # Geo.new + Working => phys'[x] = phys[x]
        /\ \A x \in dirty' : x \in dirty \/ x[1] = Geo.new + Working
    BY <1>5, <2>2, WrittenFacts, CellFacts, GeoFields
  <2>4. rc.off \in Nat /\ Advanced \in Nat
    BY <1>2, <1>4, <1>5
  <2>7. CopyStep(Geo, phys, phys', dirty, dirty', rc.off, Advanced, Working)
    BY <1>5, <2>3, <2>4 DEF CopyStep
  <2> QED BY <1>2, <2>1, <2>7, DataCopied
<1>9. Logged => hdr # "new"
  BY <1>3, <1>5, <1>7 DEF Copying
<1>10. hdr' = hdr \/ (opt.mode # "REENCRYPT" /\ hdr' = "none")
  <2>1. opt.mode = "REENCRYPT" => OffNew = H + opt.shift /\ opt.shift \in Nat /\ H \in Nat
    BY <1>2, OffNewFacts, OptionFacts, GeoFacts
  <2>2. Working \in Nat
    BY <1>2, <1>5 DEF All, IsGeo
  <2>3. hdr' = IF OffNew + Working < H THEN "none" ELSE hdr
    BY DEF copy_block, HeaderAfter
  <2> QED BY <2>1, <2>2, <2>3
<1>11. /\ opt.wlog => rc.off = log[1].off
       /\ log[1].off \in Nat
  <2>1. log # << >>
    BY <1>3 DEF Copying
  <2> QED BY <1>1, <1>2, <1>3, <2>1, LogFacts DEF Copying, Logs
<1>12. Advanced = IF opt.shift = 0 THEN rc.off + 1 ELSE rc.off - 1
  BY <1>5, DirFacts
<1>13. Copying'
  BY <1>1, <1>2, <1>3, <1>5, <1>6, <1>9, <1>10, <1>11, <1>12 DEF Copying, Loop, Modes
<1> QED BY <1>8, <1>13

\* The steps after a block: the log, then the sync.
LEMMA RunLogSync ==
  ASSUME TypeOK, log_block \/ sync_block, Fresh \/ (Copying /\ DataInv) \/ (Ended /\ DataInv)
  PROVE  Copying' /\ DataInv'
<1> USE DEF device, world
<1>1. /\ pc \in {"logging", "syncing"} /\ pc' \in {"syncing", "loop"}
      /\ UNCHANGED <<opt, phys, hdr, files, rc, crashes, errors>>
  BY DEF log_block, sync_block
<1>2. /\ Geo' = Geo /\ Dir' = Dir
      /\ opt \in Options /\ rc \in Contexts /\ Geo.fsync = opt.fsync
      /\ Mishaps' = Mishaps /\ Logged' = Logged
  BY <1>1, Frame, TypeFacts, GeoFields, MishapsStay
<1>3. Copying /\ DataInv
  BY <1>1 DEF Fresh, Ended, EarlyPhases
<1>4. Front = rc.off /\ Front' = rc.off
  BY <1>1 DEF Front, Loop
<1>5. rc.off <= Blocks /\ rc.dir = Dir /\ rc.mode = opt.mode /\ log # << >>
  BY <1>1, <1>3 DEF TypeOK, Copying, Loop
<1>6. CASE log_block
  <2>1. pc = "logging" /\ pc' = "syncing" /\ dirty' = dirty /\ log' = IF opt.wlog THEN write_log(rc) ELSE log
    BY <1>6 DEF log_block, LogAfter
  <2>2. /\ write_log(rc) # << >> /\ write_log(rc)[1].off = rc.off
        /\ write_log(rc)[1].dir = rc.dir /\ write_log(rc)[1].mode = rc.mode
    BY <1>2, <1>5, WriteLogFacts DEF Contexts
  <2>3. /\ log' # << >> /\ log'[1].dir = Dir /\ log'[1].mode = opt.mode
        /\ opt.wlog => log'[1].off = rc.off
        /\ ~opt.wlog => log' = log
    BY <1>3, <1>5, <2>1, <2>2 DEF Copying
  <2>4. DataInv'
    BY <1>1, <1>2, <1>3, <1>4, <2>1 DEF DataInv
  <2>5. Copying'
    BY <1>1, <1>2, <1>3, <1>4, <2>1, <2>3 DEF Copying, Loop
  <2> QED BY <2>4, <2>5
<1>7. CASE sync_block
  <2>1. pc = "syncing" /\ pc' = "loop" /\ log' = log /\ (Geo.fsync => dirty' = {})
    BY <1>2, <1>7 DEF sync_block
  <2>2. Logged => Data(Geo, phys, dirty, rc.off, Mishaps, {Latest(Geo, Front)})
    BY <1>3, <1>4, <2>1 DEF DataInv
  <2>3. Logged => Data(Geo, phys, dirty', rc.off, Mishaps, {})
    BY <2>1, <2>2, DataSynced
  <2>4. DataInv'
    BY <1>1, <1>2, <1>4, <2>1, <2>3 DEF DataInv
  <2>5. Copying'
    BY <1>1, <1>2, <1>3, <1>4, <2>1 DEF Copying, Loop
  <2> QED BY <2>4, <2>5
<1> QED BY <1>6, <1>7

\* What the last log holds: the offset of the context or, if writing it fails,
\* what it held before.
LEMMA LastLogFacts ==
  ASSUME TypeOK, opt' = opt, rc' = rc, crashes' = crashes, NEW n \in Nat, last_log(n),
         rc.off <= Blocks, log # << >>
  PROVE  /\ log' # << >> /\ log'[1] \in Logs
         /\ Mishaps' \in Nat /\ Mishaps \in Nat /\ Mishaps + n <= Mishaps' /\ (Logged' => Logged)
         /\ \/ /\ log'[1].off = rc.off /\ log'[1].dir = rc.dir /\ log'[1].mode = rc.mode
            \/ log' = log /\ Mishaps + n + 1 <= Mishaps' /\ (Logged' => opt.wlog)
<1>1. /\ opt \in Options /\ rc \in Contexts /\ log[1] \in Logs /\ crashes \in Nat /\ errors \in Nat
      /\ Mishaps \in Nat
  BY TypeFacts, LogFacts
<1>2. /\ write_log(rc) # << >> /\ write_log(rc)[1] \in Logs /\ write_log(rc)[1].off = rc.off
      /\ write_log(rc)[1].dir = rc.dir /\ write_log(rc)[1].mode = rc.mode
  BY <1>1, WriteLogFacts DEF Contexts
<1>3. /\ errors' \in Nat
      /\ \/ log' = write_log(rc) /\ errors' = errors + n
         \/ log' = log /\ errors' = errors + (n + 1)
  BY ErrorFacts
<1>4. errors' >= errors /\ crashes' \in Nat /\ crashes' >= crashes
  BY <1>1, <1>3
<1>5. Mishaps' \in Nat /\ (Logged' => Logged) /\ (errors' > errors => (Logged' => opt.wlog))
  BY <1>4, <1>3, MishapsGrow
<1>6. CASE log' = write_log(rc) /\ errors' = errors + n
  <2>1. Mishaps' = Mishaps + n
    BY <1>1, <1>6 DEF Mishaps
  <2> QED BY <1>1, <1>2, <1>5, <1>6, <2>1
<1>7. CASE log' = log /\ errors' = errors + (n + 1)
  <2>1. Mishaps' = Mishaps + n + 1
    BY <1>1, <1>7 DEF Mishaps
  <2>2. errors' > errors
    BY <1>1, <1>7
  <2> QED BY <1>1, <1>5, <1>7, <2>1, <2>2
<1> QED BY <1>3, <1>6, <1>7

\* The copy ends: by itself, through a signal, or through an error between two
\* blocks or behind one.
LEMMA RunLoopEnds ==
  ASSUME TypeOK, copy_done \/ Interrupt \/ ReadFails \/ LogFails \/ SyncFails,
         Fresh \/ (Copying /\ DataInv) \/ (Ended /\ DataInv)
  PROVE  Copying' /\ DataInv'
<1> USE DEF device
<1> DEFINE cost == IF pc = "loop" THEN 0 ELSE 1
<1>1. /\ pc \in Loop /\ pc' \in {"restore", "finish", "destroy"} /\ last_log(cost)
      /\ UNCHANGED <<opt, hdr, files, rc, crashes>>
      /\ pc = "loop" => dirty' = dirty
  BY DEF copy_done, Interrupt, ReadFails, LogFails, SyncFails, Stop, Fail, Loop
<1>2. /\ Geo' = Geo /\ Dir' = Dir /\ IsGeo(Geo)
      /\ opt \in Options /\ rc \in Contexts /\ Blocks \in 0..Size
  BY <1>1, Frame, TypeFacts, GeoFacts
<1>3. Copying /\ DataInv
  BY <1>1 DEF Fresh, Ended, EarlyPhases, Loop
<1>4. rc.off \in 0..Blocks /\ rc.dir = Dir /\ rc.mode = opt.mode /\ rc.stained /\ log # << >>
  BY <1>1, <1>2, <1>3 DEF TypeOK, Copying, Loop, Contexts
<1>5. /\ log' # << >> /\ log'[1].dir = Dir /\ log'[1].mode = opt.mode /\ log'[1].off \in Nat
      /\ Mishaps' \in Nat /\ Mishaps \in Nat /\ Mishaps + cost <= Mishaps' /\ (Logged' => Logged)
      /\ \/ log'[1].off = rc.off
         \/ /\ log'[1].off = log[1].off /\ Mishaps + cost + 1 <= Mishaps' /\ (Logged' => opt.wlog)
  <2>1. rc.off <= Blocks /\ cost \in Nat
    BY <1>2, <1>4
  <2>2. log[1].dir = Dir /\ log[1].mode = opt.mode
    BY <1>3 DEF Copying
  <2> HIDE DEF cost
  <2>3. /\ log' # << >> /\ log'[1] \in Logs
        /\ Mishaps' \in Nat /\ Mishaps \in Nat /\ Mishaps + cost <= Mishaps' /\ (Logged' => Logged)
        /\ \/ /\ log'[1].off = rc.off /\ log'[1].dir = rc.dir /\ log'[1].mode = rc.mode
           \/ log' = log /\ Mishaps + cost + 1 <= Mishaps' /\ (Logged' => opt.wlog)
    BY <1>1, <1>4, <2>1, LastLogFacts
  <2> QED BY <1>2, <1>4, <2>2, <2>3 DEF Logs
<1>6. Front = rc.off /\ Front' = log'[1].off
  BY <1>1, <1>5 DEF Front, Loop
<1>7. opt.wlog => /\ pc # "logging" => log[1].off = rc.off
                  /\ rc.off = log[1].off \/ rc.off = IF Geo.fwd THEN log[1].off + 1 ELSE log[1].off - 1
  BY <1>1, <1>3, DirFacts DEF Copying, Loop
<1>8. CASE pc = "loop"
  <2>1. opt.wlog => log'[1].off = rc.off
    BY <1>5, <1>7, <1>8
  <2>2. Logged' => log'[1].off = rc.off
    BY <1>5, <2>1
  <2>3. Logged' => Data(Geo, phys, dirty', rc.off, Mishaps', {})
    <3>1. Logged => Data(Geo, phys, dirty, rc.off, Mishaps, {})
      BY <1>3, <1>6, <1>8 DEF DataInv
    <3>2. Mishaps <= Mishaps'
      BY <1>5, <1>8
    <3> QED BY <1>1, <1>2, <1>5, <1>8, <3>1, <3>2, DataMore
  <2>4. CASE ~copy_done
    <3>1. pc' = "destroy" /\ phys' = phys
      BY <1>8, <2>4 DEF Interrupt, ReadFails, LogFails, SyncFails, Stop, Fail
    <3>2. DataInv'
      BY <1>2, <1>6, <2>2, <2>3, <3>1 DEF DataInv
    <3>3. Copying'
      BY <1>1, <1>2, <1>3, <1>4, <1>5, <1>6, <2>2, <3>1 DEF Copying, Loop
    <3> QED BY <3>2, <3>3
  <2>5. CASE copy_done
    <3>1. /\ ~More /\ phys' = zero_rest_of_device
          /\ pc' = IF opt.mode = "DECRYPT" THEN "finish" ELSE "restore"
      BY <1>4, <2>5 DEF copy_done
    <3>2. rc.off = End(Geo)
      BY <1>2, <1>4, <3>1, DirFacts DEF More
    <3>3. \A b \in All(Geo) : phys'[Geo.new + b] = phys[Geo.new + b]
      <4>1. CASE opt.mode # "DECRYPT"
        BY <1>4, <3>1, <4>1 DEF zero_rest_of_device
      <4>2. CASE opt.mode = "DECRYPT"
        <5>1. Geo.new = 0 /\ Geo.blocks = Size /\ Size \in Nat
          BY <1>2, <4>2, OffNewFacts, GeoFields, GeoFacts, OptionFacts
        <5>2. \A b \in All(Geo) : Geo.new + b \in Positions /\ Geo.new + b < Size
          BY <1>2, <5>1 DEF IsGeo, All
        <5>3. phys' = [x \in Positions |-> IF x >= Size /\ x < Size + H THEN Garbage ELSE phys[x]]
          BY <1>4, <3>1, <4>2 DEF zero_rest_of_device
        <5>4. \A x \in Positions : x < Size => phys'[x] = phys[x]
          BY <5>1, <5>3 DEF Positions
        <5> QED BY <5>2, <5>4
      <4> QED BY <4>1, <4>2
    <3>4. Logged' => Data(Geo, phys', dirty', End(Geo), Mishaps', {})
      BY <1>2, <2>3, <3>2, <3>3, DataAtEnd
    <3>5. DataInv'
      BY <1>1, <1>2, <1>6, <2>2, <3>1, <3>2, <3>4 DEF DataInv
    <3>6. Copying'
      BY <1>1, <1>2, <1>3, <1>4, <1>5, <1>6, <2>2, <3>1, <3>2 DEF Copying, Loop
    <3> QED BY <3>5, <3>6
  <2> QED BY <2>4, <2>5
<1>9. CASE pc \in {"logging", "syncing"}
  <2> DEFINE w == Latest(Geo, rc.off)
  <2>1. pc' = "destroy" /\ w \in All(Geo) /\ rc.off \in Nat /\ log[1].off \in Nat
    BY <1>1, <1>2, <1>3, <1>4, <1>9, LogFacts DEF copy_done, Interrupt, ReadFails, LogFails, SyncFails, Stop, Fail,
       Copying, Logs
  <2>2. Logged => Data(Geo, phys, dirty, rc.off, Mishaps, {w})
    BY <1>3, <1>6, <1>9 DEF DataInv
  <2>3. Logged' => Data(Geo, phys, dirty, log'[1].off, Mishaps', {})
    <3> SUFFICES ASSUME Logged' PROVE Data(Geo, phys, dirty, log'[1].off, Mishaps', {})
      OBVIOUS
    <3>1. log'[1].off = rc.off \/ rc.off = IF Geo.fwd THEN log'[1].off + 1 ELSE log'[1].off - 1
      BY <1>5, <1>7
    <3>2. Data(Geo, phys, dirty, log'[1].off, Mishaps + 1, {})
      BY <1>2, <1>5, <2>1, <2>2, <3>1, DataKilled
    <3>3. Mishaps + 1 <= Mishaps' /\ Mishaps + 1 \in Nat
      BY <1>5, <1>9
    <3> QED BY <1>2, <1>5, <3>2, <3>3, DataMore
  <2>4. Logged' => Data(Geo, phys', dirty', log'[1].off, Mishaps', {})
    <3>1. CASE LogFails
      BY <2>3, <3>1 DEF LogFails
    <3>2. CASE SyncFails
      <4>1. PICK lost \in SUBSET dirty, torn \in SUBSET dirty : phys' = Undone(lost, torn)
        BY <3>2 DEF SyncFails
      <4>2. \A x \in Positions : (\A e \in dirty : e[1] # x) => phys'[x] = phys[x]
        BY <4>1, UndoneFacts
      <4>3. Geo.fsync /\ dirty' = {}
        BY <3>2, GeoFields DEF SyncFails
      <4>4. log'[1].off \in Nat
        BY <1>5, LogFacts DEF Logs
      <4>5. Logged' => Data(Geo, phys', {}, log'[1].off, Mishaps', {})
        <5> SUFFICES ASSUME Logged' PROVE Data(Geo, phys', {}, log'[1].off, Mishaps', {})
          OBVIOUS
        <5> DEFINE q == phys'
        <5> DEFINE o == log'[1].off
        <5> DEFINE n == Mishaps'
        <5>1. Data(Geo, phys, dirty, o, n, {}) /\ o \in Nat /\ IsGeo(Geo) /\ Geo.fsync
          BY <1>2, <2>3, <4>3, <4>4
        <5>2. \A x \in Positions : (\A e \in dirty : e[1] # x) => q[x] = phys[x]
          BY <4>2
        <5> HIDE DEF q, o, n
        <5>3. Data(Geo, q, {}, o, n, {})
          BY <5>1, <5>2, DataLost
        <5> QED BY <5>3 DEF q, o, n
      <4> QED BY <4>3, <4>5
    <3> QED BY <1>9, <3>1, <3>2 DEF copy_done, Interrupt, ReadFails
  <2>5. DataInv'
    BY <1>2, <1>6, <2>1, <2>4 DEF DataInv
  <2>6. hdr = "new" /\ Logged' => log'[1].off = End(Geo)
    BY <1>3, <1>5, <1>6 DEF Copying
  <2>7. Copying'
    BY <1>1, <1>2, <1>3, <1>4, <1>5, <1>6, <2>1, <2>6 DEF Copying, Loop
  <2> QED BY <2>5, <2>7
<1> QED BY <1>1, <1>8, <1>9 DEF Loop

\* A write that fails, or writes a piece only, spoils the block it writes.
LEMMA RunSpoil ==
  ASSUME TypeOK, WriteFails \/ ShortWrite, Fresh \/ (Copying /\ DataInv) \/ (Ended /\ DataInv)
  PROVE  Copying' /\ DataInv'
<1> USE DEF device
<1>1. pc = "loop" /\ More /\ UNCHANGED <<opt, files, crashes>>
  BY DEF WriteFails, ShortWrite
<1>2. /\ Geo' = Geo /\ Dir' = Dir /\ IsGeo(Geo) /\ opt.mode \in Modes
      /\ opt \in Options /\ rc \in Contexts /\ Blocks \in 0..Size /\ Size \in Nat /\ Mishaps \in Nat
      /\ crashes \in Nat /\ errors \in Nat
  BY <1>1, Frame, TypeFacts, OptionFacts, GeoFacts
<1>3. Copying /\ DataInv
  BY <1>1 DEF Fresh, Ended, EarlyPhases
<1>4. rc.off \in 0..Blocks /\ rc.dir = Dir /\ rc.mode = opt.mode /\ rc.stained /\ log # << >>
  BY <1>1, <1>2, <1>3 DEF TypeOK, Contexts, Copying, Loop
<1>5. /\ Working \in All(Geo) /\ Advanced \in 0..Blocks
      /\ Working = Coming(Geo, rc.off) /\ Working = Latest(Geo, Advanced)
      /\ Advanced = (IF Geo.fwd THEN rc.off + 1 ELSE rc.off - 1)
      /\ rc.off # End(Geo)
  BY <1>1, <1>2, <1>4, DirFacts, GeoFields DEF Working, Advanced, More, All, Coming, Latest, End
<1>6. /\ \A x \in Positions : x # Geo.new + Working => phys'[x] = phys[x]
      /\ \A x \in dirty' : x \in dirty \/ x[1] = Geo.new + Working
  <2>1. NewCell(Working) \in Cells /\ Garbage \in Cells
    BY <1>5, CellFacts
  <2>2. \/ phys' = phys /\ dirty' = dirty
        \/ /\ \E cell \in Cells : phys' = Written(Working, cell)
           /\ dirty' = Unsynced(Working)
    BY <2>1 DEF WriteFails, ShortWrite
  <2> QED BY <1>5, <2>2, WrittenFacts, GeoFields
<1>7. Front = rc.off
  BY <1>1 DEF Front, Loop
<1>8. Logged => /\ Data(Geo, phys', dirty', rc.off, Mishaps + 1, {})
                /\ Data(Geo, phys', dirty', Advanced, Mishaps + 1, {Working})
  <2>1. Logged => Data(Geo, phys, dirty, rc.off, Mishaps, {})
    BY <1>1, <1>3, <1>7 DEF DataInv
  <2>2. rc.off \in Nat /\ Advanced \in Nat
    BY <1>2, <1>4, <1>5
  <2>3. SpoilStep(Geo, phys, phys', dirty, dirty', rc.off, Advanced, Working)
    BY <1>5, <1>6, <2>2 DEF SpoilStep
  <2> QED BY <1>2, <2>1, <2>3, DataSpoiled
<1>9. Logged => hdr # "new"
  BY <1>3, <1>5, <1>7 DEF Copying
<1>10. hdr' = hdr \/ (opt.mode # "REENCRYPT" /\ hdr' = "none")
  <2>1. opt.mode = "REENCRYPT" => OffNew = H + opt.shift /\ opt.shift \in Nat /\ H \in Nat
    BY <1>2, OffNewFacts, OptionFacts, GeoFacts
  <2>2. Working \in Nat
    BY <1>2, <1>5 DEF All, IsGeo
  <2>3. hdr' = hdr \/ hdr' = HeaderAfter(Working)
    BY DEF WriteFails, ShortWrite
  <2> QED BY <2>1, <2>2, <2>3 DEF HeaderAfter
<1>11. opt.wlog => rc.off = log[1].off
  BY <1>1, <1>3 DEF Copying
<1>12. CASE ShortWrite
  <2>1. log' = log /\ pc' = "logging" /\ errors' = errors + 1 /\ errors' \in Nat
    BY <1>12, ErrorFacts DEF ShortWrite
  <2>2. /\ rc'.off = Advanced /\ rc'.dir = rc.dir /\ rc'.mode = rc.mode /\ rc'.stained = rc.stained
    BY <1>2, <1>5, <1>12 DEF ShortWrite, Contexts
  <2>3. Mishaps' = Mishaps + 1
    BY <1>1, <1>2, <2>1 DEF Mishaps
  <2>4. Logged' => Logged /\ opt.wlog
    <3>1. opt' = opt /\ Mishaps' # 0
      BY <1>1, <1>2, <2>3
    <3> QED BY <3>1 DEF Logged
  <2>5. Front' = Advanced
    BY <2>1, <2>2 DEF Front, Loop
  <2>6. DataInv'
    BY <1>2, <1>5, <1>8, <2>1, <2>3, <2>4, <2>5 DEF DataInv
  <2>7. Advanced = IF opt.shift = 0 THEN rc.off + 1 ELSE rc.off - 1
    BY <1>5, DirFacts
  <2>8. Copying'
    BY <1>1, <1>2, <1>3, <1>4, <1>5, <1>9, <1>10, <1>11, <2>1, <2>2, <2>4, <2>7
       DEF Copying, Loop, Modes
  <2> QED BY <2>6, <2>8
<1>13. CASE WriteFails
  <2>1. pc' = "destroy" /\ rc' = rc /\ last_log(1)
    BY <1>13 DEF WriteFails, Fail
  <2>2. /\ log' # << >> /\ log'[1] \in Logs
        /\ Mishaps' \in Nat /\ Mishaps + 1 <= Mishaps' /\ (Logged' => Logged)
        /\ \/ /\ log'[1].off = rc.off /\ log'[1].dir = rc.dir /\ log'[1].mode = rc.mode
           \/ log' = log /\ (Logged' => opt.wlog)
    <3>1. rc.off <= Blocks
      BY <1>2, <1>4
    <3> QED BY <1>1, <1>4, <2>1, <3>1, LastLogFacts
  <2>3. Logged' => log'[1].off = rc.off
    BY <1>11, <2>2
  <2>4. log'[1].dir = Dir /\ log'[1].mode = opt.mode
    BY <1>3, <1>4, <2>2 DEF Copying
  <2>5. Front' = log'[1].off
    BY <2>1, <2>2 DEF Front, Loop
  <2>6. Logged' => Data(Geo, phys', dirty', rc.off, Mishaps', {})
    <3>1. Mishaps + 1 \in Nat
      BY <1>2
    <3> QED BY <1>2, <1>8, <2>2, <3>1, DataMore
  <2>7. DataInv'
    BY <1>2, <2>1, <2>3, <2>5, <2>6 DEF DataInv
  <2>8. Copying'
    BY <1>1, <1>2, <1>3, <1>4, <1>9, <1>10, <2>1, <2>2, <2>4 DEF Copying, Loop, Modes
  <2> QED BY <2>7, <2>8
<1> QED BY <1>12, <1>13

\* A run whose first log fails ends before it has touched the device.
LEMMA FirstLogFacts ==
  ASSUME FirstLogFails
  PROVE  /\ pc = "copy" /\ pc' = "destroy" /\ UNCHANGED <<opt, phys, dirty, hdr, files, slip, crashes>>
         /\ early => early'
<1>1. rc' = IF rc.dir = "FORWARD" \/ rc.in_progress THEN rc ELSE [rc EXCEPT !.off = Blocks]
  BY Zenon DEF FirstLogFails
<1>2. \/ log' = write_log(rc') /\ Errors(1) /\ early' = early
      \/ log' = log /\ Errors(2) /\ early' = (early \/ (rc.stained /\ ~rc.in_progress))
  BY <1>1, Zenon DEF FirstLogFails
<1>3. early => early'
  BY <1>2, Zenon
<1> QED BY <1>3 DEF FirstLogFails, Fail, device

\* The first log of copy_data cannot be written.
LEMMA RunFirstLogFails ==
  ASSUME TypeOK, ~ForwardEncrypt, FirstLogFails, Fresh \/ (Copying /\ DataInv) \/ (Ended /\ DataInv)
  PROVE  early' \/ Fresh' \/ (Copying' /\ DataInv')
<1> USE DEF device
<1>1. pc = "copy" /\ pc' = "destroy" /\ UNCHANGED <<opt, phys, dirty, hdr, files, crashes>>
  BY DEF FirstLogFails, Fail
<1>2. /\ Geo' = Geo /\ Dir' = Dir /\ OffOld' = OffOld /\ OffNew' = OffNew /\ KeyOld' = KeyOld /\ KeyNew' = KeyNew
      /\ opt \in Options /\ rc \in Contexts /\ Blocks \in 0..Size /\ Size \in Nat /\ Mishaps \in Nat
      /\ opt.mode \in Modes /\ crashes \in Nat /\ errors \in Nat /\ IsGeo(Geo)
  BY <1>1, Frame, TypeFacts, OptionFacts, GeoFacts
<1>3. rc.dir = Dir /\ rc.mode = opt.mode
  BY <1>1 DEF Fresh, Copying, Ended, EarlyPhases, Loop
<1> DEFINE o == IF rc.dir = "FORWARD" \/ rc.in_progress THEN rc.off ELSE Blocks
<1>4. o \in 0..Blocks
  BY <1>1, <1>2 DEF TypeOK, EarlyPhases, Contexts
<1>5. /\ rc' \in Contexts /\ rc'.off = o /\ rc'.dir = Dir /\ rc'.mode = opt.mode
      /\ rc'.stained = rc.stained /\ rc'.in_progress = rc.in_progress
      /\ \/ log' = write_log(rc') /\ errors' = errors + 1
         \/ log' = log /\ errors' = errors + 2 /\ early' = (early \/ (rc.stained /\ ~rc.in_progress))
  <2>1. rc' = IF rc.dir = "FORWARD" \/ rc.in_progress THEN rc ELSE [rc EXCEPT !.off = Blocks]
    BY Zenon DEF FirstLogFails
  <2>2. \/ log' = write_log(rc') /\ Errors(1)
        \/ log' = log /\ Errors(2) /\ early' = (early \/ (rc.stained /\ ~rc.in_progress))
    BY <2>1, Zenon DEF FirstLogFails
  <2>3. /\ rc' \in Contexts /\ rc'.off = o /\ rc'.dir = rc.dir /\ rc'.mode = rc.mode
        /\ rc'.stained = rc.stained /\ rc'.in_progress = rc.in_progress
    BY <1>2, <1>4, <2>1 DEF Contexts
  <2> QED BY <1>3, <2>2, <2>3, ErrorFacts
<1> HIDE DEF o
<1>6. /\ write_log(rc') # << >> /\ write_log(rc')[1].off = o
      /\ write_log(rc')[1].dir = Dir /\ write_log(rc')[1].mode = opt.mode
  <2>1. rc'.off <= Blocks
    BY <1>2, <1>4, <1>5
  <2> QED BY <1>2, <1>5, <2>1, WriteLogFacts DEF Contexts
<1>7. Mishaps' \in Nat /\ Mishaps <= Mishaps' /\ (Logged' => Logged)
  <2>1. errors' \in Nat /\ errors' >= errors
    BY <1>2, <1>5
  <2> QED BY <1>1, <1>2, <2>1, MishapsGrow
<1>8. CASE Fresh
  <2>1. /\ ~rc.in_progress /\ (rc.stained <=> opt.mode # "ENCRYPT") /\ files = {"org", "new"}
        /\ hdr = IF opt.mode = "ENCRYPT" THEN "none" ELSE "nomagic"
        /\ log # << >>
    BY <1>1, <1>8 DEF Fresh, EarlyPhases
  <2>2. CASE opt.mode = "ENCRYPT"
    <3>1. Untouched'
      BY <1>1, <1>2, <1>8 DEF Fresh, Untouched
    <3>2. opt.shift # 0
      BY <2>2 DEF ForwardEncrypt
    <3> QED BY <1>1, <1>2, <1>5, <1>6, <2>1, <2>2, <3>1, <3>2 DEF Fresh, EarlyPhases
  <2>3. CASE opt.mode # "ENCRYPT"
    <3>1. CASE early' = (early \/ (rc.stained /\ ~rc.in_progress))
      BY <2>1, <2>3, <3>1
    <3>2. CASE log' = write_log(rc')
      <4>1. o = IF Geo.fwd THEN 0 ELSE Geo.blocks
        BY <1>1, <1>2, <1>3, <1>8, <2>1, DirFacts, GeoFields DEF o, Fresh, EarlyPhases
      <4>2. /\ \A b \in All(Geo) : phys[Geo.old + b] = Cell(b, Geo.kold)
            /\ dirty = {}
        BY <1>8, GeoFields DEF Fresh, Untouched
      <4>3. Data(Geo, phys, dirty, o, Mishaps', {})
        BY <1>2, <1>7, <4>1, <4>2, GeoFacts, DataAtStart
      <4>4. Front' = o
        BY <1>1, <1>6, <3>2 DEF Front, Loop
      <4>5. DataInv'
        BY <1>1, <1>2, <4>3, <4>4 DEF DataInv
      <4>6. Copying'
        BY <1>1, <1>2, <1>5, <1>6, <2>1, <2>3, <3>2 DEF Copying, Loop, Modes
      <4> QED BY <4>5, <4>6
    <3> QED BY <1>5, <3>1, <3>2
  <2> QED BY <2>2, <2>3
<1>9. CASE Copying /\ DataInv
  <2>1. rc.in_progress /\ rc.stained /\ rc.off = log[1].off /\ log # << >>
        /\ log[1].dir = Dir /\ log[1].mode = opt.mode
    BY <1>1, <1>9 DEF Copying, Loop
  <2>2. log' # << >> /\ log'[1].off = log[1].off /\ log'[1].dir = Dir /\ log'[1].mode = opt.mode
    BY <1>5, <1>6, <2>1 DEF o
  <2>3. Front = log[1].off /\ Front' = log[1].off
    BY <1>1, <2>1, <2>2 DEF Front, Loop
  <2>4. Logged => Data(Geo, phys, dirty, log[1].off, Mishaps, {})
    BY <1>1, <1>9, <2>3 DEF DataInv
  <2>5. Logged' => Data(Geo, phys, dirty, log[1].off, Mishaps', {})
    BY <1>2, <1>7, <2>4, DataMore
  <2>6. DataInv'
    BY <1>1, <1>2, <2>3, <2>5 DEF DataInv
  <2>7. Copying'
    BY <1>1, <1>2, <1>5, <1>7, <1>9, <2>1, <2>2, <2>3 DEF Copying, Loop
  <2> QED BY <2>6, <2>7
<1>10. ~Ended
  BY <1>1 DEF Ended
<1> QED BY <1>8, <1>9, <1>10

\* The header is restored, or there is none to restore.
LEMMA RunRestore ==
  ASSUME TypeOK, Restore \/ Finish, Fresh \/ (Copying /\ DataInv) \/ (Ended /\ DataInv)
  PROVE  Copying' /\ DataInv'
<1> USE DEF device, world
<1>1. /\ pc \in {"restore", "finish"} /\ pc' = "destroy"
      /\ UNCHANGED <<opt, phys, dirty, log, files, crashes, errors>>
  BY DEF Restore, Finish, Fail
<1>2. Geo' = Geo /\ Dir' = Dir /\ rc \in Contexts /\ opt.mode \in Modes
      /\ Mishaps' = Mishaps /\ Logged' = Logged
  BY <1>1, Frame, TypeFacts, OptionFacts, MishapsStay
<1>3. Copying /\ DataInv
  BY <1>1 DEF Fresh, Ended, EarlyPhases
<1>4. /\ rc'.off = rc.off /\ rc'.mode = rc.mode /\ log # << >> /\ (Logged => log[1].off = End(Geo))
      /\ IF opt.mode = "DECRYPT" THEN hdr' = hdr ELSE hdr' = "new"
  BY <1>1, <1>2, <1>3 DEF Restore, restore_luks_header, Finish, Fail, Copying, Contexts
<1>5. Logged => Front = End(Geo) /\ Front' = End(Geo)
  BY <1>1, <1>2, <1>4 DEF Front, Loop
<1>6. DataInv'
  BY <1>1, <1>3, <1>5, DataStays
<1>7. Copying'
  BY <1>1, <1>2, <1>3, <1>4, <1>5 DEF Copying, Loop, Modes
<1> QED BY <1>6, <1>7

\* The files are kept, or unlinked.
LEMMA RunDestroy ==
  ASSUME TypeOK, destroy_context \/ unlink_headers \/ Done, Fresh \/ (Copying /\ DataInv) \/ (Ended /\ DataInv)
  PROVE  Fresh' \/ (Copying' /\ DataInv') \/ (Ended' /\ DataInv')
<1> USE DEF device, world
<1>1. /\ pc \in {"destroy", "unlink", "idle"} /\ pc' \in {"idle", "unlink", "done"}
      /\ UNCHANGED <<opt, phys, dirty, hdr, rc, crashes, errors>>
  BY DEF destroy_context, unlink_headers, Done
<1>2. /\ Geo' = Geo /\ Dir' = Dir /\ OffOld' = OffOld /\ OffNew' = OffNew /\ KeyOld' = KeyOld /\ KeyNew' = KeyNew
      /\ rc \in Contexts /\ opt.mode \in Modes /\ Blocks \in 0..Size /\ Size \in Nat \ {0}
      /\ opt.mode = "DECRYPT" => OffNew = 0 /\ Blocks = Size /\ opt.shift = 0
      /\ Mishaps' = Mishaps /\ Logged' = Logged
  BY <1>1, Frame, TypeFacts, OptionFacts, OffNewFacts, GeoFacts, MishapsStay
<1>3. CASE Fresh
  <2>1. Untouched'
    BY <1>1, <1>2, <1>3 DEF Fresh, Untouched
  <2>2. pc # "idle" => ~Finished
    BY <1>1, <1>2, <1>3 DEF Finished, Fresh
  <2>3. ~Done
    BY <1>3 DEF Done, Fresh
  <2> QED BY <1>1, <1>2, <1>3, <2>1, <2>2, <2>3
             DEF destroy_context, KeepsFiles, unlink_headers, Fresh, EarlyPhases
<1>4. CASE Copying /\ DataInv
  <2>0. log # << >> /\ ~unlink_headers
    BY <1>4 DEF Copying, unlink_headers, Loop
  <2>1. CASE destroy_context /\ rc.stained
    <3>1. pc' = "idle" /\ UNCHANGED <<log, files>> /\ pc = "destroy"
      BY <2>1 DEF destroy_context, KeepsFiles
    <3>2. Front' = Front
      BY <1>2, <3>1 DEF Front, Loop
    <3>3. DataInv'
      BY <1>1, <1>4, <3>1, <3>2, DataStays
    <3>4. Copying'
      BY <1>1, <1>2, <1>4, <3>1, <3>2 DEF Copying, Loop
    <3> QED BY <3>3, <3>4
  <2>2. CASE destroy_context /\ ~rc.stained
    <3>1. pc' = "unlink" /\ log' = << >> /\ pc = "destroy"
      BY <2>2 DEF destroy_context, KeepsFiles
    <3>2. Logged => Front = End(Geo) /\ Front' = End(Geo)
      BY <1>2, <1>4, <2>0, <2>2, <3>1 DEF Front, Loop, Copying
    <3>3. DataInv'
      BY <1>1, <1>4, <3>1, <3>2, DataStays
    <3>4. Ended'
      BY <1>1, <1>2, <1>4, <2>2, <3>1 DEF Ended, Copying, Modes
    <3> QED BY <3>3, <3>4
  <2>3. CASE Done
    <3>1. pc' = "done" /\ pc = "idle" /\ hdr = "new" /\ opt.mode = "ENCRYPT"
      BY <2>3 DEF Done
    <3>2. Logged => Front = End(Geo) /\ Front' = End(Geo)
      BY <1>2, <1>4, <3>1 DEF Front, Loop, Copying
    <3>3. DataInv'
      BY <1>1, <1>4, <3>1, <3>2, DataStays
    <3>4. Ended'
      BY <1>1, <3>1 DEF Ended
    <3> QED BY <3>3, <3>4
  <2> QED BY <1>2, <2>0, <2>1, <2>2, <2>3 DEF Contexts
<1>5. CASE Ended /\ DataInv
  <2>1. pc = "unlink" /\ log = << >> /\ unlink_headers
    BY <1>1, <1>5 DEF Ended, destroy_context, Done
  <2>2. Finished
    BY <1>2, <1>5, <2>1, DirFacts DEF Finished, Ended
  <2>3. pc' = "done"
    BY <2>1, <2>2 DEF unlink_headers
  <2>4. Front = End(Geo) /\ Front' = End(Geo)
    BY <1>2, <2>1, <2>3 DEF Front, Loop
  <2>5. DataInv'
    BY <1>1, <1>5, <2>1, <2>3, <2>4, DataStays
  <2>6. Ended'
    BY <1>1, <1>5, <2>3 DEF Ended
  <2> QED BY <2>5, <2>6
<1> QED BY <1>3, <1>4, <1>5

\* A crash is one more mishap.
LEMMA CrashCounts ==
  ASSUME TypeOK, opt' = opt, crashes' = crashes + 1, errors' = errors
  PROVE  Mishaps' = Mishaps + 1 /\ (Logged' => Logged /\ opt.wlog)
<1>1. crashes \in Nat /\ errors \in Nat /\ Mishaps \in Nat
  BY TypeFacts
<1>2. Mishaps' = Mishaps + 1
  BY <1>1 DEF Mishaps
<1>3. (Logged <=> opt.wlog \/ Mishaps = 0) /\ (Logged' <=> opt.wlog \/ Mishaps' = 0)
  BY DEF Logged
<1> QED BY <1>1, <1>2, <1>3

\* A crash takes the context, and what it leaves of the data is Data as the next
\* run finds it.
LEMMA RunCrash ==
  ASSUME TypeOK, Crashed, Running, Fresh \/ (Copying /\ DataInv) \/ (Ended /\ DataInv),
         ASSUME NEW off \in Nat, opt.wlog, Data(Geo, phys, dirty, off, Mishaps + 1, {})
         PROVE  Data(Geo, phys', dirty', off, Mishaps + 1, {}),
         (phys' = phys /\ dirty' = dirty) \/ dirty' = {},
         dirty = {} => phys' = phys
  PROVE  early' \/ Fresh' \/ (Copying' /\ DataInv') \/ (Ended' /\ DataInv')
<1>1. /\ pc \notin {"idle", "done"} /\ crashes' = crashes + 1 /\ rc' = NoCtx
      /\ pc' = (IF pc = "unlink" /\ Finished THEN "done" ELSE "idle")
      /\ early' = (early \/ (~rc.in_progress /\ (pc \in EarlyPhases
                                                 \/ (pc = "destroy" /\ ~rc.stained /\ ~Finished))))
      /\ UNCHANGED <<opt, hdr, log, files, errors>>
  BY DEF Crashed, Running
<1>2. /\ Geo' = Geo /\ Dir' = Dir /\ OffOld' = OffOld /\ OffNew' = OffNew /\ KeyOld' = KeyOld /\ KeyNew' = KeyNew
      /\ rc \in Contexts /\ opt.mode \in Modes /\ Blocks \in 0..Size /\ Size \in Nat \ {0} /\ Mishaps \in Nat
      /\ Mishaps' = Mishaps + 1 /\ (Logged' => Logged /\ opt.wlog)
      /\ opt.mode = "DECRYPT" => OffNew = 0 /\ Blocks = Size /\ opt.shift = 0
      /\ IsGeo(Geo)
  BY <1>1, Frame, TypeFacts, OptionFacts, OffNewFacts, GeoFacts, CrashCounts
<1>3. CASE Fresh
  <2>1. CASE pc \in EarlyPhases
    BY <1>1, <1>3, <2>1 DEF Fresh
  <2>2. CASE pc \in {"destroy", "unlink"}
    <3>1. ~Finished
      BY <1>2, <1>3, <2>2 DEF Finished, Fresh
    <3>2. CASE pc = "destroy"
      BY <1>1, <1>3, <3>1, <3>2 DEF Fresh, EarlyPhases
    <3>3. CASE pc = "unlink"
      <4>1. pc' = "idle" /\ log' = << >>
        BY <1>1, <1>3, <3>1, <3>3 DEF Fresh
      <4>2. dirty = {} /\ phys' = phys /\ dirty' = {}
        BY <1>3 DEF Fresh, Untouched
      <4>3. Untouched'
        BY <1>2, <1>3, <4>2 DEF Fresh, Untouched
      <4> QED BY <1>1, <1>2, <1>3, <3>3, <4>1, <4>3 DEF Fresh, EarlyPhases
    <3> QED BY <2>2, <3>2, <3>3
  <2> QED BY <1>1, <1>3, <2>1, <2>2 DEF Fresh
<1>4. CASE Copying /\ DataInv
  <2>1. pc' = "idle" /\ log # << >> /\ log[1].off \in Nat /\ rc.off \in Nat
    BY <1>1, <1>2, <1>4, LogFacts DEF Copying, Loop, Logs, Contexts
  <2>2. Front' = log[1].off
    BY <1>1, <2>1 DEF Front, Loop
  <2>3. ASSUME opt.wlog
        PROVE  Data(Geo, phys, dirty, log[1].off, Mishaps + 1, {})
    <3>1. CASE pc \in {"logging", "syncing"}
      <4>1. Front = rc.off /\ Latest(Geo, rc.off) \in All(Geo)
        BY <1>4, <3>1 DEF Front, Loop, Copying
      <4>2. log[1].off = rc.off \/ rc.off = IF Geo.fwd THEN log[1].off + 1 ELSE log[1].off - 1
        BY <1>4, <2>3, <3>1, DirFacts DEF Copying
      <4>3. Data(Geo, phys, dirty, rc.off, Mishaps, {Latest(Geo, rc.off)})
        BY <1>4, <2>3, <3>1, <4>1 DEF DataInv, Logged
      <4> QED BY <1>2, <2>1, <4>1, <4>2, <4>3, DataKilled
    <3>2. CASE pc \notin {"logging", "syncing"}
      <4>1. Front = log[1].off
        BY <1>1, <1>4, <2>1, <2>3, <3>2 DEF Front, Loop, Copying
      <4>2. Data(Geo, phys, dirty, log[1].off, Mishaps, {})
        BY <1>4, <2>3, <3>2, <4>1 DEF DataInv, Logged
      <4> QED BY <1>2, <4>2, DataMore
    <3> QED BY <3>1, <3>2
  <2>4. opt.wlog => Data(Geo, phys', dirty', log[1].off, Mishaps + 1, {})
    BY <2>1, <2>3
  <2>5. DataInv'
    BY <1>1, <1>2, <2>1, <2>2, <2>4 DEF DataInv
  <2>6. Copying'
    BY <1>1, <1>2, <1>4, <2>1, <2>2 DEF Copying, Loop
  <2> QED BY <2>5, <2>6
<1>5. CASE Ended /\ DataInv
  <2>1. pc = "unlink" /\ log = << >> /\ Finished
    BY <1>1, <1>2, <1>5, DirFacts DEF Ended, Finished
  <2>2. pc' = "done" /\ Front = End(Geo) /\ Front' = End(Geo) /\ End(Geo) \in Nat
    BY <1>1, <1>2, <2>1, DirFacts DEF Front, Loop
  <2>3. ASSUME opt.wlog
        PROVE  Data(Geo, phys, dirty, End(Geo), Mishaps + 1, {})
    <3>1. Data(Geo, phys, dirty, End(Geo), Mishaps, {})
      BY <1>5, <2>1, <2>2, <2>3 DEF DataInv, Logged
    <3> QED BY <1>2, <3>1, DataMore
  <2>4. opt.wlog => Data(Geo, phys', dirty', End(Geo), Mishaps + 1, {})
    BY <2>2, <2>3
  <2>5. DataInv'
    BY <1>1, <1>2, <2>2, <2>4 DEF DataInv
  <2>6. Ended'
    BY <1>1, <1>5, <2>2 DEF Ended
  <2> QED BY <2>5, <2>6
<1> QED BY <1>3, <1>4, <1>5

\* A run is killed, or the power fails.
LEMMA RunKilled ==
  ASSUME TypeOK, Kill \/ PowerFail, Fresh \/ (Copying /\ DataInv) \/ (Ended /\ DataInv)
  PROVE  early' \/ Fresh' \/ (Copying' /\ DataInv') \/ (Ended' /\ DataInv')
<1>1. CASE Kill
  <2>1. Crashed /\ Running /\ phys' = phys /\ dirty' = dirty
    BY <1>1 DEF Kill
  <2> QED BY <2>1, RunCrash
<1>2. CASE PowerFail
  <2>1. Crashed /\ Running /\ dirty' = {} /\ opt.fsync
    BY <1>2 DEF PowerFail
  <2>2. PICK lost \in SUBSET dirty, torn \in SUBSET dirty : phys' = Undone(lost, torn)
    BY <1>2 DEF PowerFail
  <2>3. \A x \in Positions : (\A e \in dirty : e[1] # x) => phys'[x] = phys[x]
    BY <2>2, UndoneFacts
  <2>4. IsGeo(Geo) /\ Geo.fsync /\ DOMAIN phys = Positions
    BY <2>1, GeoFacts, GeoFields, TypeFacts
  <2>5. ASSUME NEW off \in Nat, opt.wlog, Data(Geo, phys, dirty, off, Mishaps + 1, {})
        PROVE  Data(Geo, phys', dirty', off, Mishaps + 1, {})
    BY <2>1, <2>3, <2>4, <2>5, DataLost
  <2>6. dirty = {} => phys' = phys
    <3> SUFFICES ASSUME dirty = {} PROVE phys' = phys
      OBVIOUS
    <3>1. phys' \in [Positions -> Cells] /\ phys \in [Positions -> Cells]
      BY <2>2, UndoneFacts DEF TypeOK
    <3>2. \A x \in Positions : phys'[x] = phys[x]
      BY <2>3
    <3> QED BY <3>1, <3>2
  <2> QED BY <2>1, <2>5, <2>6, RunCrash
<1> QED BY <1>1, <1>2

\* Nothing that happens makes up for an excuse.
LEMMA ExcusedStays == TypeOK /\ [Next]_vars /\ Excused => Excused'
<1> SUFFICES ASSUME TypeOK, [Next]_vars, Excused PROVE Excused'
  OBVIOUS
<1>1. opt' = opt
  BY OptionStays
<1>2. ForwardEncrypt' = ForwardEncrypt
  BY <1>1, Frame
<1>3. (early => early') /\ (slip # "no" => slip' # "no")
  <2>1. CASE FirstLogFails
    BY <2>1, FirstLogFacts, Zenon
  <2>2. CASE copy_data \/ ShortWrite
    BY <2>2 DEF copy_data, ShortWrite
  <2>3. CASE Kill \/ PowerFail
    BY <2>3 DEF Kill, PowerFail, Crashed
  <2>4. CASE Interrupt \/ ReadFails \/ WriteFails \/ LogFails \/ SyncFails \/ copy_done
    BY <2>4 DEF Interrupt, ReadFails, Stop, WriteFails, LogFails, SyncFails, copy_done
  <2>5. CASE Start \/ Passphrase \/ backup_luks_headers \/ backup_fake_header \/ create_new_header
             \/ device_check \/ Activate \/ copy_block \/ log_block \/ sync_block
    BY <2>5 DEF Start, Passphrase, backup_luks_headers, backup_fake_header, create_new_header, device_check,
         Activate, copy_block, log_block, sync_block, world
  <2>6. CASE Restore \/ Finish \/ destroy_context \/ unlink_headers \/ Done \/ Terminated \/ UNCHANGED vars
    BY <2>6 DEF Restore, Finish, destroy_context, unlink_headers, Done, Terminated, vars, world
  <2> QED BY <2>1, <2>2, <2>3, <2>4, <2>5, <2>6 DEF Next, Tool, Fault
<1> QED BY <1>1, <1>2, <1>3 DEF Excused, Excepted

\* Every step keeps RunInv.
LEMMA RunNext == TypeOK /\ RunInv /\ [Next]_vars => RunInv'
<1> SUFFICES ASSUME TypeOK, RunInv, [Next]_vars PROVE RunInv'
  OBVIOUS
<1>1. CASE Excused
  BY <1>1, ExcusedStays DEF RunInv
<1>2. CASE ~Excused
  <2>0. /\ ~ForwardEncrypt /\ ~opt.keep /\ slip = "no"
        /\ Fresh \/ (Copying /\ DataInv) \/ (Ended /\ DataInv)
    BY <1>2 DEF RunInv, Excused, Excepted
  <2>1. CASE Start
    BY <2>0, <2>1, RunStart DEF RunInv
  <2>2. CASE Passphrase \/ backup_luks_headers \/ backup_fake_header \/ create_new_header \/ device_check \/ Activate
    BY <2>0, <2>2, RunPrepare DEF RunInv
  <2>3. CASE copy_data
    BY <2>0, <2>3, RunCopyData DEF RunInv
  <2>4. CASE copy_block
    BY <2>0, <2>4, RunCopyBlock DEF RunInv
  <2>5. CASE log_block \/ sync_block
    BY <2>0, <2>5, RunLogSync DEF RunInv
  <2>6. CASE copy_done \/ Interrupt \/ ReadFails \/ LogFails \/ SyncFails
    BY <2>0, <2>6, RunLoopEnds DEF RunInv
  <2>11. CASE WriteFails \/ ShortWrite
    BY <2>0, <2>11, RunSpoil DEF RunInv, Excused, Excepted
  <2>12. CASE FirstLogFails
    BY <2>0, <2>12, RunFirstLogFails DEF RunInv, Excused, Excepted
  <2>7. CASE Restore \/ Finish
    BY <2>0, <2>7, RunRestore DEF RunInv
  <2>8. CASE destroy_context \/ unlink_headers \/ Done
    BY <2>0, <2>8, RunDestroy DEF RunInv
  <2>9. CASE Kill \/ PowerFail
    BY <2>0, <2>9, RunKilled DEF RunInv, Excused, Excepted
  <2>10. CASE Terminated \/ UNCHANGED vars
    <3>1. UNCHANGED vars
      BY <2>10 DEF Terminated
    <3>2. /\ opt' = opt /\ phys' = phys /\ dirty' = dirty /\ hdr' = hdr /\ log' = log /\ files' = files
          /\ rc' = rc /\ pc' = pc /\ crashes' = crashes /\ errors' = errors
      BY <3>1 DEF vars
    <3>3. Geo' = Geo /\ Dir' = Dir /\ OffOld' = OffOld /\ OffNew' = OffNew /\ KeyOld' = KeyOld /\ KeyNew' = KeyNew
          /\ Mishaps' = Mishaps /\ Logged' = Logged
      BY <3>2, Frame, MishapsStay
    <3>4. Front' = Front
      BY <3>2, <3>3 DEF Front
    <3>5. DataInv => DataInv'
      BY <3>2, <3>3, <3>4 DEF DataInv
    <3>6. Fresh => Fresh'
      BY <3>2, <3>3 DEF Fresh, Untouched
    <3>7. Copying => Copying'
      BY <3>2, <3>3, <3>4 DEF Copying
    <3>8. Ended => Ended'
      BY <3>2, <3>3 DEF Ended
    <3> QED BY <2>0, <3>5, <3>6, <3>7, <3>8 DEF RunInv
  <2> QED
    BY <2>1, <2>2, <2>3, <2>4, <2>5, <2>6, <2>7, <2>8, <2>9, <2>10, <2>11, <2>12
       DEF Next, Tool, Fault
<1> QED BY <1>1, <1>2

\* No block has been touched at the start.
LEMMA RunInit == Init => KeepInv /\ (opt.keep \/ Fresh)
<1> SUFFICES ASSUME Init PROVE KeepInv /\ (opt.keep \/ Fresh)
  OBVIOUS
<1>0. /\ opt \in Options /\ opt.mode \in Modes /\ opt.keep \in BOOLEAN /\ IsGeo(Geo) /\ Blocks \in 0..Size
      /\ Size \in Nat /\ H \in Nat /\ (opt.keep => opt.mode = "REENCRYPT")
  BY OptionFacts, GeoFacts DEF Init
<1>1. ASSUME NEW b \in All(Geo)
      PROVE  /\ phys[OffOld + b] = Cell(b, KeyOld)
             /\ ~opt.keep => phys[OffNew + b] # Cell(b, KeyNew)
  <2>1. /\ b \in Nat /\ b < Size /\ OffOld \in Nat /\ OffNew \in Nat
        /\ OffOld + b \in Positions /\ OffNew + b \in Positions
    BY <1>0, GeoFields DEF All, IsGeo
  <2>2. \A x \in Positions : phys[x] = IF x >= OffOld /\ x < OffOld + Size THEN Cell(x - OffOld, KeyOld) ELSE Garbage
    BY DEF Init
  <2>3. phys[OffOld + b] = Cell(b, KeyOld)
    BY <1>0, <2>1, <2>2
  <2>4. ~opt.keep => KeyNew # KeyOld
    BY <1>0, KeyFacts DEF Modes
  <2>5. ~opt.keep => phys[OffNew + b] # Cell(b, KeyNew)
    <3>1. phys[OffNew + b] = Garbage \/ phys[OffNew + b].key = KeyOld
      <4>1. PICK x \in Positions : x = OffNew + b
        BY <2>1
      <4>2. CASE x >= OffOld /\ x < OffOld + Size
        <5>1. phys[x] = Cell(x - OffOld, KeyOld)
          BY <2>2, <4>2
        <5>2. Cell(x - OffOld, KeyOld).key = KeyOld
          BY DEF Cell
        <5> QED BY <4>1, <5>1, <5>2
      <4>3. CASE ~(x >= OffOld /\ x < OffOld + Size)
        BY <2>2, <4>1, <4>3
      <4> QED BY <4>2, <4>3
    <3>2. Cell(b, KeyNew).key = KeyNew /\ Cell(b, KeyNew).blk = b /\ Garbage.blk = Size
      BY DEF Cell, Garbage
    <3>3. b # Size
      BY <1>0, <2>1
    <3> QED BY <2>4, <3>1, <3>2, <3>3
  <2> QED BY <2>3, <2>5
<1>2. KeepInv
  BY <1>0, <1>1 DEF KeepInv, Init, Loop
<1>3. ~opt.keep => Fresh
  BY <1>0, <1>1 DEF Fresh, Untouched, Init, EarlyPhases, Modes
<1> QED BY <1>2, <1>3

-----------------------------------------------------------------------------
(* The theorems *)

\* The inductive invariant: where the run is, and with it where every block is
\* (the whole of reencrypt_luks1, with crashes anywhere and any number of runs).
THEOREM ToolInvariant == Spec => []ToolInv
<1>1. Init => ToolInv
  BY TypeInit, RunInit DEF ToolInv, RunInv, Excused
<1>2. ToolInv /\ [Next]_vars => ToolInv'
  BY TypeNext, KeepNext, RunNext DEF ToolInv
<1> QED BY <1>1, <1>2, PTL DEF Spec

\* The offset never leaves the device, in the context and in the log, whichever
\* run wrote it (initialize_context, parse_line_log, copy_data).
THEOREM OffsetsInRange == Spec => []TypeOK
<1>1. ToolInv => TypeOK
  BY DEF ToolInv
<1> QED BY <1>1, ToolInvariant, PTL

\* A copy that has come to its end has stored every block, but for one per
\* crash or error.
LEMMA CopiedAtEnd ==
  ASSUME TypeOK, DataInv, Front = End(Geo)
  PROVE  CopiedButFor(Mishaps)
<1> DEFINE S == {b \in 0..(Blocks - 1) : phys[OffNew + b] # Cell(b, KeyNew)}
<1>0. IsGeo(Geo) /\ Mishaps \in Nat /\ Logged \in BOOLEAN
  BY TypeFacts, OptionFacts, GeoFacts
<1> SUFFICES ASSUME Logged PROVE Cardinality(S) <= Mishaps
  BY <1>0 DEF CopiedButFor
<1>1. S \in SUBSET All(Geo)
  BY GeoFields DEF All
<1>2. PICK last : Data(Geo, phys, dirty, End(Geo), Mishaps, last)
  BY DEF DataInv
<1>3. \A b \in S : Past(Geo, b, End(Geo)) /\ phys[Geo.new + b] # Cell(b, Geo.knew)
  BY <1>0, <1>1, GeoFields DEF All, Past, End, IsGeo
<1> QED
  BY <1>0, <1>1, <1>2, <1>3, DataBounds

\* Where the tool has ended the offset is at the end.
LEMMA EndedAtEnd == Ended => Front = End(Geo)
BY DEF Ended, Front, Loop

\* With --keep-key the new header finds the data where the old one did.
LEMMA KeepFacts ==
  ASSUME TypeOK, KeepInv, opt.keep
  PROVE  \A b \in 0..(Blocks - 1) :
            phys[OffOld + b] = Cell(b, KeyOld) /\ phys[OffNew + b] = Cell(b, KeyNew)
<1>1. opt.mode = "REENCRYPT" /\ opt.shift = 0 /\ H \in Nat
  BY TypeFacts, OptionFacts, GeoFacts
<1>2. OffNew = OffOld /\ KeyNew = KeyOld
  BY <1>1, TypeFacts, OffNewFacts, KeyFacts DEF OffOld
<1>3. \A b \in 0..(Blocks - 1) : phys[OffOld + b] = Cell(b, KeyOld)
  BY GeoFields DEF KeepInv, All
<1> QED BY <1>2, <1>3

\* With --write-log a crash costs at most one block, however often the tool is
\* killed and run again, and so does an I/O error at whatever point of a block or
\* of the log; signals and failing reads cost nothing (copy_data_forward,
\* copy_data_backward, write_log, destroy_context).  Excepted are the three cases
\* of Excepted, a short write of the forward copy among them.
THEOREM CrashCostsABlock == Spec => []LossBounded
<1>1. ToolInv => LossBounded
  <2> SUFFICES ASSUME ToolInv, ~Excepted, Logged
               PROVE  Cardinality(Lost) <= Mishaps
    BY DEF LossBounded
  <2>0. /\ TypeOK /\ KeepInv /\ IsGeo(Geo) /\ Mishaps \in Nat /\ opt.mode \in Modes
        /\ hdr \in {"luks", "nomagic", "new", "none"}
    BY TypeFacts, OptionFacts, GeoFacts DEF ToolInv, TypeOK
  <2>1. Lost = {} => Cardinality(Lost) <= Mishaps
    BY <2>0, FS_EmptySet
  <2>2. CASE opt.keep
    <3>1. \A b \in 0..(Blocks - 1) : Readable(b)
      BY <2>0, <2>2, KeepFacts DEF Readable, OldHeader, NewHeader, KeepInv
    <3> QED BY <2>1, <3>1 DEF Lost
  <2>3. CASE Fresh
    <3>1. OldHeader
      BY <2>3 DEF Fresh, OldHeader
    <3>2. \A b \in 0..(Blocks - 1) : phys[OffOld + b] = Cell(b, KeyOld)
      BY <2>3, GeoFields DEF Fresh, Untouched, All
    <3> QED BY <2>1, <3>1, <3>2 DEF Lost, Readable
  <2>4. CASE (Copying \/ Ended) /\ DataInv
    <3>1. Lost \in SUBSET All(Geo)
      BY GeoFields DEF Lost, All
    <3>2. PICK last : Data(Geo, phys, dirty, Front, Mishaps, last)
      BY <2>4 DEF DataInv
    <3>3. NewHeader /\ (OldHeader \/ Front = End(Geo))
      BY <2>4, EndedAtEnd DEF Copying, Ended, NewHeader, OldHeader, Modes
    <3>4. \A b \in All(Geo) : Past(Geo, b, End(Geo))
      BY <2>0 DEF All, Past, End, IsGeo
    <3>5. ASSUME NEW b \in Lost
          PROVE  IF Past(Geo, b, Front) THEN phys[Geo.new + b] # Cell(b, Geo.knew)
                                        ELSE phys[Geo.old + b] # Cell(b, Geo.kold)
      <4>1. ~Readable(b)
        BY DEF Lost
      <4>2. phys[OffNew + b] # Cell(b, KeyNew) /\ (OldHeader => phys[OffOld + b] # Cell(b, KeyOld))
        BY <3>3, <4>1 DEF Readable
      <4> QED BY <3>1, <3>3, <3>4, <4>2, GeoFields
    <3> QED BY <2>0, <3>1, <3>2, <3>5, DataBounds
  <2> QED BY <2>2, <2>3, <2>4 DEF ToolInv, RunInv, Excused
<1> QED BY <1>1, ToolInvariant, PTL

\* While the device holds data of both keys its header cannot be activated, and
\* once it can be again the copy is complete (device_check, restore_luks_header).
THEOREM MixedDeviceIsMarked == Spec => []MixedIsUnusable
<1>1. ToolInv => MixedIsUnusable
  <2> SUFFICES ASSUME ToolInv, ~Excepted, opt.mode # "ENCRYPT", ~opt.keep
               PROVE  MixedIsUnusable
    BY DEF MixedIsUnusable
  <2>0. TypeOK /\ opt.mode \in Modes
    BY TypeFacts, OptionFacts DEF ToolInv
  <2>1. CASE Fresh
    <3>1. \A b \in 0..(Blocks - 1) : phys[OffNew + b] # Cell(b, KeyNew)
      BY <2>1, GeoFields DEF Fresh, Untouched, All
    <3> QED BY <3>1 DEF MixedIsUnusable
  <2>2. CASE (Copying \/ Ended) /\ DataInv
    <3>1. CASE hdr = "new"
      <4>1. Logged => Front = End(Geo)
        BY <2>2, <3>1, EndedAtEnd DEF Copying
      <4>2. CopiedButFor(Mishaps)
        BY <2>0, <2>2, <4>1, CopiedAtEnd DEF CopiedButFor
      <4> QED BY <3>1, <4>2 DEF MixedIsUnusable
    <3>2. CASE hdr # "new"
      <4>1. hdr \in {"nomagic", "none"} /\ (log # << >> \/ pc \in {"unlink", "done"})
        BY <2>0, <2>2, <3>2 DEF Copying, Ended, Modes
      <4> QED BY <4>1 DEF MixedIsUnusable
    <3> QED BY <3>1, <3>2
  <2> QED BY <2>1, <2>2 DEF ToolInv, RunInv, Excused
<1> QED BY <1>1, ToolInvariant, PTL

\* A run that nothing killed leaves no file behind: once the new header is
\* written, destroy_context follows and unlinks all three.
CleanInv ==
  crashes = 0 /\ ~early =>
    /\ pc \in {"copy"} \cup Loop => rc.mode = opt.mode
    /\ pc = "restore" \/ hdr = "new" => opt.mode # "DECRYPT"
    /\ hdr = "new" => pc \in {"destroy", "unlink", "done"} /\ (pc = "destroy" => ~rc.stained)
    /\ pc \in {"unlink", "done"} => log = << >>
    /\ pc = "done" => files = {}

LEMMA CleanNext == ToolInv /\ CleanInv /\ [Next]_vars => CleanInv'
<1> SUFFICES ASSUME ToolInv, CleanInv, [Next]_vars, crashes' = 0, ~early' PROVE CleanInv'
  BY DEF CleanInv
<1> USE DEF CleanInv, device, world
<1>0. rc \in Contexts /\ crashes \in Nat /\ opt \in Options /\ (opt.keep => opt.mode = "REENCRYPT")
  BY TypeFacts, OptionFacts DEF ToolInv
<1>1. CASE Start \/ Passphrase \/ backup_luks_headers \/ backup_fake_header \/ create_new_header
  BY <1>1 DEF Start, Passphrase, backup_luks_headers, backup_fake_header, create_new_header, Fail, Loop
<1>8. CASE Activate
  BY <1>0, <1>8 DEF Activate, activate_luks_headers, Fail, Loop
<1>2. CASE device_check
  BY <1>2 DEF device_check, Fail, MAKE_UNUSABLE, Loop
<1>3. CASE copy_data
  <2>1. rc'.mode = rc.mode
    BY <1>0, <1>3 DEF copy_data, Contexts
  <2> QED BY <1>3, <2>1 DEF copy_data, Loop
<1>9. CASE copy_block \/ ShortWrite
  <2>1. rc'.mode = rc.mode
    BY <1>0, <1>9 DEF copy_block, ShortWrite, Contexts
  <2> QED BY <1>9, <2>1 DEF copy_block, ShortWrite, HeaderAfter, Loop
<1>10. CASE WriteFails
  BY <1>10 DEF WriteFails, HeaderAfter, Fail, Loop
<1>11. CASE FirstLogFails
  <2>1. pc = "copy" /\ pc' = "destroy" /\ UNCHANGED <<opt, hdr, files, crashes>> /\ ~early
    BY <1>11, FirstLogFacts
  <2> QED BY <2>1 DEF Loop
<1>12. CASE log_block \/ sync_block \/ copy_done
  BY <1>12 DEF log_block, sync_block, copy_done, Loop
<1>13. CASE Interrupt \/ ReadFails \/ LogFails \/ SyncFails
  BY <1>13 DEF Interrupt, ReadFails, LogFails, SyncFails, Stop, Fail, Loop
<1>4. CASE Restore \/ Finish
  <2>1. \A c \in Contexts : ~[c EXCEPT !.stained = FALSE].stained
    BY DEF Contexts
  <2> QED BY <1>0, <1>4, <2>1 DEF Restore, Finish, Fail, Loop
<1>5. CASE destroy_context \/ unlink_headers \/ Done
  <2>1. crashes = 0 /\ ~early
    BY <1>5 DEF destroy_context, unlink_headers, Done
  <2>2. hdr = "new" => Finished
    BY <2>1 DEF Finished
  <2> QED BY <1>5, <2>1, <2>2 DEF destroy_context, unlink_headers, Done, KeepsFiles, Loop
<1>6. CASE Kill \/ PowerFail
  <2>1. crashes' = crashes + 1
    BY <1>6 DEF Kill, PowerFail, Crashed
  <2> QED BY <1>0, <2>1
<1>7. CASE Terminated \/ UNCHANGED vars
  BY <1>7 DEF Terminated, vars, Loop
<1> QED
  BY <1>1, <1>2, <1>3, <1>4, <1>5, <1>6, <1>7, <1>8, <1>9, <1>10, <1>11, <1>12, <1>13 DEF Next, Tool, Fault

\* When the tool has ended well every block, but for one per crash or error, is
\* stored with the new key where the new header looks for it, and without a crash
\* no file is left (copy_done, restore_luks_header, destroy_context).
THEOREM EndedIsComplete == Spec => []FinishedIsNew
<1>1. Init => CleanInv
  BY DEF Init, CleanInv, Loop
<1>2. ToolInv /\ CleanInv => FinishedIsNew
  <2> SUFFICES ASSUME ToolInv, CleanInv, pc = "done"
               PROVE  /\ Excepted \/ CopiedButFor(Mishaps)
                      /\ crashes = 0 /\ ~early => (log = << >> /\ files = {})
    BY DEF FinishedIsNew
  <2>0. TypeOK /\ KeepInv /\ Mishaps \in Nat
    BY TypeFacts DEF ToolInv
  <2>1. CASE opt.keep
    <3>1. {b \in 0..(Blocks - 1) : phys[OffNew + b] # Cell(b, KeyNew)} = {}
      BY <2>0, <2>1, KeepFacts
    <3>2. CopiedButFor(Mishaps)
      <4>1. Cardinality({}) = 0
        BY FS_EmptySet
      <4>2. Cardinality({b \in 0..(Blocks - 1) : phys[OffNew + b] # Cell(b, KeyNew)}) = 0
        BY <3>1, <4>1, Zenon
      <4>3. Cardinality({b \in 0..(Blocks - 1) : phys[OffNew + b] # Cell(b, KeyNew)}) <= Mishaps
        BY <2>0, <4>2
      <4> QED BY <4>3 DEF CopiedButFor
    <3> QED BY <3>2 DEF CleanInv
  <2>2. CASE ~Excused
    <3>1. Ended /\ DataInv
      BY <2>2 DEF ToolInv, RunInv, Excused, Fresh, Copying, EarlyPhases, Loop
    <3> QED BY <2>0, <3>1, EndedAtEnd, CopiedAtEnd DEF CleanInv
  <2> QED BY <2>1, <2>2 DEF CleanInv, Excused
<1> QED BY <1>1, <1>2, ToolInvariant, CleanNext, PTL DEF Spec

==============================================================================
