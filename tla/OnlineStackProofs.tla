-------------------------- MODULE OnlineStackProofs --------------------------
(***************************************************************************)
(* The two safety properties of OnlineStack for every value of its         *)
(* constants: whatever the user of a mapping reaches during an online      *)
(* reencryption is under the right key (NoBioPasses), and no close takes   *)
(* the helpers from a run (CloseIsRefused).  OnlineInv is the inductive    *)
(* invariant: who holds the lock, which tables the three devices have,     *)
(* where a bio is, and what the header, the data and a run know of each    *)
(* other.                                                                  *)
(***************************************************************************)
EXTENDS OnlineStack, TLAPS

ConvertPcs == {"read", "protect", "write", "commit"}
OnlinePcs == {"stack1", "stack2", "stack3", "stack4", "undo1", "undo2", "oload", "osusp", "hsusp", "ores", "hres",
              "tload", "tres", "trmo", "trmh"}
LockPcs == OnlinePcs \cup ConvertPcs \cup {"rloop", "tend"}
StackPcs == {"stack1", "stack2", "stack3", "stack4"}
ClosePcs == {"cerr", "crm", "crmo", "crmh"}
Maps == {"direct", "hot", "map"}

\* A run of crypt_reencrypt_run is under way in process p.
Runs(p) == proc[p].pc \in LockPcs

\* One process has the reencryption lock and a run has it; a run of an inactive
\* device has the data device to itself, one of an active mapping does not.
LockInv ==
  /\ \A p, q \in lock : p = q
  /\ \A p \in Procs : Runs(p) => p \in lock
  /\ \A p \in Procs : proc[p].pc \in OnlinePcs => proc[p].online
  /\ \A p \in Procs : Runs(p) => (p \in excl <=> ~proc[p].online)
  /\ \A p \in excl : Runs(p)
  /\ excl # {} => \A d \in Devices : dm[d].live.t \notin Maps /\ dm[d].inactive.t \notin Maps

\* Which tables a device can have, and that a hotzone below a table exists.
ShapeInv ==
  /\ dm["name"].live.t \in {"none", "direct", "linear"} /\ ~dm["name"].susp
  /\ dm["name"].inactive.t \in {"none", "direct", "linear"}
  /\ dm["overlay"].live.t \in {"none", "direct", "hot", "error"} /\ dm["overlay"].inactive.t \in {"none", "hot"}
  /\ dm["hotzone"].live.t \in {"none", "map", "error"} /\ dm["hotzone"].inactive = NoTab
  /\ dm["overlay"].live.t = "hot" \/ dm["overlay"].inactive.t = "hot" => Exists("hotzone")

\* Where a bio can be.
BioInv ==
  /\ users => Exists("name")
  /\ bio # NoBio => users /\ bio.i \in 1..N /\ bio.at \in Devices
  /\ bio.at \in {"overlay", "hotzone"} => "name" \in bio.through /\ dm["name"].live.t = "linear"
  /\ bio.at = "hotzone" => "overlay" \in bio.through /\ bio.key = "new"

HdrInv ==
  /\ hdr.state = "none" => hdr.done = 0
  /\ hdr.state = "done" => hdr.done = N
  /\ hdr.state = "hot" => hdr.done < N

\* The hotzone lets nothing through.
Blocked == dm["hotzone"].susp \/ dm["hotzone"].live.t # "map"
Dead(d) == dm[d].live.t \in {"none", "error"}

\* What is on the data device is what the header says, but for the chunk under
\* conversion, which the journal has; and every table that lets I/O through
\* agrees with the header.
StoreInv ==
  stale \/
    /\ \A i \in 1..N : disk[i] = [key |-> KeyOf(hdr.done, i), val |-> last[i]] \/ (hdr.state = "hot" /\ i = hdr.done + 1)
    /\ hdr.state = "hot" => hdr.saved = last[hdr.done + 1]
    /\ dm["name"].live.t = "direct" => dm["name"].live.k = hdr.done /\ hdr.state # "hot"
    /\ dm["overlay"].live.t = "direct" => dm["overlay"].live.k = hdr.done /\ hdr.state # "hot"
    /\ dm["overlay"].live.t = "hot" =>
         \/ dm["overlay"].live.k + 1 = hdr.done /\ hdr.state # "hot"
         \/ dm["overlay"].live.k = hdr.done /\ Blocked
    /\ bio.at = "hotzone" => Blocked \/ (bio.i = hdr.done /\ hdr.state # "hot")

\* What a run knows of the header.
HdrAt(p) ==
  /\ proc[p].k = hdr.done
  /\ proc[p].pc \in {"write", "commit"} => hdr.state = "hot"
  /\ proc[p].pc \notin {"write", "commit"} => hdr.state = "clean"
  /\ proc[p].pc \in ConvertPcs \cup {"oload", "osusp", "hsusp", "ores"} => hdr.done < N
  /\ proc[p].pc = "write" => proc[p].buf = hdr.saved

\* How far an online run has got with the stack.
StepAt(p) ==
  /\ proc[p].pc \in StackPcs => dm["name"].live.t \in {"none", "direct"}
  /\ proc[p].pc \in {"osusp", "hsusp", "ores"} =>
       (Dead("overlay") /\ dm["overlay"].inactive = NoTab) \/ dm["overlay"].inactive = Tab("hot", proc[p].k)
  /\ proc[p].pc \in {"hsusp", "ores"} => Dead("overlay") \/ dm["overlay"].susp
  /\ proc[p].pc \in {"ores", "hres"} \cup ConvertPcs => Blocked
  /\ proc[p].pc = "ores" => bio.at # "hotzone"
  /\ proc[p].pc \in ConvertPcs =>
       /\ Dead("overlay") \/ dm["overlay"].live = Tab("hot", proc[p].k)
       /\ bio.at = "hotzone" => bio.i = proc[p].k + 1
  /\ proc[p].pc = "hres" =>
       /\ Dead("overlay") \/ (dm["overlay"].live.t = "hot" /\ dm["overlay"].live.k + 1 = proc[p].k)
       /\ bio.at = "hotzone" => bio.i = proc[p].k

\* Nobody reloads name under an online run.
FirmAt(p) ==
  (stale /\ Detached) \/
    /\ proc[p].pc = "stack4" => ~Exists("name") \/ dm["name"].inactive.t = "linear"
    /\ proc[p].pc \in RunPcs => dm["name"].live.t \in {"none", "linear"}

\* Nobody takes the helpers from an online run.
WaitAt(p) ==
  Detached \/
    /\ proc[p].pc \in RunPcs \cup {"stack2", "stack3", "stack4"} => dm["hotzone"].live.t = "map"
    /\ proc[p].pc \in {"stack3", "stack4"} => dm["overlay"].live.t = "direct"
    /\ proc[p].pc \in RunPcs => dm["overlay"].live.t \in {"direct", "hot"}

\* What a run has of the chunk under conversion, and of name at the end.
DataAt(p) ==
  stale \/
    /\ proc[p].pc = "protect" => proc[p].buf = last[proc[p].k + 1]
    /\ proc[p].pc = "commit" => disk[proc[p].k + 1] = [key |-> "new", val |-> last[proc[p].k + 1]]
    /\ proc[p].pc \in {"tload", "tres"} => dm["name"].live.t \in {"none", "linear"}
    /\ proc[p].pc = "tres" => ~Exists("name") \/ dm["name"].inactive = Tab("direct", proc[p].k)

CallAt(p) == HdrAt(p) /\ DataAt(p) /\ (proc[p].online => StepAt(p) /\ FirmAt(p) /\ WaitAt(p))
CallInv == \A p \in Procs : Runs(p) => CallAt(p)

\* A close that found a helper below name holds the reencryption lock.
CloseInv == Detached \/ \A p \in Procs : proc[p].pc \in ClosePcs /\ proc[p].deps # {} => p \in lock

OnlineInv == TypeOK /\ LockInv /\ ShapeInv /\ BioInv /\ HdrInv /\ StoreInv /\ CallInv /\ CloseInv

-----------------------------------------------------------------------------
\* Facts about tables and devices.
LEMMA TabFacts ==
  /\ N \in Nat /\ NoTab \in Tabs /\ NoTab.t = "none" /\ NoDev \in Devs
  /\ NoDev.live = NoTab /\ NoDev.inactive = NoTab /\ NoDev.susp = FALSE
  /\ \A x \in Tabs : x.t = "none" <=> x = NoTab
  /\ \A k \in 0..N : Tab("direct", k) \in Tabs /\ Tab("hot", k) \in Tabs
  /\ Tab("linear", 0) \in Tabs /\ Tab("map", 0) \in Tabs /\ Tab("error", 0) \in Tabs
  /\ \A t, k : Tab(t, k).t = t /\ Tab(t, k).k = k
BY OnlineConstants DEF Tabs, NoTab, Tab, NoDev, Devs

\* Facts about a process that does nothing.
LEMMA CallFacts == Idle \in Calls /\ Idle.pc = "idle" /\ Idle.deps = {} /\ ~Idle.online
BY OnlineConstants DEF Idle, Calls, Pcs, States, Devices

Same(p) == \A q \in Procs \ {p} : proc'[q] = proc[q]

\* A process ends: it gives back its locks.
LEMMA EndEffect ==
  ASSUME TypeOK, NEW p \in Procs, End(p)
  PROVE  /\ proc' \in [Procs -> Calls] /\ Same(p) /\ proc'[p] = Idle
         /\ lock' = lock \ {p} /\ excl' = excl \ {p} /\ lock' \subseteq Procs /\ excl' \subseteq Procs
BY CallFacts DEF TypeOK, End, Same

\* A process goes on to its next step.
LEMMA StepEffect ==
  ASSUME TypeOK, NEW p \in Procs, NEW s \in Pcs, Step(p, s)
  PROVE  /\ proc' \in [Procs -> Calls] /\ Same(p) /\ proc'[p].pc = s
         /\ proc'[p].online = proc[p].online /\ proc'[p].k = proc[p].k /\ proc'[p].buf = proc[p].buf
         /\ proc'[p].deps = proc[p].deps /\ proc'[p].seen = proc[p].seen
BY DEF TypeOK, Step, Same, Calls

\* What an operation of the device-mapper does to its device.
DmMap == [Devices -> Devs]
Only(d) == dm' \in DmMap /\ \A e \in Devices \ {d} : dm'[e] = dm[e]

\* Loading a table into a device leaves its live one alone.
LEMMA LoadEffect ==
  ASSUME TypeOK, NEW d \in Devices, NEW x \in Tabs, dm' = Loaded(d, x)
  PROVE  Only(d) /\ dm'[d].live = dm[d].live /\ dm'[d].inactive = x /\ dm'[d].susp = dm[d].susp
BY DEF TypeOK, Loaded, Only, DmMap, Devs

\* Suspending a device leaves its tables alone.
LEMMA SuspendEffect ==
  ASSUME TypeOK, NEW d \in Devices, dm' = Suspended(d)
  PROVE  Only(d) /\ dm'[d].live = dm[d].live /\ dm'[d].inactive = dm[d].inactive /\ dm'[d].susp
BY DEF TypeOK, Suspended, Only, DmMap, Devs

\* Resuming a device makes the loaded table live.
LEMMA ResumeEffect ==
  ASSUME TypeOK, NEW d \in Devices, dm' = Resumed(d)
  PROVE  /\ Only(d) /\ dm'[d].inactive = NoTab /\ ~dm'[d].susp
         /\ dm'[d].live = IF dm[d].inactive = NoTab THEN dm[d].live ELSE dm[d].inactive
<1> DEFINE l == IF dm[d].inactive = NoTab THEN dm[d].live ELSE dm[d].inactive
<1>1. l \in Tabs /\ NoTab \in Tabs
  BY TabFacts DEF TypeOK, Devs
<1>2. dm' = [dm EXCEPT ![d] = [live |-> l, inactive |-> NoTab, susp |-> FALSE]]
  BY DEF Resumed
<1> HIDE DEF l
<1>3. Only(d) /\ dm'[d] = [live |-> l, inactive |-> NoTab, susp |-> FALSE]
  BY <1>1, <1>2 DEF TypeOK, Only, DmMap, Devs
<1>4. QED BY <1>3 DEF l

\* A device is made, or made anew, with a live table.
LEMMA NewEffect ==
  ASSUME TypeOK, NEW d \in Devices, NEW x \in Tabs, dm' = [dm EXCEPT ![d] = [NoDev EXCEPT !.live = x]]
  PROVE  Only(d) /\ dm'[d].inactive = NoTab /\ ~dm'[d].susp /\ dm'[d].live = x
<1> DEFINE r == [NoDev EXCEPT !.live = x]
<1>1. r \in Devs /\ r.live = x /\ r.inactive = NoTab /\ r.susp = FALSE
  BY TabFacts DEF Devs
<1> HIDE DEF r
<1>2. dm' = [dm EXCEPT ![d] = r]
  BY DEF r
<1>3. QED BY <1>1, <1>2 DEF TypeOK, Only, DmMap

\* A device is turned into an error.
LEMMA ErrorEffect ==
  ASSUME TypeOK, NEW d \in Devices, dm' = Errored(d)
  PROVE  Only(d) /\ dm'[d].inactive = NoTab /\ ~dm'[d].susp /\ dm'[d].live = Tab("error", 0)
BY TabFacts, NewEffect DEF Errored

\* A device goes, or stays if it is in use.
LEMMA RemoveEffect ==
  ASSUME TypeOK, NEW d \in Devices, dm' = Removed(d)
  PROVE  Only(d) /\ (dm'[d] = dm[d] \/ (CanRemove(d) /\ dm'[d] = NoDev))
BY TabFacts DEF TypeOK, Removed, Only, DmMap

\* What it takes to remove a device: nothing holds it open.
LEMMA RemoveGuard ==
  ASSUME TypeOK
  PROVE  /\ CanRemove("name") => ~users
         /\ CanRemove("overlay") => dm["name"].live.t # "linear" /\ dm["name"].inactive.t # "linear"
         /\ CanRemove("hotzone") => dm["overlay"].live.t # "hot" /\ dm["overlay"].inactive.t # "hot"
<1>1. DOMAIN dm = Devices
  BY DEF TypeOK
<1>2. ASSUME NEW x, x.t = "linear" PROVE "overlay" \in Below(x)
  BY <1>2 DEF Below
<1>3. ASSUME NEW x, x.t = "hot" PROVE "hotzone" \in Below(x)
  BY <1>3 DEF Below
<1>4. QED BY <1>1, <1>2, <1>3 DEF CanRemove, OpenedBy, Devices

\* There is one run at a time.
LEMMA OneRun ==
  ASSUME OnlineInv, NEW p \in Procs, Runs(p), NEW q \in Procs, Runs(q)
  PROVE  p = q
BY DEF OnlineInv, LockInv

\* Nobody runs while nobody has the lock.
LEMMA NoRun ==
  ASSUME OnlineInv, lock = {}, NEW p \in Procs
  PROVE  ~Runs(p)
BY DEF OnlineInv, LockInv

\* A step that leaves the header, the data, the devices and the user alone and
\* after which process p does not run keeps the invariant.
LEMMA FrameStep ==
  ASSUME OnlineInv, NEW p \in Procs, UNCHANGED <<stack, users, bio, stale>>,
         proc' \in [Procs -> Calls], Same(p), proc'[p].pc \notin LockPcs,
         lock' \subseteq Procs, lock' \ {p} = lock \ {p}, lock' \subseteq lock \/ lock = {},
         excl' = excl \ {p},
         Detached \/ proc'[p].pc \notin ClosePcs \/ proc'[p].deps = {} \/ p \in lock'
  PROVE  OnlineInv'
<1> USE DEF OnlineInv
<1>0. UNCHANGED <<hdr, disk, last, dm, users, bio, stale>>
  BY DEF stack
<1>1. TypeOK'
  BY <1>0 DEF TypeOK, Exists
<1>2. \A q \in Procs : Runs(q)' => q # p /\ Runs(q) /\ proc'[q] = proc[q] /\ q \in lock'
  BY DEF Runs, Same, LockInv
<1>3. LockInv'
  <2>1. \A a, b \in lock' : a = b
    BY DEF LockInv
  <2>2. \A q \in Procs : proc'[q].pc \in OnlinePcs => proc'[q].online
    BY DEF LockInv, Same, LockPcs
  <2>3. \A q \in excl' : Runs(q)'
    BY DEF LockInv, Runs, Same, TypeOK
  <2>4. excl # {} => \A d \in Devices : dm'[d].live.t \notin Maps /\ dm'[d].inactive.t \notin Maps
    BY <1>0 DEF LockInv
  <2>5. \A q \in Procs : Runs(q)' => (q \in excl' <=> ~proc'[q].online)
    BY <1>2 DEF LockInv
  <2>6. QED BY <1>2, <2>1, <2>2, <2>3, <2>4, <2>5 DEF LockInv
<1>4. ShapeInv' /\ BioInv' /\ HdrInv'
  BY <1>0 DEF ShapeInv, BioInv, HdrInv, Exists
<1>5. StoreInv'
  BY <1>0 DEF StoreInv, Blocked
<1>6. CallInv'
  BY <1>0, <1>2 DEF CallInv, CallAt, HdrAt, DataAt, StepAt, FirmAt, WaitAt, Blocked, Dead, Exists
<1>7. CloseInv'
  BY DEF CloseInv, Same
<1>8. QED BY <1>1, <1>3, <1>4, <1>5, <1>6, <1>7

\* So does a process that ends, whether it is done, fails or is killed.
LEMMA EndStep ==
  ASSUME OnlineInv, NEW p \in Procs, End(p), UNCHANGED <<stack, users, bio, stale>>
  PROVE  OnlineInv'
<1>1. TypeOK
  BY DEF OnlineInv
<1>2. /\ proc' \in [Procs -> Calls] /\ Same(p) /\ proc'[p] = Idle
      /\ lock' = lock \ {p} /\ excl' = excl \ {p} /\ lock' \subseteq Procs
  BY <1>1, EndEffect
<1>3. Idle.pc \notin LockPcs /\ Idle.deps = {}
  BY CallFacts DEF LockPcs, OnlinePcs, ConvertPcs
<1>4. QED BY <1>2, <1>3, FrameStep

\* A step of a run: what has to be shown of it.
LEMMA RunStep ==
  ASSUME OnlineInv, NEW p \in Procs, Runs(p), Runs(p)', Same(p), proc'[p].online = proc[p].online,
         proc'[p].pc \in OnlinePcs => proc[p].online, proc[p].online \/ UNCHANGED dm,
         UNCHANGED <<lock, excl>>,
         TypeOK', ShapeInv', BioInv', HdrInv', StoreInv', CallAt(p)'
  PROVE  OnlineInv'
<1> USE DEF OnlineInv
<1>1. \A q \in Procs : q # p => ~Runs(q) /\ ~Runs(q)'
  BY OneRun DEF Runs, Same
<1>2. LockInv'
  <2>1. \A q \in Procs : proc'[q].pc \in OnlinePcs => proc'[q].online
    BY DEF LockInv, Same
  <2>2. \A q \in Procs : Runs(q)' => q \in lock' /\ (q \in excl' <=> ~proc'[q].online)
    BY <1>1 DEF LockInv
  <2>3. \A q \in excl' : Runs(q)'
    BY <1>1 DEF LockInv, TypeOK
  <2>4. excl' # {} => \A d \in Devices : dm'[d].live.t \notin Maps /\ dm'[d].inactive.t \notin Maps
    BY <1>1 DEF LockInv, TypeOK
  <2>5. QED BY <2>1, <2>2, <2>3, <2>4 DEF LockInv
<1>3. CallInv'
  BY <1>1 DEF CallInv
<1>4. CloseInv'
  <2>1. proc'[p].pc \notin ClosePcs
    BY DEF Runs, LockPcs, OnlinePcs, ConvertPcs, ClosePcs
  <2>2. QED BY <2>1 DEF CloseInv, Same
<1>5. QED BY <1>2, <1>3, <1>4

\* A step of a run that changes nothing but the place it is at.
LEMMA PlaceStep ==
  ASSUME OnlineInv, NEW p \in Procs, Runs(p), NEW s \in LockPcs, Step(p, s),
         UNCHANGED <<stack, lock, excl, users, bio, stale>>,
         s \in OnlinePcs => proc[p].online,
         CallAt(p)'
  PROVE  OnlineInv'
<1> USE DEF OnlineInv
<1>0. UNCHANGED <<hdr, disk, last, dm, users, bio, stale>>
  BY DEF stack
<1>1. s \in Pcs
  BY DEF LockPcs, OnlinePcs, ConvertPcs, Pcs
<1>2. proc' \in [Procs -> Calls] /\ Same(p) /\ proc'[p].pc = s /\ proc'[p].online = proc[p].online
  BY <1>1, StepEffect
<1>3. TypeOK'
  BY <1>0, <1>2 DEF TypeOK, Exists
<1>4. ShapeInv' /\ BioInv' /\ HdrInv'
  BY <1>0 DEF ShapeInv, BioInv, HdrInv, Exists
<1>5. StoreInv'
  BY <1>0 DEF StoreInv, Blocked
<1>6. Runs(p)'
  BY <1>2 DEF Runs
<1>7. QED BY <1>0, <1>2, <1>3, <1>4, <1>5, <1>6, RunStep

\* A step of an online run that changes one device.
LEMMA DeviceStep ==
  ASSUME OnlineInv, NEW p \in Procs, Runs(p), proc[p].online, NEW s \in LockPcs, Step(p, s),
         NEW d \in Devices, Only(d), dm'[d].live = NoTab => dm'[d] = NoDev,
         UNCHANGED <<hdr, disk, last, lock, excl, users, bio, stale>>,
         ShapeInv', BioInv', StoreInv', CallAt(p)'
  PROVE  OnlineInv'
<1> USE DEF OnlineInv
<1>1. s \in Pcs
  BY DEF LockPcs, OnlinePcs, ConvertPcs, Pcs
<1>2. proc' \in [Procs -> Calls] /\ Same(p) /\ proc'[p].pc = s /\ proc'[p].online = proc[p].online
  BY <1>1, StepEffect
<1>3. TypeOK'
  BY <1>2 DEF TypeOK, Exists, Only, DmMap
<1>4. HdrInv'
  BY DEF HdrInv
<1>5. Runs(p)'
  BY <1>2 DEF Runs
<1>6. QED BY <1>2, <1>3, <1>4, <1>5, RunStep

\* A failed step of the run ends it and leaves the stack as it is.
LEMMA TeardownStep ==
  ASSUME OnlineInv, NEW p \in Procs, reencrypt_teardown(p)
  PROVE  OnlineInv'
BY EndStep DEF reencrypt_teardown, Quiet, user

\* The table with the chunk over the hotzone waits below the overlay's live one.
LEMMA OverlayLoaded ==
  ASSUME OnlineInv, NEW p \in Procs, reencrypt_load_overlay_device(p)
  PROVE  OnlineInv'
<1> USE DEF OnlineInv
<1>1. CASE reencrypt_teardown(p)
  BY <1>1, TeardownStep
<1>2. CASE /\ Exists("overlay") /\ Exists("hotzone") /\ dm' = Loaded("overlay", Tab("hot", proc[p].k))
           /\ Step(p, "osusp") /\ Quiet /\ UNCHANGED <<hdr, disk, last, locks>>
  <2> USE <1>2
  <2>0. UNCHANGED <<hdr, disk, last, lock, excl, users, bio, stale>>
    BY DEF Quiet, user, locks
  <2>1. proc[p].pc = "oload" /\ Runs(p) /\ proc[p].online /\ CallAt(p)
    BY DEF reencrypt_load_overlay_device, DmCall, Runs, CallInv, LockInv, LockPcs, OnlinePcs
  <2>2. /\ proc'[p].pc = "osusp" /\ proc'[p].online /\ proc'[p].k = proc[p].k /\ proc'[p].buf = proc[p].buf
        /\ "osusp" \in LockPcs
    BY <2>1, StepEffect DEF Pcs, LockPcs, OnlinePcs, ConvertPcs
  <2>3. "overlay" \in Devices /\ Only("overlay") /\ dm'["overlay"].live = dm["overlay"].live
        /\ dm'["overlay"].inactive = Tab("hot", proc[p].k) /\ dm'["overlay"].susp = dm["overlay"].susp
        /\ (dm'["overlay"].live = NoTab => dm'["overlay"] = NoDev)
    BY <2>1, TabFacts, LoadEffect DEF Devices, Exists, TypeOK, CallAt, HdrAt, StepAt, ShapeInv
  <2>4. ShapeInv'
    BY <2>1, <2>3, TabFacts DEF Only, ShapeInv, Exists, Devices
  <2>5. BioInv'
    BY <2>0, <2>1, <2>3, TabFacts DEF Only, BioInv, ShapeInv, Exists, Devices
  <2>6. StoreInv'
    BY <2>0, <2>3 DEF Only, StoreInv, Blocked, Devices
  <2>7. CallAt(p)'
    <3>1. HdrAt(p)'
      BY <2>0, <2>1, <2>2 DEF CallAt, HdrAt, ConvertPcs
    <3>2. DataAt(p)'
      BY <2>0, <2>1, <2>2 DEF CallAt, DataAt
    <3>3. StepAt(p)'
      BY <2>0, <2>1, <2>2, <2>3, TabFacts
      DEF Only, ShapeInv, BioInv, CallAt, HdrAt, StepAt, InFlight, Blocked, Dead, Exists, Devices, ConvertPcs, StackPcs
    <3>4. FirmAt(p)'
      BY <2>0, <2>1, <2>2, <2>3, TabFacts DEF Only, ShapeInv, CallAt, StepAt, FirmAt, Exists, Devices, StackPcs, RunPcs
    <3>5. WaitAt(p)'
      BY <2>0, <2>1, <2>2, <2>3, TabFacts DEF Only, CallAt, WaitAt, Devices, RunPcs
    <3>6. QED BY <3>1, <3>2, <3>3, <3>4, <3>5 DEF CallAt
  <2>8. QED BY <2>0, <2>1, <2>2, <2>3, <2>4, <2>5, <2>6, <2>7, DeviceStep
<1>3. QED BY <1>1, <1>2 DEF reencrypt_load_overlay_device, DmCall, Works

\* From here no bio enters the overlay.
LEMMA OverlaySuspended ==
  ASSUME OnlineInv, NEW p \in Procs, SuspendOverlay(p)
  PROVE  OnlineInv'
<1> USE DEF OnlineInv
<1>1. CASE reencrypt_teardown(p)
  BY <1>1, TeardownStep
<1>2. CASE /\ Exists("overlay") /\ dm' = Suspended("overlay")
           /\ Step(p, "hsusp") /\ Quiet /\ UNCHANGED <<hdr, disk, last, locks>>
  <2> USE <1>2
  <2>0. UNCHANGED <<hdr, disk, last, lock, excl, users, bio, stale>>
    BY DEF Quiet, user, locks
  <2>1. proc[p].pc = "osusp" /\ Runs(p) /\ proc[p].online /\ CallAt(p)
    BY DEF SuspendOverlay, DmCall, Runs, CallInv, LockInv, LockPcs, OnlinePcs
  <2>2. /\ proc'[p].pc = "hsusp" /\ proc'[p].online /\ proc'[p].k = proc[p].k /\ proc'[p].buf = proc[p].buf
        /\ "hsusp" \in LockPcs
    BY <2>1, StepEffect DEF Pcs, LockPcs, OnlinePcs, ConvertPcs
  <2>3. "overlay" \in Devices /\ Only("overlay") /\ dm'["overlay"].live = dm["overlay"].live
        /\ dm'["overlay"].inactive = dm["overlay"].inactive /\ dm'["overlay"].susp
        /\ (dm'["overlay"].live = NoTab => dm'["overlay"] = NoDev)
    BY <2>1, TabFacts, SuspendEffect DEF Devices, Exists, TypeOK, CallAt, HdrAt, StepAt, ShapeInv
  <2>4. ShapeInv'
    BY <2>1, <2>3, TabFacts DEF Only, ShapeInv, Exists, Devices
  <2>5. BioInv'
    BY <2>0, <2>1, <2>3, TabFacts DEF Only, BioInv, ShapeInv, Exists, Devices
  <2>6. StoreInv'
    BY <2>0, <2>3 DEF Only, StoreInv, Blocked, Devices
  <2>7. CallAt(p)'
    <3>1. HdrAt(p)'
      BY <2>0, <2>1, <2>2 DEF CallAt, HdrAt, ConvertPcs
    <3>2. DataAt(p)'
      BY <2>0, <2>1, <2>2 DEF CallAt, DataAt
    <3>3. StepAt(p)'
      BY <2>0, <2>1, <2>2, <2>3, TabFacts
      DEF Only, ShapeInv, BioInv, CallAt, HdrAt, StepAt, InFlight, Blocked, Dead, Exists, Devices, ConvertPcs, StackPcs
    <3>4. FirmAt(p)'
      BY <2>0, <2>1, <2>2, <2>3, TabFacts DEF Only, ShapeInv, CallAt, StepAt, FirmAt, Exists, Devices, StackPcs, RunPcs
    <3>5. WaitAt(p)'
      BY <2>0, <2>1, <2>2, <2>3, TabFacts DEF Only, CallAt, WaitAt, Devices, RunPcs
    <3>6. QED BY <3>1, <3>2, <3>3, <3>4, <3>5 DEF CallAt
  <2>8. QED BY <2>0, <2>1, <2>2, <2>3, <2>4, <2>5, <2>6, <2>7, DeviceStep
<1>3. QED BY <1>1, <1>2 DEF SuspendOverlay, DmCall, Works

\* All bios the overlay passed on are done: none is at the hotzone any more.
LEMMA HotzoneSuspended ==
  ASSUME OnlineInv, NEW p \in Procs, SuspendHotzone(p)
  PROVE  OnlineInv'
<1> USE DEF OnlineInv
<1>1. CASE reencrypt_teardown(p)
  BY <1>1, TeardownStep
<1>2. CASE /\ ~InFlight("overlay") /\ Exists("hotzone") /\ dm' = Suspended("hotzone")
           /\ Step(p, "ores") /\ Quiet /\ UNCHANGED <<hdr, disk, last, locks>>
  <2> USE <1>2
  <2>0. UNCHANGED <<hdr, disk, last, lock, excl, users, bio, stale>>
    BY DEF Quiet, user, locks
  <2>1. proc[p].pc = "hsusp" /\ Runs(p) /\ proc[p].online /\ CallAt(p)
    BY DEF SuspendHotzone, DmCall, Runs, CallInv, LockInv, LockPcs, OnlinePcs
  <2>2. /\ proc'[p].pc = "ores" /\ proc'[p].online /\ proc'[p].k = proc[p].k /\ proc'[p].buf = proc[p].buf
        /\ "ores" \in LockPcs
    BY <2>1, StepEffect DEF Pcs, LockPcs, OnlinePcs, ConvertPcs
  <2>3. "hotzone" \in Devices /\ Only("hotzone") /\ dm'["hotzone"].live = dm["hotzone"].live
        /\ dm'["hotzone"].inactive = dm["hotzone"].inactive /\ dm'["hotzone"].susp
        /\ (dm'["hotzone"].live = NoTab => dm'["hotzone"] = NoDev)
    BY <2>1, TabFacts, SuspendEffect DEF Devices, Exists, TypeOK, CallAt, HdrAt, StepAt, ShapeInv
  <2>4. ShapeInv'
    BY <2>1, <2>3, TabFacts DEF Only, ShapeInv, Exists, Devices
  <2>5. BioInv'
    BY <2>0, <2>1, <2>3, TabFacts DEF Only, BioInv, ShapeInv, Exists, Devices
  <2>6. StoreInv'
    BY <2>0, <2>1, <2>3, TabFacts
    DEF Only, StoreInv, ShapeInv, BioInv, CallAt, HdrAt, StepAt, Blocked, Dead, Exists, Devices, StackPcs, ConvertPcs
  <2>7. CallAt(p)'
    <3>1. HdrAt(p)'
      BY <2>0, <2>1, <2>2 DEF CallAt, HdrAt, ConvertPcs
    <3>2. DataAt(p)'
      BY <2>0, <2>1, <2>2 DEF CallAt, DataAt
    <3>3. StepAt(p)'
      BY <2>0, <2>1, <2>2, <2>3, TabFacts
      DEF Only, ShapeInv, BioInv, CallAt, HdrAt, StepAt, InFlight, Blocked, Dead, Exists, Devices, ConvertPcs, StackPcs
    <3>4. FirmAt(p)'
      BY <2>0, <2>1, <2>2, <2>3, TabFacts DEF Only, ShapeInv, CallAt, StepAt, FirmAt, Exists, Devices, StackPcs, RunPcs
    <3>5. WaitAt(p)'
      BY <2>0, <2>1, <2>2, <2>3, TabFacts DEF Only, CallAt, WaitAt, Devices, RunPcs
    <3>6. QED BY <3>1, <3>2, <3>3, <3>4, <3>5 DEF CallAt
  <2>8. QED BY <2>0, <2>1, <2>2, <2>3, <2>4, <2>5, <2>6, <2>7, DeviceStep
<1>3. QED BY <1>1, <1>2 DEF SuspendHotzone, DmCall, Works

\* The overlay comes back with the chunk over the suspended hotzone.
LEMMA OverlayResumed ==
  ASSUME OnlineInv, NEW p \in Procs, ResumeOverlay(p)
  PROVE  OnlineInv'
<1> USE DEF OnlineInv
<1>1. CASE reencrypt_teardown(p)
  BY <1>1, TeardownStep
<1>2. CASE /\ ~InFlight("hotzone") /\ Exists("overlay") /\ dm' = Resumed("overlay")
           /\ Step(p, "read") /\ Quiet /\ UNCHANGED <<hdr, disk, last, locks>>
  <2> USE <1>2
  <2>0. UNCHANGED <<hdr, disk, last, lock, excl, users, bio, stale>>
    BY DEF Quiet, user, locks
  <2>1. proc[p].pc = "ores" /\ Runs(p) /\ proc[p].online /\ CallAt(p)
    BY DEF ResumeOverlay, DmCall, Runs, CallInv, LockInv, LockPcs, OnlinePcs
  <2>2. /\ proc'[p].pc = "read" /\ proc'[p].online /\ proc'[p].k = proc[p].k /\ proc'[p].buf = proc[p].buf
        /\ "read" \in LockPcs
    BY <2>1, StepEffect DEF Pcs, LockPcs, OnlinePcs, ConvertPcs
  <2>3. "overlay" \in Devices /\ Only("overlay") /\ dm'["overlay"].inactive = NoTab /\ ~dm'["overlay"].susp
        /\ dm'["overlay"].live # NoTab
        /\ ((Dead("overlay") /\ dm'["overlay"].live = dm["overlay"].live)
            \/ (dm["overlay"].inactive = Tab("hot", proc[p].k) /\ dm'["overlay"].live = Tab("hot", proc[p].k)))
        /\ (dm'["overlay"].live = NoTab => dm'["overlay"] = NoDev)
    BY <2>1, TabFacts, ResumeEffect DEF Devices, Exists, TypeOK, CallAt, HdrAt, StepAt, ShapeInv
  <2>4. ShapeInv'
    BY <2>1, <2>3, TabFacts DEF Only, ShapeInv, Exists, Devices
  <2>5. BioInv'
    BY <2>0, <2>1, <2>3, TabFacts DEF Only, BioInv, ShapeInv, Exists, Devices
  <2>6. StoreInv'
    BY <2>0, <2>1, <2>3, TabFacts
    DEF Only, StoreInv, ShapeInv, BioInv, CallAt, HdrAt, StepAt, Blocked, Dead, Exists, Devices, StackPcs, ConvertPcs
  <2>7. CallAt(p)'
    <3>1. HdrAt(p)'
      BY <2>0, <2>1, <2>2 DEF CallAt, HdrAt, ConvertPcs
    <3>2. DataAt(p)'
      BY <2>0, <2>1, <2>2 DEF CallAt, DataAt
    <3>3. StepAt(p)'
      BY <2>0, <2>1, <2>2, <2>3, TabFacts
      DEF Only, ShapeInv, BioInv, CallAt, HdrAt, StepAt, InFlight, Blocked, Dead, Exists, Devices, ConvertPcs, StackPcs
    <3>4. FirmAt(p)'
      BY <2>0, <2>1, <2>2, <2>3, TabFacts DEF Only, ShapeInv, CallAt, StepAt, FirmAt, Exists, Devices, StackPcs, RunPcs
    <3>5. WaitAt(p)'
      BY <2>0, <2>1, <2>2, <2>3, TabFacts DEF Only, CallAt, WaitAt, Devices, RunPcs
    <3>6. QED BY <3>1, <3>2, <3>3, <3>4, <3>5 DEF CallAt
  <2>8. QED BY <2>0, <2>1, <2>2, <2>3, <2>4, <2>5, <2>6, <2>7, DeviceStep
<1>3. QED BY <1>1, <1>2 DEF ResumeOverlay, DmCall, Works

\* The chunk is committed: bios that waited at the hotzone land under the new key.
LEMMA HotzoneResumed ==
  ASSUME OnlineInv, NEW p \in Procs, ResumeHotzone(p)
  PROVE  OnlineInv'
<1> USE DEF OnlineInv
<1>1. CASE reencrypt_teardown(p)
  BY <1>1, TeardownStep
<1>2. CASE /\ Exists("hotzone") /\ dm' = Resumed("hotzone")
           /\ Step(p, "rloop") /\ Quiet /\ UNCHANGED <<hdr, disk, last, locks>>
  <2> USE <1>2
  <2>0. UNCHANGED <<hdr, disk, last, lock, excl, users, bio, stale>>
    BY DEF Quiet, user, locks
  <2>1. proc[p].pc = "hres" /\ Runs(p) /\ proc[p].online /\ CallAt(p)
    BY DEF ResumeHotzone, DmCall, Runs, CallInv, LockInv, LockPcs, OnlinePcs
  <2>2. /\ proc'[p].pc = "rloop" /\ proc'[p].online /\ proc'[p].k = proc[p].k /\ proc'[p].buf = proc[p].buf
        /\ "rloop" \in LockPcs
    BY <2>1, StepEffect DEF Pcs, LockPcs, OnlinePcs, ConvertPcs
  <2>3. "hotzone" \in Devices /\ Only("hotzone") /\ dm'["hotzone"].inactive = NoTab /\ ~dm'["hotzone"].susp
        /\ dm'["hotzone"].live = dm["hotzone"].live
        /\ (dm'["hotzone"].live = NoTab => dm'["hotzone"] = NoDev)
    BY <2>1, TabFacts, ResumeEffect DEF Devices, Exists, TypeOK, CallAt, HdrAt, StepAt, ShapeInv
  <2>4. ShapeInv'
    BY <2>1, <2>3, TabFacts DEF Only, ShapeInv, Exists, Devices
  <2>5. BioInv'
    BY <2>0, <2>1, <2>3, TabFacts DEF Only, BioInv, ShapeInv, Exists, Devices
  <2>6. StoreInv'
    BY <2>0, <2>1, <2>3, TabFacts
    DEF Only, StoreInv, ShapeInv, BioInv, CallAt, HdrAt, StepAt, Blocked, Dead, Exists, Devices, StackPcs, ConvertPcs
  <2>7. CallAt(p)'
    <3>1. HdrAt(p)'
      BY <2>0, <2>1, <2>2 DEF CallAt, HdrAt, ConvertPcs
    <3>2. DataAt(p)'
      BY <2>0, <2>1, <2>2 DEF CallAt, DataAt
    <3>3. StepAt(p)'
      BY <2>0, <2>1, <2>2, <2>3, TabFacts
      DEF Only, ShapeInv, BioInv, CallAt, HdrAt, StepAt, InFlight, Blocked, Dead, Exists, Devices, ConvertPcs, StackPcs
    <3>4. FirmAt(p)'
      BY <2>0, <2>1, <2>2, <2>3, TabFacts DEF Only, ShapeInv, CallAt, StepAt, FirmAt, Exists, Devices, StackPcs, RunPcs
    <3>5. WaitAt(p)'
      BY <2>0, <2>1, <2>2, <2>3, TabFacts DEF Only, CallAt, WaitAt, Devices, RunPcs
    <3>6. QED BY <3>1, <3>2, <3>3, <3>4, <3>5 DEF CallAt
  <2>8. QED BY <2>0, <2>1, <2>2, <2>3, <2>4, <2>5, <2>6, <2>7, DeviceStep
<1>3. QED BY <1>1, <1>2 DEF ResumeHotzone, DmCall, Works

\* A run that gives up its stack, or has none: what is left to it asks nothing
\* of the devices.
LEMMA GiveUpStep ==
  ASSUME OnlineInv, NEW p \in Procs, Runs(p), proc[p].online, proc[p].pc \notin {"write", "commit"},
         NEW s \in {"undo1", "undo2", "trmo", "trmh", "tend"}, Step(p, s), Quiet, UNCHANGED <<stack, locks>>
  PROVE  OnlineInv'
<1> USE DEF OnlineInv
<1>1. UNCHANGED <<hdr, disk, last, dm, lock, excl, users, bio, stale>>
  BY DEF Quiet, user, locks, stack
<1>2. s \in LockPcs /\ s \in Pcs
  BY DEF LockPcs, OnlinePcs, Pcs
<1>3. proc'[p].pc = s /\ proc'[p].k = proc[p].k
  BY <1>2, StepEffect
<1>4. CallAt(p)
  BY DEF CallInv
<1>5. CallAt(p)'
  BY <1>1, <1>3, <1>4 DEF CallAt, HdrAt, DataAt, StepAt, FirmAt, WaitAt, StackPcs, ConvertPcs, RunPcs
<1>6. QED BY <1>1, <1>2, <1>5, PlaceStep DEF stack

\* A new hotzone has nothing above it.
LEMMA HotzoneActivated ==
  ASSUME OnlineInv, NEW p \in Procs, reencrypt_activate_hotzone_device(p)
  PROVE  OnlineInv'
<1> USE DEF OnlineInv
<1>1. CASE reencrypt_teardown(p)
  BY <1>1, TeardownStep
<1>2. CASE /\ ~Exists("hotzone") /\ dm' = [dm EXCEPT !["hotzone"].live = Tab("map", 0)]
           /\ Step(p, "stack2") /\ Quiet /\ UNCHANGED <<hdr, disk, last, locks>>
  <2> USE <1>2
  <2>0. UNCHANGED <<hdr, disk, last, lock, excl, users, bio, stale>>
    BY DEF Quiet, user, locks
  <2>1. proc[p].pc = "stack1" /\ Runs(p) /\ proc[p].online /\ CallAt(p)
    BY DEF reencrypt_activate_hotzone_device, DmCall, Runs, CallInv, LockInv, LockPcs, OnlinePcs
  <2>2. /\ proc'[p].pc = "stack2" /\ proc'[p].online /\ proc'[p].k = proc[p].k /\ proc'[p].buf = proc[p].buf
        /\ "stack2" \in LockPcs
    BY <2>1, StepEffect DEF Pcs, LockPcs, OnlinePcs, ConvertPcs
  <2>3. "hotzone" \in Devices /\ Only("hotzone") /\ dm'["hotzone"].live = Tab("map", 0)
        /\ dm'["hotzone"].inactive = NoTab /\ ~dm'["hotzone"].susp
        /\ (dm'["hotzone"].live = NoTab => dm'["hotzone"] = NoDev)
    BY <2>1, TabFacts, OnlineConstants DEF Devices, Exists, TypeOK, Only, DmMap, Devs, NoDev, CallAt, HdrAt, StepAt, ShapeInv
  <2>4. ShapeInv'
    BY <2>1, <2>3, TabFacts DEF Only, ShapeInv, Exists, Devices
  <2>5. BioInv'
    BY <2>0, <2>1, <2>3, TabFacts DEF Only, BioInv, ShapeInv, Exists, Devices
  <2>6. StoreInv'
    BY <2>0, <2>1, <2>3, TabFacts
    DEF Only, StoreInv, ShapeInv, BioInv, CallAt, HdrAt, StepAt, Blocked, Dead, Exists, Devices, StackPcs, ConvertPcs
  <2>7. CallAt(p)'
    <3>1. HdrAt(p)'
      BY <2>0, <2>1, <2>2 DEF CallAt, HdrAt, ConvertPcs
    <3>2. DataAt(p)'
      BY <2>0, <2>1, <2>2 DEF CallAt, DataAt
    <3>3. StepAt(p)'
      BY <2>0, <2>1, <2>2, <2>3, TabFacts
      DEF Only, ShapeInv, BioInv, CallAt, HdrAt, StepAt, InFlight, Blocked, Dead, Exists, Devices, ConvertPcs, StackPcs
    <3>4. FirmAt(p)'
      BY <2>0, <2>1, <2>2, <2>3, TabFacts DEF Only, ShapeInv, CallAt, StepAt, FirmAt, Exists, Devices, StackPcs, RunPcs
    <3>5. WaitAt(p)'
      BY <2>0, <2>1, <2>2, <2>3, TabFacts DEF Only, CallAt, WaitAt, Devices, RunPcs
    <3>6. QED BY <3>1, <3>2, <3>3, <3>4, <3>5 DEF CallAt
  <2>8. QED BY <2>0, <2>1, <2>2, <2>3, <2>4, <2>5, <2>6, <2>7, DeviceStep
<1>3. QED BY <1>1, <1>2 DEF reencrypt_activate_hotzone_device, DmCall, Works

\* The overlay is a copy of the table of name.
LEMMA OverlayCreated ==
  ASSUME OnlineInv, NEW p \in Procs, reencrypt_replace_device(p)
  PROVE  OnlineInv'
<1> USE DEF OnlineInv
<1>1. CASE UNCHANGED dm /\ Step(p, "undo1") /\ Quiet /\ UNCHANGED <<hdr, disk, last, locks>>
  <2>1. proc[p].pc = "stack2" /\ Runs(p) /\ proc[p].online
    BY <1>1 DEF reencrypt_replace_device, StackCall, Runs, LockInv, LockPcs, OnlinePcs
  <2>2. QED BY <1>1, <2>1, GiveUpStep DEF stack
<1>2. CASE /\ Exists("name") /\ dm' = [dm EXCEPT !["overlay"] = [NoDev EXCEPT !.live = dm["name"].live]]
           /\ Step(p, "stack3") /\ Quiet /\ UNCHANGED <<hdr, disk, last, locks>>
  <2> USE <1>2
  <2>0. UNCHANGED <<hdr, disk, last, lock, excl, users, bio, stale>>
    BY DEF Quiet, user, locks
  <2>1. proc[p].pc = "stack2" /\ Runs(p) /\ proc[p].online /\ CallAt(p)
    BY DEF reencrypt_replace_device, StackCall, Runs, CallInv, LockInv, LockPcs, OnlinePcs
  <2>2. /\ proc'[p].pc = "stack3" /\ proc'[p].online /\ proc'[p].k = proc[p].k /\ proc'[p].buf = proc[p].buf
        /\ "stack3" \in LockPcs
    BY <2>1, StepEffect DEF Pcs, LockPcs, OnlinePcs, ConvertPcs
  <2>3. "overlay" \in Devices /\ Only("overlay") /\ dm'["overlay"].live = dm["name"].live /\ dm["name"].live.t = "direct"
        /\ dm'["overlay"].inactive = NoTab /\ ~dm'["overlay"].susp
        /\ (dm'["overlay"].live = NoTab => dm'["overlay"] = NoDev)
    BY <2>1, TabFacts, NewEffect DEF Devices, Exists, TypeOK, Devs, StackPcs, CallAt, HdrAt, StepAt, ShapeInv
  <2>4. ShapeInv'
    BY <2>1, <2>3, TabFacts DEF Only, ShapeInv, Exists, Devices
  <2>5. BioInv'
    BY <2>0, <2>1, <2>3, TabFacts DEF Only, BioInv, ShapeInv, Exists, Devices
  <2>6. StoreInv'
    BY <2>0, <2>1, <2>3, TabFacts
    DEF Only, StoreInv, ShapeInv, BioInv, CallAt, HdrAt, StepAt, Blocked, Dead, Exists, Devices, StackPcs, ConvertPcs
  <2>7. CallAt(p)'
    <3>1. HdrAt(p)'
      BY <2>0, <2>1, <2>2 DEF CallAt, HdrAt, ConvertPcs
    <3>2. DataAt(p)'
      BY <2>0, <2>1, <2>2 DEF CallAt, DataAt
    <3>3. StepAt(p)'
      BY <2>0, <2>1, <2>2, <2>3, TabFacts
      DEF Only, ShapeInv, BioInv, CallAt, HdrAt, StepAt, InFlight, Blocked, Dead, Exists, Devices, ConvertPcs, StackPcs
    <3>4. FirmAt(p)'
      BY <2>0, <2>1, <2>2, <2>3, TabFacts DEF Only, ShapeInv, CallAt, StepAt, FirmAt, Exists, Devices, StackPcs, RunPcs
    <3>5. WaitAt(p)'
      BY <2>0, <2>1, <2>2, <2>3, TabFacts DEF Only, CallAt, WaitAt, Devices, RunPcs
    <3>6. QED BY <3>1, <3>2, <3>3, <3>4, <3>5 DEF CallAt
  <2>8. QED BY <2>0, <2>1, <2>2, <2>3, <2>4, <2>5, <2>6, <2>7, DeviceStep
<1>3. QED BY <1>1, <1>2 DEF reencrypt_replace_device, StackCall, Works

\* The linear table waits below the live one of name.
LEMMA NameLoaded ==
  ASSUME OnlineInv, NEW p \in Procs, SwapLoad(p)
  PROVE  OnlineInv'
<1> USE DEF OnlineInv
<1>1. CASE UNCHANGED dm /\ Step(p, "undo1") /\ Quiet /\ UNCHANGED <<hdr, disk, last, locks>>
  <2>1. proc[p].pc = "stack3" /\ Runs(p) /\ proc[p].online
    BY <1>1 DEF SwapLoad, StackCall, Runs, LockInv, LockPcs, OnlinePcs
  <2>2. QED BY <1>1, <2>1, GiveUpStep DEF stack
<1>2. CASE /\ Exists("name") /\ Exists("overlay") /\ dm' = Loaded("name", Tab("linear", 0))
           /\ Step(p, "stack4") /\ Quiet /\ UNCHANGED <<hdr, disk, last, locks>>
  <2> USE <1>2
  <2>0. UNCHANGED <<hdr, disk, last, lock, excl, users, bio, stale>>
    BY DEF Quiet, user, locks
  <2>1. proc[p].pc = "stack3" /\ Runs(p) /\ proc[p].online /\ CallAt(p)
    BY DEF SwapLoad, StackCall, Runs, CallInv, LockInv, LockPcs, OnlinePcs
  <2>2. /\ proc'[p].pc = "stack4" /\ proc'[p].online /\ proc'[p].k = proc[p].k /\ proc'[p].buf = proc[p].buf
        /\ "stack4" \in LockPcs
    BY <2>1, StepEffect DEF Pcs, LockPcs, OnlinePcs, ConvertPcs
  <2>3. "name" \in Devices /\ Only("name") /\ dm'["name"].live = dm["name"].live
        /\ dm'["name"].inactive = Tab("linear", 0) /\ dm'["name"].susp = dm["name"].susp
        /\ (dm'["name"].live = NoTab => dm'["name"] = NoDev)
    BY <2>1, TabFacts, LoadEffect DEF Devices, Exists, TypeOK, CallAt, HdrAt, StepAt, ShapeInv
  <2>4. ShapeInv'
    BY <2>1, <2>3, TabFacts DEF Only, ShapeInv, Exists, Devices
  <2>5. BioInv'
    BY <2>0, <2>1, <2>3, TabFacts DEF Only, BioInv, ShapeInv, Exists, Devices
  <2>6. StoreInv'
    BY <2>0, <2>3 DEF Only, StoreInv, Blocked, Devices
  <2>7. CallAt(p)'
    <3>1. HdrAt(p)'
      BY <2>0, <2>1, <2>2 DEF CallAt, HdrAt, ConvertPcs
    <3>2. DataAt(p)'
      BY <2>0, <2>1, <2>2 DEF CallAt, DataAt
    <3>3. StepAt(p)'
      BY <2>0, <2>1, <2>2, <2>3, TabFacts
      DEF Only, ShapeInv, BioInv, CallAt, HdrAt, StepAt, InFlight, Blocked, Dead, Exists, Devices, ConvertPcs, StackPcs
    <3>4. FirmAt(p)'
      BY <2>0, <2>1, <2>2, <2>3, TabFacts DEF Only, ShapeInv, CallAt, StepAt, FirmAt, Exists, Devices, StackPcs, RunPcs
    <3>5. WaitAt(p)'
      BY <2>0, <2>1, <2>2, <2>3, TabFacts DEF Only, CallAt, WaitAt, Devices, RunPcs
    <3>6. QED BY <3>1, <3>2, <3>3, <3>4, <3>5 DEF CallAt
  <2>8. QED BY <2>0, <2>1, <2>2, <2>3, <2>4, <2>5, <2>6, <2>7, DeviceStep
<1>3. QED BY <1>1, <1>2 DEF SwapLoad, StackCall, Works

\* name goes over the overlay once the bios it passed on are done.
LEMMA NameResumed ==
  ASSUME OnlineInv, NEW p \in Procs, SwapResume(p)
  PROVE  OnlineInv'
<1> USE DEF OnlineInv
<1>1. CASE UNCHANGED dm /\ Step(p, "undo1") /\ Quiet /\ UNCHANGED <<hdr, disk, last, locks>>
  <2>1. proc[p].pc = "stack4" /\ Runs(p) /\ proc[p].online
    BY <1>1 DEF SwapResume, StackCall, Runs, LockInv, LockPcs, OnlinePcs
  <2>2. QED BY <1>1, <2>1, GiveUpStep DEF stack
<1>2. CASE /\ ~InFlight("name") /\ Exists("name") /\ dm' = Resumed("name")
           /\ Step(p, "rloop") /\ Quiet /\ UNCHANGED <<hdr, disk, last, locks>>
  <2> USE <1>2
  <2>0. UNCHANGED <<hdr, disk, last, lock, excl, users, bio, stale>>
    BY DEF Quiet, user, locks
  <2>1. proc[p].pc = "stack4" /\ Runs(p) /\ proc[p].online /\ CallAt(p)
    BY DEF SwapResume, StackCall, Runs, CallInv, LockInv, LockPcs, OnlinePcs
  <2>2. /\ proc'[p].pc = "rloop" /\ proc'[p].online /\ proc'[p].k = proc[p].k /\ proc'[p].buf = proc[p].buf
        /\ "rloop" \in LockPcs
    BY <2>1, StepEffect DEF Pcs, LockPcs, OnlinePcs, ConvertPcs
  <2>3. "name" \in Devices /\ Only("name") /\ dm'["name"].inactive = NoTab /\ ~dm'["name"].susp /\ dm'["name"].live # NoTab
        /\ ((dm["name"].inactive = NoTab /\ dm'["name"].live = dm["name"].live) 
            \/ (dm["name"].inactive # NoTab /\ dm'["name"].live = dm["name"].inactive))
        /\ (dm'["name"].live = NoTab => dm'["name"] = NoDev)
    BY <2>1, TabFacts, ResumeEffect DEF Devices, Exists, TypeOK, CallAt, HdrAt, StepAt, ShapeInv
  <2>4. ShapeInv'
    BY <2>1, <2>3, TabFacts DEF Only, ShapeInv, Exists, Devices
  <2>5. BioInv'
    BY <2>0, <2>1, <2>3, TabFacts DEF Only, BioInv, ShapeInv, Exists, Devices, InFlight
  <2>6. StoreInv'
    BY <2>0, <2>1, <2>3, TabFacts DEF Only, StoreInv, CallAt, FirmAt, Blocked, Exists, Devices
  <2>7. CallAt(p)'
    <3>1. HdrAt(p)'
      BY <2>0, <2>1, <2>2 DEF CallAt, HdrAt, ConvertPcs
    <3>2. DataAt(p)'
      BY <2>0, <2>1, <2>2 DEF CallAt, DataAt
    <3>3. StepAt(p)'
      BY <2>0, <2>1, <2>2, <2>3, TabFacts
      DEF Only, ShapeInv, BioInv, CallAt, HdrAt, StepAt, InFlight, Blocked, Dead, Exists, Devices, ConvertPcs, StackPcs
    <3>4. FirmAt(p)'
      BY <2>0, <2>1, <2>2, <2>3, TabFacts DEF Only, ShapeInv, CallAt, StepAt, FirmAt, Exists, Devices, StackPcs, RunPcs
    <3>5. WaitAt(p)'
      BY <2>0, <2>1, <2>2, <2>3, TabFacts DEF Only, CallAt, WaitAt, Devices, RunPcs
    <3>6. QED BY <3>1, <3>2, <3>3, <3>4, <3>5 DEF CallAt
  <2>8. QED BY <2>0, <2>1, <2>2, <2>3, <2>4, <2>5, <2>6, <2>7, DeviceStep
<1>3. QED BY <1>1, <1>2 DEF SwapResume, StackCall, Works

\* The table with what is converted waits below the linear one of name.
LEMMA NameReloaded ==
  ASSUME OnlineInv, NEW p \in Procs, TeardownReload(p)
  PROVE  OnlineInv'
<1> USE DEF OnlineInv
<1>1. CASE UNCHANGED dm /\ Step(p, "trmo") /\ Quiet /\ UNCHANGED <<hdr, disk, last, locks>>
  <2>1. proc[p].pc = "tload" /\ Runs(p) /\ proc[p].online
    BY <1>1 DEF TeardownReload, Runs, LockInv, LockPcs, OnlinePcs
  <2>2. QED BY <1>1, <2>1, GiveUpStep DEF stack
<1>2. CASE /\ Exists("name") /\ dm' = Loaded("name", Tab("direct", proc[p].k))
           /\ Step(p, "tres") /\ Quiet /\ UNCHANGED <<hdr, disk, last, locks>>
  <2> USE <1>2
  <2>0. UNCHANGED <<hdr, disk, last, lock, excl, users, bio, stale>>
    BY DEF Quiet, user, locks
  <2>1. proc[p].pc = "tload" /\ Runs(p) /\ proc[p].online /\ CallAt(p)
    BY DEF TeardownReload, Runs, CallInv, LockInv, LockPcs, OnlinePcs
  <2>2. /\ proc'[p].pc = "tres" /\ proc'[p].online /\ proc'[p].k = proc[p].k /\ proc'[p].buf = proc[p].buf
        /\ "tres" \in LockPcs
    BY <2>1, StepEffect DEF Pcs, LockPcs, OnlinePcs, ConvertPcs
  <2>3. "name" \in Devices /\ Only("name") /\ dm'["name"].live = dm["name"].live
        /\ dm'["name"].inactive = Tab("direct", proc[p].k) /\ dm'["name"].susp = dm["name"].susp
        /\ (dm'["name"].live = NoTab => dm'["name"] = NoDev)
    BY <2>1, TabFacts, LoadEffect DEF Devices, Exists, TypeOK, CallAt, HdrAt, StepAt, ShapeInv
  <2>4. ShapeInv'
    BY <2>1, <2>3, TabFacts DEF Only, ShapeInv, Exists, Devices
  <2>5. BioInv'
    BY <2>0, <2>1, <2>3, TabFacts DEF Only, BioInv, ShapeInv, Exists, Devices
  <2>6. StoreInv'
    BY <2>0, <2>3 DEF Only, StoreInv, Blocked, Devices
  <2>7. CallAt(p)'
    <3>1. HdrAt(p)'
      BY <2>0, <2>1, <2>2 DEF CallAt, HdrAt, ConvertPcs
    <3>2. DataAt(p)'
      BY <2>0, <2>1, <2>2, <2>3, TabFacts DEF Only, CallAt, DataAt
    <3>3. StepAt(p)'
      BY <2>0, <2>1, <2>2, <2>3, TabFacts
      DEF Only, ShapeInv, BioInv, CallAt, HdrAt, StepAt, InFlight, Blocked, Dead, Exists, Devices, ConvertPcs, StackPcs
    <3>4. FirmAt(p)'
      BY <2>0, <2>1, <2>2, <2>3, TabFacts DEF Only, ShapeInv, CallAt, StepAt, FirmAt, Exists, Devices, StackPcs, RunPcs
    <3>5. WaitAt(p)'
      BY <2>0, <2>1, <2>2, <2>3, TabFacts DEF Only, CallAt, WaitAt, Devices, RunPcs
    <3>6. QED BY <3>1, <3>2, <3>3, <3>4, <3>5 DEF CallAt
  <2>8. QED BY <2>0, <2>1, <2>2, <2>3, <2>4, <2>5, <2>6, <2>7, DeviceStep
<1>3. QED BY <1>1, <1>2 DEF TeardownReload, Works

\* name goes back to the data device; no bio is left in the helpers.
LEMMA NameRestored ==
  ASSUME OnlineInv, NEW p \in Procs, TeardownResume(p)
  PROVE  OnlineInv'
<1> USE DEF OnlineInv
<1>1. CASE UNCHANGED dm /\ Step(p, "trmo") /\ Quiet /\ UNCHANGED <<hdr, disk, last, locks>>
  <2>1. proc[p].pc = "tres" /\ Runs(p) /\ proc[p].online
    BY <1>1 DEF TeardownResume, Runs, LockInv, LockPcs, OnlinePcs
  <2>2. QED BY <1>1, <2>1, GiveUpStep DEF stack
<1>2. CASE /\ ~InFlight("name") /\ Exists("name") /\ dm' = Resumed("name")
           /\ Step(p, "trmo") /\ Quiet /\ UNCHANGED <<hdr, disk, last, locks>>
  <2> USE <1>2
  <2>0. UNCHANGED <<hdr, disk, last, lock, excl, users, bio, stale>>
    BY DEF Quiet, user, locks
  <2>1. proc[p].pc = "tres" /\ Runs(p) /\ proc[p].online /\ CallAt(p)
    BY DEF TeardownResume, Runs, CallInv, LockInv, LockPcs, OnlinePcs
  <2>2. /\ proc'[p].pc = "trmo" /\ proc'[p].online /\ proc'[p].k = proc[p].k /\ proc'[p].buf = proc[p].buf
        /\ "trmo" \in LockPcs
    BY <2>1, StepEffect DEF Pcs, LockPcs, OnlinePcs, ConvertPcs
  <2>3. "name" \in Devices /\ Only("name") /\ dm'["name"].inactive = NoTab /\ ~dm'["name"].susp /\ dm'["name"].live # NoTab
        /\ ((dm["name"].inactive = NoTab /\ dm'["name"].live = dm["name"].live) 
            \/ (dm["name"].inactive # NoTab /\ dm'["name"].live = dm["name"].inactive))
        /\ (dm'["name"].live = NoTab => dm'["name"] = NoDev)
    BY <2>1, TabFacts, ResumeEffect DEF Devices, Exists, TypeOK, CallAt, HdrAt, StepAt, ShapeInv
  <2>4. ShapeInv'
    BY <2>1, <2>3, TabFacts DEF Only, ShapeInv, Exists, Devices
  <2>5. BioInv'
    BY <2>0, <2>1, <2>3, TabFacts DEF Only, BioInv, ShapeInv, Exists, Devices, InFlight
  <2>6. StoreInv'
    BY <2>0, <2>1, <2>3, TabFacts DEF Only, StoreInv, CallAt, DataAt, HdrAt, Blocked, Exists, Devices
  <2>7. CallAt(p)'
    <3>1. HdrAt(p)'
      BY <2>0, <2>1, <2>2 DEF CallAt, HdrAt, ConvertPcs
    <3>2. DataAt(p)'
      BY <2>0, <2>1, <2>2 DEF CallAt, DataAt
    <3>3. StepAt(p)'
      BY <2>0, <2>1, <2>2, <2>3, TabFacts
      DEF Only, ShapeInv, BioInv, CallAt, HdrAt, StepAt, InFlight, Blocked, Dead, Exists, Devices, ConvertPcs, StackPcs
    <3>4. FirmAt(p)'
      BY <2>0, <2>1, <2>2, <2>3, TabFacts DEF Only, ShapeInv, CallAt, StepAt, FirmAt, Exists, Devices, StackPcs, RunPcs
    <3>5. WaitAt(p)'
      BY <2>0, <2>1, <2>2, <2>3, TabFacts DEF Only, CallAt, WaitAt, Devices, RunPcs
    <3>6. QED BY <3>1, <3>2, <3>3, <3>4, <3>5 DEF CallAt
  <2>8. QED BY <2>0, <2>1, <2>2, <2>3, <2>4, <2>5, <2>6, <2>7, DeviceStep
<1>3. QED BY <1>1, <1>2 DEF TeardownResume, Works

\* Taking a helper away, or not if it is in use, leaves what is on the data
\* device reached under the right key.
LEMMA TakeDown ==
  ASSUME OnlineInv, NEW d \in {"overlay", "hotzone"}, dm' = Removed(d),
         UNCHANGED <<hdr, disk, last, users, bio, stale>>
  PROVE  /\ Only(d) /\ (dm'[d].live = NoTab => dm'[d] = NoDev) /\ (dm'[d] = dm[d] \/ dm'[d] = NoDev)
         /\ ShapeInv' /\ BioInv' /\ StoreInv'
<1> USE DEF OnlineInv
<1>1. d \in Devices
  BY DEF Devices
<1>2. Only(d) /\ (dm'[d] = dm[d] \/ (CanRemove(d) /\ dm'[d] = NoDev))
  BY <1>1, RemoveEffect
<1>3. dm'[d].live = NoTab => dm'[d] = NoDev
  BY <1>1, <1>2, TabFacts DEF TypeOK, Exists
<1>4. ShapeInv'
  BY <1>2, RemoveGuard, TabFacts DEF Only, ShapeInv, Exists, Devices
<1>5. BioInv'
  BY <1>2 DEF Only, BioInv, Exists, Devices
<1>6. StoreInv'
  BY <1>2, TabFacts DEF Only, StoreInv, Blocked, Devices
<1>7. QED BY <1>2, <1>3, <1>4, <1>5, <1>6

\* The run takes a helper away and goes on with its end.
LEMMA TakeDownStep ==
  ASSUME OnlineInv, NEW p \in Procs, Runs(p), proc[p].online, proc[p].pc \notin {"write", "commit"},
         NEW s \in {"undo2", "trmh", "tend"}, Step(p, s),
         NEW d \in {"overlay", "hotzone"}, dm' = Removed(d), Quiet, UNCHANGED <<hdr, disk, last, locks>>
  PROVE  OnlineInv'
<1> USE DEF OnlineInv
<1>1. UNCHANGED <<hdr, disk, last, lock, excl, users, bio, stale>>
  BY DEF Quiet, user, locks
<1>2. s \in LockPcs /\ s \in Pcs /\ d \in Devices
  BY DEF LockPcs, OnlinePcs, Pcs, Devices
<1>3. proc'[p].pc = s /\ proc'[p].k = proc[p].k
  BY <1>2, StepEffect
<1>4. CallAt(p)
  BY DEF CallInv
<1>5. CallAt(p)'
  BY <1>1, <1>3, <1>4 DEF CallAt, HdrAt, DataAt, StepAt, FirmAt, WaitAt, StackPcs, ConvertPcs, RunPcs
<1>6. QED BY <1>1, <1>2, <1>5, TakeDown, DeviceStep

\* reencrypt_init_device_stack failed: the overlay goes.
LEMMA StackUndone ==
  ASSUME OnlineInv, NEW p \in Procs, StackUndo1(p)
  PROVE  OnlineInv'
<1>1. Runs(p) /\ proc[p].online /\ proc[p].pc = "undo1"
  BY DEF OnlineInv, StackUndo1, Runs, LockInv, LockPcs, OnlinePcs
<1>2. QED BY <1>1, TakeDownStep DEF StackUndo1

\* reencrypt_teardown_ok removes the helpers.
LEMMA HelpersRemoved ==
  ASSUME OnlineInv, NEW p \in Procs, TeardownRemove(p)
  PROVE  OnlineInv'
<1>1. Runs(p) /\ proc[p].online /\ proc[p].pc \in {"trmo", "trmh"}
  BY DEF OnlineInv, TeardownRemove, Runs, LockInv, LockPcs, OnlinePcs
<1>2. CASE proc[p].pc = "trmo" /\ dm' = Removed("overlay") /\ Step(p, "trmh")
  BY <1>1, <1>2, TakeDownStep DEF TeardownRemove
<1>3. CASE proc[p].pc = "trmh" /\ dm' = Removed("hotzone") /\ Step(p, "tend")
  BY <1>1, <1>3, TakeDownStep DEF TeardownRemove
<1>4. QED BY <1>2, <1>3 DEF TeardownRemove

\* The loop of crypt_reencrypt_run.
LEMMA RunLoop ==
  ASSUME OnlineInv, NEW p \in Procs, crypt_reencrypt_run(p)
  PROVE  OnlineInv'
<1> USE DEF OnlineInv
<1>1. UNCHANGED <<hdr, disk, last, dm, lock, excl, users, bio, stale>>
  BY DEF crypt_reencrypt_run, Quiet, user, locks, stack
<1>2. Runs(p) /\ proc[p].pc = "rloop" /\ CallAt(p)
  BY DEF crypt_reencrypt_run, Runs, LockPcs, CallInv
<1>3. PICK s \in {"oload", "read", "tload", "tend"} :
        /\ Step(p, s) /\ (s \in {"oload", "tload"} <=> proc[p].online)
        /\ s \in {"oload", "read"} => proc[p].k < N
  BY DEF crypt_reencrypt_run
<1>4. s \in LockPcs /\ s \in Pcs /\ (s \in OnlinePcs => proc[p].online)
  BY <1>3 DEF LockPcs, OnlinePcs, ConvertPcs, Pcs
<1>5. proc'[p].pc = s /\ proc'[p].k = proc[p].k /\ proc'[p].online = proc[p].online
  BY <1>3, <1>4, StepEffect
<1>6. HdrAt(p)'
  BY <1>1, <1>2, <1>3, <1>5 DEF CallAt, HdrAt, ConvertPcs
<1>7. DataAt(p)'
  BY <1>1, <1>2, <1>3, <1>5 DEF CallAt, DataAt, FirmAt, RunPcs
<1>8. proc[p].online => (StepAt(p) /\ FirmAt(p) /\ WaitAt(p))'
  BY <1>1, <1>2, <1>3, <1>5 DEF CallAt, StepAt, FirmAt, WaitAt, Exists, ConvertPcs, StackPcs, RunPcs
<1>9. QED BY <1>1, <1>2, <1>3, <1>4, <1>5, <1>6, <1>7, <1>8, PlaceStep DEF CallAt, stack

\* A step after which nobody runs: what has to be shown of it.
LEMMA NobodyRuns ==
  ASSUME TypeOK', ShapeInv', BioInv', HdrInv', StoreInv', CloseInv',
         \A q \in Procs : ~Runs(q)', excl' = {}, \A a, b \in lock' : a = b
  PROVE  OnlineInv'
<1>1. LockInv'
  BY DEF LockInv, Runs, LockPcs
<1>2. CallInv'
  BY DEF CallInv
<1>3. QED BY <1>1, <1>2 DEF OnlineInv

\* A process ends while nobody else runs.
LEMMA LastStep ==
  ASSUME OnlineInv, NEW p \in Procs, Runs(p) \/ \A q \in Procs : ~Runs(q), End(p),
         TypeOK', ShapeInv', BioInv', HdrInv', StoreInv'
  PROVE  OnlineInv'
<1> USE DEF OnlineInv
<1>1. Same(p) /\ proc'[p] = Idle /\ lock' = lock \ {p} /\ excl' = excl \ {p}
  BY EndEffect
<1>2. Idle.pc \notin LockPcs /\ Idle.pc \notin ClosePcs
  BY CallFacts DEF LockPcs, OnlinePcs, ConvertPcs, ClosePcs
<1>3. \A q \in Procs : q # p => ~Runs(q)
  BY OneRun
<1>4. \A q \in Procs : ~Runs(q)'
  BY <1>1, <1>2, <1>3 DEF Runs, Same
<1>5. excl' = {}
  BY <1>1, <1>3 DEF LockInv, TypeOK
<1>6. \A a, b \in lock' : a = b
  BY <1>1 DEF LockInv
<1>7. CloseInv'
  BY <1>1, <1>2 DEF CloseInv, Same
<1>8. QED BY <1>4, <1>5, <1>6, <1>7, NobodyRuns

\* reencrypt_init_device_stack failed: the hotzone goes, and the run ends.
LEMMA StackLeft ==
  ASSUME OnlineInv, NEW p \in Procs, StackUndo2(p)
  PROVE  OnlineInv'
<1> USE DEF OnlineInv
<1>1. Runs(p) /\ End(p) /\ dm' = Removed("hotzone")
  BY DEF StackUndo2, Runs, LockPcs, OnlinePcs
<1>2. UNCHANGED <<hdr, disk, last, users, bio, stale>>
  BY DEF StackUndo2, Quiet, user
<1>3. /\ Only("hotzone") /\ (dm'["hotzone"].live = NoTab => dm'["hotzone"] = NoDev)
      /\ ShapeInv' /\ BioInv' /\ StoreInv'
  BY <1>1, <1>2, TakeDown
<1>4. TypeOK'
  BY <1>1, <1>2, <1>3, EndEffect DEF TypeOK, Only, DmMap, Exists, Devices
<1>5. HdrInv'
  BY <1>2 DEF HdrInv
<1>6. QED BY <1>1, <1>3, <1>4, <1>5, LastStep

\* The run ends, and with the last chunk the reencryption.
LEMMA Finished ==
  ASSUME OnlineInv, NEW p \in Procs, TeardownFinish(p)
  PROVE  OnlineInv'
<1> USE DEF OnlineInv
<1>1. proc[p].pc = "tend" /\ Runs(p) /\ End(p) /\ HdrAt(p)
  BY DEF TeardownFinish, Runs, LockPcs, CallInv, CallAt
<1>2. UNCHANGED <<disk, last, dm, users, bio, stale>>
  BY DEF TeardownFinish, Quiet, user
<1>3. /\ hdr' \in [state : States, done : 0..N, saved : 0..2] /\ hdr'.done = hdr.done /\ hdr.state = "clean"
      /\ hdr'.state \in {"clean", "done"} /\ (hdr'.state = "done" => hdr.done = N)
  BY <1>1 DEF TeardownFinish, TypeOK, HdrAt, States
<1>4. TypeOK'
  BY <1>1, <1>2, <1>3, EndEffect DEF TypeOK, Exists
<1>5. ShapeInv' /\ BioInv'
  BY <1>2 DEF ShapeInv, BioInv, Exists
<1>6. HdrInv'
  BY <1>3 DEF HdrInv
<1>7. StoreInv'
  BY <1>2, <1>3 DEF StoreInv, Blocked
<1>8. QED BY <1>1, <1>4, <1>5, <1>6, <1>7, LastStep

\* A fatal failure: the hotzone lets nothing through, as it did before.
LEMMA FatalEffect ==
  ASSUME OnlineInv, NEW p \in Procs, proc[p].pc \in {"write", "commit"}, reencrypt_teardown_fatal(p)
  PROVE  /\ UNCHANGED <<users, bio, stale>> /\ Only("hotzone")
         /\ dm'["hotzone"].live = NoTab => dm'["hotzone"] = NoDev
         /\ dm'["hotzone"] = dm["hotzone"] \/ dm'["hotzone"].live.t = "error"
         /\ ShapeInv' /\ BioInv' /\ Runs(p) /\ HdrAt(p) /\ End(p)
<1> USE DEF OnlineInv
<1>1. UNCHANGED <<users, bio, stale>> /\ End(p)
  BY DEF reencrypt_teardown_fatal, Quiet, user
<1>2. Runs(p) /\ HdrAt(p)
  BY DEF Runs, LockPcs, ConvertPcs, CallInv, CallAt
<1>3. "hotzone" \in Devices
  BY DEF Devices
<1>4. CASE dm' = dm
  <2>1. Only("hotzone") /\ (dm'["hotzone"].live = NoTab => dm'["hotzone"] = NoDev)
    BY <1>3, <1>4 DEF Only, TypeOK, DmMap, Exists
  <2>2. ShapeInv' /\ BioInv'
    BY <1>1, <1>4 DEF ShapeInv, BioInv, Exists
  <2>3. QED BY <1>1, <1>2, <1>4, <2>1, <2>2
<1>5. CASE dm["hotzone"].susp /\ dm' = Errored("hotzone")
  <2>1. /\ Only("hotzone") /\ dm'["hotzone"].inactive = NoTab
        /\ dm'["hotzone"].live.t = "error" /\ dm'["hotzone"].live # NoTab
    BY <1>3, <1>5, ErrorEffect, TabFacts
  <2>2. ShapeInv' /\ BioInv'
    BY <1>1, <2>1, TabFacts DEF ShapeInv, BioInv, Exists, Only, Devices
  <2>3. QED BY <1>1, <1>2, <2>1, <2>2
<1>6. QED BY <1>4, <1>5 DEF reencrypt_teardown_fatal

\* What is read is the last write: no bio reaches the chunk meanwhile.
LEMMA HotzoneRead ==
  ASSUME OnlineInv, NEW p \in Procs, ReadHotzone(p)
  PROVE  OnlineInv'
<1> USE DEF OnlineInv
<1> DEFINE c == proc[p].k + 1
           b == IF disk[c].key = "old" THEN disk[c].val ELSE 2
<1>1. CASE reencrypt_teardown(p)
  BY <1>1, TeardownStep
<1>2. CASE proc' = [proc EXCEPT ![p].pc = "protect", ![p].buf = b] /\ Quiet /\ UNCHANGED <<stack, locks>>
  <2>1. UNCHANGED <<hdr, disk, last, dm, lock, excl, users, bio, stale>>
    BY <1>2 DEF Quiet, user, locks, stack
  <2>2. proc[p].pc = "read" /\ Runs(p) /\ CallAt(p) /\ "protect" \in Pcs
    BY DEF ReadHotzone, Runs, LockPcs, ConvertPcs, CallInv, Pcs
  <2>3. c \in 1..N /\ proc[p].k = hdr.done /\ hdr.state = "clean" /\ ~(c <= hdr.done)
    BY <2>2, OnlineConstants DEF TypeOK, Calls, CallAt, HdrAt, ConvertPcs
  <2> HIDE DEF c
  <2>4. b \in 0..2
    BY <2>3 DEF TypeOK
  <2>5. ~stale => b = last[c]
    <3>1. ~stale => disk[c] = [key |-> "old", val |-> last[c]]
      BY <2>3 DEF StoreInv, KeyOf
    <3>2. QED BY <3>1
  <2> HIDE DEF b
  <2>6. /\ proc' \in [Procs -> Calls] /\ Same(p) /\ proc'[p].pc = "protect" /\ proc'[p].buf = b
        /\ proc'[p].k = proc[p].k /\ proc'[p].online = proc[p].online
    <3> DEFINE r == [proc[p] EXCEPT !.pc = "protect", !.buf = b]
    <3>1. r \in Calls /\ r.pc = "protect" /\ r.buf = b /\ r.k = proc[p].k /\ r.online = proc[p].online
      BY <2>2, <2>4 DEF TypeOK, Calls
    <3>2. proc' = [proc EXCEPT ![p] = r]
      BY <1>2
    <3> HIDE DEF r
    <3>3. QED BY <3>1, <3>2 DEF TypeOK, Same
  <2>7. TypeOK'
    BY <2>1, <2>6 DEF TypeOK, Exists
  <2>8. ShapeInv' /\ BioInv' /\ HdrInv'
    BY <2>1 DEF ShapeInv, BioInv, HdrInv, Exists
  <2>9. StoreInv'
    BY <2>1 DEF StoreInv, Blocked
  <2>10. HdrAt(p)' /\ DataAt(p)'
    BY <2>1, <2>2, <2>5, <2>6 DEF CallAt, HdrAt, DataAt, ConvertPcs, c
  <2>11. proc[p].online => (StepAt(p) /\ FirmAt(p) /\ WaitAt(p))'
    BY <2>1, <2>2, <2>6 DEF CallAt, StepAt, FirmAt, WaitAt, Blocked, Dead, Exists, ConvertPcs, StackPcs, RunPcs
  <2>12. Runs(p)' /\ "protect" \notin OnlinePcs
    BY <2>6 DEF Runs, LockPcs, ConvertPcs, OnlinePcs
  <2>13. QED BY <2>1, <2>2, <2>6, <2>7, <2>8, <2>9, <2>10, <2>11, <2>12, RunStep DEF CallAt
<1>3. QED BY <1>1, <1>2 DEF ReadHotzone

\* The header names the chunk only when nothing reaches it any more.
LEMMA HotzoneProtected ==
  ASSUME OnlineInv, NEW p \in Procs, reencrypt_hotzone_protect_final(p)
  PROVE  OnlineInv'
<1> USE DEF OnlineInv
<1>1. CASE reencrypt_teardown(p)
  BY <1>1, TeardownStep
<1>2. CASE /\ hdr' = [hdr EXCEPT !.state = "hot", !.saved = proc[p].buf] /\ Step(p, "write")
           /\ Quiet /\ UNCHANGED <<disk, last, dm, locks>>
  <2>1. UNCHANGED <<disk, last, dm, lock, excl, users, bio, stale>>
    BY <1>2 DEF Quiet, user, locks
  <2>2. proc[p].pc = "protect" /\ Runs(p) /\ CallAt(p) /\ "write" \in Pcs
    BY DEF reencrypt_hotzone_protect_final, Runs, LockPcs, ConvertPcs, CallInv, Pcs
  <2>3. /\ proc' \in [Procs -> Calls] /\ Same(p) /\ proc'[p].pc = "write" /\ proc'[p].buf = proc[p].buf
        /\ proc'[p].k = proc[p].k /\ proc'[p].online = proc[p].online
    BY <1>2, <2>2, StepEffect
  <2>4. /\ hdr' \in [state : States, done : 0..N, saved : 0..2]
        /\ hdr'.state = "hot" /\ hdr'.done = hdr.done /\ hdr'.saved = proc[p].buf
    BY <1>2 DEF TypeOK, Calls, States
  <2>5. TypeOK'
    BY <2>1, <2>3, <2>4 DEF TypeOK, Exists
  <2>6. ShapeInv' /\ BioInv'
    BY <2>1 DEF ShapeInv, BioInv, Exists
  <2>7. proc[p].k = hdr.done /\ hdr.done < N /\ HdrInv'
    BY <2>2, <2>4 DEF CallAt, HdrAt, ConvertPcs, HdrInv
  <2>8. \/ stale /\ Detached
        \/ /\ dm["name"].live.t # "direct" /\ dm["overlay"].live.t # "direct" /\ Blocked
           /\ dm["overlay"].live.t = "hot" => dm["overlay"].live.k = hdr.done
    <3>1. CASE proc[p].online
      BY <3>1, <2>2, <2>7, TabFacts DEF CallAt, StepAt, FirmAt, Dead, ConvertPcs, RunPcs
    <3>2. CASE ~proc[p].online
      BY <3>2, <2>2 DEF LockInv, Maps, Devices, Blocked
    <3>3. QED BY <3>1, <3>2
  <2>9. StoreInv'
    BY <2>1, <2>2, <2>4, <2>7, <2>8 DEF StoreInv, CallAt, DataAt, Blocked
  <2>10. HdrAt(p)' /\ DataAt(p)'
    BY <2>1, <2>2, <2>3, <2>4 DEF CallAt, HdrAt, DataAt, ConvertPcs
  <2>11. proc[p].online => (StepAt(p) /\ FirmAt(p) /\ WaitAt(p))'
    BY <2>1, <2>2, <2>3 DEF CallAt, StepAt, FirmAt, WaitAt, Blocked, Dead, Exists, ConvertPcs, StackPcs, RunPcs
  <2>12. Runs(p)' /\ "write" \notin OnlinePcs
    BY <2>3 DEF Runs, LockPcs, ConvertPcs, OnlinePcs
  <2>13. QED BY <2>1, <2>2, <2>3, <2>5, <2>6, <2>7, <2>9, <2>10, <2>11, <2>12, RunStep DEF CallAt
<1>3. QED BY <1>1, <1>2 DEF reencrypt_hotzone_protect_final

\* The chunk is written from what the journal has; torn, it is still the journal's.
LEMMA HotzoneWritten ==
  ASSUME OnlineInv, NEW p \in Procs, WriteHotzone(p)
  PROVE  OnlineInv'
<1> USE DEF OnlineInv
<1> DEFINE c == proc[p].k + 1
<1>1. proc[p].pc = "write" /\ Runs(p) /\ CallAt(p) /\ "commit" \in Pcs
  BY DEF WriteHotzone, Runs, LockPcs, ConvertPcs, CallInv, Pcs
<1>2. /\ c \in 1..N /\ proc[p].k = hdr.done /\ hdr.state = "hot" /\ proc[p].buf = hdr.saved
      /\ c = hdr.done + 1 /\ proc[p].buf \in 0..2
  BY <1>1, OnlineConstants DEF TypeOK, Calls, CallAt, HdrAt, ConvertPcs
<1> HIDE DEF c
<1>3. CASE /\ disk' = [disk EXCEPT ![c] = [key |-> "new", val |-> proc[p].buf]] /\ Step(p, "commit")
           /\ Quiet /\ UNCHANGED <<hdr, last, dm, locks>>
  <2>1. UNCHANGED <<hdr, last, dm, lock, excl, users, bio, stale>>
    BY <1>3 DEF Quiet, user, locks
  <2>2. /\ proc' \in [Procs -> Calls] /\ Same(p) /\ proc'[p].pc = "commit"
        /\ proc'[p].k = proc[p].k /\ proc'[p].online = proc[p].online
    BY <1>1, <1>3, StepEffect
  <2>3. /\ disk' \in [1..N -> [key : {"old", "new", "torn"}, val : 0..2]]
        /\ disk'[c] = [key |-> "new", val |-> proc[p].buf] /\ \A i \in 1..N : i # c => disk'[i] = disk[i]
    BY <1>2, <1>3 DEF TypeOK
  <2>4. TypeOK'
    BY <2>1, <2>2, <2>3 DEF TypeOK, Exists
  <2>5. ShapeInv' /\ BioInv' /\ HdrInv'
    BY <2>1 DEF ShapeInv, BioInv, HdrInv, Exists
  <2>6. StoreInv'
    BY <1>2, <2>1, <2>3 DEF StoreInv, Blocked
  <2>7. HdrAt(p)'
    BY <1>1, <2>1, <2>2 DEF CallAt, HdrAt, ConvertPcs
  <2>8. DataAt(p)'
    BY <1>2, <2>1, <2>2, <2>3 DEF StoreInv, DataAt, c
  <2>9. proc[p].online => (StepAt(p) /\ FirmAt(p) /\ WaitAt(p))'
    BY <1>1, <2>1, <2>2 DEF CallAt, StepAt, FirmAt, WaitAt, Blocked, Dead, Exists, ConvertPcs, StackPcs, RunPcs
  <2>10. Runs(p)' /\ "commit" \notin OnlinePcs
    BY <2>2 DEF Runs, LockPcs, ConvertPcs, OnlinePcs
  <2>11. QED BY <1>1, <2>1, <2>2, <2>4, <2>5, <2>6, <2>7, <2>8, <2>9, <2>10, RunStep DEF CallAt
<1>4. CASE /\ disk' = [disk EXCEPT ![c] = [key |-> "torn", val |-> 2]]
           /\ reencrypt_teardown_fatal(p) /\ UNCHANGED <<hdr, last>>
  <2>1. /\ UNCHANGED <<hdr, last, users, bio, stale>> /\ Only("hotzone")
        /\ dm'["hotzone"].live = NoTab => dm'["hotzone"] = NoDev
        /\ dm'["hotzone"] = dm["hotzone"] \/ dm'["hotzone"].live.t = "error"
        /\ ShapeInv' /\ BioInv' /\ End(p)
    BY <1>1, <1>4, FatalEffect
  <2>2. /\ disk' \in [1..N -> [key : {"old", "new", "torn"}, val : 0..2]]
        /\ \A i \in 1..N : i # c => disk'[i] = disk[i]
    BY <1>2, <1>4 DEF TypeOK
  <2>3. TypeOK'
    BY <2>1, <2>2, EndEffect DEF TypeOK, Exists, Only, DmMap, Devices
  <2>4. HdrInv'
    BY <2>1 DEF HdrInv
  <2>5. StoreInv'
    BY <1>2, <2>1, <2>2 DEF StoreInv, Blocked, Only, Devices
  <2>6. QED BY <1>1, <2>1, <2>3, <2>4, <2>5, LastStep
<1>5. QED BY <1>3, <1>4 DEF WriteHotzone, c

\* The header says the chunk is done, and the hotzone still lets nothing through.
LEMMA HotzoneCommitted ==
  ASSUME OnlineInv, NEW p \in Procs, CommitHotzone(p)
  PROVE  OnlineInv'
<1> USE DEF OnlineInv
<1> DEFINE s == IF proc[p].online THEN "hres" ELSE "rloop"
<1>1. proc[p].pc = "commit" /\ Runs(p) /\ CallAt(p) /\ s \in Pcs
  BY DEF CommitHotzone, Runs, LockPcs, ConvertPcs, CallInv, Pcs
<1>2. /\ proc[p].k \in 0..N /\ proc[p].k = hdr.done /\ hdr.state = "hot" /\ hdr.done < N /\ hdr.done + 1 \in 1..N
      /\ proc[p].k + 1 \in 0..N
  BY <1>1, OnlineConstants DEF TypeOK, Calls, CallAt, HdrAt, ConvertPcs
<1>3. CASE /\ hdr' = [hdr EXCEPT !.state = "clean", !.done = proc[p].k + 1]
           /\ proc' = [proc EXCEPT ![p].pc = s, ![p].k = @ + 1]
           /\ Quiet /\ UNCHANGED <<disk, last, dm, locks>>
  <2>1. UNCHANGED <<disk, last, dm, lock, excl, users, bio, stale>>
    BY <1>3 DEF Quiet, user, locks
  <2>2. /\ proc' \in [Procs -> Calls] /\ Same(p) /\ proc'[p].pc = s
        /\ proc'[p].k = proc[p].k + 1 /\ proc'[p].online = proc[p].online
    BY <1>1, <1>2, <1>3 DEF TypeOK, Same, Calls
  <2>3. /\ hdr' \in [state : States, done : 0..N, saved : 0..2]
        /\ hdr'.state = "clean" /\ hdr'.done = hdr.done + 1
    BY <1>2, <1>3, OnlineConstants DEF TypeOK, States
  <2>4. TypeOK'
    BY <2>1, <2>2, <2>3 DEF TypeOK, Exists
  <2>5. ShapeInv' /\ BioInv' /\ HdrInv'
    BY <2>1, <2>3 DEF ShapeInv, BioInv, HdrInv, Exists
  <2>6. StoreInv'
    BY <1>1, <1>2, <2>1, <2>3 DEF StoreInv, CallAt, DataAt, KeyOf, Blocked, TypeOK
  <2>7. HdrAt(p)' /\ DataAt(p)'
    BY <1>2, <2>2, <2>3 DEF HdrAt, DataAt, ConvertPcs
  <2>8. proc[p].online => (StepAt(p) /\ FirmAt(p) /\ WaitAt(p))'
    BY <1>1, <1>2, <2>1, <2>2, TabFacts
    DEF CallAt, StepAt, FirmAt, WaitAt, Blocked, Dead, Exists, ConvertPcs, StackPcs, RunPcs
  <2>9. Runs(p)' /\ (s \in OnlinePcs => proc[p].online)
    BY <2>2 DEF Runs, LockPcs, ConvertPcs, OnlinePcs
  <2>10. QED BY <1>1, <2>1, <2>2, <2>4, <2>5, <2>6, <2>7, <2>8, <2>9, RunStep DEF CallAt
<1>4. CASE reencrypt_teardown_fatal(p) /\ UNCHANGED <<hdr, disk, last>>
  <2>1. /\ UNCHANGED <<hdr, disk, last, users, bio, stale>> /\ Only("hotzone")
        /\ dm'["hotzone"].live = NoTab => dm'["hotzone"] = NoDev
        /\ dm'["hotzone"] = dm["hotzone"] \/ dm'["hotzone"].live.t = "error"
        /\ ShapeInv' /\ BioInv' /\ End(p)
    BY <1>1, <1>4, FatalEffect
  <2>2. TypeOK'
    BY <2>1, EndEffect DEF TypeOK, Exists, Only, DmMap, Devices
  <2>3. HdrInv'
    BY <2>1 DEF HdrInv
  <2>4. StoreInv'
    BY <2>1 DEF StoreInv, Blocked, Only, Devices
  <2>5. QED BY <1>1, <2>1, <2>2, <2>3, <2>4, LastStep
<1>5. QED BY <1>3, <1>4 DEF CommitHotzone

\* A command starts.
LEMMA Starts ==
  ASSUME OnlineInv, NEW p \in Procs, StartReencrypt(p) \/ StartClose(p) \/ StartOpen(p) \/ StartRepair(p)
  PROVE  OnlineInv'
<1> USE DEF OnlineInv
<1>1. UNCHANGED <<stack, users, bio, stale, lock, excl>>
  BY DEF StartReencrypt, StartClose, StartOpen, StartRepair, user, locks
<1>2. PICK c \in Calls : proc' = [proc EXCEPT ![p] = c] /\ c.pc \in {"rinit", "cdeps", "okey", "repair"}
  <2>1. CASE StartReencrypt(p)
    <3> DEFINE c == [Idle EXCEPT !.pc = "rinit", !.online = Exists("name")]
    <3>1. c \in Calls /\ c.pc = "rinit"
      BY CallFacts DEF Calls, Pcs, TypeOK, Exists
    <3>2. proc' = [proc EXCEPT ![p] = c]
      BY <2>1 DEF StartReencrypt
    <3> HIDE DEF c
    <3>3. QED BY <3>1, <3>2
  <2>2. CASE StartClose(p)
    <3> DEFINE c == [Idle EXCEPT !.pc = "cdeps"]
    <3>1. c \in Calls /\ c.pc = "cdeps"
      BY CallFacts DEF Calls, Pcs, TypeOK, Exists
    <3>2. proc' = [proc EXCEPT ![p] = c]
      BY <2>2 DEF StartClose
    <3> HIDE DEF c
    <3>3. QED BY <3>1, <3>2
  <2>3. CASE StartOpen(p)
    <3> DEFINE c == [Idle EXCEPT !.pc = "okey", !.seen = hdr.state]
    <3>1. c \in Calls /\ c.pc = "okey"
      BY CallFacts DEF Calls, Pcs, TypeOK, Exists
    <3>2. proc' = [proc EXCEPT ![p] = c]
      BY <2>3 DEF StartOpen
    <3> HIDE DEF c
    <3>3. QED BY <3>1, <3>2
  <2>4. CASE StartRepair(p)
    <3> DEFINE c == [Idle EXCEPT !.pc = "repair"]
    <3>1. c \in Calls /\ c.pc = "repair"
      BY CallFacts DEF Calls, Pcs, TypeOK, Exists
    <3>2. proc' = [proc EXCEPT ![p] = c]
      BY <2>4 DEF StartRepair
    <3> HIDE DEF c
    <3>3. QED BY <3>1, <3>2
  <2>5. QED BY <2>1, <2>2, <2>3, <2>4
<1>3. proc' \in [Procs -> Calls] /\ Same(p) /\ proc'[p].pc \in {"rinit", "cdeps", "okey", "repair"}
  BY <1>2 DEF TypeOK, Same
<1>4. p \notin excl
  <2>1. proc[p] = Idle
    BY DEF StartReencrypt, StartClose, StartOpen, StartRepair
  <2>2. QED BY <2>1, CallFacts DEF LockInv, Runs, LockPcs, OnlinePcs, ConvertPcs
<1>5. lock' \subseteq Procs /\ excl' = excl \ {p}
  BY <1>1, <1>4 DEF TypeOK
<1>6. proc'[p].pc \notin LockPcs /\ proc'[p].pc \notin ClosePcs
  BY <1>3 DEF LockPcs, OnlinePcs, ConvertPcs, ClosePcs
<1>7. QED BY <1>1, <1>3, <1>5, <1>6, FrameStep

\* The header of a device nobody reencrypts gets its reencryption.
LEMMA Initialised ==
  ASSUME OnlineInv, NEW p \in Procs, reencrypt_init(p)
  PROVE  OnlineInv'
<1> USE DEF OnlineInv
<1>1. UNCHANGED <<disk, last, dm, users, bio, stale, lock, excl>>
  BY DEF reencrypt_init, Quiet, user, locks
<1>2. proc' \in [Procs -> Calls] /\ Same(p) /\ proc'[p].pc = "rload"
  BY StepEffect DEF reencrypt_init, Pcs
<1>3. ~Runs(p) /\ ~Runs(p)' /\ proc'[p].pc \notin LockPcs /\ proc'[p].pc \notin ClosePcs
  BY <1>2 DEF reencrypt_init, Runs, LockPcs, OnlinePcs, ConvertPcs, ClosePcs
<1>4. lock' \subseteq Procs /\ excl' = excl \ {p}
  BY <1>1, <1>3 DEF TypeOK, LockInv
<1>5. CASE hdr.state # "none"
  BY <1>1, <1>2, <1>3, <1>4, <1>5, FrameStep DEF reencrypt_init, stack
<1>6. CASE hdr.state = "none"
  <2>1. /\ hdr' \in [state : States, done : 0..N, saved : 0..2]
        /\ hdr'.state = "clean" /\ hdr'.done = hdr.done /\ hdr.done = 0
    BY <1>6 DEF reencrypt_init, TypeOK, States, HdrInv
  <2>2. \A q \in Procs : ~Runs(q)
    BY <1>6 DEF CallInv, CallAt, HdrAt
  <2>3. \A q \in Procs : ~Runs(q)'
    BY <1>2, <1>3, <2>2 DEF Runs, Same
  <2>4. excl' = {} /\ \A a, b \in lock' : a = b
    BY <1>1, <2>2 DEF LockInv, TypeOK
  <2>5. TypeOK'
    BY <1>1, <1>2, <2>1 DEF TypeOK, Exists
  <2>6. ShapeInv' /\ BioInv' /\ HdrInv'
    BY <1>1, <2>1 DEF ShapeInv, BioInv, HdrInv, Exists
  <2>7. StoreInv'
    BY <1>1, <1>6, <2>1 DEF StoreInv, Blocked
  <2>8. CloseInv'
    BY <1>1, <1>2, <1>3 DEF CloseInv, Same
  <2>9. QED BY <2>3, <2>4, <2>5, <2>6, <2>7, <2>8, NobodyRuns
<1>7. QED BY <1>5, <1>6

\* A run starts with the lock, over the table the header says or on a free device.
LEMMA RunStarts ==
  ASSUME OnlineInv, NEW p \in Procs, reencrypt_load_by_passphrase(p)
  PROVE  OnlineInv'
<1> USE DEF OnlineInv
<1> DEFINE s == IF proc[p].online THEN "stack1" ELSE "rloop"
<1>1. CASE reencrypt_teardown(p)
  BY <1>1, TeardownStep
<1>2. CASE /\ LoadOK(p) /\ lock' = lock \cup {p} /\ excl' = IF proc[p].online THEN excl ELSE excl \cup {p}
           /\ proc' = [proc EXCEPT ![p].pc = s, ![p].k = hdr.done]
           /\ Quiet /\ UNCHANGED <<stack, nulllock, mishaps>>
  <2>1. UNCHANGED <<hdr, disk, last, dm, users, bio, stale>>
    BY <1>2 DEF Quiet, user, stack
  <2>2. /\ lock = {} /\ hdr.state = "clean"
        /\ proc[p].online => dm["name"].live = Tab("direct", hdr.done)
        /\ ~proc[p].online => DeviceFree
    BY <1>2 DEF LoadOK
  <2>3. \A q \in Procs : ~Runs(q)
    BY <2>2, NoRun
  <2>4. /\ proc' \in [Procs -> Calls] /\ Same(p) /\ proc'[p].pc = s /\ proc'[p].k = hdr.done
        /\ proc'[p].online = proc[p].online
    <3> DEFINE r == [proc[p] EXCEPT !.pc = s, !.k = hdr.done]
    <3>0. s \in Pcs
      BY DEF Pcs
    <3> HIDE DEF s
    <3>1. r \in Calls /\ r.pc = s /\ r.k = hdr.done /\ r.online = proc[p].online
      BY <3>0 DEF TypeOK, Calls
    <3>2. proc' = [proc EXCEPT ![p] = r]
      BY <1>2
    <3> HIDE DEF r
    <3>3. QED BY <3>1, <3>2 DEF TypeOK, Same
  <2>5. excl = {}
    BY <2>3 DEF LockInv, TypeOK
  <2>6. \A q \in Procs : Runs(q)' <=> q = p
    BY <2>3, <2>4 DEF Runs, Same, LockPcs, OnlinePcs
  <2>7. TypeOK'
    BY <1>2, <2>1, <2>4 DEF TypeOK, Exists
  <2>8. LockInv'
    <3>1. lock' = {p}
      BY <1>2, <2>2
    <3>2. excl' = IF proc[p].online THEN {} ELSE {p}
      BY <1>2, <2>5
    <3>3. \A q \in Procs : proc'[q].pc \in OnlinePcs => proc'[q].online
      BY <2>4 DEF LockInv, Same, OnlinePcs
    <3>4. ~proc[p].online => \A d \in Devices : dm'[d].live.t \notin Maps /\ dm'[d].inactive.t \notin Maps
      <4>1. \A d \in Devices : ~proc[p].online =>
              {dm[d].live.t, dm[d].inactive.t} \cap {"direct", "hot", "map"} = {}
        BY <2>2 DEF DeviceFree, TypeOK
      <4>2. QED BY <4>1, <2>1 DEF Maps
    <3>5. QED BY <2>4, <2>6, <3>1, <3>2, <3>3, <3>4 DEF LockInv
  <2>9. ShapeInv' /\ BioInv' /\ HdrInv'
    BY <2>1 DEF ShapeInv, BioInv, HdrInv, Exists
  <2>10. StoreInv'
    BY <2>1 DEF StoreInv, Blocked
  <2>11. CallAt(p)'
    BY <2>1, <2>2, <2>4, TabFacts
    DEF CallAt, HdrAt, DataAt, StepAt, FirmAt, WaitAt, StackPcs, ConvertPcs, RunPcs
  <2>12. CallInv'
    BY <2>6, <2>11 DEF CallInv
  <2>13. CloseInv'
    BY <1>2, <2>4 DEF CloseInv, Same
  <2>14. QED BY <2>7, <2>8, <2>9, <2>10, <2>12, <2>13
<1>3. QED BY <1>1, <1>2 DEF reencrypt_load_by_passphrase

\* A step of a process that does not run, which changes a device: what has to be
\* shown of it.
LEMMA OutsideStep ==
  ASSUME OnlineInv, NEW p \in Procs, proc[p].pc \notin LockPcs, proc'[p].pc \notin LockPcs, Same(p),
         Detached \/ proc'[p].pc \notin ClosePcs \/ proc'[p].deps = {} \/ p \in lock',
         lock' \subseteq lock, lock' \ {p} = lock \ {p}, excl' = excl \ {p}, hdr' = hdr,
         excl # {} => \A d \in Devices : dm'[d].live.t \notin Maps /\ dm'[d].inactive.t \notin Maps,
         TypeOK', ShapeInv', BioInv', StoreInv',
         \A q \in Procs : Runs(q) /\ q # p /\ proc'[q] = proc[q] => CallAt(q)'
  PROVE  OnlineInv'
<1> USE DEF OnlineInv
<1>1. \A q \in Procs : Runs(q)' => q # p /\ Runs(q) /\ proc'[q] = proc[q] /\ q \in lock'
  BY DEF Runs, Same, LockInv
<1>2. LockInv'
  <2>1. \A a, b \in lock' : a = b
    BY DEF LockInv
  <2>2. \A q \in Procs : proc'[q].pc \in OnlinePcs => proc'[q].online
    BY DEF LockInv, Same, LockPcs
  <2>3. \A q \in excl' : Runs(q)'
    BY DEF LockInv, Runs, Same, TypeOK
  <2>4. \A q \in Procs : Runs(q)' => (q \in excl' <=> ~proc'[q].online)
    BY <1>1 DEF LockInv
  <2>5. QED BY <1>1, <2>1, <2>2, <2>3, <2>4 DEF LockInv
<1>3. CallInv'
  BY <1>1 DEF CallInv
<1>4. CloseInv'
  BY DEF CloseInv, Same
<1>5. HdrInv'
  BY DEF HdrInv
<1>6. QED BY <1>2, <1>3, <1>4, <1>5

\* A close that finds a helper takes the lock or ends.
LEMMA CloseLooks ==
  ASSUME OnlineInv, NEW p \in Procs, CloseDeps(p)
  PROVE  OnlineInv'
<1> USE DEF OnlineInv
<1> DEFINE deps == dm_device_deps("name")
           helper == \E d \in deps : is_reencryption_helper(d)
<1>1. UNCHANGED <<stack, users, bio, stale>>
  BY DEF CloseDeps, Quiet, user
<1>2. CASE End(p)
  BY <1>1, <1>2, EndStep
<1>3. CASE /\ (helper /\ ~LockBusy /\ LockByDmUuid(p)) \/ (~helper /\ UNCHANGED <<lock, nulllock>>)
           /\ proc' = [proc EXCEPT ![p].pc = "cerr", ![p].deps = deps] /\ UNCHANGED excl
  <2>1. dm["name"].live.t = "linear" => helper
    BY DEF dm_device_deps, Below, is_reencryption_helper
  <2>2. dm["name"].live.t # "linear" => deps = {}
    BY DEF dm_device_deps, Below, ShapeInv
  <2>3. deps \subseteq Devices
    BY DEF dm_device_deps, Below, Devices
  <2>4. helper => dm["name"].live.t = "linear"
    BY <2>2
  <2> HIDE DEF deps, helper
  <2>5. /\ proc' \in [Procs -> Calls] /\ Same(p) /\ proc'[p].pc = "cerr" /\ proc'[p].deps = deps
    <3> DEFINE r == [proc[p] EXCEPT !.pc = "cerr", !.deps = deps]
    <3>0. "cerr" \in Pcs /\ deps \in SUBSET Devices /\ proc[p] \in Calls
      BY <2>3 DEF TypeOK, Pcs
    <3>1. r \in Calls /\ r.pc = "cerr" /\ r.deps = deps
      BY <3>0 DEF Calls
    <3>2. proc' = [proc EXCEPT ![p] = r]
      BY <1>3
    <3> HIDE DEF r
    <3>3. QED BY <3>1, <3>2 DEF TypeOK, Same
  <2>6. proc'[p].pc \notin LockPcs /\ ~Runs(p)
    BY <2>5 DEF LockPcs, OnlinePcs, ConvertPcs, CloseDeps, Runs
  <2>7. excl' = excl \ {p}
    BY <1>3, <2>6 DEF LockInv
  <2>8. CASE ~helper \/ Detached
    <3>1. lock' = lock
      BY <1>3, <2>8 DEF LockByDmUuid
    <3>2. QED BY <1>1, <2>1, <2>2, <2>5, <2>6, <2>7, <2>8, <3>1, FrameStep DEF TypeOK
  <2>9. CASE helper /\ ~Detached
    <3>1. lock = {} /\ lock' = {p}
      BY <1>3, <2>9 DEF LockByDmUuid, LockBusy
    <3>2. QED BY <1>1, <2>5, <2>6, <2>7, <3>1, FrameStep
  <2>10. QED BY <2>8, <2>9
<1>4. QED BY <1>2, <1>3 DEF CloseDeps

\* Unless the header is detached, a close that found a helper has the lock, and
\* nobody runs.
LEMMA CloserAlone ==
  ASSUME OnlineInv, NEW p \in Procs, proc[p].pc \in ClosePcs, proc[p].deps # {}, NEW q \in Procs, Runs(q), ~Detached
  PROVE  FALSE
<1>1. p \in lock /\ q \in lock
  BY DEF OnlineInv, CloseInv, LockInv
<1>2. p = q
  BY <1>1 DEF OnlineInv, LockInv
<1>3. QED BY <1>2 DEF Runs, ClosePcs, LockPcs, OnlinePcs, ConvertPcs

\* A helper that is taken away or turned into an error disturbs a run only
\* where its header is detached, and even there no I/O goes wrong.
LEMMA HelperLost ==
  ASSUME OnlineInv, NEW q \in Procs, Runs(q), proc'[q] = proc[q],
         UNCHANGED <<hdr, disk, last, users, bio, stale>>,
         NEW d \in {"overlay", "hotzone"}, Only(d),
         dm'[d] = dm[d] \/ (Detached /\ Dead(d)' /\ dm'[d].inactive = NoTab)
  PROVE  CallAt(q)'
<1> USE DEF OnlineInv
<1>1. CallAt(q)
  BY DEF CallInv
<1>2. dm'["name"] = dm["name"]
  BY DEF Only, Devices
<1>3. HdrAt(q)' /\ DataAt(q)'
  BY <1>1, <1>2 DEF CallAt, HdrAt, DataAt, Exists
<1>4. FirmAt(q)' = FirmAt(q)
  BY <1>2 DEF FirmAt, Exists
<1>5. proc[q].online => WaitAt(q)'
  BY <1>1, <1>2 DEF CallAt, WaitAt, Only, Devices
<1>6. proc[q].online => StepAt(q)'
  BY <1>1, <1>2, TabFacts DEF CallAt, StepAt, Only, Devices, Blocked, Dead
<1>7. QED BY <1>1, <1>3, <1>4, <1>5, <1>6 DEF CallAt

\* A close does something to a helper below name.
LEMMA HelperStep ==
  ASSUME OnlineInv, NEW p \in Procs, proc[p].pc \in ClosePcs, Same(p), TypeOK',
         proc'[p].pc \notin ClosePcs \/ (proc'[p].pc \in ClosePcs /\ proc'[p].deps = proc[p].deps /\ lock' = lock),
         proc'[p].pc \notin LockPcs, lock' \subseteq lock, lock' \ {p} = lock \ {p}, excl' = excl \ {p},
         UNCHANGED <<hdr, disk, last, users, bio, stale>>,
         NEW d \in {"overlay", "hotzone"}, Only(d),
         dm'[d] = dm[d] \/ (Dead(d)' /\ dm'[d].inactive = NoTab /\ proc[p].deps # {}),
         ShapeInv', BioInv', StoreInv'
  PROVE  OnlineInv'
<1> USE DEF OnlineInv
<1>1. proc[p].pc \notin LockPcs
  BY DEF ClosePcs, LockPcs, OnlinePcs, ConvertPcs
<1>2. excl # {} => \A e \in Devices : dm'[e].live.t \notin Maps /\ dm'[e].inactive.t \notin Maps
  BY TabFacts DEF LockInv, Only, Dead, Maps
<1>3. ASSUME NEW q \in Procs, Runs(q), q # p, proc'[q] = proc[q] PROVE CallAt(q)'
  <2>1. dm'[d] = dm[d] \/ (Detached /\ Dead(d)' /\ dm'[d].inactive = NoTab)
    BY <1>3, CloserAlone
  <2>2. QED BY <1>3, <2>1, HelperLost
<1>4. Detached \/ proc'[p].pc \notin ClosePcs \/ proc'[p].deps = {} \/ p \in lock'
  BY DEF CloseInv
<1>5. QED BY <1>1, <1>2, <1>3, <1>4, OutsideStep

\* Suspended helpers become errors.
LEMMA CloseErrors ==
  ASSUME OnlineInv, NEW p \in Procs, CloseError(p)
  PROVE  OnlineInv'
<1> USE DEF OnlineInv
<1>1. UNCHANGED <<hdr, disk, last, lock, excl, users, bio, stale>>
  BY DEF CloseError, Quiet, user, locks
<1>2. proc' \in [Procs -> Calls] /\ Same(p) /\ proc'[p].pc = "crm" /\ proc'[p].deps = proc[p].deps
  BY StepEffect DEF CloseError, Pcs
<1>3. proc[p].pc \in ClosePcs /\ proc'[p].pc \in ClosePcs /\ proc'[p].pc \notin LockPcs
  BY <1>2 DEF CloseError, ClosePcs, LockPcs, OnlinePcs, ConvertPcs
<1>4. excl' = excl \ {p}
  BY <1>1, <1>3 DEF LockInv, Runs, ClosePcs, LockPcs, OnlinePcs, ConvertPcs
<1>5. DOMAIN dm = Devices /\ "overlay" \in Devices
  BY DEF TypeOK, Devices
<1>6. Only("overlay") /\ (dm'["overlay"] = dm["overlay"]
                           \/ (proc[p].deps # {} /\ dm'["overlay"] = Errored("overlay")["overlay"]))
  <2>1. dm' = [d \in Devices |->
              IF d \in proc[p].deps /\ is_reencryption_helper(d) /\ dm[d].susp
              THEN Errored(d)[d] ELSE dm[d]]
    BY <1>5 DEF CloseError
  <2>2. Errored("overlay")["overlay"] \in Devs
    BY <1>5, TabFacts DEF Errored, TypeOK, Devs
  <2>3. \A d \in Devices \ {"overlay"} : dm'[d] = dm[d]
    BY <2>1 DEF is_reencryption_helper
  <2>4. dm'["overlay"] = dm["overlay"] \/ (proc[p].deps # {} /\ dm'["overlay"] = Errored("overlay")["overlay"])
    BY <1>5, <2>1
  <2>5. dm' \in DmMap
    BY <2>1, <2>2, <2>3, <2>4 DEF TypeOK, DmMap
  <2>6. QED BY <2>3, <2>4, <2>5 DEF Only
<1>7. LET e == Errored("overlay")["overlay"]
      IN  e.live = Tab("error", 0) /\ e.inactive = NoTab /\ ~e.susp
  BY <1>5, TabFacts DEF Errored, TypeOK, Devs
<1>8. \/ dm'["overlay"] = dm["overlay"]
      \/ dm'["overlay"].live.t = "error" /\ dm'["overlay"].inactive = NoTab /\ proc[p].deps # {}
  BY <1>6, <1>7, TabFacts
<1>9. dm'["overlay"].live = NoTab => dm'["overlay"] = NoDev
  BY <1>5, <1>8, TabFacts DEF TypeOK, Exists
<1>10. TypeOK'
  BY <1>1, <1>2, <1>6, <1>9 DEF TypeOK, Only, DmMap, Exists
<1>11. ShapeInv' /\ BioInv'
  BY <1>1, <1>6, <1>8, TabFacts DEF ShapeInv, BioInv, Only, Exists, Devices
<1>12. StoreInv'
  BY <1>1, <1>6, <1>8 DEF StoreInv, Only, Blocked, Devices
<1>13. QED BY <1>1, <1>2, <1>3, <1>4, <1>6, <1>8, <1>10, <1>11, <1>12, HelperStep DEF Dead

\* A close removes the helpers it found.
LEMMA CloseHelper ==
  ASSUME OnlineInv, NEW p \in Procs, CloseDep(p)
  PROVE  OnlineInv'
<1> USE DEF OnlineInv
<1>1. UNCHANGED <<hdr, disk, last, users, bio, stale>>
  BY DEF CloseDep, Quiet, user
<1>2. CASE proc[p].pc = "crmo" /\ Step(p, "crmh") /\ UNCHANGED locks
           /\ dm' = IF "overlay" \in proc[p].deps THEN Removed("overlay") ELSE dm
  <2>1. proc' \in [Procs -> Calls] /\ Same(p) /\ proc'[p].pc = "crmh" /\ proc'[p].deps = proc[p].deps
    BY <1>2, StepEffect DEF Pcs
  <2>2. proc[p].pc \in ClosePcs /\ proc'[p].pc \in ClosePcs /\ proc'[p].pc \notin LockPcs /\ p \notin excl
    BY <1>2, <2>1 DEF ClosePcs, LockInv, Runs, LockPcs, OnlinePcs, ConvertPcs
  <2>3. UNCHANGED <<lock, excl>> /\ excl' = excl \ {p}
    BY <1>2, <2>2 DEF locks
  <2>4. CASE dm' = dm
    BY <1>1, <2>1, <2>2, <2>3, <2>4, FrameStep DEF stack, CloseInv, TypeOK
  <2>5. CASE "overlay" \in proc[p].deps /\ dm' = Removed("overlay")
    <3>1. /\ Only("overlay") /\ (dm'["overlay"].live = NoTab => dm'["overlay"] = NoDev)
          /\ dm'["overlay"] = dm["overlay"] \/ dm'["overlay"] = NoDev
          /\ ShapeInv' /\ BioInv' /\ StoreInv'
      BY <1>1, <2>5, TakeDown
    <3>2. TypeOK'
      BY <1>1, <2>1, <2>3, <3>1 DEF TypeOK, Only, DmMap, Exists
    <3>3. dm'["overlay"] = dm["overlay"]
            \/ (Dead("overlay")' /\ dm'["overlay"].inactive = NoTab /\ proc[p].deps # {})
      BY <2>5, <3>1, TabFacts DEF Dead
    <3>4. QED BY <1>1, <2>1, <2>2, <2>3, <3>1, <3>2, <3>3, HelperStep
  <2>6. QED BY <1>2, <2>4, <2>5
<1>3. CASE proc[p].pc = "crmh" /\ End(p)
           /\ dm' = IF "hotzone" \in proc[p].deps THEN Removed("hotzone") ELSE dm
  <2>1. /\ proc' \in [Procs -> Calls] /\ Same(p) /\ proc'[p] = Idle /\ lock' = lock \ {p} /\ excl' = excl \ {p}
        /\ lock' \subseteq Procs /\ excl' \subseteq Procs
    BY <1>3, EndEffect
  <2>2. proc[p].pc \in ClosePcs /\ proc'[p].pc \notin ClosePcs /\ proc'[p].pc \notin LockPcs
    BY <1>3, <2>1, CallFacts DEF ClosePcs, LockPcs, OnlinePcs, ConvertPcs
  <2>3. CASE dm' = dm
    BY <1>1, <1>3, <2>3, EndStep DEF stack
  <2>4. CASE "hotzone" \in proc[p].deps /\ dm' = Removed("hotzone")
    <3>1. /\ Only("hotzone") /\ (dm'["hotzone"].live = NoTab => dm'["hotzone"] = NoDev)
          /\ dm'["hotzone"] = dm["hotzone"] \/ dm'["hotzone"] = NoDev
          /\ ShapeInv' /\ BioInv' /\ StoreInv'
      BY <1>1, <2>4, TakeDown
    <3>2. TypeOK'
      BY <1>1, <2>1, <3>1 DEF TypeOK, Only, DmMap, Exists
    <3>3. dm'["hotzone"] = dm["hotzone"]
            \/ (Dead("hotzone")' /\ dm'["hotzone"].inactive = NoTab /\ proc[p].deps # {})
      BY <2>4, <3>1, TabFacts DEF Dead
    <3>4. QED BY <1>1, <2>1, <2>2, <3>1, <3>2, <3>3, HelperStep
  <2>5. QED BY <1>3, <2>3, <2>4
<1>4. QED BY <1>2, <1>3 DEF CloseDep

\* Nobody holds name when it goes, and no bio is under way.
LEMMA NameRemoved ==
  ASSUME OnlineInv, NEW p \in Procs, CloseRemove(p)
  PROVE  OnlineInv'
<1> USE DEF OnlineInv
<1>1. UNCHANGED <<hdr, disk, last, users, bio, stale>> /\ proc[p].pc = "crm"
  BY DEF CloseRemove, Quiet, user
<1>2. CASE End(p) /\ UNCHANGED dm
  BY <1>1, <1>2, EndStep DEF stack
<1>3. CASE CanRemove("name") /\ dm' = Removed("name") /\ Step(p, "crmo") /\ UNCHANGED locks
  <2>1. proc' \in [Procs -> Calls] /\ Same(p) /\ proc'[p].pc = "crmo" /\ proc'[p].deps = proc[p].deps
    BY <1>3, StepEffect DEF Pcs
  <2>2. proc[p].pc \in ClosePcs /\ proc'[p].pc \notin LockPcs /\ proc[p].pc \notin LockPcs
    BY <1>1, <2>1 DEF ClosePcs, LockPcs, OnlinePcs, ConvertPcs
  <2>3. UNCHANGED <<lock, excl>> /\ excl' = excl \ {p}
    BY <1>3, <2>2 DEF locks, LockInv, Runs
  <2>4. "name" \in Devices
    BY DEF Devices
  <2>5. ~users /\ bio = NoBio
    BY <1>3, RemoveGuard DEF BioInv
  <2>6. Only("name") /\ dm'["name"] = NoDev
    BY <1>3, <2>4, TabFacts DEF Removed, TypeOK, Only, DmMap
  <2>7. TypeOK'
    BY <1>1, <2>1, <2>3, <2>6 DEF TypeOK, Only, DmMap, Exists
  <2>8. ShapeInv'
    BY <2>6, TabFacts DEF ShapeInv, Only, Exists, Devices
  <2>9. BioInv'
    BY <1>1, <2>5 DEF BioInv, NoBio
  <2>10. StoreInv'
    BY <1>1, <2>6, TabFacts DEF StoreInv, Only, Blocked, Devices
  <2>11. excl # {} => \A d \in Devices : dm'[d].live.t \notin Maps /\ dm'[d].inactive.t \notin Maps
    BY <2>6, TabFacts DEF LockInv, Only, Maps
  <2>12. ASSUME NEW q \in Procs, Runs(q), q # p, proc'[q] = proc[q] PROVE CallAt(q)'
    <3>1. CallAt(q)
      BY <2>12 DEF CallInv
    <3>2. dm'["overlay"] = dm["overlay"] /\ dm'["hotzone"] = dm["hotzone"]
      BY <2>6 DEF Only, Devices
    <3>3. HdrAt(q)' /\ DataAt(q)'
      BY <1>1, <2>6, <2>12, <3>1, TabFacts DEF CallAt, HdrAt, DataAt, Exists
    <3>4. proc[q].online => StepAt(q)'
      BY <1>1, <2>6, <2>12, <3>1, <3>2, TabFacts DEF CallAt, StepAt, Blocked, Dead
    <3>5. proc[q].online => FirmAt(q)' /\ WaitAt(q)'
      BY <1>1, <2>6, <2>12, <3>1, <3>2, TabFacts DEF CallAt, FirmAt, WaitAt, Exists
    <3>6. QED BY <2>12, <3>3, <3>4, <3>5 DEF CallAt
  <2>13. Detached \/ proc'[p].deps = {} \/ p \in lock'
    BY <2>1, <2>2, <2>3 DEF CloseInv
  <2>14. QED BY <1>1, <2>1, <2>2, <2>3, <2>7, <2>8, <2>9, <2>10, <2>11, <2>12, <2>13, OutsideStep
<1>4. QED BY <1>2, <1>3 DEF CloseRemove

\* What a free data device means for the stack.
LEMMA FreeDevice ==
  ASSUME OnlineInv, DeviceFree
  PROVE  /\ excl = {} /\ Blocked
         /\ \A d \in Devices : dm[d].live.t \notin {"direct", "hot", "map"}
<1>1. \A d \in Devices : {dm[d].live.t, dm[d].inactive.t} \cap {"direct", "hot", "map"} = {}
  BY DEF DeviceFree, OnlineInv, TypeOK
<1>2. QED BY <1>1 DEF DeviceFree, Blocked, Devices

\* Recovery completes the chunk from the journal.
LEMMA RecoveryEffect ==
  ASSUME OnlineInv, hdr.state = "hot", LUKS2_reencrypt_locked_recovery(Recovered), last' = last
  PROVE  /\ hdr' \in [state : States, done : 0..N, saved : 0..2] /\ HdrInv'
         /\ disk' \in [1..N -> [key : {"old", "new", "torn"}, val : 0..2]]
         /\ hdr'.done = hdr.done + 1 /\ hdr'.state \in {"clean", "done"}
         /\ stale \/ \A i \in 1..N : disk'[i] = [key |-> KeyOf(hdr'.done, i), val |-> last[i]]
<1> USE DEF OnlineInv
<1> DEFINE c == hdr.done + 1
           s == IF c = N THEN "done" ELSE "clean"
<1>1. hdr.done \in 0..N /\ c \in 1..N /\ c \in 0..N /\ hdr.saved \in 0..2
  BY OnlineConstants DEF TypeOK, HdrInv
<1>2. hdr' = [hdr EXCEPT !.done = c, !.state = s]
  BY DEF LUKS2_reencrypt_locked_recovery, Recovered
<1>3. s \in {"clean", "done"} /\ (s = "done" => c = N)
  OBVIOUS
<1>4. disk' = [disk EXCEPT ![c] = [key |-> "new", val |-> hdr.saved]]
  BY DEF LUKS2_reencrypt_locked_recovery
<1> HIDE DEF s
<1>5. hdr' \in [state : States, done : 0..N, saved : 0..2] /\ hdr'.done = c /\ hdr'.state = s
  BY <1>1, <1>2, <1>3 DEF TypeOK, States
<1>6. HdrInv'
  BY <1>3, <1>5 DEF HdrInv
<1>7. /\ disk' \in [1..N -> [key : {"old", "new", "torn"}, val : 0..2]]
      /\ disk'[c] = [key |-> "new", val |-> hdr.saved] /\ \A i \in 1..N : i # c => disk'[i] = disk[i]
  BY <1>1, <1>4 DEF TypeOK
<1>8. ~stale => \A i \in 1..N : disk'[i] = [key |-> KeyOf(hdr'.done, i), val |-> last[i]]
  <2> SUFFICES ASSUME ~stale, NEW i \in 1..N PROVE disk'[i] = [key |-> KeyOf(c, i), val |-> last[i]]
    BY <1>5
  <2>1. hdr.saved = last[c] /\ KeyOf(c, c) = "new"
    BY <1>1 DEF StoreInv, KeyOf
  <2>2. i # c => disk[i] = [key |-> KeyOf(hdr.done, i), val |-> last[i]] /\ KeyOf(hdr.done, i) = KeyOf(c, i)
    BY <1>1 DEF StoreInv, KeyOf
  <2>3. QED BY <1>7, <2>1, <2>2
<1>9. QED BY <1>3, <1>5, <1>6, <1>7, <1>8

\* Recovery of a device nobody uses.
LEMMA Repaired ==
  ASSUME OnlineInv, NEW p \in Procs, reencrypt_recovery_by_passphrase(p)
  PROVE  OnlineInv'
<1> USE DEF OnlineInv
<1>1. UNCHANGED <<last, dm, users, bio, stale>> /\ End(p)
  BY DEF reencrypt_recovery_by_passphrase, Quiet, user
<1>2. CASE UNCHANGED <<hdr, disk>>
  BY <1>1, <1>2, EndStep DEF stack
<1>3. CASE lock = {} /\ hdr.state = "hot" /\ DeviceFree /\ LUKS2_reencrypt_locked_recovery(Recovered)
  <2>1. /\ hdr' \in [state : States, done : 0..N, saved : 0..2] /\ HdrInv'
        /\ disk' \in [1..N -> [key : {"old", "new", "torn"}, val : 0..2]]
        /\ hdr'.done = hdr.done + 1 /\ hdr'.state \in {"clean", "done"}
        /\ stale \/ \A i \in 1..N : disk'[i] = [key |-> KeyOf(hdr'.done, i), val |-> last[i]]
    BY <1>1, <1>3, RecoveryEffect
  <2>2. TypeOK'
    BY <1>1, <2>1, EndEffect DEF TypeOK, Exists
  <2>3. ShapeInv' /\ BioInv'
    BY <1>1 DEF ShapeInv, BioInv, Exists
  <2>4. StoreInv'
    BY <1>1, <1>3, <2>1, FreeDevice DEF StoreInv, Blocked, Devices
  <2>5. \A q \in Procs : ~Runs(q)
    BY <1>3, NoRun
  <2>6. QED BY <1>1, <2>1, <2>2, <2>3, <2>4, <2>5, LastStep
<1>4. QED BY <1>2, <1>3 DEF reencrypt_recovery_by_passphrase

\* A new mapping over a free data device.
LEMMA ActivateEffect ==
  ASSUME OnlineInv, CanActivate, NEW k \in 0..N, dm' = Activated(k), UNCHANGED <<users, bio>>
  PROVE  /\ Only("name") /\ dm'["name"].live = Tab("direct", k)
         /\ dm' \in DmMap /\ (\A d \in Devices : ~Exists(d)' => dm'[d] = NoDev) /\ ShapeInv' /\ BioInv'
<1> USE DEF OnlineInv
<1>1. "name" \in Devices /\ Tab("direct", k) \in Tabs
  BY TabFacts DEF Devices
<1>2. Only("name") /\ dm'["name"].inactive = NoTab /\ ~dm'["name"].susp /\ dm'["name"].live = Tab("direct", k)
  BY <1>1, NewEffect DEF Activated
<1>3. bio = NoBio /\ ~users
  BY DEF CanActivate, BioInv
<1>4. \A d \in Devices : ~Exists(d)' => dm'[d] = NoDev
  BY <1>2, TabFacts DEF TypeOK, Only, Exists
<1>5. ShapeInv'
  BY <1>2, TabFacts DEF ShapeInv, Only, Exists, Devices
<1>6. BioInv'
  BY <1>3 DEF BioInv, NoBio
<1>7. QED BY <1>2, <1>4, <1>5, <1>6 DEF Only

\* The header is read again under the lock.
LEMMA OpenedUnderLock ==
  ASSUME OnlineInv, NEW p \in Procs, _open_and_activate_reencrypt_device(p)
  PROVE  OnlineInv'
<1> USE DEF OnlineInv
<1>1. UNCHANGED <<last, users, bio, stale>> /\ End(p)
  BY DEF _open_and_activate_reencrypt_device, user
<1>2. CASE UNCHANGED <<hdr, disk, dm>>
  BY <1>1, <1>2, EndStep DEF stack
<1>3. CASE /\ lock = {} /\ CanActivate
           /\ LET h == IF hdr.state = "hot" THEN Recovered ELSE hdr
              IN  LUKS2_reencrypt_locked_recovery(h) /\ dm' = Activated(h.done)
  <2>1. /\ hdr' \in [state : States, done : 0..N, saved : 0..2] /\ HdrInv'
        /\ disk' \in [1..N -> [key : {"old", "new", "torn"}, val : 0..2]]
        /\ hdr'.state # "hot" /\ dm' = Activated(hdr'.done)
        /\ stale \/ \A i \in 1..N : disk'[i] = [key |-> KeyOf(hdr'.done, i), val |-> last[i]]
    <3>1. CASE hdr.state = "hot"
      <4>1. LUKS2_reencrypt_locked_recovery(Recovered) /\ dm' = Activated(Recovered.done) /\ hdr' = Recovered
        BY <1>3, <3>1 DEF LUKS2_reencrypt_locked_recovery
      <4>2. QED BY <1>1, <3>1, <4>1, RecoveryEffect
    <3>2. CASE hdr.state # "hot"
      <4>1. hdr' = hdr /\ disk' = disk /\ dm' = Activated(hdr.done)
        BY <1>3, <3>2 DEF LUKS2_reencrypt_locked_recovery
      <4>2. QED BY <3>2, <4>1 DEF TypeOK, HdrInv, StoreInv
    <3>3. QED BY <3>1, <3>2
  <2>2. hdr'.done \in 0..N
    BY <2>1
  <2>3. /\ Only("name") /\ dm'["name"].live = Tab("direct", hdr'.done)
        /\ dm' \in DmMap /\ (\A d \in Devices : ~Exists(d)' => dm'[d] = NoDev) /\ ShapeInv' /\ BioInv'
    BY <1>1, <1>3, <2>1, <2>2, ActivateEffect
  <2>4. TypeOK'
    BY <1>1, <2>1, <2>3, EndEffect DEF TypeOK, DmMap
  <2>5. /\ dm["overlay"].live.t \notin {"direct", "hot"} /\ Blocked
        /\ dm'["overlay"] = dm["overlay"] /\ dm'["hotzone"] = dm["hotzone"]
    BY <1>3, <2>3, FreeDevice DEF CanActivate, Only, Devices
  <2>6. StoreInv'
    BY <1>1, <2>1, <2>3, <2>5, TabFacts DEF StoreInv, Blocked
  <2>7. \A q \in Procs : ~Runs(q)
    BY <1>3, NoRun
  <2>8. QED BY <1>1, <2>1, <2>3, <2>4, <2>6, <2>7, LastStep
<1>4. QED BY <1>2, <1>3 DEF _open_and_activate_reencrypt_device

\* The header is the one read before the passphrase was typed.
LEMMA OpenedAsRead ==
  ASSUME OnlineInv, NEW p \in Procs, _open_and_activate(p)
  PROVE  OnlineInv'
<1> USE DEF OnlineInv
<1> DEFINE k == IF proc[p].seen = "none" THEN 0 ELSE N
<1>1. UNCHANGED <<hdr, disk, last, users, bio>> /\ End(p) /\ proc[p].pc = "okey" /\ proc[p].seen \in {"none", "done"}
  BY DEF _open_and_activate, user
<1>2. CASE UNCHANGED <<dm, stale>>
  BY <1>1, <1>2, EndStep DEF stack
<1>3. CASE CanActivate /\ dm' = Activated(k) /\ stale' = (stale \/ proc[p].seen # hdr.state)
  <2>1. k \in 0..N /\ (proc[p].seen = hdr.state => k = hdr.done)
    BY <1>1, OnlineConstants DEF HdrInv
  <2> HIDE DEF k
  <2>2. /\ Only("name") /\ dm'["name"].live = Tab("direct", k)
        /\ dm' \in DmMap /\ (\A d \in Devices : ~Exists(d)' => dm'[d] = NoDev) /\ ShapeInv' /\ BioInv'
    BY <1>1, <1>3, <2>1, ActivateEffect
  <2>3. stale' \in BOOLEAN /\ (stale => stale') /\ (~stale' => proc[p].seen = hdr.state)
    BY <1>3 DEF TypeOK
  <2>4. /\ proc' \in [Procs -> Calls] /\ Same(p) /\ proc'[p] = Idle /\ lock' = lock \ {p} /\ excl' = excl \ {p}
        /\ lock' \subseteq Procs /\ excl' \subseteq Procs
    BY <1>1, EndEffect
  <2>5. TypeOK'
    BY <1>1, <2>2, <2>3, <2>4 DEF TypeOK, DmMap
  <2>6. /\ excl = {} /\ Blocked /\ \A d \in Devices : dm[d].live.t \notin {"direct", "hot", "map"}
        /\ dm'["overlay"] = dm["overlay"] /\ dm'["hotzone"] = dm["hotzone"]
    BY <1>3, <2>2, FreeDevice DEF CanActivate, Only, Devices
  <2>7. StoreInv'
    BY <1>1, <2>1, <2>2, <2>3, <2>6, TabFacts DEF StoreInv, Blocked, Devices
  <2>8. ASSUME NEW q \in Procs, Runs(q), q # p, proc'[q] = proc[q] PROVE CallAt(q)'
    <3>1. CallAt(q) /\ hdr.state \in {"clean", "hot"}
      BY <2>8 DEF CallInv, CallAt, HdrAt
    <3>2. stale'
      BY <1>1, <2>3, <3>1
    <3>3. HdrAt(q)' /\ DataAt(q)'
      BY <1>1, <2>8, <3>1, <3>2 DEF CallAt, HdrAt, DataAt
    <3>4. proc[q].online => StepAt(q)'
      BY <1>1, <2>2, <2>6, <2>8, <3>1, TabFacts DEF CallAt, StepAt, Blocked, Dead
    <3>5. proc[q].online => WaitAt(q)'
      BY <1>1, <2>6, <2>8, <3>1 DEF CallAt, WaitAt
    <3>6. proc[q].online => FirmAt(q)'
      BY <2>6, <2>8, <3>1, <3>2 DEF CallAt, FirmAt, WaitAt, Devices
    <3>7. QED BY <2>8, <3>3, <3>4, <3>5, <3>6 DEF CallAt
  <2>9. /\ proc[p].pc \notin LockPcs /\ proc'[p].pc \notin LockPcs /\ proc'[p].pc \notin ClosePcs
        /\ lock' \subseteq lock /\ lock' \ {p} = lock \ {p}
    BY <1>1, <2>4, CallFacts DEF LockPcs, OnlinePcs, ConvertPcs, ClosePcs
  <2>10. QED BY <1>1, <2>2, <2>4, <2>5, <2>6, <2>7, <2>8, <2>9, OutsideStep
<1>4. QED BY <1>2, <1>3 DEF _open_and_activate

\* Facts about no bio.
LEMMA BioFacts ==
  /\ NoBio \in [i : 0..N, at : Devices \cup {"none"}, key : {"none", "new"}, through : SUBSET Devices]
  /\ NoBio.at = "none" /\ NoBio.i = 0
BY OnlineConstants DEF NoBio

\* Nothing but the header and the data outlives a reboot.
LEMMA Reboots ==
  ASSUME OnlineInv, Reboot
  PROVE  OnlineInv'
<1> USE DEF OnlineInv
<1>1. UNCHANGED <<hdr, disk, last, stale>> /\ users' = FALSE /\ bio' = NoBio /\ lock' = {} /\ excl' = {}
  BY DEF Reboot
<1>2. dm' = [d \in Devices |-> NoDev] /\ proc' = [q \in Procs |-> Idle]
  BY DEF Reboot, TypeOK
<1>3. \A q \in Procs : proc'[q] = Idle
  BY <1>2
<1>4. dm'["name"] = NoDev /\ dm'["overlay"] = NoDev /\ dm'["hotzone"] = NoDev
  BY <1>2 DEF Devices
<1>5. TypeOK'
  <2>1. dm' \in [Devices -> Devs] /\ (\A d \in Devices : ~Exists(d)' => dm'[d] = NoDev) /\ proc' \in [Procs -> Calls]
    BY <1>2, CallFacts, TabFacts
  <2>2. QED BY <1>1, <2>1, BioFacts DEF TypeOK
<1>6. ShapeInv' /\ BioInv' /\ HdrInv'
  BY <1>1, <1>4, TabFacts DEF ShapeInv, BioInv, HdrInv, Exists, NoBio
<1>7. StoreInv'
  BY <1>1, <1>4, TabFacts DEF StoreInv, NoBio
<1>8. CloseInv' /\ \A q \in Procs : ~Runs(q)'
  BY <1>3, CallFacts DEF CloseInv, ClosePcs, Runs, LockPcs, OnlinePcs, ConvertPcs
<1>9. QED BY <1>1, <1>5, <1>6, <1>7, <1>8, NobodyRuns

\* A step of the user or of the kernel: what has to be shown of it.
LEMMA UserStep ==
  ASSUME OnlineInv, UNCHANGED <<hdr, dm, proc, lock, excl, stale>>, users' \in BOOLEAN,
         bio' \in [i : 0..N, at : Devices \cup {"none"}, key : {"none", "new"}, through : SUBSET Devices],
         disk' \in [1..N -> [key : {"old", "new", "torn"}, val : 0..2]], last' \in [1..N -> 0..1],
         BioInv', StoreInv', \A q \in Procs : Runs(q) => DataAt(q)' /\ (proc[q].online => StepAt(q)')
  PROVE  OnlineInv'
<1> USE DEF OnlineInv
<1>1. TypeOK'
  BY DEF TypeOK, Exists
<1>2. LockInv'
  BY DEF LockInv, Runs
<1>3. ShapeInv' /\ HdrInv' /\ CloseInv'
  BY DEF ShapeInv, HdrInv, CloseInv, Exists
<1>4. CallInv'
  BY DEF CallInv, CallAt, HdrAt, FirmAt, WaitAt, Runs, Exists
<1>5. QED BY <1>1, <1>2, <1>3, <1>4

\* name is opened and closed.
LEMMA UserOpens ==
  ASSUME OnlineInv, UserOpen \/ UserClose
  PROVE  OnlineInv'
<1> USE DEF OnlineInv
<1>1. UNCHANGED <<hdr, disk, last, dm, proc, lock, excl, stale, bio>> /\ users' \in BOOLEAN
  BY DEF UserOpen, UserClose, stack, locks
<1>2. BioInv'
  BY <1>1, BioFacts DEF UserOpen, UserClose, BioInv, Exists
<1>3. StoreInv'
  BY <1>1 DEF StoreInv, Blocked
<1>4. \A q \in Procs : Runs(q) => DataAt(q)' /\ (proc[q].online => StepAt(q)')
  BY <1>1 DEF CallInv, CallAt, DataAt, StepAt, Blocked, Dead, Exists
<1>5. QED BY <1>1, <1>2, <1>3, <1>4, UserStep DEF TypeOK

\* A write enters name.
LEMMA Submits ==
  ASSUME OnlineInv, NEW i \in 1..N, Submit(i)
  PROVE  OnlineInv'
<1> USE DEF OnlineInv
<1>1. UNCHANGED <<hdr, disk, last, dm, proc, lock, excl, stale, users>> /\ users
  BY DEF Submit, stack, locks
<1>2. /\ bio' \in [i : 0..N, at : Devices \cup {"none"}, key : {"none", "new"}, through : SUBSET Devices]
      /\ bio'.at = "name" /\ bio'.i = i
  <2>1. bio' = [NoBio EXCEPT !.i = i, !.at = "name"] /\ i \in 0..N /\ "name" \in Devices
    BY OnlineConstants DEF Submit, Devices
  <2>2. QED BY <2>1, BioFacts
<1>3. BioInv'
  BY <1>1, <1>2 DEF BioInv, Exists, Devices
<1>4. StoreInv'
  BY <1>1, <1>2 DEF StoreInv, Blocked
<1>5. \A q \in Procs : Runs(q) => DataAt(q)' /\ (proc[q].online => StepAt(q)')
  BY <1>1, <1>2 DEF CallInv, CallAt, DataAt, StepAt, Blocked, Dead, Exists
<1>6. QED BY <1>1, <1>2, <1>3, <1>4, <1>5, UserStep DEF TypeOK

\* A bio that fails touches nothing.
LEMMA BioFails ==
  ASSUME OnlineInv, UNCHANGED <<hdr, disk, last, dm, proc, lock, excl, stale, users>>, bio' = NoBio
  PROVE  OnlineInv'
<1> USE DEF OnlineInv
<1>1. BioInv'
  BY BioFacts DEF BioInv, Exists
<1>2. StoreInv'
  BY BioFacts DEF StoreInv, Blocked
<1>3. \A q \in Procs : Runs(q) => DataAt(q)' /\ (proc[q].online => StepAt(q)')
  BY BioFacts DEF CallInv, CallAt, DataAt, StepAt, Blocked, Dead, Exists
<1>4. QED BY <1>1, <1>2, <1>3, BioFacts, UserStep DEF TypeOK

\* A bio that reaches the data device: it is under the key the header has for
\* its chunk, and the chunk is not the one under conversion.
LEMMA BioLands ==
  ASSUME OnlineInv, UNCHANGED <<hdr, dm, proc, lock, excl, stale, users>>,
         NEW i \in 1..N, NEW key \in {"old", "new"}, Lands(i, key),
         stale \/ (key = KeyOf(hdr.done, i) /\ (hdr.state = "hot" => i # hdr.done + 1)),
         stale \/ \A q \in Procs : Runs(q) /\ proc[q].pc \in {"protect", "commit"} => i # proc[q].k + 1
  PROVE  OnlineInv'
<1> USE DEF OnlineInv
<1> DEFINE v == 1 - last[i]
<1>1. v \in 0..1 /\ v \in 0..2
  BY DEF TypeOK
<1>2. disk' = [disk EXCEPT ![i] = [key |-> key, val |-> v]] /\ last' = [last EXCEPT ![i] = v] /\ bio' = NoBio
  BY DEF Lands
<1> HIDE DEF v
<1>3. /\ disk' \in [1..N -> [key : {"old", "new", "torn"}, val : 0..2]] /\ last' \in [1..N -> 0..1]
      /\ disk'[i] = [key |-> key, val |-> v] /\ last'[i] = v
      /\ \A j \in 1..N : j # i => disk'[j] = disk[j] /\ last'[j] = last[j]
  BY <1>1, <1>2 DEF TypeOK
<1>4. BioInv'
  BY <1>2, BioFacts DEF BioInv, Exists
<1>5. StoreInv'
  <2>1. hdr.state = "hot" => hdr.done + 1 \in 1..N
    BY OnlineConstants DEF TypeOK, HdrInv
  <2>2. QED BY <1>2, <1>3, <2>1, BioFacts DEF StoreInv, Blocked
<1>6. ASSUME NEW q \in Procs, Runs(q) PROVE DataAt(q)' /\ (proc[q].online => StepAt(q)')
  <2>1. CallAt(q)
    BY <1>6 DEF CallInv
  <2>2. proc[q].pc \in {"protect", "commit"} => proc[q].k + 1 \in 1..N
    BY <2>1, OnlineConstants DEF CallAt, HdrAt, TypeOK, ConvertPcs
  <2>3. DataAt(q)'
    BY <1>3, <1>6, <2>1, <2>2 DEF CallAt, DataAt, Exists
  <2>4. proc[q].online => StepAt(q)'
    BY <1>2, <2>1, BioFacts DEF CallAt, StepAt, Blocked, Dead
  <2>5. QED BY <2>3, <2>4
<1>7. QED BY <1>2, <1>3, <1>4, <1>5, <1>6, BioFacts, UserStep DEF TypeOK

\* A bio that a device passes on to the one below.
LEMMA BioPasses ==
  ASSUME OnlineInv, UNCHANGED <<hdr, dm, proc, lock, excl, stale, users>>,
         NEW d \in {"overlay", "hotzone"}, NEW key \in {"none", "new"}, Passes(d, key), bio # NoBio,
         dm["name"].live.t = "linear", bio.at = "name" \/ "name" \in bio.through,
         d = "hotzone" => /\ bio.at = "overlay" /\ key = "new" /\ ~dm["overlay"].susp
                          /\ dm["overlay"].live.t = "hot" /\ bio.i = dm["overlay"].live.k + 1
  PROVE  OnlineInv'
<1> USE DEF OnlineInv
<1>1. UNCHANGED <<disk, last>> /\ bio' = [bio EXCEPT !.at = d, !.key = key, !.through = @ \cup {bio.at}]
  BY DEF Passes
<1>2. users /\ bio.i \in 1..N /\ bio.at \in Devices
  BY DEF BioInv
<1>3. /\ bio' \in [i : 0..N, at : Devices \cup {"none"}, key : {"none", "new"}, through : SUBSET Devices]
      /\ bio'.at = d /\ bio'.i = bio.i /\ bio'.key = key /\ bio'.through = bio.through \cup {bio.at}
  <2> DEFINE t == bio.through \cup {bio.at}
  <2>1. t \in SUBSET Devices /\ d \in Devices \cup {"none"}
    BY <1>2 DEF TypeOK, Devices
  <2>2. bio' = [bio EXCEPT !.at = d, !.key = key, !.through = t]
    BY <1>1
  <2> HIDE DEF t
  <2>3. bio' \in [i : 0..N, at : Devices \cup {"none"}, key : {"none", "new"}, through : SUBSET Devices]
        /\ bio'.at = d /\ bio'.i = bio.i /\ bio'.key = key /\ bio'.through = t
    BY <2>1, <2>2 DEF TypeOK
  <2>4. QED BY <2>3 DEF t
<1>4. BioInv'
  BY <1>2, <1>3 DEF BioInv, Exists, Devices
<1>5. StoreInv'
  BY <1>1, <1>3 DEF StoreInv, Blocked
<1>6. ASSUME NEW q \in Procs, Runs(q) PROVE DataAt(q)' /\ (proc[q].online => StepAt(q)')
  <2>1. CallAt(q)
    BY <1>6 DEF CallInv
  <2>2. DataAt(q)'
    BY <1>1, <2>1 DEF CallAt, DataAt, Exists
  <2>3. proc[q].online => StepAt(q)'
    BY <1>3, <2>1, TabFacts DEF CallAt, StepAt, Blocked, Dead
  <2>4. QED BY <2>2, <2>3
<1>7. QED BY <1>1, <1>3, <1>4, <1>5, <1>6, UserStep DEF TypeOK

\* The device a bio waits at maps it.
LEMMA BioMoves ==
  ASSUME OnlineInv, BioStep
  PROVE  OnlineInv'
<1> USE DEF OnlineInv
<1> DEFINE tab == dm[bio.at].live
<1>1. UNCHANGED <<hdr, dm, proc, lock, excl, stale, users>> /\ bio # NoBio /\ ~dm[bio.at].susp
  BY DEF BioStep, locks
<1>2. bio.i \in 1..N /\ bio.at \in {"name", "overlay", "hotzone"}
  BY <1>1 DEF BioInv, Devices
<1>3. \A q \in Procs : Runs(q) => CallAt(q) /\ (~proc[q].online => tab.t \notin Maps)
  BY <1>2 DEF CallInv, LockInv, Devices
<1>4. CASE tab.t = "error" /\ bio' = NoBio /\ UNCHANGED <<disk, last>>
  BY <1>1, <1>4, BioFails
<1>5. CASE tab.t = "linear" /\ Passes("overlay", "none")
  <2>1. bio.at = "name"
    BY <1>2, <1>5 DEF ShapeInv
  <2>2. QED BY <1>1, <1>5, <2>1, BioPasses
<1>6. CASE tab.t = "hot" /\ bio.i = tab.k + 1 /\ Passes("hotzone", "new")
  <2>1. bio.at = "overlay"
    BY <1>2, <1>6 DEF ShapeInv
  <2>2. dm["name"].live.t = "linear" /\ "name" \in bio.through
    BY <2>1 DEF BioInv
  <2>3. QED BY <1>1, <1>6, <2>1, <2>2, BioPasses
<1>7. CASE tab.t = "direct" /\ Lands(bio.i, KeyOf(tab.k, bio.i))
  <2>1. bio.at \in {"name", "overlay"} /\ KeyOf(tab.k, bio.i) \in {"old", "new"}
    BY <1>2, <1>7 DEF ShapeInv, KeyOf
  <2>2. stale \/ (tab.k = hdr.done /\ hdr.state # "hot")
    BY <1>7, <2>1 DEF StoreInv
  <2>3. ASSUME ~stale, NEW q \in Procs, Runs(q), proc[q].pc \in {"protect", "commit"} PROVE FALSE
    <3>1. proc[q].online
      BY <1>3, <1>7, <2>3 DEF Maps
    <3>2. /\ dm["name"].live.t \in {"none", "linear"}
          /\ Dead("overlay") \/ dm["overlay"].live = Tab("hot", proc[q].k)
      BY <1>3, <2>3, <3>1 DEF CallAt, FirmAt, StepAt, ConvertPcs, RunPcs
    <3>3. QED BY <1>7, <2>1, <3>2, TabFacts DEF Dead
  <2>4. QED BY <1>1, <1>2, <1>7, <2>1, <2>2, <2>3, BioLands
<1>8. CASE tab.t = "hot" /\ bio.i # tab.k + 1 /\ Lands(bio.i, KeyOf(tab.k, bio.i))
  <2>1. bio.at = "overlay" /\ KeyOf(tab.k, bio.i) \in {"old", "new"}
    BY <1>2, <1>8 DEF ShapeInv, KeyOf
  <2>2. stale \/ (tab.k + 1 = hdr.done /\ hdr.state # "hot") \/ tab.k = hdr.done
    BY <1>8, <2>1 DEF StoreInv
  <2>3. tab.k \in 0..N
    BY <1>8, <2>1, TabFacts DEF TypeOK, Devs, Tabs, Devices
  <2>4. stale \/ (KeyOf(tab.k, bio.i) = KeyOf(hdr.done, bio.i) /\ (hdr.state = "hot" => bio.i # hdr.done + 1))
    BY <1>2, <1>8, <2>2, <2>3 DEF KeyOf
  <2>5. ASSUME NEW q \in Procs, Runs(q), proc[q].pc \in {"protect", "commit"} PROVE bio.i # proc[q].k + 1
    <3>1. proc[q].online
      BY <1>3, <1>8, <2>5 DEF Maps
    <3>2. Dead("overlay") \/ dm["overlay"].live = Tab("hot", proc[q].k)
      BY <1>3, <2>5, <3>1 DEF CallAt, StepAt, ConvertPcs
    <3>3. QED BY <1>8, <2>1, <3>2, TabFacts DEF Dead
  <2>6. QED BY <1>1, <1>2, <1>8, <2>1, <2>4, <2>5, BioLands
<1>9. CASE tab.t = "map" /\ Lands(bio.i, bio.key)
  <2>1. bio.at = "hotzone" /\ bio.key = "new"
    BY <1>2, <1>9 DEF ShapeInv, BioInv
  <2>2. ~Blocked
    BY <1>1, <1>9, <2>1 DEF Blocked
  <2>3. stale \/ (bio.i = hdr.done /\ hdr.state # "hot" /\ KeyOf(hdr.done, bio.i) = "new")
    BY <1>2, <2>1, <2>2 DEF StoreInv, KeyOf
  <2>4. ASSUME NEW q \in Procs, Runs(q), proc[q].pc \in {"protect", "commit"} PROVE FALSE
    BY <1>3, <1>9, <2>2, <2>4 DEF Maps, CallAt, StepAt, ConvertPcs
  <2>5. QED BY <1>1, <1>2, <1>9, <2>1, <2>3, <2>4, BioLands
<1>10. QED BY <1>4, <1>5, <1>6, <1>7, <1>8, <1>9 DEF BioStep

\* A step that changes nothing.
LEMMA Stutters ==
  ASSUME OnlineInv, UNCHANGED vars
  PROVE  OnlineInv'
<1> USE DEF OnlineInv
<1>1. UNCHANGED <<hdr, disk, last, dm, proc, lock, excl, stale, users, bio>>
  BY DEF vars, stack, user, locks
<1>2. BioInv'
  BY <1>1 DEF BioInv, Exists
<1>3. StoreInv'
  BY <1>1 DEF StoreInv, Blocked
<1>4. \A q \in Procs : Runs(q) => DataAt(q)' /\ (proc[q].online => StepAt(q)')
  BY <1>1 DEF CallInv, CallAt, DataAt, StepAt, Blocked, Dead, Exists
<1>5. QED BY <1>1, <1>2, <1>3, <1>4, UserStep DEF TypeOK

\* The invariant holds at the start.
LEMMA InitOnline == Init => OnlineInv
<1> SUFFICES ASSUME Init PROVE OnlineInv
  OBVIOUS
<1>1. /\ hdr.state = "none" /\ hdr.done = 0 /\ \A p \in Procs : proc[p] = Idle
      /\ users = FALSE /\ bio = NoBio /\ lock = {} /\ excl = {} /\ stale = FALSE
  BY DEF Init
<1>2. PICK t \in {NoTab, Tab("direct", 0)} :
        dm = [d \in Devices |-> IF d = "name" THEN [NoDev EXCEPT !.live = t] ELSE NoDev]
  BY DEF Init, Devices
<1> DEFINE n == [NoDev EXCEPT !.live = t]
<1>3. t \in Tabs /\ t.t \in {"none", "direct"} /\ t.k = 0
  BY OnlineConstants, TabFacts DEF NoTab
<1>4. n \in Devs /\ n.live = t /\ n.inactive = NoTab /\ n.susp = FALSE /\ (t = NoTab => n = NoDev)
  <2>1. n \in Devs /\ n.live = t /\ n.inactive = NoTab /\ n.susp = FALSE
    BY <1>3, TabFacts DEF Devs
  <2>2. t = NoTab => n = NoDev
    BY <2>1, TabFacts DEF Devs
  <2>3. QED BY <2>1, <2>2
<1>5. dm["name"] = n /\ dm["overlay"] = NoDev /\ dm["hotzone"] = NoDev
  BY <1>2 DEF Devices
<1> HIDE DEF n
<1>6. dm \in [Devices -> Devs] /\ \A d \in Devices : ~Exists(d) => dm[d] = NoDev
  BY <1>2, <1>4, <1>5, TabFacts DEF Devices, Exists, n
<1>7. TypeOK
  <2>1. hdr \in [state : States, done : 0..N, saved : 0..2]
    BY OnlineConstants DEF Init, States
  <2>2. disk \in [1..N -> [key : {"old", "new", "torn"}, val : 0..2]] /\ last \in [1..N -> 0..1]
    BY DEF Init
  <2>3. proc \in [Procs -> Calls]
    BY CallFacts DEF Init
  <2>4. QED BY <1>1, <1>6, <2>1, <2>2, <2>3, BioFacts DEF TypeOK
<1>8. \A p \in Procs : ~Runs(p) /\ proc[p].pc \notin ClosePcs /\ proc[p].pc \notin OnlinePcs
  BY <1>1, CallFacts DEF Runs, LockPcs, OnlinePcs, ConvertPcs, ClosePcs
<1>9. LockInv /\ CallInv /\ CloseInv
  BY <1>1, <1>8 DEF LockInv, CallInv, CloseInv
<1>10. ShapeInv /\ BioInv /\ HdrInv
  BY <1>1, <1>3, <1>4, <1>5, TabFacts, BioFacts DEF ShapeInv, BioInv, HdrInv, Exists
<1>11. StoreInv
  <2>1. \A i \in 1..N : disk[i] = [key |-> "old", val |-> 0] /\ last[i] = 0 /\ KeyOf(0, i) = "old"
    BY DEF Init, KeyOf
  <2>2. QED BY <1>1, <1>3, <1>4, <1>5, <2>1, TabFacts, BioFacts DEF StoreInv
<1>12. QED BY <1>7, <1>9, <1>10, <1>11 DEF OnlineInv

\* Every step of the specification keeps the invariant.
LEMMA NextOnline == OnlineInv /\ [Next]_vars => OnlineInv'
<1> SUFFICES ASSUME OnlineInv, [Next]_vars PROVE OnlineInv'
  OBVIOUS
<1>1. CASE UNCHANGED vars
  BY <1>1, Stutters
<1>2. CASE BioStep
  BY <1>2, BioMoves
<1>3. CASE UserOpen \/ UserClose
  BY <1>3, UserOpens
<1>4. ASSUME NEW i \in 1..N, Submit(i) PROVE OnlineInv'
  BY <1>4, Submits
<1>5. ASSUME NEW p \in Procs, StartReencrypt(p) \/ StartClose(p) \/ StartOpen(p) \/ StartRepair(p) PROVE OnlineInv'
  BY <1>5, Starts
<1>6. ASSUME NEW p \in Procs, ReencryptStep(p) PROVE OnlineInv'
  <2>1. CASE reencrypt_init(p) \/ reencrypt_load_by_passphrase(p) \/ crypt_reencrypt_run(p)
    BY <2>1, Initialised, RunStarts, RunLoop
  <2>2. CASE reencrypt_activate_hotzone_device(p) \/ reencrypt_replace_device(p) \/ SwapLoad(p) \/ SwapResume(p)
    BY <2>2, HotzoneActivated, OverlayCreated, NameLoaded, NameResumed
  <2>3. CASE StackUndo1(p) \/ StackUndo2(p)
    BY <2>3, StackUndone, StackLeft
  <2>4. CASE reencrypt_load_overlay_device(p) \/ SuspendOverlay(p) \/ SuspendHotzone(p) \/ ResumeOverlay(p)
             \/ ResumeHotzone(p)
    BY <2>4, OverlayLoaded, OverlaySuspended, HotzoneSuspended, OverlayResumed, HotzoneResumed
  <2>5. CASE ReadHotzone(p) \/ reencrypt_hotzone_protect_final(p) \/ WriteHotzone(p) \/ CommitHotzone(p)
    BY <2>5, HotzoneRead, HotzoneProtected, HotzoneWritten, HotzoneCommitted
  <2>6. CASE TeardownReload(p) \/ TeardownResume(p) \/ TeardownRemove(p) \/ TeardownFinish(p)
    BY <2>6, NameReloaded, NameRestored, HelpersRemoved, Finished
  <2>7. QED BY <1>6, <2>1, <2>2, <2>3, <2>4, <2>5, <2>6 DEF ReencryptStep
<1>7. ASSUME NEW p \in Procs, CloseStep(p) PROVE OnlineInv'
  BY <1>7, CloseLooks, CloseErrors, NameRemoved, CloseHelper DEF CloseStep
<1>8. ASSUME NEW p \in Procs, OpenStep(p) PROVE OnlineInv'
  BY <1>8, Repaired, OpenedAsRead, OpenedUnderLock DEF OpenStep
<1>9. ASSUME NEW p \in Procs, Kill(p) PROVE OnlineInv'
  BY <1>9, EndStep DEF Kill, Quiet, user
<1>10. CASE Reboot
  BY <1>10, Reboots
<1>11. QED BY <1>1, <1>2, <1>3, <1>4, <1>5, <1>6, <1>7, <1>8, <1>9, <1>10 DEF Next

\* A table that lets I/O through agrees with the header, and the data with it.
LEMMA RightKey == OnlineInv => ReadsRight
<1> SUFFICES ASSUME OnlineInv, ~stale, NEW i \in 1..N, Reached(i) # "none"
             PROVE  disk[i] = [key |-> Reached(i), val |-> last[i]]
  BY DEF ReadsRight
<1> USE DEF OnlineInv
<1> DEFINE n == dm["name"].live  o == dm["overlay"].live  h == dm["hotzone"].live
<1>1. hdr.done \in 0..N
  BY DEF TypeOK
<1>2. \A j \in 1..N : disk[j] = [key |-> KeyOf(hdr.done, j), val |-> last[j]] \/ (hdr.state = "hot" /\ j = hdr.done + 1)
  BY DEF StoreInv
<1>3. CASE n.t = "direct" /\ ~dm["name"].susp
  <2>1. Reached(i) = KeyOf(n.k, i) /\ n.k = hdr.done /\ hdr.state # "hot"
    BY <1>3 DEF Reached, StoreInv
  <2>2. QED BY <1>2, <2>1
<1>4. CASE n.t = "linear" /\ ~dm["overlay"].susp /\ o.t = "direct"
  <2>1. Reached(i) = KeyOf(o.k, i) /\ o.k = hdr.done /\ hdr.state # "hot"
    BY <1>4 DEF Reached, StoreInv
  <2>2. QED BY <1>2, <2>1
<1>5. CASE n.t = "linear" /\ ~dm["overlay"].susp /\ o.t = "hot" /\ i # o.k + 1
  <2>1. Reached(i) = KeyOf(o.k, i) /\ o.k \in 0..N
    BY <1>5, TabFacts DEF Reached, TypeOK, Devs, Tabs, Devices
  <2>2. (o.k + 1 = hdr.done /\ hdr.state # "hot") \/ o.k = hdr.done
    BY <1>5 DEF StoreInv
  <2>3. KeyOf(o.k, i) = KeyOf(hdr.done, i) /\ (hdr.state = "hot" => i # hdr.done + 1)
    BY <1>1, <1>5, <2>1, <2>2 DEF KeyOf
  <2>4. QED BY <1>2, <2>1, <2>3
<1>6. CASE /\ n.t = "linear" /\ ~dm["overlay"].susp /\ o.t = "hot" /\ i = o.k + 1
           /\ h.t = "map" /\ ~dm["hotzone"].susp
  <2>1. Reached(i) = "new" /\ ~Blocked
    BY <1>6 DEF Reached, Blocked
  <2>2. o.k + 1 = hdr.done /\ hdr.state # "hot"
    BY <1>6, <2>1 DEF StoreInv
  <2>3. KeyOf(hdr.done, i) = "new"
    BY <1>1, <1>6, <2>2 DEF KeyOf
  <2>4. QED BY <1>2, <2>1, <2>2, <2>3
<1>7. QED BY <1>3, <1>4, <1>5, <1>6 DEF Reached

\* What the invariant says of a run and its helpers.
LEMMA HelpersStay == OnlineInv /\ ~Detached => CloseWaits
<1> SUFFICES ASSUME OnlineInv, ~Detached, NEW p \in Procs, proc[p].online, proc[p].pc \in RunPcs
             PROVE  /\ dm["name"].live.t \in {"linear", "none"}
                    /\ \A d \in {"overlay", "hotzone"} : Exists(d) /\ dm[d].live.t # "error"
  BY DEF CloseWaits
<1>1. Runs(p)
  BY DEF Runs, RunPcs, LockPcs, OnlinePcs, ConvertPcs
<1>2. FirmAt(p) /\ WaitAt(p)
  BY <1>1 DEF OnlineInv, CallInv, CallAt
<1>3. /\ dm["name"].live.t \in {"none", "linear"} /\ dm["hotzone"].live.t = "map"
      /\ dm["overlay"].live.t \in {"direct", "hot"}
  BY <1>2 DEF FirmAt, WaitAt
<1>4. QED BY <1>3, TabFacts DEF Exists

\* The invariant holds of every state, for any number of chunks, processes,
\* commands, failures and writes, the header detached or not.
THEOREM OnlineInvariant == Spec => []OnlineInv
BY InitOnline, NextOnline, PTL DEF Spec

\* "None bio shall pass!": whatever a user of the active mapping can reach during
\* an online reencryption is stored under the key the stack has for it and holds
\* the last write, whatever fails, is killed or races with the run, with a
\* detached header too.
THEOREM NoBioPasses == Spec => []ReadsRight
BY OnlineInvariant, RightKey, PTL

\* With the header on the device, no close takes name or a helper from a running
\* online reencryption.
THEOREM CloseIsRefused == ~Detached => (Spec => []CloseWaits)
<1>1. ASSUME ~Detached PROVE Spec => []CloseWaits
  <2>1. OnlineInv => CloseWaits
    BY <1>1, HelpersStay
  <2>2. QED BY OnlineInvariant, <2>1, PTL
<1>2. QED BY <1>1

=============================================================================
