-------------------------- MODULE ActivationProofs --------------------------
(***************************************************************************)
(* Proofs about Activation, for every set of processes, names, volumes and *)
(* commands: an active device has the key of its volume, a suspended one   *)
(* has none, and a stack is never left half built.                         *)
(*                                                                         *)
(* The three properties are about a name when nobody works on it, or about *)
(* one device.  The inductive invariant says for every name who answers    *)
(* for what in between: one volume owns the name, and every command that   *)
(* has looked at the device has the owner's key (OwnerInv); an inactive    *)
(* table or a suspended device with a key has a process that will resume,  *)
(* clear or wipe it (SuspInv); a lower layer without an upper one has a    *)
(* process that will put one on it or remove it (StackInv).  A kill, a     *)
(* failing ioctl or a reused name ends the responsibility, and the history *)
(* variable torn records which.                                            *)
(***************************************************************************)
EXTENDS Activation, FiniteSetTheorems, TLAPS

\* The kinds of volume whose device lies on a lower layer.
StackedKind(v) == kind[v] \in {"luks2i", "tcrypt"}

\* The program points of each command.
OpenSteps == {"check", "key", "devices", "excl", "low", "lload", "lresume", "top", "undo"}
ReloadSteps == {"load", "resume", "iload", "tload", "susp0", "susp1", "res1", "res0",
                "clr0", "clr1", "un0", "un1", "err0", "err1"}
SuspendSteps == {"scheck", "ssusp", "swipe", "sundo", "sdrop"}
ResumeSteps == {"ucheck", "uset", "uresume"}
CloseSteps == {"cquery", "cremove", "clow"}

\* A process is where its command can be, with the volume and the flags the
\* command gives it; a reload has queried the table of its own volume.
PcOK(p) ==
  LET r == proc[p]
  IN  \/ r.pc = "idle" /\ r.op = "none" /\ r.n = "none"
      \/ /\ r.n \in Names
         /\ \/ r.pc \in OpenSteps /\ r.op \in {"open", "refresh"} /\ r.vol \in Vols /\ r.refresh = (r.op = "refresh")
            \/ r.pc = "rquery" /\ r.op = "resize" /\ r.vol \in Vols
            \/ r.pc = "query" /\ r.op \in {"refresh", "resize"} /\ r.vol \in Vols
            \/ r.pc \in ReloadSteps /\ r.op \in {"refresh", "resize"} /\ r.vol \in Vols /\ r.from = r.vol
            \/ r.pc \in SuspendSteps /\ r.op = "suspend" /\ r.vol \in Vols
            \/ r.pc \in ResumeSteps /\ r.op = "resume" /\ r.vol \in Vols
            \/ r.pc \in CloseSteps /\ r.op = "close"

\* The lower layer is created for stacked volumes only, and both layers become
\* error targets only after a resume has failed and was recorded.
ProcInv ==
  \A p \in Procs :
    /\ PcOK(p)
    /\ At(p, "low") => Stacked(p)
    /\ proc[p].pc \in {"err0", "err1"} => "burnt" \in torn[Name(p)]

\* The device of the user maps a volume, with a lower layer exactly when the
\* volume has one; an error target is recorded, a loaded table carries the key of
\* its volume, and a deferred removal is recorded.
TopTableOK(t) == t.type = "crypt" /\ t.vol \in Vols /\ t.low = StackedKind(t.vol)
TopInv(n) ==
  LET d == dm[Top(n)]
  IN  /\ \/ d.live = NoTable \/ TopTableOK(d.live)
         \/ d.live.type = "error" /\ d.live.vol = "none" /\ d.live.key = "none" /\ ~d.live.low
            /\ torn[n] \cap {"forced", "burnt"} # {}
      /\ d.inactive # NoTable => TopTableOK(d.inactive) /\ d.inactive.key = d.inactive.vol
      /\ d.deferred => "deferred" \in torn[n]

\* A process acts on the device it has looked at: a luksResume, or a reload after
\* its query, while the device has not gone away.
Tied(p, n) ==
  Name(p) = n /\ ~proc[p].gone /\ (proc[p].op = "resume" \/ proc[p].pc \in ReloadSteps)

\* One volume owns a name: both tables and everybody tied to the device agree
\* about it.
Owner(n, v) ==
  LET d == dm[Top(n)]
  IN  /\ d.live.type = "crypt" => d.live.vol = v
      /\ d.inactive.type = "crypt" => d.inactive.vol = v
      /\ \A p \in Procs : Tied(p, n) => Vol(p) = v

\* The live table has the key of its volume, or none while it is suspended.
OwnKey(t, susp) == t.type = "crypt" => t.key = t.vol \/ (t.key = "none" /\ susp)

\* Whoever is tied to a device finds it, and unless a name was reused it has an
\* owner and the key of the owner.
OwnerInv(n) ==
  /\ \A p \in Procs : Tied(p, n) => dm_status_device(dm, Top(n))
  /\ Pure(n, {"reused"}) =>
       /\ \E v \in Vols \cup {"none"} : Owner(n, v)
       /\ OwnKey(dm[Top(n)].live, dm[Top(n)].susp)

\* Where a process is responsible for the table it has loaded, and where it is
\* responsible for the suspension of a device that has its key.
Loaded == {"resume", "susp0", "susp1", "res1", "res0", "clr0", "err0"}
Holding == {"susp1", "res1", "res0", "clr0", "clr1", "un0", "err0", "swipe", "sundo", "uresume"}

\* A suspended device has a key that luksSuspend takes away: not one of a
\* wrapped-key cipher, and not one it took for such a key.
KeyLeft(n) ==
  LET d == dm[Top(n)]
  IN  d.susp /\ d.live.key # "none" /\ d.live.vol \notin Wrapped /\ Pure(n, {"mistaken"})

\* Unless somebody was killed or an ioctl failed, an inactive table and a
\* suspended device with a key have a process that is going to deal with them.
SuspInv(n) ==
  Pure(n, {"killed", "fault"}) =>
    /\ dm[Top(n)].inactive # NoTable => \E p \in Procs : Name(p) = n /\ proc[p].pc \in Loaded
    /\ KeyLeft(n) => \E p \in Procs : Name(p) = n /\ proc[p].pc \in Holding

\* What excuses a lower layer without an upper one; who is going to remove a lower
\* layer or to put a device on it; and that every other lower layer has its upper
\* one, which a close under way has seen.
Interference == {"killed", "fault", "busy", "deferred", "forced", "cascade", "burnt", "reused"}
CaresForLow(p) ==
  \/ proc[p].pc \in {"top", "undo"} /\ Stacked(p)
  \/ At(p, "clow") /\ (proc[p].low \/ Kind(p) = "tcrypt")
StackInv(n) ==
  Pure(n, Interference) =>
    /\ \A p \in Procs :
         Name(p) = n /\ At(p, "cremove") /\ ~proc[p].gone =>
           dm_status_device(dm, Top(n)) /\ proc[p].low = dm[Top(n)].live.low
    /\ dm_status_device(dm, Low(n)) =>
         dm[Top(n)].live.low \/ \E p \in Procs : Name(p) = n /\ CaresForLow(p)

\* The inductive invariant.
NameInv(n) == TopInv(n) /\ OwnerInv(n) /\ SuspInv(n) /\ StackInv(n)
ActInv == TypeOK /\ ProcInv /\ \A n \in Names : NameInv(n)

\* The two nodes of a name, and that nodes of different names and layers differ.
LEMMA NodeFacts ==
  ASSUME NEW n \in Names
  PROVE  /\ Top(n) \in Nodes /\ Low(n) \in Nodes
         /\ <<n, 0>> = Top(n) /\ <<n, 1>> = Low(n)
         /\ \A m \in Names : Top(n) # Low(m) /\ (Top(n) = Top(m) => n = m) /\ (Low(n) = Low(m) => n = m)
BY DEF Nodes, Top, Low

\* Every node is the upper or the lower one of a name.
LEMMA NodeCases ==
  ASSUME NEW x \in Nodes
  PROVE  \E n \in Names : n = x[1] /\ ((x = Top(n) /\ x[2] = 0) \/ (x = Low(n) /\ x[2] = 1))
BY DEF Nodes, Top, Low

\* The empty table and the empty device are a table and a device.
LEMMA EmptyTyped == NoTable \in Tables /\ NoDev \in Devices
BY DEF NoTable, NoDev, Tables, Devices

\* What every operation of the device-mapper does to the device it names and
\* that it leaves all others alone.
Maps == [Nodes -> Devices]
Only(d, e, x) == e \in Maps /\ \A y \in Nodes \ {x} : e[y] = d[y]

\* A new device has the table and nothing else.
LEMMA CreateEffect ==
  ASSUME NEW d \in Maps, NEW x \in Nodes, NEW t \in Tables
  PROVE  LET e == dm_create_device(d, x, t)
         IN  Only(d, e, x) /\ e[x].live = t /\ e[x].inactive = NoTable /\ ~e[x].susp /\ e[x].users = 0 /\ ~e[x].deferred
BY EmptyTyped DEF dm_create_device, Maps, Only, Devices, NoDev

\* A removed device is gone.
LEMMA RemoveEffect ==
  ASSUME NEW d \in Maps, NEW x \in Nodes
  PROVE  LET e == dm_remove(d, x) IN Only(d, e, x) /\ e[x] = NoDev
BY EmptyTyped DEF dm_remove, Maps, Only

\* A deferred removal and its cancellation leave the tables alone.
LEMMA DeferEffect ==
  ASSUME NEW d \in Maps, NEW x \in Nodes
  PROVE  /\ LET e == dm_remove_deferred(d, x)
            IN  Only(d, e, x) /\ e[x].live = d[x].live /\ e[x].inactive = d[x].inactive /\ e[x].susp = d[x].susp
         /\ LET e == dm_cancel_deferred_removal(d, x)
            IN  Only(d, e, x) /\ e[x].live = d[x].live /\ e[x].inactive = d[x].inactive /\ e[x].susp = d[x].susp
                /\ ~e[x].deferred
BY DEF dm_remove_deferred, dm_cancel_deferred_removal, Maps, Only, Devices

\* A reload only fills the inactive table.
LEMMA ReloadEffect ==
  ASSUME NEW d \in Maps, NEW x \in Nodes, NEW t \in Tables
  PROVE  LET e == dm_reload(d, x, t)
         IN  Only(d, e, x) /\ e[x].live = d[x].live /\ e[x].inactive = t /\ e[x].susp = d[x].susp
             /\ e[x].deferred = d[x].deferred
BY DEF dm_reload, Maps, Only, Devices

\* A clear only empties the inactive table.
LEMMA ClearEffect ==
  ASSUME NEW d \in Maps, NEW x \in Nodes
  PROVE  LET e == dm_clear_device(d, x)
         IN  Only(d, e, x) /\ e[x].live = d[x].live /\ e[x].inactive = NoTable /\ e[x].susp = d[x].susp
             /\ e[x].deferred = d[x].deferred
BY EmptyTyped DEF dm_clear_device, Maps, Only, Devices

\* A suspend leaves the tables alone.
LEMMA SuspendEffect ==
  ASSUME NEW d \in Maps, NEW x \in Nodes
  PROVE  LET e == dm_suspend(d, x)
         IN  Only(d, e, x) /\ e[x].live = d[x].live /\ e[x].inactive = d[x].inactive /\ e[x].susp
             /\ e[x].deferred = d[x].deferred
BY DEF dm_suspend, Maps, Only, Devices

\* A resume makes the waiting table live, if there is one.
LEMMA ResumeEffect ==
  ASSUME NEW d \in Maps, NEW x \in Nodes
  PROVE  LET e == dm_resume(d, x)
         IN  Only(d, e, x) /\ e[x].live = Resumed(d, x) /\ e[x].inactive = NoTable /\ ~e[x].susp
             /\ e[x].deferred = d[x].deferred
BY EmptyTyped DEF dm_resume, Resumed, Maps, Only, Devices

\* "key wipe" takes the key from the live table and nothing else.
LEMMA WipeEffect ==
  ASSUME NEW d \in Maps, NEW x \in Nodes
  PROVE  LET e == dm_key_wipe(d, x)
         IN  Only(d, e, x) /\ e[x].inactive = d[x].inactive /\ e[x].susp = d[x].susp /\ e[x].deferred = d[x].deferred
             /\ e[x].live.key = "none" /\ e[x].live.type = d[x].live.type /\ e[x].live.vol = d[x].live.vol
             /\ e[x].live.low = d[x].live.low
BY DEF dm_key_wipe, Maps, Only, Devices, Tables

\* "key set" puts a key into the live table and leaves the volume.
LEMMA KeySetEffect ==
  ASSUME NEW d \in Maps, NEW x \in Nodes, NEW v \in Vols, NEW r \in BOOLEAN
  PROVE  LET e == dm_key_set(d, x, v, r)
         IN  Only(d, e, x) /\ e[x].inactive = d[x].inactive /\ e[x].susp = d[x].susp /\ e[x].deferred = d[x].deferred
             /\ e[x].live.key = v /\ e[x].live.type = d[x].live.type /\ e[x].live.vol = d[x].live.vol
             /\ e[x].live.low = d[x].live.low
<1> DEFINE w == [d EXCEPT ![x].live.key = v]
           e == [w EXCEPT ![x].live.ring = r]
<1>1. Only(d, w, x) /\ w[x].inactive = d[x].inactive /\ w[x].susp = d[x].susp /\ w[x].deferred = d[x].deferred
      /\ w[x].live.key = v /\ w[x].live.type = d[x].live.type /\ w[x].live.vol = d[x].live.vol
      /\ w[x].live.low = d[x].live.low
  BY DEF Maps, Only, Devices, Tables
<1>2. w \in Maps
  BY <1>1 DEF Only
<1> HIDE DEF w
<1>3. Only(w, e, x) /\ e[x].inactive = w[x].inactive /\ e[x].susp = w[x].susp /\ e[x].deferred = w[x].deferred
      /\ e[x].live.key = w[x].live.key /\ e[x].live.type = w[x].live.type /\ e[x].live.vol = w[x].live.vol
      /\ e[x].live.low = w[x].live.low
  BY <1>2 DEF Maps, Only, Devices, Tables
<1>4. dm_key_set(d, x, v, r) = e
  BY DEF dm_key_set, w
<1>5. QED BY <1>1, <1>3, <1>4 DEF Only

\* An error target has no volume, no key and no lower layer.
LEMMA ErrorEffect ==
  ASSUME NEW d \in Maps, NEW x \in Nodes
  PROVE  LET e == dm_error_device(d, x)
         IN  Only(d, e, x) /\ e[x].inactive = NoTable /\ ~e[x].susp /\ e[x].deferred = d[x].deferred
             /\ e[x].live.key = "none" /\ e[x].live.type = "error" /\ e[x].live.vol = "none" /\ ~e[x].live.low
<1> DEFINE t == dm_error_target(d[x].live.size)
<1>1. t \in Tables /\ t.key = "none" /\ t.type = "error" /\ t.vol = "none" /\ ~t.low
  BY DEF dm_error_target, Maps, Devices, Tables, NoTable
<1>2. dm_error_device(d, x) = [d EXCEPT ![x].live = t, ![x].inactive = NoTable, ![x].susp = FALSE]
  BY DEF dm_error_device
<1> HIDE DEF t
<1>3. LET e == dm_error_device(d, x)
      IN  Only(d, e, x) /\ e[x].live = t /\ e[x].inactive = NoTable /\ ~e[x].susp /\ e[x].deferred = d[x].deferred
  <2>1. ASSUME NEW s \in Tables
        PROVE  LET e == [d EXCEPT ![x].live = s, ![x].inactive = NoTable, ![x].susp = FALSE]
               IN  Only(d, e, x) /\ e[x].live = s /\ e[x].inactive = NoTable /\ ~e[x].susp
                   /\ e[x].deferred = d[x].deferred
    BY EmptyTyped DEF Maps, Only, Devices
  <2>2. QED BY <1>1, <1>2, <2>1
<1>4. QED BY <1>1, <1>3

\* A user more leaves the device as it is.
LEMMA OpenEffect ==
  ASSUME NEW d \in Maps, NEW x \in Nodes, NEW e, e = [d EXCEPT ![x].users = 1]
  PROVE  Only(d, e, x) /\ e[x].live = d[x].live /\ e[x].inactive = d[x].inactive /\ e[x].susp = d[x].susp
         /\ e[x].deferred = d[x].deferred
BY DEF Maps, Only, Devices

\* The last user leaves: the device stays as it is or a deferred removal happens.
LEMMA ClosedEffect ==
  ASSUME NEW d \in Maps, NEW x \in Nodes
  PROVE  LET e == Closed(d, x)
         IN  /\ Only(d, e, x)
             /\ \/ d[x].deferred /\ e[x] = NoDev
                \/ e[x].live = d[x].live /\ e[x].inactive = d[x].inactive /\ e[x].susp = d[x].susp
                   /\ e[x].deferred = d[x].deferred
<1> DEFINE u == [d EXCEPT ![x].users = 0]
<1>1. Only(d, u, x) /\ u[x].live = d[x].live /\ u[x].inactive = d[x].inactive /\ u[x].susp = d[x].susp
      /\ u[x].deferred = d[x].deferred
  BY DEF Maps, Only, Devices
<1>2. Only(u, dm_remove(u, x), x) /\ dm_remove(u, x)[x] = NoDev
  BY <1>1, RemoveEffect DEF Only
<1>3. QED BY <1>1, <1>2 DEF Closed, Only

\* Updates of the process table and of the history.

\* A process that does nothing.
LEMMA IdleTyped == Idle \in Calls
<1>1. RetryCount \in Nat /\ 0 \in 0..RetryCount
  BY ActivationAssumption
<1>2. QED BY <1>1 DEF Idle, Calls, Points

\* Goto moves the program point and nothing else.
LEMMA GotoEffect ==
  ASSUME TypeOK, NEW p \in Procs, NEW s \in Points, Goto(p, s)
  PROVE  /\ proc' \in [Procs -> Calls]
         /\ \A q \in Procs \ {p} : proc'[q] = proc[q]
         /\ proc'[p].pc = s /\ proc'[p].op = proc[p].op /\ proc'[p].n = proc[p].n /\ proc'[p].vol = proc[p].vol
         /\ proc'[p].from = proc[p].from /\ proc'[p].gone = proc[p].gone /\ proc'[p].low = proc[p].low
         /\ proc'[p].refresh = proc[p].refresh /\ proc'[p].awake = proc[p].awake
BY DEF TypeOK, Goto, Calls

\* Return ends the command.
LEMMA ReturnEffect ==
  ASSUME TypeOK, NEW p \in Procs, Return(p)
  PROVE  /\ proc' \in [Procs -> Calls]
         /\ \A q \in Procs \ {p} : proc'[q] = proc[q]
         /\ proc'[p] = Idle /\ proc'[p].pc = "idle" /\ proc'[p].op = "none" /\ proc'[p].n = "none"
BY IdleTyped DEF TypeOK, Return, Idle

\* Fail ends the command and keeps the keyrings typed.
LEMMA FailEffect ==
  ASSUME TypeOK, NEW p \in Procs, Fail(p)
  PROVE  /\ proc' \in [Procs -> Calls] /\ ring' \in [Procs -> Vols \cup {"none"}]
         /\ \A q \in Procs \ {p} : proc'[q] = proc[q]
         /\ proc'[p] = Idle /\ proc'[p].pc = "idle" /\ proc'[p].op = "none" /\ proc'[p].n = "none"
<1>1. ring' \in [Procs -> Vols \cup {"none"}]
  BY DEF TypeOK, Fail, crypt_drop_keyring_key
<1>2. QED BY <1>1, ReturnEffect DEF Fail

\* Forget marks those at work on the name and changes nothing else.
LEMMA ForgetEffect ==
  ASSUME NEW pr \in [Procs -> Calls], NEW n \in Names
  PROVE  LET f == Forget(pr, n)
         IN  /\ f \in [Procs -> Calls]
             /\ \A q \in Procs :
                  /\ f[q].pc = pr[q].pc /\ f[q].op = pr[q].op /\ f[q].n = pr[q].n /\ f[q].vol = pr[q].vol
                  /\ f[q].from = pr[q].from /\ f[q].low = pr[q].low /\ f[q].refresh = pr[q].refresh
                  /\ f[q].awake = pr[q].awake
                  /\ IF pr[q].op \in {"refresh", "resize", "resume", "close"} /\ pr[q].n = n
                     THEN f[q].gone ELSE f[q] = pr[q]
<1>1. ASSUME NEW c \in Calls, NEW e, e = [c EXCEPT !.gone = TRUE]
      PROVE  e \in Calls /\ e.gone /\ e.pc = c.pc /\ e.op = c.op /\ e.n = c.n /\ e.vol = c.vol
             /\ e.from = c.from /\ e.low = c.low /\ e.refresh = c.refresh /\ e.awake = c.awake
  BY <1>1 DEF Calls
<1> DEFINE f == Forget(pr, n)
<1>2. \A q \in Procs : f[q] = IF pr[q].op \in {"refresh", "resize", "resume", "close"} /\ pr[q].n = n
                              THEN [pr[q] EXCEPT !.gone = TRUE] ELSE pr[q]
  BY DEF Forget
<1>3. \A q \in Procs : pr[q] \in Calls
  OBVIOUS
<1>4. \A q \in Procs : f[q] \in Calls
  BY <1>1, <1>2, <1>3
<1>5. f \in [Procs -> Calls]
  BY <1>4 DEF Forget
<1>6. ASSUME NEW q \in Procs
      PROVE  /\ f[q].pc = pr[q].pc /\ f[q].op = pr[q].op /\ f[q].n = pr[q].n /\ f[q].vol = pr[q].vol
             /\ f[q].from = pr[q].from /\ f[q].low = pr[q].low /\ f[q].refresh = pr[q].refresh
             /\ f[q].awake = pr[q].awake
             /\ IF pr[q].op \in {"refresh", "resize", "resume", "close"} /\ pr[q].n = n
                THEN f[q].gone ELSE f[q] = pr[q]
  <2>1. pr[q] \in Calls /\ (f[q] = pr[q] \/ f[q] = [pr[q] EXCEPT !.gone = TRUE])
    BY <1>2, <1>3
  <2>2. /\ f[q].pc = pr[q].pc /\ f[q].op = pr[q].op /\ f[q].n = pr[q].n /\ f[q].vol = pr[q].vol
        /\ f[q].from = pr[q].from /\ f[q].low = pr[q].low /\ f[q].refresh = pr[q].refresh
        /\ f[q].awake = pr[q].awake
    BY <1>1, <2>1
  <2>3. IF pr[q].op \in {"refresh", "resize", "resume", "close"} /\ pr[q].n = n
        THEN f[q].gone ELSE f[q] = pr[q]
    BY <1>1, <1>2, <1>3
  <2>4. QED BY <2>2, <2>3
<1>7. QED BY <1>5, <1>6

\* Torn adds a reason to one name.
LEMMA TornEffect ==
  ASSUME TypeOK, NEW n \in Names, NEW why \in Reasons, Torn(n, why)
  PROVE  /\ torn' \in [Names -> SUBSET Reasons]
         /\ why \in torn'[n] /\ torn[n] \subseteq torn'[n]
         /\ \A m \in Names \ {n} : torn'[m] = torn[m]
BY DEF TypeOK, Torn

\* What a name keeps when nobody touches it.
Untouched(n) ==
  /\ kind' = kind /\ torn'[n] = torn[n]
  /\ dm'[Top(n)] = dm[Top(n)] /\ dm'[Low(n)] = dm[Low(n)]
  /\ \A q \in Procs : Name(q) = n \/ Name(q)' = n => proc'[q] = proc[q]

\* The invariant of a name survives a step that does not touch it.
LEMMA Elsewhere ==
  ASSUME NEW n \in Names, NameInv(n), Untouched(n)
  PROVE  NameInv(n)'
<1> USE DEF Untouched
<1>1. TopInv(n)'
  BY DEF NameInv, TopInv, TopTableOK, StackedKind
<1>2. \A q \in Procs : Tied(q, n)' => Tied(q, n) /\ Vol(q)' = Vol(q)
  BY DEF Tied, Name, Vol
<1>3. OwnerInv(n)'
  <2>1. \A q \in Procs : Tied(q, n)' => dm_status_device(dm, Top(n))'
    BY <1>2 DEF NameInv, OwnerInv, dm_status_device
  <2>2. ASSUME Pure(n, {"reused"})'
        PROVE  /\ (\E v \in Vols \cup {"none"} : Owner(n, v))'
               /\ OwnKey(dm[Top(n)].live, dm[Top(n)].susp)'
    <3>1. PICK v \in Vols \cup {"none"} : Owner(n, v)
      BY <2>2 DEF NameInv, OwnerInv, Pure
    <3>2. Owner(n, v)'
      BY <1>2, <3>1 DEF Owner
    <3>3. OwnKey(dm[Top(n)].live, dm[Top(n)].susp)'
      BY <2>2 DEF NameInv, OwnerInv, Pure, OwnKey
    <3>4. QED BY <3>2, <3>3
  <2>3. QED BY <2>1, <2>2 DEF OwnerInv
<1>4. SuspInv(n)'
  BY DEF NameInv, SuspInv, Pure, Name, KeyLeft
<1>5. \A q \in Procs : Name(q) = n /\ CaresForLow(q) => Name(q)' = n /\ CaresForLow(q)'
  BY DEF CaresForLow, Name, Stacked, Kind, Vol, At
<1>6. StackInv(n)'
  BY <1>5 DEF NameInv, StackInv, Pure, Name, At, dm_status_device
<1>7. QED BY <1>1, <1>3, <1>4, <1>6 DEF NameInv

\* Parts of the invariant of a name that a step of process p keeps when it
\* leaves the device of the user alone.
TopSame(n) ==
  /\ dm'[Top(n)].live = dm[Top(n)].live /\ dm'[Top(n)].inactive = dm[Top(n)].inactive
  /\ dm'[Top(n)].susp = dm[Top(n)].susp /\ (dm'[Top(n)].deferred => dm[Top(n)].deferred)
Others(p) == \A q \in Procs \ {p} : proc'[q] = proc[q]

\* The tables stay in order when they do not change.
LEMMA TopFrame ==
  ASSUME NEW n \in Names, TopInv(n), TopSame(n), kind' = kind, torn[n] \subseteq torn'[n]
  PROVE  TopInv(n)'
BY DEF TopInv, TopSame, TopTableOK, StackedKind

\* The owner stays when the tables do and nobody new is tied to the device.
LEMMA OwnerFrame ==
  ASSUME NEW n \in Names, OwnerInv(n), torn[n] \subseteq torn'[n], TopSame(n),
         \A q \in Procs : Tied(q, n)' => Tied(q, n) /\ Vol(q)' = Vol(q)
  PROVE  OwnerInv(n)'
<1>1. \A q \in Procs : Tied(q, n)' => dm_status_device(dm, Top(n))'
  BY DEF OwnerInv, dm_status_device, TopSame
<1>2. ASSUME Pure(n, {"reused"})'
      PROVE  /\ (\E v \in Vols \cup {"none"} : Owner(n, v))'
             /\ OwnKey(dm[Top(n)].live, dm[Top(n)].susp)'
  <2>1. PICK v \in Vols \cup {"none"} : Owner(n, v)
    BY <1>2 DEF OwnerInv, Pure
  <2>2. Owner(n, v)'
    BY <2>1 DEF Owner, TopSame
  <2>3. OwnKey(dm[Top(n)].live, dm[Top(n)].susp)'
    BY <1>2 DEF OwnerInv, Pure, OwnKey, TopSame
  <2>4. QED BY <2>2, <2>3
<1>3. QED BY <1>1, <1>2 DEF OwnerInv

\* Responsibility stays when the tables do and p keeps its share or reports.
LEMMA SuspFrame ==
  ASSUME NEW n \in Names, SuspInv(n), torn[n] \subseteq torn'[n], TopSame(n), NEW p \in Procs, Others(p),
         Name(p) = n /\ proc[p].pc \in Loaded =>
           (Name(p)' = n /\ proc'[p].pc \in Loaded) \/ torn'[n] \cap {"killed", "fault"} # {},
         Name(p) = n /\ proc[p].pc \in Holding =>
           (Name(p)' = n /\ proc'[p].pc \in Holding) \/ torn'[n] \cap {"killed", "fault"} # {}
  PROVE  SuspInv(n)'
<1> SUFFICES ASSUME Pure(n, {"killed", "fault"})'
             PROVE  /\ (dm[Top(n)].inactive # NoTable => \E q \in Procs : Name(q) = n /\ proc[q].pc \in Loaded)'
                    /\ (KeyLeft(n) =>
                          \E q \in Procs : Name(q) = n /\ proc[q].pc \in Holding)'
  BY DEF SuspInv
<1>1. Pure(n, {"killed", "fault"})
  BY DEF Pure
<1>2. \A q \in Procs : Name(q) = n /\ proc[q].pc \in Loaded => Name(q)' = n /\ proc'[q].pc \in Loaded
  BY DEF Others, Name, Pure
<1>3. \A q \in Procs : Name(q) = n /\ proc[q].pc \in Holding => Name(q)' = n /\ proc'[q].pc \in Holding
  BY DEF Others, Name, Pure
<1>4. QED BY <1>1, <1>2, <1>3 DEF SuspInv, TopSame, KeyLeft, Pure

\* The stack stays whole when the upper table keeps its layer, a lower layer that
\* appears has p to care for it, and p keeps caring for the one there was.
LEMMA StackFrame ==
  ASSUME NEW n \in Names, StackInv(n), torn[n] \subseteq torn'[n], kind' = kind, NEW p \in Procs, Others(p),
         dm'[Top(n)].live.low = dm[Top(n)].live.low, dm'[Top(n)].live.type = dm[Top(n)].live.type,
         dm_status_device(dm', Low(n)) => dm_status_device(dm, Low(n)) \/ (Name(p)' = n /\ CaresForLow(p)'),
         Name(p) = n /\ CaresForLow(p) =>
           \/ Name(p)' = n /\ CaresForLow(p)'
           \/ torn'[n] \cap Interference # {}
           \/ ~dm_status_device(dm', Low(n)) \/ dm[Top(n)].live.low,
         Name(p)' = n /\ At(p, "cremove")' /\ ~proc'[p].gone =>
           Name(p) = n /\ At(p, "cremove") /\ ~proc[p].gone /\ proc'[p].low = proc[p].low
  PROVE  StackInv(n)'
<1> SUFFICES ASSUME Pure(n, Interference)'
             PROVE  /\ (\A q \in Procs :
                          Name(q) = n /\ At(q, "cremove") /\ ~proc[q].gone =>
                            dm_status_device(dm, Top(n)) /\ proc[q].low = dm[Top(n)].live.low)'
                    /\ (dm_status_device(dm, Low(n)) =>
                          dm[Top(n)].live.low \/ \E q \in Procs : Name(q) = n /\ CaresForLow(q))'
  BY DEF StackInv
<1>1. Pure(n, Interference)
  BY DEF Pure
<1>2. ASSUME NEW q \in Procs, Name(q)' = n, At(q, "cremove")', ~proc'[q].gone
      PROVE  dm_status_device(dm, Top(n))' /\ proc'[q].low = dm'[Top(n)].live.low
  BY <1>1, <1>2 DEF StackInv, Others, Name, At, dm_status_device
<1>3. ASSUME dm_status_device(dm', Low(n)), ~dm'[Top(n)].live.low
      PROVE  \E q \in Procs : Name(q)' = n /\ CaresForLow(q)'
  <2>1. CASE Name(p)' = n /\ CaresForLow(p)'
    BY <2>1
  <2>2. CASE ~(Name(p)' = n /\ CaresForLow(p)')
    <3>1. PICK q \in Procs : Name(q) = n /\ CaresForLow(q)
      BY <1>1, <1>3, <2>2 DEF StackInv
    <3>2. q # p
      BY <1>3, <2>2, <3>1 DEF Pure
    <3>3. Name(q)' = n /\ CaresForLow(q)'
      BY <3>1, <3>2 DEF Others, Name, CaresForLow, At, Stacked, Kind, Vol
    <3>4. QED BY <3>3
  <2>3. QED BY <2>1, <2>2
<1>4. QED BY <1>2, <1>3 DEF dm_status_device

\* A step of process p leaves the other processes and the other names alone.
ProcOK(p) ==
  /\ PcOK(p)
  /\ At(p, "low") => Stacked(p)
  /\ proc[p].pc \in {"err0", "err1"} => "burnt" \in torn[Name(p)]
Typed == /\ kind' = kind /\ proc' \in [Procs -> Calls] /\ ring' \in [Procs -> Vols \cup {"none"}]
         /\ torn' \in [Names -> SUBSET Reasons] /\ dm' \in Maps
         /\ \A x \in Nodes : WellFormed(dm'[x])
StepOf(p, n) ==
  /\ Typed /\ Others(p)
  /\ Name(p) \in {n, "none"} /\ Name(p)' \in {n, "none"}
  /\ torn[n] \subseteq torn'[n] /\ \A m \in Names \ {n} : torn'[m] = torn[m]
  /\ \A m \in Names \ {n} : dm'[Top(m)] = dm[Top(m)] /\ dm'[Low(m)] = dm[Low(m)]
  /\ ProcOK(p)'

\* A step of p on the name n keeps the invariant when it keeps that of n.
LEMMA OneName ==
  ASSUME ActInv, NEW p \in Procs, NEW n \in Names, StepOf(p, n), NameInv(n)'
  PROVE  ActInv'
<1>1. TypeOK'
  BY DEF StepOf, Typed, ActInv, TypeOK, Maps
<1>2. ProcInv'
  <2>1. ASSUME NEW q \in Procs \ {p} PROVE ProcOK(q)'
    <3>1. proc'[q] = proc[q] /\ kind' = kind
      BY DEF StepOf, Others, Typed
    <3>2. ProcOK(q)
      BY DEF ActInv, ProcInv, ProcOK
    <3>3. Name(q) \in Names => torn[Name(q)] \subseteq torn'[Name(q)]
      BY DEF StepOf
    <3>4. PcOK(q)'
      BY <3>1, <3>2 DEF ProcOK, PcOK
    <3>5. proc[q].pc \in {"err0", "err1"} => Name(q) \in Names
      BY <3>2 DEF ProcOK, PcOK, Name
    <3>6. QED BY <3>1, <3>2, <3>3, <3>4, <3>5 DEF ProcOK, Name, At, Stacked, Kind, Vol
  <2>2. QED BY <2>1 DEF StepOf, ProcInv, ProcOK
<1>3. ASSUME NEW m \in Names \ {n} PROVE NameInv(m)'
  <2>1. Untouched(m)
    BY ActivationAssumption DEF StepOf, Typed, Others, Untouched, Name
  <2>2. QED BY <2>1, Elsewhere DEF ActInv
<1>4. QED BY <1>1, <1>2, <1>3 DEF ActInv

\* A step of process p that leaves the device of the user as it is.
Gives(p, n) ==
  /\ \A m \in Names : Tied(p, m)' => Tied(p, m) /\ Vol(p)' = Vol(p)
  /\ proc[p].pc \in Loaded =>
       (Name(p)' = n /\ proc'[p].pc \in Loaded) \/ torn'[n] \cap {"killed", "fault"} # {}
  /\ proc[p].pc \in Holding =>
       (Name(p)' = n /\ proc'[p].pc \in Holding) \/ torn'[n] \cap {"killed", "fault"} # {}
  /\ CaresForLow(p) =>
       \/ Name(p)' = n /\ CaresForLow(p)'
       \/ torn'[n] \cap Interference # {}
       \/ ~dm_status_device(dm', Low(n)) \/ dm[Top(n)].live.low
  /\ At(p, "cremove")' => At(p, "cremove") /\ proc'[p].gone = proc[p].gone /\ proc'[p].low = proc[p].low
  /\ dm_status_device(dm', Low(n)) => dm_status_device(dm, Low(n)) \/ (Name(p)' = n /\ CaresForLow(p)')

\* A step that leaves the device of the user as it is keeps the invariant.
LEMMA PlainStep ==
  ASSUME ActInv, NEW p \in Procs, NEW n \in Names, Name(p) = n, StepOf(p, n), TopSame(n), Gives(p, n)
  PROVE  ActInv'
<1>1. NameInv(n) /\ torn[n] \subseteq torn'[n] /\ kind' = kind /\ Others(p)
  BY DEF ActInv, StepOf, Typed
<1>2. TopInv(n)'
  BY <1>1, TopFrame DEF NameInv
<1>3. \A q \in Procs : Tied(q, n)' => Tied(q, n) /\ Vol(q)' = Vol(q)
  BY <1>1 DEF Others, Gives, Tied, Name, Vol
<1>4. OwnerInv(n)'
  BY <1>1, <1>3, OwnerFrame DEF NameInv
<1>5. SuspInv(n)'
  BY <1>1, SuspFrame DEF NameInv, Gives
<1>6. StackInv(n)'
  BY <1>1, StackFrame DEF NameInv, Gives, TopSame
<1>7. QED BY <1>2, <1>4, <1>5, <1>6, OneName DEF NameInv

\* Only the lower layer of a name changes, if anything.
LowOnly(n) == Only(dm, dm', Low(n)) /\ WellFormed(dm'[Low(n)])
Reports(p) == torn' = torn \/ \E why \in Reasons : Torn(Name(p), why)

\* Nothing changes in the kernel.
LEMMA DmKept ==
  ASSUME ActInv, dm' = dm, NEW n \in Names
  PROVE  LowOnly(n)
<1>1. dm \in Maps /\ Low(n) \in Nodes /\ \A x \in Nodes : WellFormed(dm[x])
  BY NodeFacts DEF ActInv, TypeOK, Maps
<1>2. QED BY <1>1 DEF LowOnly, Only

\* What follows for the names when one lower layer changes.
LEMMA LowOnlyFacts ==
  ASSUME ActInv, NEW n \in Names, LowOnly(n)
  PROVE  /\ TopSame(n) /\ dm' \in Maps
         /\ \A x \in Nodes : WellFormed(dm'[x])
         /\ \A m \in Names \ {n} : dm'[Top(m)] = dm[Top(m)] /\ dm'[Low(m)] = dm[Low(m)]
<1>1. \A m \in Names : Top(m) \in Nodes /\ Low(m) \in Nodes /\ Top(m) # Low(n) /\ (m # n => Low(m) # Low(n))
  BY NodeFacts
<1>2. QED BY <1>1 DEF ActInv, TypeOK, LowOnly, Only, TopSame

\* The history of the name grows, if anything.
LEMMA ReportsFacts ==
  ASSUME ActInv, NEW p \in Procs, Name(p) \in Names, Reports(p)
  PROVE  /\ torn' \in [Names -> SUBSET Reasons] /\ torn[Name(p)] \subseteq torn'[Name(p)]
         /\ \A m \in Names \ {Name(p)} : torn'[m] = torn[m]
BY TornEffect DEF ActInv, TypeOK, Reports

\* A process that is not idle works on a name, which has its invariant.
LEMMA WorkerFacts ==
  ASSUME ActInv, NEW p \in Procs, proc[p].pc # "idle"
  PROVE  Name(p) \in Names /\ ProcOK(p) /\ NameInv(Name(p)) /\ "none" \notin Names
<1>1. ProcOK(p) /\ "none" \notin Names
  BY ActivationAssumption DEF ActInv, ProcInv, ProcOK
<1>2. QED BY <1>1 DEF ActInv, ProcOK, PcOK, Name

\* The call ends.
LEMMA Leave ==
  ASSUME ActInv, NEW p \in Procs, proc[p].pc # "idle", Return(p), Reports(p), LowOnly(Name(p)), kind' = kind,
         ring' \in [Procs -> Vols \cup {"none"}],
         proc[p].pc \in Loaded \cup Holding => torn'[Name(p)] \cap {"killed", "fault"} # {},
         CaresForLow(p) => \/ torn'[Name(p)] \cap Interference # {}
                           \/ ~dm_status_device(dm', Low(Name(p))) \/ dm[Top(Name(p))].live.low,
         dm_status_device(dm', Low(Name(p))) => dm_status_device(dm, Low(Name(p)))
  PROVE  ActInv'
<1> DEFINE n == Name(p)
<1>1. n \in Names /\ ProcOK(p) /\ "none" \notin Names
  BY WorkerFacts
<1>2. /\ proc' \in [Procs -> Calls] /\ Others(p) /\ Name(p)' = "none"
      /\ proc'[p].pc = "idle" /\ proc'[p].op = "none"
  BY ReturnEffect DEF ActInv, Others, Name
<1>3. ProcOK(p)'
  BY <1>2 DEF ProcOK, PcOK, At, Name
<1>4. StepOf(p, n)
  BY <1>1, <1>2, <1>3, LowOnlyFacts, ReportsFacts DEF StepOf, Typed
<1>5. TopSame(n)
  BY <1>1, LowOnlyFacts
<1>6. Gives(p, n)
  BY <1>1, <1>2 DEF Gives, Tied, At
<1>7. QED BY <1>1, <1>4, <1>5, <1>6, PlainStep

\* The call goes on.
LEMMA Move ==
  ASSUME ActInv, NEW p \in Procs, proc[p].pc # "idle", NEW s \in Points, Goto(p, s), Reports(p),
         LowOnly(Name(p)), kind' = kind, ring' \in [Procs -> Vols \cup {"none"}], ProcOK(p)',
         s \in ReloadSteps => proc[p].pc \in ReloadSteps, s # "cremove",
         proc[p].pc \in Loaded => s \in Loaded \/ torn'[Name(p)] \cap {"killed", "fault"} # {},
         proc[p].pc \in Holding => s \in Holding \/ torn'[Name(p)] \cap {"killed", "fault"} # {},
         CaresForLow(p) => CaresForLow(p)' \/ torn'[Name(p)] \cap Interference # {},
         dm_status_device(dm', Low(Name(p))) => dm_status_device(dm, Low(Name(p))) \/ CaresForLow(p)'
  PROVE  ActInv'
<1> DEFINE n == Name(p)
<1>1. n \in Names /\ ProcOK(p) /\ "none" \notin Names
  BY WorkerFacts
<1>2. /\ proc' \in [Procs -> Calls] /\ Others(p) /\ Name(p)' = Name(p) /\ Vol(p)' = Vol(p)
      /\ proc'[p].pc = s /\ proc'[p].op = proc[p].op /\ proc'[p].gone = proc[p].gone
  BY GotoEffect DEF ActInv, Others, Name, Vol
<1>4. StepOf(p, n)
  BY <1>1, <1>2, LowOnlyFacts, ReportsFacts DEF StepOf, Typed
<1>5. TopSame(n)
  BY <1>1, LowOnlyFacts
<1>6. Gives(p, n)
  BY <1>1, <1>2 DEF Gives, Tied, At, Name
<1>7. QED BY <1>1, <1>4, <1>5, <1>6, PlainStep

\* A call that has touched nothing ends, or goes on where it does not matter.
Careless == {"check", "key", "devices", "excl", "low", "lload", "lresume", "query", "load", "iload", "tload",
             "rquery", "scheck", "ssusp", "sdrop", "ucheck", "uset", "cquery", "cremove", "un1", "err1"}

\* At these points a process is responsible for nothing.
LEMMA CarelessFacts ==
  ASSUME NEW p \in Procs, proc[p].pc \in Careless
  PROVE  proc[p].pc # "idle" /\ proc[p].pc \notin Loaded \cup Holding /\ ~CaresForLow(p)
BY DEF Careless, Loaded, Holding, CaresForLow, At

\* It may end there.
LEMMA LeaveEarly ==
  ASSUME ActInv, NEW p \in Procs, proc[p].pc \in Careless, Return(p), Reports(p), dm' = dm, kind' = kind,
         ring' \in [Procs -> Vols \cup {"none"}]
  PROVE  ActInv'
<1>1. Name(p) \in Names
  BY CarelessFacts, WorkerFacts
<1>2. QED BY <1>1, CarelessFacts, DmKept, Leave

\* It may go on from there without touching the kernel.
LEMMA MoveEarly ==
  ASSUME ActInv, NEW p \in Procs, proc[p].pc \in Careless, NEW s \in Points, Goto(p, s), torn' = torn,
         dm' = dm, kind' = kind, ring' \in [Procs -> Vols \cup {"none"}], ProcOK(p)',
         s \in ReloadSteps => proc[p].pc \in ReloadSteps, s # "cremove"
  PROVE  ActInv'
<1>1. Name(p) \in Names
  BY CarelessFacts, WorkerFacts
<1>2. QED BY <1>1, CarelessFacts, DmKept, Move DEF Reports

\* The keyrings stay typed in all the error paths.
LEMMA RingKept ==
  ASSUME ActInv, NEW p \in Procs, ring' = ring \/ Fail(p)
  PROVE  ring' \in [Procs -> Vols \cup {"none"}]
BY FailEffect DEF ActInv, TypeOK

\* Within the steps of one command the program point is all that changes.
LEMMA OpenGoes ==
  ASSUME ActInv, NEW p \in Procs, proc[p].pc \in OpenSteps, NEW s \in OpenSteps, Goto(p, s), kind' = kind,
         s = "low" => Stacked(p)
  PROVE  s \in Points /\ ProcOK(p)'
<1>1. ProcOK(p)
  BY WorkerFacts DEF OpenSteps
<1>2. s \in Points
  BY DEF OpenSteps, Points
<1>3. /\ proc'[p].pc = s /\ proc'[p].op = proc[p].op /\ proc'[p].n = proc[p].n /\ proc'[p].vol = proc[p].vol
      /\ proc'[p].refresh = proc[p].refresh
  BY <1>2, GotoEffect DEF ActInv
<1>4. proc[p].n \in Names /\ proc[p].op \in {"open", "refresh"} /\ proc[p].vol \in Vols
      /\ proc[p].refresh = (proc[p].op = "refresh")
  BY <1>1 DEF ProcOK, PcOK, OpenSteps, ReloadSteps, SuspendSteps, ResumeSteps, CloseSteps
<1>5. PcOK(p)'
  BY <1>3, <1>4 DEF PcOK
<1>6. QED BY <1>2, <1>3, <1>5 DEF ProcOK, OpenSteps, At, Stacked, Kind, Vol

\* The same for a reload, which reaches the error targets only after a failed
\* resume was recorded.
LEMMA ReloadGoes ==
  ASSUME ActInv, NEW p \in Procs, proc[p].pc \in ReloadSteps, NEW s \in ReloadSteps, Goto(p, s),
         s \in {"err0", "err1"} => "burnt" \in torn'[Name(p)]
  PROVE  s \in Points /\ ProcOK(p)'
<1>1. ProcOK(p)
  BY WorkerFacts DEF ReloadSteps
<1>2. s \in Points
  BY DEF ReloadSteps, Points
<1>3. /\ proc'[p].pc = s /\ proc'[p].op = proc[p].op /\ proc'[p].n = proc[p].n /\ proc'[p].vol = proc[p].vol
      /\ proc'[p].from = proc[p].from
  BY <1>2, GotoEffect DEF ActInv
<1>4. proc[p].n \in Names /\ proc[p].op \in {"refresh", "resize"} /\ proc[p].vol \in Vols /\ proc[p].from = proc[p].vol
  BY <1>1 DEF ProcOK, PcOK, OpenSteps, ReloadSteps, SuspendSteps, ResumeSteps, CloseSteps
<1>5. PcOK(p)'
  BY <1>3, <1>4 DEF PcOK
<1>6. QED BY <1>2, <1>3, <1>5 DEF ProcOK, ReloadSteps, At, Name

\* The same for luksSuspend.
LEMMA SuspendGoes ==
  ASSUME ActInv, NEW p \in Procs, proc[p].pc \in SuspendSteps, NEW s \in SuspendSteps, Goto(p, s)
  PROVE  s \in Points /\ ProcOK(p)'
<1>1. ProcOK(p)
  BY WorkerFacts DEF SuspendSteps
<1>2. s \in Points
  BY DEF SuspendSteps, Points
<1>3. /\ proc'[p].pc = s /\ proc'[p].op = proc[p].op /\ proc'[p].n = proc[p].n /\ proc'[p].vol = proc[p].vol
  BY <1>2, GotoEffect DEF ActInv
<1>4. proc[p].n \in Names /\ proc[p].op = "suspend" /\ proc[p].vol \in Vols
  BY <1>1 DEF ProcOK, PcOK, OpenSteps, ReloadSteps, SuspendSteps, ResumeSteps, CloseSteps
<1>5. PcOK(p)'
  BY <1>3, <1>4 DEF PcOK
<1>6. QED BY <1>2, <1>3, <1>5 DEF ProcOK, SuspendSteps, At

\* The same for luksResume.
LEMMA ResumeGoes ==
  ASSUME ActInv, NEW p \in Procs, proc[p].pc \in ResumeSteps, NEW s \in ResumeSteps, Goto(p, s)
  PROVE  s \in Points /\ ProcOK(p)'
<1>1. ProcOK(p)
  BY WorkerFacts DEF ResumeSteps
<1>2. s \in Points
  BY DEF ResumeSteps, Points
<1>3. /\ proc'[p].pc = s /\ proc'[p].op = proc[p].op /\ proc'[p].n = proc[p].n /\ proc'[p].vol = proc[p].vol
  BY <1>2, GotoEffect DEF ActInv
<1>4. proc[p].n \in Names /\ proc[p].op = "resume" /\ proc[p].vol \in Vols
  BY <1>1 DEF ProcOK, PcOK, OpenSteps, ReloadSteps, SuspendSteps, ResumeSteps, CloseSteps
<1>5. PcOK(p)'
  BY <1>3, <1>4 DEF PcOK
<1>6. QED BY <1>2, <1>3, <1>5 DEF ProcOK, ResumeSteps, At

\* _activate_check_status looks at the device only.
LEMMA CheckStatusStep ==
  ASSUME ActInv, NEW p \in Procs, _activate_check_status(p)
  PROVE  ActInv'
<1>1. At(p, "check") /\ dm' = dm /\ torn' = torn /\ kind' = kind /\ ring' = ring /\ (Return(p) \/ Goto(p, "key"))
  BY DEF _activate_check_status, Same, world
<1>2. CASE Return(p)
  BY <1>1, <1>2, LeaveEarly, RingKept DEF Reports, At, Careless
<1>3. CASE Goto(p, "key")
  BY <1>1, <1>3, MoveEarly, RingKept, OpenGoes DEF At, Careless, OpenSteps, ReloadSteps
<1>4. QED BY <1>1, <1>2, <1>3

\* _open_and_activate changes the keyring only.
LEMMA OpenKeyStep ==
  ASSUME ActInv, NEW p \in Procs, _open_and_activate(p)
  PROVE  ActInv'
<1>1. At(p, "key") /\ dm' = dm /\ torn' = torn /\ kind' = kind
  BY DEF _open_and_activate, world
<1>2. CASE Return(p) /\ ring' = ring
  BY <1>1, <1>2, LeaveEarly, RingKept DEF Reports, At, Careless
<1>3. CASE /\ Goto(p, IF Kind(p) = "tcrypt" THEN "excl" ELSE "devices")
           /\ crypt_volume_key_load_in_keyring(p, IF UseKeyring(Vol(p)) THEN Vol(p) ELSE ring[p])
  <2>1. ring' \in [Procs -> Vols \cup {"none"}]
    BY <1>3 DEF crypt_volume_key_load_in_keyring, ActInv, TypeOK, Calls, Vol
  <2>2. PICK s \in {"excl", "devices"} : Goto(p, s)
    BY <1>3
  <2>3. s \in OpenSteps /\ s # "low" /\ s \notin ReloadSteps /\ s # "cremove"
        /\ proc[p].pc \in Careless /\ proc[p].pc \in OpenSteps
    BY <1>1 DEF OpenSteps, ReloadSteps, At, Careless
  <2>4. s \in Points /\ ProcOK(p)'
    BY <1>1, <2>2, <2>3, OpenGoes
  <2>5. QED BY <1>1, <2>1, <2>2, <2>3, <2>4, MoveEarly
<1>4. QED BY <1>2, <1>3 DEF _open_and_activate

\* The check of the devices of a stack decides between reload and creation.
LEMMA CheckDevicesStep ==
  ASSUME ActInv, NEW p \in Procs, check_devices(p)
  PROVE  ActInv'
<1>1. At(p, "devices") /\ dm' = dm /\ torn' = torn /\ kind' = kind
  BY DEF check_devices, world
<1>2. CASE Fail(p)
  BY <1>1, <1>2, LeaveEarly, RingKept DEF Reports, At, Careless, Fail
<1>3. CASE Goto(p, "excl") /\ ring' = ring
  BY <1>1, <1>3, MoveEarly, RingKept, OpenGoes DEF At, Careless, OpenSteps, ReloadSteps
<1>4. CASE proc[p].refresh /\ Goto(p, "query") /\ ring' = ring
  <2>1. ProcOK(p) /\ "query" \in Points
    BY <1>1, WorkerFacts DEF At, Points
  <2>2. proc[p].op = "refresh" /\ proc[p].vol \in Vols /\ proc[p].n \in Names
    BY <1>1, <1>4, <2>1 DEF ProcOK, PcOK, At, OpenSteps, ReloadSteps, SuspendSteps, ResumeSteps, CloseSteps
  <2>3. proc'[p].pc = "query" /\ proc'[p].op = proc[p].op /\ proc'[p].n = proc[p].n /\ proc'[p].vol = proc[p].vol
    BY <1>4, <2>1, GotoEffect DEF ActInv
  <2>4. ProcOK(p)'
    BY <2>2, <2>3 DEF ProcOK, PcOK, At
  <2>5. QED BY <1>1, <1>4, <2>1, <2>4, MoveEarly, RingKept DEF At, Careless, ReloadSteps
<1>5. Fail(p) \/ (ring' = ring /\ (Goto(p, "excl") \/ (proc[p].refresh /\ Goto(p, "query"))))
  <2> DEFINE n == Name(p)
             dif == Kind(p) = "luks2i"
             r1 == proc[p].refresh /\ (dif => dm_status_device(dm, Low(n)))
             r2 == r1 /\ dm_status_device(dm, Top(n))
  <2>1. Fail(p) \/ (ring' = ring /\ proc' = [proc EXCEPT ![p].pc = IF r2 THEN "query" ELSE "excl"])
    BY DEF check_devices
  <2>2. CASE r2
    BY <2>1, <2>2 DEF Goto
  <2>3. CASE ~r2
    BY <2>1, <2>3 DEF Goto
  <2>4. QED BY <2>2, <2>3
<1>6. QED BY <1>2, <1>3, <1>4, <1>5

\* The exclusive open decides between takeover and creation.
LEMMA BlockAdjustStep ==
  ASSUME ActInv, NEW p \in Procs, device_block_adjust(p)
  PROVE  ActInv'
<1>1. At(p, "excl") /\ dm' = dm /\ torn' = torn /\ kind' = kind
  BY DEF device_block_adjust, world
<1>2. CASE Fail(p)
  BY <1>1, <1>2, LeaveEarly, RingKept DEF Reports, At, Careless, Fail
<1>3. ASSUME NEW s \in {"lload", "low", "top"}, Goto(p, s), s = "low" => Stacked(p), ring' = ring
      PROVE  ActInv'
  <2>1. s \in OpenSteps /\ s \notin ReloadSteps /\ s # "cremove" /\ proc[p].pc \in Careless /\ proc[p].pc \in OpenSteps
    BY <1>1 DEF OpenSteps, ReloadSteps, At, Careless
  <2>2. s \in Points /\ ProcOK(p)'
    BY <1>1, <1>3, <2>1, OpenGoes
  <2>3. QED BY <1>1, <1>3, <2>1, <2>2, RingKept, MoveEarly
<1>4. \/ Fail(p)
      \/ ring' = ring /\ \E s \in {"lload", "low", "top"} : Goto(p, s) /\ (s = "low" => Stacked(p))
  BY DEF device_block_adjust
<1>5. QED BY <1>2, <1>3, <1>4

\* The tables a call loads are those of its own volume.
LEMMA TablesOfCall ==
  ASSUME ActInv, NEW p \in Procs, Vol(p) \in Vols
  PROVE  /\ LowTable(p) \in Tables /\ LowTable(p).type # "none"
         /\ TopTable(p) \in Tables /\ TopTableOK(TopTable(p))
         /\ TopTable(p).vol = Vol(p) /\ TopTable(p).key = Vol(p)
         /\ proc[p].from = Vol(p) =>
              /\ NewTable(p) \in Tables /\ TopTableOK(NewTable(p))
              /\ NewTable(p).vol = Vol(p) /\ NewTable(p).key = Vol(p)
         /\ Stacked(p) = StackedKind(Vol(p))
<1>1. FullSize \in Nat /\ "none" \notin Vols
  BY ActivationAssumption
<1>2. proc[p].o \in Nat /\ proc[p].sz \in Nat /\ Vol(p) = proc[p].vol
  BY DEF ActInv, TypeOK, Calls, Vol
<1>3. check_retry(proc[p].o) \in Nat
  BY <1>2 DEF check_retry
<1>4. UseKeyring(Vol(p)) \in BOOLEAN
  BY DEF UseKeyring
<1>5. Stacked(p) = StackedKind(Vol(p)) /\ Stacked(p) \in BOOLEAN
  BY <1>1 DEF Stacked, StackedKind, Kind
<1>6. LowTable(p) \in Tables /\ LowTable(p).type # "none"
  BY <1>1, <1>2, <1>3 DEF LowTable, INTEGRITY_create_dmd_device, TCRYPT_activate, dm_integrity_target, dm_crypt_target, Tables
<1>7. /\ TopTable(p) \in Tables /\ TopTable(p).type = "crypt" /\ TopTable(p).vol = Vol(p) /\ TopTable(p).key = Vol(p)
      /\ TopTable(p).low = Stacked(p)
  BY <1>1, <1>3, <1>4, <1>5 DEF TopTable, dm_crypt_target, Tables
<1>8. ASSUME proc[p].from = Vol(p)
      PROVE  /\ NewTable(p) \in Tables /\ NewTable(p).type = "crypt" /\ NewTable(p).vol = Vol(p)
             /\ NewTable(p).key = Vol(p) /\ NewTable(p).low = Stacked(p)
  BY <1>2, <1>7, <1>8 DEF NewTable, Tables
<1>9. QED BY <1>5, <1>6, <1>7, <1>8 DEF TopTableOK

\* A command other than close has a volume, a reload the one it has queried.
LEMMA VolOf ==
  ASSUME ActInv, NEW p \in Procs, proc[p].pc # "idle", proc[p].pc \notin CloseSteps
  PROVE  /\ Vol(p) \in Vols /\ Name(p) \in Names /\ Top(Name(p)) \in Nodes /\ Low(Name(p)) \in Nodes
         /\ proc[p].pc \in ReloadSteps => proc[p].from = Vol(p)
<1>1. ProcOK(p) /\ Name(p) \in Names
  BY WorkerFacts
<1>2. QED BY <1>1, NodeFacts DEF ProcOK, PcOK, Vol, OpenSteps, ReloadSteps, SuspendSteps, ResumeSteps

\* The creator of a lower layer cares for it.
LEMMA LowCreateStep ==
  ASSUME ActInv, NEW p \in Procs, INTEGRITY_activate_dmd_device(p)
  PROVE  ActInv'
<1> DEFINE n == Name(p)  x == Low(n)
<1>1. At(p, "low") /\ torn' = torn /\ kind' = kind
  BY DEF INTEGRITY_activate_dmd_device, world
<1>2. CASE dm' = dm /\ Fail(p)
  BY <1>1, <1>2, LeaveEarly, RingKept DEF Reports, At, Careless, Fail
<1>3. CASE dm' = dm_create_device(dm, x, LowTable(p)) /\ Goto(p, "top") /\ ring' = ring
  <2>1. Vol(p) \in Vols /\ n \in Names /\ x \in Nodes /\ ProcOK(p)
    BY <1>1, VolOf, WorkerFacts DEF At, CloseSteps
  <2>2. Only(dm, dm', x) /\ dm'[x].live = LowTable(p) /\ dm'[x].inactive = NoTable
    BY <1>3, <2>1, TablesOfCall, CreateEffect DEF ActInv, TypeOK, Maps
  <2>3. LowOnly(n)
    BY <2>1, <2>2, TablesOfCall DEF LowOnly, WellFormed
  <2>4. "top" \in Points /\ ProcOK(p)'
    BY <1>1, <1>3, OpenGoes DEF At, OpenSteps
  <2>5. Stacked(p)
    BY <1>1, <2>1 DEF ProcOK
  <2>6. CaresForLow(p)'
    BY <1>1, <1>3, <2>4, <2>5, GotoEffect DEF CaresForLow, ActInv, Stacked, Kind, Vol
  <2>7. QED BY <1>1, <1>3, <2>3, <2>4, <2>6, RingKept, Move, CarelessFacts DEF At, Careless, ReloadSteps, Reports
<1>4. QED BY <1>2, <1>3 DEF INTEGRITY_activate_dmd_device

\* A takeover reloads a lower layer that is there.
LEMMA LowReloadStep ==
  ASSUME ActInv, NEW p \in Procs, reload_low(p)
  PROVE  ActInv'
<1> DEFINE n == Name(p)  x == Low(n)
<1>1. At(p, "lload") /\ torn' = torn /\ kind' = kind
  BY DEF reload_low, world
<1>2. CASE dm' = dm /\ Fail(p)
  BY <1>1, <1>2, LeaveEarly, RingKept DEF Reports, At, Careless, Fail
<1>3. CASE CanReload(x, LowTable(p)) /\ dm' = dm_reload(dm, x, LowTable(p)) /\ Goto(p, "lresume") /\ ring' = ring
  <2>1. Vol(p) \in Vols /\ n \in Names /\ x \in Nodes
    BY <1>1, VolOf DEF At, CloseSteps
  <2>2. Only(dm, dm', x) /\ dm'[x].live = dm[x].live /\ dm'[x].inactive = LowTable(p)
    BY <1>3, <2>1, TablesOfCall, ReloadEffect DEF ActInv, TypeOK, Maps
  <2>3. LowOnly(n) /\ dm_status_device(dm, x)
    BY <1>3, <2>1, <2>2, TablesOfCall DEF LowOnly, dm_status_device, CanReload, CanLoad, WellFormed
  <2>4. "lresume" \in Points /\ ProcOK(p)'
    BY <1>1, <1>3, OpenGoes DEF At, OpenSteps
  <2>5. QED BY <1>1, <1>3, <2>3, <2>4, RingKept, Move, CarelessFacts DEF At, Careless, ReloadSteps, Reports
<1>4. QED BY <1>2, <1>3 DEF reload_low

\* A resumed device is still there.
LEMMA Resumes ==
  ASSUME ActInv, NEW x \in Nodes, CanResume(dm, x), dm' = dm_resume(dm, x)
  PROVE  /\ Only(dm, dm', x) /\ WellFormed(dm'[x]) /\ dm_status_device(dm, x) /\ dm_status_device(dm', x)
         /\ dm'[x].live = Resumed(dm, x) /\ dm'[x].inactive = NoTable /\ ~dm'[x].susp
         /\ dm'[x].deferred = dm[x].deferred
<1>1. /\ Only(dm, dm', x) /\ dm'[x].live = Resumed(dm, x) /\ dm'[x].inactive = NoTable /\ ~dm'[x].susp
      /\ dm'[x].deferred = dm[x].deferred
  BY ResumeEffect DEF ActInv, TypeOK, Maps
<1>2. dm_status_device(dm, x) /\ Resumed(dm, x).type # "none"
  BY DEF CanResume, Resumed, ActInv, TypeOK, WellFormed, dm_status_device
<1>3. QED BY <1>1, <1>2 DEF WellFormed, dm_status_device

\* A takeover resumes the lower layer it has reloaded.
LEMMA LowResumeStep ==
  ASSUME ActInv, NEW p \in Procs, resume_low(p)
  PROVE  ActInv'
<1> DEFINE n == Name(p)  x == Low(n)
<1>1. At(p, "lresume") /\ kind' = kind
  BY DEF resume_low, world
<1>2. CASE dm' = dm /\ Fail(p) /\ Torn(Name(p), "fault")
  BY <1>1, <1>2, LeaveEarly, RingKept DEF Reports, At, Careless, Fail, Reasons
<1>3. CASE CanResume(dm, x) /\ dm' = dm_resume(dm, x) /\ Goto(p, "top") /\ ring' = ring /\ torn' = torn
  <2>1. n \in Names /\ x \in Nodes
    BY <1>1, VolOf DEF At, CloseSteps
  <2>2. LowOnly(n) /\ dm_status_device(dm, x)
    BY <1>3, <2>1, Resumes DEF LowOnly
  <2>4. "top" \in Points /\ ProcOK(p)'
    BY <1>1, <1>3, OpenGoes DEF At, OpenSteps
  <2>5. QED BY <1>1, <1>3, <2>2, <2>4, RingKept, Move, CarelessFacts DEF At, Careless, ReloadSteps, Reports
<1>4. QED BY <1>2, <1>3 DEF resume_low

\* A step on the device of the user alone.
TopOnly(n) == Only(dm, dm', Top(n)) /\ WellFormed(dm'[Top(n)])

\* What follows for the names when one device of the user changes.
LEMMA TopOnlyFacts ==
  ASSUME ActInv, NEW n \in Names, TopOnly(n)
  PROVE  /\ dm' \in Maps /\ \A x \in Nodes : WellFormed(dm'[x])
         /\ \A m \in Names \ {n} : dm'[Top(m)] = dm[Top(m)] /\ dm'[Low(m)] = dm[Low(m)]
         /\ dm'[Low(n)] = dm[Low(n)]
<1>1. \A m \in Names : Top(m) \in Nodes /\ Low(m) \in Nodes /\ Top(n) # Low(m) /\ (m # n => Top(m) # Top(n))
  BY NodeFacts
<1>2. QED BY <1>1 DEF ActInv, TypeOK, TopOnly, Only

\* A step on the device of the user that ends the command.
LEMMA TopReturn ==
  ASSUME ActInv, NEW p \in Procs, proc[p].pc # "idle", NEW n \in Names, Name(p) = n, Return(p), Reports(p),
         TopOnly(n), kind' = kind, ring' \in [Procs -> Vols \cup {"none"}], NameInv(n)'
  PROVE  ActInv'
<1>1. Name(p) \in Names /\ "none" \notin Names
  BY WorkerFacts
<1>2. /\ proc' \in [Procs -> Calls] /\ Others(p) /\ Name(p)' = "none"
      /\ proc'[p].pc = "idle" /\ proc'[p].op = "none"
  BY ReturnEffect DEF ActInv, Others, Name
<1>3. ProcOK(p)'
  BY <1>2 DEF ProcOK, PcOK, At, Name
<1>4. StepOf(p, n)
  BY <1>1, <1>2, <1>3, TopOnlyFacts, ReportsFacts DEF StepOf, Typed
<1>5. QED BY <1>4, OneName

\* A step on the device of the user after which the command goes on.
LEMMA TopGoto ==
  ASSUME ActInv, NEW p \in Procs, proc[p].pc # "idle", NEW n \in Names, Name(p) = n, NEW s \in Points, Goto(p, s),
         Reports(p), TopOnly(n), kind' = kind, ring' \in [Procs -> Vols \cup {"none"}], ProcOK(p)', NameInv(n)'
  PROVE  ActInv'
<1>1. /\ proc' \in [Procs -> Calls] /\ Others(p) /\ Name(p)' = n
  BY GotoEffect DEF ActInv, Others, Name
<1>2. StepOf(p, n)
  BY <1>1, TopOnlyFacts, ReportsFacts DEF StepOf, Typed
<1>3. QED BY <1>2, OneName

\* Every process but p is tied, at work and closing as before.
LEMMA OthersKeep ==
  ASSUME NEW p \in Procs, Others(p), kind' = kind, NEW n \in Names
  PROVE  \A q \in Procs \ {p} :
           /\ Name(q)' = Name(q) /\ Vol(q)' = Vol(q) /\ proc'[q].pc = proc[q].pc
           /\ proc'[q].gone = proc[q].gone /\ proc'[q].low = proc[q].low
           /\ At(q, "cremove")' = At(q, "cremove")
           /\ Tied(q, n)' = Tied(q, n) /\ CaresForLow(q)' = CaresForLow(q)
<1>1. SUFFICES ASSUME NEW q \in Procs \ {p}
               PROVE  /\ Name(q)' = Name(q) /\ Vol(q)' = Vol(q) /\ proc'[q].pc = proc[q].pc
                      /\ proc'[q].gone = proc[q].gone /\ proc'[q].low = proc[q].low
                      /\ At(q, "cremove")' = At(q, "cremove")
                      /\ Tied(q, n)' = Tied(q, n) /\ CaresForLow(q)' = CaresForLow(q)
  OBVIOUS
<1>2. proc'[q] = proc[q]
  BY DEF Others
<1>3. Name(q)' = Name(q) /\ Vol(q)' = Vol(q) /\ At(q, "cremove")' = At(q, "cremove") /\ Tied(q, n)' = Tied(q, n)
  BY <1>2 DEF Name, Vol, At, Tied
<1>4. CaresForLow(q)' = CaresForLow(q)
  BY <1>2 DEF CaresForLow, At, Stacked, Kind, Vol
<1>5. QED BY <1>2, <1>3, <1>4

\* The upper layer is created by the one who cares for the lower layer, over a
\* name nobody is tied to, with the key of its volume.
LEMMA CreateTopStep ==
  ASSUME ActInv, NEW p \in Procs, dm_create_top(p)
  PROVE  ActInv'
<1>1. At(p, "top") /\ kind' = kind
  BY DEF dm_create_top, world
<1>2. PICK n \in Names : n = Name(p)
  BY <1>1, WorkerFacts DEF At
<1>3. Vol(p) \in Vols /\ Top(n) \in Nodes /\ NameInv(n) /\ ProcOK(p) /\ proc[p].pc = "top"
  BY <1>1, <1>2, VolOf, WorkerFacts DEF At, CloseSteps
<1>4. CASE dm' = dm /\ Kind(p) = "luks2i" /\ Goto(p, "undo") /\ ring' = ring /\ torn' = torn
  <2>1. "undo" \in Points /\ ProcOK(p)'
    BY <1>1, <1>4, OpenGoes DEF At, OpenSteps
  <2>2. CaresForLow(p)'
    BY <1>1, <1>4, <2>1, GotoEffect DEF CaresForLow, ActInv, Stacked, Kind, Vol
  <2>3. QED BY <1>1, <1>2, <1>3, <1>4, <2>1, <2>2, DmKept, RingKept, Move DEF Reports, Loaded, Holding, ReloadSteps
<1>5. CASE dm' = dm /\ Kind(p) # "luks2i" /\ Fail(p) /\ IF Stacked(p) THEN Torn(Name(p), "cascade") ELSE UNCHANGED torn
  <2>1. CaresForLow(p) => "cascade" \in torn'[n]
    BY <1>2, <1>3, <1>5, TornEffect DEF CaresForLow, ActInv, Reasons, At
  <2>2. Reports(p)
    BY <1>5 DEF Reports, Reasons
  <2>3. QED BY <1>2, <1>3, <1>1, <1>5, <2>1, <2>2, DmKept, RingKept, Leave DEF Loaded, Holding, Fail, Interference
<1>6. CASE CanMake(Top(n), TopTable(p)) /\ dm' = dm_create_device(dm, Top(n), TopTable(p)) /\ Return(p)
           /\ ring' = ring /\ torn' = torn
  <2>1. /\ Only(dm, dm', Top(n)) /\ dm'[Top(n)].live = TopTable(p) /\ dm'[Top(n)].inactive = NoTable
        /\ ~dm'[Top(n)].susp /\ ~dm'[Top(n)].deferred
    BY <1>3, <1>6, TablesOfCall, CreateEffect DEF ActInv, TypeOK, Maps
  <2>2. TopTableOK(TopTable(p)) /\ TopTable(p).vol = Vol(p) /\ TopTable(p).key = Vol(p) /\ Stacked(p) = StackedKind(Vol(p))
    BY <1>3, TablesOfCall
  <2>3. TopOnly(n) /\ dm'[Low(n)] = dm[Low(n)]
    BY <2>1, <2>2, TopOnlyFacts DEF TopOnly, WellFormed, TopTableOK
  <2>4. ~dm_status_device(dm, Top(n)) /\ dm[Top(n)] = NoDev
    BY <1>3, <1>6 DEF CanMake, CanCreate, ActInv, TypeOK, WellFormed, dm_status_device
  <2>5. Others(p) /\ Name(p)' = "none" /\ "none" \notin Names
    BY <1>6, ReturnEffect, ActivationAssumption DEF Others, Name, ActInv
  <2>6. TopInv(n)'
    BY <1>1, <2>1, <2>2 DEF TopInv, TopTableOK, StackedKind
  <2>7. OwnerInv(n)'
    <3>1. \A q \in Procs : ~Tied(q, n)'
      BY <1>1, <1>3, <2>4, <2>5, OthersKeep DEF NameInv, OwnerInv, Tied
    <3>3. \E v \in Vols : Owner(n, v)'
      <4>1. PICK v \in Vols : v = Vol(p)
        BY <1>3
      <4>2. Owner(n, v)'
        BY <2>1, <2>2, <3>1, <4>1 DEF Owner, NoTable
      <4>3. QED BY <4>2
    <3>4. OwnKey(dm[Top(n)].live, dm[Top(n)].susp)'
      BY <2>1, <2>2 DEF OwnKey
    <3>5. QED BY <3>1, <3>3, <3>4 DEF OwnerInv
  <2>8. SuspInv(n)'
    BY <2>1 DEF SuspInv, KeyLeft, Pure
  <2>9. StackInv(n)'
    <3> SUFFICES ASSUME Pure(n, Interference)'
                 PROVE  /\ (\A q \in Procs :
                              Name(q) = n /\ At(q, "cremove") /\ ~proc[q].gone =>
                                dm_status_device(dm, Top(n)) /\ proc[q].low = dm[Top(n)].live.low)'
                        /\ (dm_status_device(dm, Low(n)) =>
                              dm[Top(n)].live.low \/ \E q \in Procs : Name(q) = n /\ CaresForLow(q))'
      BY DEF StackInv
    <3>1. Pure(n, Interference)
      BY <1>6 DEF Pure
    <3>2. \A q \in Procs : ~(Name(q) = n /\ At(q, "cremove") /\ ~proc[q].gone)'
      BY <1>1, <1>3, <2>4, <2>5, <3>1, OthersKeep DEF NameInv, StackInv
    <3>3. ASSUME dm_status_device(dm', Low(n)), ~dm'[Top(n)].live.low
          PROVE  \E q \in Procs : Name(q)' = n /\ CaresForLow(q)'
      <4>1. ~Stacked(p) /\ ~CaresForLow(p)
        BY <1>3, <2>1, <2>2, <3>3 DEF CaresForLow, At, TopTableOK
      <4>2. dm_status_device(dm, Low(n)) /\ ~dm[Top(n)].live.low
        BY <2>3, <2>4, <3>3 DEF dm_status_device, NoDev, NoTable
      <4>3. PICK q \in Procs : Name(q) = n /\ CaresForLow(q)
        BY <1>3, <3>1, <4>2 DEF NameInv, StackInv
      <4>4. QED BY <1>1, <2>5, <4>1, <4>3, OthersKeep
    <3>4. QED BY <3>2, <3>3 DEF dm_status_device
  <2>10. QED
    BY <1>1, <1>2, <1>3, <1>6, <2>3, <2>6, <2>7, <2>8, <2>9, TopReturn, RingKept DEF NameInv, Reports
<1>7. QED BY <1>2, <1>4, <1>5, <1>6 DEF dm_create_top

\* The live and the inactive table of an undisturbed name lie on the same layer.
LEMMA SameLow ==
  ASSUME ActInv, NEW n \in Names, torn[n] \cap Interference = {}, dm[Top(n)].inactive # NoTable
  PROVE  dm[Top(n)].inactive.low = dm[Top(n)].live.low /\ dm[Top(n)].live.type = "crypt"
<1>1. NameInv(n) /\ Top(n) \in Nodes /\ WellFormed(dm[Top(n)])
  BY NodeFacts DEF ActInv, TypeOK
<1>2. Pure(n, {"reused"}) /\ torn[n] \cap {"forced", "burnt"} = {}
  BY DEF Pure, Interference
<1>3. dm[Top(n)].live.type # "none"
  BY <1>1 DEF WellFormed, NoDev
<1>4. TopTableOK(dm[Top(n)].live) /\ TopTableOK(dm[Top(n)].inactive)
  BY <1>1, <1>2, <1>3 DEF NameInv, TopInv, NoTable
<1>5. PICK v \in Vols \cup {"none"} : Owner(n, v)
  BY <1>1, <1>2 DEF NameInv, OwnerInv
<1>6. QED BY <1>4, <1>5 DEF Owner, TopTableOK

\* A lower layer that cannot be removed and that nobody has open lies under
\* the device of the user.
LEMMA LowInUse ==
  ASSUME ActInv, NEW n \in Names, dm_status_device(dm, Low(n)), ~CanRemove(dm, Low(n)),
         ~(dm[Low(n)].users > 0), torn[n] \cap Interference = {}
  PROVE  dm[Top(n)].live.low
<1>1. Low(n) \in Nodes /\ Top(n) \in Nodes /\ Low(n)[1] = n /\ Low(n)[2] = 1
  BY NodeFacts DEF Low
<1>2. dm[Low(n)].users = 0
  BY <1>1 DEF ActInv, TypeOK, Devices
<1> DEFINE R == {t \in {"live", "inactive"} : /\ Low(n)[2] = 1
                                              /\ dm[Top(Low(n)[1])][t].low}
<1>3. CASE R = {}
  <2>1. Cardinality(R) = 0
    BY <1>3, FS_EmptySet
  <2>2. open_count(dm, Low(n)) = 0
    BY <1>2, <2>1 DEF open_count
  <2>3. QED BY <2>2 DEF CanRemove
<1>4. CASE R # {}
  <2>1. dm[Top(n)].live.low \/ dm[Top(n)].inactive.low
    BY <1>1, <1>4
  <2>2. CASE dm[Top(n)].inactive.low
    <3>1. dm[Top(n)].inactive # NoTable
      BY <2>2 DEF NoTable
    <3>2. QED BY <2>2, <3>1, SameLow
  <2>3. QED BY <2>1, <2>2
<1>5. QED BY <1>3, <1>4

\* A failed activation takes the lower layer down, or it is in use.
LEMMA UndoStep ==
  ASSUME ActInv, NEW p \in Procs, _create_device_undo(p)
  PROVE  ActInv'
<1>1. At(p, "undo") /\ kind' = kind /\ Fail(p) /\ Return(p)
  BY DEF _create_device_undo, world, Fail
<1>2. PICK n \in Names : n = Name(p)
  BY <1>1, WorkerFacts DEF At
<1>3. proc[p].pc = "undo" /\ proc[p].pc \notin Loaded \cup Holding /\ Low(n) \in Nodes
  BY <1>1, NodeFacts DEF At, Loaded, Holding
<1>4. CASE dm' = dm_remove(dm, Low(n)) /\ torn' = torn
  <2>1. Only(dm, dm', Low(n)) /\ dm'[Low(n)] = NoDev
    BY <1>3, <1>4, RemoveEffect DEF ActInv, TypeOK, Maps
  <2>2. LowOnly(n) /\ ~dm_status_device(dm', Low(n))
    BY <2>1 DEF LowOnly, WellFormed, NoDev, NoTable, dm_status_device
  <2>3. QED BY <1>1, <1>2, <1>3, <1>4, <2>2, RingKept, Leave DEF Reports
<1>5. CASE ~CanRemove(dm, Low(n)) /\ dm' = dm
           /\ (IF dm[Low(n)].users > 0 THEN Torn(n, "busy") ELSE UNCHANGED torn)
  <2>1. Reports(p) /\ LowOnly(n)
    BY <1>2, <1>5, DmKept DEF Reports, Reasons
  <2>2. dm[Low(n)].users > 0 => "busy" \in torn'[n]
    BY <1>5, TornEffect DEF ActInv, Reasons
  <2>3. \/ torn'[n] \cap Interference # {} \/ ~dm_status_device(dm', Low(n)) \/ dm[Top(n)].live.low
    BY <1>5, <2>2, LowInUse DEF Interference
  <2>4. QED BY <1>1, <1>2, <1>3, <1>5, <2>1, <2>3, RingKept, Leave
<1>6. QED BY <1>2, <1>4, <1>5 DEF _create_device_undo

\* A resize takes the options of the live table.
LEMMA ResizeQueryStep ==
  ASSUME ActInv, NEW p \in Procs, crypt_resize(p)
  PROVE  ActInv'
<1>1. At(p, "rquery") /\ kind' = kind /\ dm' = dm /\ torn' = torn
  BY DEF crypt_resize, world
<1>2. PICK n \in Names : n = Name(p)
  BY <1>1, WorkerFacts DEF At
<1>3. CASE Return(p) /\ ring' = ring
  BY <1>1, <1>3, LeaveEarly, RingKept DEF Reports, At, Careless
<1>4. CASE /\ proc' = [proc EXCEPT ![p].pc = "query", ![p].o = dm[Top(n)].live.opts]
           /\ crypt_volume_key_load_in_keyring(p, IF dm[Top(n)].live.ring THEN Vol(p) ELSE ring[p])
  <2>1. ring' \in [Procs -> Vols \cup {"none"}]
    BY <1>4 DEF crypt_volume_key_load_in_keyring, ActInv, TypeOK, Calls, Vol
  <2>2. ProcOK(p) /\ Top(n) \in Nodes /\ dm[Top(n)].live.opts \in Nat /\ "query" \in Points
    BY <1>1, NodeFacts, WorkerFacts DEF At, ActInv, TypeOK, Devices, Tables, Points
  <2>3. /\ proc' \in [Procs -> Calls] /\ \A q \in Procs \ {p} : proc'[q] = proc[q]
        /\ proc'[p].pc = "query" /\ proc'[p].op = proc[p].op /\ proc'[p].n = proc[p].n /\ proc'[p].vol = proc[p].vol
    <3> DEFINE w == [proc EXCEPT ![p].pc = "query"]
               z == [w EXCEPT ![p].o = dm[Top(n)].live.opts]
    <3>1. /\ w \in [Procs -> Calls] /\ \A q \in Procs \ {p} : w[q] = proc[q]
          /\ w[p].pc = "query" /\ w[p].op = proc[p].op /\ w[p].n = proc[p].n /\ w[p].vol = proc[p].vol
      BY <2>2 DEF ActInv, TypeOK, Calls
    <3>2. proc' = z
      BY <1>4
    <3> HIDE DEF w
    <3>3. /\ z \in [Procs -> Calls] /\ \A q \in Procs \ {p} : z[q] = w[q]
          /\ z[p].pc = w[p].pc /\ z[p].op = w[p].op /\ z[p].n = w[p].n /\ z[p].vol = w[p].vol
      BY <2>2, <3>1 DEF Calls
    <3>4. QED BY <3>1, <3>2, <3>3
  <2>4. proc[p].op = "resize" /\ proc[p].n \in Names /\ proc[p].vol \in Vols
    BY <1>1, <2>2 DEF ProcOK, PcOK, At, OpenSteps, ReloadSteps, SuspendSteps, ResumeSteps, CloseSteps
  <2>5. ProcOK(p)'
    BY <2>3, <2>4 DEF ProcOK, PcOK, At
  <2>6. TopSame(n) /\ LowOnly(n)
    BY <1>1, DmKept, LowOnlyFacts
  <2>7. StepOf(p, n)
    BY <1>1, <1>2, <2>1, <2>3, <2>5, <2>6, LowOnlyFacts, ReportsFacts DEF StepOf, Typed, Others, Name, Reports
  <2>8. Gives(p, n)
    BY <1>1, <2>3, <2>4 DEF Gives, Tied, At, Loaded, Holding, CaresForLow, ReloadSteps
  <2>9. QED BY <1>2, <2>6, <2>7, <2>8, PlainStep
<1>5. QED BY <1>2, <1>3, <1>4 DEF crypt_resize

\* The query ties a refresh or resize to the device: the table compared is that of
\* its own volume, hence the owner.
LEMMA QueryStep ==
  ASSUME ActInv, NEW p \in Procs, _reload_query(p)
  PROVE  ActInv'
<1>1. At(p, "query") /\ kind' = kind /\ dm' = dm /\ torn' = torn
  BY DEF _reload_query, world
<1>2. PICK n \in Names : n = Name(p)
  BY <1>1, WorkerFacts DEF At
<1>3. CASE Return(p) /\ (ring' = ring \/ Fail(p))
  BY <1>1, <1>3, LeaveEarly, RingKept DEF Reports, At, Careless
<1>4. ASSUME QueryMatches(p), ring' = ring, NEW s \in {"iload", "load"},
             proc' = [proc EXCEPT ![p] =
               [@ EXCEPT !.pc = s, !.from = dm[Top(n)].live.vol, !.awake = ~dm[Top(n)].susp, !.gone = FALSE]]
      PROVE  ActInv'
  <2>1. /\ ProcOK(p) /\ Top(n) \in Nodes /\ s \in Points /\ NameInv(n) /\ dm[Top(n)] \in Devices
        /\ "none" \notin Names
    BY <1>1, <1>2, <1>4, NodeFacts, WorkerFacts DEF At, ActInv, TypeOK, Points
  <2>2. /\ dm_status_device(dm, Top(n)) /\ dm[Top(n)].live.type = "crypt" /\ dm[Top(n)].live.vol = Vol(p)
    BY <1>2, <1>4 DEF QueryMatches, dm_query_key, _compare_crypt_devices
  <2>3. proc[p].op \in {"refresh", "resize"} /\ proc[p].n = n /\ proc[p].vol \in Vols
    BY <1>1, <1>2, <2>1 DEF ProcOK, PcOK, At, OpenSteps, ReloadSteps, SuspendSteps, ResumeSteps, CloseSteps, Name
  <2>4. /\ proc' \in [Procs -> Calls] /\ Others(p)
        /\ proc'[p].pc = s /\ proc'[p].op = proc[p].op /\ proc'[p].n = proc[p].n /\ proc'[p].vol = proc[p].vol
        /\ proc'[p].from = proc[p].vol
    <3>2. proc[p] \in Calls /\ (~dm[Top(n)].susp) \in BOOLEAN /\ dm[Top(n)].live.vol = proc[p].vol
      BY <2>2 DEF ActInv, TypeOK, Vol
    <3>3. PICK v \in Vols, b \in BOOLEAN : v = proc[p].vol
             /\ proc' = [proc EXCEPT ![p] = [proc[p] EXCEPT !.pc = s, !.from = v, !.awake = b, !.gone = FALSE]]
      BY <1>4, <2>3, <3>2
    <3> DEFINE r == [proc[p] EXCEPT !.pc = s, !.from = v, !.awake = b, !.gone = FALSE]
    <3>4. /\ r \in Calls /\ r.pc = s /\ r.op = proc[p].op /\ r.n = proc[p].n /\ r.vol = proc[p].vol
          /\ r.from = proc[p].vol
      BY <2>1, <3>2, <3>3 DEF Calls
    <3>5. proc' = [proc EXCEPT ![p] = r]
      BY <3>3
    <3> HIDE DEF r
    <3>6. QED BY <3>4, <3>5 DEF ActInv, TypeOK, Others
  <2>5. Name(p)' = n /\ Vol(p)' = Vol(p) /\ torn[n] \subseteq torn'[n]
    BY <1>1, <1>2, <2>4 DEF Name, Vol
  <2>6. ProcOK(p)'
    BY <1>4, <2>3, <2>4 DEF ProcOK, PcOK, At, ReloadSteps
  <2>7. TopSame(n) /\ LowOnly(n)
    BY <1>1, DmKept, LowOnlyFacts
  <2>8. StepOf(p, n)
    BY <1>1, <1>2, <1>4, <2>4, <2>5, <2>6, <2>7, RingKept, LowOnlyFacts, ReportsFacts DEF StepOf, Typed, Reports
  <2>9. TopInv(n)'
    BY <1>1, <2>1, <2>5, <2>7, TopFrame DEF NameInv
  <2>10. OwnerInv(n)'
    <3>1. \A q \in Procs : Tied(q, n)' => dm_status_device(dm, Top(n))'
      BY <1>1, <2>2 DEF dm_status_device
    <3>2. ASSUME Pure(n, {"reused"})'
          PROVE  /\ (\E v \in Vols \cup {"none"} : Owner(n, v))'
                 /\ OwnKey(dm[Top(n)].live, dm[Top(n)].susp)'
      <4>1. Pure(n, {"reused"})
        BY <1>1, <3>2 DEF Pure
      <4>2. PICK v \in Vols \cup {"none"} : Owner(n, v)
        BY <2>1, <4>1 DEF NameInv, OwnerInv
      <4>3. v = Vol(p)
        BY <2>2, <4>2 DEF Owner
      <4>4. \A q \in Procs : Tied(q, n)' => Vol(q)' = v
        BY <1>1, <2>4, <2>5, <4>2, <4>3, OthersKeep DEF Owner
      <4>5. Owner(n, v)'
        BY <1>1, <4>2, <4>4 DEF Owner
      <4>6. OwnKey(dm[Top(n)].live, dm[Top(n)].susp)'
        BY <1>1, <2>1, <4>1 DEF NameInv, OwnerInv, OwnKey
      <4>7. QED BY <4>5, <4>6
    <3>3. QED BY <3>1, <3>2 DEF OwnerInv
  <2>11. SuspInv(n)'
    BY <1>1, <2>1, <2>4, <2>5, <2>7, SuspFrame DEF NameInv, At, Loaded, Holding
  <2>12. StackInv(n)'
    BY <1>1, <1>4, <2>1, <2>4, <2>5, <2>7, StackFrame DEF NameInv, At, CaresForLow, TopSame
  <2>13. QED BY <2>8, <2>9, <2>10, <2>11, <2>12, OneName DEF NameInv
<1>5. CASE QueryMatches(p)
  <2>1. /\ ring' = ring
        /\ proc' = [proc EXCEPT ![p] =
               [@ EXCEPT !.pc = IF Stacked(p) THEN "iload" ELSE "load", !.from = dm[Top(n)].live.vol,
                         !.awake = ~dm[Top(n)].susp, !.gone = FALSE]]
    BY <1>2, <1>5 DEF _reload_query
  <2>2. CASE Stacked(p)
    BY <1>4, <1>5, <2>1, <2>2
  <2>3. CASE ~Stacked(p)
    BY <1>4, <1>5, <2>1, <2>3
  <2>4. QED BY <2>2, <2>3
<1>6. CASE ~QueryMatches(p)
  BY <1>3, <1>6 DEF _reload_query, Fail
<1>7. QED BY <1>5, <1>6

\* The device of the user is resumed, with the table that was waiting or with
\* the one it had.
LEMMA TopResumed ==
  ASSUME ActInv, NEW p \in Procs, NEW n \in Names, Name(p) = n, kind' = kind, Others(p),
         CanResume(dm, Top(n)), dm' = dm_resume(dm, Top(n)), torn[n] \subseteq torn'[n],
         Tied(p, n)' => Tied(p, n) /\ Vol(p)' = Vol(p), ~CaresForLow(p), ~At(p, "cremove")'
  PROVE  TopOnly(n) /\ NameInv(n)'
<1>1. Top(n) \in Nodes /\ NameInv(n)
  BY NodeFacts DEF ActInv
<1>2. /\ Only(dm, dm', Top(n)) /\ WellFormed(dm'[Top(n)]) /\ dm_status_device(dm, Top(n)) /\ dm_status_device(dm', Top(n))
      /\ dm'[Top(n)].live = Resumed(dm, Top(n)) /\ dm'[Top(n)].inactive = NoTable /\ ~dm'[Top(n)].susp
      /\ dm'[Top(n)].deferred = dm[Top(n)].deferred
  BY <1>1, Resumes
<1>3. TopOnly(n) /\ dm'[Low(n)] = dm[Low(n)]
  BY <1>2, TopOnlyFacts DEF TopOnly
<1>4. TopInv(n)'
  BY <1>1, <1>2 DEF NameInv, TopInv, TopTableOK, StackedKind, Resumed
<1>5. OwnerInv(n)'
  <2>1. \A q \in Procs : Tied(q, n)' => dm_status_device(dm, Top(n))'
    BY <1>2 DEF dm_status_device
  <2>2. ASSUME Pure(n, {"reused"})'
        PROVE  /\ (\E v \in Vols \cup {"none"} : Owner(n, v))'
               /\ OwnKey(dm[Top(n)].live, dm[Top(n)].susp)'
    <3>1. Pure(n, {"reused"})
      BY <2>2 DEF Pure
    <3>2. PICK v \in Vols \cup {"none"} : Owner(n, v)
      BY <1>1, <3>1 DEF NameInv, OwnerInv
    <3>3. \A q \in Procs : Tied(q, n)' => Vol(q)' = v
      BY <3>2, OthersKeep DEF Owner
    <3>4. Owner(n, v)'
      BY <1>2, <3>2, <3>3 DEF Owner, Resumed, NoTable
    <3>5. OwnKey(dm[Top(n)].live, dm[Top(n)].susp)'
      BY <1>1, <1>2, <3>1 DEF NameInv, OwnerInv, OwnKey, Resumed, TopInv, CanResume
    <3>6. QED BY <3>4, <3>5
  <2>3. QED BY <2>1, <2>2 DEF OwnerInv
<1>6. SuspInv(n)'
  BY <1>2 DEF SuspInv, KeyLeft, Pure
<1>7. StackInv(n)'
  <2> SUFFICES ASSUME Pure(n, Interference)'
               PROVE  /\ (\A q \in Procs :
                            Name(q) = n /\ At(q, "cremove") /\ ~proc[q].gone =>
                              dm_status_device(dm, Top(n)) /\ proc[q].low = dm[Top(n)].live.low)'
                      /\ (dm_status_device(dm, Low(n)) =>
                            dm[Top(n)].live.low \/ \E q \in Procs : Name(q) = n /\ CaresForLow(q))'
    BY DEF StackInv
  <2>1. Pure(n, Interference)
    BY DEF Pure
  <2>2. dm'[Top(n)].live.low = dm[Top(n)].live.low
    BY <1>2, <2>1, SameLow DEF Pure, Resumed
  <2>3. \A q \in Procs : (Name(q) = n /\ At(q, "cremove") /\ ~proc[q].gone)' =>
                            q # p /\ Name(q) = n /\ At(q, "cremove") /\ ~proc[q].gone /\ proc'[q].low = proc[q].low
    BY OthersKeep
  <2>4. \A q \in Procs : Name(q) = n /\ CaresForLow(q) => Name(q)' = n /\ CaresForLow(q)'
    BY OthersKeep
  <2>5. QED BY <1>1, <1>2, <1>3, <2>1, <2>2, <2>3, <2>4 DEF NameInv, StackInv, dm_status_device
<1>8. QED BY <1>3, <1>4, <1>5, <1>6, <1>7 DEF NameInv

\* A table of the volume of p is loaded; p is now there to resume it.
LEMMA TopLoaded ==
  ASSUME ActInv, NEW p \in Procs, NEW n \in Names, Name(p) = n, kind' = kind, Others(p),
         proc[p].pc \in {"load", "tload"}, Name(p)' = n, proc'[p].pc \in {"resume", "susp0"},
         Vol(p)' = Vol(p), proc'[p].gone = proc[p].gone, proc'[p].op = proc[p].op,
         CanReload(Top(n), NewTable(p)), dm' = dm_reload(dm, Top(n), NewTable(p)), torn[n] \subseteq torn'[n],
         proc[p].gone => "reused" \in torn'[n]
  PROVE  TopOnly(n) /\ NameInv(n)'
<1>1. Top(n) \in Nodes /\ NameInv(n) /\ Vol(p) \in Vols /\ proc[p].from = Vol(p)
  BY VolOf DEF ActInv, CloseSteps, ReloadSteps
<1>2. /\ NewTable(p) \in Tables /\ TopTableOK(NewTable(p)) /\ NewTable(p).vol = Vol(p) /\ NewTable(p).key = Vol(p)
  BY <1>1, TablesOfCall
<1>3. /\ Only(dm, dm', Top(n)) /\ dm'[Top(n)].live = dm[Top(n)].live /\ dm'[Top(n)].inactive = NewTable(p)
      /\ dm'[Top(n)].susp = dm[Top(n)].susp /\ dm'[Top(n)].deferred = dm[Top(n)].deferred
  BY <1>1, <1>2, ReloadEffect DEF ActInv, TypeOK, Maps
<1>4. dm_status_device(dm, Top(n)) /\ dm_status_device(dm', Top(n))
  BY <1>3 DEF CanReload, CanLoad, dm_status_device
<1>5. TopOnly(n) /\ dm'[Low(n)] = dm[Low(n)]
  BY <1>2, <1>3, <1>4, TopOnlyFacts DEF TopOnly, WellFormed, TopTableOK, dm_status_device
<1>6. TopInv(n)'
  BY <1>1, <1>2, <1>3 DEF NameInv, TopInv, TopTableOK, StackedKind
<1>7. OwnerInv(n)'
  <2>1. \A q \in Procs : Tied(q, n)' => dm_status_device(dm, Top(n))'
    BY <1>4 DEF dm_status_device
  <2>2. ASSUME Pure(n, {"reused"})'
        PROVE  /\ (\E v \in Vols \cup {"none"} : Owner(n, v))'
               /\ OwnKey(dm[Top(n)].live, dm[Top(n)].susp)'
    <3>1. Pure(n, {"reused"}) /\ ~proc[p].gone
      BY <2>2 DEF Pure
    <3>2. PICK v \in Vols \cup {"none"} : Owner(n, v)
      BY <1>1, <3>1 DEF NameInv, OwnerInv
    <3>3. Tied(p, n) /\ Vol(p) = v
      BY <3>1, <3>2 DEF Owner, Tied, ReloadSteps
    <3>4. \A q \in Procs : Tied(q, n)' => Vol(q)' = v
      BY <3>2, <3>3, OthersKeep DEF Owner
    <3>5. Owner(n, v)'
      BY <1>2, <1>3, <3>2, <3>3, <3>4 DEF Owner
    <3>6. OwnKey(dm[Top(n)].live, dm[Top(n)].susp)'
      BY <1>1, <1>3, <3>1 DEF NameInv, OwnerInv, OwnKey
    <3>7. QED BY <3>5, <3>6
  <2>3. QED BY <2>1, <2>2 DEF OwnerInv
<1>8. SuspInv(n)'
  <2> SUFFICES ASSUME Pure(n, {"killed", "fault"})'
               PROVE  /\ (dm[Top(n)].inactive # NoTable => \E q \in Procs : Name(q) = n /\ proc[q].pc \in Loaded)'
                      /\ (KeyLeft(n) =>
                            \E q \in Procs : Name(q) = n /\ proc[q].pc \in Holding)'
    BY DEF SuspInv
  <2>1. Pure(n, {"killed", "fault"})
    BY DEF Pure
  <2>2. Name(p)' = n /\ proc'[p].pc \in Loaded /\ proc[p].pc \notin Holding
    BY DEF Loaded, Holding
  <2>3. \A q \in Procs : Name(q) = n /\ proc[q].pc \in Holding => Name(q)' = n /\ proc'[q].pc \in Holding
    BY <2>2, OthersKeep
  <2>4. QED BY <1>1, <1>3, <2>1, <2>2, <2>3 DEF NameInv, SuspInv, KeyLeft, Pure
<1>9. StackInv(n)'
  BY <1>1, <1>3, <1>5, StackFrame DEF NameInv, CaresForLow, At, dm_status_device
<1>10. QED BY <1>5, <1>6, <1>7, <1>8, <1>9 DEF NameInv

\* A load or a key set on a device that has gone since is recorded.
LEMMA ReusedFacts ==
  ASSUME ActInv, NEW p \in Procs, proc[p].pc # "idle", Reused(p)
  PROVE  /\ Reports(p) /\ torn[Name(p)] \subseteq torn'[Name(p)]
         /\ proc[p].gone => "reused" \in torn'[Name(p)]
<1>1. Name(p) \in Names
  BY WorkerFacts
<1>2. Reports(p)
  BY DEF Reused, Reports, Reasons
<1>3. proc[p].gone => "reused" \in torn'[Name(p)]
  BY <1>1, TornEffect DEF Reused, Reasons, ActInv
<1>4. QED BY <1>1, <1>2, <1>3, ReportsFacts

\* The load of a new table.
LEMMA LoadStep ==
  ASSUME ActInv, NEW p \in Procs, NEW n \in Names, n = Name(p), kind' = kind, ring' = ring,
         NEW a \in {"load", "tload"}, At(p, a), NEW s \in {"resume", "susp0"}, Goto(p, s), Reused(p),
         CanReload(Top(n), NewTable(p)), dm' = dm_reload(dm, Top(n), NewTable(p))
  PROVE  ActInv'
<1>1. proc[p].pc = a /\ proc[p].pc \in ReloadSteps /\ s \in ReloadSteps /\ proc[p].pc # "idle" /\ s \notin {"err0", "err1"}
  BY DEF At, ReloadSteps
<1>2. s \in Points /\ ProcOK(p)'
  BY <1>1, ReloadGoes
<1>3. /\ Others(p) /\ Name(p)' = n /\ proc'[p].pc = s /\ Vol(p)' = Vol(p) /\ proc'[p].gone = proc[p].gone
      /\ proc'[p].op = proc[p].op
  BY <1>2, GotoEffect DEF Others, Name, Vol, ActInv
<1>4. Reports(p) /\ torn[n] \subseteq torn'[n] /\ (proc[p].gone => "reused" \in torn'[n])
  BY <1>1, ReusedFacts
<1>5. TopOnly(n) /\ NameInv(n)'
  BY <1>1, <1>3, <1>4, TopLoaded
<1>6. QED BY <1>1, <1>2, <1>4, <1>5, TopGoto, RingKept

\* The reload of a device without a lower layer.
LEMMA ReloadDeviceStep ==
  ASSUME ActInv, NEW p \in Procs, dm_reload_device(p)
  PROVE  ActInv'
<1>1. At(p, "load") /\ kind' = kind
  BY DEF dm_reload_device, world
<1>2. PICK n \in Names : n = Name(p)
  BY <1>1, WorkerFacts DEF At
<1>3. CASE dm' = dm /\ torn' = torn /\ FailReload(p)
  BY <1>1, <1>3, LeaveEarly, RingKept DEF Reports, At, Careless, FailReload, Fail
<1>4. CASE CanReload(Top(n), NewTable(p)) /\ dm' = dm_reload(dm, Top(n), NewTable(p)) /\ Goto(p, "resume")
           /\ Reused(p) /\ ring' = ring
  BY <1>1, <1>2, <1>4, LoadStep
<1>5. QED BY <1>2, <1>3, <1>4 DEF dm_reload_device

\* A process resumes the device of the user and is done, or goes on.
LEMMA ResumeAndReturn ==
  ASSUME ActInv, NEW p \in Procs, NEW n \in Names, n = Name(p), kind' = kind, ring' = ring, Reports(p), Return(p),
         proc[p].pc \in {"resume", "res0", "sundo", "uresume"},
         CanResume(dm, Top(n)), dm' = dm_resume(dm, Top(n))
  PROVE  ActInv'
<1>1. proc[p].pc # "idle" /\ ~CaresForLow(p)
  BY DEF CaresForLow, At
<1>2. Others(p) /\ ~Tied(p, n)' /\ ~At(p, "cremove")'
  BY ReturnEffect, ActivationAssumption DEF ActInv, Others, Tied, Name, At
<1>3. torn[n] \subseteq torn'[n]
  BY <1>1, ReportsFacts
<1>4. TopOnly(n) /\ NameInv(n)'
  BY <1>1, <1>2, <1>3, TopResumed
<1>5. QED BY <1>1, <1>4, TopReturn, RingKept

\* A process that was to resume the device gives up and says so.
LEMMA GiveUp ==
  ASSUME ActInv, NEW p \in Procs, NEW n \in Names, n = Name(p), kind' = kind, ring' = ring \/ Fail(p), Return(p),
         proc[p].pc \in {"resume", "sundo", "uresume"}, dm' = dm, Torn(Name(p), "fault")
  PROVE  ActInv'
<1>1. proc[p].pc # "idle" /\ ~CaresForLow(p)
  BY DEF CaresForLow, At
<1>2. Reports(p) /\ "fault" \in torn'[n]
  BY TornEffect DEF ActInv, Reasons, Reports
<1>3. LowOnly(n)
  BY DmKept
<1>4. QED BY <1>1, <1>2, <1>3, Leave, RingKept

\* The resume that ends such a reload.
LEMMA ReloadResumeStep ==
  ASSUME ActInv, NEW p \in Procs, dm_reload_resume(p)
  PROVE  ActInv'
<1>1. At(p, "resume") /\ kind' = kind /\ proc[p].pc = "resume"
  BY DEF dm_reload_resume, world, At
<1>2. PICK n \in Names : n = Name(p)
  BY <1>1, WorkerFacts
<1>3. CASE dm' = dm /\ Torn(Name(p), "fault") /\ FailReload(p)
  BY <1>1, <1>2, <1>3, GiveUp DEF FailReload, Fail
<1>4. CASE CanResume(dm, Top(n)) /\ dm' = dm_resume(dm, Top(n)) /\ Return(p) /\ ring' = ring /\ torn' = torn
  BY <1>1, <1>2, <1>4, ResumeAndReturn DEF Reports
<1>5. QED BY <1>2, <1>3, <1>4 DEF dm_reload_resume

\* The device of the user is suspended by a process that is there to resume it.
LEMMA TopSuspended ==
  ASSUME ActInv, NEW p \in Procs, NEW n \in Names, Name(p) = n, kind' = kind, Others(p), torn[n] \subseteq torn'[n],
         Name(p)' = n, proc'[p].pc \in Holding \/ ~KeyLeft(n)', Tied(p, n)' => Tied(p, n) /\ Vol(p)' = Vol(p),
         proc[p].pc \in Loaded => proc'[p].pc \in Loaded, ~CaresForLow(p), ~At(p, "cremove")',
         CanSuspend(dm, Top(n)), dm' = dm_suspend(dm, Top(n))
  PROVE  TopOnly(n) /\ NameInv(n)'
<1>1. Top(n) \in Nodes /\ NameInv(n)
  BY NodeFacts DEF ActInv
<1>2. /\ Only(dm, dm', Top(n)) /\ dm'[Top(n)].live = dm[Top(n)].live /\ dm'[Top(n)].inactive = dm[Top(n)].inactive
      /\ dm'[Top(n)].susp /\ dm'[Top(n)].deferred = dm[Top(n)].deferred
  BY <1>1, SuspendEffect DEF ActInv, TypeOK, Maps
<1>3. dm_status_device(dm, Top(n)) /\ WellFormed(dm[Top(n)])
  BY <1>1 DEF CanSuspend, ActInv, TypeOK
<1>4. TopOnly(n) /\ dm'[Low(n)] = dm[Low(n)]
  BY <1>2, <1>3, TopOnlyFacts DEF TopOnly, WellFormed, dm_status_device
<1>5. TopInv(n)'
  BY <1>1, <1>2 DEF NameInv, TopInv, TopTableOK, StackedKind
<1>6. OwnerInv(n)'
  <2>1. \A q \in Procs : Tied(q, n)' => dm_status_device(dm, Top(n))'
    BY <1>2, <1>3 DEF dm_status_device
  <2>2. ASSUME Pure(n, {"reused"})'
        PROVE  /\ (\E v \in Vols \cup {"none"} : Owner(n, v))'
               /\ OwnKey(dm[Top(n)].live, dm[Top(n)].susp)'
    <3>1. Pure(n, {"reused"})
      BY <2>2 DEF Pure
    <3>2. PICK v \in Vols \cup {"none"} : Owner(n, v)
      BY <1>1, <3>1 DEF NameInv, OwnerInv
    <3>3. \A q \in Procs : Tied(q, n)' => Vol(q)' = v
      BY <3>2, OthersKeep DEF Owner
    <3>4. Owner(n, v)'
      BY <1>2, <3>2, <3>3 DEF Owner
    <3>5. OwnKey(dm[Top(n)].live, dm[Top(n)].susp)'
      BY <1>1, <1>2, <3>1 DEF NameInv, OwnerInv, OwnKey
    <3>6. QED BY <3>4, <3>5
  <2>3. QED BY <2>1, <2>2 DEF OwnerInv
<1>7. SuspInv(n)'
  <2> SUFFICES ASSUME Pure(n, {"killed", "fault"})'
               PROVE  /\ (dm[Top(n)].inactive # NoTable => \E q \in Procs : Name(q) = n /\ proc[q].pc \in Loaded)'
                      /\ (KeyLeft(n) =>
                            \E q \in Procs : Name(q) = n /\ proc[q].pc \in Holding)'
    BY DEF SuspInv
  <2>1. Pure(n, {"killed", "fault"})
    BY DEF Pure
  <2>2. \A q \in Procs : Name(q) = n /\ proc[q].pc \in Loaded => Name(q)' = n /\ proc'[q].pc \in Loaded
    BY OthersKeep
  <2>3. QED BY <1>1, <1>2, <2>1, <2>2 DEF NameInv, SuspInv, KeyLeft, Pure
<1>8. StackInv(n)'
  BY <1>1, <1>2, <1>4, StackFrame DEF NameInv, At, dm_status_device
<1>9. QED BY <1>4, <1>5, <1>6, <1>7, <1>8 DEF NameInv

\* A reload goes on without touching the device of the user.
LEMMA ReloadMove ==
  ASSUME ActInv, NEW p \in Procs, NEW n \in Names, n = Name(p), kind' = kind, ring' = ring, Reports(p),
         proc[p].pc \in ReloadSteps, NEW s \in ReloadSteps, Goto(p, s),
         s \in {"err0", "err1"} => "burnt" \in torn'[n],
         LowOnly(n), dm_status_device(dm', Low(n)) => dm_status_device(dm, Low(n)),
         proc[p].pc \in Loaded => s \in Loaded \/ torn'[n] \cap {"killed", "fault"} # {},
         proc[p].pc \in Holding => s \in Holding \/ torn'[n] \cap {"killed", "fault"} # {}
  PROVE  ActInv'
<1>1. s \in Points /\ ProcOK(p)'
  BY ReloadGoes
<1>2. proc[p].pc # "idle" /\ ~CaresForLow(p) /\ s # "cremove"
  BY DEF ReloadSteps, CaresForLow, At
<1>3. QED BY <1>1, <1>2, Move, RingKept

\* What the effect on a lower layer that is there means for the name.
LEMMA LowStays ==
  ASSUME ActInv, NEW n \in Names, Only(dm, dm', Low(n)), dm_status_device(dm, Low(n)),
         dm'[Low(n)].live = dm[Low(n)].live,
         dm'[Low(n)].inactive = dm[Low(n)].inactive \/ dm'[Low(n)].inactive.type # "none" \/ dm'[Low(n)].inactive = NoTable
  PROVE  LowOnly(n)
<1>1. WellFormed(dm[Low(n)])
  BY NodeFacts DEF ActInv, TypeOK
<1>2. QED BY <1>1 DEF LowOnly, WellFormed, dm_status_device

\* The steps of a reload of both layers up to the last resume; each failure leads
\* to clr0, where the loaded table still has its process.
LEMMA IntegrityStep ==
  ASSUME ActInv, NEW p \in Procs, _reload_device_with_integrity(p)
  PROVE  ActInv'
<1>1. kind' = kind /\ proc[p].pc \in {"iload", "tload", "susp0", "susp1", "res1"}
  BY DEF _reload_device_with_integrity, Step, world, At
<1>2. PICK n \in Names : n = Name(p)
  BY <1>1, WorkerFacts
<1>3. /\ Vol(p) \in Vols /\ Top(n) \in Nodes /\ Low(n) \in Nodes /\ proc[p].pc \in ReloadSteps
      /\ dm \in Maps
  BY <1>1, <1>2, VolOf DEF CloseSteps, ReloadSteps, ActInv, TypeOK, Maps
<1>4. ASSUME Goto(p, "clr0"), dm' = dm, ring' = ring, torn' = torn
      PROVE  ActInv'
  <2>1. LowOnly(n) /\ Reports(p)
    BY <1>4, DmKept DEF Reports
  <2>2. QED BY <1>1, <1>2, <1>3, <1>4, <2>1, ReloadMove DEF ReloadSteps, Loaded, Holding
<1>5. CASE Step(p, "iload", CanReload(Low(n), LowTable(p)), dm_reload(dm, Low(n), LowTable(p)), "tload", "fail")
  <2>1. proc[p].pc = "iload"
    BY <1>5 DEF Step, At
  <2>2. CASE dm' = dm /\ Fail(p) /\ torn' = torn
    BY <1>1, <2>1, <2>2, LeaveEarly, RingKept DEF Careless, Reports, Fail
  <2>3. CASE CanReload(Low(n), LowTable(p)) /\ dm' = dm_reload(dm, Low(n), LowTable(p)) /\ Goto(p, "tload")
             /\ ring' = ring /\ torn' = torn
    <3>1. Only(dm, dm', Low(n)) /\ dm'[Low(n)].live = dm[Low(n)].live /\ dm'[Low(n)].inactive = LowTable(p)
      BY <1>3, <2>3, TablesOfCall, ReloadEffect
    <3>2. LowOnly(n) /\ dm_status_device(dm, Low(n))
      BY <1>3, <2>3, <3>1, TablesOfCall, LowStays DEF CanReload, CanLoad
    <3>3. QED BY <1>1, <1>2, <1>3, <2>1, <2>3, <3>2, ReloadMove DEF ReloadSteps, Loaded, Holding, Reports
  <2>4. QED BY <1>5, <2>2, <2>3 DEF Step
<1>6. CASE Step(p, "tload", CanReload(Top(n), NewTable(p)), dm_reload(dm, Top(n), NewTable(p)), "susp0", "clr0")
  <2>1. At(p, "tload")
    BY <1>6 DEF Step
  <2>2. CASE CanReload(Top(n), NewTable(p)) /\ dm' = dm_reload(dm, Top(n), NewTable(p)) /\ Goto(p, "susp0")
             /\ ring' = ring /\ Reused(p)
    BY <1>1, <1>2, <2>1, <2>2, LoadStep
  <2>3. QED BY <1>4, <1>6, <2>2 DEF Step
<1>7. CASE Step(p, "susp0", CanSuspend(dm, Top(n)), dm_suspend(dm, Top(n)), "susp1", "clr0")
  <2>1. proc[p].pc = "susp0"
    BY <1>7 DEF Step, At
  <2>2. CASE CanSuspend(dm, Top(n)) /\ dm' = dm_suspend(dm, Top(n)) /\ Goto(p, "susp1")
             /\ ring' = ring /\ torn' = torn
    <3>1. "susp1" \in Points /\ ProcOK(p)'
      BY <1>3, <2>2, ReloadGoes DEF ReloadSteps
    <3>2. /\ Others(p) /\ Name(p)' = n /\ proc'[p].pc = "susp1" /\ Vol(p)' = Vol(p) /\ proc'[p].gone = proc[p].gone
          /\ proc'[p].op = proc[p].op
      BY <1>2, <2>2, <3>1, GotoEffect DEF Others, Name, Vol, ActInv
    <3>3. Tied(p, n)' => Tied(p, n)
      BY <1>2, <1>3, <3>2 DEF Tied
    <3>4. TopOnly(n) /\ NameInv(n)'
      BY <1>1, <1>2, <2>1, <2>2, <3>2, <3>3, TopSuspended DEF Holding, Loaded, CaresForLow, At
    <3>5. QED BY <1>1, <1>2, <2>2, <3>1, <3>4, TopGoto, RingKept DEF Reports
  <2>3. QED BY <1>4, <1>7, <2>2 DEF Step
<1>8. CASE Step(p, "susp1", CanSuspend(dm, Low(n)), dm_suspend(dm, Low(n)), "res1", "clr0")
  <2>1. proc[p].pc = "susp1"
    BY <1>8 DEF Step, At
  <2>2. CASE CanSuspend(dm, Low(n)) /\ dm' = dm_suspend(dm, Low(n)) /\ Goto(p, "res1") /\ ring' = ring /\ torn' = torn
    <3>1. Only(dm, dm', Low(n)) /\ dm'[Low(n)].live = dm[Low(n)].live /\ dm'[Low(n)].inactive = dm[Low(n)].inactive
      BY <1>3, <2>2, SuspendEffect
    <3>2. LowOnly(n) /\ dm_status_device(dm, Low(n))
      BY <2>2, <3>1, LowStays DEF CanSuspend
    <3>3. QED BY <1>1, <1>2, <1>3, <2>1, <2>2, <3>2, ReloadMove DEF ReloadSteps, Loaded, Holding, Reports
  <2>3. QED BY <1>4, <1>8, <2>2 DEF Step
<1>9. CASE Step(p, "res1", CanResume(dm, Low(n)), dm_resume(dm, Low(n)), "res0", "clr0")
  <2>1. proc[p].pc = "res1"
    BY <1>9 DEF Step, At
  <2>2. CASE CanResume(dm, Low(n)) /\ dm' = dm_resume(dm, Low(n)) /\ Goto(p, "res0") /\ ring' = ring /\ torn' = torn
    <3>1. LowOnly(n) /\ dm_status_device(dm, Low(n))
      BY <1>3, <2>2, Resumes DEF LowOnly
    <3>2. QED BY <1>1, <1>2, <1>3, <2>1, <2>2, <3>1, ReloadMove DEF ReloadSteps, Loaded, Holding, Reports
  <2>3. QED BY <1>4, <1>9, <2>2 DEF Step
<1>10. QED BY <1>2, <1>5, <1>6, <1>7, <1>8, <1>9 DEF _reload_device_with_integrity

\* The last resume ends the reload or leads to the error targets.
LEMMA LastResumeStep ==
  ASSUME ActInv, NEW p \in Procs, _reload_device_resume(p)
  PROVE  ActInv'
<1>1. proc[p].pc = "res0" /\ kind' = kind /\ ring' = ring
  BY DEF _reload_device_resume, world, At
<1>2. PICK n \in Names : n = Name(p)
  BY <1>1, WorkerFacts
<1>3. CASE CanResume(dm, Top(n)) /\ dm' = dm_resume(dm, Top(n)) /\ Return(p) /\ torn' = torn
  BY <1>1, <1>2, <1>3, ResumeAndReturn DEF Reports
<1>4. CASE dm' = dm /\ Goto(p, "err0") /\ Torn(n, "burnt")
  <2>1. Reports(p) /\ "burnt" \in torn'[n] /\ LowOnly(n)
    BY <1>2, <1>4, TornEffect, DmKept DEF Reports, Reasons, ActInv
  <2>2. QED BY <1>1, <1>2, <1>4, <2>1, ReloadMove DEF ReloadSteps, Loaded, Holding
<1>5. QED BY <1>2, <1>3, <1>4 DEF _reload_device_resume

\* The device of the user becomes an error target, which the history records.
LEMMA TopError ==
  ASSUME ActInv, NEW p \in Procs, NEW n \in Names, Name(p) = n, kind' = kind, Others(p),
         dm_status_device(dm, Top(n)), dm' = dm_error_device(dm, Top(n)), torn[n] \subseteq torn'[n],
         torn'[n] \cap {"forced", "burnt"} # {}, Tied(p, n)' => Tied(p, n) /\ Vol(p)' = Vol(p)
  PROVE  TopOnly(n) /\ NameInv(n)'
<1>1. Top(n) \in Nodes /\ NameInv(n)
  BY NodeFacts DEF ActInv
<1>2. /\ Only(dm, dm', Top(n)) /\ dm'[Top(n)].inactive = NoTable /\ ~dm'[Top(n)].susp
      /\ dm'[Top(n)].deferred = dm[Top(n)].deferred /\ dm'[Top(n)].live.key = "none"
      /\ dm'[Top(n)].live.type = "error" /\ dm'[Top(n)].live.vol = "none" /\ ~dm'[Top(n)].live.low
  BY <1>1, ErrorEffect DEF ActInv, TypeOK, Maps
<1>3. TopOnly(n)
  BY <1>2 DEF TopOnly, WellFormed
<1>4. TopInv(n)'
  BY <1>1, <1>2 DEF NameInv, TopInv
<1>5. OwnerInv(n)'
  <2>1. \A q \in Procs : Tied(q, n)' => dm_status_device(dm, Top(n))'
    BY <1>2 DEF dm_status_device
  <2>2. ASSUME Pure(n, {"reused"})'
        PROVE  /\ (\E v \in Vols \cup {"none"} : Owner(n, v))'
               /\ OwnKey(dm[Top(n)].live, dm[Top(n)].susp)'
    <3>1. Pure(n, {"reused"})
      BY <2>2 DEF Pure
    <3>2. PICK v \in Vols \cup {"none"} : Owner(n, v)
      BY <1>1, <3>1 DEF NameInv, OwnerInv
    <3>3. \A q \in Procs : Tied(q, n)' => Vol(q)' = v
      BY <3>2, OthersKeep DEF Owner
    <3>4. Owner(n, v)'
      BY <1>2, <3>3 DEF Owner, NoTable
    <3>5. OwnKey(dm[Top(n)].live, dm[Top(n)].susp)'
      BY <1>2 DEF OwnKey
    <3>6. QED BY <3>4, <3>5
  <2>3. QED BY <2>1, <2>2 DEF OwnerInv
<1>6. SuspInv(n)'
  BY <1>2 DEF SuspInv, KeyLeft, Pure
<1>7. StackInv(n)'
  BY DEF StackInv, Pure, Interference
<1>8. QED BY <1>3, <1>4, <1>5, <1>6, <1>7 DEF NameInv

\* Both layers become error targets.
LEMMA ErrorStep ==
  ASSUME ActInv, NEW p \in Procs, _reload_device_error(p)
  PROVE  ActInv'
<1>1. proc[p].pc \in {"err0", "err1"} /\ kind' = kind
  BY DEF _reload_device_error, world, At
<1>2. PICK n \in Names : n = Name(p)
  BY <1>1, WorkerFacts
<1>3. /\ Top(n) \in Nodes /\ Low(n) \in Nodes /\ <<n, 0>> = Top(n) /\ <<n, 1>> = Low(n)
      /\ "burnt" \in torn[n] /\ proc[p].pc \in ReloadSteps
  BY <1>1, <1>2, NodeFacts, WorkerFacts DEF ProcOK, ReloadSteps
<1>4. CASE /\ proc[p].pc = "err0" /\ dm_status_device(dm, Top(n)) /\ dm' = dm_error_device(dm, Top(n))
           /\ torn' = torn /\ Goto(p, "err1") /\ ring' = ring
  <2>1. "err1" \in Points /\ ProcOK(p)'
    BY <1>2, <1>3, <1>4, ReloadGoes DEF ReloadSteps
  <2>2. /\ Others(p) /\ Name(p)' = n /\ proc'[p].pc = "err1" /\ Vol(p)' = Vol(p) /\ proc'[p].gone = proc[p].gone
        /\ proc'[p].op = proc[p].op
    BY <1>2, <1>4, <2>1, GotoEffect DEF Others, Name, Vol, ActInv
  <2>3. Tied(p, n)' => Tied(p, n)
    BY <1>2, <1>3, <2>2 DEF Tied
  <2>4. TopOnly(n) /\ NameInv(n)'
    BY <1>1, <1>2, <1>3, <1>4, <2>2, <2>3, TopError
  <2>5. QED BY <1>1, <1>2, <1>4, <2>1, <2>4, TopGoto, RingKept DEF Reports
<1>5. CASE proc[p].pc = "err0" /\ dm' = dm /\ Torn(n, "fault") /\ Goto(p, "err1") /\ ring' = ring
  <2>1. Reports(p) /\ "fault" \in torn'[n] /\ torn[n] \subseteq torn'[n] /\ LowOnly(n)
    BY <1>2, <1>5, TornEffect, DmKept DEF Reports, Reasons, ActInv
  <2>2. QED BY <1>1, <1>2, <1>3, <1>5, <2>1, ReloadMove DEF ReloadSteps
<1>6. CASE /\ proc[p].pc = "err1" /\ dm_status_device(dm, Low(n)) /\ dm' = dm_error_device(dm, Low(n))
           /\ torn' = torn /\ Fail(p)
  <2>1. Only(dm, dm', Low(n)) /\ dm'[Low(n)].inactive = NoTable /\ dm'[Low(n)].live.type = "error"
    BY <1>3, <1>6, ErrorEffect DEF ActInv, TypeOK, Maps
  <2>2. LowOnly(n)
    BY <2>1 DEF LowOnly, WellFormed
  <2>3. QED BY <1>1, <1>2, <1>6, <2>2, CarelessFacts, Leave, RingKept DEF Careless, Reports, Fail
<1>7. CASE proc[p].pc = "err1" /\ dm' = dm /\ Torn(n, "fault") /\ Fail(p)
  BY <1>1, <1>2, <1>7, LeaveEarly, RingKept DEF Careless, Reports, Reasons, Fail
<1>8. PICK l \in {0, 1} :
         /\ At(p, IF l = 0 THEN "err0" ELSE "err1")
         /\ \/ dm_status_device(dm, <<n, l>>) /\ dm' = dm_error_device(dm, <<n, l>>) /\ torn' = torn
            \/ dm' = dm /\ Torn(n, "fault")
         /\ IF l = 0 THEN Goto(p, "err1") /\ ring' = ring ELSE Fail(p)
  BY <1>2 DEF _reload_device_error
<1>9. CASE l = 0
  BY <1>3, <1>4, <1>5, <1>8, <1>9 DEF At
<1>10. CASE l = 1
  BY <1>3, <1>6, <1>7, <1>8, <1>10 DEF At
<1>11. QED BY <1>9, <1>10

\* The inactive tables are dropped by the one who has loaded them.
LEMMA ClearStep ==
  ASSUME ActInv, NEW p \in Procs, _reload_device_clear(p)
  PROVE  ActInv'
<1>1. proc[p].pc \in {"clr0", "clr1"} /\ kind' = kind /\ ring' = ring /\ torn' = torn
  BY DEF _reload_device_clear, world, At
<1>2. PICK n \in Names : n = Name(p)
  BY <1>1, WorkerFacts
<1>3. /\ Top(n) \in Nodes /\ Low(n) \in Nodes /\ <<n, 0>> = Top(n) /\ <<n, 1>> = Low(n)
      /\ proc[p].pc \in ReloadSteps /\ NameInv(n) /\ WellFormed(dm[Top(n)]) /\ dm \in Maps
  BY <1>1, NodeFacts DEF ReloadSteps, ActInv, TypeOK, Maps
<1>4. CASE /\ proc[p].pc = "clr0" /\ Goto(p, "clr1")
           /\ dm' = IF dm_status_device(dm, Top(n)) THEN dm_clear_device(dm, Top(n)) ELSE dm
  <2>1. "clr1" \in Points /\ ProcOK(p)'
    BY <1>3, <1>4, ReloadGoes DEF ReloadSteps
  <2>2. /\ Others(p) /\ Name(p)' = n /\ proc'[p].pc = "clr1" /\ Vol(p)' = Vol(p) /\ proc'[p].gone = proc[p].gone
        /\ proc'[p].op = proc[p].op
    BY <1>2, <1>4, <2>1, GotoEffect DEF Others, Name, Vol, ActInv
  <2>3. Tied(p, n)' => Tied(p, n)
    BY <1>2, <1>3, <2>2 DEF Tied
  <2>4. /\ Only(dm, dm', Top(n)) /\ dm'[Top(n)].live = dm[Top(n)].live /\ dm'[Top(n)].inactive = NoTable
        /\ dm'[Top(n)].susp = dm[Top(n)].susp /\ dm'[Top(n)].deferred = dm[Top(n)].deferred
    <3>1. CASE dm_status_device(dm, Top(n))
      BY <1>3, <1>4, <3>1, ClearEffect
    <3>2. CASE ~dm_status_device(dm, Top(n))
      BY <1>3, <1>4, <3>2 DEF Only, WellFormed, NoDev, dm_status_device
    <3>3. QED BY <3>1, <3>2
  <2>5. dm'[Top(n)].live.type = "none" => dm'[Top(n)] = NoDev
    BY <1>3, <1>4, <2>4 DEF WellFormed, dm_status_device
  <2>6. TopOnly(n) /\ dm'[Low(n)] = dm[Low(n)]
    BY <2>4, <2>5, TopOnlyFacts DEF TopOnly, WellFormed
  <2>7. TopInv(n)'
    BY <1>1, <1>3, <2>4 DEF NameInv, TopInv, TopTableOK, StackedKind
  <2>8. OwnerInv(n)'
    <3>1. \A q \in Procs : Tied(q, n)' => dm_status_device(dm, Top(n))'
      BY <1>1, <1>3, <2>2, <2>3, <2>4, OthersKeep DEF NameInv, OwnerInv, dm_status_device
    <3>2. ASSUME Pure(n, {"reused"})'
          PROVE  /\ (\E v \in Vols \cup {"none"} : Owner(n, v))'
                 /\ OwnKey(dm[Top(n)].live, dm[Top(n)].susp)'
      <4>1. Pure(n, {"reused"})
        BY <1>1, <3>2 DEF Pure
      <4>2. PICK v \in Vols \cup {"none"} : Owner(n, v)
        BY <1>3, <4>1 DEF NameInv, OwnerInv
      <4>3. \A q \in Procs : Tied(q, n)' => Vol(q)' = v
        BY <1>1, <2>2, <2>3, <4>2, OthersKeep DEF Owner
      <4>4. Owner(n, v)'
        BY <2>4, <4>2, <4>3 DEF Owner, NoTable
      <4>5. OwnKey(dm[Top(n)].live, dm[Top(n)].susp)'
        BY <1>3, <2>4, <4>1 DEF NameInv, OwnerInv, OwnKey
      <4>6. QED BY <4>4, <4>5
    <3>3. QED BY <3>1, <3>2 DEF OwnerInv
  <2>9. SuspInv(n)'
    <3>1. proc'[p].pc \in Holding
      BY <2>2 DEF Holding
    <3>2. QED BY <2>2, <2>4, <3>1 DEF SuspInv, KeyLeft, Pure
  <2>10. StackInv(n)'
    BY <1>1, <1>3, <1>4, <2>2, <2>4, <2>6, StackFrame DEF NameInv, CaresForLow, At, dm_status_device
  <2>11. QED BY <1>1, <1>2, <1>4, <2>1, <2>6, <2>7, <2>8, <2>9, <2>10, TopGoto, RingKept DEF NameInv, Reports
<1>5. CASE /\ proc[p].pc = "clr1" /\ Goto(p, "un0")
           /\ dm' = IF dm_status_device(dm, Low(n)) THEN dm_clear_device(dm, Low(n)) ELSE dm
  <2>1. LowOnly(n) /\ (dm_status_device(dm', Low(n)) => dm_status_device(dm, Low(n)))
    <3>1. CASE dm_status_device(dm, Low(n))
      BY <1>3, <1>5, <3>1, ClearEffect, LowStays
    <3>2. CASE ~dm_status_device(dm, Low(n))
      BY <1>5, <3>2, DmKept
    <3>3. QED BY <3>1, <3>2
  <2>2. QED BY <1>1, <1>2, <1>3, <1>5, <2>1, ReloadMove DEF ReloadSteps, Loaded, Holding, Reports
<1>6. QED
  <2>1. PICK l \in {0, 1} :
           /\ At(p, IF l = 0 THEN "clr0" ELSE "clr1")
           /\ dm' = IF dm_status_device(dm, <<n, l>>) THEN dm_clear_device(dm, <<n, l>>) ELSE dm
           /\ Goto(p, IF l = 0 THEN "clr1" ELSE "un0")
    BY <1>2 DEF _reload_device_clear
  <2>2. CASE l = 0
    BY <1>3, <1>4, <2>1, <2>2 DEF At
  <2>3. CASE l = 1
    BY <1>3, <1>5, <2>1, <2>3 DEF At
  <2>4. QED BY <2>2, <2>3

\* What is suspended is resumed by the one who has suspended it; what cannot be
\* resumed has no key.
LEMMA UnsuspendStep ==
  ASSUME ActInv, NEW p \in Procs, _reload_device_unsuspend(p)
  PROVE  ActInv'
<1>1. proc[p].pc \in {"un0", "un1"} /\ kind' = kind
  BY DEF _reload_device_unsuspend, world, At
<1>2. PICK n \in Names : n = Name(p)
  BY <1>1, WorkerFacts
<1>3. /\ Top(n) \in Nodes /\ Low(n) \in Nodes /\ <<n, 0>> = Top(n) /\ <<n, 1>> = Low(n)
      /\ proc[p].pc \in ReloadSteps /\ NameInv(n) /\ WellFormed(dm[Top(n)]) /\ "none" \notin Vols /\ "none" \notin Names
  BY <1>1, NodeFacts, ActivationAssumption DEF ReloadSteps, ActInv, TypeOK
<1>4. ASSUME Goto(p, "un1")
      PROVE  /\ "un1" \in Points /\ ProcOK(p)' /\ Others(p) /\ Name(p)' = n /\ proc'[p].pc = "un1"
             /\ Vol(p)' = Vol(p) /\ (Tied(p, n)' => Tied(p, n)) /\ ~At(p, "cremove")' /\ ~CaresForLow(p)'
  <2>1. "un1" \in Points /\ ProcOK(p)'
    BY <1>3, <1>4, ReloadGoes DEF ReloadSteps
  <2>2. /\ Others(p) /\ Name(p)' = n /\ proc'[p].pc = "un1" /\ Vol(p)' = Vol(p) /\ proc'[p].gone = proc[p].gone
        /\ proc'[p].op = proc[p].op
    BY <1>2, <1>4, <2>1, GotoEffect DEF Others, Name, Vol, ActInv
  <2>3. QED BY <1>2, <1>3, <2>1, <2>2 DEF Tied, At, CaresForLow
<1>5. CASE /\ proc[p].pc = "un0" /\ CanResume(dm, Top(n)) /\ dm' = dm_resume(dm, Top(n)) /\ torn' = torn
           /\ Goto(p, "un1") /\ ring' = ring
  <2>1. TopOnly(n) /\ NameInv(n)'
    BY <1>1, <1>2, <1>4, <1>5, TopResumed DEF CaresForLow, At
  <2>2. QED BY <1>1, <1>2, <1>4, <1>5, <2>1, TopGoto, RingKept DEF Reports
<1>6. CASE proc[p].pc = "un0" /\ dm' = dm /\ Torn(n, "fault") /\ Goto(p, "un1") /\ ring' = ring
  <2>1. Reports(p) /\ "fault" \in torn'[n] /\ LowOnly(n)
    BY <1>2, <1>6, TornEffect, DmKept DEF Reports, Reasons, ActInv
  <2>2. QED BY <1>1, <1>2, <1>3, <1>6, <2>1, ReloadMove DEF ReloadSteps
<1>7. CASE /\ proc[p].pc = "un0" /\ ~(dm_status_suspended(dm, Top(n)) /\ CanResume(dm, Top(n)))
           /\ dm' = dm /\ torn' = torn /\ Goto(p, "un1") /\ ring' = ring
  <2>1. TopSame(n) /\ LowOnly(n)
    BY <1>7, DmKept, LowOnlyFacts
  <2>2. StepOf(p, n)
    BY <1>1, <1>2, <1>4, <1>7, <2>1, GotoEffect, RingKept, LowOnlyFacts, ReportsFacts
       DEF StepOf, Typed, Reports, ActInv
  <2>3. TopInv(n)'
    BY <1>1, <1>3, <1>7, <2>1, TopFrame DEF NameInv
  <2>4. \A q \in Procs : Tied(q, n)' => Tied(q, n) /\ Vol(q)' = Vol(q)
    BY <1>1, <1>4, <1>7, OthersKeep
  <2>5. OwnerInv(n)'
    BY <1>3, <1>7, <2>1, <2>4, OwnerFrame DEF NameInv
  <2>6. SuspInv(n)'
    <3> SUFFICES ASSUME Pure(n, {"killed", "fault"})'
                 PROVE  /\ (dm[Top(n)].inactive # NoTable => \E q \in Procs : Name(q) = n /\ proc[q].pc \in Loaded)'
                        /\ (KeyLeft(n) =>
                              \E q \in Procs : Name(q) = n /\ proc[q].pc \in Holding)'
      BY DEF SuspInv
    <3>1. Pure(n, {"killed", "fault"})
      BY <1>7 DEF Pure
    <3>2. \A q \in Procs : Name(q) = n /\ proc[q].pc \in Loaded => Name(q)' = n /\ proc'[q].pc \in Loaded
      BY <1>1, <1>4, <1>7, OthersKeep DEF Loaded
    <3>3. ~(dm[Top(n)].susp /\ dm[Top(n)].live.key # "none")
      <4> SUFFICES ASSUME dm[Top(n)].susp, dm[Top(n)].live.key # "none"
                   PROVE  FALSE
        OBVIOUS
      <4>1. dm_status_device(dm, Top(n))
        BY <1>3 DEF WellFormed, NoDev, dm_status_device
      <4>2. Resumed(dm, Top(n)).type = "crypt" /\ Resumed(dm, Top(n)).key = "none"
        BY <1>7, <4>1 DEF dm_status_suspended, CanResume
      <4>3. dm[Top(n)].inactive # NoTable /\ dm[Top(n)].inactive.key = "none"
        BY <4>2 DEF Resumed
      <4>4. QED BY <1>3, <4>3 DEF NameInv, TopInv, TopTableOK
    <3>4. QED BY <1>3, <1>7, <3>1, <3>2, <3>3 DEF NameInv, SuspInv, KeyLeft, Pure
  <2>7. StackInv(n)'
    BY <1>1, <1>2, <1>3, <1>4, <1>7, StackFrame DEF NameInv, CaresForLow, At
  <2>8. QED BY <2>2, <2>3, <2>5, <2>6, <2>7, OneName DEF NameInv
<1>8. CASE proc[p].pc = "un1" /\ Fail(p) /\ dm' = dm /\ (torn' = torn \/ Torn(n, "fault"))
  BY <1>1, <1>2, <1>8, LeaveEarly, RingKept DEF Careless, Reports, Reasons, Fail
<1>9. CASE proc[p].pc = "un1" /\ Fail(p) /\ CanResume(dm, Low(n)) /\ dm' = dm_resume(dm, Low(n)) /\ torn' = torn
  <2>1. LowOnly(n) /\ dm_status_device(dm, Low(n))
    BY <1>3, <1>9, Resumes DEF LowOnly
  <2>2. QED BY <1>1, <1>2, <1>9, <2>1, CarelessFacts, Leave, RingKept DEF Careless, Reports, Fail
<1>10. PICK l \in {0, 1} :
         /\ At(p, IF l = 0 THEN "un0" ELSE "un1")
         /\ \/ /\ dm_status_suspended(dm, <<n, l>>) /\ CanResume(dm, <<n, l>>)
               /\ dm' = dm_resume(dm, <<n, l>>) /\ torn' = torn
            \/ dm' = dm /\ Torn(n, "fault")
            \/ ~(dm_status_suspended(dm, <<n, l>>) /\ CanResume(dm, <<n, l>>)) /\ dm' = dm /\ torn' = torn
         /\ IF l = 0 THEN Goto(p, "un1") /\ ring' = ring ELSE Fail(p)
  BY <1>2 DEF _reload_device_unsuspend
<1>11. CASE l = 0
  BY <1>3, <1>5, <1>6, <1>7, <1>10, <1>11 DEF At
<1>12. CASE l = 1
  BY <1>3, <1>8, <1>9, <1>10, <1>12 DEF At
<1>13. QED BY <1>11, <1>12

\* crypt_suspend looks at the device only.
LEMMA SuspendCheckStep ==
  ASSUME ActInv, NEW p \in Procs, crypt_suspend(p)
  PROVE  ActInv'
<1>1. proc[p].pc = "scheck" /\ kind' = kind /\ dm' = dm /\ torn' = torn /\ ring' = ring
  BY DEF crypt_suspend, world, At, Same
<1>2. CASE Return(p)
  BY <1>1, <1>2, LeaveEarly, RingKept DEF Careless, Reports
<1>3. CASE Goto(p, "ssusp")
  BY <1>1, <1>3, MoveEarly, RingKept, SuspendGoes DEF Careless, SuspendSteps, ReloadSteps
<1>4. QED BY <1>2, <1>3 DEF crypt_suspend

\* luksSuspend suspends the device and is going to wipe its key, unless the key
\* is wrapped.
LEMMA SuspendDeviceStep ==
  ASSUME ActInv, NEW p \in Procs, dm_suspend_device(p)
  PROVE  ActInv'
<1>1. proc[p].pc = "ssusp" /\ kind' = kind /\ ring' = ring
  BY DEF dm_suspend_device, world, At
<1>2. PICK n \in Names : n = Name(p)
  BY <1>1, WorkerFacts
<1>3. CASE Return(p) /\ dm' = dm /\ torn' = torn
  BY <1>1, <1>3, LeaveEarly, RingKept DEF Careless, Reports
<1>4. ASSUME NEW s \in {"swipe", "sdrop"}, CanSuspend(dm, Top(n)), dm' = dm_suspend(dm, Top(n)), Goto(p, s),
             Reports(p), s = "swipe" \/ ~KeyLeft(n)'
      PROVE  ActInv'
  <2>1. s \in Points /\ ProcOK(p)'
    BY <1>1, <1>4, SuspendGoes DEF SuspendSteps
  <2>2. Others(p) /\ Name(p)' = n /\ proc'[p].pc = s /\ proc'[p].op = proc[p].op /\ torn[n] \subseteq torn'[n]
    BY <1>2, <1>4, <2>1, GotoEffect, ReportsFacts DEF Others, Name, ActInv
  <2>3. proc[p].op = "suspend"
    BY <1>1, WorkerFacts DEF ProcOK, PcOK, OpenSteps, ReloadSteps, SuspendSteps, ResumeSteps, CloseSteps
  <2>4. TopOnly(n) /\ NameInv(n)'
    BY <1>1, <1>2, <1>4, <2>2, <2>3, TopSuspended DEF Holding, Loaded, CaresForLow, At, Tied, ReloadSteps
  <2>5. QED BY <1>1, <1>2, <1>4, <2>1, <2>4, TopGoto, RingKept
<1>5. CASE /\ CanSuspend(dm, Top(n)) /\ dm' = dm_suspend(dm, Top(n)) /\ Goto(p, "swipe") /\ torn' = torn
  BY <1>4, <1>5 DEF Reports
<1>6. CASE /\ CanSuspend(dm, Top(n)) /\ dm' = dm_suspend(dm, Top(n)) /\ Goto(p, "sdrop") /\ Vol(p) \in Wrapped
           /\ IF dm[Top(n)].live.vol # Vol(p) THEN Torn(n, "mistaken") ELSE torn' = torn
  <2>1. Reports(p)
    BY <1>2, <1>6 DEF Reports, Reasons
  <2>2. CASE Torn(n, "mistaken")
    <3>1. "mistaken" \in torn'[n]
      BY <2>2, TornEffect DEF Reasons, ActInv
    <3>2. QED BY <1>4, <1>6, <2>1, <3>1 DEF KeyLeft, Pure
  <2>3. CASE dm[Top(n)].live.vol = Vol(p)
    <3>1. dm'[Top(n)].live = dm[Top(n)].live
      BY <1>6, NodeFacts, SuspendEffect DEF ActInv, TypeOK, Maps
    <3>2. QED BY <1>4, <1>6, <2>1, <2>3, <3>1 DEF KeyLeft
  <2>4. QED BY <1>6, <2>2, <2>3
<1>7. QED BY <1>2, <1>3, <1>5, <1>6 DEF dm_suspend_device, crypt_cipher_wrapped_key

\* A message wipes or sets the key of the live table while the device is
\* suspended; whoever sets one is there to resume the device.
LEMMA TopMessage ==
  ASSUME ActInv, NEW p \in Procs, NEW n \in Names, Name(p) = n, kind' = kind, Others(p), torn[n] \subseteq torn'[n],
         Name(p)' = n, Tied(p, n)' => Tied(p, n) /\ Vol(p)' = Vol(p),
         proc[p].pc \notin Loaded, ~CaresForLow(p), ~At(p, "cremove")', CanMessage(dm, Top(n)),
         Only(dm, dm', Top(n)), dm'[Top(n)].inactive = dm[Top(n)].inactive, dm'[Top(n)].susp = dm[Top(n)].susp,
         dm'[Top(n)].deferred = dm[Top(n)].deferred, dm'[Top(n)].live.type = dm[Top(n)].live.type,
         dm'[Top(n)].live.vol = dm[Top(n)].live.vol, dm'[Top(n)].live.low = dm[Top(n)].live.low,
         dm'[Top(n)].live.key # "none" => proc'[p].pc \in Holding,
         Pure(n, {"reused"})' => dm'[Top(n)].live.key \in {"none", dm[Top(n)].live.vol}
  PROVE  TopOnly(n) /\ NameInv(n)'
<1>1. /\ Top(n) \in Nodes /\ NameInv(n) /\ WellFormed(dm[Top(n)])
      /\ dm[Top(n)].live.type = "crypt" /\ dm[Top(n)].susp /\ dm_status_device(dm, Top(n))
  BY NodeFacts DEF ActInv, TypeOK, CanMessage, dm_status_suspended
<1>2. TopOnly(n) /\ dm'[Low(n)] = dm[Low(n)]
  BY <1>1, TopOnlyFacts DEF TopOnly, WellFormed
<1>3. TopInv(n)'
  BY <1>1 DEF NameInv, TopInv, TopTableOK, StackedKind, NoTable
<1>4. OwnerInv(n)'
  <2>1. \A q \in Procs : Tied(q, n)' => dm_status_device(dm, Top(n))'
    BY <1>1 DEF dm_status_device
  <2>2. ASSUME Pure(n, {"reused"})'
        PROVE  /\ (\E v \in Vols \cup {"none"} : Owner(n, v))'
               /\ OwnKey(dm[Top(n)].live, dm[Top(n)].susp)'
    <3>1. Pure(n, {"reused"})
      BY <2>2 DEF Pure
    <3>2. PICK v \in Vols \cup {"none"} : Owner(n, v)
      BY <1>1, <3>1 DEF NameInv, OwnerInv
    <3>3. \A q \in Procs : Tied(q, n)' => Vol(q)' = v
      BY <3>2, OthersKeep DEF Owner
    <3>4. Owner(n, v)'
      BY <3>2, <3>3 DEF Owner
    <3>5. OwnKey(dm[Top(n)].live, dm[Top(n)].susp)'
      BY <1>1, <2>2 DEF OwnKey
    <3>6. QED BY <3>4, <3>5
  <2>3. QED BY <2>1, <2>2 DEF OwnerInv
<1>5. SuspInv(n)'
  <2> SUFFICES ASSUME Pure(n, {"killed", "fault"})'
               PROVE  /\ (dm[Top(n)].inactive # NoTable => \E q \in Procs : Name(q) = n /\ proc[q].pc \in Loaded)'
                      /\ (KeyLeft(n) =>
                            \E q \in Procs : Name(q) = n /\ proc[q].pc \in Holding)'
    BY DEF SuspInv
  <2>1. Pure(n, {"killed", "fault"})
    BY DEF Pure
  <2>2. \A q \in Procs : Name(q) = n /\ proc[q].pc \in Loaded => Name(q)' = n /\ proc'[q].pc \in Loaded
    BY OthersKeep
  <2>3. QED BY <1>1, <2>1, <2>2 DEF NameInv, SuspInv, KeyLeft, Pure
<1>6. StackInv(n)'
  BY <1>1, <1>2, StackFrame DEF NameInv, dm_status_device
<1>7. QED BY <1>2, <1>3, <1>4, <1>5, <1>6 DEF NameInv

\* The key is wiped, or the device is to be resumed.
LEMMA SuspendWipeStep ==
  ASSUME ActInv, NEW p \in Procs, dm_suspend_wipe(p)
  PROVE  ActInv'
<1>1. proc[p].pc = "swipe" /\ kind' = kind /\ torn' = torn /\ ring' = ring
  BY DEF dm_suspend_wipe, world, At
<1>2. PICK n \in Names : n = Name(p)
  BY <1>1, WorkerFacts
<1>3. proc[p].pc # "idle" /\ proc[p].pc \notin Loaded /\ ~CaresForLow(p) /\ proc[p].pc \in SuspendSteps
  BY <1>1 DEF Loaded, CaresForLow, At, SuspendSteps
<1>4. CASE dm' = dm /\ Goto(p, "sundo")
  <2>1. "sundo" \in Points /\ ProcOK(p)'
    BY <1>3, <1>4, SuspendGoes DEF SuspendSteps
  <2>2. QED BY <1>1, <1>2, <1>3, <1>4, <2>1, DmKept, Move, RingKept DEF Reports, Holding, ReloadSteps
<1>5. CASE CanMessage(dm, Top(n)) /\ dm' = dm_key_wipe(dm, Top(n)) /\ Goto(p, "sdrop")
  <2>1. "sdrop" \in Points /\ ProcOK(p)'
    BY <1>3, <1>5, SuspendGoes DEF SuspendSteps
  <2>2. Others(p) /\ Name(p)' = n /\ proc'[p].pc = "sdrop" /\ proc'[p].op = proc[p].op
    BY <1>2, <1>5, <2>1, GotoEffect DEF Others, Name, ActInv
  <2>3. proc[p].op = "suspend"
    BY <1>1, WorkerFacts DEF ProcOK, PcOK, OpenSteps, ReloadSteps, SuspendSteps, ResumeSteps, CloseSteps
  <2>4. ~Tied(p, n)' /\ ~At(p, "cremove")'
    BY <2>2, <2>3 DEF Tied, ReloadSteps, At
  <2>5. /\ Only(dm, dm', Top(n)) /\ dm'[Top(n)].inactive = dm[Top(n)].inactive /\ dm'[Top(n)].susp = dm[Top(n)].susp
        /\ dm'[Top(n)].deferred = dm[Top(n)].deferred /\ dm'[Top(n)].live.type = dm[Top(n)].live.type
        /\ dm'[Top(n)].live.vol = dm[Top(n)].live.vol /\ dm'[Top(n)].live.low = dm[Top(n)].live.low
        /\ dm'[Top(n)].live.key = "none"
    BY <1>5, NodeFacts, WipeEffect DEF ActInv, TypeOK, Maps
  <2>6. TopOnly(n) /\ NameInv(n)'
    BY <1>1, <1>2, <1>3, <1>5, <2>2, <2>4, <2>5, TopMessage
  <2>7. QED BY <1>1, <1>2, <1>3, <1>5, <2>1, <2>6, TopGoto, RingKept DEF Reports
<1>6. QED BY <1>2, <1>4, <1>5 DEF dm_suspend_wipe

\* The key could not be wiped: the device is resumed, or a fault is recorded.
LEMMA SuspendUndoStep ==
  ASSUME ActInv, NEW p \in Procs, dm_suspend_undo(p)
  PROVE  ActInv'
<1>1. proc[p].pc = "sundo" /\ kind' = kind /\ ring' = ring /\ Return(p)
  BY DEF dm_suspend_undo, world, At
<1>2. PICK n \in Names : n = Name(p)
  BY <1>1, WorkerFacts
<1>3. CASE dm' = dm /\ Torn(Name(p), "fault")
  BY <1>1, <1>2, <1>3, GiveUp
<1>4. CASE CanResume(dm, Top(n)) /\ dm' = dm_resume(dm, Top(n)) /\ (torn' = torn \/ Torn(Name(p), "overlap"))
  <2>1. Reports(p)
    BY <1>4 DEF Reports, Reasons
  <2>2. QED BY <1>1, <1>2, <1>4, <2>1, ResumeAndReturn
<1>5. QED BY <1>2, <1>3, <1>4 DEF dm_suspend_undo

\* The key leaves the thread keyring.
LEMMA SuspendDropStep ==
  ASSUME ActInv, NEW p \in Procs, crypt_suspend_drop(p)
  PROVE  ActInv'
<1>1. proc[p].pc = "sdrop" /\ kind' = kind /\ dm' = dm /\ torn' = torn /\ Return(p)
  BY DEF crypt_suspend_drop, world, At
<1>2. ring' \in [Procs -> Vols \cup {"none"}]
  BY DEF crypt_suspend_drop, crypt_drop_keyring_key, ActInv, TypeOK
<1>3. QED BY <1>1, <1>2, LeaveEarly DEF Careless, Reports

\* luksResume opens a keyslot of the volume.
LEMMA ResumeCheckStep ==
  ASSUME ActInv, NEW p \in Procs, crypt_resume_by_passphrase(p)
  PROVE  ActInv'
<1>1. proc[p].pc = "ucheck" /\ kind' = kind /\ dm' = dm /\ torn' = torn
  BY DEF crypt_resume_by_passphrase, world, At
<1>2. CASE Return(p) /\ ring' = ring
  BY <1>1, <1>2, LeaveEarly, RingKept DEF Careless, Reports
<1>3. CASE /\ Goto(p, "uset")
           /\ crypt_volume_key_load_in_keyring(p, IF UseKeyring(Vol(p)) THEN Vol(p) ELSE ring[p])
  <2>1. ring' \in [Procs -> Vols \cup {"none"}]
    BY <1>3 DEF crypt_volume_key_load_in_keyring, ActInv, TypeOK, Calls, Vol
  <2>2. "uset" \in Points /\ ProcOK(p)'
    BY <1>1, <1>3, ResumeGoes DEF ResumeSteps
  <2>3. QED BY <1>1, <1>3, <2>1, <2>2, MoveEarly DEF Careless, ReloadSteps
<1>4. QED BY <1>2, <1>3 DEF crypt_resume_by_passphrase

\* The key goes to the device of the volume it belongs to unless the name was
\* closed and opened again, which the history records.
LEMMA ReinstateStep ==
  ASSUME ActInv, NEW p \in Procs, dm_reinstate_key(p)
  PROVE  ActInv'
<1>1. proc[p].pc = "uset" /\ kind' = kind
  BY DEF dm_reinstate_key, world, At
<1>2. PICK n \in Names : n = Name(p)
  BY <1>1, WorkerFacts
<1>3. CASE dm' = dm /\ torn' = torn /\ Fail(p)
  BY <1>1, <1>3, LeaveEarly, RingKept DEF Careless, Reports, Fail
<1>4. CASE CanMessage(dm, Top(n)) /\ dm' = dm_key_set(dm, Top(n), Vol(p), UseKeyring(Vol(p)))
           /\ Goto(p, "uresume") /\ ring' = ring /\ Reused(p)
  <2>1. proc[p].pc # "idle" /\ proc[p].pc \notin Loaded /\ ~CaresForLow(p) /\ proc[p].pc \in ResumeSteps
    BY <1>1 DEF Loaded, CaresForLow, At, ResumeSteps
  <2>2. "uresume" \in Points /\ ProcOK(p)'
    BY <1>4, <2>1, ResumeGoes DEF ResumeSteps
  <2>3. Others(p) /\ Name(p)' = n /\ proc'[p].pc = "uresume" /\ proc'[p].op = proc[p].op
        /\ proc'[p].gone = proc[p].gone /\ Vol(p)' = Vol(p)
    BY <1>2, <1>4, <2>2, GotoEffect DEF Others, Name, Vol, ActInv
  <2>4. proc[p].op = "resume" /\ Vol(p) \in Vols
    BY <1>1, VolOf, WorkerFacts
       DEF ProcOK, PcOK, OpenSteps, ReloadSteps, SuspendSteps, ResumeSteps, CloseSteps, Vol
  <2>5. (Tied(p, n)' => Tied(p, n)) /\ ~At(p, "cremove")' /\ proc'[p].pc \in Holding
    BY <1>2, <2>3, <2>4 DEF Tied, ReloadSteps, At, Holding
  <2>6. Reports(p) /\ torn[n] \subseteq torn'[n] /\ (proc[p].gone => "reused" \in torn'[n])
    BY <1>2, <1>4, <2>1, ReusedFacts
  <2>7. UseKeyring(Vol(p)) \in BOOLEAN
    BY DEF UseKeyring
  <2>8. /\ Only(dm, dm', Top(n)) /\ dm'[Top(n)].inactive = dm[Top(n)].inactive /\ dm'[Top(n)].susp = dm[Top(n)].susp
        /\ dm'[Top(n)].deferred = dm[Top(n)].deferred /\ dm'[Top(n)].live.type = dm[Top(n)].live.type
        /\ dm'[Top(n)].live.vol = dm[Top(n)].live.vol /\ dm'[Top(n)].live.low = dm[Top(n)].live.low
        /\ dm'[Top(n)].live.key = Vol(p)
    BY <1>4, <2>4, <2>7, NodeFacts, KeySetEffect DEF ActInv, TypeOK, Maps
  <2>9. ASSUME Pure(n, {"reused"})' PROVE Vol(p) = dm[Top(n)].live.vol
    <3>1. Pure(n, {"reused"}) /\ ~proc[p].gone
      BY <2>6, <2>9 DEF Pure
    <3>2. PICK v \in Vols \cup {"none"} : Owner(n, v)
      BY <3>1 DEF ActInv, NameInv, OwnerInv
    <3>3. Tied(p, n)
      BY <1>2, <2>4, <3>1 DEF Tied
    <3>4. QED BY <1>4, <3>2, <3>3 DEF Owner, CanMessage
  <2>10. TopOnly(n) /\ NameInv(n)'
    BY <1>1, <1>2, <1>4, <2>1, <2>3, <2>5, <2>6, <2>8, <2>9, TopMessage
  <2>11. QED BY <1>1, <1>2, <1>4, <2>1, <2>2, <2>6, <2>10, TopGoto, RingKept
<1>5. QED BY <1>2, <1>3, <1>4 DEF dm_reinstate_key

\* The resume that ends luksResume.
LEMMA ResumeDeviceStep ==
  ASSUME ActInv, NEW p \in Procs, dm_resume_device(p)
  PROVE  ActInv'
<1>1. proc[p].pc = "uresume" /\ kind' = kind
  BY DEF dm_resume_device, world, At
<1>2. PICK n \in Names : n = Name(p)
  BY <1>1, WorkerFacts
<1>3. CASE dm' = dm /\ Torn(Name(p), "fault") /\ Fail(p)
  BY <1>1, <1>2, <1>3, GiveUp DEF Fail
<1>4. CASE CanResume(dm, Top(n)) /\ dm' = dm_resume(dm, Top(n)) /\ Return(p) /\ ring' = ring /\ torn' = torn
  BY <1>1, <1>2, <1>4, ResumeAndReturn DEF Reports
<1>5. QED BY <1>2, <1>3, <1>4 DEF dm_resume_device

\* A close reads the live table: it gives up, or goes on to remove what it has
\* seen.
LEMMA DeactivateStep ==
  ASSUME ActInv, NEW p \in Procs, crypt_deactivate_by_name(p)
  PROVE  ActInv'
<1>1. proc[p].pc = "cquery" /\ kind' = kind /\ torn' = torn /\ ring' = ring
  BY DEF crypt_deactivate_by_name, world, At
<1>2. PICK n \in Names : n = Name(p)
  BY <1>1, WorkerFacts
<1>3. /\ ProcOK(p) /\ NameInv(n) /\ Top(n) \in Nodes /\ WellFormed(dm[Top(n)]) /\ dm[Top(n)] \in Devices
      /\ proc[p].pc # "idle" /\ "none" \notin Names /\ proc[p] \in Calls
  BY <1>1, <1>2, WorkerFacts, NodeFacts DEF ActInv, TypeOK
<1>4. CASE Return(p) /\ dm' = dm
  BY <1>1, <1>4, LeaveEarly, RingKept DEF Careless, Reports
<1>5. CASE Return(p) /\ dm_status_device(dm, Top(n)) /\ dm' = dm_cancel_deferred_removal(dm, Top(n))
  <2>1. /\ Only(dm, dm', Top(n)) /\ dm'[Top(n)].live = dm[Top(n)].live /\ dm'[Top(n)].inactive = dm[Top(n)].inactive
        /\ dm'[Top(n)].susp = dm[Top(n)].susp /\ ~dm'[Top(n)].deferred
    BY <1>3, <1>5, DeferEffect DEF ActInv, TypeOK, Maps
  <2>2. TopOnly(n) /\ dm'[Low(n)] = dm[Low(n)] /\ TopSame(n)
    BY <1>3, <1>5, <2>1, TopOnlyFacts DEF TopOnly, WellFormed, TopSame, dm_status_device
  <2>3. Others(p) /\ Name(p)' = "none" /\ torn[n] \subseteq torn'[n]
    BY <1>1, <1>5, ReturnEffect DEF Others, Name, ActInv
  <2>4. TopInv(n)'
    BY <1>1, <1>3, <2>2, <2>3, TopFrame DEF NameInv
  <2>5. \A q \in Procs : Tied(q, n)' => Tied(q, n) /\ Vol(q)' = Vol(q)
    BY <1>1, <1>3, <2>3, OthersKeep DEF Tied
  <2>6. OwnerInv(n)'
    BY <1>3, <2>2, <2>3, <2>5, OwnerFrame DEF NameInv
  <2>7. SuspInv(n)'
    BY <1>1, <1>3, <2>2, <2>3, SuspFrame DEF NameInv, Loaded, Holding
  <2>8. StackInv(n)'
    <3>1. ~CaresForLow(p) /\ Name(p)' # n
      BY <1>1, <1>3, <2>3 DEF CaresForLow, At
    <3>2. /\ dm'[Top(n)].live.low = dm[Top(n)].live.low /\ dm'[Top(n)].live.type = dm[Top(n)].live.type
          /\ dm_status_device(dm', Low(n)) => dm_status_device(dm, Low(n))
      BY <2>1, <2>2 DEF dm_status_device
    <3>3. QED BY <1>1, <1>3, <2>3, <3>1, <3>2, StackFrame DEF NameInv
  <2>9. QED BY <1>1, <1>2, <1>3, <1>5, <2>2, <2>4, <2>6, <2>7, <2>8, TopReturn, RingKept DEF NameInv, Reports
<1>6. ASSUME NEW b \in BOOLEAN, b = (dm[Top(n)].live.type = "crypt" /\ dm[Top(n)].live.low),
             NEW v \in Vols \cup {"none"}, dm_status_device(dm, Top(n)), dm' = dm,
             proc' = [proc EXCEPT ![p] = [@ EXCEPT !.pc = "cremove", !.low = b, !.vol = v]]
      PROVE  ActInv'
  <2> DEFINE r == [proc[p] EXCEPT !.pc = "cremove", !.low = b, !.vol = v]
  <2>1. r \in Calls /\ r.pc = "cremove" /\ r.low = b /\ r.op = proc[p].op /\ r.n = proc[p].n
    <3>1. "cremove" \in Points
      BY DEF Points
    <3>2. QED BY <1>3, <3>1 DEF Calls
  <2>2. proc' = [proc EXCEPT ![p] = r]
    BY <1>6
  <2> HIDE DEF r
  <2>3. /\ proc' \in [Procs -> Calls] /\ Others(p) /\ proc'[p].pc = "cremove" /\ proc'[p].low = b
        /\ proc'[p].op = proc[p].op /\ Name(p)' = n /\ proc'[p].n = n
    BY <1>2, <2>1, <2>2 DEF ActInv, TypeOK, Others, Name
  <2>4. proc[p].op = "close"
    BY <1>1, <1>3 DEF ProcOK, PcOK, OpenSteps, ReloadSteps, SuspendSteps, ResumeSteps, CloseSteps
  <2>5. ProcOK(p)'
    BY <2>3, <2>4 DEF ProcOK, PcOK, At, CloseSteps
  <2>6. TopSame(n) /\ LowOnly(n) /\ torn[n] \subseteq torn'[n]
    BY <1>1, <1>6, DmKept, LowOnlyFacts
  <2>7. StepOf(p, n)
    BY <1>1, <1>2, <2>3, <2>5, <2>6, RingKept, LowOnlyFacts, ReportsFacts DEF StepOf, Typed, Reports
  <2>8. TopInv(n)'
    BY <1>1, <1>3, <2>6, TopFrame DEF NameInv
  <2>9. \A q \in Procs : Tied(q, n)' => Tied(q, n) /\ Vol(q)' = Vol(q)
    BY <1>1, <2>3, <2>4, OthersKeep DEF Tied, ReloadSteps
  <2>10. OwnerInv(n)'
    BY <1>3, <2>6, <2>9, OwnerFrame DEF NameInv
  <2>11. SuspInv(n)'
    BY <1>1, <1>3, <2>3, <2>6, SuspFrame DEF NameInv, Loaded, Holding
  <2>12. StackInv(n)'
    <3> SUFFICES ASSUME Pure(n, Interference)'
                 PROVE  /\ (\A q \in Procs :
                              Name(q) = n /\ At(q, "cremove") /\ ~proc[q].gone =>
                                dm_status_device(dm, Top(n)) /\ proc[q].low = dm[Top(n)].live.low)'
                        /\ (dm_status_device(dm, Low(n)) =>
                              dm[Top(n)].live.low \/ \E q \in Procs : Name(q) = n /\ CaresForLow(q))'
      BY DEF StackInv
    <3>1. Pure(n, Interference)
      BY <1>1 DEF Pure
    <3>2. dm[Top(n)].live.low \in BOOLEAN
      BY <1>3 DEF Devices, Tables
    <3>3. b = dm[Top(n)].live.low
      BY <1>3, <1>6, <3>2 DEF NameInv, TopInv, TopTableOK, NoTable, dm_status_device
    <3>4. \A q \in Procs : (Name(q) = n /\ At(q, "cremove") /\ ~proc[q].gone)' => 
             dm_status_device(dm, Top(n)) /\ proc'[q].low = dm[Top(n)].live.low
      BY <1>1, <1>3, <1>6, <2>3, <3>1, <3>3, OthersKeep DEF NameInv, StackInv
    <3>5. ~CaresForLow(p)
      BY <1>1 DEF CaresForLow, At
    <3>6. \A q \in Procs : Name(q) = n /\ CaresForLow(q) => Name(q)' = n /\ CaresForLow(q)'
      BY <1>1, <2>3, <3>5, OthersKeep
    <3>7. QED BY <1>3, <1>6, <3>1, <3>4, <3>6 DEF NameInv, StackInv, dm_status_device
  <2>13. QED BY <2>7, <2>8, <2>10, <2>11, <2>12, OneName DEF NameInv
<1>7. CASE /\ dm_status_device(dm, Top(n)) /\ proc[p].flag # "cancel"
           /\ proc' = [proc EXCEPT ![p] = [@ EXCEPT !.pc = "cremove",
                         !.low = (dm[Top(n)].live.type = "crypt" /\ dm[Top(n)].live.low),
                         !.vol = IF dm[Top(n)].live.vol = "none" THEN Vol(p) ELSE dm[Top(n)].live.vol]]
  <2>1. dm' = dm
    BY <1>2, <1>7 DEF crypt_deactivate_by_name
  <2> DEFINE b == (dm[Top(n)].live.type = "crypt" /\ dm[Top(n)].live.low)
             v == IF dm[Top(n)].live.vol = "none" THEN Vol(p) ELSE dm[Top(n)].live.vol
  <2>2. b \in BOOLEAN /\ v \in Vols \cup {"none"}
    BY <1>3 DEF Devices, Tables, Calls, Vol
  <2>3. proc' = [proc EXCEPT ![p] = [@ EXCEPT !.pc = "cremove", !.low = b, !.vol = v]]
    BY <1>7
  <2>4. b = (dm[Top(n)].live.type = "crypt" /\ dm[Top(n)].live.low)
    OBVIOUS
  <2> HIDE DEF b, v
  <2>5. QED BY <1>6, <1>7, <2>1, <2>2, <2>3, <2>4
<1>8. CASE ~dm_status_device(dm, Top(n)) \/ proc[p].flag # "cancel"
  <2>1. dm' = dm
    BY <1>2, <1>8 DEF crypt_deactivate_by_name
  <2>2. QED BY <1>2, <1>4, <1>7, <2>1 DEF crypt_deactivate_by_name
<1>9. CASE dm_status_device(dm, Top(n)) /\ proc[p].flag = "cancel"
  <2>1. dm' = dm_cancel_deferred_removal(dm, Top(n)) /\ Return(p)
    BY <1>2, <1>9 DEF crypt_deactivate_by_name
  <2>2. QED BY <1>5, <1>9, <2>1
<1>10. QED BY <1>8, <1>9

\* The device of the user is gone, and everybody at work on it is told so.
Forgotten(n) ==
  /\ proc' \in [Procs -> Calls]
  /\ \A q \in Procs :
       /\ proc'[q].op = proc[q].op /\ proc'[q].n = proc[q].n /\ proc'[q].vol = proc[q].vol
       /\ proc'[q].from = proc[q].from /\ proc'[q].low = proc[q].low /\ proc'[q].refresh = proc[q].refresh
       /\ proc'[q].pc = proc[q].pc \/ (proc[q].pc = "cremove" /\ proc'[q].pc = "clow")
       /\ Name(q) # n => proc'[q] = proc[q]
       /\ Name(q) = n /\ proc[q].op \in {"refresh", "resize", "resume", "close"} => proc'[q].gone

\* The device of the user goes away: nobody is tied to the name any more, and the
\* lower layer it had has somebody to remove it, or the history says why not.
LEMMA TopGone ==
  ASSUME ActInv, NEW n \in Names, kind' = kind, ring' \in [Procs -> Vols \cup {"none"}],
         torn' \in [Names -> SUBSET Reasons], torn[n] \subseteq torn'[n],
         \A m \in Names \ {n} : torn'[m] = torn[m], Forgotten(n),
         dm' = dm_remove(dm, Top(n)),
         torn'[n] \cap Interference = {} /\ dm[Top(n)].live.low =>
           \E q \in Procs : Name(q)' = n /\ CaresForLow(q)'
  PROVE  ActInv'
<1>1. Only(dm, dm', Top(n)) /\ dm'[Top(n)] = NoDev
  BY NodeFacts, RemoveEffect DEF ActInv, TypeOK, Maps
<1>2. TopOnly(n)
  BY <1>1 DEF TopOnly, WellFormed, NoDev, NoTable
<1>3. TypeOK'
  BY <1>2, TopOnlyFacts DEF ActInv, TypeOK, Maps, Forgotten
<1>4. ASSUME NEW q \in Procs PROVE ProcOK(q)'
  <2>1. ProcOK(q)
    BY DEF ActInv, ProcInv, ProcOK
  <2>2. PcOK(q)'
    BY <2>1 DEF Forgotten, ProcOK, PcOK, OpenSteps, ReloadSteps, SuspendSteps, ResumeSteps, CloseSteps
  <2>3. At(q, "low")' => Stacked(q)'
    BY <2>1 DEF Forgotten, ProcOK, At, Stacked, Kind, Vol
  <2>4. proc'[q].pc \in {"err0", "err1"} => "burnt" \in torn'[Name(q)']
    <3>1. proc'[q].pc \in {"err0", "err1"} => proc[q].pc = proc'[q].pc /\ Name(q) \in Names /\ Name(q)' = Name(q)
      BY <2>1 DEF Forgotten, ProcOK, PcOK, Name
    <3>2. QED BY <2>1, <3>1 DEF ProcOK
  <2>5. QED BY <2>2, <2>3, <2>4 DEF ProcOK
<1>5. ASSUME NEW m \in Names \ {n} PROVE NameInv(m)'
  <2>1. dm'[Top(m)] = dm[Top(m)] /\ dm'[Low(m)] = dm[Low(m)]
    BY <1>2, TopOnlyFacts
  <2>2. Untouched(m)
    BY <2>1 DEF Forgotten, Untouched, Name
  <2>3. QED BY <2>2, Elsewhere DEF ActInv
<1>6. NameInv(n)'
  <2>1. TopInv(n)'
    BY <1>1 DEF TopInv, NoDev
  <2>2. ASSUME NEW q \in Procs PROVE ~Tied(q, n)'
    <3>1. PcOK(q)
      BY DEF ActInv, ProcInv
    <3>2. QED BY <3>1 DEF Forgotten, Tied, Name, PcOK, OpenSteps, ReloadSteps, SuspendSteps, ResumeSteps, CloseSteps
  <2>3. OwnerInv(n)'
    <3>1. Owner(n, "none")'
      BY <1>1, <2>2 DEF Owner, NoDev, NoTable
    <3>2. OwnKey(dm[Top(n)].live, dm[Top(n)].susp)'
      BY <1>1 DEF OwnKey, NoDev, NoTable
    <3>3. QED BY <2>2, <3>1, <3>2 DEF OwnerInv
  <2>4. SuspInv(n)'
    BY <1>1 DEF SuspInv, NoDev, KeyLeft, Pure
  <2>5. StackInv(n)'
    <3> SUFFICES ASSUME Pure(n, Interference)'
                 PROVE  /\ (\A q \in Procs :
                              Name(q) = n /\ At(q, "cremove") /\ ~proc[q].gone =>
                                dm_status_device(dm, Top(n)) /\ proc[q].low = dm[Top(n)].live.low)'
                        /\ (dm_status_device(dm, Low(n)) =>
                              dm[Top(n)].live.low \/ \E q \in Procs : Name(q) = n /\ CaresForLow(q))'
      BY DEF StackInv
    <3>1. Pure(n, Interference) /\ torn'[n] \cap Interference = {}
      BY DEF Pure
    <3>2. ASSUME NEW q \in Procs PROVE ~(Name(q) = n /\ At(q, "cremove") /\ ~proc[q].gone)'
      <4>1. PcOK(q)
        BY DEF ActInv, ProcInv
      <4>2. QED BY <4>1 DEF Forgotten, At, Name, PcOK, OpenSteps, ReloadSteps, SuspendSteps, ResumeSteps, CloseSteps
    <3>3. ASSUME dm_status_device(dm', Low(n))
          PROVE  \E q \in Procs : Name(q)' = n /\ CaresForLow(q)'
      <4>1. dm_status_device(dm, Low(n))
        BY <1>2, <3>3, TopOnlyFacts DEF dm_status_device
      <4>2. CASE dm[Top(n)].live.low
        BY <3>1, <4>2
      <4>3. CASE ~dm[Top(n)].live.low
        <5>1. PICK q \in Procs : Name(q) = n /\ CaresForLow(q)
          BY <3>1, <4>1, <4>3 DEF ActInv, NameInv, StackInv
        <5>2. Name(q)' = n /\ CaresForLow(q)'
          BY <5>1 DEF Forgotten, Name, CaresForLow, At, Stacked, Kind, Vol
        <5>3. QED BY <5>2
      <4>4. QED BY <4>2, <4>3
    <3>4. QED BY <3>2, <3>3 DEF dm_status_device
  <2>6. QED BY <2>1, <2>3, <2>4, <2>5 DEF NameInv
<1>7. QED BY <1>3, <1>4, <1>5, <1>6 DEF ActInv, ProcInv, ProcOK

\* The removal of the device of the user: done, deferred, forced or given up.
LEMMA RemoveStep ==
  ASSUME ActInv, NEW p \in Procs, dm_remove_device(p)
  PROVE  ActInv'
<1>1. proc[p].pc = "cremove" /\ kind' = kind
  BY DEF dm_remove_device, world, At
<1>2. PICK n \in Names : n = Name(p)
  BY <1>1, WorkerFacts
<1>3. /\ ProcOK(p) /\ NameInv(n) /\ Top(n) \in Nodes /\ WellFormed(dm[Top(n)]) /\ proc[p] \in Calls
      /\ proc[p].pc # "idle" /\ "none" \notin Names
  BY <1>1, <1>2, WorkerFacts, NodeFacts DEF ActInv, TypeOK
<1>4. proc[p].op = "close" /\ "clow" \in Points
  BY <1>1, <1>3 DEF ProcOK, PcOK, OpenSteps, ReloadSteps, SuspendSteps, ResumeSteps, CloseSteps, Points
<1>5. ASSUME NEW d \in BOOLEAN, crypt_drop_keyring_key(p, d)
      PROVE  ring' \in [Procs -> Vols \cup {"none"}]
  BY <1>5 DEF crypt_drop_keyring_key, ActInv, TypeOK
<1>6. ASSUME dm' = dm_remove(dm, Top(n)), ring' \in [Procs -> Vols \cup {"none"}],
             proc' = Forget([proc EXCEPT ![p].pc = "clow"], n), Reused(p)
      PROVE  ActInv'
  <2> DEFINE w == [proc EXCEPT ![p].pc = "clow"]
  <2>1. /\ w \in [Procs -> Calls] /\ \A q \in Procs \ {p} : w[q] = proc[q]
        /\ w[p].pc = "clow" /\ w[p].op = proc[p].op /\ w[p].n = proc[p].n /\ w[p].vol = proc[p].vol
        /\ w[p].from = proc[p].from /\ w[p].low = proc[p].low /\ w[p].refresh = proc[p].refresh
    BY <1>4 DEF ActInv, TypeOK, Calls
  <2>2. proc' = Forget(w, n)
    BY <1>6
  <2> HIDE DEF w
  <2>3. /\ proc' \in [Procs -> Calls]
        /\ \A q \in Procs :
             /\ proc'[q].pc = w[q].pc /\ proc'[q].op = w[q].op /\ proc'[q].n = w[q].n /\ proc'[q].vol = w[q].vol
             /\ proc'[q].from = w[q].from /\ proc'[q].low = w[q].low /\ proc'[q].refresh = w[q].refresh
             /\ IF w[q].op \in {"refresh", "resize", "resume", "close"} /\ w[q].n = n
                THEN proc'[q].gone ELSE proc'[q] = w[q]
    BY <2>1, <2>2, ForgetEffect
  <2>4. Forgotten(n)
    BY <1>1, <1>2, <2>1, <2>3 DEF Forgotten, Name
  <2>5. Reports(p) /\ torn[n] \subseteq torn'[n] /\ (proc[p].gone => "reused" \in torn'[n])
    BY <1>2, <1>3, <1>6, ReusedFacts
  <2>6. torn' \in [Names -> SUBSET Reasons] /\ \A m \in Names \ {n} : torn'[m] = torn[m]
    BY <1>2, <2>5, ReportsFacts
  <2>7. ASSUME torn'[n] \cap Interference = {}, dm[Top(n)].live.low
        PROVE  Name(p)' = n /\ CaresForLow(p)'
    <3>1. Pure(n, Interference) /\ ~proc[p].gone
      BY <2>5, <2>7 DEF Pure, Interference
    <3>2. proc[p].low
      BY <1>1, <1>2, <1>3, <2>7, <3>1 DEF NameInv, StackInv, At
    <3>3. QED BY <1>2, <2>1, <2>3, <3>2 DEF CaresForLow, At, Name
  <2>8. QED BY <1>1, <1>6, <2>4, <2>5, <2>6, <2>7, TopGone
<1>7. ASSUME dm_status_device(dm, Top(n)), dm' = dm_remove_deferred(dm, Top(n)),
             ring' \in [Procs -> Vols \cup {"none"}], Goto(p, "clow"), Torn(n, "deferred")
      PROVE  ActInv'
  <2>1. /\ Only(dm, dm', Top(n)) /\ dm'[Top(n)].live = dm[Top(n)].live
        /\ dm'[Top(n)].inactive = dm[Top(n)].inactive /\ dm'[Top(n)].susp = dm[Top(n)].susp
    BY <1>3, <1>7, DeferEffect DEF ActInv, TypeOK, Maps
  <2>2. TopOnly(n)
    BY <1>3, <1>7, <2>1 DEF TopOnly, WellFormed, dm_status_device
  <2>3. Others(p) /\ Name(p)' = n /\ proc'[p].pc = "clow" /\ proc'[p].op = proc[p].op /\ proc'[p].n = n
    BY <1>2, <1>4, <1>7, GotoEffect DEF Others, Name, ActInv
  <2>4. ProcOK(p)'
    BY <1>4, <2>3 DEF ProcOK, PcOK, At, CloseSteps
  <2>5. Reports(p) /\ "deferred" \in torn'[n] /\ torn[n] \subseteq torn'[n]
    BY <1>2, <1>7, TornEffect DEF Reports, Reasons, ActInv
  <2>6. TopInv(n)'
    BY <1>1, <1>3, <2>1, <2>5 DEF NameInv, TopInv, TopTableOK, StackedKind
  <2>7. \A q \in Procs : Tied(q, n)' => Tied(q, n) /\ Vol(q)' = Vol(q)
    BY <1>1, <1>4, <2>3, OthersKeep DEF Tied, ReloadSteps
  <2>8. OwnerInv(n)'
    <3>1. \A q \in Procs : Tied(q, n)' => dm_status_device(dm, Top(n))'
      BY <1>7, <2>1 DEF dm_status_device
    <3>2. ASSUME Pure(n, {"reused"})'
          PROVE  /\ (\E v \in Vols \cup {"none"} : Owner(n, v))'
                 /\ OwnKey(dm[Top(n)].live, dm[Top(n)].susp)'
      <4>1. Pure(n, {"reused"})
        BY <2>5, <3>2 DEF Pure
      <4>2. PICK v \in Vols \cup {"none"} : Owner(n, v)
        BY <1>3, <4>1 DEF NameInv, OwnerInv
      <4>3. Owner(n, v)'
        BY <2>1, <2>7, <4>2 DEF Owner
      <4>4. OwnKey(dm[Top(n)].live, dm[Top(n)].susp)'
        BY <1>3, <2>1, <4>1 DEF NameInv, OwnerInv, OwnKey
      <4>5. QED BY <4>3, <4>4
    <3>3. QED BY <3>1, <3>2 DEF OwnerInv
  <2>9. SuspInv(n)'
    <3> SUFFICES ASSUME Pure(n, {"killed", "fault"})'
                 PROVE  /\ (dm[Top(n)].inactive # NoTable => \E q \in Procs : Name(q) = n /\ proc[q].pc \in Loaded)'
                        /\ (KeyLeft(n) =>
                              \E q \in Procs : Name(q) = n /\ proc[q].pc \in Holding)'
      BY DEF SuspInv
    <3>1. Pure(n, {"killed", "fault"}) /\ proc[p].pc \notin Loaded \cup Holding
      BY <1>1, <2>5 DEF Pure, Loaded, Holding
    <3>2. \A q \in Procs : Name(q) = n /\ proc[q].pc \in Loaded => Name(q)' = n /\ proc'[q].pc \in Loaded
      BY <1>1, <2>3, <3>1, OthersKeep
    <3>3. \A q \in Procs : Name(q) = n /\ proc[q].pc \in Holding => Name(q)' = n /\ proc'[q].pc \in Holding
      BY <1>1, <2>3, <3>1, OthersKeep
    <3>4. KeyLeft(n)' => KeyLeft(n)
      BY <2>1, <2>5 DEF KeyLeft, Pure
    <3>5. QED BY <1>3, <2>1, <3>1, <3>2, <3>3, <3>4 DEF NameInv, SuspInv
  <2>10. StackInv(n)'
    BY <2>5 DEF StackInv, Pure, Interference
  <2>11. QED BY <1>1, <1>2, <1>3, <1>4, <1>7, <2>2, <2>4, <2>5, <2>6, <2>8, <2>9, <2>10, TopGoto DEF NameInv
<1>8. ASSUME dm_status_device(dm, Top(n)), dm' = dm_error_device(dm, Top(n)), Torn(n, "forced"), ring' = ring,
             proc[p].tries > 1, proc' = [proc EXCEPT ![p].tries = @ - 1]
      PROVE  ActInv'
  <2>1. RetryCount \in Nat /\ proc[p].tries \in 0..RetryCount
    BY <1>3, ActivationAssumption DEF Calls
  <2>2. proc[p].tries - 1 \in 0..RetryCount
    BY <1>8, <2>1
  <2>3. /\ proc' \in [Procs -> Calls] /\ Others(p) /\ proc'[p].pc = proc[p].pc /\ proc'[p].op = proc[p].op
        /\ proc'[p].n = proc[p].n
    BY <1>8, <2>2 DEF ActInv, TypeOK, Calls, Others
  <2>4. Name(p)' = n /\ ProcOK(p)'
    BY <1>1, <1>2, <1>4, <2>3 DEF ProcOK, PcOK, At, CloseSteps, Name
  <2>5. Reports(p) /\ "forced" \in torn'[n] /\ torn[n] \subseteq torn'[n]
    BY <1>2, <1>8, TornEffect DEF Reports, Reasons, ActInv
  <2>6. ~Tied(p, n)'
    BY <1>1, <1>4, <2>3 DEF Tied, ReloadSteps
  <2>7. TopOnly(n) /\ NameInv(n)'
    BY <1>1, <1>2, <1>8, <2>3, <2>5, <2>6, TopError
  <2>8. StepOf(p, n)
    BY <1>1, <1>2, <1>8, <2>3, <2>4, <2>5, <2>7, RingKept, TopOnlyFacts, ReportsFacts DEF StepOf, Typed
  <2>9. QED BY <2>7, <2>8, OneName
<1>9. CASE Return(p) /\ dm' = dm /\ ring' = ring /\ torn' = torn
  BY <1>1, <1>9, LeaveEarly, RingKept DEF Careless, Reports
<1>10. PICK d \in BOOLEAN :
         \/ /\ dm' = dm_remove(dm, Top(n)) /\ crypt_drop_keyring_key(p, d)
            /\ proc' = Forget([proc EXCEPT ![p].pc = "clow"], n) /\ Reused(p)
         \/ /\ dm_status_device(dm, Top(n)) /\ dm' = dm_remove_deferred(dm, Top(n))
            /\ crypt_drop_keyring_key(p, d) /\ Goto(p, "clow") /\ Torn(n, "deferred")
         \/ /\ dm_status_device(dm, Top(n)) /\ proc[p].tries > 1
            /\ dm' = dm_error_device(dm, Top(n)) /\ Torn(n, "forced") /\ ring' = ring
            /\ proc' = [proc EXCEPT ![p].tries = @ - 1]
         \/ Return(p) /\ dm' = dm /\ ring' = ring /\ torn' = torn
  <2> DEFINE x == Top(n)
             drop == dm_query_key(dm, x) /\ dm[x].live.ring /\ ring[p] = dm[x].live.vol
  <2>1. drop \in BOOLEAN
    OBVIOUS
  <2>2. \/ /\ dm' = dm_remove(dm, Top(n)) /\ crypt_drop_keyring_key(p, drop)
            /\ proc' = Forget([proc EXCEPT ![p].pc = "clow"], n) /\ Reused(p)
        \/ /\ dm_status_device(dm, Top(n)) /\ dm' = dm_remove_deferred(dm, Top(n))
           /\ crypt_drop_keyring_key(p, drop) /\ Goto(p, "clow") /\ Torn(n, "deferred")
        \/ /\ dm_status_device(dm, Top(n)) /\ proc[p].tries > 1
           /\ dm' = dm_error_device(dm, Top(n)) /\ Torn(n, "forced") /\ ring' = ring
           /\ proc' = [proc EXCEPT ![p].tries = @ - 1]
        \/ Return(p) /\ dm' = dm /\ ring' = ring /\ torn' = torn
    BY <1>2 DEF dm_remove_device
  <2> HIDE DEF drop
  <2>3. QED BY <2>1, <2>2
<1>11. QED BY <1>5, <1>6, <1>7, <1>8, <1>9, <1>10

\* The removal of the lower layer.
LEMMA RemoveLowStep ==
  ASSUME ActInv, NEW p \in Procs, NEW wanted \in BOOLEAN, RemoveLow(p, wanted), CaresForLow(p) => wanted
  PROVE  ActInv'
<1>1. proc[p].pc = "clow" /\ kind' = kind /\ ring' = ring /\ Return(p)
  BY DEF RemoveLow, world, At
<1>2. PICK n \in Names : n = Name(p)
  BY <1>1, WorkerFacts
<1>3. proc[p].pc # "idle" /\ proc[p].pc \notin Loaded \cup Holding /\ Low(n) \in Nodes
  BY <1>1, NodeFacts DEF Loaded, Holding
<1>4. CASE dm' = dm_remove(dm, Low(n)) /\ torn' = torn
  <2>1. Only(dm, dm', Low(n)) /\ dm'[Low(n)] = NoDev
    BY <1>3, <1>4, RemoveEffect DEF ActInv, TypeOK, Maps
  <2>2. LowOnly(n) /\ ~dm_status_device(dm', Low(n))
    BY <2>1 DEF LowOnly, WellFormed, NoDev, NoTable, dm_status_device
  <2>3. QED BY <1>1, <1>2, <1>3, <1>4, <2>2, RingKept, Leave DEF Reports
<1>5. CASE ~(wanted /\ CanRemove(dm, Low(n))) /\ dm' = dm
           /\ (IF wanted /\ dm[Low(n)].users > 0 THEN Torn(n, "busy") ELSE UNCHANGED torn)
  <2>1. Reports(p) /\ LowOnly(n)
    BY <1>2, <1>5, DmKept DEF Reports, Reasons
  <2>2. wanted /\ dm[Low(n)].users > 0 => "busy" \in torn'[n]
    BY <1>5, TornEffect DEF ActInv, Reasons
  <2>3. torn[n] \subseteq torn'[n]
    BY <1>2, <2>1, ReportsFacts
  <2>4. wanted => \/ torn'[n] \cap Interference # {} \/ ~dm_status_device(dm', Low(n)) \/ dm[Top(n)].live.low
    BY <1>5, <2>2, <2>3, LowInUse DEF Interference
  <2>5. QED BY <1>1, <1>2, <1>3, <1>5, <2>1, <2>4, RingKept, Leave
<1>6. QED BY <1>2, <1>4, <1>5 DEF RemoveLow

\* The closer removes the lower layer it cares for.
LEMMA CloseLowStep ==
  ASSUME ActInv, NEW p \in Procs, LUKS2_deactivate(p) \/ TCRYPT_remove_one(p)
  PROVE  ActInv'
<1>1. proc[p].pc = "clow" /\ proc[p].low \in BOOLEAN
  BY DEF LUKS2_deactivate, TCRYPT_remove_one, RemoveLow, At, ActInv, TypeOK, Calls
<1>2. CASE LUKS2_deactivate(p)
  BY <1>1, <1>2, RemoveLowStep DEF LUKS2_deactivate, CaresForLow
<1>3. CASE TCRYPT_remove_one(p)
  BY <1>3, RemoveLowStep DEF TCRYPT_remove_one
<1>4. QED BY <1>2, <1>3

\* A command starts: nothing is touched, and a luksResume takes the volume of
\* the device it finds.
LEMMA StartStep ==
  ASSUME ActInv, NEW p \in Procs, NEW c \in Commands, NEW v \in Vols \cup {"none"},
         NEW s \in {"check", "rquery", "scheck", "ucheck", "cquery"}, Start(p, c, v, s),
         s # "cquery" => v \in Vols,
         /\ s = "check" => c.op \in {"open", "refresh"}
         /\ s = "rquery" => c.op = "resize"
         /\ s = "scheck" => c.op = "suspend"
         /\ s = "ucheck" => c.op = "resume"
         /\ s = "cquery" => c.op = "close",
         s = "ucheck" => dm[Top(c.n)].live.vol = v
  PROVE  ActInv'
<1>1. /\ c.op \in {"open", "refresh", "resize", "suspend", "resume", "close"} /\ c.n \in Names
      /\ c.o \in Nat /\ c.sz \in Nat /\ c.flag \in {"none", "deferred", "force", "cancel"}
      /\ RetryCount \in Nat /\ "none" \notin Names /\ "none" \notin Vols
  BY ActivationAssumption
<1>2. PICK n \in Names : n = c.n
  BY <1>1
<1>3. s \in Points /\ RetryCount \in 0..RetryCount /\ NameInv(n) /\ (c.op = "refresh") \in BOOLEAN
  BY <1>1 DEF Points, ActInv
<1>4. /\ proc[p].pc = "idle" /\ kind' = kind /\ dm' = dm /\ ring' = ring
      /\ torn' = torn \/ Torn(n, "overlap")
  BY <1>2 DEF Start, At
<1> DEFINE r == [Idle EXCEPT !.op = c.op, !.n = c.n, !.vol = v, !.o = c.o, !.sz = c.sz, !.flag = c.flag,
                             !.refresh = (c.op = "refresh"), !.tries = RetryCount, !.pc = s]
<1>5. proc' = [proc EXCEPT ![p] = r]
  BY DEF Start
<1>6. /\ r \in Calls /\ r.pc = s /\ r.op = c.op /\ r.n = n /\ r.vol = v
      /\ r.refresh = (c.op = "refresh")
  BY <1>1, <1>2, <1>3 DEF Idle, Calls
<1> HIDE DEF r
<1>7. /\ proc' \in [Procs -> Calls] /\ Others(p) /\ proc'[p].pc = s /\ proc'[p].op = c.op /\ proc'[p].n = n
      /\ proc'[p].vol = v /\ proc'[p].refresh = (c.op = "refresh") /\ Name(p)' = n /\ Vol(p)' = v
  BY <1>5, <1>6 DEF ActInv, TypeOK, Others, Name, Vol
<1>8. PcOK(p)'
  BY <1>7 DEF PcOK, OpenSteps, SuspendSteps, ResumeSteps, CloseSteps
<1>9. ProcOK(p)'
  BY <1>7, <1>8 DEF ProcOK, At
<1>10. Name(p) = "none" /\ Name(p) # n
  BY <1>1, <1>4
     DEF ActInv, ProcInv, PcOK, Name, OpenSteps, ReloadSteps, SuspendSteps, ResumeSteps, CloseSteps
<1>11. /\ torn' \in [Names -> SUBSET Reasons] /\ torn[n] \subseteq torn'[n]
       /\ \A m \in Names \ {n} : torn'[m] = torn[m]
  BY <1>4, TornEffect DEF ActInv, TypeOK, Reasons
<1>12. TopSame(n) /\ LowOnly(n)
  BY <1>4, DmKept, LowOnlyFacts
<1>13. StepOf(p, n)
  BY <1>4, <1>7, <1>9, <1>10, <1>11, <1>12, RingKept, LowOnlyFacts DEF StepOf, Typed
<1>14. TopInv(n)'
  BY <1>3, <1>4, <1>11, <1>12, TopFrame DEF NameInv
<1>15. Tied(p, n)' => s = "ucheck"
  BY <1>7 DEF Tied, ReloadSteps
<1>16. s = "ucheck" => /\ dm_status_device(dm, Top(n)) /\ dm[Top(n)].live.type = "crypt" /\ dm[Top(n)].live.vol = v
  BY <1>1, <1>2, <1>3 DEF NameInv, TopInv, TopTableOK, NoTable, dm_status_device
<1>17. OwnerInv(n)'
  <2>1. \A q \in Procs : Tied(q, n)' => dm_status_device(dm, Top(n))'
    BY <1>3, <1>4, <1>7, <1>15, <1>16, OthersKeep DEF NameInv, OwnerInv
  <2>2. ASSUME Pure(n, {"reused"})'
        PROVE  /\ (\E u \in Vols \cup {"none"} : Owner(n, u))'
               /\ OwnKey(dm[Top(n)].live, dm[Top(n)].susp)'
    <3>1. Pure(n, {"reused"})
      BY <1>11, <2>2 DEF Pure
    <3>2. PICK u \in Vols \cup {"none"} : Owner(n, u)
      BY <1>3, <3>1 DEF NameInv, OwnerInv
    <3>3. \A q \in Procs : Tied(q, n)' => Vol(q)' = u
      BY <1>4, <1>7, <1>15, <1>16, <3>2, OthersKeep DEF Owner
    <3>4. Owner(n, u)'
      BY <1>4, <3>2, <3>3 DEF Owner
    <3>5. OwnKey(dm[Top(n)].live, dm[Top(n)].susp)'
      BY <1>3, <1>4, <3>1 DEF NameInv, OwnerInv, OwnKey
    <3>6. QED BY <3>4, <3>5
  <2>3. QED BY <2>1, <2>2 DEF OwnerInv
<1>18. SuspInv(n)'
  BY <1>3, <1>7, <1>10, <1>11, <1>12, SuspFrame DEF NameInv
<1>19. StackInv(n)'
  <2>1. ~At(p, "cremove")'
    BY <1>7 DEF At
  <2>2. QED BY <1>3, <1>4, <1>7, <1>10, <1>11, <2>1, StackFrame DEF NameInv
<1>20. QED BY <1>13, <1>14, <1>17, <1>18, <1>19, OneName DEF NameInv

\* resize, luksSuspend and luksResume start with the volume of the live table.
LEMMA OnActiveStep ==
  ASSUME ActInv, NEW p \in Procs, NEW op, NEW s,
         <<op, s>> \in {<<"resize", "rquery">>, <<"suspend", "scheck">>, <<"resume", "ucheck">>}, OnActive(p, op, s)
  PROVE  ActInv'
<1>1. PICK c \in Commands :
         /\ c.op = op /\ _init_by_name_crypt(c.n) /\ Start(p, c, crypt_init_by_name_and_header(c.n), s)
  BY DEF OnActive
<1>2. c.n \in Names
  BY ActivationAssumption
<1>3. PICK v \in Vols : v = dm[Top(c.n)].live.vol
  BY <1>1, <1>2, NodeFacts
     DEF _init_by_name_crypt, crypt_init_by_name_and_header, ActInv, TypeOK, Devices, Tables
<1>4. Start(p, c, v, s)
  BY <1>1, <1>3 DEF crypt_init_by_name_and_header
<1>5. QED BY <1>1, <1>3, <1>4, StartStep

\* The start of every command.
LEMMA CommandStep ==
  ASSUME ActInv, NEW p \in Procs,
         action_open(p) \/ action_resize(p) \/ action_luksSuspend(p) \/ action_luksResume(p) \/ action_close(p)
  PROVE  ActInv'
<1>1. CASE action_open(p)
  <2>1. PICK c \in Commands : c.op \in {"open", "refresh"} /\ Start(p, c, c.vol, "check")
    BY <1>1 DEF action_open
  <2>2. c.vol \in Vols
    BY <2>1, ActivationAssumption
  <2>3. QED BY <2>1, <2>2, StartStep
<1>2. CASE action_resize(p)
  BY <1>2, OnActiveStep DEF action_resize
<1>3. CASE action_luksSuspend(p)
  BY <1>3, OnActiveStep DEF action_luksSuspend
<1>4. CASE action_luksResume(p)
  BY <1>4, OnActiveStep DEF action_luksResume
<1>5. CASE action_close(p)
  <2>1. PICK c \in Commands : c.op = "close" /\ Start(p, c, crypt_init_by_name_and_header(c.n), "cquery")
    BY <1>5 DEF action_close
  <2>2. c.n \in Names
    BY ActivationAssumption
  <2>3. crypt_init_by_name_and_header(c.n) \in Vols \cup {"none"}
    BY <2>2, NodeFacts DEF crypt_init_by_name_and_header, ActInv, TypeOK, Devices, Tables
  <2>4. QED BY <2>1, <2>3, StartStep
<1>6. QED BY <1>1, <1>2, <1>3, <1>4, <1>5

\* A step of the environment: no process moves, no table of a device of the
\* user changes and no lower layer appears.
LEMMA OutsideStep ==
  ASSUME ActInv, kind' = kind, proc' = proc, ring' = ring, torn' = torn, dm' \in Maps,
         \A x \in Nodes : WellFormed(dm'[x]),
         \A n \in Names : TopSame(n) /\ (dm_status_device(dm', Low(n)) => dm_status_device(dm, Low(n)))
  PROVE  ActInv'
<1>1. TypeOK'
  BY DEF ActInv, TypeOK, Maps
<1>2. ProcInv'
  <2>1. ASSUME NEW q \in Procs PROVE ProcOK(q)'
    <3>1. ProcOK(q)
      BY DEF ActInv, ProcInv, ProcOK
    <3>2. QED BY <3>1 DEF ProcOK, PcOK, At, Stacked, Kind, Vol, Name
  <2>2. QED BY <2>1 DEF ProcInv, ProcOK
<1>3. ASSUME NEW n \in Names PROVE NameInv(n)'
  <2>1. NameInv(n) /\ TopSame(n) /\ torn[n] \subseteq torn'[n]
    BY DEF ActInv
  <2>2. TopInv(n)'
    BY <2>1, TopFrame DEF NameInv
  <2>3. \A q \in Procs : Tied(q, n)' => Tied(q, n) /\ Vol(q)' = Vol(q)
    BY DEF Tied, Name, Vol
  <2>4. OwnerInv(n)'
    BY <2>1, <2>3, OwnerFrame DEF NameInv
  <2>5. SuspInv(n)'
    BY <2>1 DEF NameInv, SuspInv, TopSame, Pure, Name, KeyLeft
  <2>6. \A q \in Procs : CaresForLow(q)' = CaresForLow(q)
    BY DEF CaresForLow, At, Stacked, Kind, Vol
  <2>7. StackInv(n)'
    BY <2>1, <2>6 DEF NameInv, StackInv, TopSame, Pure, Name, At, dm_status_device
  <2>8. QED BY <2>2, <2>4, <2>5, <2>7 DEF NameInv
<1>4. QED BY <1>1, <1>2, <1>3 DEF ActInv

\* One device changes no more than its users, or it is a lower layer that goes.
LEMMA OutsideOne ==
  ASSUME ActInv, NEW x \in Nodes, kind' = kind, proc' = proc, ring' = ring, torn' = torn, Only(dm, dm', x),
         \/ /\ dm_status_device(dm, x) /\ dm'[x].live = dm[x].live /\ dm'[x].inactive = dm[x].inactive
            /\ dm'[x].susp = dm[x].susp /\ dm'[x].deferred = dm[x].deferred
         \/ x[2] = 1 /\ dm'[x] = NoDev
  PROVE  ActInv'
<1>1. WellFormed(dm'[x])
  <2>1. WellFormed(dm[x]) /\ WellFormed(NoDev)
    BY DEF ActInv, TypeOK, WellFormed, NoDev
  <2>2. CASE dm'[x] = NoDev
    BY <2>1, <2>2
  <2>3. CASE /\ dm_status_device(dm, x) /\ dm'[x].live = dm[x].live /\ dm'[x].inactive = dm[x].inactive
    BY <2>1, <2>3 DEF WellFormed, dm_status_device
  <2>4. QED BY <2>2, <2>3
<1>2. \A y \in Nodes : WellFormed(dm'[y])
  BY <1>1 DEF ActInv, TypeOK, Only
<1>3. ASSUME NEW n \in Names
      PROVE  TopSame(n) /\ (dm_status_device(dm', Low(n)) => dm_status_device(dm, Low(n)))
  <2>1. Top(n) \in Nodes /\ Low(n) \in Nodes /\ Top(n)[2] = 0
    BY NodeFacts DEF Top
  <2>2. TopSame(n)
    BY <2>1 DEF TopSame, Only
  <2>3. QED BY <2>1, <2>2 DEF Only, dm_status_device, NoDev, NoTable
<1>4. QED BY <1>2, <1>3, OutsideStep DEF Only

\* A device is opened or closed by its users.
LEMMA UserStep ==
  ASSUME ActInv, NEW x \in Nodes, UserOpen(x) \/ UserClose(x)
  PROVE  ActInv'
<1>1. dm \in Maps /\ kind' = kind /\ ring' = ring /\ torn' = torn /\ WellFormed(dm[x])
  BY DEF UserOpen, UserClose, world, ActInv, TypeOK, Maps
<1>2. CASE UserOpen(x)
  <2>1. dm_status_device(dm, x) /\ dm' = [dm EXCEPT ![x].users = 1] /\ proc' = proc
    BY <1>2 DEF UserOpen
  <2>2. Only(dm, dm', x) /\ dm'[x].live = dm[x].live /\ dm'[x].inactive = dm[x].inactive
        /\ dm'[x].susp = dm[x].susp /\ dm'[x].deferred = dm[x].deferred
    BY <1>1, <2>1, OpenEffect
  <2>3. QED BY <1>1, <2>1, <2>2, OutsideOne
<1>3. CASE UserClose(x)
  <2>1. /\ dm[x].users = 1 /\ dm' = Closed(dm, x)
        /\ proc' = IF x[2] = 0 /\ ~dm_status_device(dm', x) THEN Forget(proc, x[1]) ELSE proc
    BY <1>3 DEF UserClose
  <2>2. dm_status_device(dm, x)
    BY <1>1, <2>1 DEF WellFormed, NoDev, dm_status_device
  <2>3. /\ Only(dm, dm', x)
        /\ \/ dm[x].deferred /\ dm'[x] = NoDev
           \/ dm'[x].live = dm[x].live /\ dm'[x].inactive = dm[x].inactive /\ dm'[x].susp = dm[x].susp
              /\ dm'[x].deferred = dm[x].deferred
    BY <1>1, <2>1, ClosedEffect
  <2>4. CASE dm'[x].live = dm[x].live /\ dm'[x].inactive = dm[x].inactive /\ dm'[x].susp = dm[x].susp
             /\ dm'[x].deferred = dm[x].deferred
    <3>1. proc' = proc
      BY <2>1, <2>2, <2>4 DEF dm_status_device
    <3>2. QED BY <1>1, <2>2, <2>3, <2>4, <3>1, OutsideOne
  <2>5. CASE dm[x].deferred /\ dm'[x] = NoDev
    <3>1. ~dm_status_device(dm', x)
      BY <2>5 DEF dm_status_device, NoDev, NoTable
    <3>2. PICK n \in Names : n = x[1] /\ ((x = Top(n) /\ x[2] = 0) \/ (x = Low(n) /\ x[2] = 1))
      BY NodeCases
    <3>3. CASE x = Low(n) /\ x[2] = 1
      <4>1. proc' = proc
        BY <2>1, <3>3
      <4>2. QED BY <1>1, <2>3, <2>5, <3>3, <4>1, OutsideOne
    <3>4. CASE x = Top(n) /\ x[2] = 0
      <4>1. proc' = Forget(proc, n) /\ proc \in [Procs -> Calls]
        BY <2>1, <3>1, <3>2, <3>4 DEF ActInv, TypeOK
      <4>2. /\ proc' \in [Procs -> Calls]
            /\ \A q \in Procs :
                 /\ proc'[q].pc = proc[q].pc /\ proc'[q].op = proc[q].op /\ proc'[q].n = proc[q].n
                 /\ proc'[q].vol = proc[q].vol
                 /\ proc'[q].from = proc[q].from /\ proc'[q].low = proc[q].low /\ proc'[q].refresh = proc[q].refresh
                 /\ IF proc[q].op \in {"refresh", "resize", "resume", "close"} /\ proc[q].n = n
                    THEN proc'[q].gone ELSE proc'[q] = proc[q]
        BY <4>1, ForgetEffect
      <4>3. Forgotten(n)
        BY <4>2 DEF Forgotten, Name
      <4>4. "deferred" \in torn[n]
        BY <2>5, <3>4 DEF ActInv, NameInv, TopInv
      <4>5. dm' = dm_remove(dm, Top(n))
        <5>1. dm' \in Maps /\ \A y \in Nodes : dm'[y] = dm_remove(dm, Top(n))[y]
          BY <1>1, <2>3, <2>5, <3>4, RemoveEffect DEF Only
        <5>2. dm_remove(dm, Top(n)) \in Maps
          BY <1>1, <3>4, RemoveEffect DEF Only
        <5>3. QED BY <5>1, <5>2 DEF Maps
      <4>6. QED BY <1>1, <4>3, <4>4, <4>5, TopGone DEF ActInv, TypeOK, Interference
    <3>5. QED BY <3>2, <3>3, <3>4
  <2>6. QED BY <2>3, <2>4, <2>5
<1>4. QED BY <1>2, <1>3

\* A process is killed between any two ioctls; the history records it.
LEMMA KillStep ==
  ASSUME ActInv, NEW p \in Procs, Kill(p)
  PROVE  ActInv'
<1>1. proc[p].pc # "idle" /\ kind' = kind /\ dm' = dm /\ Return(p) /\ Torn(Name(p), "killed")
  BY DEF Kill, At
<1>2. PICK n \in Names : n = Name(p)
  BY <1>1, WorkerFacts
<1>3. ring' \in [Procs -> Vols \cup {"none"}]
  BY DEF Kill, ActInv, TypeOK
<1>4. Reports(p) /\ "killed" \in torn'[n] /\ LowOnly(n)
  BY <1>1, <1>2, TornEffect, DmKept DEF Reports, Reasons, ActInv
<1>5. QED BY <1>1, <1>2, <1>3, <1>4, Leave DEF Interference

\* Nothing is active, or one volume is open and suspended.
LEMMA InitInvariant == Init => ActInv
<1> SUFFICES ASSUME Init PROVE ActInv
  OBVIOUS
<1> DEFINE d0 == [x \in Nodes |-> NoDev]
<1>1. /\ kind \in Kinds /\ proc = [p \in Procs |-> Idle] /\ ring = [p \in Procs |-> "none"]
      /\ torn = [n \in Names |-> {}] /\ "none" \notin Names
  BY ActivationAssumption DEF Init
<1>2. d0 \in Maps /\ WellFormed(NoDev)
  BY EmptyTyped DEF Maps, WellFormed, NoDev
<1>3. \A p \in Procs : proc[p] = Idle /\ proc[p].pc = "idle" /\ proc[p].op = "none" /\ proc[p].n = "none"
  BY <1>1 DEF Idle
<1>4. ProcInv
  BY <1>3 DEF ProcInv, PcOK, At, Name
<1>5. \A n \in Names, p \in Procs : Name(p) # n /\ ~Tied(p, n)
  BY <1>1, <1>3 DEF Name, Tied
<1>6. proc \in [Procs -> Calls] /\ ring \in [Procs -> Vols \cup {"none"}] /\ torn \in [Names -> SUBSET Reasons]
  BY <1>1, IdleTyped
<1>7. ASSUME NEW n \in Names, dm[Top(n)] = NoDev, dm[Low(n)] = NoDev
      PROVE  NameInv(n)
  <2>1. TopInv(n)
    BY <1>7 DEF TopInv, NoDev
  <2>2. OwnerInv(n)
    <3>1. Owner(n, "none") /\ OwnKey(dm[Top(n)].live, dm[Top(n)].susp)
      BY <1>5, <1>7 DEF Owner, OwnKey, NoDev, NoTable
    <3>2. QED BY <1>5, <3>1 DEF OwnerInv
  <2>3. SuspInv(n)
    BY <1>7 DEF SuspInv, NoDev, KeyLeft, Pure
  <2>4. StackInv(n)
    BY <1>5, <1>7 DEF StackInv, dm_status_device, NoDev, NoTable
  <2>5. QED BY <2>1, <2>2, <2>3, <2>4 DEF NameInv
<1>8. CASE dm = d0
  <2>1. \A x \in Nodes : dm[x] = NoDev
    BY <1>8
  <2>2. \A n \in Names : NameInv(n)
    BY <1>7, <2>1, NodeFacts
  <2>3. TypeOK
    BY <1>1, <1>2, <1>6, <1>8, <2>1 DEF TypeOK, Maps
  <2>4. QED BY <1>4, <2>2, <2>3 DEF ActInv
<1>9. ASSUME NEW n \in Names, NEW v \in Vols, kind[v] = "luks2",
             dm = dm_key_wipe(dm_suspend(dm_create_device(d0, Top(n),
                       dm_crypt_target(v, UseKeyring(v), 0, FullSize, FALSE)), Top(n)), Top(n))
      PROVE  ActInv
  <2> DEFINE t == dm_crypt_target(v, UseKeyring(v), 0, FullSize, FALSE)
             d1 == dm_create_device(d0, Top(n), t)
             d2 == dm_suspend(d1, Top(n))
  <2>A. dm = dm_key_wipe(d2, Top(n))
    BY <1>9
  <2>0. UseKeyring(v) \in BOOLEAN /\ FullSize \in Nat /\ Top(n) \in Nodes
    BY ActivationAssumption, NodeFacts DEF UseKeyring
  <2>1. t \in Tables /\ t.type = "crypt" /\ t.vol = v /\ t.low = FALSE
    BY <2>0 DEF dm_crypt_target, Tables
  <2> HIDE DEF t, d0
  <2>2. Only(d0, d1, Top(n)) /\ d1[Top(n)].live = t /\ d1[Top(n)].inactive = NoTable /\ ~d1[Top(n)].deferred
    BY <1>2, <2>0, <2>1, CreateEffect
  <2> HIDE DEF d1
  <2>3. /\ Only(d1, d2, Top(n)) /\ d2[Top(n)].live = t /\ d2[Top(n)].inactive = NoTable /\ ~d2[Top(n)].deferred
        /\ d2[Top(n)].susp
    BY <2>0, <2>2, SuspendEffect DEF Only
  <2> HIDE DEF d2
  <2>4. /\ Only(d2, dm, Top(n)) /\ dm[Top(n)].inactive = NoTable /\ ~dm[Top(n)].deferred /\ dm[Top(n)].susp
        /\ dm[Top(n)].live.key = "none" /\ dm[Top(n)].live.type = "crypt" /\ dm[Top(n)].live.vol = v
        /\ dm[Top(n)].live.low = FALSE
    BY <2>0, <2>1, <2>3, <2>A, WipeEffect DEF Only
  <2>5. \A y \in Nodes \ {Top(n)} : dm[y] = NoDev
    BY <2>2, <2>3, <2>4 DEF Only, d0
  <2>6. WellFormed(dm[Top(n)])
    BY <2>4 DEF WellFormed
  <2>7. TypeOK
    BY <1>1, <1>2, <1>6, <2>4, <2>5, <2>6 DEF TypeOK, Maps, Only
  <2>8. ASSUME NEW m \in Names \ {n} PROVE NameInv(m)
    BY <1>7, <2>5, NodeFacts
  <2>9. NameInv(n)
    <3>1. dm[Low(n)] = NoDev
      BY <2>5, NodeFacts
    <3>2. TopInv(n)
      <4>1. StackedKind(v) = FALSE
        BY <1>9 DEF StackedKind
      <4>2. TopTableOK(dm[Top(n)].live)
        BY <2>4, <4>1 DEF TopTableOK
      <4>3. QED BY <2>4, <4>2 DEF TopInv
    <3>3. OwnerInv(n)
      <4>1. Owner(n, v) /\ OwnKey(dm[Top(n)].live, dm[Top(n)].susp)
        BY <1>5, <2>4 DEF Owner, OwnKey, NoTable
      <4>2. QED BY <1>5, <4>1 DEF OwnerInv
    <3>4. SuspInv(n)
      BY <2>4 DEF SuspInv, KeyLeft, Pure
    <3>5. StackInv(n)
      BY <1>5, <3>1 DEF StackInv, dm_status_device, NoDev, NoTable
    <3>6. QED BY <3>2, <3>3, <3>4, <3>5 DEF NameInv
  <2>10. QED BY <1>4, <2>7, <2>8, <2>9 DEF ActInv
<1>10. QED BY <1>8, <1>9 DEF Init

\* Nothing happens.
LEMMA ActStutter ==
  ASSUME ActInv, UNCHANGED vars
  PROVE  ActInv'
<1>1. kind' = kind /\ proc' = proc /\ ring' = ring /\ torn' = torn /\ dm' = dm
  BY DEF vars
<1>2. dm' \in Maps /\ \A x \in Nodes : WellFormed(dm'[x])
  BY <1>1 DEF ActInv, TypeOK, Maps
<1>3. \A n \in Names : TopSame(n) /\ (dm_status_device(dm', Low(n)) => dm_status_device(dm, Low(n)))
  BY <1>1 DEF TopSame
<1>4. QED BY <1>1, <1>2, <1>3, OutsideStep

\* Every step of a process or of the environment keeps the invariant.
LEMMA NextInvariant ==
  ASSUME ActInv, [Next]_vars
  PROVE  ActInv'
<1>1. ASSUME NEW p \in Procs,
             \/ action_open(p) \/ action_resize(p) \/ action_luksSuspend(p) \/ action_luksResume(p) \/ action_close(p)
             \/ _activate_check_status(p) \/ _open_and_activate(p) \/ check_devices(p)
             \/ device_block_adjust(p) \/ INTEGRITY_activate_dmd_device(p) \/ reload_low(p) \/ resume_low(p)
             \/ dm_create_top(p) \/ _create_device_undo(p)
      PROVE  ActInv'
  BY <1>1, CommandStep, CheckStatusStep, OpenKeyStep, CheckDevicesStep, BlockAdjustStep, LowCreateStep,
     LowReloadStep, LowResumeStep, CreateTopStep, UndoStep
<1>2. ASSUME NEW p \in Procs,
             \/ _reload_query(p) \/ dm_reload_device(p) \/ dm_reload_resume(p)
             \/ _reload_device_with_integrity(p) \/ _reload_device_resume(p) \/ _reload_device_error(p)
             \/ _reload_device_clear(p) \/ _reload_device_unsuspend(p) \/ crypt_resize(p)
      PROVE  ActInv'
  BY <1>2, QueryStep, ReloadDeviceStep, ReloadResumeStep, IntegrityStep, LastResumeStep, ErrorStep, ClearStep,
     UnsuspendStep, ResizeQueryStep
<1>3. ASSUME NEW p \in Procs,
             \/ crypt_suspend(p) \/ dm_suspend_device(p) \/ dm_suspend_wipe(p) \/ dm_suspend_undo(p)
             \/ crypt_suspend_drop(p)
             \/ crypt_resume_by_passphrase(p) \/ dm_reinstate_key(p) \/ dm_resume_device(p)
      PROVE  ActInv'
  BY <1>3, SuspendCheckStep, SuspendDeviceStep, SuspendWipeStep, SuspendUndoStep, SuspendDropStep,
     ResumeCheckStep, ReinstateStep, ResumeDeviceStep
<1>4. ASSUME NEW p \in Procs,
             \/ crypt_deactivate_by_name(p) \/ dm_remove_device(p) \/ LUKS2_deactivate(p) \/ TCRYPT_remove_one(p)
             \/ Kill(p)
      PROVE  ActInv'
  BY <1>4, DeactivateStep, RemoveStep, CloseLowStep, KillStep
<1>5. ASSUME NEW x \in Nodes, UserOpen(x) \/ UserClose(x)
      PROVE  ActInv'
  BY <1>5, UserStep
<1>6. CASE UNCHANGED vars
  BY <1>6, ActStutter
<1>7. QED BY <1>1, <1>2, <1>3, <1>4, <1>5, <1>6 DEF Next

\* ActInv holds in every state of every behaviour: whatever opens, refreshes,
\* resizes, suspends, resumes and closes run at once on any number of names,
\* wherever they are killed and whichever ioctls fail.
THEOREM ActivationInvariant == Spec => []ActInv
<1>1. Init => ActInv
  BY InitInvariant
<1>2. ActInv /\ [Next]_vars => ActInv'
  BY NextInvariant
<1>3. QED BY <1>1, <1>2, PTL DEF Spec

\* The state keeps its type, and nothing is left of a device that is gone.
THEOREM ActivationTypeCorrect == Spec => []TypeOK
<1>1. ActInv => TypeOK
  BY DEF ActInv
<1>2. QED BY <1>1, ActivationInvariant, PTL

\* A device that lets I/O through has the key of the volume it maps, unless the
\* name was closed and reused while dm_reinstate_key or dm_reload_device was on
\* its way: what _compare_crypt_devices and the key opened by the caller ensure.
THEOREM ActiveHasItsKey == Spec => []KeyMatches
<1>1. ActInv => KeyMatches
  BY DEF ActInv, NameInv, OwnerInv, OwnKey, KeyMatches
<1>2. QED BY <1>1, ActivationInvariant, PTL

\* Once every command on a name has returned, a suspended device has no table
\* waiting and no key in its live table but one of a wrapped-key cipher, unless a
\* process was killed or an ioctl failed half-way, or luksSuspend took the device
\* for one of such a cipher: crypt_suspend wiped the key, or nobody left the
\* device suspended.
THEOREM SuspendedHasNoKey == Spec => []SuspendedIsKeyless
<1>1. ActInv => SuspendedIsKeyless
  BY DEF ActInv, NameInv, SuspInv, SuspendedIsKeyless, Quiet, dm_status_suspended, KeyLeft, Pure
<1>2. QED BY <1>1, ActivationInvariant, PTL

\* Once every command on a name has returned, a lower layer lies under a device
\* of the user, unless what the calls report interfered: _create_device_undo
\* and LUKS2_deactivate take it down with the upper one.
THEOREM StackIsWhole == Spec => []StackWhole
<1>1. ASSUME ActInv, NEW n \in Names, Quiet(n), Pure(n, Interference), dm_status_device(dm, Low(n))
      PROVE  dm_status_device(dm, Top(n))
  <2>1. dm[Top(n)].live.low
    BY <1>1 DEF ActInv, NameInv, StackInv, Quiet
  <2>2. WellFormed(dm[Top(n)])
    BY NodeFacts, <1>1 DEF ActInv, TypeOK
  <2>3. QED BY <2>1, <2>2 DEF WellFormed, NoDev, NoTable, dm_status_device
<1>2. ActInv => StackWhole
  BY <1>1 DEF StackWhole, Interference
<1>3. QED BY <1>2, ActivationInvariant, PTL

---------------------------------------------------------------------------
\* Who brings a suspended device back.

\* Whoever is in a reload has queried the table while the device was not
\* suspended (dm_query_key never returns an empty key).
AwakeInv == \A p \in Procs : proc[p].pc \in ReloadSteps => proc[p].awake
AwakeKept(p) ==
  /\ \A q \in Procs \ {p} : proc'[q].pc = proc[q].pc /\ proc'[q].awake = proc[q].awake
  /\ proc'[p].pc \in ReloadSteps => proc'[p].awake \/ (proc[p].pc \in ReloadSteps /\ proc'[p].awake = proc[p].awake)

\* A step that resumes no suspended device of a user, and one that does.
Calm(x) ==
  /\ Only(dm, dm', x)
  /\ \/ x[2] = 1 \/ ~dm_status_device(dm, x)
     \/ dm'[x].susp = dm[x].susp \/ dm'[x].susp \/ dm'[x].live.type # "crypt"
Wakes(p) ==
  /\ proc[p].pc \in {"resume", "res0", "un0", "sundo", "uresume"} /\ proc'[p].pc # proc[p].pc
  /\ CanResume(dm, Top(Name(p))) /\ dm' = dm_resume(dm, Top(Name(p)))
Calmly == dm' = dm \/ \E x \in Nodes : Calm(x)
StepKept(p) == AwakeKept(p) /\ (Calmly \/ Wakes(p))

\* The end of a command and a move within it keep AwakeInv.
LEMMA ReturnAwake ==
  ASSUME ActInv, NEW p \in Procs, Return(p)
  PROVE  AwakeKept(p)
BY ReturnEffect DEF ActInv, AwakeKept, ReloadSteps

\* Whoever moves into a reload was in one.
LEMMA GotoAwake ==
  ASSUME ActInv, NEW p \in Procs, NEW s \in Points, Goto(p, s), s \in ReloadSteps => proc[p].pc \in ReloadSteps
  PROVE  AwakeKept(p)
BY GotoEffect DEF ActInv, AwakeKept

\* The ioctls that wake nobody.
LEMMA CalmIoctl ==
  ASSUME ActInv, NEW x \in Nodes, NEW t \in Tables,
         \/ ~dm_status_device(dm, x) /\ dm' = dm_create_device(dm, x, t)
         \/ dm' = dm_remove(dm, x) \/ dm' = dm_remove_deferred(dm, x) \/ dm' = dm_cancel_deferred_removal(dm, x)
         \/ dm' = dm_reload(dm, x, t) \/ dm' = dm_clear_device(dm, x) \/ dm' = dm_suspend(dm, x)
         \/ dm' = dm_key_wipe(dm, x) \/ dm' = dm_error_device(dm, x)
         \/ x[2] = 1 /\ dm' = dm_resume(dm, x)
  PROVE  Calm(x)
<1>1. dm \in Maps
  BY DEF ActInv, TypeOK, Maps
<1>2. CASE ~dm_status_device(dm, x) /\ dm' = dm_create_device(dm, x, t)
  BY <1>1, <1>2, CreateEffect DEF Calm
<1>3. CASE dm' = dm_remove(dm, x)
  BY <1>1, <1>3, RemoveEffect DEF Calm, NoDev, NoTable
<1>4. CASE dm' = dm_remove_deferred(dm, x) \/ dm' = dm_cancel_deferred_removal(dm, x)
  BY <1>1, <1>4, DeferEffect DEF Calm
<1>5. CASE dm' = dm_reload(dm, x, t)
  BY <1>1, <1>5, ReloadEffect DEF Calm
<1>6. CASE dm' = dm_clear_device(dm, x)
  BY <1>1, <1>6, ClearEffect DEF Calm
<1>7. CASE dm' = dm_suspend(dm, x)
  BY <1>1, <1>7, SuspendEffect DEF Calm
<1>8. CASE dm' = dm_key_wipe(dm, x)
  BY <1>1, <1>8, WipeEffect DEF Calm
<1>9. CASE dm' = dm_error_device(dm, x)
  BY <1>1, <1>9, ErrorEffect DEF Calm
<1>10. CASE x[2] = 1 /\ dm' = dm_resume(dm, x)
  BY <1>1, <1>10, ResumeEffect DEF Calm
<1>11. QED BY <1>2, <1>3, <1>4, <1>5, <1>6, <1>7, <1>8, <1>9, <1>10

\* The nodes and tables a process that is not idle works with.
LEMMA WorkTables ==
  ASSUME ActInv, NEW p \in Procs, proc[p].pc # "idle"
  PROVE  /\ Top(Name(p)) \in Nodes /\ Low(Name(p)) \in Nodes /\ Low(Name(p))[2] = 1 /\ NoTable \in Tables
         /\ <<Name(p), 0>> = Top(Name(p)) /\ <<Name(p), 1>> = Low(Name(p))
         /\ proc[p].pc \notin CloseSteps => Vol(p) \in Vols /\ LowTable(p) \in Tables /\ TopTable(p) \in Tables
         /\ proc[p].pc \in ReloadSteps => NewTable(p) \in Tables
<1>1. Name(p) \in Names
  BY WorkerFacts
<1>2. proc[p].pc \notin CloseSteps => Vol(p) \in Vols
  BY VolOf
<1>3. proc[p].pc \in ReloadSteps => proc[p].pc \notin CloseSteps /\ proc[p].from = Vol(p)
  BY VolOf DEF ReloadSteps, CloseSteps
<1>4. QED BY <1>1, <1>2, <1>3, NodeFacts, TablesOfCall, EmptyTyped DEF Low

\* Commands start and look around without touching a device.
LEMMA LookSteps ==
  ASSUME ActInv, NEW p \in Procs,
         \/ action_open(p) \/ action_resize(p) \/ action_luksSuspend(p) \/ action_luksResume(p) \/ action_close(p)
         \/ _activate_check_status(p) \/ _open_and_activate(p) \/ check_devices(p) \/ device_block_adjust(p)
         \/ crypt_suspend(p) \/ crypt_suspend_drop(p) \/ crypt_resume_by_passphrase(p) \/ Kill(p)
  PROVE  StepKept(p)
<1>1. ASSUME NEW c, NEW v, NEW s \in {"check", "rquery", "scheck", "ucheck", "cquery"}, Start(p, c, v, s)
      PROVE  StepKept(p)
  <2>1. dm' = dm /\ (\A q \in Procs \ {p} : proc'[q] = proc[q])
    BY <1>1 DEF Start, ActInv, TypeOK
  <2>2. proc'[p].pc = s
    BY <1>1 DEF Start, ActInv, TypeOK, Idle
  <2>3. QED BY <2>1, <2>2 DEF StepKept, AwakeKept, Calmly, ReloadSteps
<1>2. CASE action_open(p) \/ action_close(p)
  BY <1>1, <1>2 DEF action_open, action_close
<1>3. CASE action_resize(p) \/ action_luksSuspend(p) \/ action_luksResume(p)
  BY <1>1, <1>3 DEF action_resize, action_luksSuspend, action_luksResume, OnActive
<1>4. ASSUME dm' = dm, Return(p) \/ \E s \in Points \ ReloadSteps : Goto(p, s)
      PROVE  StepKept(p)
  BY <1>4, ReturnAwake, GotoAwake DEF StepKept, Calmly
<1>5. {"key", "excl", "devices", "query", "lload", "low", "top", "ssusp", "uset"} \subseteq Points \ ReloadSteps
  BY DEF Points, ReloadSteps
<1>6. CASE _activate_check_status(p)
  BY <1>4, <1>5, <1>6 DEF _activate_check_status
<1>7. CASE _open_and_activate(p)
  BY <1>4, <1>5, <1>7 DEF _open_and_activate
<1>8. CASE check_devices(p)
  BY <1>4, <1>5, <1>8 DEF check_devices, Fail, Goto
<1>9. CASE device_block_adjust(p)
  BY <1>4, <1>5, <1>9 DEF device_block_adjust, Fail
<1>10. CASE crypt_suspend(p) \/ crypt_suspend_drop(p) \/ crypt_resume_by_passphrase(p) \/ Kill(p)
  BY <1>4, <1>5, <1>10 DEF crypt_suspend, crypt_suspend_drop, crypt_resume_by_passphrase, Kill
<1>11. QED BY <1>2, <1>3, <1>6, <1>7, <1>8, <1>9, <1>10

\* The query of a reload needs the key of the live table, which a suspended
\* device does not give.
LEMMA QuerySteps ==
  ASSUME ActInv, NEW p \in Procs, crypt_resize(p) \/ _reload_query(p)
  PROVE  StepKept(p)
<1>1. dm' = dm /\ proc \in [Procs -> Calls]
  BY DEF crypt_resize, _reload_query, ActInv, TypeOK
<1>2. CASE Return(p)
  BY <1>1, <1>2, ReturnAwake DEF StepKept, Calmly
<1>3. ASSUME NEW o, proc' = [proc EXCEPT ![p].pc = "query", ![p].o = o]
      PROVE  StepKept(p)
  <2>1. (\A q \in Procs \ {p} : proc'[q] = proc[q]) /\ proc'[p].pc = "query"
    BY <1>1, <1>3 DEF Calls
  <2>2. QED BY <1>1, <2>1 DEF StepKept, AwakeKept, Calmly, ReloadSteps
<1>5. CASE crypt_resize(p)
  BY <1>2, <1>3, <1>5 DEF crypt_resize
<1>6. CASE _reload_query(p)
  <2>1. CASE QueryMatches(p)
    <3>1. ~dm[Top(Name(p))].susp
      BY <2>1 DEF QueryMatches, dm_query_key
    <3>2. \E s, v : \E b \in BOOLEAN :
            b /\ proc' = [proc EXCEPT ![p] = [@ EXCEPT !.pc = s, !.from = v, !.awake = b, !.gone = FALSE]]
      <4>1. (~dm[Top(Name(p))].susp) \in BOOLEAN
        OBVIOUS
      <4>2. QED BY <1>6, <2>1, <3>1, <4>1, Zenon DEF _reload_query
    <3>3. PICK s, v : \E b \in BOOLEAN :
            b /\ proc' = [proc EXCEPT ![p] = [@ EXCEPT !.pc = s, !.from = v, !.awake = b, !.gone = FALSE]]
      BY <3>2, Zenon
    <3>4. PICK b \in BOOLEAN :
            b /\ proc' = [proc EXCEPT ![p] = [@ EXCEPT !.pc = s, !.from = v, !.awake = b, !.gone = FALSE]]
      BY <3>3, Zenon
    <3>5. (\A q \in Procs \ {p} : proc'[q] = proc[q]) /\ proc'[p].awake
      BY <1>1, <3>4 DEF Calls
    <3>6. QED BY <1>1, <3>5 DEF StepKept, AwakeKept, Calmly
  <2>2. QED BY <1>2, <1>6, <2>1 DEF _reload_query, Fail
<1>7. QED BY <1>5, <1>6

\* The lower layer comes and goes, the upper one is created.
LEMMA BuildSteps ==
  ASSUME ActInv, NEW p \in Procs,
         \/ INTEGRITY_activate_dmd_device(p) \/ reload_low(p) \/ resume_low(p) \/ dm_create_top(p)
         \/ _create_device_undo(p) \/ LUKS2_deactivate(p) \/ TCRYPT_remove_one(p)
  PROVE  StepKept(p)
<1>1. proc[p].pc \in {"low", "lload", "lresume", "top", "undo", "clow"}
  BY DEF INTEGRITY_activate_dmd_device, reload_low, resume_low, dm_create_top, _create_device_undo,
         LUKS2_deactivate, TCRYPT_remove_one, RemoveLow, At
<1>2. AwakeKept(p)
  <2>1. {"top", "lresume", "undo"} \subseteq Points \ ReloadSteps
    BY DEF Points, ReloadSteps
  <2>2. Return(p) \/ \E s \in {"top", "lresume", "undo"} : Goto(p, s)
    BY DEF INTEGRITY_activate_dmd_device, reload_low, resume_low, dm_create_top, _create_device_undo,
           LUKS2_deactivate, TCRYPT_remove_one, RemoveLow, Fail
  <2>3. QED BY <2>1, <2>2, ReturnAwake, GotoAwake
<1> DEFINE x == Low(Name(p))  y == Top(Name(p))
<1>3. /\ y \in Nodes /\ x \in Nodes /\ x[2] = 1 /\ NoTable \in Tables
      /\ proc[p].pc # "clow" => LowTable(p) \in Tables /\ TopTable(p) \in Tables
  BY <1>1, WorkTables DEF CloseSteps
<1>4. \/ dm' = dm
      \/ proc[p].pc # "clow" /\ ~dm_status_device(dm, x) /\ dm' = dm_create_device(dm, x, LowTable(p))
      \/ proc[p].pc # "clow" /\ dm' = dm_reload(dm, x, LowTable(p))
      \/ dm' = dm_resume(dm, x)
      \/ proc[p].pc # "clow" /\ ~dm_status_device(dm, y) /\ dm' = dm_create_device(dm, y, TopTable(p))
      \/ dm' = dm_remove(dm, x)
  BY DEF INTEGRITY_activate_dmd_device, reload_low, resume_low, dm_create_top, _create_device_undo,
         LUKS2_deactivate, TCRYPT_remove_one, RemoveLow, CanMake, CanCreate, At
<1> HIDE DEF x, y
<1>5. Calmly
  BY <1>3, <1>4, CalmIoctl DEF Calmly
<1>6. QED BY <1>2, <1>5 DEF StepKept

\* A move of a reload.
LEMMA ReloadAwake ==
  ASSUME ActInv, NEW p \in Procs, proc[p].pc \in ReloadSteps, Return(p) \/ \E s \in ReloadSteps : Goto(p, s)
  PROVE  AwakeKept(p)
<1>1. ReloadSteps \subseteq Points
  BY DEF ReloadSteps, Points
<1>2. QED BY <1>1, ReturnAwake, GotoAwake

\* A reload fills, suspends, clears or burns the devices.
LEMMA LoadSteps ==
  ASSUME ActInv, NEW p \in Procs,
         \/ dm_reload_device(p) \/ _reload_device_with_integrity(p) \/ _reload_device_error(p) \/ _reload_device_clear(p)
  PROVE  StepKept(p)
<1>1. proc[p].pc \in ReloadSteps /\ proc[p].pc # "idle"
  BY DEF dm_reload_device, _reload_device_with_integrity, Step, _reload_device_error, _reload_device_clear, At, ReloadSteps
<1> DEFINE x == Low(Name(p))  y == Top(Name(p))
<1>2. /\ y \in Nodes /\ x \in Nodes /\ x[2] = 1 /\ NoTable \in Tables /\ <<Name(p), 0>> = y /\ <<Name(p), 1>> = x
      /\ LowTable(p) \in Tables /\ NewTable(p) \in Tables
  BY <1>1, WorkTables DEF CloseSteps, ReloadSteps
<1>3. {"resume", "tload", "susp0", "susp1", "res1", "res0", "clr0", "clr1", "un0", "err1"} \subseteq ReloadSteps
  BY DEF ReloadSteps
<1>4. CASE dm_reload_device(p)
  <2>1. Return(p) \/ Goto(p, "resume")
    BY <1>4 DEF dm_reload_device, FailReload, Fail
  <2>2. dm' = dm \/ dm' = dm_reload(dm, y, NewTable(p))
    BY <1>4 DEF dm_reload_device
  <2> HIDE DEF x, y
  <2>3. QED BY <1>1, <1>2, <1>3, <2>1, <2>2, ReloadAwake, CalmIoctl DEF StepKept, Calmly
<1>5. CASE _reload_device_with_integrity(p)
  <2>1. Return(p) \/ \E s \in {"tload", "susp0", "susp1", "res1", "res0", "clr0"} : Goto(p, s)
    BY <1>5 DEF _reload_device_with_integrity, Step, Fail
  <2>2. \/ dm' = dm \/ dm' = dm_reload(dm, x, LowTable(p)) \/ dm' = dm_reload(dm, y, NewTable(p))
        \/ dm' = dm_suspend(dm, y) \/ dm' = dm_suspend(dm, x) \/ dm' = dm_resume(dm, x)
    BY <1>5 DEF _reload_device_with_integrity, Step
  <2> HIDE DEF x, y
  <2>3. AwakeKept(p)
    BY <1>1, <1>3, <2>1, ReloadAwake
  <2>4. Calmly
    BY <1>2, <2>2, CalmIoctl DEF Calmly
  <2>5. QED BY <2>3, <2>4 DEF StepKept
<1>6. CASE _reload_device_error(p)
  <2>1. PICK l \in {0, 1} : (dm' = dm \/ dm' = dm_error_device(dm, <<Name(p), l>>)) /\ (Return(p) \/ Goto(p, "err1"))
    BY <1>6 DEF _reload_device_error, Fail
  <2>2. <<Name(p), l>> \in Nodes
    BY <1>2, <2>1
  <2>3. QED BY <1>1, <1>2, <1>3, <2>1, <2>2, ReloadAwake, CalmIoctl DEF StepKept, Calmly
<1>7. CASE _reload_device_clear(p)
  <2>1. PICK l \in {0, 1} : /\ dm' = dm \/ dm' = dm_clear_device(dm, <<Name(p), l>>)
                            /\ Goto(p, "clr1") \/ Goto(p, "un0")
    BY <1>7 DEF _reload_device_clear
  <2>2. <<Name(p), l>> \in Nodes
    BY <1>2, <2>1
  <2>3. QED BY <1>1, <1>2, <1>3, <2>1, <2>2, ReloadAwake, CalmIoctl DEF StepKept, Calmly
<1>8. QED BY <1>4, <1>5, <1>6, <1>7

\* The resumes of a device of the user, and the steps of luksSuspend.
LEMMA WakeSteps ==
  ASSUME ActInv, NEW p \in Procs,
         \/ dm_reload_resume(p) \/ _reload_device_resume(p) \/ _reload_device_unsuspend(p)
         \/ dm_suspend_device(p) \/ dm_suspend_wipe(p) \/ dm_suspend_undo(p) \/ dm_resume_device(p)
  PROVE  StepKept(p)
<1> DEFINE y == Top(Name(p))
<1>1. ASSUME proc[p].pc # "idle", Return(p) \/ \E s \in Points : Goto(p, s) /\ s # proc[p].pc
      PROVE  proc'[p].pc # proc[p].pc
  BY <1>1, ReturnEffect, GotoEffect DEF ActInv
<1>2. {"err0", "un1", "swipe", "sdrop", "sundo"} \subseteq Points /\ {"err0", "un1"} \subseteq ReloadSteps
      /\ {"swipe", "sdrop", "sundo"} \cap ReloadSteps = {}
  BY DEF Points, ReloadSteps
<1>3. CASE dm_reload_resume(p)
  <2>1. proc[p].pc = "resume" /\ Return(p) /\ (dm' = dm \/ (CanResume(dm, y) /\ dm' = dm_resume(dm, y)))
    BY <1>3 DEF dm_reload_resume, At, FailReload, Fail
  <2>2. QED BY <1>1, <2>1, ReturnAwake DEF StepKept, Calmly, Wakes
<1>4. CASE _reload_device_resume(p)
  <2>1. /\ proc[p].pc = "res0" /\ (Return(p) \/ Goto(p, "err0"))
        /\ dm' = dm \/ (CanResume(dm, y) /\ dm' = dm_resume(dm, y))
    BY <1>4 DEF _reload_device_resume, At
  <2>2. AwakeKept(p)
    BY <1>2, <2>1, ReloadAwake DEF ReloadSteps
  <2>3. QED BY <1>1, <1>2, <2>1, <2>2 DEF StepKept, Calmly, Wakes
<1>5. CASE _reload_device_unsuspend(p)
  <2>1. PICK l \in {0, 1} :
          /\ At(p, IF l = 0 THEN "un0" ELSE "un1")
          /\ dm' = dm \/ (CanResume(dm, <<Name(p), l>>) /\ dm' = dm_resume(dm, <<Name(p), l>>))
          /\ IF l = 0 THEN Goto(p, "un1") ELSE Return(p)
    BY <1>5 DEF _reload_device_unsuspend, Fail
  <2>2. proc[p].pc \in ReloadSteps /\ proc[p].pc # "idle"
    BY <2>1 DEF ReloadSteps, At
  <2>3. AwakeKept(p)
    BY <1>2, <2>1, <2>2, ReloadAwake
  <2>4. CASE l = 0
    <3>1. proc[p].pc = "un0" /\ proc'[p].pc # proc[p].pc
      BY <1>1, <1>2, <2>1, <2>4 DEF At
    <3>2. <<Name(p), l>> = Top(Name(p))
      BY <2>2, <2>4, WorkTables
    <3>3. QED BY <2>1, <2>3, <3>1, <3>2 DEF StepKept, Calmly, Wakes
  <2>5. CASE l = 1
    <3>1. <<Name(p), l>> = Low(Name(p)) /\ Low(Name(p)) \in Nodes /\ Low(Name(p))[2] = 1 /\ NoTable \in Tables
      BY <2>2, <2>5, WorkTables
    <3>2. Calmly
      BY <2>1, <3>1, CalmIoctl DEF Calmly
    <3>3. QED BY <2>3, <3>2 DEF StepKept
  <2>6. QED BY <2>4, <2>5
<1>6. CASE dm_suspend_device(p) \/ dm_suspend_wipe(p)
  <2>1. /\ proc[p].pc # "idle" /\ (Return(p) \/ \E s \in {"swipe", "sdrop", "sundo"} : Goto(p, s))
        /\ dm' = dm \/ dm' = dm_suspend(dm, y) \/ dm' = dm_key_wipe(dm, y)
    BY <1>6 DEF dm_suspend_device, dm_suspend_wipe, At
  <2>2. y \in Nodes /\ NoTable \in Tables
    BY <2>1, WorkTables
  <2> HIDE DEF y
  <2>3. AwakeKept(p)
    BY <1>2, <2>1, ReturnAwake, GotoAwake
  <2>4. Calmly
    BY <2>1, <2>2, CalmIoctl DEF Calmly
  <2>5. QED BY <2>3, <2>4 DEF StepKept
<1>7. CASE dm_suspend_undo(p)
  <2>1. proc[p].pc = "sundo" /\ Return(p) /\ (dm' = dm \/ (CanResume(dm, y) /\ dm' = dm_resume(dm, y)))
    BY <1>7 DEF dm_suspend_undo, At
  <2>2. QED BY <1>1, <2>1, ReturnAwake DEF StepKept, Calmly, Wakes
<1>8. CASE dm_resume_device(p)
  <2>1. proc[p].pc = "uresume" /\ Return(p) /\ (dm' = dm \/ (CanResume(dm, y) /\ dm' = dm_resume(dm, y)))
    BY <1>8 DEF dm_resume_device, At, Fail
  <2>2. QED BY <1>1, <2>1, ReturnAwake DEF StepKept, Calmly, Wakes
<1>9. QED BY <1>3, <1>4, <1>5, <1>6, <1>7, <1>8

\* The key is set while the device stays suspended.
LEMMA KeyStep ==
  ASSUME ActInv, NEW p \in Procs, dm_reinstate_key(p)
  PROVE  StepKept(p)
<1> DEFINE y == Top(Name(p))
<1>1. /\ proc[p].pc = "uset" /\ (Return(p) \/ Goto(p, "uresume"))
      /\ dm' = dm \/ dm' = dm_key_set(dm, y, Vol(p), UseKeyring(Vol(p)))
  BY DEF dm_reinstate_key, At, Fail
<1>2. "uresume" \in Points \ ReloadSteps
  BY DEF Points, ReloadSteps
<1>3. AwakeKept(p)
  BY <1>1, <1>2, ReturnAwake, GotoAwake
<1>4. y \in Nodes /\ Vol(p) \in Vols /\ UseKeyring(Vol(p)) \in BOOLEAN /\ dm \in Maps
  BY <1>1, WorkTables DEF UseKeyring, ActInv, TypeOK, Maps, CloseSteps
<1> HIDE DEF y
<1>5. Calmly
  BY <1>1, <1>4, KeySetEffect DEF Calmly, Calm
<1>6. QED BY <1>3, <1>5 DEF StepKept

\* A close looks at the device, removes it or makes it an error target.
LEMMA CloseDeviceSteps ==
  ASSUME ActInv, NEW p \in Procs, crypt_deactivate_by_name(p) \/ dm_remove_device(p)
  PROVE  StepKept(p)
<1> DEFINE y == Top(Name(p))
<1>1. proc[p].pc \in {"cquery", "cremove"} /\ proc \in [Procs -> Calls] /\ proc[p].pc \notin ReloadSteps
  BY DEF crypt_deactivate_by_name, dm_remove_device, At, ActInv, TypeOK, ReloadSteps
<1>2. y \in Nodes /\ NoTable \in Tables /\ Name(p) \in Names
  BY <1>1, WorkTables, WorkerFacts
<1>3. \/ dm' = dm \/ dm' = dm_cancel_deferred_removal(dm, y) \/ dm' = dm_remove(dm, y)
      \/ dm' = dm_remove_deferred(dm, y) \/ dm' = dm_error_device(dm, y)
  BY DEF crypt_deactivate_by_name, dm_remove_device
<1>4. Calmly
  <2> HIDE DEF y
  <2>1. QED BY <1>2, <1>3, CalmIoctl DEF Calmly
<1>5. AwakeKept(p)
  <2>1. CASE Return(p)
    BY <2>1, ReturnAwake
  <2>2. ASSUME NEW s \in {"clow", "cremove"}, NEW w \in [Procs -> Calls],
               w[p].pc = s, \A q \in Procs \ {p} : w[q] = proc[q],
               proc' = w \/ proc' = Forget(w, Name(p))
        PROVE  AwakeKept(p)
    <3>1. \A q \in Procs : proc'[q].pc = w[q].pc /\ proc'[q].awake = w[q].awake
      BY <1>2, <2>2, ForgetEffect
    <3>2. QED BY <2>2, <3>1 DEF AwakeKept, ReloadSteps
  <2>3. CASE crypt_deactivate_by_name(p) /\ ~Return(p)
    <3>1. PICK b, v : proc' = [proc EXCEPT ![p] = [@ EXCEPT !.pc = "cremove", !.low = b, !.vol = v]]
      BY <2>3 DEF crypt_deactivate_by_name
    <3>2. (\A q \in Procs \ {p} : proc'[q] = proc[q]) /\ proc'[p].pc = "cremove"
      BY <1>1, <3>1 DEF Calls
    <3>3. QED BY <3>2 DEF AwakeKept, ReloadSteps
  <2>4. CASE dm_remove_device(p) /\ ~Return(p)
    <3>1. \/ proc' = Forget([proc EXCEPT ![p].pc = "clow"], Name(p))
          \/ proc' = [proc EXCEPT ![p].pc = "clow"]
          \/ proc' = [proc EXCEPT ![p].tries = @ - 1]
      BY <2>4 DEF dm_remove_device, Goto
    <3>2. CASE proc' = [proc EXCEPT ![p].tries = @ - 1]
      <4>1. (\A q \in Procs \ {p} : proc'[q] = proc[q]) /\ proc'[p].pc = proc[p].pc
        BY <1>1, <3>2 DEF Calls
      <4>2. QED BY <1>1, <4>1 DEF AwakeKept
    <3>3. CASE proc' # [proc EXCEPT ![p].tries = @ - 1]
      <4> DEFINE w == [proc EXCEPT ![p].pc = "clow"]
      <4>1. "clow" \in Points
        BY DEF Points
      <4>2. w \in [Procs -> Calls] /\ w[p].pc = "clow" /\ \A q \in Procs \ {p} : w[q] = proc[q]
        BY <1>1, <4>1 DEF Calls
      <4>3. proc' = w \/ proc' = Forget(w, Name(p))
        BY <3>1, <3>3
      <4> HIDE DEF w
      <4>4. QED BY <2>2, <4>2, <4>3
    <3>4. QED BY <3>2, <3>3
  <2>5. QED BY <2>1, <2>3, <2>4
<1>6. QED BY <1>4, <1>5 DEF StepKept

\* Users come and go: a device is not resumed by them.
LEMMA UserSteps ==
  ASSUME ActInv, NEW x \in Nodes, UserOpen(x) \/ UserClose(x)
  PROVE  Calmly /\ \A q \in Procs : proc'[q].pc = proc[q].pc /\ proc'[q].awake = proc[q].awake
<1>1. dm \in Maps /\ proc \in [Procs -> Calls]
  BY DEF ActInv, TypeOK, Maps
<1>2. CASE UserOpen(x)
  <2>1. dm' = [dm EXCEPT ![x].users = 1] /\ proc' = proc
    BY <1>2 DEF UserOpen
  <2>2. Only(dm, dm', x) /\ dm'[x].susp = dm[x].susp
    BY <1>1, <2>1, OpenEffect
  <2>3. QED BY <2>1, <2>2 DEF Calmly, Calm
<1>3. CASE UserClose(x)
  <2>1. dm' = Closed(dm, x) /\ (proc' = proc \/ proc' = Forget(proc, x[1]))
    BY <1>3 DEF UserClose
  <2>2. Only(dm, dm', x) /\ (dm'[x] = NoDev \/ dm'[x].susp = dm[x].susp)
    BY <1>1, <2>1, ClosedEffect
  <2>3. Calm(x)
    BY <2>2 DEF Calm, NoDev, NoTable
  <2>4. x[1] \in Names
    BY DEF Nodes
  <2>5. QED BY <1>1, <2>1, <2>3, <2>4, ForgetEffect DEF Calmly
<1>4. QED BY <1>2, <1>3

\* What SuspendSticks says of one step and one name.
Sticks(n) ==
  LET d == dm[Top(n)]  e == dm'[Top(n)]
  IN  (dm_status_suspended(dm, Top(n)) /\ d.live.key = "none" /\ e.live.type = "crypt" /\ ~e.susp) =>
        \E p \in Procs :
          /\ Name(p) = n /\ proc'[p] # proc[p]
          /\ \/ proc[p].op = "resume" \/ proc[p].awake
             \/ At(p, "sundo") /\ d.inactive # NoTable

\* A step that resumes no suspended device of a user satisfies it.
LEMMA CalmSticks ==
  ASSUME ActInv, Calmly, NEW n \in Names
  PROVE  Sticks(n)
<1>1. Top(n) \in Nodes /\ Top(n)[2] = 0
  BY NodeFacts DEF Top
<1>2. CASE dm' = dm
  BY <1>2 DEF Sticks, dm_status_suspended
<1>3. CASE \E x \in Nodes : Calm(x)
  <2>1. PICK x \in Nodes : Calm(x)
    BY <1>3
  <2>2. CASE x = Top(n)
    <3>1. ~dm_status_device(dm, Top(n)) \/ dm'[Top(n)].susp = dm[Top(n)].susp \/ dm'[Top(n)].susp
          \/ dm'[Top(n)].live.type # "crypt"
      BY <1>1, <2>1, <2>2 DEF Calm
    <3>2. QED BY <3>1, Zenon DEF Sticks, dm_status_suspended
  <2>3. CASE x # Top(n)
    <3>1. dm'[Top(n)] = dm[Top(n)]
      BY <1>1, <2>1, <2>3 DEF Calm, Only
    <3>2. QED BY <3>1 DEF Sticks, dm_status_suspended
  <2>4. QED BY <2>2, <2>3
<1>4. QED BY <1>2, <1>3 DEF Calmly

\* And so does one that does: it is a luksResume, a reload, or the undo of a
\* luksSuspend with the table of a reload.
LEMMA WakeSticks ==
  ASSUME ActInv, AwakeInv, NEW p \in Procs, Wakes(p), NEW n \in Names
  PROVE  Sticks(n)
<1>1. proc[p].pc # "idle" /\ Top(n) \in Nodes /\ dm \in Maps
  BY NodeFacts DEF Wakes, ActInv, TypeOK, Maps
<1>2. Name(p) \in Names /\ Top(Name(p)) \in Nodes
  BY <1>1, WorkerFacts, WorkTables
<1>3. CASE n # Name(p)
  <2>1. Top(n) # Top(Name(p))
    BY <1>2, <1>3, NodeFacts
  <2>2. dm'[Top(n)] = dm[Top(n)]
    BY <1>1, <1>2, <2>1, ResumeEffect DEF Wakes, Only
  <2>3. QED BY <2>2 DEF Sticks, dm_status_suspended
<1>4. CASE n = Name(p)
  <2>1. SUFFICES ASSUME dm_status_suspended(dm, Top(n)), dm[Top(n)].live.key = "none",
                        dm'[Top(n)].live.type = "crypt", ~dm'[Top(n)].susp
                 PROVE  /\ Name(p) = n /\ proc'[p] # proc[p]
                        /\ \/ proc[p].op = "resume" \/ proc[p].awake
                           \/ At(p, "sundo") /\ dm[Top(n)].inactive # NoTable
    BY DEF Sticks
  <2>2. proc'[p] # proc[p]
    BY DEF Wakes
  <2>3. CASE proc[p].pc \in {"resume", "res0", "un0"}
    BY <1>4, <2>2, <2>3 DEF AwakeInv, ReloadSteps
  <2>4. CASE proc[p].pc = "uresume"
    <3>1. proc[p].op = "resume"
      BY <2>4 DEF ActInv, ProcInv, PcOK, OpenSteps, ReloadSteps, SuspendSteps, CloseSteps
    <3>2. QED BY <1>4, <2>2, <3>1
  <2>5. CASE proc[p].pc = "sundo"
    <3>1. CanResume(dm, Top(n)) /\ dm'[Top(n)].live = Resumed(dm, Top(n))
      BY <1>1, <1>4, ResumeEffect DEF Wakes
    <3>2. Resumed(dm, Top(n)).key # "none"
      BY <2>1, <3>1 DEF CanResume
    <3>3. dm[Top(n)].inactive # NoTable
      BY <2>1, <3>2 DEF Resumed
    <3>4. QED BY <1>4, <2>2, <2>5, <3>3 DEF At
  <2>6. QED BY <2>3, <2>4, <2>5 DEF Wakes
<1>5. QED BY <1>3, <1>4

\* A step of a process keeps AwakeInv.
LEMMA AwakeStep ==
  ASSUME AwakeInv, NEW p \in Procs, AwakeKept(p)
  PROVE  AwakeInv'
BY DEF AwakeInv, AwakeKept

\* Every step.
LEMMA NextSticks ==
  ASSUME ActInv, AwakeInv, Next
  PROVE  AwakeInv' /\ \A n \in Names : Sticks(n)
<1>1. ASSUME NEW p \in Procs, StepKept(p)
      PROVE  AwakeInv' /\ \A n \in Names : Sticks(n)
  BY <1>1, AwakeStep, CalmSticks, WakeSticks DEF StepKept
<1>2. ASSUME NEW p \in Procs,
             \/ action_open(p) \/ action_resize(p) \/ action_luksSuspend(p) \/ action_luksResume(p) \/ action_close(p)
             \/ _activate_check_status(p) \/ _open_and_activate(p) \/ check_devices(p) \/ device_block_adjust(p)
             \/ crypt_suspend(p) \/ crypt_suspend_drop(p) \/ crypt_resume_by_passphrase(p) \/ Kill(p)
      PROVE  StepKept(p)
  BY <1>2, LookSteps
<1>3. ASSUME NEW p \in Procs,
             \/ INTEGRITY_activate_dmd_device(p) \/ reload_low(p) \/ resume_low(p) \/ dm_create_top(p)
             \/ _create_device_undo(p) \/ LUKS2_deactivate(p) \/ TCRYPT_remove_one(p)
             \/ crypt_resize(p) \/ _reload_query(p) \/ dm_reinstate_key(p)
             \/ crypt_deactivate_by_name(p) \/ dm_remove_device(p)
      PROVE  StepKept(p)
  BY <1>3, BuildSteps, QuerySteps, KeyStep, CloseDeviceSteps
<1>4. ASSUME NEW p \in Procs,
             \/ dm_reload_device(p) \/ _reload_device_with_integrity(p) \/ _reload_device_error(p)
             \/ _reload_device_clear(p) \/ dm_reload_resume(p) \/ _reload_device_resume(p)
             \/ _reload_device_unsuspend(p) \/ dm_suspend_device(p) \/ dm_suspend_wipe(p) \/ dm_suspend_undo(p)
             \/ dm_resume_device(p)
      PROVE  StepKept(p)
  BY <1>4, LoadSteps, WakeSteps
<1>5. ASSUME NEW x \in Nodes, UserOpen(x) \/ UserClose(x)
      PROVE  AwakeInv' /\ \A n \in Names : Sticks(n)
  BY <1>5, UserSteps, CalmSticks DEF AwakeInv
<1>6. QED
  <2>1. CASE \E p \in Procs : StepKept(p)
    BY <1>1, <2>1
  <2>2. CASE \E x \in Nodes : UserOpen(x) \/ UserClose(x)
    BY <1>5, <2>2
  <2>3. QED BY <1>2, <1>3, <1>4, <2>1, <2>2, Zenon DEF Next

\* luksSuspend sticks: a suspended device without a key comes back through
\* luksResume, or through the table of a refresh or resize that read the live
\* one before (crypt_resume_by_passphrase, dm_query_device with
\* DM_ACTIVE_CRYPT_KEY, _reload_device, dm_suspend_device).
THEOREM SuspendStays == Spec => SuspendSticks
<1>1. Init => AwakeInv
  BY DEF Init, AwakeInv, Idle, ReloadSteps
<1>2. ActInv /\ AwakeInv /\ [Next]_vars => AwakeInv'
  <2>1. CASE UNCHANGED vars
    BY <2>1 DEF vars, AwakeInv
  <2>2. QED BY <2>1, NextSticks
<1>3. ActInv /\ AwakeInv /\ [Next]_vars => [\A n \in Names : Sticks(n)]_vars
  BY NextSticks
<1>4. SuspendSticks <=> [][\A n \in Names : Sticks(n)]_vars
  BY DEF SuspendSticks, Sticks
<1>5. QED BY <1>1, <1>2, <1>3, <1>4, ActivationInvariant, PTL DEF Spec

=============================================================================
