---------------------------- MODULE MCActivation ----------------------------
EXTENDS Activation, TLC

MCKinds == {[v \in Vols |-> IF v = "A" THEN k ELSE "luks2"] : k \in {"luks2", "luks2i", "tcrypt"}}
Sym == Permutations(Procs)
MCCapabilities == {{"keyring", "options"}, {}}
Cmd(op, n, vol, o, sz, flag) == [op |-> op, n |-> n, vol |-> vol, o |-> o, sz |-> sz, flag |-> flag]
MCCommands ==
  UNION {{Cmd("open", n, v, 0, 0, "none"), Cmd("refresh", n, v, 1, 0, "none")} : n \in Names, v \in Vols}
  \cup {Cmd(op, n, "none", 0, 1, "none") : op \in {"resize", "suspend", "resume"}, n \in Names}
  \cup {Cmd("close", n, "none", 0, 0, f) : n \in Names, f \in {"none", "deferred", "force", "cancel"}}
=============================================================================
