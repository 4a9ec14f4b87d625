---------------------------- MODULE MCTaskLifecycle ----------------------------
(* Instances of TaskLifecycle: any task and two pollers, with a realtime   *)
(* read besides if a delta settles it for less.  The pollers are alike.    *)
EXTENDS TaskLifecycle, TLC

Alike == Permutations(Pollers)

MCInit ==
  /\ Init
  /\ kind = "plan" => finalQuota # 0
  /\ kind \notin {"plan", "delta"} => finalQuota = 1
MCNext == Next /\ ((kind = "delta" /\ finalQuota = 1) \/ \A r \in Readers : pc'[r] = "idle")
MCSpec == MCInit /\ [][MCNext]_vars
=============================================================================
