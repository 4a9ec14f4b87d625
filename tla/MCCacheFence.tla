----------------------------- MODULE MCCacheFence -----------------------------
(* Instances of CacheFence.                                                 *)
EXTENDS CacheFence

VARIABLE scene

(* Two processes stage mutations, one of them may delete the row and has a  *)
(* runner, and the reader reads no hash; one stages mutations and both have *)
(* a runner, without a fault; one makes mutations of both kinds and retries *)
(* and the other has the runner.                                            *)
Scene(writers, runners, direct) == [writers |-> writers, runners |-> runners, direct |-> direct]
Scenes == {Scene({"p1", "p2"}, {"p2"}, FALSE),
           Scene({"p1"}, {"p1", "p2"}, FALSE),
           Scene({"p1"}, {"p2"}, TRUE)}

MCInit == Init /\ scene \in Scenes
MCNext ==
  /\ Next
  /\ UNCHANGED scene
  /\ \A p \in Processes :
       /\ p \notin scene.writers => writer'[p] = NoWriter
       /\ p \notin scene.runners => runner'[p] = NoRunner
       /\ ~scene.direct => writer'[p].pc # "direct"
  /\ scene.runners = Processes => faults' = 0
  /\ scene.writers = Processes =>
       /\ ~writer'["p1"].delete
       /\ \A r \in Readers : reader'[r].pc \notin {"hash", "fence"}
MCSpec == MCInit /\ [][MCNext]_<<vars, scene>>

(* The runner of a process goes on.                                         *)
RunnerStep(p) == p \in scene.runners /\ Runner(p) /\ UNCHANGED scene
MCFairSpec == MCSpec /\ \A p \in Processes : WF_<<vars, scene>>(RunnerStep(p))
===============================================================================
