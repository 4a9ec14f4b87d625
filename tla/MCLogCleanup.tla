----------------------------- MODULE MCLogCleanup -----------------------------
(* Instances of LogCleanupConsole.                                         *)
EXTENDS LogCleanupConsole

VARIABLE crew  \* who takes part

Second == 2 \in Tasks /\ task[2].status # "absent"

(* "page": one runner that nothing disturbs, the page of one administrator *)
(* and another who may start the first cleanup; the page's first look is   *)
(* over when there is a second.  "runners": no page, two runners; a lease  *)
(* runs out under its goroutine, a statement fails or a process dies, or   *)
(* two of these if there is one cleanup only.  Goroutines are alike: the   *)
(* first idle one takes a task.                                            *)
MCInit == ConsoleInit /\ crew \in {"page", "runners"}
MCNext ==
  /\ UNCHANGED crew
  /\ IF crew = "page" THEN ConsoleNext ELSE Elsewhere
  /\ worker["w1"].pc = "idle" /\ worker["w2"].pc = "idle" => worker'["w2"].pc = "idle"
  /\ crew = "page" =>
       /\ operator'["o2"].pc = "creating" => task[1].status = "absent"
       /\ Second' => first'.pc = "done"
       /\ pass'["r2"] = 0
       /\ UNCHANGED <<slow, faults>>
  /\ Second' => faults' + slow' <= 1
MCSpec == MCInit /\ [][MCNext]_<<consoleVars, crew>> /\ ConsoleFairness
=============================================================================
