-------------------------- MODULE MCManualCompletion --------------------------
(* Instances of ManualCompletion.  Administrators, pollers and runners are *)
(* strings: reviewer ids are compared with the ids stored in the rows.     *)
EXTENDS ManualCompletion

VARIABLE crew  \* who takes part

TwoAdmins == {"ann", "bob"}
OnePoller == {"poller"}
OneRunner == {"runner"}

(* Two administrators with their own quotas and notes beside the retry     *)
(* loop, or one administrator against a poll that brings the missing usage.*)
Crews == {{"ann", "bob", "runner"}, {"ann", "poller", "runner"}}

MCInit == Init /\ crew \in Crews
MCNext ==
  /\ Next
  /\ UNCHANGED crew
  /\ \A p \in Proc \ crew : pc'[p] = "idle"
  /\ "poller" \in crew =>
       /\ \A a \in Admins : op'[a].note = DefaultNote
       /\ note'["original"] \in {"", DefaultNote}
MCSpec == MCInit /\ [][MCNext]_<<vars, crew>>
=============================================================================
