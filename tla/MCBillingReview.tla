---------------------------- MODULE MCBillingReview ----------------------------
(* Instances of BillingReview.                                             *)
EXTENDS BillingReview

VARIABLE cast  \* the records and people that take part

TwoRecords == {"r1", "r2"}
TwoMarkers == {"m1", "m2"}
TwoReviewers == {"ann", "bob"}

(* One administrator and one recorder over two records, singly and in      *)
(* batches; two administrators over one record; and two recorders around   *)
(* one administrator, far enough for one to repeat what another replaced.  *)
Casts == {{"r1", "r2", "m1", "ann"}, {"r1", "m1", "ann", "bob"}, {"r1", "m1", "m2", "ann"}}
LastRevision == IF "r2" \in cast THEN 2 ELSE IF "bob" \in cast THEN 3 ELSE MaxRevision

MCInit == Init /\ cast \in Casts
MCNext ==
  /\ Next
  /\ UNCHANGED cast
  /\ \A p \in Proc \ cast : pc'[p] = "idle"
  /\ \A r \in Records \ cast : row'[r] = NoRow
  /\ \A r \in Records : row'[r].revision <= LastRevision
MCSpec == MCInit /\ [][MCNext]_<<vars, cast>>
=============================================================================
