------------------------- MODULE MCSettlementConsole -------------------------
(* Two rows under one administrator: two H3 tasks, with two calls that may  *)
(* meet at the server; or rows of other kinds, with one call at a time.     *)
(* Tasks are held at first.  In one scene the administrator is not a super  *)
(* administrator.  Another administrator decides about the second row when  *)
(* it is the alert of a request.                                            *)
EXTENDS SettlementConsole

Scene ==
  \/ root /\ kind \in {<<"h3", "h3">>, <<"h3", "task">>, <<"task", "request">>, <<"request", "request">>}
  \/ ~root /\ kind = <<"h3", "request">>

MCInit ==
  /\ Init
  /\ Scene
  /\ \A i \in Ids : row[i].status = IF kind[i] = "request" THEN "pending" ELSE "manual"

OneCall == call'[2].pc = "free"
MCNext ==
  /\ Next
  /\ kind # <<"h3", "h3">> => OneCall
  /\ \A i \in Ids : ReviewElsewhere(i) => i = 2 /\ kind[i] = "request"

MCSpec == MCInit /\ [][MCNext]_vars
=============================================================================
