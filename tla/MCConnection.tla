---------------------------- MODULE MCConnection ----------------------------
(***************************************************************************)
(* Connection with two callers, three requests and two connections.        *)
(***************************************************************************)
EXTENDS Connection

(* Nothing tells the request ids apart, so of those that nothing refers to *)
(* a caller takes the first.                                               *)
First == CHOOSE i \in Ids : Fresh(i)

MCNext ==
  /\ Next
  /\ \A c \in Callers : call'[c] \in {call[c], None} \/ call'[c] = First

MCSpec == Init /\ [][MCNext]_vars /\ Fairness

(* The channel of an id that nothing refers to is replaced before it is    *)
(* used again, and so is the generation of a caller that has no request.   *)
Used ==
  <<link, closed, closing, ensureMu, pc, call,
    [c \in Callers |-> IF pc[c] \in {"idle", "ensure", "snapshot"} THEN 0 ELSE gen[c]],
    pending, [i \in Ids |-> IF Fresh(i) THEN "empty" ELSE channel[i]],
    asked, socket, reader>>
=============================================================================
