----------------------------- MODULE MCEphemeral -----------------------------
(***************************************************************************)
(* A utility turn whose server sends notifications of the own turn, of a   *)
(* second turn and of a foreign thread, in any order and number.           *)
(***************************************************************************)
EXTENDS EphemeralTurn

CONSTANTS t1, t2, x, y

MCSent ==
  {m \in Started : m.turn # Foreign} \cup
  {m \in Items : \/ m.turn = t1 /\ m.answer # None
                 \/ m.turn = Foreign /\ m.answer = None} \cup
  {m \in Completed : m.turn = t1 /\ m.answer = x} \cup
  {m \in Failed : m.turn = t1 /\ m.answer = None /\ m.failure # "none"} \cup
  {m \in Errors : m.turn = t1 /\ (m.willRetry => m.failure = "transient")}
=============================================================================
