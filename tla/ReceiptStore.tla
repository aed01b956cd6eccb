---------------------------- MODULE ReceiptStore ----------------------------
(***************************************************************************)
(* What the storage of submission records promises, whichever files hold   *)
(* them: one set of receipts, changed only by the transactions that were   *)
(* reported done, and by the loss of a file on volatile storage.           *)
(***************************************************************************)
CONSTANT Records

VARIABLES
  receipts,   \* the records a client must still see
  last        \* the latest event: a committed change, or a loss

storeVars == <<receipts, last>>

Change == [does : {"record", "remove"}, what : Records]
NoEvent == [does |-> "none"]
Loss == [does |-> "lose"]

StoreInit ==
  /\ receipts \in SUBSET Records
  /\ last = NoEvent

Record(r) ==
  /\ receipts' = receipts \cup {r}
  /\ last' = [does |-> "record", what |-> r]

Remove(r) ==
  /\ receipts' = receipts \ {r}
  /\ last' = [does |-> "remove", what |-> r]

\* Storage outside the project's control disappeared with the receipts on it.
Lose ==
  /\ receipts' \in SUBSET receipts
  /\ last' = Loss

StoreNext ==
  \/ \E r \in Records : Record(r) \/ Remove(r)
  \/ Lose

StoreSpec == StoreInit /\ [][StoreNext]_storeVars
=============================================================================
