----------------------------- MODULE MCDelivery -----------------------------
(***************************************************************************)
(* Model-checking instances of Delivery.                                   *)
(***************************************************************************)
EXTENDS Delivery, TLC

ClientSymmetry == Permutations(Clients)

(* No step reads what an operation returned.  The properties see all of it *)
(* in the step that returns it, and receipts also later.                   *)
Receipts ==
  <<ledgerVars, serverVars, pc, op,
    [c \in Clients |-> IF outcome[c].kind = "receipt" THEN outcome[c] ELSE NoOutcome]>>
=============================================================================
