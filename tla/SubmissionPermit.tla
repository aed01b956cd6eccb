-------------------------- MODULE SubmissionPermit --------------------------
(***************************************************************************)
(* What the submission ledger promises about each message identity, with   *)
(* no client, no transaction and no network: a permit to submit it.        *)
(*   open       nobody may have submitted it                               *)
(*   granted    one submission may be under way                            *)
(*   delivered  the native server accepted that submission                 *)
(*   recorded   the ledger holds a receipt                                 *)
(* Grants are numbered.  A permit that has been used is never open again,  *)
(* unless the application retires the identity, which is seen by itself:   *)
(* the identity is marked with the newest grant.  A submission whose       *)
(* permit was retired under way is stray: it may still arrive.             *)
(***************************************************************************)
EXTENDS Naturals

CONSTANT Ids

VARIABLES
  permit,   \* the permit of each identity
  grants,   \* grants given so far, for all identities
  retired,  \* the newest grant when each identity was last retired
  ever,     \* the native server has accepted the identity at some time
  stray     \* a submission of the identity outlived its permit

vars == <<permit, grants, retired, ever, stray>>

Permit == {"open", "granted", "delivered", "recorded"}

Init ==
  /\ permit = [i \in Ids |-> "open"]
  /\ grants = 0
  /\ retired = [i \in Ids |-> 0]
  /\ ever = [i \in Ids |-> FALSE]
  /\ stray = [i \in Ids |-> FALSE]

(* Every grant has a number of its own, so that an identity that holds one *)
(* is not granted another unnoticed.                                       *)
Grant(i) ==
  /\ permit[i] = "open"
  /\ permit' = [permit EXCEPT ![i] = "granted"]
  /\ grants' = grants + 1
  /\ UNCHANGED <<retired, ever, stray>>

(* Only a submission that was never delivered gives its permit back.       *)
Revoke(i) ==
  /\ permit[i] = "granted"
  /\ permit' = [permit EXCEPT ![i] = "open"]
  /\ UNCHANGED <<grants, retired, ever, stray>>

Deliver(i) ==
  /\ permit[i] = "granted"
  /\ permit' = [permit EXCEPT ![i] = "delivered"]
  /\ ever' = [ever EXCEPT ![i] = TRUE]
  /\ UNCHANGED <<grants, retired, stray>>

(* A stray submission arrives, or is lost.                                 *)
Settle(i) ==
  /\ stray[i]
  /\ stray' \in {stray, [stray EXCEPT ![i] = FALSE]}
  /\ ever' \in {ever, [ever EXCEPT ![i] = TRUE]}
  /\ UNCHANGED <<permit, grants, retired>>

(* A receipt is recorded only for an identity the server has accepted.     *)
Record(i) ==
  /\ ever[i]
  /\ permit' = [permit EXCEPT ![i] = "recorded"]
  /\ UNCHANGED <<grants, retired, ever, stray>>

(* Retirement marks the identity with the newest grant.  It can leave a    *)
(* stray submission behind; so can that of a recorded permit, whose        *)
(* receipt may be that of an earlier, retired submission.                  *)
Retire(S) ==
  /\ retired' = [i \in Ids |-> IF i \in S THEN grants ELSE retired[i]]
  /\ permit' = [i \in Ids |-> IF i \in S THEN "open" ELSE permit[i]]
  /\ stray' \in [Ids -> BOOLEAN]
  /\ \A i \in Ids :
       stray'[i] # stray[i] =>
         i \in S /\ permit[i] \in {"granted", "recorded"} /\ stray'[i]
  /\ UNCHANGED <<grants, ever>>

Next ==
  \/ \E i \in Ids :
       Grant(i) \/ Revoke(i) \/ Deliver(i) \/ Settle(i) \/ Record(i)
  \/ \E S \in SUBSET Ids : Retire(S)

Spec == Init /\ [][Next]_vars
=============================================================================
