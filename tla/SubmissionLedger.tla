-------------------------- MODULE SubmissionLedger --------------------------
(***************************************************************************)
(* The durable submission ledger of one thread: codex/client.go, the       *)
(* sendAttempts, queueAttempts and queueDeletions maps behind              *)
(* submissionTransaction.  All cooperating client processes share it.  A   *)
(* transaction runs under the interprocess file lock (JSON backend) or     *)
(* BEGIN IMMEDIATE (SQLite), so each operator below that primes a variable *)
(* is one atomic step.                                                     *)
(*                                                                         *)
(* A record's digest is abstracted to the text it digests, and its action  *)
(* context and options digest to one "action".  A claim is the random      *)
(* admissionID; claims are numbered so that each one is fresh, and 0 is    *)
(* the empty string.  Turn 0 is the empty turn identity.  A queue entry is *)
(* numbered like the claims: both stand for one submission.                *)
(***************************************************************************)
EXTENDS Naturals

CONSTANTS
  Ids,        \* client user message identities
  Texts,      \* message texts
  Actions,    \* action context and turn options of a message
  None,       \* the absent text or action
  MaxClaims,  \* bound on the admission claims a behaviour may draw
  MaxTurns,   \* bound on native turn identities
  SQLite      \* TRUE when ClientOptions.SubmissionDatabasePath is set

ASSUME LedgerAssumption ==
  /\ None \notin Texts /\ None \notin Actions
  /\ MaxClaims \in Nat
  /\ MaxTurns \in Nat
  /\ SQLite \in BOOLEAN

VARIABLES
  send,     \* sendAttempts[thread]: the send record of each identity
  queued,   \* queueAttempts[thread]: the queued text of each identity
  deletions,\* queueDeletions[thread]: the entries whose deletion is intended
  claims,   \* claims drawn so far
  retired   \* history variable: the newest claim drawn when the record of
            \* each identity was last removed

ledgerVars == <<send, queued, deletions, claims, retired>>

SendState == {"absent", "prepared", "submitting", "accepted"}

Attempt ==
  [state : SendState, text : Texts \cup {None}, action : Actions \cup {None},
   steered : BOOLEAN, turn : 0..MaxTurns, claim : 0..MaxClaims]

Absent ==
  [state |-> "absent", text |-> None, action |-> None,
   steered |-> FALSE, turn |-> 0, claim |-> 0]

PreparedAttempt(t, a, s) ==
  [state |-> "prepared", text |-> t, action |-> a,
   steered |-> s, turn |-> 0, claim |-> 0]

AcceptedAttempt(t, a, s, turn) ==
  [state |-> "accepted", text |-> t, action |-> a,
   steered |-> s, turn |-> turn, claim |-> 0]

QueueEntry == [entry : 1..MaxClaims, id : Ids, text : Texts]

LedgerInit ==
  /\ send = [i \in Ids |-> Absent]
  /\ queued = [i \in Ids |-> None]
  /\ deletions = {}
  /\ claims = 0
  /\ retired = [i \in Ids |-> 0]

LedgerTypeOK ==
  /\ send \in [Ids -> Attempt]
  /\ queued \in [Ids -> Texts \cup {None}]
  /\ deletions \subseteq QueueEntry
  /\ claims \in 0..MaxClaims
  /\ retired \in [Ids -> 0..MaxClaims]

Found(i) == send[i].state # "absent"

IsQueued(i) == queued[i] # None

(* An identity is bound to the text, context and options it was first      *)
(* recorded with; any other use of it is refused.                          *)
SameRequest(i, t, a) ==
  send[i].text = t /\ send[i].action = a

Reused(i, t, a) == Found(i) /\ ~SameRequest(i, t, a)

(***************************************************************************)
(* recordSendAttemptWithReceipt without a receipt: reserve the identity,   *)
(* or find it already reserved for the same request.                       *)
(***************************************************************************)
CanRecord(i, t, a, s) ==
  Found(i) => SameRequest(i, t, a) /\ send[i].steered = s

RecordSend(i, t, a, s) ==
  /\ CanRecord(i, t, a, s)
  /\ send' = IF Found(i) THEN send
                         ELSE [send EXCEPT ![i] = PreparedAttempt(t, a, s)]
  /\ UNCHANGED <<queued, deletions, claims, retired>>

(***************************************************************************)
(* recordSendAttemptWithReceipt with a receipt found in history.  The      *)
(* record is written accepted in one transaction, so that no concurrent    *)
(* sender ever finds it prepared.                                          *)
(***************************************************************************)
CanAdopt(i, t, a, s, turn) ==
  /\ CanRecord(i, t, a, s)
  /\ send[i].state = "accepted" => send[i].turn = turn

AdoptReceipt(i, t, a, s, turn) ==
  /\ CanAdopt(i, t, a, s, turn)
  /\ send' = IF send[i].state = "accepted" THEN send
             ELSE [send EXCEPT ![i] = AcceptedAttempt(t, a, s, turn)]
  /\ UNCHANGED <<queued, deletions, claims, retired>>

(* Faults of admission: the state, the queue attempt or the text and       *)
(* context of the record is not checked.                                   *)
CanClaimAgain(i, t, a, s) ==
  Found(i) /\ SameRequest(i, t, a) /\ send[i].steered = s /\ ~IsQueued(i)

CanClaimQueued(i, t, a, s) ==
  SameRequest(i, t, a) /\ send[i].steered = s /\ send[i].state = "prepared"

CanClaimAnyText(i, t, a, s) ==
  send[i].steered = s /\ send[i].state = "prepared" /\ ~IsQueued(i)

(***************************************************************************)
(* claimSendSubmissionExact: write admission.  Only an exact, prepared and *)
(* unqueued attempt may be claimed.                                        *)
(***************************************************************************)
CanClaim(i, t, a, s) ==
  /\ Found(i)
  /\ SameRequest(i, t, a) /\ send[i].steered = s
  /\ send[i].state = "prepared"
  /\ ~IsQueued(i)

ClaimSend(i, t, a, s) ==
  /\ CanClaim(i, t, a, s)
  /\ claims < MaxClaims
  /\ claims' = claims + 1
  /\ send' = [send EXCEPT ![i].state = "submitting", ![i].claim = claims + 1]
  /\ UNCHANGED <<queued, deletions, retired>>

(* Fault: any claim is restored.                                           *)
CanRestoreAny(i, k) == send[i].state = "submitting"

(***************************************************************************)
(* restoreRejectedSendClaim: the claim is compared by the SQLite backend   *)
(* only; the JSON ledger does not store it.                                *)
(***************************************************************************)
CanRestore(i, k) ==
  /\ send[i].state = "submitting"
  /\ SQLite => send[i].claim = k

RestoreSend(i, k) ==
  /\ CanRestore(i, k)
  /\ send' = [send EXCEPT ![i].state = "prepared", ![i].claim = 0]
  /\ UNCHANGED <<queued, deletions, claims, retired>>

(***************************************************************************)
(* markSendAccepted.                                                       *)
(***************************************************************************)
CanAccept(i, s, turn) ==
  /\ Found(i)
  /\ send[i].steered = s
  /\ \/ send[i].state = "accepted" /\ send[i].turn = turn
     \/ send[i].state = "submitting"

(* Fault: the turn of the receipt is not recorded.                         *)
AcceptWithoutTurn(i, s, turn) ==
  /\ CanAccept(i, s, turn)
  /\ send' = [send EXCEPT ![i].state = "accepted"]
  /\ UNCHANGED <<queued, deletions, claims, retired>>

AcceptSend(i, s, turn) ==
  /\ CanAccept(i, s, turn)
  /\ send' = [send EXCEPT ![i].state = "accepted", ![i].turn = turn]
  /\ UNCHANGED <<queued, deletions, claims, retired>>

(***************************************************************************)
(* Removal of a record: DiscardPreparedSend, AcknowledgeSends and the      *)
(* cleanup of a retired thread.                                            *)
(***************************************************************************)
CanDiscard(i) == send[i].state = "prepared" /\ ~IsQueued(i)

RemoveSend(i) ==
  /\ send' = [send EXCEPT ![i] = Absent]
  /\ retired' = [retired EXCEPT ![i] = claims]
  /\ UNCHANGED <<queued, deletions, claims>>

ClearThread ==
  /\ deletions # {} \/ \E i \in Ids : Found(i) \/ IsQueued(i)
  /\ send' = [i \in Ids |-> Absent]
  /\ queued' = [i \in Ids |-> None]
  /\ deletions' = {}
  /\ retired' = [i \in Ids |-> claims]
  /\ UNCHANGED claims

(***************************************************************************)
(* recordQueueAttempt: a new queue attempt must not turn an earlier send   *)
(* receipt or unknown outcome into another native submission.              *)
(***************************************************************************)
CanRecordQueue(i, t) ==
  IF IsQueued(i)
  THEN queued[i] = t
  ELSE Found(i) => send[i].state = "prepared" /\ ~send[i].steered /\ send[i].text = t

(* Fault: the queue attempt is not saved.                                  *)
RecordQueueUnsaved(i, t) ==
  CanRecordQueue(i, t) /\ UNCHANGED ledgerVars

RecordQueue(i, t) ==
  /\ CanRecordQueue(i, t)
  /\ queued' = [queued EXCEPT ![i] = t]
  /\ UNCHANGED <<send, deletions, claims, retired>>

(***************************************************************************)
(* recordQueueDeletionAttempt and clearQueueDeletionAndAttempt: the intent *)
(* is bound to the entry's message; clearing it also removes the queue     *)
(* attempt and the prepared send it was made for, whether the entry was    *)
(* deleted or found started: either way the ledger forgets the identity.   *)
(***************************************************************************)
RecordDeletion(e) ==
  /\ \A d \in deletions : d.entry = e.entry => d = e
  /\ deletions' = deletions \cup {e}
  /\ UNCHANGED <<send, queued, claims, retired>>

PreparedForQueue(i) ==
  /\ IsQueued(i)
  /\ send[i].state = "prepared" /\ ~send[i].steered /\ send[i].text = queued[i]

ClearDeletion(e) ==
  /\ \A d \in deletions : d.entry = e.entry => d.id = e.id
  /\ deletions' = {d \in deletions : d.entry # e.entry}
  /\ queued' = [queued EXCEPT ![e.id] = None]
  /\ send' = IF PreparedForQueue(e.id) THEN [send EXCEPT ![e.id] = Absent] ELSE send
  /\ retired' = IF IsQueued(e.id) THEN [retired EXCEPT ![e.id] = claims] ELSE retired
  /\ UNCHANGED claims
=============================================================================
