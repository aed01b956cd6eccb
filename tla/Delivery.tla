------------------------------ MODULE Delivery ------------------------------
(***************************************************************************)
(* Durable message delivery to one thread by several client processes that *)
(* share the submission ledger: SendWithOptions, ReconcileSendWithOptions, *)
(* SendAttemptedWithOptions, PrepareSendWithOptions,                       *)
(* DiscardPreparedSendWithOptions, AcknowledgeSends, and the cleanup of a  *)
(* retired thread (codex/client.go and codex/send_delivery.go).            *)
(*                                                                         *)
(* A client runs one operation on the thread at a time: each holds the     *)
(* client's queueUpdateLock(threadID).  Another process has its own lock,  *)
(* so operations of two clients interleave at every ledger transaction and *)
(* every request.  pc[c] is the point the operation has reached; op[c]     *)
(* holds its arguments and locals; outcome[c] is what the last operation   *)
(* of c returned.                                                          *)
(*                                                                         *)
(* Every ledger write can fail, either before the new ledger is in place   *)
(* or after it (an error of the directory sync in writeQueueLedgerLocked,  *)
(* or a COMMIT whose reply is lost): the caller sees an error either way.  *)
(***************************************************************************)
EXTENDS AppServer

CONSTANTS
  Clients,  \* client processes that share the ledger
  Resend    \* TRUE when an identity may be sent again after its retirement

ASSUME ResendAssumption == Resend \in BOOLEAN

VARIABLES pc, op, outcome

clientVars == <<pc, op, outcome>>
vars == <<ledgerVars, serverVars, clientVars>>

(* Labels of the operations below, and of the queue operations that        *)
(* QueueDelivery adds.                                                     *)
Label ==
  {"idle", "checkQueue", "reconcile", "resume", "record",
   "admit", "admitted", "await", "restore", "lookup", "mark", "unwritten",
   "recheck", "ackWalk", "ackRemove", "findReceipt", "adopt"}
  \cup
  {"listQueued", "walkQueued", "recordQueue", "addQueue", "awaitAdd",
   "listDelete", "recordDelete", "requestDelete", "awaitDelete", "relistDelete",
   "walkDelete", "completeDelete", "clearDelete", "clearStarted"}

(* seen is the ledger record the operation last read; turn is the turn it  *)
(* expects to steer, or the turn of the receipt it is about to record;     *)
(* claim is its admission claim, or the queue entry it works on; todo are  *)
(* the deletions a recovery has still to finish.                           *)
Operation ==
  [kind : {"none", "send", "reconcile", "attempted", "acknowledge",
           "queue", "delete", "recover"},
   id : Ids \cup {None}, text : Texts \cup {None}, action : Actions \cup {None},
   seen : Attempt, steered : BOOLEAN, turn : 0..MaxTurns,
   claim : 0..MaxClaims, allowAbsent : BOOLEAN, todo : SUBSET QueueEntry]

(* A call with its arguments, before it has read anything.                 *)
Asked(kind, i, t, a) ==
  [kind |-> kind, id |-> i, text |-> t, action |-> a,
   seen |-> Absent, steered |-> FALSE, turn |-> 0, claim |-> 0,
   allowAbsent |-> FALSE, todo |-> {}]

NoOperation == Asked("none", None, None, None)

Outcome ==
  [kind : {"none", "receipt", "queued", "notSent", "unknown", "failed", "done"},
   id : Ids \cup {None}, turn : 0..MaxTurns]

NoOutcome == [kind |-> "none", id |-> None, turn |-> 0]

Init ==
  /\ LedgerInit
  /\ ServerInit
  /\ pc = [c \in Clients |-> "idle"]
  /\ op = [c \in Clients |-> NoOperation]
  /\ outcome = [c \in Clients |-> NoOutcome]

TypeOK ==
  /\ LedgerTypeOK
  /\ ServerTypeOK
  /\ pc \in [Clients -> Label]
  /\ op \in [Clients -> Operation]
  /\ outcome \in [Clients -> Outcome]

(***************************************************************************)
(* Control of an operation.                                                *)
(***************************************************************************)
Goto(c, label, o) ==
  /\ pc' = [pc EXCEPT ![c] = label]
  /\ op' = [op EXCEPT ![c] = o]
  /\ UNCHANGED outcome

Return(c, kind, turn) ==
  /\ pc' = [pc EXCEPT ![c] = "idle"]
  /\ op' = [op EXCEPT ![c] = NoOperation]
  /\ outcome' = [outcome EXCEPT ![c] =
                   [kind |-> kind, id |-> op[c].id, turn |-> turn]]

(* The arguments of the call, without what it has read since.              *)
Arguments(o) == Asked(o.kind, o.id, o.text, o.action)

(* markSendAccepted is about to record a receipt.                          *)
ToMark(c, turn, steered) ==
  Goto(c, "mark", [Arguments(op[c]) EXCEPT !.turn = turn, !.steered = steered])

(* unwrittenSendOutcome is about to read the ledger again.                 *)
Unwritten(c, allowAbsent) ==
  Goto(c, "unwritten", [Arguments(op[c]) EXCEPT !.allowAbsent = allowAbsent])

(***************************************************************************)
(* The first transaction of Send and ReconcileSend reads the send record;  *)
(* an identity recorded for another request is refused.                    *)
(***************************************************************************)
Begin(c, kind, i, t, a) ==
  /\ pc[c] = "idle"
  /\ IF Reused(i, t, a)
     THEN /\ outcome' = [outcome EXCEPT ![c] =
                           [kind |-> "failed", id |-> i, turn |-> 0]]
          /\ UNCHANGED <<pc, op>>
     ELSE /\ pc' = [pc EXCEPT ![c] = "checkQueue"]
          /\ op' = [op EXCEPT ![c] =
                      [Asked(kind, i, t, a) EXCEPT !.seen = send[i]]]
          /\ outcome' = [outcome EXCEPT ![c] = NoOutcome]
  /\ UNCHANGED <<ledgerVars, serverVars>>

(* A message identity is used for one message.  With Resend, a request for *)
(* it may still be made after its receipt was acknowledged or cleared.     *)
Sendable(i) == Resend \/ retired[i] = 0

BeginSend(c, i, t, a) == Sendable(i) /\ Begin(c, "send", i, t, a)
BeginReconcile(c, i, t, a) == Begin(c, "reconcile", i, t, a)

(***************************************************************************)
(* The second transaction reads the queue attempt.  Without one, the       *)
(* record read before decides (reconcileSend): an accepted one is          *)
(* returned, a submitting one is looked up in history, and only a prepared *)
(* or absent one lets Send continue.                                       *)
(***************************************************************************)
CheckQueue(c) ==
  /\ pc[c] = "checkQueue"
  /\ LET o == op[c] IN
     \/ Return(c, "failed", 0)
     \/ /\ IsQueued(o.id)
        /\ IF queued[o.id] = o.text THEN Goto(c, "listQueued", o)
                                         ELSE Return(c, "failed", 0)
     \/ /\ ~IsQueued(o.id)
        /\ \/ /\ o.seen.state = "accepted"
              /\ Return(c, "receipt", o.seen.turn)
           \/ /\ o.seen.state = "submitting"
              /\ Goto(c, "reconcile", o)
           \/ /\ o.seen.state \in {"prepared", "absent"}
              /\ IF o.kind = "send" THEN Goto(c, "resume", o)
                                    ELSE Return(c, "done", 0)
  /\ UNCHANGED <<ledgerVars, serverVars>>

(***************************************************************************)
(* reconcileSend of a submitting record: the receipt found in history gets *)
(* the record's steered flag; nothing found leaves the outcome unknown.    *)
(* The walk itself may fail, which Send returns as it is and               *)
(* unwrittenSendOutcome (label "recheck") returns as unknown.              *)
(***************************************************************************)
ReconcileSubmitting(c, label, onError) ==
  /\ pc[c] = label
  /\ LET o == op[c] IN
     \/ Return(c, onError, 0)
     \/ Newest(o.id) = {} /\ Return(c, "unknown", 0)
     \/ \E m \in Newest(o.id) :
          IF m.text = o.text
          THEN ToMark(c, m.turn, o.seen.steered)
          ELSE Return(c, onError, 0)
  /\ UNCHANGED <<ledgerVars, serverVars>>

Reconcile(c) == ReconcileSubmitting(c, "reconcile", "failed")
Recheck(c) == ReconcileSubmitting(c, "recheck", "unknown")

(***************************************************************************)
(* resumeThreadWithPolicy and ActiveTurnID: either fails, or the thread is *)
(* steered exactly when a turn is in progress.  A prepared record made for *)
(* the other path is not sent.                                             *)
(***************************************************************************)
Resume(c) ==
  /\ pc[c] = "resume"
  /\ LET o         == op[c]
         attempted == o.seen.state # "absent"
         steered   == active # 0
         chosen    == [Arguments(o) EXCEPT !.turn = active, !.steered = steered]
     IN \/ Unwritten(c, ~attempted)
        \/ /\ attempted
           /\ IF o.seen.steered = steered THEN Goto(c, "admit", chosen)
                                          ELSE Unwritten(c, FALSE)
        \/ ~attempted /\ Goto(c, "record", chosen)
  /\ UNCHANGED <<ledgerVars, serverVars>>

(* Reserve the identity before submission.                                 *)
RecordAttempt(c) ==
  /\ pc[c] = "record"
  /\ LET o == op[c] IN
     \/ /\ RecordSend(o.id, o.text, o.action, o.steered)
        /\ Goto(c, "admit", o) \/ Return(c, "failed", 0)
     \/ /\ Return(c, "failed", 0)
        /\ UNCHANGED ledgerVars
  /\ UNCHANGED serverVars

(***************************************************************************)
(* Write admission inside writeOfferAdmission, under the writer lock.  It  *)
(* is not reached when the connection is gone or the context has expired;  *)
(* it fails when the ledger no longer holds the exact prepared attempt or  *)
(* cannot be written.                                                      *)
(***************************************************************************)
Admit(c) ==
  /\ pc[c] = "admit"
  /\ LET o == op[c] IN
     \/ /\ ClaimSend(o.id, o.text, o.action, o.steered)
        /\ \/ Goto(c, "admitted", [o EXCEPT !.claim = claims'])
           \/ Unwritten(c, FALSE)
     \/ Unwritten(c, FALSE) /\ UNCHANGED ledgerVars
  /\ UNCHANGED serverVars

(***************************************************************************)
(* After admission: the context expired or no writer could be acquired, so *)
(* nothing was handed to the socket; or the request is written, in full    *)
(* or with an error that leaves it uncertain whether the server gets it.   *)
(***************************************************************************)
FrameOf(o) ==
  [id |-> o.id, text |-> o.text, steered |-> o.steered,
   expected |-> o.turn, claim |-> o.claim]

(* Fault: a write that failed part way is taken for one that never began.  *)
WriteErrorRestores(c) ==
  /\ pc[c] = "admitted"
  /\ Goto(c, "restore", op[c])
  /\ wire' \in {wire, wire \cup {FrameOf(op[c])}}
  /\ UNCHANGED <<ledgerVars, active, turns, replies, delivered, visible>>

Write(c) ==
  /\ pc[c] = "admitted"
  /\ LET o == op[c] IN
     \/ Goto(c, "restore", o) /\ UNCHANGED wire
     \/ Goto(c, "await", o) /\ wire' = wire \cup {FrameOf(o)}
     \/ Goto(c, "lookup", o) /\ wire' \in {wire, wire \cup {FrameOf(o)}}
  /\ UNCHANGED <<ledgerVars, active, turns, replies, delivered, visible>>

(***************************************************************************)
(* The reply: acceptance, an explicit refusal, or none (disconnection,     *)
(* deadline, another error, a malformed result).                           *)
(***************************************************************************)
ReadReply(c) ==
  /\ pc[c] = "await"
  /\ LET o == op[c] IN
     \/ \E r \in replies :
          /\ r.claim = o.claim
          /\ IF r.refused THEN Goto(c, "restore", o)
                          ELSE ToMark(c, r.turn, o.steered)
     \/ Goto(c, "lookup", o)
  /\ replies' = {r \in replies : r.claim # op[c].claim}
  /\ UNCHANGED <<ledgerVars, active, turns, wire, delivered, visible>>

(* restoreUnwrittenSendOutcome: give the claim back, then read the ledger. *)
Restore(c) ==
  /\ pc[c] = "restore"
  /\ Unwritten(c, FALSE)
  /\ RestoreSend(op[c].id, op[c].claim) \/ UNCHANGED ledgerVars
  /\ UNCHANGED serverVars

(* waitForSentByClientID, bounded by its own two-second context.           *)
Lookup(c) ==
  /\ pc[c] = "lookup"
  /\ LET o == op[c] IN
     \/ Return(c, "unknown", 0)
     \/ \E m \in Newest(o.id) :
          /\ m.text = o.text
          /\ ToMark(c, m.turn, o.steered)
  /\ UNCHANGED <<ledgerVars, serverVars>>

(* markSendAccepted; the receipt is returned only once it is recorded.     *)
Mark(c) ==
  /\ pc[c] = "mark"
  /\ LET o == op[c] IN
     \/ /\ AcceptSend(o.id, o.steered, o.turn)
        /\ Return(c, "receipt", o.turn) \/ Return(c, "unknown", 0)
     \/ Return(c, "unknown", 0) /\ UNCHANGED ledgerVars
  /\ UNCHANGED serverVars

(* Fault: the queue attempt is not part of the snapshot.                   *)
NotSentIgnoresQueue(i, allowAbsent) ==
  send[i].state = "prepared" \/ (send[i].state = "absent" /\ allowAbsent)

(***************************************************************************)
(* unwrittenSendOutcome: one snapshot of send and queue state decides      *)
(* between not sent, an outcome another process reached, and unknown.      *)
(* Unknown is also what a failed read of the ledger gives.                 *)
(***************************************************************************)
NotSentState(i, allowAbsent) ==
  /\ ~IsQueued(i)
  /\ \/ send[i].state = "prepared"
     \/ send[i].state = "absent" /\ allowAbsent

UnwrittenOutcome(c) ==
  /\ pc[c] = "unwritten"
  /\ LET o == op[c]
         i == o.id
         bound == ~Reused(i, o.text, o.action)
         claimed == bound /\ ~IsQueued(i)
     IN \/ Return(c, "unknown", 0)
        \/ bound /\ NotSentState(i, o.allowAbsent) /\ Return(c, "notSent", 0)
        \/ claimed /\ send[i].state = "accepted" /\ Return(c, "receipt", send[i].turn)
        \/ /\ claimed /\ send[i].state = "submitting"
           /\ Goto(c, "recheck", [Arguments(o) EXCEPT !.seen = send[i]])
  /\ UNCHANGED <<ledgerVars, serverVars>>

(***************************************************************************)
(* PrepareSendWithOptions and DiscardPreparedSendWithOptions are single    *)
(* transactions under the client's thread lock.                            *)
(***************************************************************************)
Prepare(c, i, t, a, s) ==
  /\ pc[c] = "idle"
  /\ Sendable(i)
  /\ RecordSend(i, t, a, s)
  /\ UNCHANGED <<serverVars, clientVars>>

Discard(c, i, t, a) ==
  /\ pc[c] = "idle"
  /\ SameRequest(i, t, a) /\ CanDiscard(i)
  /\ RemoveSend(i)
  /\ UNCHANGED <<serverVars, clientVars>>

(***************************************************************************)
(* AcknowledgeSends of one identity: read the record, walk history outside *)
(* any transaction, then remove the record if history proved it.           *)
(***************************************************************************)
BeginAcknowledge(c, i, t) ==
  /\ pc[c] = "idle"
  /\ Found(i) => send[i].text = t
  /\ pc' = [pc EXCEPT ![c] = "ackWalk"]
  /\ op' = [op EXCEPT ![c] =
                      [Asked("acknowledge", i, t, None) EXCEPT !.seen = send[i]]]
  /\ outcome' = [outcome EXCEPT ![c] = NoOutcome]
  /\ UNCHANGED <<ledgerVars, serverVars>>

AcknowledgeWalk(c) ==
  /\ pc[c] = "ackWalk"
  /\ LET o == op[c] IN
     \/ Return(c, "failed", 0)
     \/ Newest(o.id) = {} /\ Return(c, "done", 0)
     \/ \E m \in Newest(o.id) :
          /\ m.text = o.text
          /\ o.seen.state = "accepted" => o.seen.turn = m.turn
          /\ Goto(c, "ackRemove", [Arguments(o) EXCEPT !.turn = m.turn])
  /\ UNCHANGED <<ledgerVars, serverVars>>

(* Fault: the record is not compared again with what history proved.       *)
AcknowledgeRemoveUnchecked(c) ==
  /\ pc[c] = "ackRemove"
  /\ RemoveSend(op[c].id)
  /\ Return(c, "done", op[c].turn)
  /\ UNCHANGED serverVars

AcknowledgeRemove(c) ==
  /\ pc[c] = "ackRemove"
  /\ LET o == op[c]
         i == o.id
     IN \/ /\ Found(i) /\ send[i].text = o.text
           /\ send[i].state = "accepted" => send[i].turn = o.turn
           /\ RemoveSend(i)
           /\ Return(c, "done", o.turn) \/ Return(c, "failed", 0)
        \/ /\ ~Found(i) /\ Return(c, "done", o.turn)
           /\ UNCHANGED ledgerVars
        \/ Return(c, "failed", 0) /\ UNCHANGED ledgerVars
  /\ UNCHANGED serverVars

(***************************************************************************)
(* SendAttemptedWithOptions: an identity without a record is looked up in  *)
(* history and recorded as accepted when it is found there.                *)
(***************************************************************************)
BeginAttempted(c, i, t, a) ==
  /\ pc[c] = "idle"
  /\ ~Found(i)
  /\ pc' = [pc EXCEPT ![c] = "findReceipt"]
  /\ op' = [op EXCEPT ![c] = Asked("attempted", i, t, a)]
  /\ outcome' = [outcome EXCEPT ![c] = NoOutcome]
  /\ UNCHANGED <<ledgerVars, serverVars>>

FindReceipt(c) ==
  /\ pc[c] = "findReceipt"
  /\ LET o == op[c] IN
     \/ Return(c, "failed", 0)
     \/ Newest(o.id) = {} /\ Return(c, "done", 0)
     \/ \E m \in Newest(o.id) :
          /\ m.text = o.text
          /\ Goto(c, "adopt", [o EXCEPT !.turn = m.turn, !.steered = m.joined])
  /\ UNCHANGED <<ledgerVars, serverVars>>

Adopt(c) ==
  /\ pc[c] = "adopt"
  /\ LET o == op[c] IN
     \/ /\ AdoptReceipt(o.id, o.text, o.action, o.steered, o.turn)
        /\ Return(c, "done", o.turn) \/ Return(c, "failed", 0)
     \/ Return(c, "failed", 0) /\ UNCHANGED ledgerVars
  /\ UNCHANGED serverVars

(***************************************************************************)
(* ClearRetiredThreadAttempts and ClearConversationAttempts take no thread *)
(* lock.  Their caller "has proved that the conversation is retired"; the  *)
(* model does not rely on it, so operations may be under way.              *)
(***************************************************************************)
ClearRetired ==
  /\ ClearThread
  /\ UNCHANGED <<serverVars, clientVars>>

(* The process dies and restarts: its locals are gone, what it wrote stays. *)
Crash(c) ==
  /\ pc[c] # "idle"
  /\ pc' = [pc EXCEPT ![c] = "idle"]
  /\ op' = [op EXCEPT ![c] = NoOperation]
  /\ outcome' = [outcome EXCEPT ![c] = NoOutcome]
  /\ UNCHANGED <<ledgerVars, serverVars>>

Call(c) ==
  \E i \in Ids, t \in Texts :
    \/ BeginAcknowledge(c, i, t)
    \/ \E a \in Actions :
         \/ BeginSend(c, i, t, a)
         \/ BeginReconcile(c, i, t, a)
         \/ BeginAttempted(c, i, t, a)
         \/ Discard(c, i, t, a)
         \/ \E s \in BOOLEAN : Prepare(c, i, t, a, s)

Run(c) ==
  \/ CheckQueue(c) \/ Reconcile(c) \/ Recheck(c) \/ Resume(c)
  \/ RecordAttempt(c) \/ Admit(c) \/ Write(c) \/ ReadReply(c)
  \/ Restore(c) \/ Lookup(c) \/ Mark(c) \/ UnwrittenOutcome(c)
  \/ AcknowledgeWalk(c) \/ AcknowledgeRemove(c)
  \/ FindReceipt(c) \/ Adopt(c)

Native == Serve /\ UNCHANGED <<ledgerVars, clientVars>>

Next ==
  \/ \E c \in Clients : Call(c) \/ Run(c) \/ Crash(c)
  \/ ClearRetired
  \/ Native

Spec == Init /\ [][Next]_vars

(***************************************************************************)
(* Properties.                                                             *)
(***************************************************************************)
(* The ledger answers for the submissions of an identity made since its    *)
(* record was last removed.  The JSON ledger keeps no claim, and once it   *)
(* has removed a record it cannot tell a stale restoration from a current  *)
(* one: it answers for an identity until the first removal only.           *)
Kept(i) == SQLite \/ retired[i] = 0

Live(x) == x.claim > retired[x.id] /\ Kept(x.id)

(* The native server accepts an identity at most once for as long as the   *)
(* ledger keeps its record: across clients, crashes, lost replies, late    *)
(* requests and retries, no two accepted messages of one identity come     *)
(* from claims that were both not yet retired by an acknowledgement or a   *)
(* cleanup, and with the JSON ledger none ever was                         *)
(* (claimSendSubmissionIf, restoreRejectedSendClaim).                      *)
AtMostOnce ==
  \A m, n \in delivered :
    m.id = n.id /\ Live(m) /\ Live(n) => m = n

(* A delivered message is never forgotten: until it is retired its ledger  *)
(* record stays submitting or accepted, with the text that was delivered,  *)
(* so no later Send of the identity can find it prepared or absent.        *)
DeliveryRemembered ==
  \A m \in delivered :
    Live(m) => /\ send[m.id].state \in {"submitting", "accepted"}
               /\ send[m.id].text = m.text

(* A receipt is true: a turn the ledger records as accepted, or an         *)
(* operation returns as receipt, holds a message of that identity in the   *)
(* native server (markSendAccepted, recordSendAttemptWithReceipt).         *)
ReceiptIsDelivered ==
  /\ \A i \in Ids : send[i].state = "accepted" =>
       \E m \in delivered : m.id = i /\ m.turn = send[i].turn
  /\ \A c \in Clients : outcome[c].kind = "receipt" =>
       \E m \in delivered : m.id = outcome[c].id /\ m.turn = outcome[c].turn

(* The server has the identity, or can still get it.                       *)
Sent(i) == \E x \in wire \cup delivered : x.id = i /\ Live(x)

(* MessageNotSentError is never returned for a message the server has or   *)
(* can still get: when a call returns it, no unretired request or accepted *)
(* message of the identity exists, whoever wrote it                        *)
(* (unwrittenSendOutcome).                                                 *)
NotSentIsUnsent ==
  [][\A c \in Clients :
       outcome[c].kind # "notSent" /\ outcome'[c].kind = "notSent"
         => ~Sent(op[c].id)]_vars

(* An attempt goes back from submitting to prepared only when its input    *)
(* was not dispatched, whichever client's refusal or unwritten request     *)
(* gave it back (restoreRejectedSendClaim); with the JSON ledger this is   *)
(* so until a record of the identity was removed.                          *)
RestoredIsUnsent ==
  [][\A i \in Ids :
       Kept(i) /\ send[i].state = "submitting" /\ send'[i].state = "prepared"
         => \A x \in wire \cup delivered :
              x.id = i => x.claim # send[i].claim]_vars

(* An attempt that was submitted leaves the ledger only on proof of        *)
(* delivery, or with the whole thread: the record that an acknowledgement  *)
(* removes, after it walked history outside any transaction, is for a text *)
(* and a turn in which the server accepted the identity                    *)
(* (AcknowledgeSends, DiscardPreparedSendWithOptions).                     *)
RemovedIsDelivered ==
  [][\A i \in Ids :
       send[i].state \in {"submitting", "accepted"} /\ send'[i].state = "absent"
         => \/ \E m \in delivered :
                 /\ m.id = i /\ m.text = send[i].text
                 /\ send[i].state = "accepted" => m.turn = send[i].turn
            \/ ClearRetired]_vars

(* Every operation that begins returns: no lost reply, changed record or   *)
(* failed write leaves a caller holding the thread lock for ever.          *)
OperationsReturn ==
  \A c \in Clients : pc[c] # "idle" ~> pc[c] = "idle"

(***************************************************************************)
(* Who holds a claim.  A client holds the claim it was admitted with until *)
(* it has read the outcome of its request or given the claim back.         *)
(***************************************************************************)
Holds(c) == pc[c] \in {"admitted", "await", "restore", "lookup"}

(* A claim belongs to one submission.  It is drawn once; at most one       *)
(* client holds it, at most one request or accepted message carries it;    *)
(* and none carries it while its holder has still to write, or once a      *)
(* refusal of it was sent or the holder is about to give it back           *)
(* (writeOfferAdmission, restoreUnwrittenSendOutcome).                     *)
ExclusiveClaims ==
  /\ \A i \in Ids : send[i].claim <= claims /\ retired[i] <= claims
  /\ \A x \in wire \cup delivered \cup replies : x.claim <= claims
  /\ \A c \in Clients : Holds(c) => op[c].claim \in 1..claims
  /\ \A c, d \in Clients : Holds(c) /\ Holds(d) /\ op[c].claim = op[d].claim => c = d
  /\ \A f, g \in wire : f.claim = g.claim => f = g
  /\ \A m, n \in delivered : m.claim = n.claim => m = n
  /\ \A f \in wire, m \in delivered : f.claim # m.claim
  /\ \A c \in Clients, x \in wire \cup delivered :
       pc[c] \in {"admitted", "restore"} => x.claim # op[c].claim
  /\ \A r \in replies, x \in wire \cup delivered : r.refused => x.claim # r.claim
  /\ \A c \in Clients, r \in replies : pc[c] = "admitted" => r.claim # op[c].claim

(* The record of an identity answers for every live submission of it: it   *)
(* is accepted, or submitting under exactly that submission's claim; and   *)
(* all such submissions, on the wire, accepted or still to be written,     *)
(* carry one claim (claimSendSubmissionIf, restoreRejectedSendClaim).      *)
Owns(x) ==
  /\ send[x.id].text = x.text
  /\ \/ send[x.id].state = "accepted"
     \/ send[x.id].state = "submitting" /\ send[x.id].claim = x.claim

Agree(x, y) == x.id = y.id /\ Live(x) /\ Live(y) => x.claim = y.claim

Ownership ==
  /\ \A x \in wire \cup delivered : Live(x) => Owns(x)
  /\ \A c \in Clients : Holds(c) /\ Live(op[c]) => Owns(op[c])
  /\ \A x, y \in wire \cup delivered : Agree(x, y)
  /\ \A c \in Clients, x \in wire \cup delivered : Holds(c) => Agree(op[c], x)
  /\ \A c, d \in Clients : Holds(c) /\ Holds(d) => Agree(op[c], op[d])

(***************************************************************************)
(* The permit protocol the ledger implements.                              *)
(***************************************************************************)
PermitOf(i) ==
  CASE send[i].state \in {"absent", "prepared"} -> "open"
    [] send[i].state = "accepted" -> "recorded"
    [] send[i].state = "submitting" ->
         IF \E m \in delivered : m.id = i /\ Live(m) THEN "delivered"
                                                     ELSE "granted"

Stray(i) ==
  \/ \E f \in wire : f.id = i /\ ~Live(f)
  \/ \E c \in Clients : pc[c] = "admitted" /\ op[c].id = i /\ ~Live(op[c])

Permits == INSTANCE SubmissionPermit WITH
  permit <- [i \in Ids |-> PermitOf(i)],
  grants <- claims,
  retired <- retired,
  ever   <- [i \in Ids |-> \E m \in delivered : m.id = i],
  stray  <- [i \in Ids |-> Stray(i)]

(* Send, recovery and retirement, seen through the ledger, follow the      *)
(* permit protocol: each claim is a grant of an open permit, a used permit *)
(* is revoked only when its submission was not delivered and otherwise     *)
(* opens only when its record is removed, and a receipt is recorded only   *)
(* after a delivery.                                                       *)
FollowsPermits == Permits!Spec
=============================================================================
