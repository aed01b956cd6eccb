---------------------------- MODULE QueueDelivery ----------------------------
(***************************************************************************)
(* The native queue of a thread beside direct sends: QueueWithPolicy,      *)
(* DeleteQueueEntryWithCompletion, ReconcileQueueDeletionsWithCompletion   *)
(* and the queue lookups of Send and ReconcileSend (codex/client.go).  A   *)
(* queue attempt is recorded before thread/queue/add and never claimed, so *)
(* the module keeps to the documented rule that writers of one identity    *)
(* hold the application's admission fence: one client queues at a time.    *)
(* Sends, deletions and recoveries of other clients interleave freely.     *)
(***************************************************************************)
EXTENDS Delivery, Sequences

CONSTANTS
  Lag,      \* TRUE when a started queue entry may be missing from history
  Offered   \* the sets of calls, one of which the applications use

ASSUME QueueAssumption ==
  /\ Lag \in BOOLEAN
  /\ None \notin Ids /\ None \notin Clients
  /\ \A calls \in Offered : calls \subseteq {"send", "message", "queue", "delete", "recover"}

VARIABLES
  backlog,       \* the native queue, oldest entry first
  queueWire,     \* queue requests written and not yet served
  queueReplies,  \* their replies, for the client that still waits
  completed,     \* the entries whose completion callback succeeded
  offered        \* the calls the applications make, the same all along

queueVars == <<backlog, queueWire, queueReplies, completed>>
allVars == <<vars, queueVars, offered>>

QueueRequest ==
  [kind : {"add", "delete"}, entry : 1..MaxClaims, id : Ids, text : Texts,
   by : Clients \cup {None}]

QueueReply == [entry : 1..MaxClaims, ok : BOOLEAN, by : Clients]

QueueInit ==
  /\ Init
  /\ backlog = <<>>
  /\ queueWire = {}
  /\ queueReplies = {}
  /\ completed = {}
  /\ offered \in Offered

QueueTypeOK ==
  /\ TypeOK
  /\ backlog \in Seq(QueueEntry) /\ Len(backlog) <= MaxClaims
  /\ queueWire \subseteq QueueRequest
  /\ queueReplies \subseteq QueueReply
  /\ completed \subseteq 1..MaxClaims

(* ListQueue reads the queue in pages of one hundred.  The queues of the   *)
(* model fit one page, so a listing is one look at the queue; the window   *)
(* between two pages of a longer one is not modelled.                      *)
Entries == {backlog[n] : n \in 1..Len(backlog)}
InQueue(e) == \E q \in Entries : q.entry = e

EntryOf(o) == [entry |-> o.claim, id |-> o.id, text |-> o.text]

RequestOf(c, kind, o) ==
  [kind |-> kind, entry |-> o.claim, id |-> o.id, text |-> o.text, by |-> c]

(* The client no longer waits: a request it wrote may still be served.     *)
StopWaiting(c) ==
  /\ queueWire' = {IF q.by = c THEN [q EXCEPT !.by = None] ELSE q : q \in queueWire}
  /\ queueReplies' = {r \in queueReplies : r.by # c}

(***************************************************************************)
(* queuedOrStartedByClientID: list the native queue, then walk history.    *)
(* Send and ReconcileSend reach it when the identity has a queue attempt,  *)
(* Queue when it has one already or its own request failed.                *)
(***************************************************************************)
ListQueued(c) ==
  /\ pc[c] = "listQueued"
  /\ LET o == op[c]
         found == SelectSeq(backlog, LAMBDA q : q.id = o.id)
     IN \/ Return(c, "failed", 0)
        \/ found = <<>> /\ Goto(c, "walkQueued", o)
        \/ /\ found # <<>>
           /\ Return(c, IF Head(found).text = o.text THEN "queued" ELSE "failed", 0)
  /\ UNCHANGED <<ledgerVars, serverVars, queueVars>>

WalkQueued(c) ==
  /\ pc[c] = "walkQueued"
  /\ LET o == op[c] IN
     \/ Return(c, "failed", 0)
     \/ /\ Newest(o.id) = {}
        /\ Return(c, IF o.kind = "queue" THEN "failed" ELSE "unknown", 0)
     \/ \E m \in Newest(o.id) :
          Return(c, IF m.text = o.text THEN "queued" ELSE "failed", 0)
  /\ UNCHANGED <<ledgerVars, serverVars, queueVars>>

(***************************************************************************)
(* QueueWithPolicy.  An identity with a queue attempt is only looked up.   *)
(***************************************************************************)
Fenced(c) == \A d \in Clients \ {c} : op[d].kind # "queue"

BeginQueue(c, i, t) ==
  /\ pc[c] = "idle"
  /\ Fenced(c) /\ Sendable(i)
  /\ IsQueued(i) => queued[i] = t
  /\ pc' = [pc EXCEPT ![c] = IF IsQueued(i) THEN "listQueued" ELSE "recordQueue"]
  /\ op' = [op EXCEPT ![c] = Asked("queue", i, t, None)]
  /\ outcome' = [outcome EXCEPT ![c] = NoOutcome]
  /\ UNCHANGED <<ledgerVars, serverVars, queueVars>>

(* applyLoadedExecutionPolicy may fail first; then the attempt is recorded. *)
RecordQueueAttempt(c) ==
  /\ pc[c] = "recordQueue"
  /\ LET o == op[c] IN
     \/ /\ RecordQueue(o.id, o.text)
        /\ Goto(c, "addQueue", o) \/ Return(c, "failed", 0)
     \/ Return(c, "failed", 0) /\ UNCHANGED ledgerVars
  /\ UNCHANGED <<serverVars, queueVars>>

(* thread/queue/add: not written, written, or written with an error.       *)
AddQueue(c) ==
  /\ pc[c] = "addQueue"
  /\ \/ /\ Goto(c, "listQueued", op[c])
        /\ UNCHANGED <<claims, queueWire>>
     \/ /\ claims < MaxClaims
        /\ claims' = claims + 1
        /\ LET o == [op[c] EXCEPT !.claim = claims'] IN
           \/ /\ Goto(c, "awaitAdd", o)
              /\ queueWire' = queueWire \cup {RequestOf(c, "add", o)}
           \/ /\ Goto(c, "listQueued", op[c])
              /\ queueWire' = queueWire \cup {RequestOf(None, "add", o)}
  /\ UNCHANGED <<send, queued, deletions, retired, serverVars, backlog,
                 queueReplies, completed>>

AwaitAdd(c) ==
  /\ pc[c] = "awaitAdd"
  /\ \/ /\ \E r \in queueReplies : r.by = c
        /\ Return(c, "queued", 0)
     \/ Goto(c, "listQueued", [op[c] EXCEPT !.claim = 0])
  /\ StopWaiting(c)
  /\ UNCHANGED <<ledgerVars, serverVars, backlog, completed>>

(***************************************************************************)
(* DeleteQueueEntryWithCompletion.  The intent, when there is one already, *)
(* names the message; op[c].id is None until the message is known.         *)
(***************************************************************************)
BeginDelete(c, e) ==
  /\ pc[c] = "idle"
  /\ pc' = [pc EXCEPT ![c] = "listDelete"]
  /\ LET intent == {d \in deletions : d.entry = e}
         asked(i, t) == [Asked("delete", i, t, None) EXCEPT !.claim = e]
     IN \/ intent = {} /\ op' = [op EXCEPT ![c] = asked(None, None)]
        \/ \E d \in intent : op' = [op EXCEPT ![c] = asked(d.id, d.text)]
  /\ outcome' = [outcome EXCEPT ![c] = NoOutcome]
  /\ UNCHANGED <<ledgerVars, serverVars, queueVars>>

(* ReconcileQueueDeletionsWithCompletion reads every intent at once.       *)
BeginRecover(c) ==
  /\ pc[c] = "idle"
  /\ deletions # {}
  /\ pc' = [pc EXCEPT ![c] = "listDelete"]
  /\ op' = [op EXCEPT ![c] = [Asked("recover", None, None, None) EXCEPT !.todo = deletions]]
  /\ outcome' = [outcome EXCEPT ![c] = NoOutcome]
  /\ UNCHANGED <<ledgerVars, serverVars, queueVars>>

(* The next recorded deletion whose entry was absent from the listed queue. *)
NextDeletion(c, todo) ==
  \/ todo = {} /\ Return(c, "done", 0)
  \/ \E d \in todo :
       Goto(c, "walkDelete",
            [Asked("recover", d.id, d.text, None) EXCEPT !.claim = d.entry,
                                                         !.todo = todo \ {d}])

ListDelete(c) ==
  /\ pc[c] = "listDelete"
  /\ LET o == op[c]
         target == {q \in Entries : q.entry = o.claim}
         attempted == o.id # None
     IN \/ Return(c, "failed", 0)
        \/ /\ o.kind = "recover"
           /\ NextDeletion(c, {d \in o.todo : ~InQueue(d.entry)})
        \/ /\ o.kind = "delete" /\ target = {} /\ attempted
           /\ Goto(c, "walkDelete", o)
        \/ \E q \in target :
             /\ o.kind = "delete"
             /\ IF attempted
                THEN /\ q = EntryOf(o)
                     /\ Goto(c, "requestDelete", o)
                ELSE Goto(c, "recordDelete", [o EXCEPT !.id = q.id, !.text = q.text])
  /\ UNCHANGED <<ledgerVars, serverVars, queueVars>>

RecordDeletionAttempt(c) ==
  /\ pc[c] = "recordDelete"
  /\ \/ /\ RecordDeletion(EntryOf(op[c]))
        /\ Goto(c, "requestDelete", op[c]) \/ Return(c, "failed", 0)
     \/ Return(c, "failed", 0) /\ UNCHANGED ledgerVars
  /\ UNCHANGED <<serverVars, queueVars>>

(* thread/queue/delete: not written, written, or written with an error.    *)
RequestDelete(c) ==
  /\ pc[c] = "requestDelete"
  /\ LET o == op[c] IN
     \/ /\ Goto(c, "awaitDelete", o)
        /\ queueWire' = queueWire \cup {RequestOf(c, "delete", o)}
     \/ /\ Goto(c, "relistDelete", o)
        /\ queueWire' \in {queueWire, queueWire \cup {RequestOf(None, "delete", o)}}
  /\ UNCHANGED <<ledgerVars, serverVars, backlog, queueReplies, completed>>

(* Fault: the wait for the reply has no deadline.                          *)
AwaitDeleteForever(c) ==
  /\ pc[c] = "awaitDelete"
  /\ \E r \in queueReplies :
       /\ r.by = c
       /\ Goto(c, IF r.ok THEN "completeDelete" ELSE "relistDelete", op[c])
  /\ StopWaiting(c)
  /\ UNCHANGED <<ledgerVars, serverVars, backlog, completed>>

AwaitDelete(c) ==
  /\ pc[c] = "awaitDelete"
  /\ \/ \E r \in queueReplies :
          /\ r.by = c
          /\ Goto(c, IF r.ok THEN "completeDelete" ELSE "relistDelete", op[c])
     \/ Goto(c, "relistDelete", op[c])
  /\ StopWaiting(c)
  /\ UNCHANGED <<ledgerVars, serverVars, backlog, completed>>

RelistDelete(c) ==
  /\ pc[c] = "relistDelete"
  /\ \/ Return(c, "failed", 0)
     \/ ~InQueue(op[c].claim) /\ Goto(c, "walkDelete", op[c])
  /\ UNCHANGED <<ledgerVars, serverVars, queueVars>>

(* Fault: an absent entry is taken for a deleted one.                      *)
WalkDeleteAssumesDeleted(c) ==
  /\ pc[c] = "walkDelete"
  /\ Goto(c, "completeDelete", op[c])
  /\ UNCHANGED <<ledgerVars, serverVars, queueVars>>

(***************************************************************************)
(* finishAbsentQueueDeletion: history tells whether the absent entry was   *)
(* started; if it does not show the message, the deletion is completed.    *)
(***************************************************************************)
WalkDelete(c) ==
  /\ pc[c] = "walkDelete"
  /\ LET o == op[c] IN
     \/ Return(c, "failed", 0)
     \/ Newest(o.id) = {} /\ Goto(c, "completeDelete", o)
     \/ \E m \in Newest(o.id) : m.text = o.text /\ Goto(c, "clearStarted", o)
  /\ UNCHANGED <<ledgerVars, serverVars, queueVars>>

(* Fault: an error of the completion callback is ignored.                  *)
CompleteDeleteIgnoresError(c) ==
  /\ pc[c] = "completeDelete"
  /\ Goto(c, "clearDelete", op[c])
  /\ completed' \in {completed, completed \cup {op[c].claim}}
  /\ UNCHANGED <<ledgerVars, serverVars, backlog, queueWire, queueReplies>>

CompleteDelete(c) ==
  /\ pc[c] = "completeDelete"
  /\ \/ Return(c, "failed", 0) /\ UNCHANGED completed
     \/ Goto(c, "clearDelete", op[c]) /\ completed' = completed \cup {op[c].claim}
  /\ UNCHANGED <<ledgerVars, serverVars, backlog, queueWire, queueReplies>>

(* clearQueueDeletionAndAttempt, then the result: a started entry is an    *)
(* error, a completed one lets a recovery go on.                           *)
ClearDelete(c) ==
  /\ pc[c] \in {"clearDelete", "clearStarted"}
  /\ LET o == op[c] IN
     \/ /\ ClearDeletion(EntryOf(o))
        /\ \/ Return(c, "failed", 0)
           \/ /\ pc[c] = "clearDelete"
              /\ NextDeletion(c, o.todo)
     \/ Return(c, "failed", 0) /\ UNCHANGED ledgerVars
  /\ UNCHANGED <<serverVars, queueVars>>

(***************************************************************************)
(* The native queue.  An idle thread starts its oldest entry; a request    *)
(* can be lost or refused, which the client cannot tell from a late one.   *)
(***************************************************************************)
ReplyTo(q, ok) ==
  queueReplies' = queueReplies \cup
    (IF q.by = None THEN {} ELSE {[entry |-> q.entry, ok |-> ok, by |-> q.by]})

ServeAdd(q) ==
  /\ q.kind = "add"
  /\ backlog' = Append(backlog, [entry |-> q.entry, id |-> q.id, text |-> q.text])
  /\ ReplyTo(q, TRUE)
  /\ queueWire' = queueWire \ {q}

ServeDelete(q) ==
  /\ q.kind = "delete"
  /\ \/ /\ ~InQueue(q.entry)
        /\ ReplyTo(q, FALSE)
        /\ UNCHANGED backlog
     \/ \E n \in 1..Len(backlog) :
          /\ backlog[n].entry = q.entry
          /\ backlog' = SubSeq(backlog, 1, n - 1) \o SubSeq(backlog, n + 1, Len(backlog))
          /\ ReplyTo(q, TRUE)
  /\ queueWire' = queueWire \ {q}

LoseQueueRequest(q) ==
  /\ queueWire' = queueWire \ {q}
  /\ UNCHANGED <<backlog, queueReplies>>

ServeQueue ==
  /\ \E q \in queueWire : ServeAdd(q) \/ ServeDelete(q) \/ LoseQueueRequest(q)
  /\ UNCHANGED <<serverVars, completed>>

StartHead ==
  /\ active = 0 /\ turns < MaxTurns
  /\ backlog # <<>>
  /\ LET e == Head(backlog)
         m == [id |-> e.id, text |-> e.text, turn |-> turns + 1,
               joined |-> FALSE, claim |-> e.entry]
     IN /\ delivered' = delivered \cup {m}
        /\ visible' = IF Lag THEN visible ELSE visible \cup {m}
  /\ backlog' = Tail(backlog)
  /\ active' = turns + 1
  /\ turns' = turns + 1
  /\ UNCHANGED <<wire, replies, queueWire, queueReplies, completed>>

(***************************************************************************)
(* Composition with the direct sends.                                      *)
(***************************************************************************)
QueueCall(c) ==
  \/ /\ "queue" \in offered
     /\ \E i \in Ids, t \in Texts : BeginQueue(c, i, t)
  \/ "delete" \in offered /\ \E e \in 1..claims : BeginDelete(c, e)
  \/ "recover" \in offered /\ BeginRecover(c)

QueueRun(c) ==
  \/ ListQueued(c) \/ WalkQueued(c)
  \/ RecordQueueAttempt(c) \/ AddQueue(c) \/ AwaitAdd(c)
  \/ ListDelete(c) \/ RecordDeletionAttempt(c) \/ RequestDelete(c)
  \/ AwaitDelete(c) \/ RelistDelete(c) \/ WalkDelete(c)
  \/ CompleteDelete(c) \/ ClearDelete(c)

(* "send" offers the calls that can submit, "message" all calls of Delivery. *)
MessageCall(c) ==
  \/ "message" \in offered /\ Call(c)
  \/ /\ "send" \in offered
     /\ \E i \in Ids, t \in Texts, a \in Actions :
          BeginSend(c, i, t, a) \/ \E s \in BOOLEAN : Prepare(c, i, t, a, s)

MessageStep ==
  /\ \/ \E c \in Clients : MessageCall(c) \/ Run(c)
     \/ Native
  /\ UNCHANGED queueVars

QueueCrash(c) ==
  /\ Crash(c)
  /\ StopWaiting(c)
  /\ UNCHANGED <<backlog, completed>>

(* A conversation is retired when no client is queueing into it.           *)
ClearQueueRetired ==
  /\ \A c \in Clients : op[c].kind # "queue"
  /\ ClearRetired
  /\ UNCHANGED queueVars

QueueNext ==
  /\ \/ MessageStep
     \/ \E c \in Clients : QueueCall(c) \/ QueueRun(c) \/ QueueCrash(c)
     \/ ClearQueueRetired
     \/ (ServeQueue \/ StartHead) /\ UNCHANGED <<ledgerVars, clientVars>>
  /\ UNCHANGED offered

QueueSpec == QueueInit /\ [][QueueNext]_allVars

(* The caller's context ends every wait for a reply or for a lock: the     *)
(* conversation handler gives its operations a deadline                    *)
(* (conversation/handler.go), which Client.Request only observes.  So an   *)
(* operation that has begun keeps taking steps.                            *)
QueueFairness ==
  \A c \in Clients :
    WF_allVars(/\ QueueRun(c) \/ (Run(c) /\ UNCHANGED queueVars)
               /\ UNCHANGED offered)

(***************************************************************************)
(* Properties.                                                             *)
(***************************************************************************)
Submitted ==
  {[id |-> x.id, claim |-> x.claim] : x \in wire \cup delivered}
  \cup {[id |-> q.id, claim |-> q.entry] :
          q \in Entries \cup {r \in queueWire : r.kind = "add"}}

(* An identity has at most one submission that the native server has or    *)
(* can still get, whether it was sent or queued, for as long as the ledger *)
(* keeps its record: a send does not bypass a queue attempt, and a queue   *)
(* attempt does not replace a submitting or accepted send                  *)
(* (claimSendSubmissionIf, recordQueueAttempt).  Clearing the record of a  *)
(* started entry ends this, as an acknowledgement does: a Send that looked *)
(* for the record before can submit the message again.                     *)
SubmittedOnce ==
  \A x, y \in Submitted : x.id = y.id /\ Live(x) /\ Live(y) => x = y

(* An identity that is only ever queued is submitted once for all time,    *)
(* whatever was deleted, recovered or cleared since: nothing retired is    *)
(* excused, in particular not the entry whose deletion found it started    *)
(* and cleared its record (QueueWithPolicy, finishAbsentQueueDeletion).    *)
QueuedOnce ==
  offered \cap {"send", "message"} = {} =>
    \A x, y \in Submitted : x.id = y.id => x = y

(* The ledger remembers every submission that is not retired, as a queue   *)
(* attempt or as a submitting or accepted send, even when the client that  *)
(* made it crashed before it read the reply (QueueWithPolicy).             *)
SubmissionRemembered ==
  \A x \in Submitted : Live(x) =>
    IsQueued(x.id) \/ send[x.id].state \in {"submitting", "accepted"}

(* MessageNotSentError is never returned for a message that is queued:     *)
(* unwrittenSendOutcome reads queue and send state in one snapshot.        *)
NotSentIsUnsubmitted ==
  [][\A c \in Clients :
       outcome[c].kind # "notSent" /\ outcome'[c].kind = "notSent"
         => \A x \in Submitted : x.id = op[c].id => ~Live(x)]_allVars

(* A deletion intent is kept "until the application durably records        *)
(* completion" or the message is known to have started, whichever client   *)
(* crashes or recovers in between (DeleteQueueEntryWithCompletion,         *)
(* finishAbsentQueueDeletion).                                             *)
IntentOutlivesCompletion ==
  [][\/ \A d \in deletions \ deletions' :
           d.entry \in completed \/ \E m \in delivered : m.id = d.id
     \/ ClearQueueRetired]_allVars

(* A message whose deletion was completed never runs: the completion       *)
(* callback, which releases what the message needs, is not called for an   *)
(* entry the native server started (finishAbsentQueueDeletion).            *)
CancelledNeverStarts == \A m \in delivered : m.claim \notin completed
=============================================================================
