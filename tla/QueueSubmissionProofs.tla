------------------------ MODULE QueueSubmissionProofs ------------------------
(***************************************************************************)
(* Theorems about QueueDelivery, for every set of clients, identities and  *)
(* texts, every choice of calls and every bound: the ledger answers for    *)
(* every live submission, sent or queued, and there is one of an identity. *)
(* SubmissionInv rests on QueueBase; it gives SubmittedOnce,               *)
(* SubmissionRemembered and NotSentIsUnsubmitted.                          *)
(***************************************************************************)
EXTENDS QueueProofs

(***************************************************************************)
(* One submission of an identity, sent or queued.  With the SQLite ledger  *)
(* and identities that are used for one message, the record of an identity *)
(* answers for a submission as long as it is not queued, and the queue     *)
(* attempt does from then on.                                              *)
(***************************************************************************)
QueueSubmission(e) == [id |-> e.id, text |-> e.text, claim |-> e.entry]

AllSubmissions == Submissions \cup {QueueSubmission(e) : e \in Waiting}

(* The application's fence: one client queues at a time.                   *)
OneQueues == \A c, d \in Clients : op[c].kind = "queue" /\ op[d].kind = "queue" => c = d

Remembered == \A x \in AllSubmissions : Live(x) => IsQueued(x.id) \/ Owns(x)

OneEach == \A x, y \in AllSubmissions : Agree(x, y)

(* An identity is new to the queue until its attempt is submitted.         *)
NewToQueue ==
  \A c \in Clients :
    /\ pc[c] = "recordQueue" => ~IsQueued(op[c].id)
    /\ pc[c] = "addQueue" => /\ IsQueued(op[c].id)
                             /\ \A x \in AllSubmissions : x.id = op[c].id => ~Live(x)
    /\ pc[c] \in {"recordQueue", "addQueue"} => \A e \in Mentioned : e.id # op[c].id

(* An identity that was queued is queued still, or was retired.            *)
Traced == \A e \in Mentioned : IsQueued(e.id) \/ retired[e.id] # 0

(* Every submission has an identity and a claim that was drawn.            *)
LEMMA AllSubmissionsTyped ==
  ASSUME QueueBase
  PROVE  \A x \in AllSubmissions : x.id \in Ids /\ x.claim \in Nat /\ x.claim <= claims
<1>1. \A x \in Submissions : x.id \in Ids /\ x.claim \in Nat /\ x.claim <= claims
  BY SubmissionsTyped DEF QueueBase, QueueTyped
<1>2. ASSUME NEW e \in Waiting
      PROVE  /\ QueueSubmission(e).id \in Ids /\ QueueSubmission(e).claim \in Nat
             /\ QueueSubmission(e).claim <= claims
  <2>1. e \in Mentioned /\ e \in QueueEntry
    BY MentionedTypes DEF Mentioned, QueueBase
  <2> QED
    BY <2>1 DEF QueueSubmission, QueueEntry, QueueBase, EntriesDrawn
<1> QED
  BY <1>1, <1>2 DEF AllSubmissions

(* An identity is retired at the newest claim or not at all, and a queue   *)
(* attempt goes only with it.                                              *)
LEMMA LedgerRetires ==
  ASSUME QueueTyped, [QueueNext]_allVars, NEW j \in Ids
  PROVE  /\ retired'[j] \in {retired[j], claims}
         /\ IsQueued(j) /\ ~IsQueued(j)' => retired'[j] = claims
<1> DEFINE Retires == /\ retired'[j] \in {retired[j], claims}
                      /\ IsQueued(j) /\ ~IsQueued(j)' => retired'[j] = claims
<1>0. LedgerTypeOK /\ TypeInv
  BY DEF QueueTyped, TypeInv, TypeOK
<1>1. ASSUME UNCHANGED <<queued, retired>> PROVE Retires
  BY <1>1 DEF IsQueued
<1>2. ASSUME NEW i \in Ids, RemoveSend(i) PROVE Retires
  BY <1>0, <1>2, Zenon DEF RemoveSend, LedgerTypeOK, IsQueued
<1>3. ASSUME ClearThread PROVE Retires
  BY <1>3 DEF ClearThread
<1>4. ASSUME NEW i \in Ids, NEW t \in Texts, RecordQueue(i, t) PROVE Retires
  BY <1>0, <1>4, LedgerAssumption DEF RecordQueue, LedgerTypeOK, IsQueued
<1>5. ASSUME NEW e \in QueueEntry, ClearDeletion(e) PROVE Retires
  BY <1>0, <1>5 DEF ClearDeletion, LedgerTypeOK, IsQueued, QueueEntry
<1>6. ASSUME QuietStep PROVE Retires
  BY <1>1, <1>2, <1>3, <1>6, Zenon DEF QuietStep, Transaction, RecordSend, AdoptReceipt, AcceptSend, ledgerVars
<1>7. ASSUME ClaimStep PROVE Retires
  <2>1. UNCHANGED <<queued, retired>>
    BY <1>7, Zenon DEF ClaimStep, Admit, Write, ReadReply, Restore, ClaimSend, RestoreSend, ledgerVars
  <2> QED
    BY <1>1, <2>1, Zenon
<1>8. ASSUME [Next]_vars PROVE Retires
  BY <1>0, <1>6, <1>7, <1>8, QuietOrClaim
<1>9. ASSUME NEW c \in Clients, QueueRun(c) PROVE Retires
  <2>1. QueueLedger(c)
    BY <1>0, <1>9, QueueRunState
  <2>2. pc[c] = "recordQueue" => op[c].id \in Ids /\ op[c].text \in Texts
    BY LabelsName DEF QueueLabels
  <2>3. pc[c] \in {"clearDelete", "clearStarted"} => EntryOf(op[c]) \in QueueEntry
    BY LabelsName, WrittenTypes DEF DeleteLabels
  <2> QED
    BY <1>1, <1>4, <1>5, <2>1, <2>2, <2>3, ZenonT(60) DEF QueueLedger, RecordDeletion, ledgerVars
<1>10. ASSUME NEW c \in Clients, QueueCall(c) PROVE Retires
  BY <1>1, <1>10, QueueCallEffect, Zenon DEF CallEffect, ledgerVars
<1>11. ASSUME NativeQueue PROVE Retires
  BY <1>1, <1>11, Zenon DEF NativeQueue, ledgerVars
<1> QED
  BY <1>8, <1>9, <1>10, <1>11, QueueSteps, MessagesAreDelivery, CrashIsDelivery, ZenonT(60)

(* A submission that is live after a step was live before it, and its      *)
(* identity, if queued, stays so.                                          *)
LEMMA LiveBefore ==
  ASSUME QueueBase, [QueueNext]_allVars, NEW x \in AllSubmissions, Live(x)'
  PROVE  /\ Live(x) /\ x.id \in Ids
         /\ IsQueued(x.id) => IsQueued(x.id)'
<1>1. x.id \in Ids /\ x.claim \in Nat /\ x.claim <= claims
  BY AllSubmissionsTyped
<1>2. claims \in Nat
  BY UsedDrawn DEF QueueBase, QueueTyped
<1>3. x.claim > retired'[x.id] /\ retired'[x.id] # claims
  BY <1>1, <1>2 DEF Live, Kept
<1> QED
  BY <1>1, <1>3, LedgerRetires DEF Live, Kept, QueueBase

(* A queue operation comes to its attempt in one call, and to its request  *)
(* by recording the attempt.                                               *)
LEMMA QueueRunLabels ==
  ASSUME QueueTyped, NEW c \in Clients, QueueRun(c)
  PROVE  /\ pc'[c] # "recordQueue"
         /\ pc'[c] = "addQueue" => /\ pc[c] = "recordQueue" /\ op'[c] = op[c]
                                   /\ RecordQueue(op[c].id, op[c].text)
<1>0. TypeInv
  BY DEF QueueTyped
<1> DEFINE Others == Label \ {"recordQueue", "addQueue"}
           Away == pc'[c] \notin {"recordQueue", "addQueue"}
<1>1. \A label \in Others : \A o : Goto(c, label, o) => Away
  BY <1>0, GotoMoves
<1>2. \A kind, turn : Return(c, kind, turn) => Away
  BY <1>0, ReturnMoves
<1>3. {"walkQueued", "listQueued", "awaitAdd", "walkDelete", "requestDelete", "recordDelete",
       "awaitDelete", "relistDelete", "completeDelete", "clearDelete", "clearStarted"} \subseteq Others
  BY DEF Label
<1>a. Away => pc'[c] # "recordQueue" /\ pc'[c] # "addQueue"
  OBVIOUS
<1> HIDE DEF Others, Away
<1>4. ASSUME NEW todo, NextDeletion(c, todo)
      PROVE  Away
  BY <1>1, <1>2, <1>3, <1>4, Zenon DEF NextDeletion
<1>5. CASE ListQueued(c) \/ WalkQueued(c) \/ AddQueue(c) \/ AwaitAdd(c)
  BY <1>1, <1>2, <1>3, <1>5, <1>a, Zenon DEF ListQueued, WalkQueued, AddQueue, AwaitAdd
<1>6. CASE ListDelete(c) \/ RecordDeletionAttempt(c) \/ RequestDelete(c) \/ ClearDelete(c)
  BY <1>1, <1>2, <1>3, <1>4, <1>6, <1>a, Zenon DEF ListDelete, RecordDeletionAttempt,
     RequestDelete, ClearDelete
<1>7. CASE AwaitDelete(c) \/ RelistDelete(c) \/ WalkDelete(c) \/ CompleteDelete(c)
  BY <1>1, <1>2, <1>3, <1>7, <1>a, Zenon DEF AwaitDelete, RelistDelete, WalkDelete, CompleteDelete
<1>8. CASE RecordQueueAttempt(c)
  <2>1. \/ Away
        \/ Goto(c, "addQueue", op[c]) /\ RecordQueue(op[c].id, op[c].text) /\ pc[c] = "recordQueue"
    BY <1>2, <1>8, Zenon DEF RecordQueueAttempt
  <2> QED
    BY <1>0, <1>a, <2>1, GotoMoves
<1> QED
  BY <1>5, <1>6, <1>7, <1>8, ZenonT(60) DEF QueueRun

(* A step of a queue operation submits no direct send.                     *)
LEMMA QuietClients ==
  ASSUME NEW c \in Clients, Only(c), pc'[c] \notin Holding, serverVars' = serverVars
  PROVE  Submissions' \subseteq Submissions
<1>1. \A d \in Clients : Holds(d)' => Holds(d) /\ op'[d] = op[d]
  BY DEF Only, Holds, Holding
<1>2. wire' = wire /\ delivered' = delivered
  BY DEF serverVars
<1> QED
  BY <1>1, <1>2, Zenon DEF Submissions, Submission

(* Neither do its calls.                                                   *)
LEMMA QueueRunSubmissions ==
  ASSUME QueueTyped, NEW c \in Clients, QueueRun(c) \/ QueueCall(c)
  PROVE  Submissions' \subseteq Submissions
<1>1. CASE QueueRun(c)
  BY <1>1, QueueRunEffect, QueueRunState, QuietClients, ZenonT(60) DEF ClientEffect, QueueTyped
<1>2. CASE QueueCall(c)
  BY <1>2, QueueCallEffect, QuietClients DEF CallEffect
<1> QED
  BY <1>1, <1>2

(* The native queue submits the entry it starts.                           *)
LEMMA NativeSubmissions ==
  ASSUME QueueBase, NativeQueue
  PROVE  AllSubmissions' \subseteq AllSubmissions
<1>1. /\ ServedEntries /\ UNCHANGED <<pc, op, wire>> /\ Waiting' \subseteq Waiting
  BY NativeServes DEF QueueBase
<1>2. \A x \in delivered' : \/ x \in delivered
                            \/ \E e \in Waiting : Submission(x) = QueueSubmission(e)
  <2>1. ASSUME NEW e \in Entries, NEW m, m.claim = e.entry /\ m.id = e.id /\ m.text = e.text
        PROVE  e \in Waiting /\ Submission(m) = QueueSubmission(e)
    BY <2>1 DEF Waiting, Submission, QueueSubmission
  <2> QED
    BY <1>1, <2>1, Zenon DEF ServedEntries
<1>3. ASSUME NEW x \in wire' \cup delivered'
      PROVE  Submission(x) \in AllSubmissions
  BY <1>1, <1>2 DEF AllSubmissions, Submissions
<1>4. ASSUME NEW c \in Clients, Holds(c)'
      PROVE  Submission(op'[c]) \in AllSubmissions
  <2>1. Holds(c) /\ op'[c] = op[c]
    BY <1>1, <1>4 DEF Holds
  <2> QED
    BY <2>1 DEF AllSubmissions, Submissions
<1>5. ASSUME NEW x \in Submissions'
      PROVE  x \in AllSubmissions
  <2>1. \/ \E y \in wire' \cup delivered' : x = Submission(y)
        \/ \E c \in Clients : Holds(c)' /\ x = Submission(op'[c])
    BY DEF Submissions, Submission
  <2> QED
    BY <1>3, <1>4, <2>1
<1>6. ASSUME NEW e \in Waiting'
      PROVE  QueueSubmission(e) \in AllSubmissions
  BY <1>1 DEF AllSubmissions
<1> QED
  BY <1>5, <1>6, Zenon DEF AllSubmissions, QueueSubmission

(* A step makes at most one submission: a claim of a prepared and unqueued *)
(* record, or the addition of a queue entry.                               *)
Admits(new) ==
  /\ new.id \in Ids
  /\ send[new.id].state = "prepared" /\ ~IsQueued(new.id) /\ Owns(new)'
  /\ AllSubmissions' \subseteq AllSubmissions \cup {new}

(* Every step makes at most this one submission.                           *)
LEMMA NewSubmissions ==
  ASSUME QueueBase, [QueueNext]_allVars
  PROVE  \/ AllSubmissions' \subseteq AllSubmissions
         \/ /\ MessageAlone \/ \E c \in Clients : QueueCrash(c)
            /\ \E new : Admits(new)
         \/ \E c \in Clients : \E e :
              /\ QueueRun(c) /\ AddsEntry(c, e)
              /\ AllSubmissions' \subseteq AllSubmissions \cup {QueueSubmission(e)}
<1>0. QueueTyped /\ TypeInv /\ ExclusiveClaims
  BY DEF QueueBase, QueueTyped
<1>1. ASSUME NEW e, Waiting' = Waiting \cup {e}, Submissions' \subseteq Submissions
      PROVE  AllSubmissions' \subseteq AllSubmissions \cup {QueueSubmission(e)}
  BY <1>1 DEF AllSubmissions, QueueSubmission
<1>2. ASSUME Waiting' \subseteq Waiting, Submissions' \subseteq Submissions
      PROVE  AllSubmissions' \subseteq AllSubmissions
  BY <1>2 DEF AllSubmissions, QueueSubmission
<1>3. ASSUME MessageAlone \/ \E c \in Clients : QueueCrash(c)
      PROVE  AllSubmissions' \subseteq AllSubmissions \/ \E new : Admits(new)
  <2>1. [Next]_vars /\ Waiting' \subseteq Waiting
    BY <1>3, MessagesAreDelivery, CrashIsDelivery, OthersWaiting
  <2>2. QuietStep \/ ClaimStep
    BY <1>0, <2>1, QuietOrClaim
  <2>3. ASSUME NEW c \in Clients, Admit(c)
        PROVE  Submissions' \subseteq Submissions \/ \E new : Admits(new)
    <3>1. CASE Submissions' \subseteq Submissions
      BY <3>1
    <3>2. ASSUME NEW new, new.id \in Ids, send[new.id].state = "prepared", ~IsQueued(new.id),
                 Owns(new)', Submissions' \subseteq Submissions \cup {new}
          PROVE  Admits(new)
      <4>1. AllSubmissions' \subseteq AllSubmissions \cup {new}
        BY <2>1, <3>2, Zenon DEF AllSubmissions, QueueSubmission
      <4> QED
        BY <3>2, <4>1, Zenon DEF Admits
    <3> QED
      BY <1>0, <2>3, <3>1, <3>2, AdmitSubmissions, Zenon
  <2>4. Submissions' \subseteq Submissions \/ \E new : Admits(new)
    BY <1>0, <2>2, <2>3, QuietSubmissions, WriteSubmissions, ReadReplySubmissions,
       RestoreSubmissions, ServeSubmissions, Zenon DEF ClaimStep
  <2> QED
    BY <1>2, <2>1, <2>4
<1>4. ASSUME NEW c \in Clients, QueueRun(c)
      PROVE  \/ AllSubmissions' \subseteq AllSubmissions
             \/ \E e : /\ AddsEntry(c, e)
                       /\ AllSubmissions' \subseteq AllSubmissions \cup {QueueSubmission(e)}
  <2>1. Submissions' \subseteq Submissions
    BY <1>0, <1>4, QueueRunSubmissions
  <2>2. ASSUME NEW e, AddsEntry(c, e)
        PROVE  AllSubmissions' \subseteq AllSubmissions \cup {QueueSubmission(e)}
    BY <1>1, <2>1, <2>2 DEF AddsEntry
  <2> QED
    BY <1>0, <1>2, <1>4, <2>1, <2>2, RunWaiting
<1>5. ASSUME NEW c \in Clients, QueueCall(c)
      PROVE  AllSubmissions' \subseteq AllSubmissions
  BY <1>0, <1>2, <1>5, QueueRunSubmissions, OthersWaiting
<1> QED
  BY <1>3, <1>4, <1>5, NativeSubmissions, QueueSteps

(* The record of a submission that is not queued stays while the           *)
(* submission is live: only its own claim could be given back.             *)
LEMMA OwnerKept ==
  ASSUME SQLite = TRUE, QueueBase, [QueueNext]_allVars,
         NEW x \in AllSubmissions, x \in AllSubmissions', Live(x)', ~IsQueued(x.id), Owns(x)
  PROVE  Owns(x)'
<1>0. /\ QueueTyped /\ TypeInv /\ ExclusiveClaims /\ LedgerTypeOK /\ claims \in Nat
      /\ x.id \in Ids /\ x.claim \in Nat /\ x.claim <= claims
      /\ \A i \in Ids : retired[i] <= claims
  BY AllSubmissionsTyped, UsedDrawn, ZenonT(60) DEF QueueBase, QueueTyped, TypeInv, TypeOK, ExclusiveClaims
<1>1. ASSUME send'[x.id] = send[x.id]
      PROVE  Owns(x)'
  BY <1>1, Zenon DEF Owns
<1>2. CASE UNCHANGED ledgerVars
  BY <1>1, <1>2, Zenon DEF ledgerVars
<1>3. CASE QuietStep
  <2>1. Transaction /\ x.claim > retired'[x.id]
    BY <1>3, Zenon DEF QuietStep, Live, Kept
  <2> QED
    BY <1>0, <2>1, TransactionOwner DEF Owns
<1>4. ASSUME NEW c \in Clients, Admit(c)
      PROVE  Owns(x)'
  <2>1. ASSUME NEW new, send[new.id].state = "prepared",
               \A j \in Ids \ {new.id} : send'[j] = send[j]
        PROVE  Owns(x)'
    BY <1>0, <1>1, <2>1, ZenonT(60) DEF Owns
  <2> QED
    BY <1>0, <1>2, <1>4, <2>1, AdmitSubmissions, ZenonT(60)
<1>5. ASSUME NEW c \in Clients, Restore(c), Waiting' \subseteq Waiting
      PROVE  Owns(x)'
  <2>1. /\ op[c].id \in Ids /\ Holds(c)
        /\ \A y \in Submissions' : y.claim # op[c].claim
        /\ RestoreSend(op[c].id, op[c].claim) \/ UNCHANGED ledgerVars
    BY <1>0, <1>5, RestoreSubmissions, Zenon
  <2>2. x.claim # op[c].claim
    <3>1. CASE x \in Submissions'
      BY <2>1, <3>1, Zenon
    <3>2. ASSUME NEW e \in Waiting, x = QueueSubmission(e)
          PROVE  x.claim # op[c].claim
      BY <2>1, <3>2, Zenon DEF QueueSubmission, QueueBase, EntriesExclusive, Mentioned, Used
    <3> QED
      BY <1>5, <3>1, <3>2, ZenonT(60) DEF AllSubmissions, QueueSubmission
  <2>3. CASE RestoreSend(op[c].id, op[c].claim)
    <3>1. send' = [send EXCEPT ![op[c].id].state = "prepared", ![op[c].id].claim = 0]
          /\ send[op[c].id].state = "submitting" /\ send[op[c].id].claim = op[c].claim
      BY <2>3, Zenon DEF RestoreSend, CanRestore
    <3>2. x.id # op[c].id
      BY <2>2, <3>1, ZenonT(60) DEF Owns
    <3> QED
      BY <1>0, <1>1, <2>1, <3>1, <3>2, Zenon DEF LedgerTypeOK
  <2> QED
    BY <1>2, <2>1, <2>3, Zenon
<1>6. ASSUME [Next]_vars, Waiting' \subseteq Waiting
      PROVE  Owns(x)'
  <2>1. QuietStep \/ ClaimStep
    BY <1>0, <1>6, QuietOrClaim
  <2> QED
    BY <1>0, <1>2, <1>3, <1>4, <1>5, <1>6, <2>1, WriteSubmissions, ReadReplySubmissions, ZenonT(60)
       DEF ClaimStep
<1>7. ASSUME NEW c \in Clients, QueueRun(c)
      PROVE  Owns(x)'
  <2>1. QueueLedger(c)
    BY <1>0, <1>7, QueueRunState, Zenon
  <2>2. CASE UNCHANGED send
    BY <1>1, <2>2, Zenon
  <2>3. CASE ClearDeletion(EntryOf(op[c]))
    BY <1>0, <1>1, <2>3, ZenonT(60) DEF ClearDeletion, PreparedForQueue, LedgerTypeOK
  <2> QED
    BY <1>2, <2>1, <2>2, <2>3, Zenon DEF QueueLedger, RecordQueue, RecordDeletion
<1>8. ASSUME NEW c \in Clients, QueueCall(c)
      PROVE  Owns(x)'
  BY <1>0, <1>2, <1>8, QueueCallEffect, ZenonT(60) DEF CallEffect
<1>9. CASE NativeQueue
  BY <1>2, <1>9 DEF NativeQueue
<1> QED
  BY <1>6, <1>7, <1>8, <1>9, QueueSteps, MessagesAreDelivery, CrashIsDelivery, OthersWaiting

(* The ledger goes on answering for every submission.                      *)
LEMMA RememberedStep ==
  ASSUME SQLite = TRUE, QueueBase, Remembered, NewToQueue, [QueueNext]_allVars
  PROVE  Remembered'
<1> SUFFICES ASSUME NEW x \in AllSubmissions', Live(x)'
             PROVE  IsQueued(x.id)' \/ Owns(x)'
  BY DEF Remembered
<1>1. CASE x \in AllSubmissions
  <2>1. /\ IsQueued(x.id) \/ Owns(x)
        /\ IsQueued(x.id) => IsQueued(x.id)'
    BY <1>1, LiveBefore DEF Remembered
  <2> QED
    BY <1>1, <2>1, OwnerKept
<1>2. ASSUME NEW new, Admits(new), x = new
      PROVE  Owns(x)'
  BY <1>2, Zenon DEF Admits
<1>3. ASSUME NEW c \in Clients, NEW e, AddsEntry(c, e), x = QueueSubmission(e)
      PROVE  IsQueued(x.id)'
  <2>1. x.id = op[c].id /\ IsQueued(op[c].id) /\ queued' = queued
    BY <1>3, Zenon DEF AddsEntry, NewToQueue, QueueSubmission
  <2> QED
    BY <2>1, Zenon DEF IsQueued
<1> QED
  BY <1>1, <1>2, <1>3, NewSubmissions, ZenonT(60) DEF Admits

(* And no identity is submitted again.                                     *)
LEMMA OneEachStep ==
  ASSUME QueueBase, Remembered, OneEach, NewToQueue, [QueueNext]_allVars
  PROVE  OneEach'
<1>1. ASSUME NEW x \in AllSubmissions, NEW y \in AllSubmissions, x.id = y.id, Live(x)', Live(y)'
      PROVE  x.claim = y.claim
  BY <1>1, LiveBefore DEF OneEach, Agree
<1>2. ASSUME NEW new, NEW y \in AllSubmissions, y.id = new.id, Live(y)',
             \/ Admits(new)
             \/ \E c \in Clients : \E e : AddsEntry(c, e) /\ new = QueueSubmission(e)
      PROVE  FALSE
  <2>1. Live(y)
    BY <1>2, LiveBefore, Zenon
  <2>2. CASE Admits(new)
    BY <1>2, <2>1, <2>2, Zenon DEF Remembered, Admits, Owns
  <2>3. ASSUME NEW c \in Clients, NEW e, AddsEntry(c, e), new = QueueSubmission(e)
        PROVE  FALSE
    BY <1>2, <2>1, <2>3, ZenonT(60) DEF NewToQueue, AddsEntry, QueueSubmission
  <2> QED
    BY <1>2, <2>2, <2>3, ZenonT(60)
<1>3. ASSUME NEW new, AllSubmissions' \subseteq AllSubmissions \cup {new},
             \/ Admits(new)
             \/ \E c \in Clients : \E e : AddsEntry(c, e) /\ new = QueueSubmission(e)
      PROVE  OneEach'
  BY <1>1, <1>2, <1>3, Zenon DEF OneEach, Agree
<1>4. CASE AllSubmissions' \subseteq AllSubmissions
  BY <1>1, <1>4 DEF OneEach, Agree
<1> QED
  BY <1>3, <1>4, NewSubmissions, ZenonT(60) DEF Admits

(* The fence of the application keeps its queueing to one client.          *)
LEMMA OneQueuesStep ==
  ASSUME QueueTyped, OneQueues, [QueueNext]_allVars
  PROVE  OneQueues'
<1>1. CASE [Next]_vars
  BY <1>1, MessageSteps, Zenon DEF MessageEffect, Messaging, OneQueues
<1>2. ASSUME NEW c \in Clients, QueueCall(c)
      PROVE  OneQueues'
  BY <1>2, QueueCallEffect, ZenonT(60) DEF CallEffect, Only, OneQueues
<1>3. ASSUME NEW c \in Clients, QueueRun(c)
      PROVE  OneQueues'
  BY <1>3, QueueRunEffect, ZenonT(60) DEF ClientEffect, Only, OneQueues
<1>4. CASE NativeQueue
  BY <1>4, Zenon DEF NativeQueue, clientVars, OneQueues
<1> QED
  BY <1>1, <1>2, <1>3, <1>4, QueueSteps, MessagesAreDelivery, CrashIsDelivery, ZenonT(60)

(* The entries that are mentioned, in every step.                          *)
LEMMA MentionedStep ==
  ASSUME QueueBase, [QueueNext]_allVars
  PROVE  \/ Mentioned' \subseteq Mentioned
         \/ \E c \in Clients : \E e :
              QueueRun(c) /\ AddsEntry(c, e) /\ Mentioned' \subseteq Mentioned \cup {e}
<1>1. Intended' \subseteq Mentioned
  BY IntendedStep DEF QueueBase, Mentioned, Waiting
<1>2. \/ Waiting' \subseteq Waiting
      \/ \E c \in Clients : \E e : QueueRun(c) /\ AddsEntry(c, e)
  BY QueueSteps, RunWaiting, OthersWaiting, Zenon DEF QueueBase
<1> QED
  BY <1>1, <1>2, Zenon DEF Mentioned, AddsEntry

(* An identity that was queued is remembered as queued or retired.         *)
LEMMA TracedStep ==
  ASSUME QueueBase, NewToQueue, Traced, [QueueNext]_allVars
  PROVE  Traced'
<1>0. QueueTyped /\ claims \in Nat
  BY UsedDrawn DEF QueueBase, QueueTyped
<1>1. ASSUME NEW e \in Mentioned
      PROVE  IsQueued(e.id)' \/ retired'[e.id] # 0
  <2>1. e \in QueueEntry /\ e.entry <= claims
    BY <1>0, MentionedTypes DEF QueueBase, EntriesDrawn
  <2>2. e.id \in Ids /\ claims # 0
    BY <1>0, <2>1 DEF QueueEntry
  <2>3. /\ retired'[e.id] \in {retired[e.id], claims}
        /\ IsQueued(e.id) /\ ~IsQueued(e.id)' => retired'[e.id] = claims
    BY <1>0, <2>2, LedgerRetires, Zenon
  <2> QED
    BY <2>2, <2>3 DEF Traced
<1>2. ASSUME NEW c \in Clients, NEW e, AddsEntry(c, e)
      PROVE  IsQueued(e.id)'
  BY <1>2, Zenon DEF AddsEntry, NewToQueue, IsQueued
<1> QED
  BY <1>1, <1>2, MentionedStep, Zenon DEF Traced

(* The queue attempt of an identity that is being queued stays: its thread *)
(* is not retired meanwhile, and no deletion is about it.                  *)
LEMMA AttemptKept ==
  ASSUME QueueBase, NewToQueue, [QueueNext]_allVars, NEW c \in Clients, pc[c] = "addQueue",
         NEW i, i = op[c].id, IsQueued(i)
  PROVE  IsQueued(i)'
<1>0. /\ QueueTyped /\ TypeInv /\ LedgerTypeOK
      /\ i \in Ids /\ op[c].kind = "queue"
  BY LabelsName, Zenon DEF QueueBase, QueueTyped, TypeInv, TypeOK, QueueLabels, KindOf
<1>1. CASE queued' = queued
  BY <1>1, Zenon DEF IsQueued
<1>2. CASE MessageAlone
  BY <1>0, <1>1, <1>2, MessagesKeepQueue, ZenonT(60) DEF MessageAlone, ClearQueueRetired, vars, ledgerVars
<1>3. ASSUME NEW d \in Clients, QueueRun(d)
      PROVE  IsQueued(i)'
  <2>1. QueueLedger(d)
    BY <1>0, <1>3, QueueRunState, Zenon
  <2>2. CASE pc[d] = "recordQueue" /\ RecordQueue(op[d].id, op[d].text)
    <3>1. op[d].id \in Ids /\ op[d].text \in Texts
      BY <1>0, <2>2, LabelsName, ZenonT(60) DEF QueueLabels
    <3> QED
      BY <1>0, <2>2, <3>1, LedgerAssumption, ZenonT(60) DEF RecordQueue, IsQueued, LedgerTypeOK
  <2>3. CASE pc[d] \in {"clearDelete", "clearStarted"} /\ ClearDeletion(EntryOf(op[d]))
    <3>1. Targets(d)
      BY <1>0, <2>3, LabelsName, ZenonT(60) DEF DeleteLabels
    <3>2. EntryOf(op[d]) \in Mentioned
      BY <3>1 DEF Mentioned, Intended, Work
    <3>3. EntryOf(op[d]).id # i
      BY <3>2, Zenon DEF NewToQueue
    <3> QED
      BY <1>0, <2>3, <3>3, ZenonT(60) DEF ClearDeletion, IsQueued, LedgerTypeOK
  <2> QED
    BY <1>1, <2>1, <2>2, <2>3, ZenonT(60) DEF QueueLedger, RecordDeletion, ledgerVars
<1>4. ASSUME NEW d \in Clients, QueueCall(d)
      PROVE  IsQueued(i)'
  BY <1>0, <1>1, <1>4, QueueCallEffect, ZenonT(60) DEF CallEffect, ledgerVars
<1>5. ASSUME NEW d \in Clients, QueueCrash(d)
      PROVE  IsQueued(i)'
  BY <1>1, <1>5, Zenon DEF QueueCrash, Crash, ledgerVars
<1>6. CASE NativeQueue
  BY <1>1, <1>6, Zenon DEF NativeQueue, ledgerVars
<1> QED
  BY <1>2, <1>3, <1>4, <1>5, <1>6, QueueSteps, Zenon

(* No other client queues the identity before the one that is about to.    *)
LEMMA AttemptNew ==
  ASSUME QueueBase, OneQueues, [QueueNext]_allVars, NEW c \in Clients,
         pc[c] = "recordQueue", pc'[c] = "recordQueue", NEW i, i = op[c].id, ~IsQueued(i)
  PROVE  ~IsQueued(i)'
<1>0. /\ QueueTyped /\ TypeInv /\ LedgerTypeOK
      /\ i \in Ids /\ op[c].kind = "queue"
  BY LabelsName, Zenon DEF QueueBase, QueueTyped, TypeInv, TypeOK, QueueLabels, KindOf
<1>1. CASE queued' = queued
  BY <1>1, Zenon DEF IsQueued
<1>2. CASE MessageAlone
  BY <1>0, <1>1, <1>2, MessagesKeepQueue, Zenon DEF MessageAlone, ClearQueueRetired, vars, ledgerVars
<1>3. ASSUME NEW d \in Clients, QueueRun(d)
      PROVE  ~IsQueued(i)'
  <2>1. QueueLedger(d)
    BY <1>0, <1>3, QueueRunState, Zenon
  <2>2. pc[d] # "recordQueue"
    <3>1. pc[d] = "recordQueue" => d = c
      BY <1>0, LabelsName, Zenon DEF OneQueues, KindOf, QueueLabels
    <3> QED
      BY <1>0, <1>3, <3>1, QueueRunLabels, Zenon
  <2>3. CASE ClearDeletion(EntryOf(op[d]))
    BY <1>0, <2>3, ZenonT(60) DEF ClearDeletion, IsQueued, LedgerTypeOK
  <2> QED
    BY <1>1, <2>1, <2>2, <2>3, ZenonT(60) DEF QueueLedger, RecordDeletion, ledgerVars
<1>4. ASSUME NEW d \in Clients, QueueCall(d)
      PROVE  ~IsQueued(i)'
  BY <1>0, <1>1, <1>4, QueueCallEffect, ZenonT(60) DEF CallEffect, ledgerVars
<1>5. ASSUME NEW d \in Clients, QueueCrash(d)
      PROVE  ~IsQueued(i)'
  BY <1>1, <1>5, Zenon DEF QueueCrash, Crash, ledgerVars
<1>6. CASE NativeQueue
  BY <1>1, <1>6, Zenon DEF NativeQueue, ledgerVars
<1> QED
  BY <1>2, <1>3, <1>4, <1>5, <1>6, QueueSteps, Zenon

(* A client comes to queue an identity when it calls, and then no entry of *)
(* it was ever made: the identity is used for one message.                 *)
LEMMA QueueCallNew ==
  ASSUME Resend = FALSE, QueueTyped, Traced, NEW c \in Clients, QueueCall(c),
         pc'[c] \in {"recordQueue", "addQueue"}, NEW i, i = op'[c].id
  PROVE  /\ pc'[c] = "recordQueue" /\ ~IsQueued(i)'
         /\ \A e \in Mentioned : e.id # i
<1>0. pc \in [Clients -> Label] /\ op \in [Clients -> Operation]
  BY Zenon DEF QueueTyped, TypeInv, TypeOK
<1>1. ASSUME (\E e \in 1..claims : BeginDelete(c, e)) \/ BeginRecover(c)
      PROVE  FALSE
  BY <1>0, <1>1 DEF BeginDelete, BeginRecover
<1>2. PICK j \in Ids, t \in Texts : BeginQueue(c, j, t)
  BY <1>1, Zenon DEF QueueCall
<1>3. op'[c] = Asked("queue", j, t, None)
  BY <1>0, <1>2, Zenon DEF BeginQueue
<1>4. op'[c].id = j
  BY <1>3 DEF Asked
<1>5. pc'[c] = "recordQueue" /\ ~IsQueued(j)
  BY <1>0, <1>2, Zenon DEF BeginQueue
<1>6. queued' = queued /\ retired[j] = 0
  BY <1>2, Zenon DEF BeginQueue, Sendable, ledgerVars
<1> QED
  BY <1>4, <1>5, <1>6, Zenon DEF IsQueued, Traced

(* Queueing stays new to its identity.                                     *)
LEMMA NewToQueueStep ==
  ASSUME Resend = FALSE, QueueBase, OneQueues, Remembered, NewToQueue, Traced,
         [QueueNext]_allVars
  PROVE  NewToQueue'
<1>0. QueueTyped /\ TypeInv /\ LedgerTypeOK
  BY Zenon DEF QueueBase, QueueTyped, TypeInv, TypeOK
<1> SUFFICES ASSUME NEW c \in Clients, NEW i, i = op'[c].id,
                    pc'[c] \in {"recordQueue", "addQueue"}
             PROVE  /\ pc'[c] = "recordQueue" => ~IsQueued(i)'
                    /\ pc'[c] = "addQueue" => /\ IsQueued(i)'
                                              /\ \A x \in AllSubmissions' : x.id = i => ~Live(x)'
                    /\ \A e \in Mentioned' : e.id # i
  BY Zenon DEF NewToQueue
<1>1. ASSUME \A e \in Mentioned : e.id # i,
             \A d \in Clients : \A e : AddsEntry(d, e) => op[d].id # i
      PROVE  \A e \in Mentioned' : e.id # i
  BY <1>1, MentionedStep, Zenon DEF AddsEntry
<1>2. ASSUME \A x \in AllSubmissions : x.id = i => ~Live(x),
             \A d \in Clients : \A e : AddsEntry(d, e) => op[d].id # i,
             \A new : Admits(new) => new.id # i
      PROVE  \A x \in AllSubmissions' : x.id = i => ~Live(x)'
  <2>1. \A x \in AllSubmissions : x.id = i => ~Live(x)'
    BY <1>2, LiveBefore, Zenon
  <2>2. ASSUME NEW x \in AllSubmissions'
        PROVE  x \in AllSubmissions \/ x.id # i
    <3>1. ASSUME NEW d \in Clients, NEW e, AddsEntry(d, e), x = QueueSubmission(e)
          PROVE  x.id # i
      BY <1>2, <3>1, ZenonT(60) DEF AddsEntry, QueueSubmission
    <3> QED
      BY <1>2, <3>1, NewSubmissions, ZenonT(60) DEF Admits
  <2> QED
    BY <2>1, <2>2, Zenon
<1>3. CASE pc'[c] = pc[c] /\ op'[c] = op[c]
  <2>1. op[c].kind = "queue" /\ i = op[c].id
    BY <1>0, <1>3, LabelsName, Zenon DEF KindOf, QueueLabels
  <2>2. \A e \in Mentioned : e.id # i
    BY <1>3, <2>1, Zenon DEF NewToQueue
  <2>3. ASSUME NEW d \in Clients, pc[d] = "addQueue", pc'[d] # "addQueue"
        PROVE  FALSE
    <3>1. op[d].kind = "queue"
      BY <1>0, <2>3, LabelsName, ZenonT(60) DEF KindOf, QueueLabels
    <3>2. d = c
      BY <2>1, <3>1, Zenon DEF OneQueues
    <3> QED
      BY <1>3, <2>3, <3>2, Zenon
  <2>4. ASSUME NEW d \in Clients, NEW e, AddsEntry(d, e), QueueRun(d)
        PROVE  FALSE
    BY <1>0, <2>3, <2>4, QueueRunLabels, Zenon DEF AddsEntry
  <2>5. \A e \in Mentioned' : e.id # i
    BY <2>2, <2>4, MentionedStep, Zenon
  <2>6. CASE pc[c] = "recordQueue"
    BY <1>3, <2>1, <2>5, <2>6, AttemptNew, Zenon DEF NewToQueue
  <2>7. CASE pc[c] = "addQueue"
    <3>1. IsQueued(i) /\ IsQueued(i)' /\ \A x \in AllSubmissions : x.id = i => ~Live(x)
      BY <2>1, <2>7, AttemptKept, ZenonT(60) DEF NewToQueue
    <3>2. \A x \in AllSubmissions : x.id = i => ~Live(x)'
      BY <3>1, LiveBefore, Zenon
    <3>3. \A x \in AllSubmissions' : x.id = i => x \in AllSubmissions
      BY <2>4, <3>1, NewSubmissions, Zenon DEF Admits
    <3> QED
      BY <1>3, <2>5, <2>7, <3>1, <3>2, <3>3, Zenon
  <2> QED
    BY <1>3, <2>6, <2>7, ZenonT(60)
<1>4. ASSUME NEW d \in Clients, QueueRun(d), d = c
      PROVE  /\ pc'[c] = "addQueue" /\ IsQueued(i)'
             /\ \A x \in AllSubmissions' : x.id = i => ~Live(x)'
             /\ \A e \in Mentioned' : e.id # i
  <2>1. /\ pc'[c] = "addQueue" /\ pc[c] = "recordQueue" /\ i = op[c].id
        /\ RecordQueue(i, op[c].text)
    BY <1>0, <1>4, QueueRunLabels, Zenon
  <2>2. i \in Ids /\ op[c].text \in Texts /\ op[c].kind = "queue"
    BY <1>0, <2>1, LabelsName, Zenon DEF QueueLabels, KindOf
  <2>3. IsQueued(i)'
    BY <1>0, <2>1, <2>2, LedgerAssumption, Zenon DEF RecordQueue, IsQueued, LedgerTypeOK
  <2>4. ~IsQueued(i) /\ \A e \in Mentioned : e.id # i
    BY <2>1, ZenonT(60) DEF NewToQueue
  <2>5. \A x \in AllSubmissions : x.id = i => ~Live(x)
    BY <2>1, <2>4, ZenonT(60) DEF Remembered, RecordQueue, CanRecordQueue, Found, Owns
  <2>6. ASSUME NEW b \in Clients, NEW e, AddsEntry(b, e)
        PROVE  FALSE
    <3>1. pc[b] = "addQueue" /\ op[b].kind = "queue"
      BY <1>0, <2>6, LabelsName, ZenonT(60) DEF AddsEntry, KindOf, QueueLabels
    <3> QED
      BY <2>1, <2>2, <3>1, ZenonT(60) DEF OneQueues
  <2>7. \A x \in AllSubmissions' : x.id = i => ~Live(x)'
    <3>1. ASSUME NEW new, Admits(new)
          PROVE  new.id # i
      BY <2>1, <2>3, <2>4, <3>1, ZenonT(60) DEF Admits, Owns, RecordQueue
    <3> QED
      BY <1>2, <2>5, <2>6, <3>1, ZenonT(60)
  <2> QED
    BY <1>1, <2>1, <2>3, <2>4, <2>6, <2>7, Zenon
<1>5. ASSUME NEW d \in Clients, QueueCall(d), d = c
      PROVE  pc'[c] = "recordQueue" /\ ~IsQueued(i)' /\ \A e \in Mentioned' : e.id # i
  <2>1. pc'[c] = "recordQueue" /\ ~IsQueued(i)' /\ \A e \in Mentioned : e.id # i
    BY <1>0, <1>5, QueueCallNew, ZenonT(60)
  <2>2. ASSUME NEW b \in Clients, NEW e, AddsEntry(b, e)
        PROVE  FALSE
    <3>1. claims \in Nat
      BY <1>0, UsedDrawn, ZenonT(60) DEF QueueBase, QueueTyped
    <3>2. claims' = claims
      BY <1>0, <1>5, QueueCallEffect, ZenonT(60) DEF CallEffect, ledgerVars, QueueBase
    <3>3. claims' = claims + 1
      BY <2>2, Zenon DEF AddsEntry
    <3> QED
      BY <3>1, <3>2, <3>3
  <2> QED
    BY <1>1, <2>1, <2>2, ZenonT(60)
<1>6. ASSUME [Next]_vars
      PROVE  pc'[c] = pc[c] /\ op'[c] = op[c]
  BY <1>0, <1>6, MessageSteps, ZenonT(60) DEF MessageEffect, Messaging, MessageLabels, QueueLabels
<1>7. ASSUME NEW d \in Clients \ {c}, QueueRun(d) \/ QueueCall(d)
      PROVE  pc'[c] = pc[c] /\ op'[c] = op[c]
  BY <1>0, <1>7, QueueRunEffect, QueueCallEffect, ZenonT(60) DEF ClientEffect, CallEffect, Only
<1>8. CASE NativeQueue
  BY <1>3, <1>8, Zenon DEF NativeQueue, clientVars
<1> QED
  BY <1>3, <1>4, <1>5, <1>6, <1>7, <1>8, QueueSteps, MessagesAreDelivery, CrashIsDelivery, ZenonT(60)

(* The inductive invariant of the submissions: the numbers of entries and  *)
(* claims, one client queueing, one submission of an identity, remembered, *)
(* and nothing of an identity that is new to the queue.                    *)
SubmissionInv ==
  QueueBase /\ OneQueues /\ Remembered /\ OneEach /\ NewToQueue /\ Traced

(* The submission invariant holds in every behaviour with the SQLite       *)
(* ledger whose identities are used for one message.                       *)
LEMMA SubmissionInvHolds ==
  ASSUME SQLite = TRUE, Resend = FALSE
  PROVE  QueueSpec => []SubmissionInv
<1>1. ASSUME QueueInit PROVE SubmissionInv
  <2>1. /\ QueueBase /\ Waiting = {} /\ Mentioned = {}
        /\ \A c \in Clients : pc[c] = "idle" /\ op[c] = NoOperation
    BY <1>1, QueueBaseInitially
  <2>3. AllSubmissions = {}
    BY <1>1, <2>1, Zenon DEF AllSubmissions, Submissions, Holds, QueueInit, Init, ServerInit
  <2>2. OneQueues /\ NewToQueue
    BY <2>1 DEF OneQueues, NewToQueue, NoOperation, Asked
  <2> QED
    BY <2>1, <2>2, <2>3, Zenon DEF SubmissionInv, Remembered, OneEach, Traced
<1>2. SubmissionInv /\ [QueueNext]_allVars => SubmissionInv'
  <2> SUFFICES ASSUME SubmissionInv, [QueueNext]_allVars PROVE SubmissionInv'
    OBVIOUS
  <2>1. QueueBase' /\ OneQueues'
    BY QueueBaseStep, OneQueuesStep, Zenon DEF SubmissionInv, QueueBase
  <2>2. Remembered' /\ OneEach' /\ NewToQueue' /\ Traced'
    BY RememberedStep, OneEachStep, NewToQueueStep, TracedStep, ZenonT(60) DEF SubmissionInv
  <2> QED
    BY <2>1, <2>2 DEF SubmissionInv
<1> QED
  BY <1>1, <1>2, PTL DEF QueueSpec

(* What the native server has or can still get is a submission.            *)
LEMMA SubmittedFrom ==
  ASSUME NEW x \in Submitted
  PROVE  /\ x = [id |-> x.id, claim |-> x.claim]
         /\ \E y \in AllSubmissions : y.id = x.id /\ y.claim = x.claim
<1>1. ASSUME NEW y \in wire \cup delivered, x = [id |-> y.id, claim |-> y.claim]
      PROVE  /\ x = [id |-> x.id, claim |-> x.claim]
             /\ \E z \in AllSubmissions : z.id = x.id /\ z.claim = x.claim
  <2>1. Submission(y) \in AllSubmissions
    BY DEF AllSubmissions, Submissions
  <2>2. x.id = y.id /\ x.claim = y.claim
    BY <1>1, Zenon
  <2> QED
    BY <1>1, <2>1, <2>2, Projection, ZenonT(60)
<1>2. ASSUME NEW q \in Entries \cup Adding, x = [id |-> q.id, claim |-> q.entry]
      PROVE  /\ x = [id |-> x.id, claim |-> x.claim]
             /\ \E z \in AllSubmissions : z.id = x.id /\ z.claim = x.claim
  <2>1. x.id = q.id /\ x.claim = q.entry
    BY <1>2, Zenon
  <2>2. \E e \in Waiting : e.id = q.id /\ e.entry = q.entry
    <3>1. CASE q \in Entries
      BY <3>1, Zenon DEF Waiting
    <3>2. CASE q \in Adding
      <4>1. EntryOfRequest(q) \in Waiting
        BY <3>2 DEF Waiting
      <4>2. EntryOfRequest(q).id = q.id /\ EntryOfRequest(q).entry = q.entry
        BY Zenon DEF EntryOfRequest
      <4> QED
        BY <4>1, <4>2, ZenonT(60)
    <3> QED
      BY <3>1, <3>2, Zenon
  <2>3. PICK e \in Waiting : e.id = q.id /\ e.entry = q.entry
    BY <2>2
  <2>4. QueueSubmission(e) \in AllSubmissions
    BY DEF AllSubmissions
  <2>5. QueueSubmission(e).id = x.id /\ QueueSubmission(e).claim = x.claim
    BY <2>1, <2>3, Zenon DEF QueueSubmission
  <2> QED
    BY <1>2, <2>1, <2>4, <2>5, ZenonT(60)
<1> QED
  BY <1>1, <1>2, ZenonT(60) DEF Submitted, Adding

(* An identity has at most one live submission, sent or queued: for any    *)
(* number of clients, messages, crashes and lost requests or replies       *)
(* (claimSendSubmissionIf, recordQueueAttempt).                            *)
THEOREM OneSubmission ==
  ASSUME SQLite = TRUE, Resend = FALSE
  PROVE  QueueSpec => []SubmittedOnce
<1>1. ASSUME SubmissionInv PROVE SubmittedOnce
  <2> SUFFICES ASSUME NEW x \in Submitted, NEW y \in Submitted, x.id = y.id, Live(x), Live(y)
               PROVE  x.claim = y.claim
    BY SubmittedFrom DEF SubmittedOnce
  <2> QED
    BY <1>1, SubmittedFrom DEF SubmissionInv, OneEach, Agree, Live, Kept
<1> QED
  BY <1>1, SubmissionInvHolds, PTL

(* The ledger remembers every submission that is not retired, whichever    *)
(* client crashed after it was made (QueueWithPolicy, Send).               *)
THEOREM SubmissionsRemembered ==
  ASSUME SQLite = TRUE, Resend = FALSE
  PROVE  QueueSpec => []SubmissionRemembered
<1>1. ASSUME SubmissionInv PROVE SubmissionRemembered
  BY <1>1, SubmittedFrom, Zenon DEF SubmissionInv, Remembered, SubmissionRemembered, Live, Kept, Owns
<1> QED
  BY <1>1, SubmissionInvHolds, PTL

(* No queue operation reports a message as not sent.                       *)
LEMMA QueueReports ==
  ASSUME QueueTyped, NEW d \in Clients, QueueRun(d) \/ QueueCall(d), NEW c \in Clients,
         outcome[c].kind # "notSent"
  PROVE  outcome'[c].kind # "notSent"
<1>0. outcome \in [Clients -> Outcome] /\ NoOutcome.kind = "none"
  BY Zenon DEF QueueTyped, TypeInv, TypeOK, NoOutcome
<1> DEFINE Quiet == outcome'[c].kind # "notSent"
<1>1. ASSUME NEW kind, NEW turn, kind # "notSent", Return(d, kind, turn)
      PROVE  Quiet
  BY <1>0, <1>1, Zenon DEF Return
<1>2. ASSUME NEW label, NEW o, Goto(d, label, o) PROVE Quiet
  BY <1>2, Zenon DEF Goto
<1>3. ASSUME NEW todo, NextDeletion(d, todo) PROVE Quiet
  BY <1>1, <1>2, <1>3, Zenon DEF NextDeletion
<1>4. ASSUME QueueCall(d) PROVE Quiet
  BY <1>0, <1>4, ZenonT(60) DEF QueueCall, BeginQueue, BeginDelete, BeginRecover
<1> SUFFICES Quiet
  BY Zenon
<1> HIDE DEF Quiet
<1>5. \A b : (IF b THEN "queued" ELSE "failed") # "notSent"
             /\ (IF b THEN "failed" ELSE "unknown") # "notSent"
  BY Zenon
<1>6. CASE ListQueued(d) \/ WalkQueued(d) \/ RecordQueueAttempt(d) \/ AddQueue(d) \/ AwaitAdd(d)
  BY <1>1, <1>2, <1>5, <1>6, Zenon DEF ListQueued, WalkQueued, RecordQueueAttempt, AddQueue, AwaitAdd
<1>7. CASE ListDelete(d) \/ RecordDeletionAttempt(d) \/ RequestDelete(d) \/ ClearDelete(d)
  BY <1>1, <1>2, <1>3, <1>7, Zenon DEF ListDelete, RecordDeletionAttempt, RequestDelete, ClearDelete
<1>8. CASE AwaitDelete(d) \/ RelistDelete(d) \/ WalkDelete(d) \/ CompleteDelete(d)
  BY <1>1, <1>2, <1>8, Zenon DEF AwaitDelete, RelistDelete, WalkDelete, CompleteDelete
<1> QED
  BY <1>4, <1>6, <1>7, <1>8, ZenonT(60) DEF QueueRun

(* A message is reported as not sent only when no submission of it is      *)
(* live, sent or queued: unwrittenSendOutcome reads queue and send state   *)
(* in one snapshot.                                                        *)
THEOREM NotSentMeansUnsubmitted ==
  ASSUME SQLite = TRUE, Resend = FALSE
  PROVE  QueueSpec => NotSentIsUnsubmitted
<1> DEFINE Told == \A c \in Clients :
                     outcome[c].kind # "notSent" /\ outcome'[c].kind = "notSent"
                       => \A x \in Submitted : x.id = op[c].id => ~Live(x)
<1>1. ASSUME SubmissionInv, [QueueNext]_allVars PROVE Told
  <2> SUFFICES ASSUME NEW c \in Clients, outcome[c].kind # "notSent", outcome'[c].kind = "notSent",
                      NEW x \in Submitted, x.id = op[c].id, Live(x)
               PROVE  FALSE
    BY Zenon
  <2>0. QueueTyped /\ TypeInv
    BY <1>1, Zenon DEF SubmissionInv, QueueBase, QueueTyped
  <2>1. CASE [Next]_vars
    <3>1. NotSentState(op[c].id, op[c].allowAbsent)
      BY <2>0, <2>1, OnlyUnwritten, ZenonT(60)
    <3>2. SubmissionRemembered
      BY <1>1, SubmittedFrom DEF SubmissionInv, Remembered, SubmissionRemembered, Live, Kept, Owns
    <3> QED
      BY <3>1, <3>2, Zenon DEF SubmissionRemembered, NotSentState
  <2>2. ASSUME NEW d \in Clients, QueueRun(d) \/ QueueCall(d)
        PROVE  FALSE
    BY <2>0, <2>2, QueueReports, ZenonT(60)
  <2>3. CASE NativeQueue
    BY <2>3, Zenon DEF NativeQueue, clientVars
  <2> QED
    BY <1>1, <2>1, <2>2, <2>3, QueueSteps, MessagesAreDelivery, CrashIsDelivery, Zenon
<1>2. SubmissionInv /\ [QueueNext]_allVars => [Told]_allVars
  BY <1>1, Zenon
<1> QED
  BY <1>2, SubmissionInvHolds, PTL DEF QueueSpec, NotSentIsUnsubmitted
==============================================================================
