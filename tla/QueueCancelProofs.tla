-------------------------- MODULE QueueCancelProofs --------------------------
(***************************************************************************)
(* Theorems about QueueDelivery, for every set of clients, identities and  *)
(* texts, every choice of calls and every bound: how a deletion ends.      *)
(* QueueTyped and Finished give IntentOutlivesCompletion.  CancelInv rests *)
(* on QueueBase and says that a deletion completes closed entries only; it *)
(* gives CancelledNeverStarts.                                             *)
(***************************************************************************)
EXTENDS QueueProofs

(***************************************************************************)
(* A deletion intent goes only when its outcome is known.                  *)
(***************************************************************************)

(* The native server forgets no message, and shows only what it has, one   *)
(* message at a time.                                                      *)
LEMMA ServerShows ==
  ASSUME [QueueNext]_allVars, visible \subseteq delivered
  PROVE  /\ delivered \subseteq delivered' /\ visible' \subseteq delivered'
         /\ visible' = visible \/ \E m \in delivered' : visible' = visible \cup {m}
<1>1. ASSUME Serve
      PROVE  /\ delivered \subseteq delivered' /\ visible' \subseteq delivered'
             /\ visible' = visible \/ \E m \in delivered' : visible' = visible \cup {m}
  BY <1>1 DEF Serve, ServeInput, RefuseInput, LoseInput, ShowInput, FinishTurn
<1>2. CASE StartHead
  BY <1>2, Zenon DEF StartHead
<1>3. CASE UNCHANGED <<delivered, visible>>
  BY <1>3
<1>4. ASSUME NEW c \in Clients, Run(c)
      PROVE  UNCHANGED <<delivered, visible>>
  BY <1>4, Zenon DEF Run, CheckQueue, Reconcile, Recheck, ReconcileSubmitting, Resume,
     RecordAttempt, Admit, Write, ReadReply, Restore, Lookup, Mark, UnwrittenOutcome,
     AcknowledgeWalk, AcknowledgeRemove, FindReceipt, Adopt, serverVars
<1>5. ASSUME NEW c \in Clients, MessageCall(c)
      PROVE  UNCHANGED <<delivered, visible>>
  <2>1. Call(c)
    BY <1>5, Zenon DEF MessageCall, Call
  <2> QED
    BY <2>1 DEF Call, BeginAcknowledge, BeginSend, BeginReconcile, Begin, BeginAttempted,
                Discard, Prepare, serverVars
<1>6. ASSUME NEW c \in Clients, QueueCall(c) \/ QueueRun(c) \/ QueueCrash(c)
      PROVE  UNCHANGED <<delivered, visible>>
  <2>1. serverVars' = serverVars
    BY <1>6, Zenon DEF QueueCall, BeginQueue, BeginDelete, BeginRecover, QueueRun, ListQueued,
       WalkQueued, RecordQueueAttempt, AddQueue, AwaitAdd, ListDelete, RecordDeletionAttempt,
       RequestDelete, AwaitDelete, RelistDelete, WalkDelete, CompleteDelete, ClearDelete,
       QueueCrash, Crash
  <2> QED
    BY <2>1 DEF serverVars
<1>7. CASE ServeQueue \/ ClearQueueRetired \/ UNCHANGED vars
  BY <1>7 DEF ServeQueue, ClearQueueRetired, ClearRetired, vars, serverVars
<1> QED
  BY <1>1, <1>2, <1>3, <1>4, <1>5, <1>6, <1>7, ZenonT(60) DEF QueueNext, MessageStep, Native, allVars

(* A client that is about to clear an intent has completed the deletion,   *)
(* or found the message in history.                                        *)
Finished ==
  \A c \in Clients :
    /\ pc[c] = "clearDelete" => op[c].claim \in completed
    /\ pc[c] = "clearStarted" => \E m \in delivered : m.id = op[c].id

(* Every step keeps the reason of a clearing.                              *)
LEMMA FinishedStep ==
  ASSUME QueueTyped, Finished, visible \subseteq delivered, [QueueNext]_allVars
  PROVE  Finished'
<1>0. delivered \subseteq delivered' /\ TypeInv
  BY ServerShows DEF QueueTyped
<1>1. ASSUME NEW c \in Clients,
             \/ pc'[c] \notin {"clearDelete", "clearStarted"}
             \/ /\ pc'[c] = pc[c] /\ op'[c] = op[c]
                /\ completed \subseteq completed'
      PROVE  /\ pc'[c] = "clearDelete" => op'[c].claim \in completed'
             /\ pc'[c] = "clearStarted" => \E m \in delivered' : m.id = op'[c].id
  BY <1>0, <1>1 DEF Finished
<1>2. CASE [Next]_vars /\ UNCHANGED completed
  <2>1. MessageEffect
    BY <1>2, MessageSteps
  <2> QED
    BY <1>1, <1>2, <2>1 DEF MessageEffect, Messaging, MessageLabels, DeleteLabels, Finished
<1>3. ASSUME NEW c \in Clients, QueueCall(c)
      PROVE  Finished'
  <2>1. CallEffect(c) /\ completed' = completed
    BY <1>3, QueueCallEffect, Zenon DEF CallEffect, queueVars
  <2>2. pc'[c] \in {"listQueued", "recordQueue", "listDelete"}
    BY <1>0, <1>3 DEF QueueCall, BeginQueue, BeginDelete, BeginRecover, TypeInv, TypeOK
  <2> QED
    BY <1>1, <2>1, <2>2 DEF CallEffect, Only, Finished
<1>4. ASSUME NEW c \in Clients, QueueRun(c)
      PROVE  Finished'
  <2>1. Only(c)
    BY <1>4, QueueRunEffect, Zenon DEF ClientEffect
  <2>2. completed \subseteq completed'
    BY <1>0, <1>4, QueueRunState, Zenon DEF QueueWriting
  <2> DEFINE Others == Label \ {"clearDelete", "clearStarted"}
             Away == pc'[c] \notin {"clearDelete", "clearStarted"}
  <2>3. \A label \in Others : \A o : Goto(c, label, o) => Away
    BY <1>0, GotoMoves
  <2>4. \A kind, turn : Return(c, kind, turn) => Away
    BY <1>0, ReturnMoves
  <2>a. {"walkQueued", "addQueue", "listQueued", "awaitAdd", "walkDelete", "requestDelete",
         "recordDelete", "awaitDelete", "relistDelete", "completeDelete"} \subseteq Others
    BY DEF Label
  <2> HIDE DEF Others, Away
  <2>b. ASSUME NEW todo, NextDeletion(c, todo)
        PROVE  Away
    BY <2>a, <2>b, <2>3, <2>4, Zenon DEF NextDeletion
  <2>c. ASSUME ListQueued(c) \/ WalkQueued(c) \/ RecordQueueAttempt(c) \/ AddQueue(c) \/ AwaitAdd(c)
        PROVE  Away
    BY <2>a, <2>c, <2>3, <2>4, Zenon DEF ListQueued, WalkQueued, RecordQueueAttempt, AddQueue, AwaitAdd
  <2>d. ASSUME \/ ListDelete(c) \/ RecordDeletionAttempt(c) \/ RequestDelete(c) \/ AwaitDelete(c)
               \/ RelistDelete(c) \/ ClearDelete(c)
        PROVE  Away
    BY <2>a, <2>b, <2>d, <2>3, <2>4, Zenon DEF ListDelete, RecordDeletionAttempt, RequestDelete,
       AwaitDelete, RelistDelete, ClearDelete
  <2>5. Away \/ WalkDelete(c) \/ CompleteDelete(c)
    BY <1>4, <2>c, <2>d DEF QueueRun
  <2>e. Away => Finished'
    BY <1>1, <2>1, <2>2 DEF Only, Finished, Away
  <2>6. CASE WalkDelete(c)
    <3>1. \/ Away
          \/ Goto(c, "clearStarted", op[c]) /\ \E m \in Newest(op[c].id) : TRUE
      BY <2>a, <2>3, <2>4, <2>6, ZenonT(60) DEF WalkDelete
    <3>2. CASE Goto(c, "clearStarted", op[c]) /\ \E m \in Newest(op[c].id) : TRUE
      <4>1. pc'[c] = "clearStarted" /\ op'[c] = op[c]
        BY <1>0, <3>2, GotoMoves
      <4>2. \E m \in delivered : m.id = op[c].id
        BY <3>2 DEF Newest
      <4> QED
        BY <1>0, <1>1, <2>1, <2>2, <4>1, <4>2 DEF Only, Finished
    <3> QED
      BY <2>e, <3>1, <3>2
  <2>7. CASE CompleteDelete(c)
    <3>1. \/ Away
          \/ Goto(c, "clearDelete", op[c]) /\ op[c].claim \in completed'
      BY <2>4, <2>7 DEF CompleteDelete
    <3>2. CASE Goto(c, "clearDelete", op[c]) /\ op[c].claim \in completed'
      <4>1. pc'[c] = "clearDelete" /\ op'[c] = op[c]
        BY <1>0, <3>2, GotoMoves
      <4> QED
        BY <1>1, <2>1, <2>2, <3>2, <4>1 DEF Only, Finished
    <3> QED
      BY <2>e, <3>1, <3>2
  <2> QED
    BY <2>5, <2>6, <2>7, <2>e
<1>5. CASE NativeQueue
  <2>1. pc' = pc /\ op' = op /\ completed' = completed
    BY <1>5, ZenonT(60) DEF NativeQueue, clientVars, ServeQueue, StartHead
  <2> QED
    BY <1>1, <2>1 DEF Finished
<1> QED
  BY <1>2, <1>3, <1>4, <1>5, QueueSteps, MessagesAreDelivery, CrashIsDelivery
     DEF MessageAlone, queueVars

(* A deletion intent outlives its completion: for any number of clients,   *)
(* entries and crashes, it is cleared only once the application recorded   *)
(* the completion or the message is known to have started, or with the     *)
(* thread (DeleteQueueEntryWithCompletion, finishAbsentQueueDeletion).     *)
THEOREM IntentsOutlive == QueueSpec => IntentOutlivesCompletion
<1> DEFINE Inv == QueueTyped /\ Finished /\ visible \subseteq delivered
           Spared == \/ \A d \in deletions \ deletions' :
                          d.entry \in completed \/ \E m \in delivered : m.id = d.id
                     \/ ClearQueueRetired
<1>1. Inv /\ [QueueNext]_allVars => Inv'
  BY QueueTypedStep, FinishedStep, ServerShows
<1>2. ASSUME Inv, [QueueNext]_allVars
      PROVE  Spared
  <2>1. CASE MessageAlone
    BY <2>1, MessagesKeepQueue DEF MessageAlone, vars, ledgerVars
  <2>2. ASSUME NEW c \in Clients, QueueCall(c) \/ QueueCrash(c)
        PROVE  Spared
    BY <2>2, Zenon DEF QueueCall, BeginQueue, BeginDelete, BeginRecover, QueueCrash, Crash, ledgerVars
  <2>3. ASSUME NEW c \in Clients, QueueRun(c)
        PROVE  Spared
    <3>1. QueueLedger(c)
      BY <1>2, <2>3, QueueRunState DEF QueueTyped
    <3>2. CASE pc[c] \in {"clearDelete", "clearStarted"} /\ ClearDeletion(EntryOf(op[c]))
      <4>1. ASSUME NEW d \in deletions \ deletions'
            PROVE  d.entry = op[c].claim /\ d.id = op[c].id
        BY <3>2, <4>1, ZenonT(60) DEF ClearDeletion, EntryOf
      <4> QED
        BY <1>2, <3>2, <4>1 DEF Finished
    <3> QED
      BY <3>1, <3>2, Zenon DEF QueueLedger, RecordQueue, RecordDeletion, ledgerVars
  <2>4. CASE NativeQueue
    BY <2>4, Zenon DEF NativeQueue, ledgerVars
  <2> QED
    BY <1>2, <2>1, <2>2, <2>3, <2>4, QueueSteps
<1>3. QueueInit => Inv
  BY QueueInitially DEF QueueInit, Init, Finished
<1>4. Inv /\ [QueueNext]_allVars => [Spared]_allVars
  BY <1>2
<1> QED
  BY <1>1, <1>3, <1>4, PTL DEF QueueSpec, IntentOutlivesCompletion

(***************************************************************************)
(* A cancelled message never starts.  The completion callback is reached   *)
(* on two ways, and on both the entry is closed: the native server deleted *)
(* it, or it is gone from the queue and history does not show its message. *)
(***************************************************************************)

(* The entry is not in the queue and cannot come back.                     *)
Gone(k) == k \in Nat /\ k <= claims /\ \A e \in Waiting : e.entry # k

(* Nothing was or can be submitted under the number.                       *)
Closed(k) == Gone(k) /\ ~Used(k) /\ \A m \in delivered : m.claim # k

(* How the numbers move in any step.                                       *)
LEMMA NumbersMove ==
  ASSUME QueueBase, [QueueNext]_allVars
  PROVE  /\ claims \in Nat /\ claims' \in {claims, claims + 1}
         /\ \A k \in Nat : k <= claims /\ Used(k)' => Used(k)
         /\ \A m \in delivered' :
              \/ m \in delivered
              \/ \E f \in wire : f.claim = m.claim
              \/ \E e \in Entries : /\ m.claim = e.entry /\ m.id = e.id
                                    /\ Lag = FALSE => m \in visible'
<1>0. QueueTyped /\ TypeInv /\ claims \in Nat
  BY UsedDrawn DEF QueueBase, QueueTyped
<1>1. ASSUME ClaimsApart
      PROVE  /\ claims' \in {claims, claims + 1}
             /\ \A k \in Nat : k <= claims /\ Used(k)' => Used(k)
             /\ \A m \in delivered' : m \in delivered \/ \E f \in wire : f.claim = m.claim
  BY <1>0, <1>1 DEF ClaimsApart
<1>2. ASSUME [Next]_vars
      PROVE  ClaimsApart
  BY <1>0, <1>2, ClaimsTravel DEF ClaimsApart
<1>3. ASSUME NEW c \in Clients, QueueRun(c)
      PROVE  ClaimsApart
  <2>1. ClientEffect(c) /\ QueueLedger(c) /\ serverVars' = serverVars
    BY <1>0, <1>3, QueueRunEffect, QueueRunState
  <2>2. claims' \in {claims, claims + 1}
    BY <2>1, ZenonT(60) DEF QueueLedger, RecordQueue, RecordDeletion, ClearDeletion, ledgerVars
  <2> QED
    BY <2>1, <2>2, Apart DEF ClientEffect
<1>4. ASSUME NEW c \in Clients, QueueCall(c)
      PROVE  ClaimsApart
  BY <1>0, <1>4, QueueCallEffect, Apart, ZenonT(60) DEF CallEffect, ledgerVars
<1>5. ASSUME NativeQueue
      PROVE  /\ claims' = claims
             /\ \A k : Used(k)' => Used(k)
             /\ \A m \in delivered' :
                  \/ m \in delivered
                  \/ \E e \in Entries : /\ m.claim = e.entry /\ m.id = e.id
                                        /\ Lag = FALSE => m \in visible'
  <2>1. ServedEntries /\ UNCHANGED <<pc, op, claims, wire, replies>>
    BY <1>5, NativeServes DEF QueueBase
  <2>2. \A k : Used(k)' => Used(k)
    BY <2>1 DEF Used, Holds
  <2>3. ASSUME NEW m \in delivered', m \notin delivered
        PROVE  \E e \in Entries : /\ m.claim = e.entry /\ m.id = e.id
                                  /\ Lag = FALSE => m \in visible'
    BY <2>1, <2>3 DEF ServedEntries
  <2> QED
    BY <2>1, <2>2, <2>3, ZenonT(60)
<1> QED
  BY <1>0, <1>1, <1>2, <1>3, <1>4, <1>5, QueueSteps, MessagesAreDelivery, CrashIsDelivery, ZenonT(60)

(* An entry that is gone stays gone.                                       *)
LEMMA GoneStays ==
  ASSUME QueueBase, [QueueNext]_allVars, NEW k, Gone(k)
  PROVE  Gone(k)'
<1>1. claims \in Nat /\ claims' \in {claims, claims + 1}
  BY NumbersMove, ZenonT(60)
<1>2. \/ Waiting' \subseteq Waiting
      \/ \E c \in Clients : \E e : AddsEntry(c, e)
  BY QueueSteps, RunWaiting, OthersWaiting DEF QueueBase
<1> QED
  BY <1>1, <1>2 DEF Gone, AddsEntry

(* The same of an entry that is closed.                                    *)
LEMMA ClosedStays ==
  ASSUME QueueBase, [QueueNext]_allVars, NEW k, Closed(k)
  PROVE  Closed(k)'
<1>1. k \in Nat /\ k <= claims /\ Gone(k) /\ ~Used(k)
  BY DEF Closed, Gone
<1>2. Gone(k)'
  BY <1>1, GoneStays
<1>4. ~Used(k)'
  BY <1>1, NumbersMove, Zenon
<1>3. ASSUME NEW m \in delivered', m.claim = k
      PROVE  FALSE
  <2>1. m \notin delivered
    BY <1>3 DEF Closed
  <2>2. ~\E f \in wire : f.claim = m.claim
    BY <1>1, <1>3 DEF Used
  <2>3. ~\E e \in Entries : m.claim = e.entry
    BY <1>1, <1>3 DEF Gone, Waiting
  <2> QED
    BY <2>1, <2>2, <2>3, NumbersMove, ZenonT(60)
<1> QED
  BY <1>2, <1>3, <1>4 DEF Closed

(* History shows a message when it shows any message of its identity: the  *)
(* newest one exists.                                                      *)
Shown == \A n \in visible : Newest(n.id) # {}

(* Every step shows one message at most, so the newest one still exists.   *)
LEMMA ShownStep ==
  ASSUME QueueTyped, visible \subseteq delivered, Shown, [QueueNext]_allVars
  PROVE  Shown'
<1>1. visible' = visible \/ \E m \in delivered' : visible' = visible \cup {m}
  BY ServerShows
<1>2. CASE visible' = visible
  BY <1>2 DEF Shown, Newest
<1>3. ASSUME NEW m \in delivered', visible' = visible \cup {m}
      PROVE  Shown'
  <2>1. \A n \in visible \cup {m} : n.turn \in Nat
    <3>1. TypeInv'
      BY QueueTypedStep DEF QueueTyped
    <3>2. visible' \subseteq UserMessage
      BY <3>1 DEF TypeInv, TypeOK, ServerTypeOK
    <3> QED
      BY <1>3, <3>2 DEF UserMessage
  <2>2. ASSUME NEW i, \E n \in visible : n.id = i
        PROVE  Newest(i)' # {}
    <3>1. PICK k \in visible : k.id = i /\ \A n \in visible : n.id = i => n.turn <= k.turn
      BY <2>2, SMTT(60) DEF Shown, Newest
    <3>2. CASE m.id = i /\ k.turn <= m.turn
      <4>1. \A n \in visible' : n.id = i => n.turn <= m.turn
        BY <1>3, <2>1, <3>1, <3>2
      <4> QED
        BY <1>3, <3>2, <4>1 DEF Newest
    <3>3. CASE ~(m.id = i /\ k.turn <= m.turn)
      <4>1. \A n \in visible' : n.id = i => n.turn <= k.turn
        BY <1>3, <2>1, <3>1, <3>3
      <4> QED
        BY <1>3, <3>1, <4>1 DEF Newest
    <3> QED
      BY <3>2, <3>3
  <2>3. ASSUME ~\E n \in visible : n.id = m.id
        PROVE  m \in Newest(m.id)'
    BY <1>3, <2>1, <2>3 DEF Newest
  <2> QED
    BY <1>3, <2>2, <2>3 DEF Shown
<1> QED
  BY <1>1, <1>2, <1>3, Zenon

(* History shows every started entry that a deletion is about.             *)
StartedShown ==
  \A e \in Intended, m \in delivered : m.claim = e.entry => m.id = e.id /\ m \in visible

(* An entry that starts is shown at once, when history does not lag.       *)
LEMMA StartedShownStep ==
  ASSUME Lag = FALSE, QueueBase, visible \subseteq delivered, StartedShown, [QueueNext]_allVars
  PROVE  StartedShown'
<1>1. Intended' \subseteq Intended \cup Entries /\ visible \subseteq visible'
  BY IntendedStep, ServerShows DEF QueueBase
<1>2. Entries \subseteq Waiting /\ Entries \subseteq Mentioned /\ Intended \subseteq Mentioned
  BY DEF Waiting, Mentioned
<1> SUFFICES ASSUME NEW e \in Intended', NEW m \in delivered', m.claim = e.entry
             PROVE  m.id = e.id /\ m \in visible'
  BY DEF StartedShown
<1>3. CASE m \in delivered
  <2>1. e \notin Entries
    BY <1>2, <1>3, Zenon DEF QueueBase, EntriesExclusive
  <2> QED
    BY <1>1, <1>3, <2>1 DEF StartedShown
<1>4. ASSUME NEW f \in wire, f.claim = m.claim
      PROVE  FALSE
  BY <1>1, <1>2, <1>4, ZenonT(60) DEF QueueBase, EntriesExclusive, Used
<1>5. ASSUME NEW d \in Entries, m.claim = d.entry, m.id = d.id, m \in visible'
      PROVE  m.id = e.id /\ m \in visible'
  BY <1>1, <1>2, <1>5, Zenon DEF QueueBase, EntriesExclusive
<1> QED
  BY <1>3, <1>4, <1>5, NumbersMove, ZenonT(60)

(* An entry that a deletion is about is gone when the queue does not list  *)
(* it.                                                                     *)
LEMMA AbsentGone ==
  ASSUME QueueBase, NEW e \in Intended, ~InQueue(e.entry)
  PROVE  Gone(e.entry)
<1>1. e \in Mentioned /\ e \in QueueEntry
  BY MentionedTypes DEF Mentioned, QueueBase
<1>2. \A q \in Adding : EntryOfRequest(q).entry # e.entry
  BY Zenon DEF EntryOfRequest, QueueBase, EntriesExclusive
<1>3. \A f \in Entries : f.entry # e.entry
  BY DEF InQueue
<1> QED
  BY <1>1, <1>2, <1>3 DEF Gone, Waiting, QueueBase, EntriesDrawn, QueueEntry

(* It is closed when history does not show its message either.             *)
LEMMA UnstartedClosed ==
  ASSUME QueueBase, Shown, StartedShown, NEW e \in Intended, Gone(e.entry), Newest(e.id) = {}
  PROVE  Closed(e.entry)
<1>1. ~Used(e.entry)
  BY Zenon DEF Mentioned, QueueBase, EntriesExclusive
<1>2. \A m \in delivered : m.claim # e.entry
  BY Zenon DEF StartedShown, Shown
<1> QED
  BY <1>1, <1>2 DEF Closed

(* What a deletion knows of its entries.                                   *)
Cancelling(c) ==
  /\ pc[c] = "walkDelete" => Gone(op[c].claim)
  /\ pc[c] = "completeDelete" => Closed(op[c].claim)
  /\ pc[c] # "listDelete" => \A d \in op[c].todo : Gone(d.entry)

(* Who waits for the requests and replies of the queue; the entry of an    *)
(* acknowledged deletion is closed.                                        *)
Awaited ==
  /\ \A q \in queueWire : q.by # None =>
       /\ q.kind = "add" => pc[q.by] = "awaitAdd"
       /\ q.kind = "delete" => pc[q.by] = "awaitDelete" /\ q.entry = op[q.by].claim
  /\ \A r \in queueReplies :
       /\ pc[r.by] \in {"awaitAdd", "awaitDelete"}
       /\ pc[r.by] = "awaitDelete" /\ r.ok => Closed(op[r.by].claim)

(* What the client knows after its step, of the state before it.           *)
Knows(c) ==
  /\ pc'[c] = "walkDelete" => Gone(op'[c].claim)
  /\ pc'[c] = "completeDelete" => Closed(op'[c].claim)
  /\ pc'[c] # "listDelete" => \A d \in op'[c].todo : Gone(d.entry)

(* A step of a deletion learns it from the queue, the history or the       *)
(* reply.                                                                  *)
LEMMA RunKnows ==
  ASSUME QueueBase, Shown, StartedShown, Awaited, NEW c \in Clients, Cancelling(c), QueueRun(c)
  PROVE  Knows(c)
<1>0. QueueTyped /\ TypeInv /\ KindOf(c) /\ op[c] \in Operation
  BY LabelsName, ZenonT(60) DEF QueueBase, QueueTyped
<1>1. ASSUME NEW kind, NEW turn, Return(c, kind, turn)
      PROVE  Knows(c)
  <2>1. pc'[c] = "idle" /\ op'[c].todo = {}
    BY <1>0, <1>1, ReturnMoves DEF NoOperation, Asked
  <2> QED
    BY <2>1 DEF Knows
<1>2. ASSUME NEW label, label \notin {"walkDelete", "completeDelete"}, pc[c] # "listDelete",
             Goto(c, label, op[c])
      PROVE  Knows(c)
  BY <1>0, <1>2, GotoMoves, ZenonT(60) DEF Knows, Cancelling
<1>3. ASSUME NEW todo, \A d \in todo : Gone(d.entry), NextDeletion(c, todo)
      PROVE  Knows(c)
  <2>1. ASSUME NEW d \in todo,
               Goto(c, "walkDelete",
                    [Asked("recover", d.id, d.text, None) EXCEPT !.claim = d.entry,
                                                                 !.todo = todo \ {d}])
        PROVE  Knows(c)
    <3> DEFINE o == [Asked("recover", d.id, d.text, None) EXCEPT !.claim = d.entry,
                                                                 !.todo = todo \ {d}]
    <3>1. o.claim = d.entry /\ o.todo = todo \ {d}
      BY DEF Asked
    <3>2. Goto(c, "walkDelete", o)
      BY <2>1
    <3> HIDE DEF o
    <3>3. pc'[c] = "walkDelete" /\ op'[c] = o
      BY <1>0, <3>2, GotoMoves, ZenonT(60)
    <3> QED
      BY <1>3, <3>1, <3>3, ZenonT(60) DEF Knows
  <2> QED
    BY <1>1, <1>3, <2>1, ZenonT(60) DEF NextDeletion
<1>4. ASSUME Targets(c)
      PROVE  EntryOf(op[c]) \in Intended /\ EntryOf(op[c]).entry = op[c].claim
             /\ EntryOf(op[c]).id = op[c].id
  BY <1>4, Zenon DEF Intended, Work, EntryOf
<1>5. CASE pc[c] \notin DeleteLabels
  <2>1. ClientEffect(c)
    BY <1>0, QueueRunEffect
  <2>2. op'[c].kind \notin {"delete", "recover"} /\ KindOf(c)'
    BY <1>0, <1>5, <2>1, ZenonT(60) DEF ClientEffect, KindOf
  <2>3. op'[c].todo = {} /\ pc'[c] \notin DeleteLabels
    BY <2>2, ZenonT(60) DEF KindOf
  <2> QED
    BY <2>3, Zenon DEF Knows, DeleteLabels
<1>6. CASE pc[c] = "listDelete" /\ ListDelete(c)
  <2>1. CASE NextDeletion(c, {d \in op[c].todo : ~InQueue(d.entry)})
    <3>1. op[c].todo \subseteq Intended
      BY DEF Intended, Work
    <3>2. \A d \in {d \in op[c].todo : ~InQueue(d.entry)} : Gone(d.entry)
      BY <3>1, AbsentGone, Zenon
    <3> QED
      BY <1>3, <2>1, <3>2, ZenonT(60)
  <2>2. ASSUME op[c].kind = "delete", {q \in Entries : q.entry = op[c].claim} = {},
               op[c].id # None, Goto(c, "walkDelete", op[c])
        PROVE  Knows(c)
    <3>1. Targets(c) /\ op[c].todo = {}
      BY <1>0, <1>6, <2>2, Zenon DEF Targets, KindOf, DeleteLabels
    <3>2. ~InQueue(op[c].claim)
      BY <2>2, ZenonT(60) DEF InQueue
    <3>3. Gone(op[c].claim)
      BY <1>4, <3>1, <3>2, AbsentGone, Zenon
    <3> QED
      BY <1>0, <2>2, <3>1, <3>3, GotoMoves DEF Knows
  <2>3. ASSUME op[c].kind = "delete", NEW q \in Entries,
               \/ Goto(c, "requestDelete", op[c])
               \/ Goto(c, "recordDelete", [op[c] EXCEPT !.id = q.id, !.text = q.text])
        PROVE  Knows(c)
    <3>1. op[c].todo = {}
      BY <1>0, <2>3, Zenon DEF KindOf
    <3> DEFINE o == [op[c] EXCEPT !.id = q.id, !.text = q.text]
    <3>2. o.todo = {}
      BY <1>0, <3>1, Zenon DEF Operation
    <3>3. Goto(c, "requestDelete", op[c]) \/ Goto(c, "recordDelete", o)
      BY <2>3
    <3> HIDE DEF o
    <3>4. pc'[c] \in {"requestDelete", "recordDelete"} /\ op'[c] \in {op[c], o}
      BY <1>0, <3>3, GotoMoves, ZenonT(60)
    <3> QED
      BY <3>1, <3>2, <3>4, ZenonT(60) DEF Knows
  <2> QED
    BY <1>1, <1>6, <2>1, <2>2, <2>3, ZenonT(60) DEF ListDelete
<1>7. CASE RecordDeletionAttempt(c) \/ RequestDelete(c)
  BY <1>1, <1>2, <1>7, ZenonT(60) DEF RecordDeletionAttempt, RequestDelete
<1>8. CASE AwaitDelete(c)
  <2>1. CASE Goto(c, "relistDelete", op[c])
    BY <1>2, <1>8, <2>1, Zenon DEF AwaitDelete
  <2>2. ASSUME NEW r \in queueReplies, r.by = c, r.ok, Goto(c, "completeDelete", op[c])
        PROVE  Knows(c)
    <3>1. Closed(op[c].claim)
      BY <1>8, <2>2, ZenonT(60) DEF Awaited, AwaitDelete
    <3>2. \A d \in op[c].todo : Gone(d.entry)
      BY <1>8, Zenon DEF Cancelling, AwaitDelete
    <3> QED
      BY <1>0, <2>2, <3>1, <3>2, GotoMoves DEF Knows
  <2> QED
    BY <1>8, <2>1, <2>2, Zenon DEF AwaitDelete
<1>9. CASE RelistDelete(c)
  <2>1. ASSUME ~InQueue(op[c].claim), Goto(c, "walkDelete", op[c])
        PROVE  Knows(c)
    <3>1. Targets(c) /\ \A d \in op[c].todo : Gone(d.entry)
      BY <1>0, <1>9, LabelsName, ZenonT(60) DEF RelistDelete, DeleteLabels, Cancelling
    <3>2. Gone(op[c].claim)
      BY <1>4, <2>1, <3>1, AbsentGone, ZenonT(60)
    <3> QED
      BY <1>0, <2>1, <3>1, <3>2, GotoMoves DEF Knows
  <2> QED
    BY <1>1, <1>9, <2>1, Zenon DEF RelistDelete
<1>10. CASE WalkDelete(c)
  <2>1. ASSUME Newest(op[c].id) = {}, Goto(c, "completeDelete", op[c])
        PROVE  Knows(c)
    <3>1. Targets(c) /\ Gone(op[c].claim) /\ \A d \in op[c].todo : Gone(d.entry)
      BY <1>0, <1>10, LabelsName, ZenonT(60) DEF WalkDelete, DeleteLabels, Cancelling
    <3>2. Closed(op[c].claim)
      BY <1>4, <2>1, <3>1, UnstartedClosed, ZenonT(60)
    <3> QED
      BY <1>0, <2>1, <3>1, <3>2, GotoMoves, ZenonT(60) DEF Knows
  <2>2. CASE pc[c] = "walkDelete" /\ Goto(c, "clearStarted", op[c])
    BY <1>2, <2>2, ZenonT(60)
  <2> QED
    BY <1>1, <1>10, <2>1, <2>2, ZenonT(60) DEF WalkDelete
<1>11. CASE CompleteDelete(c)
  BY <1>1, <1>2, <1>11, ZenonT(60) DEF CompleteDelete
<1>12. CASE ClearDelete(c)
  <2>1. \A d \in op[c].todo : Gone(d.entry)
    BY <1>12, Zenon DEF Cancelling, ClearDelete
  <2> QED
    BY <1>1, <1>3, <1>12, <2>1, ZenonT(60) DEF ClearDelete
<1>13. CASE ListQueued(c) \/ WalkQueued(c) \/ RecordQueueAttempt(c) \/ AddQueue(c) \/ AwaitAdd(c)
  BY <1>5, <1>13, Zenon DEF ListQueued, WalkQueued, RecordQueueAttempt, AddQueue, AwaitAdd, DeleteLabels
<1> QED
  BY <1>6, <1>7, <1>8, <1>9, <1>10, <1>11, <1>12, <1>13, ZenonT(60) DEF QueueRun, ListDelete

(* Every client goes on knowing its entries as gone or closed.             *)
LEMMA CancellingStep ==
  ASSUME QueueBase, Shown, StartedShown, Awaited, \A c \in Clients : Cancelling(c),
         [QueueNext]_allVars
  PROVE  \A c \in Clients : Cancelling(c)'
<1>0. QueueTyped /\ TypeInv
  BY DEF QueueBase, QueueTyped
<1> SUFFICES ASSUME NEW c \in Clients PROVE Cancelling(c)'
  OBVIOUS
<1>1. ASSUME Knows(c) PROVE Cancelling(c)'
  <2>1. pc'[c] = "walkDelete" => Gone(op[c].claim)'
    <3>1. ASSUME NEW k, k = op'[c].claim, Gone(k) PROVE Gone(op[c].claim)'
      BY <3>1, GoneStays, Zenon DEF Gone
    <3> QED
      BY <1>1, <3>1, ZenonT(60) DEF Knows
  <2>2. pc'[c] = "completeDelete" => Closed(op[c].claim)'
    <3>1. ASSUME NEW k, k = op'[c].claim, Closed(k) PROVE Closed(op[c].claim)'
      <4>1. Closed(k)'
        BY <3>1, ClosedStays
      <4> QED
        BY <3>1, <4>1, ZenonT(60) DEF Closed, Gone, Used
    <3> QED
      BY <1>1, <3>1, Zenon DEF Knows
  <2>3. pc'[c] # "listDelete" => \A d \in op'[c].todo : Gone(d.entry)'
    BY <1>1, GoneStays, ZenonT(60) DEF Knows
  <2> QED
    BY <2>1, <2>2, <2>3, ZenonT(60) DEF Cancelling
<1>2. ASSUME pc'[c] = pc[c], op'[c] = op[c] PROVE Cancelling(c)'
  BY <1>1, <1>2, ZenonT(60) DEF Knows, Cancelling
<1>3. CASE [Next]_vars
  BY <1>0, <1>1, <1>2, <1>3, MessageSteps, ZenonT(60) DEF MessageEffect, Messaging, MessageLabels, DeleteLabels, Knows
<1>4. ASSUME NEW d \in Clients, QueueCall(d) PROVE Cancelling(c)'
  <2>1. CallEffect(d)
    BY <1>0, <1>4, QueueCallEffect, ZenonT(60)
  <2>2. pc'[d] \in {"listQueued", "recordQueue", "listDelete"}
    BY <1>0, <1>4, ZenonT(60) DEF QueueCall, BeginQueue, BeginDelete, BeginRecover, TypeInv, TypeOK
  <2>3. CASE d = c
    BY <1>1, <2>1, <2>2, <2>3, ZenonT(60) DEF CallEffect, KindOf, DeleteLabels, Knows
  <2> QED
    BY <1>2, <2>1, <2>3, ZenonT(60) DEF CallEffect, Only
<1>5. ASSUME NEW d \in Clients, QueueRun(d) PROVE Cancelling(c)'
  <2>1. CASE d = c
    BY <1>1, <1>5, <2>1, RunKnows
  <2>2. CASE d # c
    BY <1>0, <1>2, <1>5, <2>2, QueueRunEffect, ZenonT(60) DEF ClientEffect, Only
  <2> QED
    BY <2>1, <2>2
<1>6. CASE NativeQueue
  BY <1>2, <1>6 DEF NativeQueue, clientVars
<1> QED
  BY <1>3, <1>4, <1>5, <1>6, QueueSteps, MessagesAreDelivery, CrashIsDelivery, ZenonT(60)

(* A completion is called for a closed entry.                              *)
LEMMA CompletedStep ==
  ASSUME QueueBase, \A c \in Clients : Cancelling(c), \A k \in completed : Closed(k),
         [QueueNext]_allVars
  PROVE  \A k \in completed' : Closed(k)'
<1>0. QueueTyped /\ TypeInv
  BY DEF QueueBase, QueueTyped
<1>1. ASSUME \A k \in completed' : Closed(k)
      PROVE  \A k \in completed' : Closed(k)'
  BY <1>1, ClosedStays
<1>2. CASE completed' = completed
  BY <1>1, <1>2
<1>3. ASSUME NEW c \in Clients, QueueRun(c)
      PROVE  \A k \in completed' : Closed(k)
  <2>1. QueueWriting(c)
    BY <1>0, <1>3, QueueRunState
  <2>2. \/ completed' = completed
        \/ pc[c] = "completeDelete" /\ completed' = completed \cup {op[c].claim}
    BY <2>1, Zenon DEF QueueWriting
  <2> QED
    BY <2>2 DEF Cancelling
<1>4. CASE NativeQueue
  BY <1>2, <1>4, NativeServes, ZenonT(60) DEF QueueBase
<1>5. ASSUME NEW c \in Clients, QueueCall(c) \/ QueueCrash(c)
      PROVE  completed' = completed
  BY <1>0, <1>5, QueueCallEffect, CrashIsDelivery, ZenonT(60) DEF CallEffect, queueVars
<1> QED
  BY <1>1, <1>2, <1>3, <1>4, <1>5, QueueSteps DEF MessageAlone, queueVars

(* The native queue answers a waiting client, and acknowledges a deletion  *)
(* only when it took the entry out of the queue.                           *)
LEMMA NativeReplies ==
  ASSUME QueueBase, NativeQueue
  PROVE  /\ queueWire' \subseteq queueWire
         /\ \A r \in queueReplies' : r \in queueReplies \/ \E q \in queueWire :
              /\ q.by # None /\ r.by = q.by
              /\ q.kind = "delete" /\ r.ok => Closed(q.entry)'
<1>0. /\ QueueTyped /\ queueWire \subseteq QueueRequest /\ Distinct
      /\ claims \in Nat /\ claims' = claims
      /\ UNCHANGED <<pc, op, wire, replies>>
  BY NativeServes, UsedDrawn, Zenon DEF QueueBase, QueueTyped, EntriesExclusive
<1>1. ASSUME NEW q \in queueWire, NEW n \in 1..Len(backlog), backlog[n].entry = q.entry,
             backlog' = Without(backlog, n), queueWire' = queueWire \ {q}, delivered' = delivered
      PROVE  Closed(q.entry)'
  <2>1. backlog[n] \in Entries
    BY Zenon DEF Entries
  <2>2. backlog[n] \in Waiting /\ backlog[n] \in Mentioned
    BY <2>1, Zenon DEF Waiting, Mentioned
  <2>3. q.entry \in Nat /\ q.entry <= claims
    BY <1>0, <1>1, <2>2 DEF QueueRequest, QueueBase, EntriesDrawn
  <2>4. \A e \in Entries' : e.entry # q.entry
    BY <1>0, <1>1, RemoveEntries, ZenonT(60)
  <2>5. \A a \in Adding' : EntryOfRequest(a).entry # q.entry
    <3>1. Adding' \subseteq Adding
      BY <1>1, Zenon DEF Adding
    <3>2. \A a \in Adding : a.entry # q.entry
      BY <1>1, <2>1, Zenon DEF QueueBase, EntriesExclusive
    <3> QED
      BY <3>1, <3>2, ZenonT(60) DEF EntryOfRequest
  <2>6. ~Used(q.entry)'
    BY <1>0, <1>1, <2>2, ZenonT(60) DEF QueueBase, EntriesExclusive, Used, Holds
  <2>7. \A m \in delivered' : m.claim # q.entry
    BY <1>1, <2>2, ZenonT(60) DEF QueueBase, EntriesExclusive
  <2> QED
    BY <1>0, <2>3, <2>4, <2>5, <2>6, <2>7, ZenonT(60) DEF Closed, Gone, Waiting
<1>2. ASSUME NEW q \in queueWire, NEW ok, ReplyTo(q, ok), NEW r \in queueReplies',
             r \notin queueReplies
      PROVE  q.by # None /\ r.by = q.by /\ r.ok = ok
  <2>1. q.by # None /\ r = [entry |-> q.entry, ok |-> ok, by |-> q.by]
    BY <1>2, Zenon DEF ReplyTo
  <2> QED
    BY <2>1, Zenon
<1>3. CASE StartHead
  BY <1>3, Zenon DEF StartHead
<1>4. ASSUME NEW q \in queueWire, ServeAdd(q) \/ ServeDelete(q) \/ LoseQueueRequest(q),
             delivered' = delivered, NEW r \in queueReplies', r \notin queueReplies
      PROVE  /\ q.by # None /\ r.by = q.by
             /\ q.kind = "delete" /\ r.ok => Closed(q.entry)'
  <2>1. CASE ServeAdd(q)
    BY <1>2, <1>4, <2>1, Zenon DEF ServeAdd
  <2>2. CASE ReplyTo(q, FALSE)
    BY <1>2, <1>4, <2>2, ZenonT(60)
  <2>3. ASSUME NEW n \in 1..Len(backlog), backlog[n].entry = q.entry,
               backlog' = Without(backlog, n), ReplyTo(q, TRUE), queueWire' = queueWire \ {q}
        PROVE  /\ q.by # None /\ r.by = q.by /\ Closed(q.entry)'
    BY <1>1, <1>2, <1>4, <2>3, Zenon
  <2>4. ~LoseQueueRequest(q)
    BY <1>4 DEF LoseQueueRequest
  <2>5. ServeDelete(q) => \/ ReplyTo(q, FALSE)
                          \/ \E n \in 1..Len(backlog) :
                               /\ backlog[n].entry = q.entry /\ backlog' = Without(backlog, n)
                               /\ ReplyTo(q, TRUE) /\ queueWire' = queueWire \ {q}
    BY ZenonT(60) DEF ServeDelete, Without
  <2> QED
    BY <1>4, <2>1, <2>2, <2>3, <2>4, <2>5, ZenonT(60)
<1>5. ASSUME ServeQueue
      PROVE  queueWire' \subseteq queueWire /\ delivered' = delivered
  BY <1>5, ZenonT(60) DEF ServeQueue, ServeAdd, ServeDelete, LoseQueueRequest, serverVars
<1> QED
  BY <1>3, <1>4, <1>5, ZenonT(60) DEF NativeQueue, ServeQueue

(* A client that waits for the queue takes no step of Delivery.            *)
LEMMA MessagesWait ==
  ASSUME QueueTyped, MessageAlone, NEW c \in Clients, pc[c] \in {"awaitAdd", "awaitDelete"}
  PROVE  pc'[c] = pc[c] /\ op'[c] = op[c]
<1>0. TypeInv /\ pc \in [Clients -> Label] /\ op \in [Clients -> Operation]
  BY DEF QueueTyped, TypeInv, TypeOK
<1>1. ASSUME NEW d \in Clients, Run(d)
      PROVE  pc'[c] = pc[c] /\ op'[c] = op[c]
  BY <1>0, <1>1, RunKeepsCall, ZenonT(60) DEF KeepsCall, Only, MessageLabels, QueueLabels, DeleteLabels
<1>2. ASSUME NEW d \in Clients, Call(d)
      PROVE  pc'[c] = pc[c] /\ op'[c] = op[c]
  <2>1. pc[d] = "idle"
    BY <1>2 DEF Call, BeginAcknowledge, BeginSend, BeginReconcile, Begin, BeginAttempted, Discard,
       Prepare
  <2>2. \A b \in Clients \ {d} : pc'[b] = pc[b] /\ op'[b] = op[b]
    BY <1>0, <1>2 DEF Call, BeginAcknowledge, BeginSend, BeginReconcile, Begin, BeginAttempted,
       Discard, Prepare, clientVars
  <2> QED
    BY <2>1, <2>2, Zenon
<1>3. ASSUME NEW d \in Clients, MessageCall(d)
      PROVE  Call(d)
  BY <1>3, Zenon DEF MessageCall, Call
<1>4. CASE Native \/ ClearQueueRetired \/ UNCHANGED vars
  BY <1>4, Zenon DEF Native, ClearQueueRetired, ClearRetired, vars, clientVars
<1> QED
  BY <1>1, <1>2, <1>3, <1>4, Zenon DEF MessageAlone, MessageStep

(* Requests and replies keep their waiting client.                         *)
LEMMA AwaitedStep ==
  ASSUME QueueBase, Awaited, [QueueNext]_allVars
  PROVE  Awaited'
<1>0. /\ QueueTyped /\ TypeInv /\ queueWire \subseteq QueueRequest
      /\ queueReplies \subseteq QueueReply
  BY Zenon DEF QueueBase, QueueTyped
<1> DEFINE Same(d) == pc'[d] = pc[d] /\ op'[d] = op[d]
<1>1. ASSUME NEW k, NEW d, k = op'[d].claim, Closed(k)'
      PROVE  Closed(op[d].claim)'
  BY <1>1, Zenon DEF Closed, Gone, Used
<1>2. ASSUME NEW r \in queueReplies, Same(r.by), pc'[r.by] = "awaitDelete", r.ok
      PROVE  Closed(op[r.by].claim)'
  <2> DEFINE k == op[r.by].claim
  <2>1. PICK j : j = k
    BY Zenon
  <2>2. Closed(j)
    BY <1>2, <2>1, ZenonT(60) DEF Awaited
  <2>3. Closed(j)'
    BY <2>2, ClosedStays
  <2> QED
    BY <1>1, <1>2, <2>1, <2>3, ZenonT(60)
<1>3. ASSUME \A q \in queueWire' : q.by # None =>
               \/ q \in queueWire /\ Same(q.by)
               \/ q.kind = "add" /\ pc'[q.by] = "awaitAdd"
               \/ q.kind = "delete" /\ pc'[q.by] = "awaitDelete" /\ q.entry = op'[q.by].claim,
             \A r \in queueReplies' : r \in queueReplies /\ Same(r.by)
      PROVE  Awaited'
  <2>1. ASSUME NEW q \in queueWire', q.by # None
        PROVE  /\ q.kind = "add" => pc'[q.by] = "awaitAdd"
               /\ q.kind = "delete" => pc'[q.by] = "awaitDelete" /\ q.entry = op'[q.by].claim
    BY <1>3, <2>1, ZenonT(60) DEF Awaited
  <2>2. ASSUME NEW r \in queueReplies'
        PROVE  /\ pc'[r.by] \in {"awaitAdd", "awaitDelete"}
               /\ pc'[r.by] = "awaitDelete" /\ r.ok => Closed(op[r.by].claim)'
    BY <1>2, <1>3, ZenonT(60) DEF Awaited
  <2> QED
    BY <2>1, <2>2, Zenon DEF Awaited
<1>4. ASSUME NEW q \in queueWire, q.by # None
      PROVE  q.by \in Clients /\ pc[q.by] \in {"awaitAdd", "awaitDelete"}
  BY <1>0, <1>4, ZenonT(60) DEF QueueRequest, Awaited
<1>5. ASSUME NEW r \in queueReplies
      PROVE  r.by \in Clients /\ pc[r.by] \in {"awaitAdd", "awaitDelete"}
  BY <1>0, Zenon DEF QueueReply, Awaited
<1>6. CASE MessageAlone
  <2>1. queueWire' = queueWire /\ queueReplies' = queueReplies
    BY <1>6, Zenon DEF MessageAlone, queueVars
  <2>2. \A d \in Clients : pc[d] \in {"awaitAdd", "awaitDelete"} => Same(d)
    BY <1>0, <1>6, MessagesWait, ZenonT(60)
  <2> QED
    BY <1>3, <1>4, <1>5, <2>1, <2>2, ZenonT(60)
<1>7. ASSUME NEW c \in Clients, \A d \in Clients \ {c} : Same(d), StopWaiting(c)
      PROVE  Awaited'
  <2>1. ASSUME NEW q \in queueWire', q.by # None
        PROVE  q \in queueWire /\ Same(q.by)
    <3>1. PICK p \in queueWire : q = IF p.by = c THEN [p EXCEPT !.by = None] ELSE p
      BY <1>7 DEF StopWaiting
    <3>2. p.by # c
      BY <1>0, <2>1, <3>1 DEF QueueRequest
    <3> QED
      BY <1>4, <1>7, <2>1, <3>1, <3>2
  <2>2. ASSUME NEW r \in queueReplies'
        PROVE  r \in queueReplies /\ Same(r.by)
    BY <1>5, <1>7 DEF StopWaiting
  <2> QED
    BY <1>3, <2>1, <2>2, ZenonT(60)
<1>8. ASSUME NEW c \in Clients, QueueCrash(c)
      PROVE  Awaited'
  <2>1. \A d \in Clients \ {c} : Same(d)
    BY <1>0, <1>8, Zenon DEF QueueCrash, Crash, TypeInv, TypeOK
  <2> QED
    BY <1>7, <1>8, <2>1, ZenonT(60) DEF QueueCrash
<1>9. ASSUME NEW c \in Clients, QueueCall(c)
      PROVE  Awaited'
  <2>1. CallEffect(c)
    BY <1>0, <1>9, QueueCallEffect
  <2>2. /\ queueWire' = queueWire /\ queueReplies' = queueReplies /\ pc[c] = "idle"
        /\ \A d \in Clients \ {c} : Same(d)
    BY <2>1, ZenonT(60) DEF CallEffect, queueVars, Only
  <2> QED
    BY <1>3, <1>4, <1>5, <2>2, ZenonT(60)
<1>10. ASSUME NEW c \in Clients, QueueRun(c)
       PROVE  Awaited'
  <2>1. QueueWriting(c) /\ \A d \in Clients \ {c} : Same(d)
    BY <1>0, <1>10, QueueRunState, QueueRunEffect, ZenonT(60) DEF ClientEffect, Only
  <2>2. CASE pc[c] \in {"awaitAdd", "awaitDelete"}
    <3>1. StopWaiting(c)
      BY <1>10, <2>2, ZenonT(60) DEF QueueRun, ListQueued, WalkQueued, RecordQueueAttempt, AddQueue,
         AwaitAdd, ListDelete, RecordDeletionAttempt, RequestDelete, AwaitDelete, RelistDelete,
         WalkDelete, CompleteDelete, ClearDelete
    <3> QED
      BY <1>7, <2>1, <3>1, ZenonT(60)
  <2>3. CASE pc[c] \notin {"awaitAdd", "awaitDelete"} /\ UNCHANGED <<queueWire, queueReplies>>
    BY <1>3, <1>4, <1>5, <2>1, <2>3, Zenon
  <2>4. ASSUME NEW by \in {c, None}, pc[c] = "addQueue", claims < MaxClaims, claims' = claims + 1,
               by = c => pc'[c] = "awaitAdd",
               queueWire' = queueWire \cup {RequestOf(by, "add", [op[c] EXCEPT !.claim = claims'])},
               queueReplies' = queueReplies
        PROVE  Awaited'
    <3> DEFINE q == RequestOf(by, "add", [op[c] EXCEPT !.claim = claims'])
    <3>1. q.kind = "add" /\ q.by = by
      BY <1>0, <2>4, FreshAddition, Zenon
    <3>2. queueWire' = queueWire \cup {q}
      BY <2>4
    <3> HIDE DEF q
    <3>3. \A p \in queueWire' : p.by # None =>
            \/ p \in queueWire /\ Same(p.by)
            \/ p.kind = "add" /\ pc'[p.by] = "awaitAdd"
      BY <1>4, <2>1, <2>4, <3>1, <3>2, Zenon
    <3>4. \A r \in queueReplies' : r \in queueReplies /\ Same(r.by)
      BY <1>5, <2>1, <2>4, Zenon
    <3> QED
      BY <1>3, <3>3, <3>4, ZenonT(60)
  <2>5. ASSUME NEW by \in {c, None}, pc[c] = "requestDelete",
               by = c => pc'[c] = "awaitDelete" /\ op'[c] = op[c],
               queueWire' = queueWire \cup {RequestOf(by, "delete", op[c])},
               queueReplies' = queueReplies
        PROVE  Awaited'
    <3> DEFINE q == RequestOf(by, "delete", op[c])
    <3>1. q.kind = "delete" /\ q.by = by /\ q.entry = op[c].claim
      BY Zenon DEF RequestOf
    <3>2. queueWire' = queueWire \cup {q}
      BY <2>5, Zenon
    <3> HIDE DEF q
    <3>3. \A p \in queueWire' : p.by # None =>
            \/ p \in queueWire /\ Same(p.by)
            \/ p.kind = "delete" /\ pc'[p.by] = "awaitDelete" /\ p.entry = op'[p.by].claim
      BY <1>4, <2>1, <2>5, <3>1, <3>2, ZenonT(60)
    <3>4. \A r \in queueReplies' : r \in queueReplies /\ Same(r.by)
      BY <1>5, <2>1, <2>5, Zenon
    <3> QED
      BY <1>3, <3>3, <3>4, Zenon
  <2> QED
    BY <2>1, <2>2, <2>3, <2>4, <2>5, ZenonT(60) DEF QueueWriting
<1>11. CASE NativeQueue
  <2>1. /\ queueWire' \subseteq queueWire /\ pc' = pc /\ op' = op
        /\ \A r \in queueReplies' : r \in queueReplies \/ \E q \in queueWire :
             /\ q.by # None /\ r.by = q.by
             /\ q.kind = "delete" /\ r.ok => Closed(q.entry)'
    BY <1>11, NativeReplies, Zenon DEF NativeQueue, clientVars
  <2>2. ASSUME NEW q \in queueWire', q.by # None
        PROVE  /\ q.kind = "add" => pc'[q.by] = "awaitAdd"
               /\ q.kind = "delete" => pc'[q.by] = "awaitDelete" /\ q.entry = op'[q.by].claim
    BY <2>1, <2>2, Zenon DEF Awaited
  <2>3. ASSUME NEW r \in queueReplies'
        PROVE  /\ pc'[r.by] \in {"awaitAdd", "awaitDelete"}
               /\ pc'[r.by] = "awaitDelete" /\ r.ok => Closed(op[r.by].claim)'
    <3>1. CASE r \in queueReplies
      BY <1>2, <1>5, <2>1, <3>1, ZenonT(60)
    <3>2. ASSUME NEW q \in queueWire, q.by # None, r.by = q.by,
                 q.kind = "delete" /\ r.ok => Closed(q.entry)'
          PROVE  /\ pc'[r.by] \in {"awaitAdd", "awaitDelete"}
                 /\ pc'[r.by] = "awaitDelete" /\ r.ok => Closed(op[r.by].claim)'
      <4>1. q.kind \in {"add", "delete"}
        BY <1>0 DEF QueueRequest
      <4>2. pc[r.by] = "awaitDelete" => q.kind = "delete" /\ q.entry = op'[r.by].claim
        BY <2>1, <3>2, <4>1, ZenonT(60) DEF Awaited
      <4> QED
        BY <1>1, <1>4, <2>1, <3>2, <4>2, Zenon
    <3> QED
      BY <2>1, <3>1, <3>2, ZenonT(60)
  <2> QED
    BY <2>2, <2>3, Zenon DEF Awaited
<1> QED
  BY <1>6, <1>8, <1>9, <1>10, <1>11, QueueSteps

(* The inductive invariant of cancellation.                                *)
CancelInv ==
  /\ QueueBase /\ visible \subseteq delivered /\ Shown /\ StartedShown /\ Awaited
  /\ \A c \in Clients : Cancelling(c)
  /\ \A k \in completed : Closed(k)

(* A message whose deletion was completed never runs, for any number of    *)
(* clients, deletions, recoveries, crashes and lost requests, as long as   *)
(* history shows a started entry at once (DeleteQueueEntryWithCompletion,  *)
(* finishAbsentQueueDeletion).                                             *)
THEOREM CancelledStaysCancelled ==
  ASSUME Lag = FALSE
  PROVE  QueueSpec => []CancelledNeverStarts
<1>1. ASSUME QueueInit PROVE CancelInv
  <2>1. /\ QueueBase /\ Mentioned = {}
        /\ \A c \in Clients : pc[c] = "idle" /\ op[c] = NoOperation
    BY <1>1, QueueBaseInitially, Zenon
  <2>2. visible = {} /\ delivered = {} /\ completed = {} /\ queueWire = {} /\ queueReplies = {}
    BY <1>1, Zenon DEF QueueInit, Init, ServerInit
  <2>3. \A c \in Clients : Cancelling(c)
    BY <2>1 DEF Cancelling, NoOperation, Asked
  <2> QED
    BY <2>1, <2>2, <2>3, ZenonT(60) DEF CancelInv, Shown, StartedShown, Awaited
<1>2. CancelInv /\ [QueueNext]_allVars => CancelInv'
  <2> SUFFICES ASSUME CancelInv, [QueueNext]_allVars PROVE CancelInv'
    OBVIOUS
  <2>1. QueueBase' /\ visible' \subseteq delivered'
    BY QueueBaseStep, ServerShows DEF CancelInv
  <2>2. Shown' /\ StartedShown' /\ Awaited'
    BY ShownStep, StartedShownStep, AwaitedStep, Zenon DEF CancelInv, QueueBase
  <2>3. (\A c \in Clients : Cancelling(c)') /\ \A k \in completed' : Closed(k)'
    BY CancellingStep, CompletedStep DEF CancelInv
  <2> QED
    BY <2>1, <2>2, <2>3, Zenon DEF CancelInv
<1>3. CancelInv => CancelledNeverStarts
  BY DEF CancelInv, Closed, CancelledNeverStarts
<1> QED
  BY <1>1, <1>2, <1>3, PTL DEF QueueSpec
==============================================================================
