----------------------------- MODULE QueueProofs -----------------------------
(***************************************************************************)
(* What the theorems about QueueDelivery rest on, for every set of         *)
(* clients, identities and texts, every choice of calls and every bound.   *)
(*                                                                         *)
(* The invariants come in layers, each used by the next.  QueueTyped gives *)
(* types, and which call a client runs at which label.  QueueBase adds     *)
(* that the number of a queue entry belongs to one entry and to no direct  *)
(* send.  QueueSubmissionProofs and QueueCancelProofs build on them.       *)
(***************************************************************************)
EXTENDS QueueDelivery, DeliveryProofs

(* The number drawn next is above the numbers drawn.                       *)
LEMMA NextNumber == \A n \in Nat, k \in Nat : k <= n => k <= n + 1 /\ k # n + 1
OBVIOUS

(***************************************************************************)
(* The control of the queue operations.                                    *)
(***************************************************************************)
QueueLabels == {"recordQueue", "addQueue", "awaitAdd"}

DeleteLabels ==
  {"listDelete", "recordDelete", "requestDelete", "awaitDelete", "relistDelete",
   "walkDelete", "completeDelete", "clearDelete", "clearStarted"}

LookupLabels == {"listQueued", "walkQueued"}

(* The deletion works on an entry whose message it knows.                  *)
Targets(c) == pc[c] \in DeleteLabels /\ op[c].id # None

(* The entries it has to finish, with the one it works on.                 *)
Work(c) == op[c].todo \cup (IF Targets(c) THEN {EntryOf(op[c])} ELSE {})

(* Which call a client runs at which label.                                *)
KindOf(c) ==
  /\ pc[c] \in QueueLabels => op[c].kind = "queue"
  /\ pc[c] \in DeleteLabels => op[c].kind \in {"delete", "recover"}
  /\ op[c].kind = "queue" => pc[c] \in QueueLabels \cup LookupLabels
  /\ op[c].kind \in {"delete", "recover"} => pc[c] \in DeleteLabels
  /\ op[c].kind # "recover" => op[c].todo = {}
  /\ Targets(c) => op[c].id \in Ids /\ op[c].text \in Texts /\ op[c].claim # 0

Kinds == \A c \in Clients : KindOf(c)

QueueTyped ==
  /\ TypeInv
  /\ backlog \in Seq(QueueEntry)
  /\ queueWire \subseteq QueueRequest
  /\ queueReplies \subseteq QueueReply
  /\ completed \subseteq 1..MaxClaims
  /\ Kinds

(***************************************************************************)
(* Sequences.                                                              *)
(***************************************************************************)

(* The elements of a concatenation.                                        *)
LEMMA Concatenation ==
  ASSUME NEW S, NEW a \in Seq(S), NEW b \in Seq(S)
  PROVE  /\ (a \o b) \in Seq(S) /\ Len(a \o b) = Len(a) + Len(b)
         /\ \A k \in 1..(Len(a) + Len(b)) :
              (a \o b)[k] = IF k <= Len(a) THEN a[k] ELSE b[k - Len(a)]
<1>1. (a \o b) \in Seq(S) /\ Len(a \o b) = Len(a) + Len(b)
  OBVIOUS
<1>2. \A k \in 1..(Len(a) + Len(b)) :
        (a \o b)[k] = IF k <= Len(a) THEN a[k] ELSE b[k - Len(a)]
  OBVIOUS
<1> QED
  BY <1>1, <1>2

(* What the removal of one element leaves.                                 *)
Without(s, n) == SubSeq(s, 1, n - 1) \o SubSeq(s, n + 1, Len(s))

(* It leaves the others, in their order.                                   *)
LEMMA Removal ==
  ASSUME NEW S, NEW s \in Seq(S), NEW n \in 1..Len(s)
  PROVE  /\ Without(s, n) \in Seq(S)
         /\ Len(Without(s, n)) = Len(s) - 1
         /\ \A k \in 1..(Len(s) - 1) :
              Without(s, n)[k] = IF k < n THEN s[k] ELSE s[k + 1]
<1> DEFINE a == SubSeq(s, 1, n - 1)
           b == SubSeq(s, n + 1, Len(s))
<1>1. a \in Seq(S) /\ Len(a) = n - 1 /\ \A k \in 1..(n - 1) : a[k] = s[k]
  OBVIOUS
<1>2. b \in Seq(S) /\ Len(b) = Len(s) - n /\ \A k \in 1..(Len(s) - n) : b[k] = s[n + k]
  OBVIOUS
<1>3. Without(s, n) = a \o b
  BY DEF Without
<1> HIDE DEF a, b
<1>4. a \in Seq(S) /\ b \in Seq(S)
  BY <1>1, <1>2
<1>5. /\ (a \o b) \in Seq(S) /\ Len(a \o b) = Len(a) + Len(b)
      /\ \A k \in 1..(Len(a) + Len(b)) :
           (a \o b)[k] = IF k <= Len(a) THEN a[k] ELSE b[k - Len(a)]
  BY <1>4, Concatenation
<1>6. Len(s) \in Nat /\ n \in Nat
  OBVIOUS
<1>7. ASSUME NEW k \in 1..(Len(s) - 1)
      PROVE  (a \o b)[k] = IF k < n THEN s[k] ELSE s[k + 1]
  <2>1. CASE k < n
    BY <1>1, <1>2, <1>5, <1>6, <2>1
  <2>2. CASE ~(k < n)
    <3>1. k - (n - 1) \in 1..(Len(s) - n) /\ n + (k - (n - 1)) = k + 1 /\ ~(k <= n - 1)
      BY <1>6, <2>2
    <3>2. (a \o b)[k] = b[k - (n - 1)]
      BY <1>1, <1>2, <1>5, <1>6, <3>1, SMTT(60)
    <3> QED
      BY <1>2, <2>2, <3>1, <3>2, Zenon
  <2> QED
    BY <2>1, <2>2, Zenon
<1> QED
  BY <1>1, <1>2, <1>3, <1>5, <1>6, <1>7, SMTT(60)

(* The entries of the queue have their type.                               *)
LEMMA EntriesAt ==
  ASSUME QueueTyped
  PROVE  /\ Entries = {backlog[n] : n \in 1..Len(backlog)}
         /\ Entries \subseteq QueueEntry
BY DEF QueueTyped, Entries

(***************************************************************************)
(* Typing.                                                                 *)
(***************************************************************************)

(* The step moves one client.                                              *)
Only(c) == \A d \in Clients \ {c} : pc'[d] = pc[d] /\ op'[d] = op[d]

(* Where a step leaves the client that goes on, and the one that returns.  *)
LEMMA GotoMoves ==
  ASSUME TypeInv, NEW c \in Clients, NEW label, NEW o, Goto(c, label, o)
  PROVE  Only(c) /\ pc'[c] = label /\ op'[c] = o
BY DEF TypeInv, TypeOK, Goto, Only

(* The same of a client that returns.                                      *)
LEMMA ReturnMoves ==
  ASSUME TypeInv, NEW c \in Clients, NEW kind, NEW turn, Return(c, kind, turn)
  PROVE  Only(c) /\ pc'[c] = "idle" /\ op'[c] = NoOperation
BY DEF TypeInv, TypeOK, Return, Only

(* What the labels and kinds of the other clients say stays.               *)
LEMMA KindsKept ==
  ASSUME Kinds, NEW c \in Clients, Only(c), KindOf(c)'
  PROVE  Kinds'
BY DEF Kinds, Only, KindOf, Targets

(* A client that has returned runs no call.                                *)
LEMMA IdleKind ==
  ASSUME NEW c \in Clients, pc'[c] = "idle", op'[c] = NoOperation
  PROVE  KindOf(c)'
BY DEF KindOf, Targets, NoOperation, Asked, QueueLabels, DeleteLabels, LookupLabels

(* The calls of the queue are operations, whatever entries they name.      *)
LEMMA QueueOperations ==
  ASSUME NEW kind \in {"queue", "delete", "recover"},
         NEW i \in Ids \cup {None}, NEW t \in Texts \cup {None}
  PROVE  /\ Asked(kind, i, t, None) \in Operation
         /\ Asked(kind, i, t, None).kind = kind
         /\ Asked(kind, i, t, None).id = i
         /\ Asked(kind, i, t, None).text = t
         /\ Asked(kind, i, t, None).todo = {}
         /\ Asked(kind, i, t, None).claim = 0
BY AttemptTypes, LedgerAssumption DEF Asked, Operation

(* Updates of the entry, of the list of deletions and of the message.      *)
LEMMA ClaimUpdate ==
  ASSUME NEW o \in Operation, NEW k \in 0..MaxClaims
  PROVE  /\ [o EXCEPT !.claim = k] \in Operation
         /\ [o EXCEPT !.claim = k].kind = o.kind
         /\ [o EXCEPT !.claim = k].id = o.id
         /\ [o EXCEPT !.claim = k].text = o.text
         /\ [o EXCEPT !.claim = k].todo = o.todo
         /\ [o EXCEPT !.claim = k].claim = k
BY Zenon DEF Operation

(* The remaining deletions of an operation can be replaced.                *)
LEMMA TodoUpdate ==
  ASSUME NEW o \in Operation, NEW ds \in SUBSET QueueEntry
  PROVE  /\ [o EXCEPT !.todo = ds] \in Operation
         /\ [o EXCEPT !.todo = ds].kind = o.kind
         /\ [o EXCEPT !.todo = ds].id = o.id
         /\ [o EXCEPT !.todo = ds].text = o.text
         /\ [o EXCEPT !.todo = ds].todo = ds
         /\ [o EXCEPT !.todo = ds].claim = o.claim
BY Zenon DEF Operation

(* What a step of a queue operation does to its client: another client is  *)
(* left alone, no admission claim moves, and the entries it works on are   *)
(* among those it had or found in the queue.                               *)
ClientEffect(c) ==
  /\ Only(c)
  /\ ClientTyped'
  /\ KindOf(c)'
  /\ op'[c].kind \in {"none", op[c].kind}
  /\ pc'[c] \notin Holding
  /\ Work(c)' \subseteq Work(c) \cup Entries

(* A client that returns.                                                  *)
LEMMA Returns ==
  ASSUME QueueTyped, NEW c \in Clients,
         NEW kind \in {"queued", "unknown", "failed", "done"}, Return(c, kind, 0)
  PROVE  ClientEffect(c)
<1>1. ClientTyped'
  BY ReturnType, LedgerAssumption DEF QueueTyped, ClientTyped
<1>2. Only(c) /\ pc'[c] = "idle" /\ op'[c] = NoOperation
  BY ReturnMoves DEF QueueTyped
<1>3. KindOf(c)'
  BY <1>2, IdleKind
<1>4. op'[c].kind = "none" /\ op'[c].todo = {} /\ ~Targets(c)' /\ pc'[c] \notin Holding
  BY <1>2 DEF NoOperation, Asked, Targets, DeleteLabels, Holding
<1> QED
  BY <1>1, <1>2, <1>3, <1>4 DEF ClientEffect, Work

(* A client that goes on.                                                  *)
LEMMA GoesOn ==
  ASSUME QueueTyped, NEW c \in Clients, NEW o \in Operation,
         NEW label \in (QueueLabels \cup LookupLabels \cup DeleteLabels) \ {"listDelete"},
         o.id \in Ids, o.text \in Texts, o.kind = op[c].kind,
         label \in QueueLabels => o.kind = "queue",
         label \in DeleteLabels <=> o.kind \in {"delete", "recover"},
         o.kind # "recover" => o.todo = {},
         o.todo \subseteq Work(c),
         label \in DeleteLabels => o.claim # 0 /\ EntryOf(o) \in Work(c) \cup Entries,
         Goto(c, label, o)
  PROVE  ClientEffect(c)
<1>1. label \in Label /\ label \notin Holding
  BY DEF Label, Holding, QueueLabels, LookupLabels, DeleteLabels
<1>2. ClientTyped'
  BY <1>1, GotoType, Zenon DEF QueueTyped, ClientTyped, Holding
<1>3. Only(c) /\ pc'[c] = label /\ op'[c] = o
  BY GotoMoves DEF QueueTyped
<1>4. KindOf(c)'
  BY <1>3, Zenon DEF KindOf, Targets, QueueLabels, LookupLabels, DeleteLabels
<1>5. Work(c)' \subseteq Work(c) \cup Entries
  BY <1>3 DEF Work, Targets
<1> QED
  BY <1>1, <1>2, <1>3, <1>4, <1>5 DEF ClientEffect

(* A client that goes on with the operation as it is.                      *)
LEMMA GoesOnSame ==
  ASSUME QueueTyped, NEW c \in Clients,
         NEW label \in (QueueLabels \cup LookupLabels \cup DeleteLabels) \ {"listDelete"},
         \/ pc[c] \in QueueLabels /\ label \in QueueLabels \cup LookupLabels
         \/ pc[c] \in LookupLabels /\ label \in LookupLabels
         \/ Targets(c) /\ label \in DeleteLabels,
         Goto(c, label, op[c])
  PROVE  ClientEffect(c)
<1>1. op[c] \in Operation /\ KindOf(c)
  BY DEF QueueTyped, TypeInv, TypeOK, Kinds
<1>2. op[c].id \in Ids /\ op[c].text \in Texts
  BY <1>1, Zenon DEF KindOf, Targets, QueueTyped, TypeInv, Named, Unnamed, QueueLabels,
              LookupLabels, DeleteLabels
<1>3. op[c].todo \subseteq Work(c) /\ (Targets(c) => EntryOf(op[c]) \in Work(c))
  BY DEF Work
<1>4. /\ label \in QueueLabels => op[c].kind = "queue"
      /\ label \in DeleteLabels <=> op[c].kind \in {"delete", "recover"}
      /\ label \in DeleteLabels => Targets(c)
  BY <1>1, Zenon DEF KindOf, Targets, QueueLabels, LookupLabels, DeleteLabels
<1>5. /\ op[c].kind # "recover" => op[c].todo = {}
      /\ Targets(c) => op[c].claim # 0
  BY <1>1 DEF KindOf
<1> HIDE DEF Targets, QueueLabels, LookupLabels, DeleteLabels
<1> QED
  BY <1>1, <1>2, <1>3, <1>4, <1>5, GoesOn, Zenon

(* Where the message of a client at a queue label is known.                *)
LEMMA LabelsName ==
  ASSUME QueueTyped, NEW c \in Clients
  PROVE  /\ op[c] \in Operation
         /\ KindOf(c)
         /\ pc[c] \in (QueueLabels \cup LookupLabels \cup DeleteLabels) \ {"listDelete"}
              => op[c].id \in Ids /\ op[c].text \in Texts
         /\ pc[c] \in DeleteLabels \ {"listDelete"} => Targets(c)
<1>1. op[c] \in Operation /\ KindOf(c)
  BY DEF QueueTyped, TypeInv, TypeOK, Kinds
<1>2. pc[c] \in (QueueLabels \cup LookupLabels \cup DeleteLabels) \ {"listDelete"}
        => op[c].id \in Ids /\ op[c].text \in Texts
  BY DEF QueueTyped, TypeInv, Named, Unnamed, QueueLabels, LookupLabels, DeleteLabels
<1> QED
  BY <1>1, <1>2, QueueAssumption DEF Targets

(* The recovery takes the next recorded deletion.                          *)
LEMMA NextDeletionEffect ==
  ASSUME QueueTyped, NEW c \in Clients, NEW todo \in SUBSET op[c].todo,
         pc[c] \in DeleteLabels, NextDeletion(c, todo)
  PROVE  ClientEffect(c)
<1>1. KindOf(c) /\ op[c] \in Operation
  BY LabelsName
<1>2. op[c].todo \subseteq QueueEntry
  BY <1>1, Zenon DEF Operation
<1>3. CASE Return(c, "done", 0)
  BY <1>3, Returns
<1>4. ASSUME NEW d \in todo,
             Goto(c, "walkDelete",
                  [Asked("recover", d.id, d.text, None) EXCEPT !.claim = d.entry,
                                                               !.todo = todo \ {d}])
      PROVE  ClientEffect(c)
  <2>1. d \in QueueEntry /\ d.id \in Ids /\ d.text \in Texts /\ d.entry \in 1..MaxClaims
        /\ todo \ {d} \in SUBSET QueueEntry
    BY <1>2 DEF QueueEntry
  <2>2. op[c].kind = "recover"
    BY <1>1 DEF KindOf
  <2> DEFINE o == [Asked("recover", d.id, d.text, None) EXCEPT !.claim = d.entry,
                                                               !.todo = todo \ {d}]
  <2>3. Asked("recover", d.id, d.text, None) \in Operation
        /\ Asked("recover", d.id, d.text, None).kind = "recover"
        /\ Asked("recover", d.id, d.text, None).id = d.id
        /\ Asked("recover", d.id, d.text, None).text = d.text
    BY <2>1, QueueOperations
  <2>4. o \in Operation /\ o.kind = "recover" /\ o.id = d.id /\ o.text = d.text
        /\ o.claim = d.entry /\ o.todo = todo \ {d}
    <3>1. d.entry \in 0..MaxClaims
      BY <2>1, LedgerAssumption
    <3> QED
      BY <2>1, <2>3, <3>1, Zenon DEF Operation
  <2>5. EntryOf(o) = d
    BY <2>1, <2>4 DEF EntryOf, QueueEntry
  <2>6. Goto(c, "walkDelete", o)
    BY <1>4
  <2>7. d \in Work(c) /\ o.todo \subseteq Work(c)
    BY <2>4 DEF Work
  <2>8. "walkDelete" \in DeleteLabels \ {"listDelete"} /\ "walkDelete" \notin QueueLabels
    BY DEF DeleteLabels, QueueLabels
  <2> HIDE DEF o
  <2> QED
    BY <2>1, <2>2, <2>4, <2>5, <2>6, <2>7, <2>8, GoesOn
<1> QED
  BY <1>3, <1>4, Zenon DEF NextDeletion

(* Every step of a queue operation has the effect on its client.           *)
LEMMA QueueRunEffect ==
  ASSUME QueueTyped, NEW c \in Clients, QueueRun(c)
  PROVE  ClientEffect(c)
<1> USE LabelsName
<1>0. op[c] \in Operation
  BY Zenon
<1>1. CASE ListQueued(c)
  <2>1. CASE \E kind \in {"queued", "failed"} : Return(c, kind, 0)
    BY <2>1, Returns, Zenon
  <2>2. CASE pc[c] = "listQueued" /\ Goto(c, "walkQueued", op[c])
    BY <2>2, GoesOnSame, Zenon DEF LookupLabels, QueueLabels, DeleteLabels
  <2> QED
    BY <1>1, <2>1, <2>2, Zenon DEF ListQueued
<1>2. CASE WalkQueued(c)
  <2>1. \E kind \in {"queued", "failed", "unknown"} : Return(c, kind, 0)
    BY <1>2, Zenon DEF WalkQueued
  <2> QED
    BY <2>1, Returns, Zenon
<1>3. CASE RecordQueueAttempt(c)
  <2>1. CASE Return(c, "failed", 0)
    BY <2>1, Returns
  <2>2. CASE pc[c] = "recordQueue" /\ Goto(c, "addQueue", op[c])
    BY <2>2, GoesOnSame, Zenon DEF LookupLabels, QueueLabels, DeleteLabels
  <2> QED
    BY <1>3, <2>1, <2>2 DEF RecordQueueAttempt
<1>4. CASE AddQueue(c)
  <2>1. CASE pc[c] = "addQueue" /\ Goto(c, "listQueued", op[c])
    BY <2>1, GoesOnSame DEF LookupLabels, QueueLabels, DeleteLabels
  <2>2. CASE /\ pc[c] = "addQueue" /\ claims < MaxClaims /\ claims' = claims + 1
             /\ Goto(c, "awaitAdd", [op[c] EXCEPT !.claim = claims'])
    <3> DEFINE o == [op[c] EXCEPT !.claim = claims']
    <3>1. claims' \in 0..MaxClaims
      BY <2>2, LedgerAssumption DEF QueueTyped, TypeInv, TypeOK, LedgerTypeOK
    <3>2. o \in Operation /\ o.kind = op[c].kind /\ o.id = op[c].id /\ o.text = op[c].text
          /\ o.todo = op[c].todo
      BY <1>0, <3>1, ClaimUpdate, Zenon
    <3>3. pc[c] \in QueueLabels /\ op[c].kind = "queue" /\ op[c].todo = {}
      BY <2>2 DEF KindOf, QueueLabels
    <3>4. "awaitAdd" \in QueueLabels /\ "awaitAdd" \notin DeleteLabels
          /\ "listDelete" \notin QueueLabels
      BY Zenon DEF QueueLabels, DeleteLabels
    <3>5. op[c].id \in Ids /\ op[c].text \in Texts
      BY <3>3, <3>4
    <3> HIDE DEF o
    <3>6. o.todo \subseteq Work(c)
      BY <3>2, <3>3, Zenon
    <3>7. Goto(c, "awaitAdd", o)
      BY <2>2 DEF o
    <3> QED
      BY <3>2, <3>3, <3>4, <3>5, <3>6, <3>7, GoesOn, Zenon
  <2> QED
    BY <1>4, <2>1, <2>2 DEF AddQueue
<1>5. CASE AwaitAdd(c)
  <2>1. CASE Return(c, "queued", 0)
    BY <2>1, Returns
  <2>2. CASE pc[c] = "awaitAdd" /\ Goto(c, "listQueued", [op[c] EXCEPT !.claim = 0])
    <3> DEFINE o == [op[c] EXCEPT !.claim = 0]
    <3>1. o \in Operation /\ o.kind = op[c].kind /\ o.id = op[c].id /\ o.text = op[c].text
          /\ o.todo = op[c].todo
      <4>1. 0 \in 0..MaxClaims
        BY LedgerAssumption
      <4> QED
        BY <1>0, <4>1, ClaimUpdate, Zenon
    <3>2. pc[c] \in QueueLabels /\ op[c].kind = "queue" /\ op[c].todo = {}
      BY <2>2 DEF KindOf, QueueLabels
    <3>3. "listQueued" \in LookupLabels /\ "listQueued" \notin DeleteLabels
          /\ "listQueued" \notin QueueLabels /\ "listDelete" \notin QueueLabels
      BY DEF LookupLabels, DeleteLabels, QueueLabels
    <3>4. op[c].id \in Ids /\ op[c].text \in Texts
      BY <3>2, <3>3
    <3> HIDE DEF o
    <3>5. o.todo \subseteq Work(c)
      BY <3>1, <3>2
    <3>6. Goto(c, "listQueued", o) /\ "listQueued" # "listDelete"
      BY <2>2 DEF o
    <3> QED
      BY <3>1, <3>2, <3>3, <3>4, <3>5, <3>6, GoesOn, ZenonT(60)
  <2> QED
    BY <1>5, <2>1, <2>2 DEF AwaitAdd
<1>6. CASE ListDelete(c)
  <2>1. pc[c] = "listDelete" /\ pc[c] \in DeleteLabels
    BY <1>6, Zenon DEF ListDelete, DeleteLabels
  <2>2. CASE Return(c, "failed", 0)
    BY <2>2, Returns
  <2>3. CASE NextDeletion(c, {d \in op[c].todo : ~InQueue(d.entry)})
    BY <2>1, <2>3, NextDeletionEffect, Zenon
  <2>4. CASE op[c].id # None /\ \E label \in {"walkDelete", "requestDelete"} : Goto(c, label, op[c])
    <3>1. Targets(c)
      BY <2>1, <2>4 DEF Targets
    <3> QED
      BY <2>4, <3>1, GoesOnSame, Zenon DEF DeleteLabels
  <2>5. ASSUME NEW q \in Entries, q.entry = op[c].claim, op[c].kind = "delete",
               Goto(c, "recordDelete", [op[c] EXCEPT !.id = q.id, !.text = q.text])
        PROVE  ClientEffect(c)
    <3> DEFINE o == [op[c] EXCEPT !.id = q.id, !.text = q.text]
    <3>1. q \in QueueEntry /\ q.id \in Ids /\ q.text \in Texts /\ q.entry \in 1..MaxClaims
      BY EntriesAt DEF QueueEntry
    <3>2. o \in Operation /\ o.kind = op[c].kind /\ o.id = q.id /\ o.text = q.text
          /\ o.todo = op[c].todo /\ o.claim = op[c].claim
      BY <1>0, <3>1, Zenon DEF Operation
    <3>3. EntryOf(o) = q
      BY <3>1, <3>2, <2>5 DEF EntryOf, QueueEntry
    <3>4. o.todo \subseteq Work(c) /\ o.todo = {} /\ o.claim # 0
      BY <2>5, <3>1, <3>2, LedgerAssumption DEF KindOf
    <3>5. "recordDelete" \in DeleteLabels /\ "recordDelete" \notin QueueLabels
      BY DEF DeleteLabels, QueueLabels
    <3>6. Goto(c, "recordDelete", o)
      BY <2>5
    <3> HIDE DEF o
    <3> QED
      BY <2>5, <3>1, <3>2, <3>3, <3>4, <3>5, <3>6, GoesOn
  <2> QED
    BY <1>6, <2>2, <2>3, <2>4, <2>5, ZenonT(60) DEF ListDelete
<1>7. ASSUME \/ RecordDeletionAttempt(c) \/ RequestDelete(c) \/ AwaitDelete(c)
             \/ RelistDelete(c) \/ WalkDelete(c) \/ CompleteDelete(c)
      PROVE  ClientEffect(c)
  <2>1. pc[c] \in DeleteLabels \ {"listDelete"}
    BY <1>7, Zenon DEF RecordDeletionAttempt, RequestDelete, AwaitDelete, RelistDelete,
                WalkDelete, CompleteDelete, DeleteLabels
  <2>2. \/ Return(c, "failed", 0)
        \/ \E label \in DeleteLabels \ {"listDelete"} : Goto(c, label, op[c])
    BY <1>7, ZenonT(60) DEF RecordDeletionAttempt, RequestDelete, AwaitDelete, RelistDelete,
                WalkDelete, CompleteDelete, DeleteLabels
  <2> QED
    BY <2>1, <2>2, Returns, GoesOnSame, ZenonT(60)
<1>8. CASE ClearDelete(c)
  <2>1. pc[c] \in DeleteLabels
    BY <1>8, Zenon DEF ClearDelete, DeleteLabels
  <2>2. \/ Return(c, "failed", 0)
        \/ NextDeletion(c, op[c].todo)
    BY <1>8, Zenon DEF ClearDelete
  <2> QED
    BY <2>1, <2>2, Returns, NextDeletionEffect, Zenon
<1> QED
  BY <1>1, <1>2, <1>3, <1>4, <1>5, <1>6, <1>7, <1>8, ZenonT(60) DEF QueueRun

(* What a call of the queue does to its client: it works on recorded       *)
(* intents only.                                                           *)
CallEffect(c) ==
  /\ Only(c)
  /\ ClientTyped'
  /\ KindOf(c)'
  /\ pc'[c] \notin Holding
  /\ pc[c] = "idle"
  /\ op'[c].kind = "queue" => \A d \in Clients \ {c} : op[d].kind # "queue"
  /\ Work(c)' \subseteq deletions
  /\ UNCHANGED <<ledgerVars, serverVars, queueVars>>

(* Every call of the queue has this effect.                                *)
LEMMA QueueCallEffect ==
  ASSUME QueueTyped, NEW c \in Clients, QueueCall(c)
  PROVE  CallEffect(c)
<1>0. /\ pc \in [Clients -> Label] /\ op \in [Clients -> Operation]
      /\ outcome \in [Clients -> Outcome] /\ Named
      /\ deletions \subseteq QueueEntry /\ claims \in 0..MaxClaims
  BY DEF QueueTyped, TypeInv, TypeOK, LedgerTypeOK
<1>1. ASSUME NEW label \in {"listQueued", "recordQueue", "listDelete"}, NEW o \in Operation,
             pc[c] = "idle",
             pc' = [pc EXCEPT ![c] = label], op' = [op EXCEPT ![c] = o],
             outcome' = [outcome EXCEPT ![c] = NoOutcome],
             label # "listDelete" => o.kind = "queue" /\ o.id \in Ids /\ o.text \in Texts,
             label = "listDelete" => o.kind \in {"delete", "recover"},
             o.kind # "recover" => o.todo = {},
             label = "listDelete" /\ o.id # None =>
               o.id \in Ids /\ o.text \in Texts /\ o.claim # 0 /\ EntryOf(o) \in deletions,
             o.kind = "queue" => \A d \in Clients \ {c} : op[d].kind # "queue",
             o.todo \subseteq deletions, UNCHANGED <<ledgerVars, serverVars, queueVars>>
      PROVE  CallEffect(c)
  <2>1. Only(c) /\ pc'[c] = label /\ op'[c] = o
    BY <1>0, <1>1, Zenon DEF Only
  <2>2. NoOutcome \in Outcome /\ label \in Label /\ label \notin Holding
    BY LedgerAssumption DEF NoOutcome, Outcome, Label, Holding
  <2>3. pc' \in [Clients -> Label] /\ op' \in [Clients -> Operation]
        /\ outcome' \in [Clients -> Outcome]
    BY <1>0, <1>1, <2>2, Zenon
  <2>4. Named'
    BY <1>0, <1>1, <2>1, Zenon DEF Named, Unnamed, Holds, Only
  <2>5. KindOf(c)'
    BY <1>1, <2>1, Zenon DEF KindOf, Targets, QueueLabels, LookupLabels, DeleteLabels
  <2>6. Work(c)' \subseteq deletions
    BY <1>1, <2>1, Zenon DEF Work, Targets, DeleteLabels
  <2> QED
    BY <1>1, <2>1, <2>2, <2>3, <2>4, <2>5, <2>6, ZenonT(60) DEF CallEffect, ClientTyped
<1>2. ASSUME NEW i \in Ids, NEW t \in Texts, BeginQueue(c, i, t)
      PROVE  CallEffect(c)
  <2> DEFINE o == Asked("queue", i, t, None)
  <2>1. o \in Operation /\ o.kind = "queue" /\ o.id = i /\ o.text = t /\ o.todo = {}
    BY QueueOperations
  <2> HIDE DEF o
  <2>2. PICK label \in {"listQueued", "recordQueue"} : pc' = [pc EXCEPT ![c] = label]
    BY <1>2, Zenon DEF BeginQueue
  <2>3. /\ pc[c] = "idle" /\ op' = [op EXCEPT ![c] = o]
        /\ outcome' = [outcome EXCEPT ![c] = NoOutcome]
        /\ \A d \in Clients \ {c} : op[d].kind # "queue"
        /\ UNCHANGED <<ledgerVars, serverVars, queueVars>>
    BY <1>2, Zenon DEF BeginQueue, Fenced, o
  <2> QED
    BY <1>1, <2>1, <2>2, <2>3, Zenon
<1>3. ASSUME NEW e \in 1..claims, BeginDelete(c, e)
      PROVE  CallEffect(c)
  <2>1. PICK i \in Ids \cup {None}, t \in Texts \cup {None} :
          /\ op' = [op EXCEPT ![c] = [Asked("delete", i, t, None) EXCEPT !.claim = e]]
          /\ \/ i = None
             \/ \E d \in deletions : d.entry = e /\ d.id = i /\ d.text = t
    <3>1. CASE op' = [op EXCEPT ![c] = [Asked("delete", None, None, None) EXCEPT !.claim = e]]
      BY <3>1, Zenon
    <3>2. ASSUME NEW d \in deletions, d.entry = e,
                 op' = [op EXCEPT ![c] = [Asked("delete", d.id, d.text, None) EXCEPT !.claim = e]]
          PROVE  \E i \in Ids \cup {None}, t \in Texts \cup {None} :
                   /\ op' = [op EXCEPT ![c] = [Asked("delete", i, t, None) EXCEPT !.claim = e]]
                   /\ \/ i = None
                      \/ \E g \in deletions : g.entry = e /\ g.id = i /\ g.text = t
      <4>1. d.id \in Ids /\ d.text \in Texts
        BY <1>0 DEF QueueEntry
      <4> QED
        BY <3>2, <4>1, Zenon
    <3> QED
      BY <1>3, <3>1, <3>2, Zenon DEF BeginDelete
  <2>2. e \in 0..MaxClaims /\ e # 0
    BY <1>0, LedgerAssumption
  <2> DEFINE a == Asked("delete", i, t, None)
             o == [a EXCEPT !.claim = e]
  <2>3. a \in Operation /\ a.kind = "delete" /\ a.id = i /\ a.text = t /\ a.todo = {}
    BY QueueOperations
  <2> HIDE DEF a
  <2>4. o \in Operation /\ o.kind = "delete" /\ o.id = i /\ o.text = t /\ o.todo = {}
        /\ o.claim = e
    BY <2>2, <2>3, ClaimUpdate, ZenonT(60)
  <2>5. op' = [op EXCEPT ![c] = o]
    BY <2>1 DEF a
  <2> HIDE DEF o
  <2>6. ASSUME o.id # None
        PROVE  o.id \in Ids /\ o.text \in Texts /\ o.claim # 0 /\ EntryOf(o) \in deletions
    <3>1. PICK d \in deletions : d.entry = e /\ d.id = i /\ d.text = t
      BY <2>1, <2>4, <2>6
    <3>2. d \in QueueEntry
      BY <1>0
    <3>3. EntryOf(o) = d
      BY <2>4, <3>1, <3>2, Zenon DEF EntryOf, QueueEntry
    <3> QED
      BY <2>2, <2>4, <3>1, <3>2, <3>3 DEF QueueEntry
  <2>7. /\ pc[c] = "idle" /\ pc' = [pc EXCEPT ![c] = "listDelete"]
        /\ outcome' = [outcome EXCEPT ![c] = NoOutcome]
        /\ UNCHANGED <<ledgerVars, serverVars, queueVars>>
    BY <1>3, Zenon DEF BeginDelete
  <2> QED
    BY <1>1, <2>4, <2>5, <2>6, <2>7, Zenon
<1>4. CASE BeginRecover(c)
  <2> DEFINE a == Asked("recover", None, None, None)
             o == [a EXCEPT !.todo = deletions]
  <2>1. a \in Operation /\ a.kind = "recover" /\ a.id = None /\ a.todo = {}
    BY QueueOperations
  <2> HIDE DEF a
  <2>2. o \in Operation /\ o.kind = "recover" /\ o.id = None /\ o.todo = deletions
    BY <1>0, <2>1, TodoUpdate
  <2>3. op' = [op EXCEPT ![c] = o]
    BY <1>4 DEF BeginRecover, a
  <2> HIDE DEF o
  <2>4. /\ pc[c] = "idle" /\ pc' = [pc EXCEPT ![c] = "listDelete"]
        /\ outcome' = [outcome EXCEPT ![c] = NoOutcome]
        /\ UNCHANGED <<ledgerVars, serverVars, queueVars>>
    BY <1>4, Zenon DEF BeginRecover
  <2> QED
    BY <1>1, <2>2, <2>3, <2>4, ZenonT(60)
<1> QED
  BY <1>2, <1>3, <1>4 DEF QueueCall

(***************************************************************************)
(* The steps of Delivery, seen from the queue.                             *)
(***************************************************************************)
MessageLabels == Label \ (QueueLabels \cup DeleteLabels)

(* The client goes on with the same call of Delivery, or has returned.     *)
KeepsCall(c) ==
  /\ Only(c)
  /\ pc'[c] \in MessageLabels
  /\ op'[c].kind \in {"none", op[c].kind}
  /\ op'[c].todo \subseteq op[c].todo

(* Every way an operation of Delivery moves on keeps its call.             *)
LEMMA KeptCalls ==
  ASSUME TypeInv, NEW c \in Clients,
         \/ \E kind, turn : Return(c, kind, turn)
         \/ \E turn, s : ToMark(c, turn, s)
         \/ \E b : Unwritten(c, b)
         \/ \E label \in MessageLabels : \E o : /\ o.kind = op[c].kind
                                                 /\ o.todo \in {{}, op[c].todo}
                                                 /\ Goto(c, label, o)
  PROVE  KeepsCall(c)
<1>1. {"idle", "mark", "unwritten"} \subseteq MessageLabels
  BY Zenon DEF MessageLabels, Label, QueueLabels, DeleteLabels
<1>2. ASSUME NEW kind, NEW turn, Return(c, kind, turn)
      PROVE  KeepsCall(c)
  BY <1>1, <1>2, ReturnMoves DEF KeepsCall, NoOperation, Asked
<1>3. ASSUME NEW label \in MessageLabels, NEW o, o.kind = op[c].kind,
             o.todo \in {{}, op[c].todo}, Goto(c, label, o)
      PROVE  KeepsCall(c)
  BY <1>3, GotoMoves DEF KeepsCall
<1>4. ASSUME NEW turn, NEW s, ToMark(c, turn, s)
      PROVE  KeepsCall(c)
  <2> DEFINE o == [Arguments(op[c]) EXCEPT !.turn = turn, !.steered = s]
  <2>1. o.kind = op[c].kind /\ o.todo = {}
    BY DEF Arguments, Asked
  <2> QED
    BY <1>1, <1>3, <1>4, <2>1, Zenon DEF ToMark
<1>5. ASSUME NEW b, Unwritten(c, b)
      PROVE  KeepsCall(c)
  <2> DEFINE o == [Arguments(op[c]) EXCEPT !.allowAbsent = b]
  <2>1. o.kind = op[c].kind /\ o.todo = {}
    BY DEF Arguments, Asked
  <2> QED
    BY <1>1, <1>3, <1>5, <2>1, Zenon DEF Unwritten
<1> QED
  BY <1>2, <1>3, <1>4, <1>5, Zenon

(* Every step of an operation of Delivery keeps its call.                  *)
LEMMA RunKeepsCall ==
  ASSUME TypeInv, NEW c \in Clients, Run(c)
  PROVE  KeepsCall(c) /\ pc[c] \in MessageLabels \ {"listQueued", "walkQueued"}
<1>0. pc[c] \in MessageLabels \ {"listQueued", "walkQueued"}
  BY Zenon DEF Run, CheckQueue, Reconcile, Recheck, ReconcileSubmitting, Resume, RecordAttempt,
         Admit, Write, ReadReply, Restore, Lookup, Mark, UnwrittenOutcome, AcknowledgeWalk,
         AcknowledgeRemove, FindReceipt, Adopt, MessageLabels, Label, QueueLabels, DeleteLabels
<1> SUFFICES KeepsCall(c)
  BY <1>0
<1>1. {"listQueued", "reconcile", "resume", "record", "admit", "admitted", "restore", "await",
       "lookup", "recheck", "ackRemove", "adopt"} \subseteq MessageLabels
  BY DEF MessageLabels, Label, QueueLabels, DeleteLabels
<1>2. /\ \A kind, turn : Return(c, kind, turn) => KeepsCall(c)
      /\ \A turn, s : ToMark(c, turn, s) => KeepsCall(c)
      /\ \A b : Unwritten(c, b) => KeepsCall(c)
  BY KeptCalls, Zenon
<1>3. ASSUME NEW label \in MessageLabels, NEW o, o.kind = op[c].kind,
             o.todo \in {{}, op[c].todo}, Goto(c, label, o)
      PROVE  KeepsCall(c)
  BY <1>3, KeptCalls, Zenon
<1>4. \A label \in MessageLabels : Goto(c, label, op[c]) => KeepsCall(c)
  BY <1>3
<1>5. CASE CheckQueue(c)
  BY <1>1, <1>2, <1>4, <1>5, Zenon DEF CheckQueue
<1>6. CASE Reconcile(c) \/ Recheck(c)
  BY <1>2, <1>6, Zenon DEF Reconcile, Recheck, ReconcileSubmitting
<1>7. CASE Resume(c)
  <2> DEFINE o == [Arguments(op[c]) EXCEPT !.turn = active, !.steered = active # 0]
  <2>1. o.kind = op[c].kind /\ o.todo = {}
    BY DEF Arguments, Asked
  <2>2. \/ \E b : Unwritten(c, b)
        \/ \E label \in {"admit", "record"} : Goto(c, label, o)
    BY <1>7, Zenon DEF Resume
  <2> HIDE DEF o
  <2> QED
    BY <1>1, <1>2, <1>3, <2>1, <2>2, Zenon
<1>8. CASE RecordAttempt(c)
  BY <1>1, <1>2, <1>4, <1>8, ZenonT(60) DEF RecordAttempt
<1>9. CASE Admit(c)
  <2> DEFINE o == [op[c] EXCEPT !.claim = claims']
  <2>1. o.kind = op[c].kind /\ o.todo = op[c].todo
    BY DEF TypeInv, TypeOK, Operation
  <2>2. \/ \E b : Unwritten(c, b)
        \/ Goto(c, "admitted", o)
    BY <1>9, Zenon DEF Admit
  <2> HIDE DEF o
  <2> QED
    BY <1>1, <1>2, <1>3, <2>1, <2>2, Zenon
<1>10. CASE Write(c)
  BY <1>1, <1>4, <1>10, Zenon DEF Write
<1>11. CASE ReadReply(c)
  BY <1>1, <1>2, <1>4, <1>11, Zenon DEF ReadReply
<1>12. CASE Restore(c) \/ Lookup(c) \/ Mark(c)
  BY <1>2, <1>12, Zenon DEF Restore, Lookup, Mark
<1>13. CASE UnwrittenOutcome(c)
  <2> DEFINE o == [Arguments(op[c]) EXCEPT !.seen = send[op[c].id]]
  <2>1. o.kind = op[c].kind /\ o.todo = {}
    BY DEF Arguments, Asked
  <2>2. \/ \E kind, turn : Return(c, kind, turn)
        \/ Goto(c, "recheck", o)
    BY <1>13, Zenon DEF UnwrittenOutcome
  <2> HIDE DEF o
  <2> QED
    BY <1>1, <1>2, <1>3, <2>1, <2>2, Zenon
<1>14. CASE AcknowledgeWalk(c)
  <2>1. ASSUME NEW turn, Goto(c, "ackRemove", [Arguments(op[c]) EXCEPT !.turn = turn])
        PROVE  KeepsCall(c)
    <3> DEFINE o == [Arguments(op[c]) EXCEPT !.turn = turn]
    <3>1. o.kind = op[c].kind /\ o.todo = {}
      BY DEF Arguments, Asked
    <3> QED
      BY <1>1, <1>3, <2>1, <3>1, Zenon
  <2> QED
    BY <1>2, <1>14, <2>1, Zenon DEF AcknowledgeWalk
<1>15. CASE AcknowledgeRemove(c) \/ Adopt(c)
  BY <1>2, <1>15, Zenon DEF AcknowledgeRemove, Adopt
<1>16. CASE FindReceipt(c)
  <2>1. ASSUME NEW turn, NEW s,
               Goto(c, "adopt", [op[c] EXCEPT !.turn = turn, !.steered = s])
        PROVE  KeepsCall(c)
    <3> DEFINE o == [op[c] EXCEPT !.turn = turn, !.steered = s]
    <3>1. o.kind = op[c].kind /\ o.todo = op[c].todo
      BY DEF TypeInv, TypeOK, Operation
    <3> QED
      BY <1>1, <1>3, <2>1, <3>1, Zenon
  <2> QED
    BY <1>2, <1>16, <2>1, Zenon DEF FindReceipt
<1> QED
  BY <1>5, <1>6, <1>7, <1>8, <1>9, <1>10, <1>11, <1>12, <1>13, <1>14, <1>15, <1>16, Zenon
     DEF Run

(* A client that works on no queue entry.                                  *)
Messaging(c) ==
  /\ pc[c] \in MessageLabels
  /\ op[c].kind \notin {"queue", "delete", "recover"}
  /\ op[c].todo = {}

(* A step of Delivery leaves a client alone or working on no entry.        *)
MessageEffect ==
  \A d \in Clients : Messaging(d)' \/ (pc'[d] = pc[d] /\ op'[d] = op[d])

(* Every step of Delivery does.                                            *)
LEMMA MessageSteps ==
  ASSUME QueueTyped, [Next]_vars
  PROVE  MessageEffect
<1>0. TypeInv /\ pc \in [Clients -> Label] /\ op \in [Clients -> Operation]
  BY DEF QueueTyped, TypeInv, TypeOK
<1>1. ASSUME NEW c \in Clients, Run(c)
      PROVE  MessageEffect
  <2>1. KeepsCall(c) /\ pc[c] \in MessageLabels \ {"listQueued", "walkQueued"}
    BY <1>0, <1>1, RunKeepsCall
  <2>2. KindOf(c)
    BY DEF QueueTyped, Kinds
  <2>3. op[c].kind \notin {"queue", "delete", "recover"} /\ op[c].todo = {}
    BY <2>1, <2>2, Zenon DEF KindOf, MessageLabels, LookupLabels
  <2>4. Messaging(c)'
    BY <2>1, <2>3, Zenon DEF KeepsCall, Messaging
  <2> QED
    BY <2>1, <2>4 DEF KeepsCall, Only, MessageEffect
<1>2. ASSUME NEW c \in Clients, NEW o, NEW label \in {"checkQueue", "ackWalk", "findReceipt", "idle"},
             o.kind \notin {"queue", "delete", "recover"}, o.todo = {},
             pc' = [pc EXCEPT ![c] = label], op' = [op EXCEPT ![c] = o]
      PROVE  MessageEffect
  BY <1>0, <1>2, ZenonT(60) DEF MessageEffect, Messaging, MessageLabels, Label, QueueLabels, DeleteLabels
<1>3. ASSUME NEW c \in Clients, Call(c)
      PROVE  MessageEffect
  <2>1. ASSUME NEW i, NEW t, NEW a, NEW kind \in {"send", "reconcile"}, Begin(c, kind, i, t, a)
        PROVE  MessageEffect
    <3> DEFINE o == [Asked(kind, i, t, a) EXCEPT !.seen = send[i]]
    <3>1. o.kind = kind /\ o.todo = {}
      BY DEF Asked
    <3>2. \/ pc' = [pc EXCEPT ![c] = "checkQueue"] /\ op' = [op EXCEPT ![c] = o]
          \/ UNCHANGED <<pc, op>>
      BY <2>1 DEF Begin
    <3> HIDE DEF o
    <3> QED
      BY <1>2, <3>1, <3>2, Zenon DEF MessageEffect
  <2>2. ASSUME NEW i, NEW t, BeginAcknowledge(c, i, t)
        PROVE  MessageEffect
    <3> DEFINE o == [Asked("acknowledge", i, t, None) EXCEPT !.seen = send[i]]
    <3>1. o.kind = "acknowledge" /\ o.todo = {}
      BY DEF Asked
    <3>2. pc' = [pc EXCEPT ![c] = "ackWalk"] /\ op' = [op EXCEPT ![c] = o]
      BY <2>2 DEF BeginAcknowledge
    <3> HIDE DEF o
    <3> QED
      BY <1>2, <3>1, <3>2, Zenon
  <2>3. ASSUME NEW i, NEW t, NEW a, BeginAttempted(c, i, t, a)
        PROVE  MessageEffect
    <3> DEFINE o == Asked("attempted", i, t, a)
    <3>1. o.kind = "attempted" /\ o.todo = {}
      BY Zenon DEF Asked
    <3>2. pc' = [pc EXCEPT ![c] = "findReceipt"] /\ op' = [op EXCEPT ![c] = o]
      BY <2>3 DEF BeginAttempted
    <3> HIDE DEF o
    <3> QED
      BY <1>2, <3>1, <3>2, Zenon
  <2>4. ASSUME NEW i, NEW t, NEW a, NEW s, Discard(c, i, t, a) \/ Prepare(c, i, t, a, s)
        PROVE  MessageEffect
    BY <2>4, Zenon DEF Discard, Prepare, clientVars, MessageEffect
  <2> QED
    BY <1>3, <2>1, <2>2, <2>3, <2>4, Zenon DEF Call, BeginSend, BeginReconcile
<1>4. ASSUME NEW c \in Clients, Crash(c)
      PROVE  MessageEffect
  <2>1. NoOperation.kind = "none" /\ NoOperation.todo = {}
    BY Zenon DEF NoOperation, Asked
  <2> QED
    BY <1>2, <1>4, <2>1, Zenon DEF Crash
<1>5. CASE ClearRetired \/ Native \/ UNCHANGED vars
  BY <1>5, Zenon DEF ClearRetired, Native, clientVars, vars, MessageEffect
<1> QED
  BY <1>1, <1>3, <1>4, <1>5 DEF Next

(***************************************************************************)
(* Types, in every step.                                                   *)
(***************************************************************************)

(* The transactions of the queue keep the ledger typed.                    *)
LEMMA QueueLedgerType ==
  ASSUME LedgerTypeOK, NEW i \in Ids, NEW t \in Texts, NEW e \in QueueEntry,
         RecordQueue(i, t) \/ RecordDeletion(e) \/ ClearDeletion(e)
  PROVE  LedgerTypeOK'
<1>1. Absent \in Attempt /\ claims \in 0..MaxClaims
  BY AttemptTypes DEF LedgerTypeOK
<1>2. CASE RecordQueue(i, t)
  BY <1>2 DEF RecordQueue, LedgerTypeOK
<1>3. CASE RecordDeletion(e)
  BY <1>3 DEF RecordDeletion, LedgerTypeOK
<1>4. CASE ClearDeletion(e)
  <2>1. send' \in [Ids -> Attempt]
    BY <1>1, <1>4, Zenon DEF ClearDeletion, LedgerTypeOK
  <2>2. queued' \in [Ids -> Texts \cup {None}] /\ retired' \in [Ids -> 0..MaxClaims]
    BY <1>1, <1>4, Zenon DEF ClearDeletion, LedgerTypeOK
  <2>3. deletions' \subseteq QueueEntry /\ claims' \in 0..MaxClaims
    BY <1>4, Zenon DEF ClearDeletion, LedgerTypeOK
  <2> QED
    BY <2>1, <2>2, <2>3, Zenon DEF LedgerTypeOK
<1> QED
  BY <1>2, <1>3, <1>4

(* The entry a deletion works on, and the requests a client can write.     *)
LEMMA WrittenTypes ==
  ASSUME QueueTyped, NEW c \in Clients
  PROVE  /\ Targets(c) => EntryOf(op[c]) \in QueueEntry /\ op[c].claim \in 1..MaxClaims
         /\ \A by \in {c, None} : Targets(c) => RequestOf(by, "delete", op[c]) \in QueueRequest
         /\ \A by \in {c, None}, k \in 1..MaxClaims : pc[c] = "addQueue" =>
              RequestOf(by, "add", [op[c] EXCEPT !.claim = k]) \in QueueRequest
<1>1. op[c] \in Operation /\ KindOf(c)
  BY LabelsName
<1>2. op[c].claim \in 0..MaxClaims
  BY <1>1 DEF Operation
<1>3. ASSUME Targets(c)
      PROVE  op[c].claim \in 1..MaxClaims /\ op[c].id \in Ids /\ op[c].text \in Texts
  BY <1>1, <1>2, <1>3, LedgerAssumption DEF KindOf
<1>4. ASSUME NEW by \in {c, None}, NEW k \in 1..MaxClaims, pc[c] = "addQueue"
      PROVE  RequestOf(by, "add", [op[c] EXCEPT !.claim = k]) \in QueueRequest
  <2> DEFINE o == [op[c] EXCEPT !.claim = k]
  <2>1. k \in 0..MaxClaims
    BY LedgerAssumption
  <2>2. o.id = op[c].id /\ o.text = op[c].text /\ o.claim = k
    BY <1>1, <2>1, ClaimUpdate, Zenon
  <2>3. op[c].id \in Ids /\ op[c].text \in Texts
    BY <1>4, LabelsName, Zenon DEF QueueLabels
  <2> HIDE DEF o
  <2>4. RequestOf(by, "add", o) \in QueueRequest
    BY <2>2, <2>3, Zenon DEF RequestOf, QueueRequest
  <2> QED
    BY <2>4 DEF o
<1> QED
  BY <1>3, <1>4, Zenon DEF EntryOf, QueueEntry, RequestOf, QueueRequest

(* A client that stops waiting leaves requests and replies of their type.  *)
LEMMA StopWaitingType ==
  ASSUME queueWire \subseteq QueueRequest, queueReplies \subseteq QueueReply,
         NEW c \in Clients, StopWaiting(c)
  PROVE  queueWire' \subseteq QueueRequest /\ queueReplies' \subseteq QueueReply
<1>1. \A q \in QueueRequest : [q EXCEPT !.by = None] \in QueueRequest
  BY DEF QueueRequest
<1> QED
  BY <1>1 DEF StopWaiting

(* What a step of a queue operation does to the ledger, and to the queue.  *)
QueueLedger(c) ==
  \/ UNCHANGED ledgerVars
  \/ pc[c] = "recordQueue" /\ RecordQueue(op[c].id, op[c].text)
  \/ pc[c] = "recordDelete" /\ RecordDeletion(EntryOf(op[c]))
  \/ pc[c] \in {"clearDelete", "clearStarted"} /\ ClearDeletion(EntryOf(op[c]))
  \/ pc[c] = "addQueue" /\ claims < MaxClaims /\ claims' = claims + 1
     /\ UNCHANGED <<send, queued, deletions, retired>>

QueueWriting(c) ==
  \/ UNCHANGED <<queueWire, queueReplies, completed>>
  \/ /\ pc[c] = "addQueue" /\ claims < MaxClaims /\ claims' = claims + 1
     /\ \E by \in {c, None} :
          /\ by = c => pc'[c] = "awaitAdd"
          /\ queueWire' = queueWire \cup {RequestOf(by, "add", [op[c] EXCEPT !.claim = claims'])}
     /\ UNCHANGED <<queueReplies, completed>>
  \/ /\ pc[c] = "requestDelete"
     /\ \E by \in {c, None} :
          /\ by = c => pc'[c] = "awaitDelete" /\ op'[c] = op[c]
          /\ queueWire' = queueWire \cup {RequestOf(by, "delete", op[c])}
     /\ UNCHANGED <<queueReplies, completed>>
  \/ pc[c] \in {"awaitAdd", "awaitDelete"} /\ StopWaiting(c) /\ UNCHANGED completed
  \/ /\ pc[c] = "completeDelete" /\ completed' = completed \cup {op[c].claim}
     /\ UNCHANGED <<queueWire, queueReplies>>

(* Every step of a queue operation changes the ledger and the wire this    *)
(* way, and the native server not at all.                                  *)
LEMMA QueueRunState ==
  ASSUME TypeInv, NEW c \in Clients, QueueRun(c)
  PROVE  /\ QueueLedger(c) /\ QueueWriting(c)
         /\ serverVars' = serverVars /\ backlog' = backlog
<1> USE DEF queueVars
<1>1. CASE ListQueued(c) \/ WalkQueued(c) \/ ListDelete(c) \/ RelistDelete(c) \/ WalkDelete(c)
  <2>1. UNCHANGED <<ledgerVars, serverVars, queueVars>>
    BY <1>1, Zenon DEF ListQueued, WalkQueued, ListDelete, RelistDelete, WalkDelete
  <2> QED
    BY <2>1 DEF QueueLedger, QueueWriting
<1>2. CASE RecordQueueAttempt(c)
  BY <1>2 DEF RecordQueueAttempt, QueueLedger, QueueWriting
<1>3. CASE RecordDeletionAttempt(c)
  BY <1>3 DEF RecordDeletionAttempt, QueueLedger, QueueWriting
<1>4. CASE ClearDelete(c)
  BY <1>4 DEF ClearDelete, QueueLedger, QueueWriting
<1>5. CASE AddQueue(c)
  <2>1. CASE UNCHANGED <<claims, queueWire>>
    BY <1>5, <2>1 DEF AddQueue, QueueLedger, QueueWriting, ledgerVars
  <2>2. ASSUME claims < MaxClaims, claims' = claims + 1,
               \/ /\ Goto(c, "awaitAdd", [op[c] EXCEPT !.claim = claims'])
                  /\ queueWire' = queueWire \cup {RequestOf(c, "add", [op[c] EXCEPT !.claim = claims'])}
               \/ queueWire' = queueWire \cup {RequestOf(None, "add", [op[c] EXCEPT !.claim = claims'])}
        PROVE  QueueLedger(c) /\ QueueWriting(c)
    <3>1. /\ pc[c] = "addQueue"
          /\ UNCHANGED <<send, queued, deletions, retired, serverVars, backlog, queueReplies, completed>>
      BY <1>5 DEF AddQueue
    <3>2. QueueLedger(c)
      BY <2>2, <3>1 DEF QueueLedger
    <3> DEFINE o == [op[c] EXCEPT !.claim = claims']
    <3>3. \E by \in {c, None} :
            /\ by = c => pc'[c] = "awaitAdd"
            /\ queueWire' = queueWire \cup {RequestOf(by, "add", o)}
      <4>1. CASE Goto(c, "awaitAdd", o) /\ queueWire' = queueWire \cup {RequestOf(c, "add", o)}
        BY <4>1, GotoMoves, Zenon
      <4>2. CASE queueWire' = queueWire \cup {RequestOf(None, "add", o)}
        BY <4>2, QueueAssumption, ZenonT(60)
      <4> QED
        BY <2>2, <4>1, <4>2
    <3> QED
      BY <2>2, <3>1, <3>2, <3>3 DEF QueueWriting
  <2> QED
    BY <1>5, <2>1, <2>2 DEF AddQueue
<1>6. CASE RequestDelete(c)
  <2>1. /\ pc[c] = "requestDelete"
        /\ UNCHANGED <<ledgerVars, serverVars, backlog, queueReplies, completed>>
    BY <1>6, Zenon DEF RequestDelete
  <2>2. CASE Goto(c, "awaitDelete", op[c]) /\ queueWire' = queueWire \cup {RequestOf(c, "delete", op[c])}
    BY <2>1, <2>2, GotoMoves DEF QueueLedger, QueueWriting
  <2>3. CASE queueWire' = queueWire
    BY <2>1, <2>3 DEF QueueLedger, QueueWriting
  <2>4. CASE queueWire' = queueWire \cup {RequestOf(None, "delete", op[c])}
    BY <2>1, <2>4, QueueAssumption DEF QueueLedger, QueueWriting
  <2> QED
    BY <1>6, <2>1, <2>2, <2>3, <2>4, Zenon DEF RequestDelete
<1>7. CASE AwaitAdd(c) \/ AwaitDelete(c)
  BY <1>7, Zenon DEF AwaitAdd, AwaitDelete, QueueLedger, QueueWriting
<1>8. CASE CompleteDelete(c)
  BY <1>8 DEF CompleteDelete, QueueLedger, QueueWriting
<1> QED
  BY <1>1, <1>2, <1>3, <1>4, <1>5, <1>6, <1>7, <1>8, ZenonT(60) DEF QueueRun

(* The steps of Delivery are steps of the composition.                     *)
MessageAlone ==
  /\ MessageStep \/ ClearQueueRetired \/ UNCHANGED vars
  /\ UNCHANGED queueVars

(* They are steps of Delivery.                                             *)
LEMMA MessagesAreDelivery ==
  ASSUME MessageAlone
  PROVE  [Next]_vars
<1>1. ASSUME NEW c \in Clients, MessageCall(c)
      PROVE  Call(c)
  BY <1>1, Zenon DEF MessageCall, Call
<1> QED
  BY <1>1 DEF MessageAlone, MessageStep, ClearQueueRetired, Next

NativeQueue == (ServeQueue \/ StartHead) /\ UNCHANGED <<ledgerVars, clientVars>>

(* The steps of the composition, by who takes them.                        *)
LEMMA QueueSteps ==
  ASSUME [QueueNext]_allVars
  PROVE  \/ MessageAlone
         \/ \E c \in Clients : QueueCall(c) \/ QueueRun(c) \/ QueueCrash(c)
         \/ NativeQueue
BY Zenon DEF QueueNext, allVars, MessageAlone, MessageStep, ClearQueueRetired, NativeQueue

(* A crash is a step of Delivery in which the client also stops waiting.   *)
LEMMA CrashIsDelivery ==
  ASSUME NEW c \in Clients, QueueCrash(c)
  PROVE  [Next]_vars /\ StopWaiting(c) /\ UNCHANGED <<backlog, completed>>
BY DEF QueueCrash, Next

(* The native queue keeps its entries, requests and replies of their type. *)
LEMMA NativeQueueType ==
  ASSUME QueueTyped, NativeQueue
  PROVE  QueueTyped'
<1>0. /\ backlog \in Seq(QueueEntry) /\ queueWire \subseteq QueueRequest
      /\ queueReplies \subseteq QueueReply /\ completed \subseteq 1..MaxClaims
      /\ LedgerTypeOK /\ ServerTypeOK /\ ClientTyped /\ Kinds
  BY ZenonT(60) DEF QueueTyped, TypeInv, TypeOK, ClientTyped
<1>1. LedgerTypeOK' /\ ClientTyped' /\ Kinds'
  <2>1. ledgerVars' = ledgerVars /\ clientVars' = clientVars
    BY Zenon DEF NativeQueue
  <2> QED
    BY <1>0, <2>1, Zenon DEF ledgerVars, clientVars, LedgerTypeOK, ClientTyped, Named, Unnamed, Holds,
                      Kinds, KindOf, Targets
<1>2. CASE ServeQueue
  <2>1. PICK q \in queueWire : ServeAdd(q) \/ ServeDelete(q) \/ LoseQueueRequest(q)
    BY <1>2 DEF ServeQueue
  <2>2. q \in QueueRequest
    BY <1>0
  <2>3. ServerTypeOK' /\ completed' \subseteq 1..MaxClaims
    BY <1>0, <1>2, Zenon DEF ServeQueue, serverVars, ServerTypeOK
  <2>4. queueWire' \subseteq QueueRequest
    BY <1>0, <2>1, Zenon DEF ServeAdd, ServeDelete, LoseQueueRequest
  <2>5. ASSUME NEW ok \in BOOLEAN, ReplyTo(q, ok)
        PROVE  queueReplies' \subseteq QueueReply
    BY <1>0, <2>2, <2>5 DEF ReplyTo, QueueReply, QueueRequest
  <2>6. queueReplies' \subseteq QueueReply
    BY <1>0, <2>1, <2>5, Zenon DEF ServeAdd, ServeDelete, LoseQueueRequest
  <2>7. CASE ServeAdd(q)
    <3>1. [entry |-> q.entry, id |-> q.id, text |-> q.text] \in QueueEntry
      BY <2>2, Zenon DEF QueueRequest, QueueEntry
    <3>2. backlog' \in Seq(QueueEntry)
      BY <1>0, <2>7, <3>1 DEF ServeAdd
    <3> QED
      BY <1>1, <2>3, <2>4, <2>6, <3>2, Zenon DEF QueueTyped, TypeInv, TypeOK, ClientTyped
  <2>8. CASE ServeDelete(q)
    <3>1. backlog' \in Seq(QueueEntry)
      BY <1>0, <2>8, Removal, ZenonT(60) DEF ServeDelete, Without
    <3> QED
      BY <1>1, <2>3, <2>4, <2>6, <3>1, ZenonT(60) DEF QueueTyped, TypeInv, TypeOK, ClientTyped
  <2>9. CASE LoseQueueRequest(q)
    <3>1. backlog' \in Seq(QueueEntry)
      BY <1>0, <2>9 DEF LoseQueueRequest
    <3> QED
      BY <1>1, <2>3, <2>4, <2>6, <3>1 DEF QueueTyped, TypeInv, TypeOK, ClientTyped
  <2> QED
    BY <2>1, <2>7, <2>8, <2>9
<1>3. CASE StartHead
  <2>1. Head(backlog) \in QueueEntry /\ Tail(backlog) \in Seq(QueueEntry)
    BY <1>0, <1>3 DEF StartHead
  <2>2. turns + 1 \in 1..MaxTurns /\ turns + 1 \in 0..MaxTurns
    BY <1>0, <1>3, LedgerAssumption DEF StartHead, ServerTypeOK
  <2> DEFINE m == [id |-> Head(backlog).id, text |-> Head(backlog).text, turn |-> turns + 1,
                   joined |-> FALSE, claim |-> Head(backlog).entry]
  <2>3. m \in UserMessage
    BY <2>1, <2>2, Zenon DEF QueueEntry, UserMessage
  <2>4. delivered' = delivered \cup {m} /\ visible' \in {visible, visible \cup {m}}
    BY <1>3, ZenonT(60) DEF StartHead
  <2> HIDE DEF m
  <2>5. ServerTypeOK'
    BY <1>0, <1>3, <2>2, <2>3, <2>4, Zenon DEF StartHead, ServerTypeOK
  <2>6. backlog' \in Seq(QueueEntry) /\ UNCHANGED <<queueWire, queueReplies, completed>>
    BY <1>3, <2>1, Zenon DEF StartHead
  <2> QED
    BY <1>0, <1>1, <2>5, <2>6, Zenon DEF QueueTyped, TypeInv, TypeOK, ClientTyped
<1> QED
  BY <1>2, <1>3 DEF NativeQueue

(* A step of Delivery keeps the labels and kinds of the queue.             *)
LEMMA MessageKinds ==
  ASSUME Kinds, MessageEffect
  PROVE  Kinds'
<1>1. ASSUME NEW c \in Clients, Messaging(c)'
      PROVE  KindOf(c)'
  BY <1>1, Zenon DEF Messaging, MessageLabels, KindOf, Targets
<1>2. ASSUME NEW c \in Clients, pc'[c] = pc[c], op'[c] = op[c]
      PROVE  KindOf(c)'
  BY <1>2, Zenon DEF Kinds, KindOf, Targets
<1> QED
  BY <1>1, <1>2, Zenon DEF Kinds, MessageEffect

(* The types, with the labels at which each call runs, are inductive.      *)
LEMMA QueueTypedStep == QueueTyped /\ [QueueNext]_allVars => QueueTyped'
<1> SUFFICES ASSUME QueueTyped, [QueueNext]_allVars
             PROVE  QueueTyped'
  OBVIOUS
<1>0. /\ backlog \in Seq(QueueEntry) /\ queueWire \subseteq QueueRequest
      /\ queueReplies \subseteq QueueReply /\ completed \subseteq 1..MaxClaims
      /\ TypeInv /\ LedgerTypeOK /\ ServerTypeOK /\ Kinds
  BY DEF QueueTyped, TypeInv, TypeOK
<1>1. CASE MessageAlone
  <2>1. TypeInv'
    BY <1>0, <1>1, MessagesAreDelivery, TypeStep
  <2>2. Kinds'
    BY <1>0, <1>1, MessagesAreDelivery, MessageSteps, MessageKinds
  <2> QED
    BY <1>0, <1>1, <2>1, <2>2 DEF MessageAlone, queueVars, QueueTyped
<1>2. ASSUME NEW c \in Clients, QueueCrash(c)
      PROVE  QueueTyped'
  <2>1. TypeInv'
    BY <1>0, <1>2, CrashIsDelivery, TypeStep
  <2>2. Kinds'
    BY <1>0, <1>2, CrashIsDelivery, MessageSteps, MessageKinds
  <2>3. queueWire' \subseteq QueueRequest /\ queueReplies' \subseteq QueueReply
    BY <1>0, <1>2, CrashIsDelivery, StopWaitingType, ZenonT(60)
  <2> QED
    BY <1>0, <1>2, <2>1, <2>2, <2>3, CrashIsDelivery, Zenon DEF QueueTyped
<1>3. ASSUME NEW c \in Clients, QueueCall(c)
      PROVE  QueueTyped'
  <2>1. CallEffect(c)
    BY <1>3, QueueCallEffect
  <2>2. Kinds' /\ ClientTyped'
    BY <1>0, <2>1, KindsKept, ZenonT(60) DEF CallEffect
  <2>3. UNCHANGED <<ledgerVars, serverVars, queueVars>>
    BY <2>1, Zenon DEF CallEffect
  <2> QED
    BY <1>0, <2>2, <2>3, Zenon DEF QueueTyped, TypeInv, TypeOK, ClientTyped, LedgerTypeOK,
       ServerTypeOK, ledgerVars, serverVars, queueVars
<1>4. ASSUME NEW c \in Clients, QueueRun(c)
      PROVE  QueueTyped'
  <2>1. ClientEffect(c)
    BY <1>4, QueueRunEffect
  <2>2. Kinds' /\ ClientTyped'
    BY <1>0, <2>1, KindsKept, ZenonT(60) DEF ClientEffect
  <2>3. QueueLedger(c) /\ QueueWriting(c) /\ serverVars' = serverVars /\ backlog' = backlog
    BY <1>0, <1>4, QueueRunState
  <2>4. ServerTypeOK' /\ backlog' \in Seq(QueueEntry)
    BY <1>0, <2>3, Zenon DEF serverVars, ServerTypeOK
  <2>5. /\ pc[c] = "recordQueue" => op[c].id \in Ids /\ op[c].text \in Texts
        /\ pc[c] \in {"recordDelete", "clearDelete", "clearStarted", "requestDelete",
                      "completeDelete"} => Targets(c)
    BY LabelsName, ZenonT(60) DEF QueueLabels, DeleteLabels
  <2>6. LedgerTypeOK'
    <3>1. CASE UNCHANGED ledgerVars
      BY <1>0, <3>1, Zenon DEF ledgerVars, LedgerTypeOK
    <3>2. CASE pc[c] = "recordQueue" /\ RecordQueue(op[c].id, op[c].text)
      BY <1>0, <2>5, <3>2, ZenonT(60) DEF RecordQueue, LedgerTypeOK
    <3>3. CASE \/ pc[c] = "recordDelete" /\ RecordDeletion(EntryOf(op[c]))
               \/ pc[c] \in {"clearDelete", "clearStarted"} /\ ClearDeletion(EntryOf(op[c]))
      <4>1. EntryOf(op[c]) \in QueueEntry
        BY <2>5, <3>3, WrittenTypes, ZenonT(60)
      <4>2. op[c].id \in Ids /\ op[c].text \in Texts
        BY <3>3, LabelsName, Zenon DEF DeleteLabels
      <4> QED
        BY <1>0, <3>3, <4>1, <4>2, QueueLedgerType, ZenonT(60)
    <3>4. CASE claims < MaxClaims /\ claims' = claims + 1 /\ UNCHANGED <<send, queued, deletions, retired>>
      BY <1>0, <3>4, LedgerAssumption DEF LedgerTypeOK
    <3> QED
      BY <2>3, <3>1, <3>2, <3>3, <3>4, Zenon DEF QueueLedger
  <2>7. queueWire' \subseteq QueueRequest /\ queueReplies' \subseteq QueueReply
        /\ completed' \subseteq 1..MaxClaims
    <3>1. CASE UNCHANGED <<queueWire, queueReplies, completed>>
      BY <1>0, <3>1
    <3>2. ASSUME NEW by \in {c, None}, pc[c] = "addQueue", claims < MaxClaims, claims' = claims + 1,
                 queueWire' = queueWire \cup {RequestOf(by, "add", [op[c] EXCEPT !.claim = claims'])}
          PROVE  queueWire' \subseteq QueueRequest
      <4>1. claims' \in 1..MaxClaims
        BY <1>0, <3>2, LedgerAssumption DEF LedgerTypeOK
      <4>2. RequestOf(by, "add", [op[c] EXCEPT !.claim = claims']) \in QueueRequest
        BY <3>2, <4>1, WrittenTypes, Zenon
      <4> QED
        BY <1>0, <3>2, <4>2, Zenon
    <3>3. ASSUME NEW by \in {c, None}, pc[c] = "requestDelete",
                 queueWire' = queueWire \cup {RequestOf(by, "delete", op[c])}
          PROVE  queueWire' \subseteq QueueRequest
      BY <1>0, <2>5, <3>3, WrittenTypes
    <3>4. CASE StopWaiting(c) /\ UNCHANGED completed
      BY <1>0, <3>4, StopWaitingType, ZenonT(60)
    <3>5. CASE pc[c] = "completeDelete" /\ completed' = completed \cup {op[c].claim}
               /\ UNCHANGED <<queueWire, queueReplies>>
      BY <1>0, <2>5, <3>5, WrittenTypes
    <3> QED
      BY <1>0, <2>3, <3>1, <3>2, <3>3, <3>4, <3>5, Zenon DEF QueueWriting
  <2> QED
    BY <2>2, <2>4, <2>6, <2>7, Zenon DEF QueueTyped, TypeInv, TypeOK, ClientTyped
<1>5. CASE NativeQueue
  BY <1>5, NativeQueueType
<1> QED
  BY <1>1, <1>2, <1>3, <1>4, <1>5, QueueSteps

(* The steps of Delivery, apart from the cleanup of a retired thread,      *)
(* leave the queue attempts and the deletion intents alone.                *)
LEMMA MessagesKeepQueue ==
  ASSUME MessageStep
  PROVE  UNCHANGED <<queued, deletions>>
<1> USE DEF ledgerVars
<1>1. ASSUME NEW c \in Clients, Run(c)
      PROVE  UNCHANGED <<queued, deletions>>
  <2>1. CASE \/ CheckQueue(c) \/ Reconcile(c) \/ Recheck(c) \/ Resume(c) \/ Write(c) \/ ReadReply(c)
             \/ Lookup(c) \/ UnwrittenOutcome(c) \/ AcknowledgeWalk(c) \/ FindReceipt(c)
    <3>1. UNCHANGED ledgerVars
      BY <2>1, ZenonT(60) DEF CheckQueue, Reconcile, Recheck, ReconcileSubmitting, Resume, Write, ReadReply,
         Lookup, UnwrittenOutcome, AcknowledgeWalk, FindReceipt
    <3> QED
      BY <3>1
  <2>2. CASE \/ RecordAttempt(c) \/ Admit(c) \/ Restore(c) \/ Mark(c) \/ AcknowledgeRemove(c) \/ Adopt(c)
    BY <2>2, ZenonT(60) DEF RecordAttempt, Admit, Restore, Mark, AcknowledgeRemove, Adopt,
       RecordSend, ClaimSend, RestoreSend, AcceptSend, RemoveSend, AdoptReceipt
  <2> QED
    BY <1>1, <2>1, <2>2, Zenon DEF Run
<1>2. ASSUME NEW c \in Clients, MessageCall(c)
      PROVE  UNCHANGED <<queued, deletions>>
  <2>1. Call(c)
    BY <1>2, Zenon DEF MessageCall, Call
  <2> QED
    BY <2>1 DEF Call, BeginAcknowledge, BeginSend, BeginReconcile, Begin, BeginAttempted,
                Discard, Prepare, RecordSend, RemoveSend
<1>3. CASE Native
  BY <1>3 DEF Native
<1> QED
  BY <1>1, <1>2, <1>3 DEF MessageStep

(* Nothing is queued, asked or shown initially.                            *)
LEMMA QueueInitially ==
  QueueInit => QueueTyped /\ visible \subseteq delivered
<1> SUFFICES ASSUME QueueInit PROVE QueueTyped /\ visible \subseteq delivered
  OBVIOUS
<1>1. TypeInv
  BY Initially DEF QueueInit
<1>2. \A c \in Clients : pc[c] = "idle" /\ op[c] = NoOperation
  BY ZenonT(60) DEF QueueInit, Init
<1>3. Kinds
  BY <1>2 DEF Kinds, KindOf, Targets, NoOperation, Asked, QueueLabels, DeleteLabels, LookupLabels
<1>4. backlog \in Seq(QueueEntry)
  BY DEF QueueInit
<1> QED
  BY <1>1, <1>2, <1>3, <1>4, Zenon DEF QueueInit, Init, ServerInit, QueueTyped

(***************************************************************************)
(* The number of a queue entry belongs to one entry, and to no direct      *)
(* send.                                                                   *)
(***************************************************************************)
EntryOfRequest(q) == [entry |-> q.entry, id |-> q.id, text |-> q.text]

Adding == {q \in queueWire : q.kind = "add"}

(* The entries in the queue, with those the native server can still get.   *)
Waiting == Entries \cup {EntryOfRequest(q) : q \in Adding}

(* The entries that deletions are about.                                   *)
Intended == deletions \cup UNION {Work(c) : c \in Clients}

Mentioned == Waiting \cup Intended

(* The claim of a direct send whose outcome is open.                       *)
Used(k) ==
  \/ \E x \in wire \cup replies : x.claim = k
  \/ \E c \in Clients : Holds(c) /\ op[c].claim = k

EntriesDrawn ==
  /\ \A e \in Mentioned : e.entry <= claims
  /\ \A k \in completed : k <= claims

Distinct == \A m, n \in 1..Len(backlog) : backlog[m].entry = backlog[n].entry => m = n

EntriesExclusive ==
  /\ \A e, f \in Mentioned : e.entry = f.entry => e = f
  /\ \A q, r \in Adding : q.entry = r.entry => q = r
  /\ \A q \in Adding, e \in Entries \cup Intended : q.entry # e.entry
  /\ Distinct
  /\ \A e \in Mentioned : ~Used(e.entry)
  /\ \A e \in Waiting, m \in delivered : m.claim # e.entry

(* The same after a step.                                                  *)
LEMMA EntriesAfter ==
  ASSUME backlog' \in Seq(QueueEntry)
  PROVE  Entries' = {backlog'[n] : n \in 1..Len(backlog')}
BY DEF Entries

(* The entries that are added, removed and taken from the front.           *)
LEMMA AppendEntries ==
  ASSUME QueueTyped, Distinct, NEW e \in QueueEntry, \A f \in Entries : f.entry # e.entry,
         backlog' = Append(backlog, e)
  PROVE  Entries' = Entries \cup {e} /\ Distinct'
<1>1. backlog \in Seq(QueueEntry) /\ Len(backlog) \in Nat
  BY DEF QueueTyped
<1>2. Entries = {backlog[n] : n \in 1..Len(backlog)}
  BY EntriesAt, Zenon
<1>3. /\ Len(backlog') = Len(backlog) + 1
      /\ \A n \in 1..Len(backlog) : backlog'[n] = backlog[n]
      /\ backlog'[Len(backlog) + 1] = e
  BY <1>1
<1>4. Entries' = {backlog'[n] : n \in 1..Len(backlog')}
  BY <1>1, Zenon DEF Entries
<1>5. 1..Len(backlog') = 1..Len(backlog) \cup {Len(backlog) + 1}
  BY <1>1, <1>3
<1>6. Entries' = Entries \cup {e}
  BY <1>2, <1>3, <1>4, <1>5
<1>7. \A n \in 1..Len(backlog) : backlog[n] \in Entries
  BY <1>2, Zenon
<1>8. Distinct'
  <2> SUFFICES ASSUME NEW m \in 1..Len(backlog'), NEW n \in 1..Len(backlog'),
                      backlog'[m].entry = backlog'[n].entry
               PROVE  m = n
    BY Zenon DEF Distinct
  <2> QED
    BY <1>3, <1>5, <1>7, ZenonT(60) DEF Distinct
<1> QED
  BY <1>6, <1>8, Zenon

(* A removed entry leaves the others.                                      *)
LEMMA RemoveEntries ==
  ASSUME QueueTyped, Distinct, NEW n \in 1..Len(backlog), backlog' = Without(backlog, n)
  PROVE  /\ Entries' \subseteq Entries /\ Distinct'
         /\ \A e \in Entries' : e.entry # backlog[n].entry
<1>1. backlog \in Seq(QueueEntry) /\ Len(backlog) \in Nat
  BY DEF QueueTyped
<1>2. Entries = {backlog[k] : k \in 1..Len(backlog)}
  BY EntriesAt, Zenon
<1>3. /\ Len(backlog') = Len(backlog) - 1 /\ backlog' \in Seq(QueueEntry)
      /\ \A k \in 1..(Len(backlog) - 1) :
           backlog'[k] = IF k < n THEN backlog[k] ELSE backlog[k + 1]
  BY <1>1, Removal, Zenon
<1>4. Entries' = {backlog'[k] : k \in 1..Len(backlog')}
  BY <1>3, EntriesAfter, ZenonT(60)
<1>5. \A k \in 1..(Len(backlog) - 1) :
        (IF k < n THEN k ELSE k + 1) \in (1..Len(backlog)) \ {n}
  BY <1>1
<1>6. \A k \in 1..Len(backlog') : \E j \in (1..Len(backlog)) \ {n} :
        backlog'[k] = backlog[j] /\ j = IF k < n THEN k ELSE k + 1
  BY <1>3, <1>5, Zenon
<1>7. \A m, k \in 1..Len(backlog') :
        (IF m < n THEN m ELSE m + 1) = (IF k < n THEN k ELSE k + 1) => m = k
  BY <1>1, <1>3
<1>8. Distinct'
  <2> SUFFICES ASSUME NEW m \in 1..Len(backlog'), NEW k \in 1..Len(backlog'),
                      backlog'[m].entry = backlog'[k].entry
               PROVE  m = k
    BY Zenon DEF Distinct
  <2>1. PICK i \in 1..Len(backlog) :
          backlog'[m] = backlog[i] /\ i = IF m < n THEN m ELSE m + 1
    BY <1>6, Zenon
  <2>2. PICK j \in 1..Len(backlog) :
          backlog'[k] = backlog[j] /\ j = IF k < n THEN k ELSE k + 1
    BY <1>6, Zenon
  <2>3. i = j
    BY <2>1, <2>2, Zenon DEF Distinct
  <2> QED
    BY <1>7, <2>1, <2>2, <2>3, Zenon
<1>9. ASSUME NEW e \in Entries'
      PROVE  e \in Entries /\ e.entry # backlog[n].entry
  <2>1. PICK k \in 1..Len(backlog') : e = backlog'[k]
    BY <1>4, Zenon
  <2>2. PICK j \in (1..Len(backlog)) \ {n} : e = backlog[j]
    BY <1>6, <2>1, Zenon
  <2> QED
    BY <1>2, <2>2, Zenon DEF Distinct
<1> QED
  BY <1>8, <1>9, Zenon

(* The started entry leaves the others.                                    *)
LEMMA TailEntries ==
  ASSUME QueueTyped, Distinct, backlog # <<>>, backlog' = Tail(backlog)
  PROVE  /\ Head(backlog) \in Entries
         /\ Entries' \subseteq Entries /\ Distinct'
         /\ \A e \in Entries' : e.entry # Head(backlog).entry
<1>1. backlog \in Seq(QueueEntry) /\ Len(backlog) \in Nat /\ Len(backlog) # 0
  BY DEF QueueTyped
<1>2. Entries = {backlog[k] : k \in 1..Len(backlog)}
  BY EntriesAt, Zenon
<1>3. /\ Len(backlog') = Len(backlog) - 1 /\ backlog' \in Seq(QueueEntry)
      /\ \A k \in 1..(Len(backlog) - 1) : backlog'[k] = backlog[k + 1]
  BY <1>1
<1>4. Entries' = {backlog'[k] : k \in 1..Len(backlog')}
  BY <1>3, EntriesAfter, ZenonT(60)
<1>5. Head(backlog) = backlog[1] /\ 1 \in 1..Len(backlog)
  BY <1>1
<1>6. \A k \in 1..Len(backlog') : k + 1 \in 1..Len(backlog) /\ k + 1 # 1
  BY <1>1, <1>3
<1>7. Distinct'
  <2> SUFFICES ASSUME NEW m \in 1..Len(backlog'), NEW k \in 1..Len(backlog'),
                      backlog'[m].entry = backlog'[k].entry
               PROVE  m = k
    BY DEF Distinct
  <2>1. m + 1 = k + 1
    BY <1>3, <1>6 DEF Distinct
  <2> QED
    BY <1>1, <1>3, <2>1
<1>8. ASSUME NEW e \in Entries'
      PROVE  e \in Entries /\ e.entry # Head(backlog).entry
  <2>1. PICK k \in 1..Len(backlog') : e = backlog'[k]
    BY <1>4
  <2>2. e = backlog[k + 1]
    BY <1>3, <2>1
  <2> QED
    BY <1>2, <1>5, <1>6, <2>2, ZenonT(60) DEF Distinct
<1> QED
  BY <1>2, <1>5, <1>7, <1>8, Zenon

(* Every entry that is mentioned has its type.                             *)
LEMMA MentionedTypes ==
  ASSUME QueueTyped
  PROVE  Mentioned \subseteq QueueEntry
<1>1. Entries \subseteq QueueEntry /\ deletions \subseteq QueueEntry
  BY EntriesAt, Zenon DEF QueueTyped, TypeInv, TypeOK, LedgerTypeOK
<1>2. ASSUME NEW q \in Adding PROVE EntryOfRequest(q) \in QueueEntry
  BY <1>2, Zenon DEF Adding, QueueTyped, QueueRequest, EntryOfRequest, QueueEntry
<1>3. ASSUME NEW c \in Clients PROVE Work(c) \subseteq QueueEntry
  <2>1. op[c].todo \subseteq QueueEntry
    BY LabelsName, Zenon DEF Operation
  <2> QED
    BY <2>1, WrittenTypes, ZenonT(60) DEF Work
<1> QED
  BY <1>1, <1>2, <1>3, ZenonT(60) DEF Mentioned, Waiting, Intended

(* How claims travel in a step of Delivery: from the holder to the wire,   *)
(* from there to the replies and the messages; only admission draws one.   *)
LEMMA ClaimsTravel ==
  ASSUME TypeInv, [Next]_vars
  PROVE  /\ claims' \in {claims, claims + 1}
         /\ \A k : Used(k)' => Used(k) \/ (k = claims + 1 /\ claims' = claims + 1)
         /\ \A m \in delivered' : m \in delivered \/ \E f \in wire : f.claim = m.claim
<1> DEFINE Travels ==
             /\ claims' \in {claims, claims + 1}
             /\ \A k : Used(k)' => Used(k) \/ (k = claims + 1 /\ claims' = claims + 1)
             /\ \A m \in delivered' : m \in delivered \/ \E f \in wire : f.claim = m.claim
<1>0. pc \in [Clients -> Label] /\ op \in [Clients -> Operation]
  BY DEF TypeInv, TypeOK
<1>1. ASSUME NoClaimMoves, claims' = claims, wire' \subseteq wire, replies' \subseteq replies,
             delivered' = delivered
      PROVE  Travels
  BY <1>1, Zenon DEF NoClaimMoves, Used, Holds, Holding
<1>2. CASE QuietStep
  <2>1. claims' = claims
    BY <1>2, Zenon DEF QuietStep, Transaction, RecordSend, AdoptReceipt, AcceptSend, RemoveSend,
                ClearThread, ledgerVars
  <2> QED
    BY <1>1, <1>2, <2>1, Zenon DEF QuietStep
<1>3. ASSUME NEW c \in Clients, Admit(c)
      PROVE  Travels
  <2>1. wire' = wire /\ replies' = replies /\ delivered' = delivered
    BY <1>3 DEF Admit, serverVars
  <2>2. ASSUME claims' = claims + 1, Goto(c, "admitted", [op[c] EXCEPT !.claim = claims'])
        PROVE  Travels
    <3>1. [op[c] EXCEPT !.claim = claims'].claim = claims'
      BY <1>0 DEF Operation
    <3>2. Only(c) /\ pc'[c] = "admitted" /\ op'[c].claim = claims'
      BY <2>2, <3>1, GotoMoves, ZenonT(60)
    <3> QED
      BY <2>1, <2>2, <3>2 DEF Only, Used, Holds
  <2>3. ASSUME claims' \in {claims, claims + 1}, Unwritten(c, FALSE)
        PROVE  Travels
    <3>1. NoClaimMoves
      BY <2>3, Letting, ZenonT(60)
    <3> QED
      BY <2>1, <2>3, <3>1, Zenon DEF NoClaimMoves, Used, Holds, Holding
  <2> QED
    BY <1>3, <2>2, <2>3, Zenon DEF Admit, ClaimSend, ledgerVars
<1>4. ASSUME NEW c \in Clients, Write(c)
      PROVE  Travels
  <2>1. /\ claims' = claims /\ replies' = replies /\ delivered' = delivered /\ Holds(c)
        /\ wire' \subseteq wire \cup {FrameOf(op[c])}
    BY <1>4, ZenonT(60) DEF Write, ledgerVars, Holds
  <2>2. Only(c) /\ op'[c] = op[c]
    BY <1>4, GotoMoves, Zenon DEF Write
  <2>3. FrameOf(op[c]).claim = op[c].claim
    BY Zenon DEF FrameOf
  <2> QED
    BY <2>1, <2>2, <2>3, Zenon DEF Only, Used, Holds
<1>5. ASSUME NEW c \in Clients, ReadReply(c)
      PROVE  Travels
  <2>1. /\ claims' = claims /\ replies' \subseteq replies /\ delivered' = delivered
        /\ wire' = wire /\ Holds(c)
    BY <1>5, Zenon DEF ReadReply, ledgerVars, Holds
  <2>2. \/ NoClaimMoves
        \/ Only(c) /\ op'[c] = op[c]
    BY <1>5, GotoMoves, Letting, ZenonT(120) DEF ReadReply
  <2> QED
    BY <1>1, <2>1, <2>2, Zenon DEF Only, Used, Holds
<1>6. ASSUME NEW c \in Clients, Restore(c)
      PROVE  Travels
  <2>1. NoClaimMoves /\ claims' = claims /\ serverVars' = serverVars
    BY <1>6, Letting, ZenonT(60) DEF Restore, RestoreSend, ledgerVars
  <2> QED
    BY <1>1, <2>1, Zenon DEF serverVars
<1>7. ASSUME NEW f \in wire, ServeInput(f) \/ RefuseInput(f), UNCHANGED <<ledgerVars, clientVars>>
      PROVE  Travels
  <2>1. claims' = claims /\ pc' = pc /\ op' = op /\ wire' \subseteq wire
    BY <1>7, Zenon DEF ledgerVars, clientVars, ServeInput, RefuseInput
  <2>2. \A r \in replies' : r \in replies \/ r.claim = f.claim
    BY <1>7 DEF ServeInput, RefuseInput
  <2>3. \A m \in delivered' : m \in delivered \/ m.claim = f.claim
    BY <1>7 DEF ServeInput, RefuseInput
  <2> QED
    BY <2>1, <2>2, <2>3, Zenon DEF Used, Holds
<1> QED
  BY <1>2, <1>3, <1>4, <1>5, <1>6, <1>7, QuietOrClaim, ZenonT(60) DEF ClaimStep

(* Used claims and delivered ones were drawn.                              *)
LEMMA UsedDrawn ==
  ASSUME TypeInv, ExclusiveClaims
  PROVE  /\ claims \in Nat
         /\ \A k : Used(k) => k \in Nat /\ k <= claims
         /\ \A m \in delivered : m.claim \in Nat /\ m.claim <= claims
<1>1. claims \in Nat /\ wire \subseteq Frame /\ replies \subseteq Reply /\ delivered \subseteq UserMessage
  <2>1. claims \in 0..MaxClaims
    BY Zenon DEF TypeInv, TypeOK, LedgerTypeOK
  <2>2. wire \subseteq Frame /\ replies \subseteq Reply /\ delivered \subseteq UserMessage
    BY Zenon DEF TypeInv, TypeOK, ServerTypeOK
  <2> QED
    BY <2>1, <2>2, LedgerAssumption
<1>2. \A x \in wire \cup replies \cup delivered : x.claim \in Nat /\ x.claim <= claims
  <2>1. \A x \in wire \cup replies \cup delivered : x.claim <= claims
    BY Zenon DEF ExclusiveClaims
  <2>2. \A x \in Frame \cup Reply \cup UserMessage : x.claim \in Nat
    <3>1. \A x \in Frame : x.claim \in Nat
      BY LedgerAssumption DEF Frame
    <3>2. \A x \in Reply : x.claim \in Nat
      BY LedgerAssumption DEF Reply
    <3>3. \A x \in UserMessage : x.claim \in Nat
      BY LedgerAssumption DEF UserMessage
    <3> QED
      BY <3>1, <3>2, <3>3, Zenon
  <2> QED
    BY <1>1, <2>1, <2>2, Zenon
<1>3. \A c \in Clients : Holds(c) => op[c].claim \in Nat /\ op[c].claim <= claims
  <2>1. \A c \in Clients : Holds(c) => op[c].claim \in 1..claims
    BY ZenonT(60) DEF ExclusiveClaims
  <2> QED
    BY <1>1, <2>1
<1> QED
  BY <1>1, <1>2, <1>3, ZenonT(60) DEF Used

(* No new direct send gets the number of an entry, nor the other way.      *)
ClaimsApart ==
  /\ claims' \in {claims, claims + 1}
  /\ \A k : Used(k)' => Used(k) \/ (k = claims + 1 /\ claims' = claims + 1)
  /\ \A m \in delivered' : m \in delivered \/ \E f \in wire : f.claim = m.claim

(* A step that neither writes an addition nor serves the queue.            *)
LEMMA EntriesKept ==
  ASSUME QueueTyped, ExclusiveClaims, EntriesDrawn, EntriesExclusive, ClaimsApart,
         backlog' = backlog, \A k \in completed' : k \in Nat /\ k <= claims,
         Intended' \subseteq Intended \cup Entries,
         \A r \in Adding' : \E q \in Adding : EntryOfRequest(r) = EntryOfRequest(q),
         \A q, r \in Adding' : q.entry = r.entry => q = r
  PROVE  EntriesDrawn' /\ EntriesExclusive'
<1>0. Entries' = Entries
  BY Zenon DEF Entries
<1>1. \A r \in Adding' : EntryOfRequest(r).entry = r.entry
  BY Zenon DEF EntryOfRequest
<1>2. \A r \in Adding : EntryOfRequest(r).entry = r.entry
  BY Zenon DEF EntryOfRequest
<1>3. Waiting' \subseteq Waiting
  BY <1>0, Zenon DEF Waiting
<1>4. Mentioned' \subseteq Mentioned
  BY <1>3, Zenon DEF Mentioned, Waiting
<1>5. \A e \in Mentioned : e.entry \in Nat /\ e.entry <= claims
  BY MentionedTypes DEF EntriesDrawn, QueueEntry
<1>6. claims \in Nat
  BY UsedDrawn DEF QueueTyped
<1>7. EntriesDrawn'
  <2>2. CASE claims' = claims
    BY <1>4, <2>2, ZenonT(60) DEF EntriesDrawn
  <2>3. CASE claims' = claims + 1
    <3>1. \A k \in Nat : k <= claims => k <= claims'
      BY <1>6, <2>3, NextNumber, Zenon
    <3> QED
      BY <1>4, <1>5, <3>1, Zenon DEF EntriesDrawn
  <2> QED
    BY <2>2, <2>3, Zenon DEF ClaimsApart
<1>8. \A e \in Mentioned' : ~Used(e.entry)'
  <2>1. \A e \in Mentioned : e.entry # claims + 1
    BY <1>5, <1>6, NextNumber, Zenon
  <2> QED
    BY <1>4, <2>1, Zenon DEF ClaimsApart, EntriesExclusive
<1>9. \A e \in Waiting', m \in delivered' : m.claim # e.entry
  <2> SUFFICES ASSUME NEW e \in Waiting', NEW m \in delivered'
               PROVE  m.claim # e.entry
    BY Zenon
  <2>1. e \in Waiting /\ e \in Mentioned
    BY <1>3, Zenon DEF Mentioned
  <2>2. \A f \in wire : Used(f.claim)
    BY Zenon DEF Used
  <2> QED
    BY <2>1, <2>2, Zenon DEF ClaimsApart, EntriesExclusive
<1>10. \A q \in Adding', e \in (Entries \cup Intended)' : q.entry # e.entry
  <2>1. ASSUME NEW r \in Adding'
        PROVE  \E q \in Adding : r.entry = q.entry
    <3>1. PICK q \in Adding : EntryOfRequest(r) = EntryOfRequest(q)
      BY Zenon
    <3> QED
      BY <1>1, <1>2, <3>1, Zenon
  <2>2. (Entries \cup Intended)' \subseteq Entries \cup Intended
    BY <1>0, ZenonT(60)
  <2> QED
    BY <2>1, <2>2, Zenon DEF EntriesExclusive
<1>11. Distinct'
  BY Zenon DEF EntriesExclusive, Distinct
<1> QED
  BY <1>4, <1>7, <1>8, <1>9, <1>10, <1>11, ZenonT(60) DEF EntriesExclusive

(* A client that stops waiting takes no request back.                      *)
LEMMA StopWaitingAdds ==
  ASSUME queueWire \subseteq QueueRequest, NEW c \in Clients, StopWaiting(c)
  PROVE  /\ \A r \in queueWire' : \E q \in queueWire :
              /\ EntryOfRequest(r) = EntryOfRequest(q) /\ r.kind = q.kind
              /\ r = IF q.by = c THEN [q EXCEPT !.by = None] ELSE q
         /\ \A r \in Adding' : \E q \in Adding : EntryOfRequest(r) = EntryOfRequest(q)
         /\ (\A q, r \in Adding : q.entry = r.entry => q = r)
              => \A q, r \in Adding' : q.entry = r.entry => q = r
<1>1. ASSUME NEW r \in queueWire'
      PROVE  \E q \in queueWire :
               /\ EntryOfRequest(r) = EntryOfRequest(q) /\ r.kind = q.kind
               /\ r = IF q.by = c THEN [q EXCEPT !.by = None] ELSE q
  <2>1. PICK q \in queueWire : r = IF q.by = c THEN [q EXCEPT !.by = None] ELSE q
    BY DEF StopWaiting
  <2>2. EntryOfRequest(r) = EntryOfRequest(q) /\ r.kind = q.kind
    BY <2>1 DEF QueueRequest, EntryOfRequest
  <2> QED
    BY <2>1, <2>2
<1>2. \A q, r : EntryOfRequest(q) = EntryOfRequest(r) => q.entry = r.entry
  BY Zenon DEF EntryOfRequest
<1> QED
  BY <1>1, <1>2 DEF Adding

(* Deletions take on the entries that are in the queue or intended.        *)
LEMMA IntendedStep ==
  ASSUME QueueTyped, [QueueNext]_allVars
  PROVE  Intended' \subseteq Intended \cup Entries
<1>0. TypeInv
  BY DEF QueueTyped
<1>1. ASSUME MessageEffect, deletions' \subseteq deletions
      PROVE  Intended' \subseteq Intended
  <2>1. ASSUME NEW c \in Clients PROVE Work(c)' \subseteq Work(c)
    BY <1>1, Zenon DEF MessageEffect, Messaging, MessageLabels, Work, Targets
  <2> QED
    BY <1>1, <2>1, ZenonT(60) DEF Intended
<1>2. CASE MessageAlone
  <2>1. deletions' \subseteq deletions
    BY <1>2, MessagesKeepQueue, ZenonT(60) DEF MessageAlone, ClearQueueRetired, ClearRetired, ClearThread,
       vars, ledgerVars
  <2> QED
    BY <1>1, <1>2, <2>1, MessagesAreDelivery, MessageSteps, ZenonT(60)
<1>3. ASSUME NEW c \in Clients, QueueCrash(c)
      PROVE  Intended' \subseteq Intended
  <2>1. deletions' \subseteq deletions
    BY <1>3 DEF QueueCrash, Crash, ledgerVars
  <2> QED
    BY <1>1, <1>3, <2>1, CrashIsDelivery, MessageSteps
<1>4. ASSUME NEW c \in Clients, Only(c), Work(c)' \subseteq Intended \cup Entries,
             deletions' \subseteq Intended
      PROVE  Intended' \subseteq Intended \cup Entries
  <2>1. ASSUME NEW d \in Clients \ {c} PROVE Work(d)' = Work(d)
    BY <1>4, Zenon DEF Only, Work, Targets
  <2> QED
    BY <1>4, <2>1, ZenonT(60) DEF Intended
<1>5. ASSUME NEW c \in Clients, QueueCall(c)
      PROVE  Intended' \subseteq Intended \cup Entries
  <2>1. CallEffect(c)
    BY <1>5, QueueCallEffect
  <2> QED
    BY <1>4, <2>1, ZenonT(60) DEF CallEffect, Intended, ledgerVars
<1>6. ASSUME NEW c \in Clients, QueueRun(c)
      PROVE  Intended' \subseteq Intended \cup Entries
  <2>1. ClientEffect(c) /\ QueueLedger(c)
    BY <1>0, <1>6, QueueRunEffect, QueueRunState, ZenonT(60)
  <2>2. pc[c] = "recordDelete" => EntryOf(op[c]) \in Work(c)
    BY LabelsName, Zenon DEF Work, DeleteLabels
  <2>3. Work(c) \subseteq Intended /\ deletions \subseteq Intended
    BY Zenon DEF Intended
  <2>4. deletions' \subseteq Intended
    <3>1. \/ deletions' = deletions \/ deletions' = {d \in deletions : d.entry # EntryOf(op[c]).entry}
          \/ pc[c] = "recordDelete" /\ deletions' = deletions \cup {EntryOf(op[c])}
      BY <2>1, ZenonT(60) DEF QueueLedger, RecordQueue, RecordDeletion, ClearDeletion, ledgerVars
    <3> QED
      BY <2>2, <2>3, <3>1, ZenonT(60)
  <2> QED
    BY <1>4, <2>1, <2>3, <2>4, ZenonT(60) DEF ClientEffect
<1>7. CASE NativeQueue
  <2>1. pc' = pc /\ op' = op /\ deletions' = deletions
    BY <1>7, Zenon DEF NativeQueue, ledgerVars, clientVars
  <2> QED
    BY <2>1, ZenonT(60) DEF Intended, Work, Targets
<1> QED
  BY <1>2, <1>3, <1>5, <1>6, <1>7, QueueSteps, Zenon

(* The steps of Delivery keep the numbers of entries apart.                *)
LEMMA MessageEntries ==
  ASSUME QueueTyped, ExclusiveClaims, EntriesDrawn, EntriesExclusive,
         MessageAlone \/ \E c \in Clients : QueueCrash(c), [QueueNext]_allVars
  PROVE  EntriesDrawn' /\ EntriesExclusive'
<1>1. [Next]_vars /\ backlog' = backlog /\ completed' = completed
  BY MessagesAreDelivery, CrashIsDelivery, Zenon DEF MessageAlone, queueVars
<1>2. ClaimsApart
  BY <1>1, ClaimsTravel, Zenon DEF QueueTyped, ClaimsApart
<1>3. /\ \A r \in Adding' : \E q \in Adding : EntryOfRequest(r) = EntryOfRequest(q)
      /\ \A q, r \in Adding' : q.entry = r.entry => q = r
  <2>1. CASE queueWire' = queueWire
    BY <2>1, Zenon DEF Adding, EntriesExclusive
  <2>2. ASSUME NEW c \in Clients, StopWaiting(c)
        PROVE  <1>3!1 /\ <1>3!2
    BY <2>2, StopWaitingAdds DEF QueueTyped, EntriesExclusive
  <2> QED
    BY <2>1, <2>2, CrashIsDelivery, ZenonT(60) DEF MessageAlone, queueVars
<1>4. \A k \in completed' : k \in Nat /\ k <= claims
  BY <1>1 DEF QueueTyped, EntriesDrawn
<1> QED
  BY <1>1, <1>2, <1>3, <1>4, IntendedStep, EntriesKept, Zenon

(* A step of the queue that leaves the direct sends alone.                 *)
LEMMA Apart ==
  ASSUME NEW c \in Clients, Only(c), pc'[c] \notin Holding, serverVars' = serverVars,
         claims' \in {claims, claims + 1}
  PROVE  ClaimsApart
BY Zenon DEF Only, ClaimsApart, Used, Holds, Holding, serverVars

(* Calls and steps of queue operations keep the numbers apart; the number  *)
(* of an addition is fresh.                                                *)
LEMMA CallEntries ==
  ASSUME QueueTyped, ExclusiveClaims, EntriesDrawn, EntriesExclusive,
         NEW c \in Clients, QueueCall(c), [QueueNext]_allVars
  PROVE  EntriesDrawn' /\ EntriesExclusive'
<1>1. CallEffect(c)
  BY QueueCallEffect, Zenon
<1>2. UNCHANGED <<backlog, queueWire, completed, claims>> /\ serverVars' = serverVars
  BY <1>1, ZenonT(60) DEF CallEffect, queueVars, ledgerVars
<1>3. ClaimsApart
  BY <1>1, <1>2, Apart, Zenon DEF CallEffect
<1>4. \A k \in completed' : k \in Nat /\ k <= claims
  <2>1. completed \subseteq 1..MaxClaims /\ \A k \in completed : k <= claims
    BY ZenonT(60) DEF QueueTyped, EntriesDrawn
  <2> QED
    BY <1>2, <2>1
<1>5. /\ \A r \in Adding' : \E q \in Adding : EntryOfRequest(r) = EntryOfRequest(q)
      /\ \A q, r \in Adding' : q.entry = r.entry => q = r
  BY <1>2, Zenon DEF Adding, EntriesExclusive
<1> QED
  BY <1>2, <1>3, <1>4, <1>5, IntendedStep, EntriesKept, ZenonT(60)

(* The request of an addition carries the fresh number.                    *)
LEMMA FreshAddition ==
  ASSUME QueueTyped, NEW c \in Clients, pc[c] = "addQueue",
         claims < MaxClaims, claims' = claims + 1, NEW by \in {c, None}
  PROVE  LET q == RequestOf(by, "add", [op[c] EXCEPT !.claim = claims']) IN
         /\ q.kind = "add" /\ q.entry = claims' /\ q.id = op[c].id /\ q.text = op[c].text
         /\ q.by = by
<1> DEFINE o == [op[c] EXCEPT !.claim = claims']
<1>1. claims' \in 0..MaxClaims /\ op[c] \in Operation
  <2>1. op[c] \in Operation
    BY LabelsName, Zenon
  <2>2. claims \in 0..MaxClaims
    BY Zenon DEF QueueTyped, TypeInv, TypeOK, LedgerTypeOK
  <2> QED
    BY <2>1, <2>2, LedgerAssumption
<1>2. o.id = op[c].id /\ o.text = op[c].text /\ o.claim = claims'
  BY <1>1, ClaimUpdate, ZenonT(60)
<1> HIDE DEF o
<1>3. /\ RequestOf(by, "add", o).kind = "add" /\ RequestOf(by, "add", o).entry = o.claim
      /\ RequestOf(by, "add", o).id = o.id /\ RequestOf(by, "add", o).text = o.text
      /\ RequestOf(by, "add", o).by = by
  BY Zenon DEF RequestOf
<1> QED
  BY <1>2, <1>3, ZenonT(60) DEF o

(* So do the steps of a queue operation: the number of an addition is      *)
(* fresh.                                                                  *)
LEMMA RunEntries ==
  ASSUME QueueTyped, ExclusiveClaims, EntriesDrawn, EntriesExclusive,
         NEW c \in Clients, QueueRun(c), [QueueNext]_allVars
  PROVE  EntriesDrawn' /\ EntriesExclusive'
<1>0. TypeInv /\ claims \in Nat /\ \A k \in completed : k \in Nat
  BY UsedDrawn DEF QueueTyped
<1>1. /\ ClientEffect(c) /\ QueueLedger(c) /\ QueueWriting(c)
      /\ serverVars' = serverVars /\ backlog' = backlog
  BY <1>0, QueueRunEffect, QueueRunState, Zenon
<1>2. claims' \in {claims, claims + 1}
  BY <1>1, ZenonT(60) DEF QueueLedger, RecordQueue, RecordDeletion, ClearDeletion, ledgerVars
<1>3. ClaimsApart
  BY <1>1, <1>2, Apart, ZenonT(60) DEF ClientEffect
<1>4. Intended' \subseteq Intended \cup Entries
  BY IntendedStep, Zenon
<1>5. ASSUME Adding' = Adding, \A k \in completed' : k \in Nat /\ k <= claims
      PROVE  EntriesDrawn' /\ EntriesExclusive'
  <2>1. \A q, r \in Adding' : q.entry = r.entry => q = r
    BY <1>5, Zenon DEF EntriesExclusive
  <2> QED
    BY <1>1, <1>3, <1>4, <1>5, <2>1, EntriesKept, Zenon
<1>6. CASE UNCHANGED <<queueWire, queueReplies, completed>>
  BY <1>0, <1>5, <1>6, Zenon DEF Adding, EntriesDrawn
<1>7. ASSUME NEW by \in {c, None}, queueWire' = queueWire \cup {RequestOf(by, "delete", op[c])},
             UNCHANGED completed
      PROVE  EntriesDrawn' /\ EntriesExclusive'
  <2>1. RequestOf(by, "delete", op[c]).kind = "delete"
    BY Zenon DEF RequestOf
  <2> QED
    BY <1>0, <1>5, <1>7, <2>1, Zenon DEF Adding, EntriesDrawn
<1>8. CASE StopWaiting(c) /\ UNCHANGED completed
  <2>1. /\ \A r \in Adding' : \E q \in Adding : EntryOfRequest(r) = EntryOfRequest(q)
        /\ \A q, r \in Adding' : q.entry = r.entry => q = r
    BY <1>8, StopWaitingAdds, Zenon DEF QueueTyped, EntriesExclusive
  <2>2. \A k \in completed' : k \in Nat /\ k <= claims
    BY <1>0, <1>8, Zenon DEF EntriesDrawn
  <2> QED
    BY <1>1, <1>3, <1>4, <2>1, <2>2, EntriesKept, ZenonT(60)
<1>9. CASE pc[c] = "completeDelete" /\ completed' = completed \cup {op[c].claim}
           /\ UNCHANGED <<queueWire, queueReplies>>
  <2>1. Targets(c) /\ EntryOf(op[c]).entry = op[c].claim
    BY <1>9, LabelsName, Zenon DEF DeleteLabels, EntryOf
  <2>2. EntryOf(op[c]) \in Mentioned
    BY <2>1, ZenonT(60) DEF Mentioned, Intended, Work
  <2>3. op[c].claim \in Nat /\ op[c].claim <= claims
    BY <2>1, <2>2, WrittenTypes DEF EntriesDrawn
  <2> QED
    BY <1>0, <1>5, <1>9, <2>3, ZenonT(60) DEF Adding, EntriesDrawn
<1>10. ASSUME NEW by \in {c, None}, pc[c] = "addQueue", claims < MaxClaims, claims' = claims + 1,
              queueWire' = queueWire \cup {RequestOf(by, "add", [op[c] EXCEPT !.claim = claims'])},
              UNCHANGED <<queueReplies, completed>>
       PROVE  EntriesDrawn' /\ EntriesExclusive'
  <2>1. PICK q : /\ queueWire' = queueWire \cup {q} /\ q.kind = "add" /\ q.entry = claims'
    BY <1>10, FreshAddition, ZenonT(60)
  <2>2. Adding' = Adding \cup {q}
    BY <2>1, Zenon DEF Adding
  <2>3. EntryOfRequest(q).entry = claims' /\ \A r \in Adding : EntryOfRequest(r).entry = r.entry
    BY <2>1, Zenon DEF EntryOfRequest
  <2>4. Entries' = Entries
    BY <1>1, ZenonT(60) DEF Entries
  <2>5. Waiting' = Waiting \cup {EntryOfRequest(q)}
    BY <2>2, <2>4, Zenon DEF Waiting
  <2>6. Mentioned' \subseteq Mentioned \cup {EntryOfRequest(q)}
    BY <1>4, <2>5, Zenon DEF Mentioned, Waiting
  <2>7. \A e \in Mentioned : e.entry \in Nat /\ e.entry <= claims /\ e.entry # claims'
    BY <1>0, <1>10, MentionedTypes DEF EntriesDrawn, QueueEntry
  <2>8. EntriesDrawn'
    <3>1. claims' <= claims' /\ \A k \in Nat : k <= claims => k <= claims'
      BY <1>0, <1>10
    <3>2. \A k \in completed : k \in Nat /\ k <= claims
      BY <1>0, Zenon DEF EntriesDrawn
    <3> QED
      BY <1>10, <2>3, <2>6, <2>7, <3>1, <3>2, Zenon DEF EntriesDrawn
  <2>9. /\ \A k : Used(k)' => Used(k) /\ k # claims'
        /\ \A m \in delivered' : m \in delivered /\ m.claim # claims'
    <3>1. \A k : Used(k) => k # claims'
      BY <1>0, <1>10, UsedDrawn DEF QueueTyped
    <3>2. \A m \in delivered : m.claim # claims'
      BY <1>0, <1>10, UsedDrawn DEF QueueTyped
    <3>3. \A k : Used(k)' => Used(k)
      BY <1>1, ZenonT(60) DEF ClientEffect, Only, Used, Holds, Holding, serverVars
    <3> QED
      BY <1>1, <3>1, <3>2, <3>3, Zenon DEF serverVars
  <2>10. \A r \in Adding : EntryOfRequest(r) \in Mentioned /\ r.entry # claims'
    BY <2>3, <2>7, Zenon DEF Mentioned, Waiting
  <2>11. \A e, f \in Mentioned' : e.entry = f.entry => e = f
    BY <2>3, <2>6, <2>7, ZenonT(60) DEF EntriesExclusive
  <2>12. \A r, s \in Adding' : r.entry = s.entry => r = s
    BY <2>1, <2>2, <2>10, ZenonT(60) DEF EntriesExclusive
  <2>13. \A r \in Adding', e \in (Entries \cup Intended)' : r.entry # e.entry
    <3>1. (Entries \cup Intended)' \subseteq Entries \cup Intended
      BY <1>4, <2>4, Zenon
    <3>2. Entries \cup Intended \subseteq Mentioned
      BY Zenon DEF Mentioned, Waiting
    <3> QED
      BY <2>1, <2>2, <2>7, <3>1, <3>2, ZenonT(60) DEF EntriesExclusive
  <2>14. Distinct'
    BY <1>1, Zenon DEF EntriesExclusive, Distinct
  <2>15. \A e \in Mentioned' : ~Used(e.entry)'
    BY <2>3, <2>6, <2>9, ZenonT(60) DEF EntriesExclusive
  <2>16. \A e \in Waiting', m \in delivered' : m.claim # e.entry
    BY <2>3, <2>5, <2>9, ZenonT(60) DEF EntriesExclusive
  <2> QED
    BY <2>8, <2>11, <2>12, <2>13, <2>14, <2>15, <2>16, ZenonT(60) DEF EntriesExclusive
<1> QED
  BY <1>1, <1>6, <1>7, <1>8, <1>9, <1>10, Zenon DEF QueueWriting

(* What the native queue does to the entries: a request is served or lost, *)
(* or the oldest entry starts.                                             *)
ServedEntries ==
  \/ \E q \in Adding : /\ queueWire' = queueWire \ {q}
                       /\ Entries' = Entries \cup {EntryOfRequest(q)}
                       /\ delivered' = delivered
  \/ \E q \in queueWire : /\ queueWire' = queueWire \ {q}
                          /\ Entries' \subseteq Entries
                          /\ delivered' = delivered
  \/ \E e \in Entries : \E m :
       /\ queueWire' = queueWire
       /\ Entries' \subseteq Entries
       /\ \A f \in Entries' : f.entry # e.entry
       /\ delivered' = delivered \cup {m}
       /\ m.claim = e.entry /\ m.id = e.id /\ m.text = e.text
       /\ visible' = IF Lag THEN visible ELSE visible \cup {m}

(* Every step of the native queue is one of these.                         *)
LEMMA NativeServes ==
  ASSUME QueueTyped, EntriesExclusive, NativeQueue
  PROVE  /\ ServedEntries /\ Distinct'
         /\ UNCHANGED <<pc, op, send, queued, deletions, claims, retired, wire, replies, completed>>
         /\ Waiting' \subseteq Waiting
<1>0. backlog \in Seq(QueueEntry) /\ queueWire \subseteq QueueRequest /\ Distinct
  BY Zenon DEF QueueTyped, EntriesExclusive
<1>1. UNCHANGED <<pc, op, send, queued, deletions, claims, retired, wire, replies, completed>>
  BY Zenon DEF NativeQueue, ServeQueue, StartHead, ledgerVars, clientVars, serverVars
<1>2. ASSUME NEW q \in queueWire, ServeAdd(q), delivered' = delivered
      PROVE  ServedEntries /\ Distinct'
  <2>1. q \in Adding /\ EntryOfRequest(q) \in QueueEntry /\ EntryOfRequest(q).entry = q.entry
    BY <1>0, <1>2, ZenonT(60) DEF ServeAdd, Adding, QueueRequest, EntryOfRequest, QueueEntry
  <2>2. \A f \in Entries : f.entry # EntryOfRequest(q).entry
    BY <2>1, Zenon DEF EntriesExclusive
  <2>3. backlog' = Append(backlog, EntryOfRequest(q)) /\ queueWire' = queueWire \ {q}
    BY <1>2, Zenon DEF ServeAdd, EntryOfRequest
  <2>4. Entries' = Entries \cup {EntryOfRequest(q)} /\ Distinct'
    BY <1>0, <2>1, <2>2, <2>3, AppendEntries, ZenonT(60)
  <2> QED
    BY <1>2, <2>1, <2>3, <2>4, Zenon DEF ServedEntries
<1>3. ASSUME NEW q \in queueWire, ServeDelete(q) \/ LoseQueueRequest(q), delivered' = delivered
      PROVE  ServedEntries /\ Distinct'
  <2>1. queueWire' = queueWire \ {q}
    BY <1>3, ZenonT(60) DEF ServeDelete, LoseQueueRequest
  <2>2. Entries' \subseteq Entries /\ Distinct'
    <3>1. CASE backlog' = backlog
      BY <1>0, <3>1, ZenonT(60) DEF Entries, Distinct
    <3>2. ASSUME NEW n \in 1..Len(backlog), backlog' = Without(backlog, n)
          PROVE  Entries' \subseteq Entries /\ Distinct'
      BY <1>0, <3>2, RemoveEntries, Zenon
    <3> QED
      BY <1>3, <3>1, <3>2, Zenon DEF ServeDelete, LoseQueueRequest, Without
  <2> QED
    BY <1>3, <2>1, <2>2, Zenon DEF ServedEntries
<1>4. ASSUME StartHead
      PROVE  ServedEntries /\ Distinct'
  <2>1. /\ backlog # <<>> /\ backlog' = Tail(backlog) /\ queueWire' = queueWire
    BY <1>4, Zenon DEF StartHead
  <2>2. /\ Head(backlog) \in Entries
        /\ Entries' \subseteq Entries /\ Distinct'
        /\ \A e \in Entries' : e.entry # Head(backlog).entry
    BY <1>0, <2>1, TailEntries, Zenon
  <2> DEFINE m == [id |-> Head(backlog).id, text |-> Head(backlog).text, turn |-> turns + 1,
                   joined |-> FALSE, claim |-> Head(backlog).entry]
  <2>3. /\ delivered' = delivered \cup {m} /\ m.claim = Head(backlog).entry
        /\ m.id = Head(backlog).id /\ m.text = Head(backlog).text
        /\ visible' = IF Lag THEN visible ELSE visible \cup {m}
    BY <1>4, ZenonT(60) DEF StartHead
  <2> HIDE DEF m
  <2> QED
    BY <2>1, <2>2, <2>3, ZenonT(60) DEF ServedEntries
<1>5. ServedEntries /\ Distinct'
  BY <1>2, <1>3, <1>4, Zenon DEF NativeQueue, ServeQueue, serverVars
<1>6. Waiting' \subseteq Waiting
  BY <1>5, Zenon DEF ServedEntries, Waiting, Adding
<1> QED
  BY <1>1, <1>5, <1>6, ZenonT(60)

(* The native queue keeps the numbers apart.                               *)
LEMMA NativeEntries ==
  ASSUME QueueTyped, ExclusiveClaims, EntriesDrawn, EntriesExclusive, NativeQueue
  PROVE  EntriesDrawn' /\ EntriesExclusive'
<1>1. /\ ServedEntries /\ Distinct'
      /\ UNCHANGED <<pc, op, deletions, claims, wire, replies, completed>>
      /\ Waiting' \subseteq Waiting
  BY NativeServes, ZenonT(60)
<1>2. Intended' = Intended /\ \A k : Used(k)' = Used(k)
  BY <1>1, Zenon DEF Intended, Work, Targets, Used, Holds
<1>3. Mentioned' \subseteq Mentioned
  BY <1>1, <1>2, Zenon DEF Mentioned
<1>4. EntriesDrawn'
  BY <1>1, <1>3, Zenon DEF EntriesDrawn
<1>5. /\ \A e, f \in Mentioned' : e.entry = f.entry => e = f
      /\ \A e \in Mentioned' : ~Used(e.entry)'
  BY <1>2, <1>3, ZenonT(60) DEF EntriesExclusive
<1>6. Adding' \subseteq Adding
  BY <1>1, ZenonT(60) DEF ServedEntries, Adding
<1>7. \A q, r \in Adding' : q.entry = r.entry => q = r
  BY <1>6, Zenon DEF EntriesExclusive
<1>8. \A q : EntryOfRequest(q).entry = q.entry
  BY Zenon DEF EntryOfRequest
<1>9. \A q \in Adding', e \in (Entries \cup Intended)' : q.entry # e.entry
  <2>1. CASE Entries' \subseteq Entries
    BY <1>2, <1>6, <2>1, ZenonT(60) DEF EntriesExclusive
  <2>2. ASSUME NEW q \in Adding, queueWire' = queueWire \ {q},
               Entries' = Entries \cup {EntryOfRequest(q)}
        PROVE  \A r \in Adding', e \in (Entries \cup Intended)' : r.entry # e.entry
    <3>1. Adding' = Adding \ {q}
      BY <2>2, ZenonT(60) DEF Adding
    <3>2. ASSUME NEW r \in Adding' PROVE r \in Adding /\ r.entry # q.entry
      BY <3>1, <3>2, Zenon DEF EntriesExclusive
    <3>3. ASSUME NEW e \in (Entries \cup Intended)'
          PROVE  e \in Entries \cup Intended \/ e.entry = q.entry
      BY <1>2, <1>8, <2>2, <3>3, Zenon
    <3> QED
      BY <3>2, <3>3, Zenon DEF EntriesExclusive
  <2> QED
    BY <1>1, <2>1, <2>2, Zenon DEF ServedEntries
<1>10. \A e \in Waiting', m \in delivered' : m.claim # e.entry
  <2>1. CASE delivered' = delivered
    BY <1>1, <2>1, ZenonT(60) DEF EntriesExclusive
  <2>2. ASSUME NEW e \in Entries, NEW m, queueWire' = queueWire, Entries' \subseteq Entries,
               \A f \in Entries' : f.entry # e.entry,
               delivered' = delivered \cup {m}, m.claim = e.entry
        PROVE  \A f \in Waiting', n \in delivered' : n.claim # f.entry
    <3>1. \A f \in Waiting' : f.entry # e.entry
      <4>1. Adding' = Adding
        BY <2>2, Zenon DEF Adding
      <4>2. \A q \in Adding : q.entry # e.entry
        BY <2>2, Zenon DEF EntriesExclusive
      <4>3. ASSUME NEW f \in Waiting'
            PROVE  f \in Entries' \/ \E q \in Adding : f = EntryOfRequest(q)
        BY <4>1, <4>3, Zenon DEF Waiting
      <4> QED
        BY <1>8, <2>2, <4>2, <4>3, ZenonT(60)
    <3> QED
      BY <1>1, <2>2, <3>1, ZenonT(60) DEF EntriesExclusive
  <2> QED
    BY <1>1, <2>1, <2>2, Zenon DEF ServedEntries
<1> QED
  BY <1>1, <1>4, <1>5, <1>7, <1>9, <1>10, ZenonT(60) DEF EntriesExclusive

(* A claim still belongs to one submission.                                *)
LEMMA QueueClaimsStep ==
  ASSUME QueueTyped, ExclusiveClaims, EntriesDrawn, EntriesExclusive, [QueueNext]_allVars
  PROVE  ExclusiveClaims'
<1>0. TypeInv /\ LedgerTypeOK /\ claims \in Nat
  BY UsedDrawn, Zenon DEF QueueTyped, TypeInv, TypeOK
<1>1. CASE MessageAlone
  BY <1>0, <1>1, MessagesAreDelivery, ExclusiveStep, ZenonT(60)
<1>2. ASSUME NEW c \in Clients, QueueCrash(c)
      PROVE  ExclusiveClaims'
  BY <1>0, <1>2, CrashIsDelivery, ExclusiveStep, Zenon
<1>3. ASSUME NEW c \in Clients, Only(c), pc'[c] \notin Holding, serverVars' = serverVars,
             claims' \in {claims, claims + 1},
             \A i \in Ids : send'[i].claim <= claims' /\ retired'[i] <= claims'
      PROVE  ExclusiveClaims'
  <2>1. \A d \in Clients : pc'[d] \in Holding => pc'[d] = pc[d] /\ op'[d] = op[d]
    BY <1>3, Zenon DEF Only
  <2>2. wire' = wire /\ replies' = replies /\ delivered' = delivered
    BY <1>3, ZenonT(60) DEF serverVars
  <2>3. /\ \A x \in wire \cup delivered \cup replies : x.claim <= claims'
        /\ \A d \in Clients : Holds(d) => op[d].claim \in 1..claims'
    <3>1. /\ \A x \in wire \cup delivered \cup replies : x.claim \in Nat /\ x.claim <= claims
          /\ \A d \in Clients : Holds(d) => op[d].claim \in 1..claims
      <4>1. \A x \in wire \cup replies : Used(x.claim)
        BY Zenon DEF Used
      <4>2. \A d \in Clients : Holds(d) => op[d].claim \in 1..claims
        BY Zenon DEF ExclusiveClaims
      <4> QED
        BY <1>0, <4>1, <4>2, UsedDrawn, Zenon
    <3> QED
      BY <1>0, <1>3, <3>1
  <2>4. \A d \in Clients : pc'[d] \in Holding <=> Holds(d)'
    BY Zenon DEF Holds, Holding
  <2>5. \A d \in Clients : Holds(d)' => Holds(d) /\ pc'[d] = pc[d] /\ op'[d] = op[d]
    BY <2>1, <2>4, Zenon DEF Holds, Holding
  <2>6. \A d \in Clients : pc'[d] \in {"admitted", "restore"} => pc'[d] = pc[d] /\ op'[d] = op[d]
    BY <2>1, Zenon DEF Holding
  <2>7. /\ \A d \in Clients : Holds(d)' => op'[d].claim \in 1..claims'
        /\ \A d, e \in Clients : Holds(d)' /\ Holds(e)' /\ op'[d].claim = op'[e].claim => d = e
    BY <2>3, <2>5, ZenonT(60) DEF ExclusiveClaims
  <2>8. /\ \A d \in Clients, x \in wire' \cup delivered' :
             pc'[d] \in {"admitted", "restore"} => x.claim # op'[d].claim
        /\ \A d \in Clients, x \in replies' : pc'[d] = "admitted" => x.claim # op'[d].claim
    BY <2>2, <2>6, ZenonT(60) DEF ExclusiveClaims
  <2> QED
    BY <1>3, <2>2, <2>3, <2>7, <2>8, ZenonT(60) DEF ExclusiveClaims
<1>4. ASSUME NEW c \in Clients, QueueCall(c)
      PROVE  ExclusiveClaims'
  <2>1. CallEffect(c)
    BY <1>4, QueueCallEffect
  <2>2. \A i \in Ids : send'[i].claim <= claims' /\ retired'[i] <= claims'
    BY <2>1, ZenonT(60) DEF CallEffect, ledgerVars, ExclusiveClaims
  <2> QED
    BY <1>3, <2>1, <2>2, Zenon DEF CallEffect, ledgerVars
<1>5. ASSUME NEW c \in Clients, QueueRun(c)
      PROVE  ExclusiveClaims'
  <2>1. ClientEffect(c) /\ QueueLedger(c) /\ serverVars' = serverVars
    BY <1>0, <1>5, QueueRunEffect, QueueRunState, ZenonT(60)
  <2>2. \A i \in Ids : /\ send[i].claim \in Nat /\ retired[i] \in Nat
                       /\ send[i].claim <= claims /\ retired[i] <= claims
    <3>1. \A i \in Ids : send[i] \in Attempt /\ retired[i] \in 0..MaxClaims
      BY <1>0, ZenonT(60) DEF LedgerTypeOK
    <3>2. \A i \in Ids : send[i].claim \in 0..MaxClaims
      BY <3>1, Zenon DEF Attempt
    <3>3. \A i \in Ids : send[i].claim <= claims /\ retired[i] <= claims
      BY ZenonT(60) DEF ExclusiveClaims
    <3> QED
      BY <3>1, <3>2, <3>3
  <2>3. Absent.claim = 0
    BY Zenon DEF Absent
  <2>4. /\ claims' \in {claims, claims + 1}
        /\ \A i \in Ids : send'[i].claim <= claims' /\ retired'[i] <= claims'
    <3>1. CASE UNCHANGED ledgerVars
      BY <2>2, <3>1, Zenon DEF ledgerVars
    <3>2. CASE RecordQueue(op[c].id, op[c].text) \/ RecordDeletion(EntryOf(op[c]))
      BY <2>2, <3>2, ZenonT(60) DEF RecordQueue, RecordDeletion
    <3>3. CASE claims' = claims + 1 /\ UNCHANGED <<send, queued, deletions, retired>>
      <4>1. claims \in Nat
        BY <1>0, Zenon
      <4>2. \A k \in Nat : k <= claims => k <= claims'
        BY <3>3, <4>1, NextNumber, Zenon
      <4> QED
        BY <2>2, <3>3, <4>2, ZenonT(60)
    <3>4. CASE ClearDeletion(EntryOf(op[c]))
      <4>1. /\ claims' = claims
            /\ \A i \in Ids : send'[i] \in {send[i], Absent} /\ retired'[i] \in {retired[i], claims}
        BY <1>0, <3>4, ZenonT(60) DEF ClearDeletion, LedgerTypeOK
      <4> QED
        BY <1>0, <2>2, <2>3, <4>1
    <3> QED
      BY <2>1, <3>1, <3>2, <3>3, <3>4, ZenonT(60) DEF QueueLedger
  <2> QED
    BY <1>3, <2>1, <2>4, ZenonT(60) DEF ClientEffect
<1>6. CASE NativeQueue
  <2>1. /\ ServedEntries
        /\ UNCHANGED <<pc, op, send, claims, retired, wire, replies>>
    BY <1>6, NativeServes, Zenon
  <2>2. CASE delivered' = delivered
    BY <2>1, <2>2, ZenonT(60) DEF ExclusiveClaims, Holds
  <2>3. ASSUME NEW e \in Entries, NEW m, delivered' = delivered \cup {m}, m.claim = e.entry
        PROVE  ExclusiveClaims'
    <3>1. e \in Waiting /\ e \in Mentioned
      BY Zenon DEF Waiting, Mentioned
    <3>2. /\ m.claim <= claims
          /\ \A x \in wire \cup replies : x.claim # m.claim
          /\ \A n \in delivered : n.claim # m.claim
          /\ \A c \in Clients : Holds(c) => op[c].claim # m.claim
      BY <2>3, <3>1, ZenonT(60) DEF EntriesDrawn, EntriesExclusive, Used
    <3> QED
      BY <2>1, <2>3, <3>2, ZenonT(60) DEF ExclusiveClaims, Holds
  <2> QED
    BY <2>1, <2>2, <2>3, ZenonT(60) DEF ServedEntries
<1> QED
  BY <1>1, <1>2, <1>4, <1>5, <1>6, QueueSteps, ZenonT(60)

(* The numbers of entries and claims, in every step.                       *)
QueueBase == QueueTyped /\ ExclusiveClaims /\ EntriesDrawn /\ EntriesExclusive

(* Every step keeps them.                                                  *)
LEMMA QueueBaseStep == QueueBase /\ [QueueNext]_allVars => QueueBase'
<1> SUFFICES ASSUME QueueBase, [QueueNext]_allVars
             PROVE  EntriesDrawn' /\ EntriesExclusive'
  BY QueueTypedStep, QueueClaimsStep, Zenon DEF QueueBase
<1> QED
  BY QueueSteps, MessageEntries, CallEntries, RunEntries, NativeEntries, Zenon DEF QueueBase

(* The entries in the queue or on their way to it, in every step: only     *)
(* thread/queue/add brings one.                                            *)
AddsEntry(c, e) ==
  /\ pc[c] = "addQueue"
  /\ claims' = claims + 1 /\ UNCHANGED <<send, queued, deletions, retired>>
  /\ e.id = op[c].id /\ e.text = op[c].text /\ e.entry = claims + 1
  /\ Waiting' = Waiting \cup {e}

(* A queue operation brings no entry but by its request.                   *)
LEMMA RunWaiting ==
  ASSUME QueueTyped, NEW c \in Clients, QueueRun(c)
  PROVE  Waiting' \subseteq Waiting \/ \E e : AddsEntry(c, e)
<1>0. TypeInv /\ queueWire \subseteq QueueRequest
  BY DEF QueueTyped
<1>1. QueueLedger(c) /\ QueueWriting(c) /\ backlog' = backlog
  BY <1>0, QueueRunState, Zenon
<1>2. Entries' = Entries
  BY <1>1, Zenon DEF Entries
<1>3. CASE UNCHANGED queueWire
  BY <1>2, <1>3, ZenonT(60) DEF Waiting, Adding
<1>4. CASE StopWaiting(c)
  <2>1. \A r \in Adding' : \E q \in Adding : EntryOfRequest(r) = EntryOfRequest(q)
    BY <1>0, <1>4, StopWaitingAdds, Zenon
  <2> QED
    BY <1>2, <2>1, Zenon DEF Waiting
<1>5. ASSUME NEW by \in {c, None}, pc[c] = "requestDelete",
             queueWire' = queueWire \cup {RequestOf(by, "delete", op[c])}
      PROVE  Waiting' \subseteq Waiting
  <2>1. RequestOf(by, "delete", op[c]).kind = "delete"
    BY Zenon DEF RequestOf
  <2> QED
    BY <1>2, <1>5, <2>1, ZenonT(60) DEF Waiting, Adding
<1>6. ASSUME NEW by \in {c, None}, pc[c] = "addQueue", claims < MaxClaims, claims' = claims + 1,
             queueWire' = queueWire \cup {RequestOf(by, "add", [op[c] EXCEPT !.claim = claims'])}
      PROVE  \E e : AddsEntry(c, e)
  <2> DEFINE q == RequestOf(by, "add", [op[c] EXCEPT !.claim = claims'])
             e == EntryOfRequest(q)
  <2>1. q.kind = "add" /\ q.entry = claims' /\ q.id = op[c].id /\ q.text = op[c].text
    BY <1>6, FreshAddition, Zenon
  <2>2. queueWire' = queueWire \cup {q}
    BY <1>6, ZenonT(60)
  <2> HIDE DEF q
  <2>3. e.id = op[c].id /\ e.text = op[c].text /\ e.entry = claims'
    BY <2>1, Zenon DEF EntryOfRequest
  <2>4. Adding' = Adding \cup {q}
    BY <2>1, <2>2, Zenon DEF Adding
  <2>5. Waiting' = Waiting \cup {e}
    BY <1>2, <2>4, Zenon DEF Waiting
  <2>6. claims \in Nat
    BY LedgerAssumption DEF QueueTyped, TypeInv, TypeOK, LedgerTypeOK
  <2>7. UNCHANGED <<send, queued, deletions, retired>>
    BY <1>1, <1>6, <2>6 DEF QueueLedger, ledgerVars
  <2> QED
    BY <1>6, <2>3, <2>5, <2>7, Zenon DEF AddsEntry
<1> QED
  BY <1>1, <1>3, <1>4, <1>5, <1>6, Zenon DEF QueueWriting

(* Messages, crashes and calls bring no entry, and the native queue starts *)
(* or drops those it has.                                                  *)
LEMMA OthersWaiting ==
  ASSUME QueueBase,
         \/ MessageAlone \/ NativeQueue
         \/ \E c \in Clients : QueueCall(c) \/ QueueCrash(c)
  PROVE  Waiting' \subseteq Waiting
<1>1. CASE NativeQueue
  BY <1>1, NativeServes, Zenon DEF QueueBase
<1>2. CASE UNCHANGED <<backlog, queueWire>>
  BY <1>2, Zenon DEF Waiting, Adding, Entries
<1>3. CASE MessageAlone
  BY <1>2, <1>3, ZenonT(60) DEF MessageAlone, queueVars
<1>4. ASSUME NEW c \in Clients, QueueCall(c)
      PROVE  Waiting' \subseteq Waiting
  BY <1>2, <1>4, QueueCallEffect, Zenon DEF CallEffect, queueVars, QueueBase
<1>5. ASSUME NEW c \in Clients, QueueCrash(c)
      PROVE  Waiting' \subseteq Waiting
  <2>1. StopWaiting(c) /\ backlog' = backlog /\ queueWire \subseteq QueueRequest
    BY <1>5, CrashIsDelivery, Zenon DEF QueueBase, QueueTyped
  <2> QED
    BY <2>1, StopWaitingAdds DEF Waiting, Entries
<1> QED
  BY <1>1, <1>3, <1>4, <1>5

(* Nothing is mentioned initially.                                         *)
LEMMA QueueBaseInitially ==
  ASSUME QueueInit
  PROVE  /\ QueueBase /\ Waiting = {} /\ Mentioned = {}
         /\ \A c \in Clients : pc[c] = "idle" /\ op[c] = NoOperation
<1>1. /\ QueueTyped
      /\ \A c \in Clients : pc[c] = "idle" /\ op[c] = NoOperation
      /\ wire = {} /\ delivered = {} /\ replies = {} /\ completed = {}
      /\ deletions = {} /\ queueWire = {} /\ backlog = <<>>
  BY QueueInitially, Zenon DEF QueueInit, Init, ServerInit, LedgerInit
<1>2. Init => ExclusiveClaims
  BY Initially, Zenon
<1>3. Entries = {} /\ Adding = {} /\ Len(backlog) = 0
  <2>1. Adding = {}
    BY <1>1, Zenon DEF Adding
  <2>2. Len(backlog) = 0
    BY <1>1, Zenon
  <2> QED
    BY <2>1, <2>2 DEF Entries
<1>4. Intended = {}
  <2>1. \A c \in Clients : op[c].todo = {} /\ ~Targets(c)
    <3>1. NoOperation.todo = {}
      BY Zenon DEF NoOperation, Asked
    <3>2. "idle" \notin DeleteLabels
      BY DEF DeleteLabels
    <3> QED
      BY <1>1, <3>1, <3>2, Zenon DEF Targets
  <2> QED
    BY <1>1, <2>1, ZenonT(60) DEF Intended, Work
<1>5. Waiting = {} /\ Mentioned = {}
  BY <1>3, <1>4, Zenon DEF Waiting, Mentioned
<1>6. EntriesDrawn /\ EntriesExclusive
  <2>1. Distinct
    BY <1>3 DEF Distinct
  <2> QED
    BY <1>1, <1>3, <1>4, <1>5, <2>1, Zenon DEF EntriesDrawn, EntriesExclusive
<1> QED
  BY <1>1, <1>2, <1>5, <1>6, ZenonT(60) DEF QueueBase, QueueInit
==============================================================================
