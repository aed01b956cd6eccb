---------------------------- MODULE PermitProofs ----------------------------
(***************************************************************************)
(* Receipts are true, and delivery implements SubmissionPermit.  What a    *)
(* client knows of a receipt comes from history, from the reply to its own *)
(* request or from the ledger; with that, and with the ownership of        *)
(* DeliveryProofs, every step is a step of the permit protocol.            *)
(***************************************************************************)
EXTENDS DeliveryProofs

(* The server accepted a message of identity i in this turn.               *)
Accepted(i, turn) == \E m \in delivered : m.id = i /\ m.turn = turn

(* What the server shows and answers is what it accepted; a request or     *)
(* message under the claim a client holds is of the identity the client    *)
(* submits.                                                                *)
Answers ==
  /\ visible \subseteq delivered
  /\ \A r \in replies : ~r.refused =>
       \E m \in delivered : m.claim = r.claim /\ m.turn = r.turn

SameMessage ==
  \A c \in Clients, x \in wire \cup delivered :
    Holds(c) /\ x.claim = op[c].claim => x.id = op[c].id

(* A client that is about to record a receipt, or has read one in the      *)
(* ledger, or has returned one, knows a turn of the message it works on.   *)
Knows(c) ==
  /\ pc[c] \in {"mark", "adopt"} => Accepted(op[c].id, op[c].turn)
  /\ op[c].seen.state = "accepted" => Accepted(op[c].id, op[c].seen.turn)
  /\ outcome[c].kind = "receipt" => Accepted(outcome[c].id, outcome[c].turn)

LedgerKnows ==
  \A i \in Ids : send[i].state = "accepted" => Accepted(i, send[i].turn)

Receipted ==
  Answers /\ SameMessage /\ LedgerKnows /\ \A c \in Clients : Knows(c)

(* What the server accepted stays accepted.                                *)
LEMMA AcceptedStays ==
  ASSUME NEW i, NEW turn, Accepted(i, turn), delivered \subseteq delivered'
  PROVE  Accepted(i, turn)'
BY DEF Accepted

(* No step takes back a message the server accepted.                       *)
LEMMA DeliveredStays ==
  ASSUME TypeInv, [Next]_vars
  PROVE  delivered \subseteq delivered'
BY QuietOrClaim, Zenon DEF QuietStep, ClaimStep, Admit, Write, ReadReply, Restore, ServeInput,
   RefuseInput, serverVars

(* Only the server extends history and answers.                            *)
LEMMA AnswersStep ==
  ASSUME TypeInv, Answers, [Next]_vars
  PROVE  Answers'
<1>1. ASSUME NEW f \in wire, ServeInput(f) PROVE Answers'
  <2> DEFINE n == [id |-> f.id, text |-> f.text, turn |-> TurnOfInput,
                   joined |-> active # 0, claim |-> f.claim]
             r == [claim |-> f.claim, refused |-> FALSE, turn |-> TurnOfInput]
  <2>1. delivered' = delivered \cup {n} /\ replies' = replies \cup {r} /\ visible' = visible
    BY <1>1 DEF ServeInput
  <2>2. n.claim = r.claim /\ n.turn = r.turn
    OBVIOUS
  <2> HIDE DEF n, r
  <2> QED
    BY <2>1, <2>2 DEF Answers
<1>2. ASSUME NEW f \in wire, RefuseInput(f) PROVE Answers'
  <2> DEFINE r == [claim |-> f.claim, refused |-> TRUE, turn |-> 0]
  <2>1. delivered' = delivered /\ replies' = replies \cup {r} /\ visible' = visible
    BY <1>2 DEF RefuseInput
  <2>2. r.refused
    OBVIOUS
  <2> HIDE DEF r
  <2> QED
    BY <2>1, <2>2 DEF Answers
<1>3. ASSUME NEW m \in delivered, ShowInput(m) PROVE Answers'
  BY <1>3 DEF ShowInput, Answers
<1>4. ASSUME delivered' = delivered, visible' = visible, replies' \subseteq replies
      PROVE  Answers'
  BY <1>4 DEF Answers
<1>5. CASE Native
  BY <1>1, <1>2, <1>3, <1>4, <1>5, Zenon DEF Native, Serve, LoseInput, FinishTurn
<1>6. ASSUME NEW c \in Clients, ReadReply(c) PROVE Answers'
  BY <1>4, <1>6 DEF ReadReply
<1>7. ASSUME NEW c \in Clients, Run(c), ~ReadReply(c)
      PROVE  delivered' = delivered /\ visible' = visible /\ replies' = replies
  BY <1>7, Zenon DEF Run, CheckQueue, Reconcile, Recheck, ReconcileSubmitting, Resume,
     RecordAttempt, Admit, Write, ReadReply, Restore, Lookup, Mark,
     UnwrittenOutcome, AcknowledgeWalk, AcknowledgeRemove, FindReceipt, Adopt, serverVars
<1>8. ASSUME NEW c \in Clients, Call(c) \/ Crash(c)
      PROVE  delivered' = delivered /\ visible' = visible /\ replies' = replies
  <2>1. serverVars' = serverVars
    BY <1>8, ZenonT(120) DEF Call, BeginAcknowledge, BeginSend, BeginReconcile, Begin, BeginAttempted,
       Discard, Prepare, Crash
  <2> QED
    BY <2>1 DEF serverVars
<1>9. ASSUME ClearRetired \/ UNCHANGED vars
      PROVE  delivered' = delivered /\ visible' = visible /\ replies' = replies
  BY <1>9 DEF ClearRetired, vars, serverVars
<1>10. \/ Native
       \/ \E c \in Clients : ReadReply(c)
       \/ delivered' = delivered /\ visible' = visible /\ replies' = replies
  BY <1>7, <1>8, <1>9, Zenon DEF Next
<1> QED
  BY <1>4, <1>5, <1>6, <1>10

(* A claim and the message submitted under it stay together.               *)
LEMMA SameMessageStep ==
  ASSUME TypeInv, ExclusiveClaims, SameMessage, [Next]_vars
  PROVE  SameMessage'
<1>1. CASE QuietStep
  BY <1>1 DEF QuietStep, NoClaimMoves, SameMessage, Holds, Holding
<1>2. ASSUME NEW c \in Clients, Admit(c) PROVE SameMessage'
  <2>1. /\ \A d \in Clients \ {c} : pc'[d] = pc[d] /\ op'[d] = op[d]
        /\ wire' = wire /\ delivered' = delivered
    BY <1>2, SMTT(30) DEF TypeInv, TypeOK, Admit, Goto, Unwritten, serverVars
  <2>2. Holds(c)' => op'[c].claim = claims + 1
    <3>1. op[c] \in Operation /\ pc \in [Clients -> Label] /\ op \in [Clients -> Operation]
      BY DEF TypeInv, TypeOK
    <3> QED
      BY <1>2, <3>1, SMTT(30) DEF Admit, ClaimSend, Goto, Unwritten, Holds, Operation
  <2>3. \A x \in wire \cup delivered : x.claim \in Nat /\ x.claim <= claims /\ claims \in Nat
    BY SubmissionTypes
  <2>4. \A x \in wire \cup delivered : x.claim # claims + 1
    BY <2>3
  <2> QED
    BY <2>1, <2>2, <2>4 DEF SameMessage, Holds
<1>3. ASSUME NEW c \in Clients, Write(c) PROVE SameMessage'
  <2>1. /\ \A d \in Clients : Holds(d)' => Holds(d) /\ op'[d] = op[d]
        /\ Holds(c)
    BY <1>3, SMTT(30) DEF TypeInv, TypeOK, Write, Goto, Holds
  <2>2. wire' \subseteq wire \cup {FrameOf(op[c])} /\ delivered' = delivered
    BY <1>3 DEF Write
  <2>3. FrameOf(op[c]).claim = op[c].claim /\ FrameOf(op[c]).id = op[c].id
    BY DEF FrameOf
  <2>4. \A d \in Clients : Holds(d) /\ op[d].claim = op[c].claim => d = c
    BY <2>1, Zenon DEF ExclusiveClaims
  <2> HIDE DEF FrameOf
  <2> QED
    BY <2>1, <2>2, <2>3, <2>4 DEF SameMessage
<1>4. ASSUME NEW c \in Clients, ReadReply(c) \/ Restore(c) PROVE SameMessage'
  <2>1. \A d \in Clients : Holds(d)' => Holds(d) /\ op'[d] = op[d]
    BY <1>4, ZenonT(60) DEF TypeInv, TypeOK, ReadReply, Restore, Goto, ToMark, Unwritten, Holds
  <2>2. wire' = wire /\ delivered' = delivered
    BY <1>4, Zenon DEF ReadReply, Restore, serverVars
  <2> QED
    BY <2>1, <2>2 DEF SameMessage
<1>5. ASSUME NEW f \in wire, ServeInput(f) \/ RefuseInput(f), UNCHANGED <<ledgerVars, clientVars>>
      PROVE  SameMessage'
  <2>1. \A x \in wire' \cup delivered' :
          x \in wire \cup delivered \/ (x.id = f.id /\ x.claim = f.claim)
    BY <1>5 DEF ServeInput, RefuseInput
  <2> QED
    BY <1>5, <2>1 DEF SameMessage, Holds, clientVars
<1> QED
  BY <1>1, <1>2, <1>3, <1>4, <1>5, QuietOrClaim DEF ClaimStep

(* A record becomes accepted, or another turn is recorded in it, only when *)
(* an operation records the receipt it has found.                          *)
LEMMA OnlyReceipts ==
  ASSUME TypeInv, [Next]_vars, NEW i \in Ids,
         send'[i].state = "accepted", send'[i] # send[i]
  PROVE  \E c \in Clients :
           /\ pc[c] \in {"mark", "adopt"} /\ op[c].id = i /\ send'[i].turn = op[c].turn
<1>0. send \in [Ids -> Attempt]
  BY SMTT(30) DEF TypeInv, TypeOK, LedgerTypeOK
<1>1. ASSUME send' = send PROVE FALSE
  BY <1>1
<1>2. ASSUME NEW j, NEW t, NEW a, NEW s, RecordSend(j, t, a, s) PROVE FALSE
  BY <1>0, <1>2 DEF RecordSend, PreparedAttempt
<1>3. ASSUME NEW j, NEW t, NEW a, NEW s, ClaimSend(j, t, a, s) PROVE FALSE
  BY <1>0, <1>3, SMTT(30) DEF ClaimSend, Attempt
<1>4. ASSUME NEW j, NEW k, RestoreSend(j, k) PROVE FALSE
  BY <1>0, <1>4 DEF RestoreSend, Attempt
<1>5. ASSUME NEW j, RemoveSend(j) PROVE FALSE
  BY <1>0, <1>5 DEF RemoveSend, Absent
<1>6. ASSUME ClearThread PROVE FALSE
  BY <1>6, SMTT(60) DEF ClearThread, Absent
<1>7. ASSUME NEW c \in Clients, Mark(c)
      PROVE  pc[c] = "mark" /\ op[c].id = i /\ send'[i].turn = op[c].turn
  <2>1. AcceptSend(op[c].id, op[c].steered, op[c].turn)
    BY <1>1, <1>7, ZenonT(60) DEF Mark, ledgerVars
  <2> QED
    BY <1>0, <1>7, <2>1, ZenonT(60) DEF Mark, AcceptSend, Attempt
<1>8. ASSUME NEW c \in Clients, Adopt(c)
      PROVE  pc[c] = "adopt" /\ op[c].id = i /\ send'[i].turn = op[c].turn
  <2>1. AdoptReceipt(op[c].id, op[c].text, op[c].action, op[c].steered, op[c].turn)
    BY <1>1, <1>8, Zenon DEF Adopt, ledgerVars
  <2> QED
    BY <1>0, <1>8, <2>1, Zenon DEF Adopt, AdoptReceipt, AcceptedAttempt
<1>9. ASSUME NEW c \in Clients, Run(c), ~Mark(c), ~Adopt(c) PROVE FALSE
  BY <1>1, <1>2, <1>3, <1>4, <1>5, <1>9, ZenonT(60) DEF Run, CheckQueue, Reconcile, Recheck,
     ReconcileSubmitting, Resume, RecordAttempt, Admit, Write, ReadReply, Restore, Lookup,
     UnwrittenOutcome, AcknowledgeWalk, AcknowledgeRemove, FindReceipt, ledgerVars
<1>10. ASSUME NEW c \in Clients, Call(c) \/ Crash(c) PROVE FALSE
  <2>1. \/ UNCHANGED ledgerVars
        \/ \E j, t, a, s : RecordSend(j, t, a, s)
        \/ \E j : RemoveSend(j)
    BY <1>10, SMTT(30) DEF Call, BeginAcknowledge, BeginSend, BeginReconcile, Begin,
       BeginAttempted, Discard, Prepare, Crash
  <2> QED
    BY <1>1, <1>2, <1>5, <2>1 DEF ledgerVars
<1>11. ASSUME ClearRetired \/ Native \/ UNCHANGED vars PROVE FALSE
  BY <1>1, <1>6, <1>11, Zenon DEF ClearRetired, Native, vars, ledgerVars
<1> QED
  BY <1>7, <1>8, <1>9, <1>10, <1>11, Zenon DEF Next

(* The ledger records only turns of messages the server accepted.          *)
LEMMA LedgerKnowsStep ==
  ASSUME TypeInv, LedgerKnows, \A c \in Clients : Knows(c), [Next]_vars
  PROVE  LedgerKnows'
<1> SUFFICES ASSUME NEW i \in Ids, send'[i].state = "accepted"
             PROVE  \E m \in delivered' : m.id = i /\ m.turn = send'[i].turn
  BY DEF LedgerKnows, Accepted
<1>1. Accepted(i, send'[i].turn)
  <2>1. CASE send'[i] = send[i]
    BY <2>1 DEF LedgerKnows
  <2>2. CASE send'[i] # send[i]
    BY <2>2, OnlyReceipts DEF Knows
  <2> QED
    BY <2>1, <2>2
<1> QED
  BY <1>1, DeliveredStays DEF Accepted

(* A client that goes on with a known turn still knows it.                 *)
LEMMA GotoKnows ==
  ASSUME TypeInv, \A d \in Clients : Knows(d), delivered \subseteq delivered',
         NEW c \in Clients, NEW label, NEW o, Goto(c, label, o),
         label \in {"mark", "adopt"} => Accepted(o.id, o.turn),
         o.seen.state = "accepted" => Accepted(o.id, o.seen.turn)
  PROVE  \A d \in Clients : Knows(d)'
<1>1. /\ pc'[c] = label /\ op'[c] = o /\ outcome' = outcome
      /\ \A d \in Clients \ {c} : pc'[d] = pc[d] /\ op'[d] = op[d]
  BY DEF Goto, TypeInv, TypeOK
<1>2. \A i, turn : Accepted(i, turn) => Accepted(i, turn)'
  BY AcceptedStays, SMTT(60)
<1> QED
  BY <1>1, <1>2 DEF Knows

(* A client returns a receipt only when it knows it.                       *)
LEMMA ReturnKnows ==
  ASSUME TypeInv, \A d \in Clients : Knows(d), delivered \subseteq delivered',
         NEW c \in Clients, NEW kind, NEW turn, Return(c, kind, turn),
         kind = "receipt" => Accepted(op[c].id, turn)
  PROVE  \A d \in Clients : Knows(d)'
<1>1. /\ pc'[c] = "idle" /\ op'[c].seen.state = "absent"
      /\ outcome'[c].kind = kind /\ outcome'[c].id = op[c].id /\ outcome'[c].turn = turn
      /\ \A d \in Clients \ {c} : pc'[d] = pc[d] /\ op'[d] = op[d] /\ outcome'[d] = outcome[d]
  BY Zenon DEF Return, TypeInv, TypeOK, NoOperation, Asked, Absent
<1>2. \A i, t : Accepted(i, t) => Accepted(i, t)'
  BY AcceptedStays
<1> QED
  BY <1>1, <1>2, SMTT(60) DEF Knows

(* Going on to record a receipt needs a known turn; reading the ledger     *)
(* again forgets what was read.                                            *)
LEMMA SwitchKnows ==
  ASSUME TypeInv, \A d \in Clients : Knows(d), delivered \subseteq delivered',
         NEW c \in Clients,
         \/ \E turn \in 0..MaxTurns, s \in BOOLEAN :
              ToMark(c, turn, s) /\ Accepted(op[c].id, turn)
         \/ \E b \in BOOLEAN : Unwritten(c, b)
  PROVE  \A d \in Clients : Knows(d)'
<1> DEFINE p == Arguments(op[c])
<1>1. p \in Operation /\ p.id = op[c].id /\ p.seen.state = "absent"
  BY OperationTypes, SMTT(60) DEF TypeInv, TypeOK, Arguments, Asked, Absent
<1> HIDE DEF p
<1>2. ASSUME NEW turn \in 0..MaxTurns, NEW s \in BOOLEAN, ToMark(c, turn, s),
             Accepted(op[c].id, turn)
      PROVE  \A d \in Clients : Knows(d)'
  <2> DEFINE o == [p EXCEPT !.turn = turn, !.steered = s]
  <2>1. Goto(c, "mark", o)
    BY <1>2, Zenon DEF ToMark, p
  <2>2. o.id = op[c].id /\ o.turn = turn /\ o.seen.state = "absent"
    BY <1>1, Zenon DEF Operation
  <2> HIDE DEF o
  <2> QED
    BY <1>2, <2>1, <2>2, GotoKnows, Zenon
<1>3. ASSUME NEW b \in BOOLEAN, Unwritten(c, b)
      PROVE  \A d \in Clients : Knows(d)'
  <2> DEFINE o == [p EXCEPT !.allowAbsent = b]
  <2>1. Goto(c, "unwritten", o)
    BY <1>3 DEF Unwritten, p
  <2>2. o.seen.state = "absent"
    BY <1>1, Zenon DEF Operation
  <2> HIDE DEF o
  <2> QED
    BY <2>1, <2>2, GotoKnows
<1> QED
  BY <1>2, <1>3, SMTT(60)

(* A call begins with the record it has read.                              *)
LEMMA CallKnows ==
  ASSUME TypeInv, LedgerKnows, \A d \in Clients : Knows(d), NEW c \in Clients, Call(c)
  PROVE  \A d \in Clients : Knows(d)'
<1>0. delivered' = delivered
  <2>1. serverVars' = serverVars
    BY ZenonT(60) DEF Call, BeginAcknowledge, BeginSend, BeginReconcile, Begin, BeginAttempted,
       Discard, Prepare
  <2> QED
    BY <2>1 DEF serverVars
<1>1. ASSUME UNCHANGED clientVars PROVE \A d \in Clients : Knows(d)'
  BY <1>0, <1>1, ZenonT(60) DEF Knows, Accepted, clientVars
<1>2. ASSUME NEW label, NEW o, label \notin {"mark", "adopt"},
             o.seen.state = "accepted" => Accepted(o.id, o.seen.turn),
             pc' = [pc EXCEPT ![c] = label], op' = [op EXCEPT ![c] = o],
             outcome' = [outcome EXCEPT ![c] = NoOutcome]
      PROVE  \A d \in Clients : Knows(d)'
  <2>1. /\ pc'[c] = label /\ op'[c] = o /\ outcome'[c].kind = "none"
        /\ \A d \in Clients \ {c} : pc'[d] = pc[d] /\ op'[d] = op[d] /\ outcome'[d] = outcome[d]
    BY <1>2, Zenon DEF TypeInv, TypeOK, NoOutcome
  <2> QED
    BY <1>0, <1>2, <2>1 DEF Knows, Accepted
<1>3. ASSUME NEW kind \in {"send", "reconcile", "attempted", "acknowledge"},
             NEW i \in Ids, NEW t \in Texts, NEW a \in Actions \cup {None}
      PROVE  /\ Asked(kind, i, t, a).id = i /\ Asked(kind, i, t, a).seen.state = "absent"
             /\ [Asked(kind, i, t, a) EXCEPT !.seen = send[i]].id = i
             /\ [Asked(kind, i, t, a) EXCEPT !.seen = send[i]].seen = send[i]
  BY DEF Asked, Absent
<1>4. ASSUME NEW i \in Ids, NEW t \in Texts, BeginAcknowledge(c, i, t)
      PROVE  \A d \in Clients : Knows(d)'
  <2> DEFINE o == [Asked("acknowledge", i, t, None) EXCEPT !.seen = send[i]]
  <2>1. o.id = i /\ o.seen = send[i]
    BY <1>3
  <2>2. /\ pc' = [pc EXCEPT ![c] = "ackWalk"] /\ op' = [op EXCEPT ![c] = o]
        /\ outcome' = [outcome EXCEPT ![c] = NoOutcome]
    BY <1>4 DEF BeginAcknowledge
  <2> HIDE DEF o
  <2> QED
    BY <1>2, <2>1, <2>2, Zenon DEF LedgerKnows
<1>5. ASSUME NEW i \in Ids, NEW t \in Texts, NEW a \in Actions,
             NEW kind \in {"send", "reconcile"}, Begin(c, kind, i, t, a)
      PROVE  \A d \in Clients : Knows(d)'
  <2> DEFINE o == [Asked(kind, i, t, a) EXCEPT !.seen = send[i]]
  <2>1. o.id = i /\ o.seen = send[i]
    BY <1>3
  <2>2. CASE /\ pc' = [pc EXCEPT ![c] = "checkQueue"] /\ op' = [op EXCEPT ![c] = o]
             /\ outcome' = [outcome EXCEPT ![c] = NoOutcome]
    <3> HIDE DEF o
    <3> QED
      BY <1>2, <2>1, <2>2, Zenon DEF LedgerKnows
  <2>3. CASE /\ outcome' = [outcome EXCEPT ![c] = [kind |-> "failed", id |-> i, turn |-> 0]]
             /\ UNCHANGED <<pc, op>>
    <3>1. /\ outcome'[c].kind = "failed"
          /\ \A d \in Clients \ {c} : outcome'[d] = outcome[d]
      BY <2>3 DEF TypeInv, TypeOK
    <3> QED
      BY <1>0, <2>3, <3>1 DEF Knows, Accepted
  <2> QED
    BY <1>5, <2>2, <2>3, Zenon DEF Begin
<1>6. ASSUME NEW i \in Ids, NEW t \in Texts, NEW a \in Actions, BeginAttempted(c, i, t, a)
      PROVE  \A d \in Clients : Knows(d)'
  <2> DEFINE o == Asked("attempted", i, t, a)
  <2>1. o.seen.state = "absent"
    BY <1>3
  <2>2. /\ pc' = [pc EXCEPT ![c] = "findReceipt"] /\ op' = [op EXCEPT ![c] = o]
        /\ outcome' = [outcome EXCEPT ![c] = NoOutcome]
    BY <1>6 DEF BeginAttempted
  <2> HIDE DEF o
  <2> QED
    BY <1>2, <2>1, <2>2, Zenon
<1> QED
  BY <1>1, <1>4, <1>5, <1>6, ZenonT(60) DEF Call, BeginSend, BeginReconcile, Discard, Prepare

(* An operation learns a turn from history, from the reply to its own      *)
(* request, or from the ledger.                                            *)
LEMMA RunKnows ==
  ASSUME TypeInv, Answers, SameMessage, LedgerKnows, \A d \in Clients : Knows(d),
         delivered \subseteq delivered', NEW c \in Clients, Run(c)
  PROVE  \A d \in Clients : Knows(d)'
<1>0. pc[c] \notin Unnamed
  BY ZenonT(60) DEF Unnamed, Run, CheckQueue, Reconcile, Recheck, ReconcileSubmitting, Resume,
     RecordAttempt, Admit, Write, ReadReply, Restore, Lookup, Mark,
     UnwrittenOutcome, AcknowledgeWalk, AcknowledgeRemove, FindReceipt, Adopt
<1>1. /\ op[c] \in Operation /\ op[c].id \in Ids
      /\ op[c].seen.steered \in BOOLEAN /\ op[c].steered \in BOOLEAN
      /\ active \in 0..MaxTurns /\ send[op[c].id] \in Attempt
  BY <1>0, Zenon DEF TypeInv, TypeOK, Named, Unnamed, Operation, Attempt, ServerTypeOK, LedgerTypeOK
<1>2. /\ pc[c] \in {"mark", "adopt"} => Accepted(op[c].id, op[c].turn)
      /\ op[c].seen.state = "accepted" => Accepted(op[c].id, op[c].seen.turn)
  BY SMTT(60) DEF Knows
<1>3. /\ Arguments(op[c]) \in Operation /\ Arguments(op[c]).id = op[c].id
      /\ Arguments(op[c]).seen.state = "absent"
  BY <1>1, OperationTypes, Zenon DEF Arguments, Asked, Absent
<1>4. \A m \in Newest(op[c].id) :
        m.turn \in 0..MaxTurns /\ m.joined \in BOOLEAN /\ Accepted(op[c].id, m.turn)
  BY LedgerAssumption DEF TypeInv, TypeOK, ServerTypeOK, UserMessage, Newest, Answers, Accepted
<1>5. ASSUME NEW label, label \notin {"mark", "adopt"}, Goto(c, label, op[c])
      PROVE  \A d \in Clients : Knows(d)'
  BY <1>2, <1>5, GotoKnows, Zenon
<1>6. ASSUME NEW kind, NEW turn, kind # "receipt", Return(c, kind, turn)
      PROVE  \A d \in Clients : Knows(d)'
  BY <1>6, ReturnKnows
<1>7. ASSUME NEW b \in BOOLEAN, Unwritten(c, b)
      PROVE  \A d \in Clients : Knows(d)'
  BY <1>7, SwitchKnows
<1>8. ASSUME NEW m \in Newest(op[c].id), NEW s \in BOOLEAN, ToMark(c, m.turn, s)
      PROVE  \A d \in Clients : Knows(d)'
  BY <1>4, <1>8, SwitchKnows, SMTT(60)
<1>9. CASE CheckQueue(c)
  BY <1>9, <1>2, <1>5, <1>6, ReturnKnows, Zenon DEF CheckQueue
<1>10. ASSUME NEW label, NEW onError \in {"failed", "unknown"},
              ReconcileSubmitting(c, label, onError)
       PROVE  \A d \in Clients : Knows(d)'
  BY <1>10, <1>1, <1>6, <1>8, Zenon DEF ReconcileSubmitting
<1>11. CASE Resume(c)
  <2> DEFINE p == Arguments(op[c])
             o == [p EXCEPT !.turn = active, !.steered = (active # 0)]
  <2>1. \/ \E b \in BOOLEAN : Unwritten(c, b)
        \/ \E label \in {"admit", "record"} : Goto(c, label, o)
    BY <1>11, ZenonT(30) DEF Resume
  <2>2. o.seen.state = "absent"
    <3>1. p \in Operation /\ p.seen.state = "absent" /\ (active # 0) \in BOOLEAN
      BY <1>3, SMTT(60)
    <3> HIDE DEF p
    <3> QED
      BY <3>1, Zenon DEF Operation
  <2> HIDE DEF o
  <2> QED
    BY <1>7, <2>1, <2>2, GotoKnows, Zenon
<1>12. CASE RecordAttempt(c)
  BY <1>12, <1>5, <1>6 DEF RecordAttempt
<1>13. CASE Admit(c)
  <2>1. ASSUME Goto(c, "admitted", [op[c] EXCEPT !.claim = claims'])
        PROVE  \A d \in Clients : Knows(d)'
    <3> DEFINE o == [op[c] EXCEPT !.claim = claims']
    <3>1. o.id = op[c].id /\ o.seen = op[c].seen
      BY <1>1 DEF Operation
    <3> HIDE DEF o
    <3>2. Goto(c, "admitted", o)
      BY <2>1, SMTT(60) DEF o
    <3> QED
      BY <1>2, <3>1, <3>2, GotoKnows
  <2> QED
    BY <1>13, <2>1, <1>7, ZenonT(60) DEF Admit
<1>14. CASE Write(c)
  BY <1>14, <1>5, Zenon DEF Write
<1>15. CASE ReadReply(c)
  <2>1. ASSUME NEW r \in replies, r.claim = op[c].claim, ~r.refused,
               ToMark(c, r.turn, op[c].steered)
        PROVE  \A d \in Clients : Knows(d)'
    <3>1. PICK m \in delivered : m.claim = r.claim /\ m.turn = r.turn
      BY <2>1, SMTT(60) DEF Answers
    <3>2. m.id = op[c].id
      BY <1>15, <2>1, <3>1, Zenon DEF ReadReply, SameMessage, Holds
    <3>3. Accepted(op[c].id, r.turn) /\ r.turn \in 0..MaxTurns
      BY <3>1, <3>2, SMTT(60) DEF Accepted, TypeInv, TypeOK, ServerTypeOK, Reply
    <3> QED
      BY <1>1, <2>1, <3>3, SwitchKnows, Zenon
  <2> QED
    BY <1>15, <2>1, <1>5, Zenon DEF ReadReply
<1>16. CASE Restore(c)
  BY <1>16, <1>7, Zenon DEF Restore
<1>17. CASE Lookup(c)
  BY <1>17, <1>1, <1>6, <1>8, Zenon DEF Lookup
<1>18. CASE Mark(c)
  BY <1>18, <1>2, <1>6, ReturnKnows, Zenon DEF Mark
<1>19. CASE UnwrittenOutcome(c)
  <2>1. ASSUME send[op[c].id].state = "accepted", Return(c, "receipt", send[op[c].id].turn)
        PROVE  \A d \in Clients : Knows(d)'
    BY <1>1, <2>1, ReturnKnows, Zenon DEF LedgerKnows
  <2>2. ASSUME send[op[c].id].state = "submitting",
               Goto(c, "recheck", [Arguments(op[c]) EXCEPT !.seen = send[op[c].id]])
        PROVE  \A d \in Clients : Knows(d)'
    <3> DEFINE p == Arguments(op[c])
               o == [p EXCEPT !.seen = send[op[c].id]]
    <3>1. o.seen = send[op[c].id]
      <4>1. p \in Operation
        BY <1>3
      <4> HIDE DEF p
      <4> QED
        BY <4>1, Zenon DEF Operation
    <3>2. Goto(c, "recheck", o)
      BY <2>2
    <3> HIDE DEF o
    <3> QED
      BY <2>2, <3>1, <3>2, GotoKnows
  <2> QED
    BY <1>19, <2>1, <2>2, <1>6, Zenon DEF UnwrittenOutcome
<1>20. CASE AcknowledgeWalk(c)
  <2>1. ASSUME NEW m \in Newest(op[c].id),
               Goto(c, "ackRemove", [Arguments(op[c]) EXCEPT !.turn = m.turn])
        PROVE  \A d \in Clients : Knows(d)'
    <3> DEFINE p == Arguments(op[c])
               o == [p EXCEPT !.turn = m.turn]
    <3>1. o.seen.state = "absent"
      <4>1. p \in Operation /\ p.seen.state = "absent"
        BY <1>3
      <4> HIDE DEF p
      <4> QED
        BY <4>1, ZenonT(60) DEF Operation
    <3>2. Goto(c, "ackRemove", o)
      BY <2>1, SMTT(60)
    <3> HIDE DEF o
    <3> QED
      BY <3>1, <3>2, GotoKnows, Zenon
  <2> QED
    BY <1>20, <2>1, <1>6, ZenonT(60) DEF AcknowledgeWalk
<1>21. CASE AcknowledgeRemove(c)
  BY <1>21, <1>6, Zenon DEF AcknowledgeRemove
<1>22. CASE FindReceipt(c)
  <2>1. ASSUME NEW m \in Newest(op[c].id),
               Goto(c, "adopt", [op[c] EXCEPT !.turn = m.turn, !.steered = m.joined])
        PROVE  \A d \in Clients : Knows(d)'
    <3> DEFINE o == [op[c] EXCEPT !.turn = m.turn, !.steered = m.joined]
    <3>1. o.id = op[c].id /\ o.turn = m.turn /\ o.seen = op[c].seen
      BY <1>1, Zenon DEF Operation
    <3> HIDE DEF o
    <3>2. Goto(c, "adopt", o)
      BY <2>1, SMTT(60) DEF o
    <3> QED
      BY <1>2, <1>4, <3>1, <3>2, GotoKnows, Zenon
  <2> QED
    BY <1>22, <2>1, <1>6, ZenonT(60) DEF FindReceipt
<1>23. CASE Adopt(c)
  BY <1>23, <1>6, Zenon DEF Adopt
<1> QED
  BY <1>9, <1>10, <1>11, <1>12, <1>13, <1>14, <1>15, <1>16, <1>17, <1>18, <1>19,
     <1>20, <1>21, <1>22, <1>23 DEF Run, Reconcile, Recheck

(* What the clients and the ledger know of receipts is kept by every step. *)
LEMMA ReceiptedStep ==
  TypeInv /\ ExclusiveClaims /\ Receipted /\ [Next]_vars => Receipted'
<1> SUFFICES ASSUME TypeInv, ExclusiveClaims, Receipted, [Next]_vars PROVE Receipted'
  OBVIOUS
<1>1. Answers /\ SameMessage /\ LedgerKnows /\ \A c \in Clients : Knows(c)
  BY DEF Receipted
<1>2. Answers' /\ SameMessage' /\ LedgerKnows'
  BY <1>1, AnswersStep, SameMessageStep, LedgerKnowsStep
<1>3. delivered \subseteq delivered'
  BY DeliveredStays, SMTT(60)
<1>4. ASSUME NEW c \in Clients, Crash(c) PROVE \A d \in Clients : Knows(d)'
  <2>1. /\ pc'[c] = "idle" /\ op'[c].seen.state = "absent" /\ outcome'[c].kind = "none"
        /\ \A d \in Clients \ {c} : pc'[d] = pc[d] /\ op'[d] = op[d] /\ outcome'[d] = outcome[d]
    BY <1>4, Zenon DEF Crash, TypeInv, TypeOK, NoOperation, Asked, Absent, NoOutcome
  <2>2. \A i, t : Accepted(i, t) => Accepted(i, t)'
    BY <1>3, AcceptedStays, SMTT(60)
  <2> QED
    BY <1>1, <2>1, <2>2, ZenonT(60) DEF Knows
<1>5. ASSUME ClearRetired \/ Native \/ UNCHANGED vars PROVE \A d \in Clients : Knows(d)'
  <2>1. UNCHANGED <<pc, op, outcome>>
    BY <1>5, SMTT(30) DEF ClearRetired, Native, vars, clientVars
  <2>2. \A i, t : Accepted(i, t) => Accepted(i, t)'
    BY <1>3, AcceptedStays
  <2> QED
    BY <1>1, <2>1, <2>2, Zenon DEF Knows
<1>6. \A d \in Clients : Knows(d)'
  BY <1>1, <1>3, <1>4, <1>5, CallKnows, RunKnows, SMTT(60) DEF Next
<1> QED
  BY <1>2, <1>6 DEF Receipted

(* Nothing is known of receipts initially.                                 *)
LEMMA InitiallyReceipted == Init => Receipted
<1> SUFFICES ASSUME Init PROVE Receipted
  OBVIOUS
<1>1. /\ visible = {} /\ delivered = {} /\ replies = {} /\ wire = {}
      /\ \A i \in Ids : send[i].state = "absent"
      /\ \A c \in Clients : pc[c] = "idle" /\ op[c].seen.state = "absent" /\ outcome[c].kind = "none"
  BY Zenon DEF Init, LedgerInit, ServerInit, Absent, NoOperation, Asked, NoOutcome
<1> QED
  BY <1>1, Zenon DEF Receipted, Answers, SameMessage, LedgerKnows, Knows

(* With either backend a receipt is true: the turn that the ledger records *)
(* as accepted, or that Send and ReconcileSend return, holds a message of  *)
(* that identity which the native server accepted (markSendAccepted,       *)
(* recordSendAttemptWithReceipt).                                          *)
THEOREM ReceiptsAreTrue == Spec => []ReceiptIsDelivered
<1>1. Init => TypeInv /\ ExclusiveClaims /\ Receipted
  BY Initially, InitiallyReceipted
<1>2. TypeInv /\ ExclusiveClaims /\ Receipted /\ [Next]_vars
        => (TypeInv /\ ExclusiveClaims /\ Receipted)'
  BY TypeStep, ExclusiveStep, ReceiptedStep, SMTT(60)
<1>3. Receipted => ReceiptIsDelivered
  BY Zenon DEF Receipted, LedgerKnows, Knows, Accepted, ReceiptIsDelivered
<1> QED
  BY <1>1, <1>2, <1>3, PTL DEF Spec

(***************************************************************************)
(* What an acknowledgement removes.                                        *)
(***************************************************************************)

(* A client that walked history has seen an accepted message of its        *)
(* identity, text and turn.                                                *)
Walked ==
  \A c \in Clients : pc[c] = "ackRemove" =>
    \E m \in delivered : m.id = op[c].id /\ m.text = op[c].text /\ m.turn = op[c].turn

(* Only the walk leads to the removal.                                     *)
LEMMA OnlyWalk ==
  ASSUME TypeInv, [Next]_vars, NEW c \in Clients, pc'[c] = "ackRemove"
  PROVE  AcknowledgeWalk(c) \/ (pc[c] = "ackRemove" /\ op'[c] = op[c])
<1> DEFINE Done == AcknowledgeWalk(c) \/ (pc[c] = "ackRemove" /\ op'[c] = op[c])
<1>0. pc \in [Clients -> Label] /\ op \in [Clients -> Operation]
  BY Zenon DEF TypeInv, TypeOK
<1>1. ASSUME NEW d \in Clients, NEW label, NEW o, label # "ackRemove", Goto(d, label, o)
      PROVE  Done
  BY <1>0, <1>1, Zenon DEF Goto
<1>2. ASSUME NEW d \in Clients, NEW kind, NEW turn, Return(d, kind, turn) PROVE Done
  BY <1>0, <1>2, Zenon DEF Return
<1>3. ASSUME UNCHANGED <<pc, op>> PROVE Done
  BY <1>3, Zenon
<1>4. ASSUME NEW d \in Clients, Call(d) PROVE Done
  <2> HIDE DEF Done
  <2>1. ASSUME NEW label, NEW o, label # "ackRemove",
               pc' = [pc EXCEPT ![d] = label], op' = [op EXCEPT ![d] = o]
        PROVE  Done
    BY <1>0, <2>1, Zenon DEF Done
  <2>2. ASSUME NEW kind, NEW i, NEW t, NEW a,
               \/ Begin(d, kind, i, t, a) \/ BeginAcknowledge(d, i, t)
               \/ BeginAttempted(d, i, t, a) \/ Discard(d, i, t, a)
               \/ \E steered : Prepare(d, i, t, a, steered)
        PROVE  Done
    BY <1>3, <2>1, <2>2, Zenon DEF Begin, BeginAcknowledge, BeginAttempted, Discard, Prepare,
       clientVars
  <2> QED
    BY <1>4, <2>2, Zenon DEF Call, BeginSend, BeginReconcile
<1>5. ASSUME NEW d \in Clients, Crash(d) PROVE Done
  BY <1>0, <1>5, Zenon DEF Crash
<1>6. ASSUME NEW d \in Clients, Run(d), ~AcknowledgeWalk(d) PROVE Done
  <2> HIDE DEF Done
  <2> QED
    BY <1>6, <1>1, <1>2, ZenonT(60) DEF Run, CheckQueue, Reconcile, Recheck, ReconcileSubmitting,
       Resume, RecordAttempt, Admit, Write, ReadReply, Restore, Lookup, Mark,
       UnwrittenOutcome, AcknowledgeRemove, FindReceipt, Adopt, ToMark, Unwritten
<1>7. ASSUME NEW d \in Clients, AcknowledgeWalk(d) PROVE Done
  <2>1. d # c => pc'[c] = pc[c] /\ op'[c] = op[c]
    BY <1>0, <1>7, Zenon DEF AcknowledgeWalk, Return, Goto
  <2> QED
    BY <1>7, <2>1, Zenon
<1>8. ASSUME ClearRetired \/ Native \/ UNCHANGED vars PROVE Done
  BY <1>3, <1>8, Zenon DEF ClearRetired, Native, vars, clientVars
<1> HIDE DEF Done
<1>9. Done
  BY <1>4, <1>5, <1>6, <1>7, <1>8, Zenon DEF Next
<1> QED
  BY <1>9, Zenon DEF Done

(* The walk has seen what it goes on with.                                 *)
LEMMA WalkedStep ==
  ASSUME TypeInv, Answers, Walked, [Next]_vars
  PROVE  Walked'
<1> SUFFICES ASSUME NEW c \in Clients, pc'[c] = "ackRemove"
             PROVE  \E m \in delivered' :
                      m.id = op'[c].id /\ m.text = op'[c].text /\ m.turn = op'[c].turn
  BY Zenon DEF Walked
<1>1. delivered \subseteq delivered'
  BY DeliveredStays, Zenon
<1>2. CASE pc[c] = "ackRemove" /\ op'[c] = op[c]
  BY <1>1, <1>2, Zenon DEF Walked
<1>3. CASE AcknowledgeWalk(c)
  <2>0. pc \in [Clients -> Label] /\ op \in [Clients -> Operation]
    BY Zenon DEF TypeInv, TypeOK
  <2>1. PICK m \in Newest(op[c].id) :
          m.text = op[c].text /\ Goto(c, "ackRemove", [Arguments(op[c]) EXCEPT !.turn = m.turn])
    <3>1. ASSUME NEW kind, NEW turn, Return(c, kind, turn) PROVE FALSE
      BY <2>0, <3>1, Zenon DEF Return
    <3> QED
      BY <1>3, <3>1, Zenon DEF AcknowledgeWalk
  <2>2. m \in delivered /\ m.id = op[c].id
    BY <2>1, Zenon DEF Newest, Answers
  <2>3. op'[c].id = op[c].id /\ op'[c].text = op[c].text /\ op'[c].turn = m.turn
    BY <2>0, <2>1, ZenonT(60) DEF Goto, Arguments, Asked
  <2> QED
    BY <1>1, <2>1, <2>2, <2>3, Zenon
<1> QED
  BY <1>2, <1>3, OnlyWalk, Zenon

(* A record that was submitted is removed by an acknowledgement that finds *)
(* in it what history showed, or with its thread.                          *)
LEMMA OnlyAcknowledge ==
  ASSUME TypeInv, [Next]_vars, NEW i \in Ids,
         send[i].state \in {"submitting", "accepted"}, send'[i].state = "absent"
  PROVE  \/ ClearRetired
         \/ \E c \in Clients :
              /\ pc[c] = "ackRemove" /\ op[c].id = i /\ send[i].text = op[c].text
              /\ send[i].state = "accepted" => send[i].turn = op[c].turn
<1>0. send \in [Ids -> Attempt]
  BY Zenon DEF TypeInv, TypeOK, LedgerTypeOK
<1>1. ASSUME UNCHANGED ledgerVars PROVE FALSE
  BY <1>1, Zenon DEF ledgerVars
<1>2. ASSUME NEW j, NEW t, NEW a, NEW s, RecordSend(j, t, a, s) PROVE FALSE
  BY <1>0, <1>2, ZenonT(60) DEF RecordSend, Found, PreparedAttempt
<1>3. ASSUME NEW j, NEW t, NEW a, NEW s, NEW turn, AdoptReceipt(j, t, a, s, turn) PROVE FALSE
  BY <1>0, <1>3, ZenonT(60) DEF AdoptReceipt, AcceptedAttempt
<1>4. ASSUME NEW j, NEW s, NEW turn, AcceptSend(j, s, turn) PROVE FALSE
  BY <1>0, <1>4, SMTT(60) DEF AcceptSend, Attempt
<1>5. ASSUME NEW j, NEW t, NEW a, NEW s, ClaimSend(j, t, a, s) PROVE FALSE
  BY <1>0, <1>5, Zenon DEF ClaimSend, Attempt
<1>6. ASSUME NEW j, NEW claim, RestoreSend(j, claim) PROVE FALSE
  BY <1>0, <1>6, Zenon DEF RestoreSend, Attempt
<1>7. ASSUME NEW j, RemoveSend(j) PROVE j = i
  BY <1>0, <1>7, Zenon DEF RemoveSend
<1>8. ASSUME NEW c \in Clients, Call(c) PROVE FALSE
  <2>1. ASSUME NEW j, CanDiscard(j), RemoveSend(j) PROVE FALSE
    BY <1>7, <2>1, Zenon DEF CanDiscard
  <2>2. ASSUME NEW kind, NEW j, NEW t, NEW a,
               \/ Begin(c, kind, j, t, a) \/ BeginAcknowledge(c, j, t)
               \/ BeginAttempted(c, j, t, a) \/ Discard(c, j, t, a)
               \/ \E steered : Prepare(c, j, t, a, steered)
        PROVE  FALSE
    BY <1>1, <1>2, <2>1, <2>2, Zenon DEF Begin, BeginAcknowledge, BeginAttempted, Discard, Prepare
  <2> QED
    BY <1>8, <2>2, Zenon DEF Call, BeginSend, BeginReconcile
<1>9. ASSUME NEW c \in Clients, Run(c), ~AcknowledgeRemove(c) PROVE FALSE
  BY <1>1, <1>2, <1>3, <1>4, <1>5, <1>6, <1>9, ZenonT(60) DEF Run, CheckQueue, Reconcile, Recheck,
     ReconcileSubmitting, Resume, RecordAttempt, Admit, Write, ReadReply, Restore, Lookup, Mark,
     UnwrittenOutcome, AcknowledgeWalk, FindReceipt, Adopt
<1>10. ASSUME NEW c \in Clients, AcknowledgeRemove(c)
       PROVE  /\ pc[c] = "ackRemove" /\ op[c].id = i /\ send[i].text = op[c].text
              /\ send[i].state = "accepted" => send[i].turn = op[c].turn
  BY <1>1, <1>7, <1>10, Zenon DEF AcknowledgeRemove
<1>11. ASSUME (\E c \in Clients : Crash(c)) \/ Native \/ UNCHANGED vars PROVE FALSE
  BY <1>1, <1>11, Zenon DEF Crash, Native, vars
<1> QED
  BY <1>8, <1>9, <1>10, <1>11, Zenon DEF Next

(* A record that was submitted is removed only for a message the server    *)
(* accepted, in the text and the turn of the record, or with its thread,   *)
(* with either ledger backend (AcknowledgeSends,                           *)
(* DiscardPreparedSendWithOptions).                                        *)
THEOREM RemovalsAreProven == Spec => RemovedIsDelivered
<1> DEFINE Proven ==
      \A i \in Ids :
        send[i].state \in {"submitting", "accepted"} /\ send'[i].state = "absent"
          => \/ \E m \in delivered :
                  /\ m.id = i /\ m.text = send[i].text
                  /\ send[i].state = "accepted" => m.turn = send[i].turn
             \/ ClearRetired
<1>1. Init => TypeInv /\ Answers /\ Walked
  BY Initially, Zenon DEF Init, ServerInit, Answers, Walked
<1>2. TypeInv /\ Answers /\ Walked /\ [Next]_vars => (TypeInv /\ Answers /\ Walked)'
  BY TypeStep, AnswersStep, WalkedStep, Zenon
<1>3. TypeInv /\ Answers /\ Walked /\ [Next]_vars => [Proven]_vars
  <2> SUFFICES ASSUME TypeInv, Answers, Walked, [Next]_vars PROVE Proven
    BY Zenon
  <2> SUFFICES ASSUME NEW i \in Ids, send[i].state \in {"submitting", "accepted"},
                      send'[i].state = "absent", ~ClearRetired
               PROVE  \E m \in delivered :
                        /\ m.id = i /\ m.text = send[i].text
                        /\ send[i].state = "accepted" => m.turn = send[i].turn
    BY Zenon
  <2>1. PICK c \in Clients :
          /\ pc[c] = "ackRemove" /\ op[c].id = i /\ send[i].text = op[c].text
          /\ send[i].state = "accepted" => send[i].turn = op[c].turn
    BY OnlyAcknowledge, Zenon
  <2> QED
    BY <2>1, Zenon DEF Walked
<1> QED
  BY <1>1, <1>2, <1>3, PTL DEF Spec, RemovedIsDelivered

(***************************************************************************)
(* The permit protocol.                                                    *)
(***************************************************************************)

(* The native server has accepted the identity at some time.               *)
Ever(i) == \E m \in delivered : m.id = i

(* The abstract variables are functions of the identities; what happens to *)
(* them is said identity by identity.                                      *)
SamePermit(i) == PermitOf(i)' = PermitOf(i)
SameEver(i) == Ever(i)' <=> Ever(i)
SameStray(i) == Stray(i)' <=> Stray(i)

(* What the identities keep, the abstract variables keep.                  *)
LEMMA Carried ==
  /\ (\A i \in Ids : SamePermit(i))
       => [i \in Ids |-> PermitOf(i)]' = [i \in Ids |-> PermitOf(i)]
  /\ (\A i \in Ids : SameEver(i))
       => [i \in Ids |-> \E m \in delivered : m.id = i]'
            = [i \in Ids |-> \E m \in delivered : m.id = i]
  /\ (\A i \in Ids : SameStray(i))
       => [i \in Ids |-> Stray(i)]' = [i \in Ids |-> Stray(i)]
<1>1. (\A i \in Ids : SamePermit(i))
       => [i \in Ids |-> PermitOf(i)]' = [i \in Ids |-> PermitOf(i)]
  BY DEF SamePermit
<1>2. (\A i \in Ids : SameEver(i))
       => [i \in Ids |-> \E m \in delivered : m.id = i]'
            = [i \in Ids |-> \E m \in delivered : m.id = i]
  BY DEF SameEver, Ever
<1>3. (\A i \in Ids : SameStray(i))
       => [i \in Ids |-> Stray(i)]' = [i \in Ids |-> Stray(i)]
  BY SMTT(60) DEF SameStray, Stray
<1> QED
  BY <1>1, <1>2, <1>3, Zenon

(* A step that changes no permit is a stutter of the protocol.             *)
LEMMA Stutters ==
  ASSUME \A i \in Ids : SamePermit(i) /\ SameEver(i) /\ SameStray(i),
         UNCHANGED <<claims, retired>>
  PROVE  UNCHANGED Permits!vars
BY Carried, Zenon DEF Permits!vars

(* The steps that change the permit of one identity.                       *)
LEMMA Moves ==
  ASSUME NEW i \in Ids, \A j \in Ids \ {i} : SamePermit(j),
         \A j \in Ids : SameEver(j) /\ SameStray(j),
         retired' = retired,
         \/ PermitOf(i) = "open" /\ PermitOf(i)' = "granted" /\ claims' = claims + 1
         \/ PermitOf(i) = "granted" /\ PermitOf(i)' = "open" /\ claims' = claims
         \/ Ever(i) /\ PermitOf(i)' = "recorded" /\ claims' = claims
  PROVE  Permits!Next
<1> DEFINE P == [j \in Ids |-> PermitOf(j)]
<1>1. P' = [P EXCEPT ![i] = PermitOf(i)']
  BY Zenon DEF SamePermit
<1>2. CASE PermitOf(i) = "open" /\ PermitOf(i)' = "granted" /\ claims' = claims + 1
  BY <1>1, <1>2, Carried, Zenon DEF Permits!Next, Permits!Grant
<1>3. CASE PermitOf(i) = "granted" /\ PermitOf(i)' = "open" /\ claims' = claims
  BY <1>1, <1>3, Carried, Zenon DEF Permits!Next, Permits!Revoke
<1>4. CASE Ever(i) /\ PermitOf(i)' = "recorded" /\ claims' = claims
  BY <1>1, <1>4, Carried, Zenon DEF Permits!Next, Permits!Record, Ever
<1> QED
  BY <1>2, <1>3, <1>4

(* A granted submission is delivered.                                      *)
LEMMA Delivers ==
  ASSUME NEW i \in Ids, \A j \in Ids \ {i} : SamePermit(j) /\ SameEver(j),
         \A j \in Ids : SameStray(j),
         PermitOf(i) = "granted", PermitOf(i)' = "delivered", Ever(i)',
         UNCHANGED <<claims, retired>>
  PROVE  Permits!Next
<1> DEFINE P == [j \in Ids |-> PermitOf(j)]
           E == [j \in Ids |-> \E m \in delivered : m.id = j]
<1>1. P' = [P EXCEPT ![i] = "delivered"]
  BY Zenon DEF SamePermit
<1>2. E' = [E EXCEPT ![i] = TRUE]
  BY Zenon DEF SameEver, Ever
<1> QED
  BY <1>1, <1>2, Carried, Zenon DEF Permits!Next, Permits!Deliver

(* A stray submission arrives or is lost.                                  *)
LEMMA Settles ==
  ASSUME NEW i \in Ids, \A j \in Ids : SamePermit(j),
         \A j \in Ids \ {i} : SameEver(j) /\ SameStray(j),
         Stray(i), Ever(i) => Ever(i)', UNCHANGED <<claims, retired>>
  PROVE  Permits!Next
<1> DEFINE E == [j \in Ids |-> \E m \in delivered : m.id = j]
           S == [j \in Ids |-> Stray(j)]
<1>1. E' \in {E, [E EXCEPT ![i] = TRUE]}
  <2>1. CASE SameEver(i)
    BY <2>1, Carried, Zenon
  <2>2. CASE ~SameEver(i)
    <3>1. E' = [E EXCEPT ![i] = TRUE]
      BY <2>2, Zenon DEF SameEver, Ever
    <3> QED
      BY <3>1, SMTT(60)
  <2> QED
    BY <2>1, <2>2, Zenon
<1>2. S' \in {S, [S EXCEPT ![i] = FALSE]}
  <2>1. CASE SameStray(i)
    BY <2>1, Carried, Zenon
  <2>2. CASE ~SameStray(i)
    <3>1. \A j \in Ids : Stray(j) \in BOOLEAN /\ Stray(j)' \in BOOLEAN
      BY Zenon DEF Stray
    <3>2. S' = [S EXCEPT ![i] = FALSE]
      BY <2>2, <3>1, Zenon DEF SameStray
    <3> QED
      BY <3>2
  <2> QED
    BY <2>1, <2>2
<1> QED
  BY <1>1, <1>2, Carried, ZenonT(60) DEF Permits!Next, Permits!Settle

(* Identities are retired together; a retired submission can be left over. *)
LEMMA Retires ==
  ASSUME NEW R \in SUBSET Ids, \A i \in R : PermitOf(i)' = "open",
         \A i \in Ids \ R : SamePermit(i) /\ SameStray(i),
         \A i \in Ids : SameEver(i) /\ (Stray(i) => Stray(i)'),
         \A i \in R : Stray(i)' => Stray(i) \/ PermitOf(i) \in {"granted", "recorded"},
         claims' = claims, retired' = [i \in Ids |-> IF i \in R THEN claims ELSE retired[i]]
  PROVE  Permits!Next
<1> DEFINE P == [i \in Ids |-> PermitOf(i)]
           S == [i \in Ids |-> Stray(i)]
<1>1. P' = [i \in Ids |-> IF i \in R THEN "open" ELSE P[i]]
  BY SMTT(60) DEF SamePermit
<1>2. S' \in [Ids -> BOOLEAN]
  BY Zenon DEF Stray
<1>3. \A i \in Ids : S'[i] # S[i] => i \in R /\ P[i] \in {"granted", "recorded"} /\ S'[i]
  BY Zenon DEF SameStray, Stray
<1> QED
  BY <1>1, <1>2, <1>3, Carried, Zenon DEF Permits!Next, Permits!Retire

(* The record of an identity stays open, or in its state.                  *)
SameState(i) ==
  \/ send'[i].state = send[i].state
  \/ {send[i].state, send'[i].state} \subseteq {"absent", "prepared"}

(* The permit of an identity depends on its record, on what was retired    *)
(* and on what was delivered.                                              *)
LEMMA SameRecordPermit ==
  ASSUME NEW i, SameState(i), retired'[i] = retired[i], delivered' = delivered
  PROVE  SamePermit(i)
<1>1. CASE send'[i].state = send[i].state
  BY <1>1, SMTT(30) DEF SamePermit, PermitOf, Live, Kept
<1>2. CASE {send[i].state, send'[i].state} \subseteq {"absent", "prepared"}
  BY <1>2, SMTT(60) DEF SamePermit, PermitOf
<1> QED
  BY <1>1, <1>2 DEF SameState

(* Strays depend on the wire, on who is about to write, and on what was    *)
(* retired.                                                                *)
LEMMA SameWireStray ==
  ASSUME NEW i, retired'[i] = retired[i],
         \A f \in wire \cup wire' : f.id = i => (f \in wire <=> f \in wire'),
         \A c \in Clients : (pc'[c] = "admitted" \/ pc[c] = "admitted")
                               => pc'[c] = pc[c] /\ op'[c] = op[c]
  PROVE  SameStray(i)
BY ZenonT(120) DEF SameStray, Stray, Live, Kept

(* No client comes to write a submission, or stops.                        *)
QuietWriters ==
  \A c \in Clients : (pc'[c] = "admitted" \/ pc[c] = "admitted")
                        => pc'[c] = pc[c] /\ op'[c] = op[c]

(* A step that neither writes a record, nor serves, nor lets a writer go   *)
(* is a stutter.                                                           *)
LEMMA IdlePermits ==
  ASSUME UNCHANGED <<claims, retired, delivered, wire>>, QuietWriters,
         \A i \in Ids : SameState(i)
  PROVE  UNCHANGED Permits!vars
<1>1. \A i \in Ids : SamePermit(i)
  BY SameRecordPermit, SMTT(60)
<1>2. \A i \in Ids : SameStray(i)
  BY SameWireStray, Zenon DEF QuietWriters
<1>3. \A i \in Ids : SameEver(i)
  BY DEF SameEver, Ever
<1> QED
  BY <1>1, <1>2, <1>3, Stutters

(* A submission that is not retired, and still to be delivered, has the    *)
(* permit of its identity, granted or already recorded.                    *)
LEMMA UnderWay ==
  ASSUME IInv, NEW x, Live(x),
         \/ x \in wire
         \/ \E c \in Clients : pc[c] = "admitted" /\ x = op[c]
  PROVE  /\ PermitOf(x.id) \in {"granted", "recorded"}
         /\ PermitOf(x.id) = "recorded" <=> send[x.id].state = "accepted"
<1>1. Owns(x)
  BY Zenon DEF IInv, Ownership, Holds
<1>2. \A m \in delivered : m.id = x.id /\ Live(m) => m.claim = x.claim
  BY ZenonT(60) DEF IInv, Ownership, Holds, Agree
<1>3. \A m \in delivered : m.claim # x.claim
  BY Zenon DEF IInv, ExclusiveClaims
<1>4. ~\E m \in delivered : m.id = x.id /\ Live(m)
  BY <1>2, <1>3, SMTT(60)
<1> QED
  BY <1>1, <1>4, SMTT(60) DEF PermitOf, Owns

(* Removing records retires the permits of their identities.               *)
LEMMA RemovalRetires ==
  ASSUME SQLite = TRUE, IInv, NEW R \in SUBSET Ids,
         UNCHANGED <<claims, delivered, wire>>, QuietWriters,
         retired' = [i \in Ids |-> IF i \in R THEN claims ELSE retired[i]],
         \A i \in R : send'[i].state = "absent",
         \A i \in Ids \ R : send'[i] = send[i]
  PROVE  Permits!Next
<1>0. /\ \A x \in wire : x.id \in Ids /\ x.claim \in Nat /\ x.claim <= claims
      /\ \A c \in Clients : pc[c] = "admitted" =>
           op[c].id \in Ids /\ op[c].claim \in Nat /\ op[c].claim <= claims
      /\ \A i \in Ids : retired[i] \in Nat /\ retired[i] <= claims
      /\ claims \in Nat
  BY SubmissionTypes, Zenon DEF IInv, Holds
<1>a. /\ \A i \in R : retired'[i] = claims
      /\ \A i \in Ids \ R : retired'[i] = retired[i]
  BY Zenon
<1>1. \A i \in R : PermitOf(i)' = "open"
  BY SMTT(60) DEF PermitOf
<1>2. \A i \in Ids \ R : SamePermit(i)
  BY <1>a, SameRecordPermit, Zenon DEF SameState
<1>3. \A i \in Ids \ R : SameStray(i)
  BY <1>a, SameWireStray, Zenon DEF QuietWriters
<1>4. \A i \in Ids : SameEver(i)
  BY DEF SameEver, Ever
<1>5. /\ \A x : Live(x) <=> x.claim > retired[x.id]
      /\ \A x : Live(x)' <=> x.claim > retired'[x.id]
  BY Zenon DEF Live, Kept
<1>6. ASSUME NEW i \in Ids, Stray(i) PROVE Stray(i)'
  <2>1. retired'[i] \in Nat /\ retired[i] \in Nat /\ retired[i] <= retired'[i]
    BY <1>0, <1>a, SMTT(60)
  <2>2. \A n \in Nat : ~(n > retired[i]) => ~(n > retired'[i])
    BY <2>1, SMTT(60)
  <2>3. CASE \E f \in wire : f.id = i /\ ~Live(f)
    BY <1>0, <1>5, <2>2, <2>3, Zenon DEF Stray
  <2>4. CASE \E c \in Clients : pc[c] = "admitted" /\ op[c].id = i /\ ~Live(op[c])
    <3>1. PICK c \in Clients : pc[c] = "admitted" /\ op[c].id = i /\ ~(op[c].claim > retired[i])
      BY <1>5, <2>4, Zenon
    <3>2. pc'[c] = "admitted" /\ op'[c] = op[c] /\ ~(op'[c].claim > retired'[i])
      BY <1>0, <2>2, <3>1, Zenon DEF QuietWriters
    <3> QED
      BY <3>1, <3>2, Zenon DEF Stray, Live
  <2> QED
    BY <1>6, <2>3, <2>4, Zenon DEF Stray
<1>7. ASSUME NEW i \in R, Stray(i)', ~Stray(i)
      PROVE  PermitOf(i) \in {"granted", "recorded"}
  <2>1. CASE \E f \in wire' : f.id = i /\ ~Live(f)'
    <3>1. PICK f \in wire : f.id = i /\ Live(f)
      BY <1>7, <2>1, Zenon DEF Stray
    <3> QED
      BY <3>1, UnderWay, Zenon
  <2>2. CASE \E c \in Clients : pc'[c] = "admitted" /\ op'[c].id = i /\ ~Live(op[c])'
    <3>1. PICK c \in Clients : pc[c] = "admitted" /\ op[c].id = i /\ Live(op[c])
      BY <1>7, <2>2, Zenon DEF Stray, QuietWriters
    <3> QED
      BY <3>1, UnderWay, Zenon
  <2> QED
    BY <1>7, <2>1, <2>2, Zenon DEF Stray
<1> QED
  BY <1>1, <1>2, <1>3, <1>4, <1>6, <1>7, Retires, ZenonT(60)

(* A step of an operation that moves no claim leaves the writers alone.    *)
LEMMA Writers ==
  ASSUME TypeInv, NEW c \in Clients, Run(c), ~Admit(c), ~Write(c)
  PROVE  QuietWriters /\ UNCHANGED <<delivered, wire>>
<1>1. pc[c] # "admitted"
  BY Zenon DEF Run, CheckQueue, Reconcile, Recheck, ReconcileSubmitting, Resume,
     RecordAttempt, Admit, Write, ReadReply, Restore, Lookup, Mark,
     UnwrittenOutcome, AcknowledgeWalk, AcknowledgeRemove, FindReceipt, Adopt
<1> DEFINE Moved == \E label, o : /\ label # "admitted"
                                  /\ pc' = [pc EXCEPT ![c] = label]
                                  /\ op' = [op EXCEPT ![c] = o]
<1>2. /\ \A kind, turn : Return(c, kind, turn) => Moved
      /\ \A turn, s : ToMark(c, turn, s) => Moved
      /\ \A b : Unwritten(c, b) => Moved
      /\ \A label, o : label # "admitted" /\ Goto(c, label, o) => Moved
  BY Zenon DEF Return, ToMark, Unwritten, Goto
<1>3. Moved
  <2> HIDE DEF Moved
  <2> QED
    BY <1>2, ZenonT(60) DEF Run, CheckQueue, Reconcile, Recheck, ReconcileSubmitting, Resume,
       RecordAttempt, ReadReply, Restore, Lookup, Mark,
       UnwrittenOutcome, AcknowledgeWalk, AcknowledgeRemove, FindReceipt, Adopt
<1>4. QuietWriters
  BY <1>1, <1>3 DEF QuietWriters, TypeInv, TypeOK
<1>5. UNCHANGED <<delivered, wire>>
  BY Zenon DEF Run, CheckQueue, Reconcile, Recheck, ReconcileSubmitting, Resume,
     RecordAttempt, ReadReply, Restore, Lookup, Mark,
     UnwrittenOutcome, AcknowledgeWalk, AcknowledgeRemove, FindReceipt, Adopt, serverVars
<1> QED
  BY <1>4, <1>5

(* What the protocol does in a step, if anything.                          *)
PermitStep == Permits!Next \/ UNCHANGED Permits!vars

(* Recording, removing and leaving records alone, in a step that leaves    *)
(* the writers alone.                                                      *)
LEMMA LedgerPermits ==
  ASSUME SQLite = TRUE, IInv, UNCHANGED <<delivered, wire>>, QuietWriters,
         \/ \E i \in Ids : \E t, a, s : RecordSend(i, t, a, s)
         \/ \E i \in Ids : RemoveSend(i)
         \/ ClearThread
         \/ UNCHANGED ledgerVars
  PROVE  PermitStep
<1>0. send \in [Ids -> Attempt] /\ retired \in [Ids -> 0..MaxClaims]
  BY DEF IInv, TypeInv, TypeOK, LedgerTypeOK
<1>1. ASSUME NEW i \in Ids, NEW t, NEW a, NEW s, RecordSend(i, t, a, s)
      PROVE  PermitStep
  <2>1. UNCHANGED <<claims, retired>> /\ \A j \in Ids : SameState(j)
    BY <1>0, <1>1, Zenon DEF RecordSend, Found, PreparedAttempt, SameState
  <2> QED
    BY <2>1, IdlePermits, SMTT(60) DEF PermitStep
<1>2. ASSUME NEW i \in Ids, RemoveSend(i)
      PROVE  PermitStep
  <2>1. /\ send'[i].state = "absent" /\ claims' = claims
        /\ \A j \in Ids \ {i} : send'[j] = send[j]
        /\ retired' = [retired EXCEPT ![i] = claims]
    BY <1>0, <1>2, Zenon DEF RemoveSend, Absent
  <2> DEFINE R == {i}
  <2>2. /\ R \in SUBSET Ids
        /\ \A j \in R : send'[j].state = "absent"
        /\ \A j \in Ids \ R : send'[j] = send[j]
        /\ retired' = [j \in Ids |-> IF j \in R THEN claims ELSE retired[j]]
    BY <1>0, <2>1, Zenon
  <2> HIDE DEF R
  <2> QED
    BY <2>1, <2>2, RemovalRetires, ZenonT(60) DEF PermitStep
<1>3. CASE ClearThread
  <2>1. /\ claims' = claims /\ \A i \in Ids : send'[i].state = "absent"
        /\ retired' = [i \in Ids |-> IF i \in Ids THEN claims ELSE retired[i]]
    BY <1>3, Zenon DEF ClearThread, Absent
  <2> QED
    BY <2>1, RemovalRetires, Zenon DEF PermitStep
<1>4. CASE UNCHANGED ledgerVars
  BY <1>4, IdlePermits, Zenon DEF PermitStep, SameState, ledgerVars
<1> QED
  BY <1>1, <1>2, <1>3, <1>4, SMTT(60)

(* Admission grants the permit of a prepared record.                       *)
LEMMA AdmitPermits ==
  ASSUME SQLite = TRUE, IInv, NEW c \in Clients, Admit(c)
  PROVE  PermitStep
<1>a. op[c].id \in Ids
  BY DEF IInv, TypeInv, Named, Unnamed, Admit
<1> PICK i \in Ids : i = op[c].id
  BY <1>a
<1>0. /\ i \in Ids /\ op[c] \in Operation /\ send \in [Ids -> Attempt]
      /\ pc \in [Clients -> Label] /\ op \in [Clients -> Operation]
      /\ claims \in Nat /\ retired[i] \in Nat /\ retired[i] <= claims
  BY SubmissionTypes DEF IInv, TypeInv, TypeOK, LedgerTypeOK, Named, Unnamed, Admit
<1>1. /\ pc[c] = "admit" /\ UNCHANGED <<delivered, wire>>
      /\ \A d \in Clients \ {c} : pc'[d] = pc[d] /\ op'[d] = op[d]
  BY <1>0, Zenon DEF Admit, Goto, Unwritten, serverVars
<1>2. CASE ClaimSend(op[c].id, op[c].text, op[c].action, op[c].steered)
  <2>1. /\ send[i].state = "prepared" /\ send'[i].state = "submitting"
        /\ retired' = retired /\ claims' = claims + 1
        /\ \A j \in Ids \ {i} : send'[j] = send[j]
    BY <1>0, <1>2, Zenon DEF ClaimSend, CanClaim, Attempt
  <2>2. \A m \in delivered : m.id = i => ~Live(m)
    BY <2>1, Zenon DEF IInv, Ownership, Owns
  <2>3. PermitOf(i) = "open" /\ PermitOf(i)' = "granted"
    BY <1>1, <2>1, <2>2, SMTT(60) DEF PermitOf, Live, Kept
  <2>4. pc'[c] = "admitted" => op'[c].id = i /\ op'[c].claim = claims + 1
    BY <1>0, <2>1, SMTT(60) DEF Admit, Goto, Unwritten, Operation
  <2>5. pc'[c] = "admitted" => op'[c].claim > retired'[op'[c].id]
    BY <1>0, <2>1, <2>4, SMTT(60)
  <2>6. \A j \in Ids : SameStray(j)
    BY <1>1, <2>1, <2>5, ZenonT(60) DEF SameStray, Stray, Live, Kept
  <2>7. \A j \in Ids \ {i} : SamePermit(j)
    BY <1>1, <2>1, SameRecordPermit, Zenon DEF SameState
  <2>8. \A j \in Ids : SameEver(j)
    BY <1>1, Zenon DEF SameEver, Ever
  <2> QED
    BY <1>0, <2>1, <2>3, <2>6, <2>7, <2>8, Moves, Zenon DEF PermitStep
<1>3. CASE Unwritten(c, FALSE) /\ UNCHANGED ledgerVars
  <2>1. QuietWriters
    BY <1>0, <1>1, <1>3 DEF Unwritten, Goto, QuietWriters
  <2> QED
    BY <1>1, <1>3, <2>1, LedgerPermits, Zenon
<1> QED
  BY <1>2, <1>3, ZenonT(30) DEF Admit

(* Writing a request whose permit was retired leaves it stray, or loses it. *)
LEMMA WritePermits ==
  ASSUME IInv, NEW c \in Clients, Write(c)
  PROVE  PermitStep
<1>a. op[c].id \in Ids
  BY Zenon DEF IInv, TypeInv, Named, Unnamed, Write
<1> PICK i \in Ids : i = op[c].id
  BY <1>a
<1> PICK f : f = FrameOf(op[c])
  OBVIOUS
<1>0. i \in Ids /\ pc \in [Clients -> Label] /\ op \in [Clients -> Operation]
  BY Zenon DEF IInv, TypeInv, TypeOK, Named, Unnamed, Write
<1>1. /\ pc[c] = "admitted" /\ pc'[c] # "admitted"
      /\ \A d \in Clients \ {c} : pc'[d] = pc[d] /\ op'[d] = op[d]
      /\ UNCHANGED <<send, claims, retired, delivered>>
      /\ wire' \in {wire, wire \cup {f}}
  BY <1>0, Zenon DEF Write, Goto, ledgerVars
<1>2. f.id = i /\ f.claim = op[c].claim
  BY Zenon DEF FrameOf
<1>3. \A j \in Ids : SamePermit(j) /\ SameEver(j)
  BY <1>1, SameRecordPermit, Zenon DEF SameState, SameEver, Ever
<1>4. \A j \in Ids \ {i} : SameStray(j)
  BY <1>1, <1>2, ZenonT(60) DEF SameStray, Stray, Live, Kept
<1>5. CASE Live(op[c])
  <2>1. SameStray(i)
    BY <1>1, <1>2, <1>5, Zenon DEF SameStray, Stray, Live, Kept
  <2> QED
    BY <1>1, <1>3, <1>4, <2>1, Stutters, Zenon DEF PermitStep
<1>6. CASE ~Live(op[c])
  <2>1. Stray(i)
    BY <1>1, <1>6, Zenon DEF Stray
  <2> QED
    BY <1>0, <1>1, <1>3, <1>4, <2>1, Settles, Zenon DEF PermitStep, SameEver
<1> QED
  BY <1>5, <1>6, SMTT(60)

(* Giving a claim back revokes a permit under which nothing was delivered. *)
LEMMA RestorePermits ==
  ASSUME SQLite = TRUE, IInv, NEW c \in Clients, Restore(c)
  PROVE  PermitStep
<1>0. /\ op[c].id \in Ids /\ pc[c] = "restore" /\ send \in [Ids -> Attempt]
      /\ pc \in [Clients -> Label] /\ op \in [Clients -> Operation]
  BY Zenon DEF IInv, TypeInv, TypeOK, LedgerTypeOK, Named, Unnamed, Restore
<1>1. QuietWriters /\ UNCHANGED <<delivered, wire>>
  BY <1>0, SMTT(60) DEF Restore, Unwritten, Goto, QuietWriters, serverVars
<1>2. CASE RestoreSend(op[c].id, op[c].claim)
  <2> PICK i \in Ids : i = op[c].id
    BY <1>0, SMTT(60)
  <2>1. /\ send[i].state = "submitting" /\ send[i].claim = op[c].claim
        /\ send'[i].state = "prepared" /\ UNCHANGED <<claims, retired>>
        /\ \A j \in Ids \ {i} : send'[j] = send[j]
    BY <1>0, <1>2, Zenon DEF RestoreSend, CanRestore, Attempt
  <2>a. \A m \in delivered : Live(m) => Owns(m)
    BY Zenon DEF IInv, Ownership
  <2>b. \A m \in delivered : m.claim # op[c].claim
    BY <1>0, ZenonT(60) DEF IInv, ExclusiveClaims
  <2>2. \A m \in delivered : m.id = i => ~Live(m)
    BY <2>1, <2>a, <2>b DEF Owns
  <2>3. PermitOf(i) = "granted" /\ PermitOf(i)' = "open"
    BY <2>1, <2>2, Zenon DEF PermitOf
  <2>4. \A j \in Ids \ {i} : SamePermit(j)
    BY <1>1, <2>1, SameRecordPermit, Zenon DEF SameState
  <2>5. \A j \in Ids : SameEver(j) /\ SameStray(j)
    BY <1>1, <2>1, SameWireStray, Zenon DEF SameEver, Ever, QuietWriters
  <2> QED
    BY <2>1, <2>3, <2>4, <2>5, Moves, Zenon DEF PermitStep
<1>3. CASE UNCHANGED ledgerVars
  BY <1>1, <1>3, LedgerPermits
<1> QED
  BY <1>2, <1>3, Zenon DEF Restore

(* A receipt is recorded for an identity the server has accepted.          *)
LEMMA ReceiptPermits ==
  ASSUME SQLite = TRUE, IInv, Receipted, NEW c \in Clients, Mark(c) \/ Adopt(c)
  PROVE  PermitStep
<1>0. /\ op[c].id \in Ids /\ pc[c] \in {"mark", "adopt"} /\ send \in [Ids -> Attempt]
  BY Zenon DEF IInv, TypeInv, TypeOK, LedgerTypeOK, Named, Unnamed, Mark, Adopt
<1>1. QuietWriters /\ UNCHANGED <<delivered, wire>>
  <2>1. Run(c) /\ ~Admit(c) /\ ~Write(c)
    BY <1>0, ZenonT(60) DEF Run, Admit, Write
  <2> QED
    BY <2>1, Writers, Zenon DEF IInv
<1> PICK i \in Ids : i = op[c].id
  BY <1>0, Zenon
<1>2. Ever(i)
  BY <1>0, Zenon DEF Receipted, Knows, Accepted, Ever
<1>3. \/ UNCHANGED ledgerVars
      \/ /\ send'[i].state = "accepted" /\ UNCHANGED <<claims, retired>>
         /\ \A j \in Ids \ {i} : send'[j] = send[j]
  <2>1. CASE Mark(c)
    <3>1. AcceptSend(op[c].id, op[c].steered, op[c].turn) \/ UNCHANGED ledgerVars
      BY <2>1, ZenonT(60) DEF Mark
    <3> QED
      BY <1>0, <3>1, ZenonT(60) DEF AcceptSend, Attempt
  <2>2. CASE Adopt(c)
    <3>1. \/ AdoptReceipt(op[c].id, op[c].text, op[c].action, op[c].steered, op[c].turn)
          \/ UNCHANGED ledgerVars
      BY <2>2, Zenon DEF Adopt
    <3> QED
      <4>1. AcceptedAttempt(op[c].text, op[c].action, op[c].steered, op[c].turn).state = "accepted"
        BY Zenon DEF AcceptedAttempt
      <4> HIDE DEF AcceptedAttempt
      <4>2. ASSUME AdoptReceipt(op[c].id, op[c].text, op[c].action, op[c].steered, op[c].turn)
            PROVE  /\ send'[i].state = "accepted" /\ UNCHANGED <<claims, retired>>
                   /\ \A j \in Ids \ {i} : send'[j] = send[j]
        <5>1. CASE send[i].state = "accepted"
          BY <4>2, <5>1, ZenonT(60) DEF AdoptReceipt
        <5>2. CASE send[i].state # "accepted"
          BY <1>0, <4>1, <4>2, <5>2, ZenonT(60) DEF AdoptReceipt
        <5> QED
          BY <5>1, <5>2, Zenon
      <4> QED
        BY <3>1, <4>2, Zenon
  <2> QED
    BY <2>1, <2>2, Zenon
<1>4. CASE UNCHANGED ledgerVars
  BY <1>1, <1>4, LedgerPermits
<1>5. CASE /\ send'[i].state = "accepted" /\ UNCHANGED <<claims, retired>>
           /\ \A j \in Ids \ {i} : send'[j] = send[j]
  <2>1. PermitOf(i)' = "recorded"
    BY <1>5 DEF PermitOf
  <2>2. \A j \in Ids \ {i} : SamePermit(j)
    BY <1>1, <1>5, SameRecordPermit, Zenon DEF SameState
  <2>3. \A j \in Ids : SameEver(j) /\ SameStray(j)
    BY <1>1, <1>5, SameWireStray, ZenonT(60) DEF SameEver, Ever, QuietWriters
  <2> QED
    BY <1>2, <1>5, <2>1, <2>2, <2>3, Moves, Zenon DEF PermitStep
<1> QED
  BY <1>3, <1>4, <1>5, Zenon

(* One submission of identity i is lost before it is delivered.            *)
LEMMA LossSettles ==
  ASSUME NEW i \in Ids, UNCHANGED <<send, claims, retired, delivered>>,
         wire' \subseteq wire, \A f \in wire \ wire' : f.id = i,
         \A c \in Clients :
           /\ pc'[c] = "admitted" => pc[c] = "admitted" /\ op'[c] = op[c]
           /\ pc[c] = "admitted" /\ pc'[c] # "admitted" => op[c].id = i
  PROVE  PermitStep
<1>1. \A j \in Ids : SamePermit(j) /\ SameEver(j)
  BY SameRecordPermit, Zenon DEF SameState, SameEver, Ever
<1>2. \A j \in Ids \ {i} : SameStray(j)
  BY SMTT(60) DEF SameStray, Stray, Live, Kept
<1>3. Stray(i)' => Stray(i)
  BY Zenon DEF Stray, Live, Kept
<1>4. CASE Stray(i)
  BY <1>1, <1>2, <1>4, Settles, Zenon DEF PermitStep, SameEver
<1>5. CASE ~Stray(i)
  <2>1. SameStray(i)
    BY <1>3, <1>5, Zenon DEF SameStray
  <2> QED
    BY <1>1, <1>2, <2>1, Stutters, Zenon DEF PermitStep
<1> QED
  BY <1>4, <1>5, Zenon

(* The server delivers a granted submission, or a stray one arrives.       *)
LEMMA ServePermits ==
  ASSUME IInv, Receipted, NEW f \in wire, ServeInput(f), UNCHANGED <<ledgerVars, clientVars>>
  PROVE  PermitStep
<1>0. f.id \in Ids
  BY DEF IInv, TypeInv, TypeOK, ServerTypeOK, Frame
<1> PICK i \in Ids : i = f.id
  BY <1>0, Zenon
<1>1. UNCHANGED <<send, claims, retired, pc, op>> /\ wire' = wire \ {f}
  BY Zenon DEF ledgerVars, clientVars, ServeInput
<1>2. PICK n : delivered' = delivered \cup {n} /\ n.id = i /\ n.claim = f.claim
  <2> DEFINE n == [id |-> f.id, text |-> f.text, turn |-> TurnOfInput,
                   joined |-> active # 0, claim |-> f.claim]
  <2>1. delivered' = delivered \cup {n}
    BY Zenon DEF ServeInput
  <2>2. n.id = i /\ n.claim = f.claim
    BY Zenon
  <2> HIDE DEF n
  <2> QED
    BY <2>1, <2>2, Zenon
<1>3. \A j \in Ids \ {i} : SamePermit(j)
  <2>1. \A j \in Ids \ {i} :
          (\E m \in delivered' : m.id = j /\ Live(m)') <=> (\E m \in delivered : m.id = j /\ Live(m))
    BY <1>1, <1>2, Zenon DEF Live, Kept
  <2> QED
    BY <1>1, <2>1, SMTT(60) DEF SamePermit, PermitOf
<1>4. \A j \in Ids \ {i} : SameEver(j) /\ SameStray(j)
  BY <1>1, <1>2, Zenon DEF SameEver, Ever, SameStray, Stray, Live, Kept
<1>5. Ever(i)'
  BY <1>2, Zenon DEF Ever
<1>6. CASE Live(f)
  <2>1. SameStray(i)
    BY <1>1, <1>6, Zenon DEF SameStray, Stray, Live, Kept
  <2>2. PermitOf(i) \in {"granted", "recorded"}
        /\ (PermitOf(i) = "recorded" <=> send[i].state = "accepted")
    BY <1>6, UnderWay, Zenon
  <2>3. CASE send[i].state = "accepted"
    <3>1. SamePermit(i)
      BY <1>1, <2>3, SMTT(60) DEF SamePermit, PermitOf
    <3>2. SameEver(i)
      BY <1>5, <2>3, Zenon DEF Receipted, LedgerKnows, Accepted, SameEver, Ever
    <3> QED
      BY <1>1, <1>3, <1>4, <2>1, <3>1, <3>2, Stutters, Zenon DEF PermitStep
  <2>4. CASE send[i].state # "accepted"
    <3>1. PermitOf(i) = "granted"
      BY <2>2, <2>4, Zenon
    <3>2. send[i].state = "submitting"
      BY <2>4, <1>6, ZenonT(60) DEF IInv, Ownership, Owns
    <3>3. PermitOf(i)' = "delivered"
      BY <1>1, <1>2, <1>6, <3>2, SMTT(60) DEF PermitOf, Live, Kept
    <3> QED
      BY <1>1, <1>3, <1>4, <1>5, <2>1, <3>1, <3>3, Delivers, Zenon DEF PermitStep
  <2> QED
    BY <2>3, <2>4, Zenon
<1>7. CASE ~Live(f)
  <2>1. Stray(i)
    BY <1>7, Zenon DEF Stray
  <2>2. SamePermit(i)
    <3>1. (\E m \in delivered' : m.id = i /\ Live(m)') <=> (\E m \in delivered : m.id = i /\ Live(m))
      BY <1>1, <1>2, <1>7, Zenon DEF Live, Kept
    <3> QED
      BY <1>1, <3>1, SMTT(60) DEF SamePermit, PermitOf
  <2> QED
    BY <1>1, <1>3, <1>4, <1>5, <2>1, <2>2, Settles, Zenon DEF PermitStep
<1> QED
  BY <1>6, <1>7

(* The server's other steps lose a request, or change no permit.           *)
LEMMA NativePermits ==
  ASSUME IInv, Receipted, Native
  PROVE  PermitStep
<1>1. UNCHANGED <<ledgerVars, clientVars>> /\ UNCHANGED <<send, claims, retired, pc, op>>
  BY DEF Native, ledgerVars, clientVars
<1>2. ASSUME NEW f \in wire, ServeInput(f) PROVE PermitStep
  BY <1>1, <1>2, ServePermits, Zenon
<1>3. ASSUME NEW f \in wire, RefuseInput(f) \/ LoseInput(f) PROVE PermitStep
  <2>1. f.id \in Ids
    BY SMTT(60) DEF IInv, TypeInv, TypeOK, ServerTypeOK, Frame
  <2>2. wire' = wire \ {f} /\ delivered' = delivered
    BY <1>3, Zenon DEF RefuseInput, LoseInput
  <2> QED
    BY <1>1, <2>1, <2>2, LossSettles, Zenon
<1>4. ASSUME UNCHANGED <<delivered, wire>> PROVE PermitStep
  BY <1>1, <1>4, IdlePermits, Zenon DEF PermitStep, SameState, QuietWriters
<1> QED
  BY <1>2, <1>3, <1>4, Zenon DEF Native, Serve, ShowInput, FinishTurn

(* Every step of the system is a step of the permit protocol or a stutter. *)
LEMMA PermitsStep ==
  ASSUME SQLite = TRUE, IInv, Receipted, [Next]_vars
  PROVE  PermitStep
<1>1. ASSUME NEW c \in Clients, Call(c) PROVE PermitStep
  <2>1. UNCHANGED <<delivered, wire>>
    <3>1. serverVars' = serverVars
      BY <1>1, ZenonT(120) DEF Call, BeginAcknowledge, BeginSend, BeginReconcile, Begin,
         BeginAttempted, Discard, Prepare
    <3> QED
      BY <3>1 DEF serverVars
  <2>2. QuietWriters
    BY <1>1 DEF Call, BeginAcknowledge, BeginSend, BeginReconcile, Begin, BeginAttempted,
       Discard, Prepare, QuietWriters, clientVars, IInv, TypeInv, TypeOK
  <2>3. \/ \E i \in Ids : \E t, a, s : RecordSend(i, t, a, s)
        \/ \E i \in Ids : RemoveSend(i)
        \/ UNCHANGED ledgerVars
    BY <1>1, SMTT(30) DEF Call, BeginAcknowledge, BeginSend, BeginReconcile, Begin,
       BeginAttempted, Discard, Prepare
  <2> QED
    BY <2>1, <2>2, <2>3, LedgerPermits
<1>2. ASSUME NEW c \in Clients, Run(c), ~Admit(c), ~Write(c), ~Restore(c), ~Mark(c), ~Adopt(c)
      PROVE  PermitStep
  <2>1. QuietWriters /\ UNCHANGED <<delivered, wire>>
    BY <1>2, Writers DEF IInv
  <2>2. pc[c] \notin Unnamed
    BY <1>2, Zenon DEF Unnamed, Run, CheckQueue, Reconcile, Recheck, ReconcileSubmitting, Resume,
       RecordAttempt, ReadReply, Lookup, UnwrittenOutcome, AcknowledgeWalk,
       AcknowledgeRemove, FindReceipt
  <2>3. op[c].id \in Ids
    BY <2>2, Zenon DEF IInv, TypeInv, Named, Unnamed
  <2>4. \/ \E t, a, s : RecordSend(op[c].id, t, a, s)
        \/ RemoveSend(op[c].id)
        \/ UNCHANGED ledgerVars
    BY <1>2, ZenonT(60) DEF Run, CheckQueue, Reconcile, Recheck, ReconcileSubmitting, Resume,
       RecordAttempt, ReadReply, Lookup, UnwrittenOutcome, AcknowledgeWalk,
       AcknowledgeRemove, FindReceipt
  <2> QED
    BY <2>1, <2>3, <2>4, LedgerPermits
<1>3. ASSUME NEW c \in Clients, Crash(c) PROVE PermitStep
  <2>1. /\ pc'[c] # "admitted" /\ UNCHANGED <<send, claims, retired, delivered, wire>>
        /\ \A d \in Clients \ {c} : pc'[d] = pc[d] /\ op'[d] = op[d]
    BY <1>3, Zenon DEF Crash, ledgerVars, serverVars, IInv, TypeInv, TypeOK
  <2>2. CASE pc[c] = "admitted"
    <3>1. op[c].id \in Ids
      BY <2>2, Zenon DEF IInv, TypeInv, Named, Unnamed
    <3> QED
      BY <2>1, <3>1, LossSettles, ZenonT(60)
  <2>3. CASE pc[c] # "admitted"
    BY <2>1, <2>3, IdlePermits, Zenon DEF PermitStep, SameState, QuietWriters
  <2> QED
    BY <2>2, <2>3, SMTT(60)
<1>4. CASE ClearRetired
  BY <1>4, LedgerPermits, Zenon DEF ClearRetired, QuietWriters, serverVars, clientVars
<1>5. CASE UNCHANGED vars
  BY <1>5, LedgerPermits, Zenon DEF vars, QuietWriters, serverVars, clientVars
<1> QED
  BY <1>1, <1>2, <1>3, <1>4, <1>5, AdmitPermits, WritePermits, RestorePermits,
     ReceiptPermits, NativePermits, Zenon DEF Next

(* With the SQLite ledger, delivery implements the permit protocol: an     *)
(* identity is granted once, its permit is given back only when nothing    *)
(* was delivered under it, and a receipt is recorded only after a delivery *)
(* (claimSendSubmissionIf, restoreRejectedSendClaim, markSendAccepted).    *)
THEOREM ImplementsPermits ==
  ASSUME SQLite = TRUE
  PROVE  Spec => FollowsPermits
<1>1. Init => IInv /\ Receipted
  BY Initially, InitiallyReceipted, SMTT(60) DEF IInv
<1>2. IInv /\ Receipted /\ [Next]_vars => (IInv /\ Receipted)'
  BY TypeStep, ExclusiveStep, OwnershipStep, ReceiptedStep DEF IInv
<1>3. Init => Permits!Init
  BY DEF Init, LedgerInit, ServerInit, Absent, PermitOf, Stray, Permits!Init
<1>4. IInv /\ Receipted /\ [Next]_vars => [Permits!Next]_(Permits!vars)
  BY PermitsStep DEF PermitStep
<1> QED
  BY <1>1, <1>2, <1>3, <1>4, PTL DEF Spec, FollowsPermits, Permits!Spec
=============================================================================
