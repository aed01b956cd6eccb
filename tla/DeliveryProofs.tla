--------------------------- MODULE DeliveryProofs ---------------------------
(***************************************************************************)
(* Theorems about Delivery, for every set of clients, identities and       *)
(* texts and every bound.                                                  *)
(*                                                                         *)
(* Delivery at most once is argued in two layers.  ExclusiveClaims follows *)
(* the claims alone: a fresh claim is drawn by one client, travels in one  *)
(* request and ends in one message.  Ownership then follows the ledger     *)
(* record: a record changes hands only when no submission that is not      *)
(* retired depends on it.  A claim that is given back must be the          *)
(* record's own: the SQLite backend compares the two, and the JSON ledger  *)
(* owes it to Ownership for as long as it has not removed a record.        *)
(***************************************************************************)
EXTENDS Delivery, TLAPS

(* What a client at work knows: the message it works on, and the claim it  *)
(* holds.  Only the deletion of a queue entry begins without the message.  *)
Unnamed == {"idle", "listDelete"}

Named ==
  \A c \in Clients : pc[c] \notin Unnamed =>
    /\ op[c].id \in Ids /\ op[c].text \in Texts
    /\ Holds(c) => op[c].claim # 0

TypeInv == TypeOK /\ Named

(***************************************************************************)
(* Typing of the records an operation is built from.                       *)
(***************************************************************************)

(* The absent and the freshly prepared record are records of the ledger.   *)
LEMMA AttemptTypes ==
  /\ Absent \in Attempt
  /\ \A t \in Texts, a \in Actions \cup {None}, s \in BOOLEAN :
       PreparedAttempt(t, a, s) \in Attempt
BY LedgerAssumption DEF Absent, Attempt, PreparedAttempt, SendState

(* A call with its arguments is an operation; so are what a client forgets *)
(* when it returns and what it keeps when it reads the ledger again.       *)
LEMMA OperationTypes ==
  /\ NoOperation \in Operation
  /\ \A kind \in {"send", "reconcile", "attempted", "acknowledge"},
        i \in Ids, t \in Texts, a \in Actions \cup {None} :
       Asked(kind, i, t, a) \in Operation
  /\ \A o \in Operation : Arguments(o) \in Operation
<1>1. 0 \in 0..MaxTurns /\ 0 \in 0..MaxClaims
  BY LedgerAssumption
<1> QED
  BY <1>1, AttemptTypes DEF NoOperation, Arguments, Asked, Operation

(* A step that goes on to another label keeps the client state typed.      *)
LEMMA GotoType ==
  ASSUME TypeInv, NEW c \in Clients, NEW label \in Label, NEW o \in Operation,
         o.id \in Ids, o.text \in Texts,
         label \in {"admitted", "await", "restore", "lookup"} => o.claim # 0,
         Goto(c, label, o)
  PROVE  /\ pc' \in [Clients -> Label] /\ op' \in [Clients -> Operation]
         /\ outcome' \in [Clients -> Outcome]
         /\ Named'
BY DEF TypeInv, TypeOK, Named, Unnamed, Holds, Goto

(* A step that returns keeps the client state typed.                       *)
LEMMA ReturnType ==
  ASSUME TypeInv, NEW c \in Clients,
         NEW kind \in {"receipt", "queued", "notSent", "unknown", "failed", "done"},
         NEW turn \in 0..MaxTurns, Return(c, kind, turn)
  PROVE  /\ pc' \in [Clients -> Label] /\ op' \in [Clients -> Operation]
         /\ outcome' \in [Clients -> Outcome]
         /\ Named'
<1>1. op[c].id \in Ids \cup {None}
  BY DEF TypeInv, TypeOK, Operation
<1>2. [kind |-> kind, id |-> op[c].id, turn |-> turn] \in Outcome
  BY <1>1 DEF Outcome
<1> QED
  BY <1>2, OperationTypes DEF TypeInv, TypeOK, Named, Unnamed, Holds, Return, Label

(* Every ledger transaction keeps the ledger typed.                        *)
LEMMA LedgerType ==
  ASSUME LedgerTypeOK, NEW i \in Ids, NEW t \in Texts, NEW a \in Actions \cup {None},
         NEW s \in BOOLEAN, NEW turn \in 0..MaxTurns, NEW k,
         \/ RecordSend(i, t, a, s)
         \/ AdoptReceipt(i, t, a, s, turn)
         \/ ClaimSend(i, t, a, s)
         \/ RestoreSend(i, k)
         \/ AcceptSend(i, s, turn)
         \/ RemoveSend(i)
         \/ ClearThread
  PROVE  LedgerTypeOK'
<1>a. send[i] \in Attempt /\ claims \in 0..MaxClaims /\ 0 \in 0..MaxClaims
  BY LedgerAssumption DEF LedgerTypeOK
<1>1. CASE RecordSend(i, t, a, s)
  BY <1>1, AttemptTypes DEF LedgerTypeOK, RecordSend
<1>2. CASE AdoptReceipt(i, t, a, s, turn)
  <2>1. AcceptedAttempt(t, a, s, turn) \in Attempt
    BY LedgerAssumption DEF AcceptedAttempt, Attempt, SendState
  <2> QED
    BY <1>2, <2>1 DEF LedgerTypeOK, AdoptReceipt
<1>3. CASE ClaimSend(i, t, a, s)
  <2>1. claims + 1 \in 0..MaxClaims
    BY <1>3, <1>a, LedgerAssumption DEF ClaimSend
  <2>2. send' \in [Ids -> Attempt]
    BY <1>3, <1>a, <2>1, Zenon DEF LedgerTypeOK, ClaimSend, Attempt, SendState
  <2> QED
    BY <1>3, <2>1, <2>2 DEF LedgerTypeOK, ClaimSend
<1>4. CASE RestoreSend(i, k)
  <2>1. send' \in [Ids -> Attempt]
    BY <1>4, <1>a, Zenon DEF LedgerTypeOK, RestoreSend, Attempt, SendState
  <2> QED
    BY <1>4, <2>1 DEF LedgerTypeOK, RestoreSend
<1>5. CASE AcceptSend(i, s, turn)
  <2>1. send' \in [Ids -> Attempt]
    BY <1>5, <1>a, Zenon DEF LedgerTypeOK, AcceptSend, Attempt, SendState
  <2> QED
    BY <1>5, <2>1 DEF LedgerTypeOK, AcceptSend
<1>6. CASE RemoveSend(i)
  BY <1>6, AttemptTypes DEF LedgerTypeOK, RemoveSend
<1>7. CASE ClearThread
  BY <1>7, AttemptTypes DEF LedgerTypeOK, ClearThread
<1> QED
  BY <1>1, <1>2, <1>3, <1>4, <1>5, <1>6, <1>7

(* The native server keeps its state typed.                                *)
LEMMA ServerType ==
  ASSUME ServerTypeOK, Serve
  PROVE  ServerTypeOK'
<1>1. ASSUME NEW f \in wire, ServeInput(f)
      PROVE  ServerTypeOK'
  <2>1. f \in Frame
    BY DEF ServerTypeOK
  <2>2. TurnOfInput \in 1..MaxTurns
    BY <1>1, LedgerAssumption DEF ServerTypeOK, ServeInput, TurnOfInput
  <2>3. turns' \in 0..MaxTurns
    BY <1>1, <2>2, LedgerAssumption DEF ServerTypeOK, ServeInput, TurnOfInput
  <2>4. delivered' \subseteq UserMessage
    <3>1. [id |-> f.id, text |-> f.text, turn |-> TurnOfInput,
           joined |-> active # 0, claim |-> f.claim] \in UserMessage
      BY <2>1, <2>2 DEF Frame, UserMessage
    <3> QED
      BY <1>1, <3>1, Zenon DEF ServerTypeOK, ServeInput
  <2>5. replies' \subseteq Reply
    <3>1. [claim |-> f.claim, refused |-> FALSE, turn |-> TurnOfInput] \in Reply
      BY <2>1, <2>2 DEF Frame, Reply
    <3> QED
      BY <1>1, <3>1, Zenon DEF ServerTypeOK, ServeInput
  <2> QED
    BY <1>1, <2>2, <2>3, <2>4, <2>5 DEF ServerTypeOK, ServeInput
<1>2. ASSUME NEW f \in wire, RefuseInput(f)
      PROVE  ServerTypeOK'
  <2>1. [claim |-> f.claim, refused |-> TRUE, turn |-> 0] \in Reply
    BY LedgerAssumption DEF ServerTypeOK, Frame, Reply
  <2> QED
    BY <1>2, <2>1, Zenon DEF ServerTypeOK, RefuseInput
<1>3. ASSUME NEW f \in wire, LoseInput(f)
      PROVE  ServerTypeOK'
  BY <1>3 DEF ServerTypeOK, LoseInput
<1>4. ASSUME NEW m \in delivered, ShowInput(m)
      PROVE  ServerTypeOK'
  BY <1>4 DEF ServerTypeOK, ShowInput
<1>5. CASE FinishTurn
  BY <1>5, LedgerAssumption DEF ServerTypeOK, FinishTurn
<1> QED
  BY <1>1, <1>2, <1>3, <1>4, <1>5 DEF Serve

(* Updates of an operation's locals keep it an operation on its message.   *)
LEMMA LocalTypes ==
  ASSUME NEW o \in Operation
  PROVE  /\ \A turn \in 0..MaxTurns, s \in BOOLEAN :
              /\ [o EXCEPT !.turn = turn, !.steered = s] \in Operation
              /\ [o EXCEPT !.turn = turn, !.steered = s].id = o.id
              /\ [o EXCEPT !.turn = turn, !.steered = s].text = o.text
         /\ \A b \in BOOLEAN :
              /\ [o EXCEPT !.allowAbsent = b] \in Operation
              /\ [o EXCEPT !.allowAbsent = b].id = o.id
              /\ [o EXCEPT !.allowAbsent = b].text = o.text
         /\ \A seen \in Attempt :
              /\ [o EXCEPT !.seen = seen] \in Operation
              /\ [o EXCEPT !.seen = seen].id = o.id
              /\ [o EXCEPT !.seen = seen].text = o.text
         /\ \A k \in 0..MaxClaims :
              /\ [o EXCEPT !.claim = k] \in Operation
              /\ [o EXCEPT !.claim = k].id = o.id
              /\ [o EXCEPT !.claim = k].text = o.text
              /\ [o EXCEPT !.claim = k].claim = k
         /\ \A turn \in 0..MaxTurns :
              /\ [o EXCEPT !.turn = turn] \in Operation
              /\ [o EXCEPT !.turn = turn].id = o.id
              /\ [o EXCEPT !.turn = turn].text = o.text
BY ZenonT(60) DEF Operation

(* Going on to record a receipt, or to read the ledger again, keeps the    *)
(* client state typed.                                                     *)
LEMMA SwitchType ==
  ASSUME TypeInv, NEW c \in Clients, pc[c] \notin Unnamed,
         \/ \E turn \in 0..MaxTurns, s \in BOOLEAN : ToMark(c, turn, s)
         \/ \E b \in BOOLEAN : Unwritten(c, b)
  PROVE  /\ pc' \in [Clients -> Label] /\ op' \in [Clients -> Operation]
         /\ outcome' \in [Clients -> Outcome]
         /\ Named'
<1>1. op[c] \in Operation /\ op[c].id \in Ids /\ op[c].text \in Texts
  BY DEF TypeInv, TypeOK, Named, Unnamed
<1>2. /\ Arguments(op[c]) \in Operation
      /\ Arguments(op[c]).id = op[c].id /\ Arguments(op[c]).text = op[c].text
  BY <1>1, OperationTypes DEF Arguments, Asked
<1>3. ASSUME NEW turn \in 0..MaxTurns, NEW s \in BOOLEAN, ToMark(c, turn, s)
      PROVE  /\ pc' \in [Clients -> Label] /\ op' \in [Clients -> Operation]
             /\ outcome' \in [Clients -> Outcome]
             /\ Named'
  <2> DEFINE p == Arguments(op[c])
             o == [p EXCEPT !.turn = turn, !.steered = s]
  <2>1. o \in Operation /\ o.id \in Ids /\ o.text \in Texts
    <3>1. p \in Operation /\ p.id \in Ids /\ p.text \in Texts
      BY <1>1, <1>2
    <3> HIDE DEF p
    <3> QED
      BY <3>1, Zenon DEF Operation
  <2>2. Goto(c, "mark", o)
    BY <1>3, Zenon DEF ToMark
  <2> QED
    BY <2>1, <2>2, GotoType, ZenonT(60) DEF Label
<1>4. ASSUME NEW b \in BOOLEAN, Unwritten(c, b)
      PROVE  /\ pc' \in [Clients -> Label] /\ op' \in [Clients -> Operation]
             /\ outcome' \in [Clients -> Outcome]
             /\ Named'
  <2> DEFINE o == [Arguments(op[c]) EXCEPT !.allowAbsent = b]
  <2>1. o \in Operation /\ o.id \in Ids /\ o.text \in Texts
    BY <1>1, <1>2, LocalTypes, ZenonT(120)
  <2>2. Goto(c, "unwritten", o)
    BY <1>4 DEF Unwritten
  <2> QED
    BY <2>1, <2>2, GotoType, ZenonT(60) DEF Label
<1> QED
  BY <1>3, <1>4

(* The client state is typed after a step.                                 *)
ClientTyped ==
  /\ pc \in [Clients -> Label] /\ op \in [Clients -> Operation]
  /\ outcome \in [Clients -> Outcome]
  /\ Named

(* A call that begins keeps the type invariant.                            *)
LEMMA CallType ==
  ASSUME TypeInv, NEW c \in Clients, Call(c)
  PROVE  TypeInv'
<1> USE DEF TypeInv, TypeOK
<1>1. PICK i \in Ids, t \in Texts :
        \/ BeginAcknowledge(c, i, t)
        \/ \E a \in Actions :
             \/ BeginSend(c, i, t, a)
             \/ BeginReconcile(c, i, t, a)
             \/ BeginAttempted(c, i, t, a)
             \/ Discard(c, i, t, a)
             \/ \E s \in BOOLEAN : Prepare(c, i, t, a, s)
  BY DEF Call
<1>a. send[i] \in Attempt /\ 0 \in 0..MaxTurns
  BY LedgerAssumption DEF LedgerTypeOK
<1>b. NoOutcome \in Outcome
  BY <1>a DEF NoOutcome, Outcome
<1>2. CASE BeginAcknowledge(c, i, t)
  <2> DEFINE o == [Asked("acknowledge", i, t, None) EXCEPT !.seen = send[i]]
  <2>1. Asked("acknowledge", i, t, None) \in Operation
    BY OperationTypes, SMTT(30)
  <2>2. o \in Operation /\ o.id = i /\ o.text = t
    BY <1>a, <2>1, LocalTypes, Zenon DEF Asked
  <2> QED
    BY <1>2, <2>2, <1>b DEF BeginAcknowledge, Named, Unnamed, Holds, Label,
       LedgerTypeOK, ServerTypeOK, ledgerVars, serverVars
<1>3. ASSUME NEW a \in Actions, NEW kind \in {"send", "reconcile"}, Begin(c, kind, i, t, a)
      PROVE  TypeInv'
  <2> DEFINE o == [Asked(kind, i, t, a) EXCEPT !.seen = send[i]]
  <2>1. Asked(kind, i, t, a) \in Operation
    BY OperationTypes
  <2>2. o \in Operation /\ o.id = i /\ o.text = t
    BY <1>a, <2>1, LocalTypes, Zenon DEF Asked
  <2>3. [kind |-> "failed", id |-> i, turn |-> 0] \in Outcome
    BY <1>a DEF Outcome
  <2> DEFINE r == [kind |-> "failed", id |-> i, turn |-> 0]
  <2>4. /\ UNCHANGED <<ledgerVars, serverVars>>
        /\ \/ outcome' = [outcome EXCEPT ![c] = r] /\ UNCHANGED <<pc, op>>
           \/ /\ pc' = [pc EXCEPT ![c] = "checkQueue"] /\ op' = [op EXCEPT ![c] = o]
              /\ outcome' = [outcome EXCEPT ![c] = NoOutcome]
    BY <1>3, Zenon DEF Begin
  <2> HIDE DEF o, r
  <2>5. ClientTyped'
    BY <1>b, <2>2, <2>3, <2>4, SMTT(60) DEF ClientTyped, Named, Unnamed, Holds, Label, r
  <2> QED
    BY <2>4, <2>5, Zenon DEF ClientTyped, LedgerTypeOK, ServerTypeOK, ledgerVars, serverVars
<1>4. ASSUME NEW a \in Actions, BeginAttempted(c, i, t, a)
      PROVE  TypeInv'
  <2>1. /\ Asked("attempted", i, t, a) \in Operation
        /\ Asked("attempted", i, t, a).id = i /\ Asked("attempted", i, t, a).text = t
    BY OperationTypes, Zenon DEF Asked
  <2> QED
    BY <1>4, <2>1, <1>b DEF BeginAttempted, Named, Unnamed, Holds, Label,
       LedgerTypeOK, ServerTypeOK, ledgerVars, serverVars
<1>5. ASSUME NEW a \in Actions, Discard(c, i, t, a)
      PROVE  TypeInv'
  <2>1. LedgerTypeOK'
    BY <1>5, <1>a, LedgerType, Zenon DEF Discard
  <2> QED
    BY <1>5, <2>1 DEF Discard, Named, Unnamed, Holds, ServerTypeOK, serverVars, clientVars
<1>6. ASSUME NEW a \in Actions, NEW s \in BOOLEAN, Prepare(c, i, t, a, s)
      PROVE  TypeInv'
  <2>1. LedgerTypeOK'
    BY <1>6, <1>a, LedgerType DEF Prepare
  <2> QED
    BY <1>6, <2>1 DEF Prepare, Named, Unnamed, Holds, ServerTypeOK, serverVars, clientVars
<1> QED
  BY <1>1, <1>2, <1>3, <1>4, <1>5, <1>6 DEF BeginSend, BeginReconcile

(* A step of an operation keeps the type invariant.                        *)
LEMMA RunType ==
  ASSUME TypeInv, NEW c \in Clients, Run(c)
  PROVE  TypeInv'
<1>0. pc[c] \notin Unnamed
  BY Zenon DEF Unnamed, Run, CheckQueue, Reconcile, Recheck, ReconcileSubmitting, Resume,
     RecordAttempt, Admit, Write, ReadReply, Restore, Lookup, Mark,
     UnwrittenOutcome, AcknowledgeWalk, AcknowledgeRemove, FindReceipt, Adopt
<1>1. /\ op[c] \in Operation /\ op[c].id \in Ids /\ op[c].text \in Texts
      /\ Holds(c) => op[c].claim # 0
  BY <1>0 DEF TypeInv, TypeOK, Named, Unnamed
<1>2. /\ op[c].seen \in Attempt /\ op[c].steered \in BOOLEAN
      /\ op[c].turn \in 0..MaxTurns /\ op[c].claim \in 0..MaxClaims
      /\ op[c].action \in Actions \cup {None} /\ op[c].seen.turn \in 0..MaxTurns
      /\ op[c].seen.steered \in BOOLEAN /\ 0 \in 0..MaxTurns
  BY <1>1, LedgerAssumption DEF Operation, Attempt
<1>3. /\ Arguments(op[c]) \in Operation
      /\ Arguments(op[c]).id = op[c].id /\ Arguments(op[c]).text = op[c].text
  BY <1>1, OperationTypes DEF Arguments, Asked
<1>4. \A m \in Newest(op[c].id) : m.turn \in 0..MaxTurns /\ m.joined \in BOOLEAN
  BY LedgerAssumption DEF TypeInv, TypeOK, ServerTypeOK, Newest, UserMessage
<1>5. /\ send[op[c].id] \in Attempt /\ send[op[c].id].turn \in 0..MaxTurns
      /\ active \in 0..MaxTurns
  BY <1>1 DEF TypeInv, TypeOK, LedgerTypeOK, ServerTypeOK, Attempt
<1>6. /\ TypeOK /\ LedgerTypeOK /\ ServerTypeOK
      /\ (UNCHANGED ledgerVars => LedgerTypeOK')
      /\ (UNCHANGED serverVars => ServerTypeOK')
  BY DEF TypeInv, TypeOK, LedgerTypeOK, ServerTypeOK, ledgerVars, serverVars
<1>7. SUFFICES ClientTyped' /\ LedgerTypeOK' /\ ServerTypeOK'
  BY SMTT(60) DEF ClientTyped, TypeInv, TypeOK
<1>8. CASE CheckQueue(c)
  BY <1>8, <1>1, <1>2, <1>6, GotoType, ReturnType, ZenonT(60) DEF CheckQueue, ClientTyped, Label
<1>9. ASSUME NEW label, NEW onError \in {"failed", "unknown"},
             ReconcileSubmitting(c, label, onError)
      PROVE  ClientTyped' /\ LedgerTypeOK' /\ ServerTypeOK'
  BY <1>9, <1>0, <1>2, <1>4, <1>6, ReturnType, SwitchType, Zenon DEF ReconcileSubmitting, ClientTyped
<1>10. CASE Resume(c)
  <2> DEFINE p == Arguments(op[c])
             o == [p EXCEPT !.turn = active, !.steered = (active # 0)]
  <2>1. o \in Operation /\ o.id \in Ids /\ o.text \in Texts
    <3>1. /\ p \in Operation /\ p.id \in Ids /\ p.text \in Texts
          /\ (active # 0) \in BOOLEAN /\ active \in 0..MaxTurns
      BY <1>1, <1>3, <1>5, Zenon
    <3> HIDE DEF p
    <3> QED
      BY <3>1, ZenonT(60) DEF Operation
  <2>2. \/ \E b \in BOOLEAN : Unwritten(c, b)
        \/ \E label \in {"admit", "record"} : Goto(c, label, o)
    BY <1>10, ZenonT(30) DEF Resume
  <2>3. ASSUME NEW label \in {"admit", "record"}, Goto(c, label, o)
        PROVE  ClientTyped'
    <3> HIDE DEF o
    <3> QED
      BY <2>1, <2>3, GotoType, Zenon DEF ClientTyped, Label
  <2> QED
    BY <1>10, <1>0, <1>6, <2>2, <2>3, SwitchType DEF Resume, ClientTyped
<1>11. CASE RecordAttempt(c)
  BY <1>11, <1>1, <1>2, <1>6, LedgerType, GotoType, ReturnType, ZenonT(60)
     DEF RecordAttempt, ClientTyped, Label
<1>12. CASE Admit(c)
  <2>1. CASE /\ ClaimSend(op[c].id, op[c].text, op[c].action, op[c].steered)
             /\ Goto(c, "admitted", [op[c] EXCEPT !.claim = claims'])
    <3> DEFINE o == [op[c] EXCEPT !.claim = claims']
    <3>1. LedgerTypeOK' /\ claims' \in 1..MaxClaims
      <4>1. LedgerTypeOK'
        BY <2>1, <1>1, <1>2, <1>6, LedgerType, Zenon
      <4> QED
        BY <4>1, <2>1, <1>6, LedgerAssumption DEF ClaimSend, LedgerTypeOK
    <3>2. o \in Operation /\ o.id \in Ids /\ o.text \in Texts /\ o.claim # 0
      BY <1>1, <3>1 DEF Operation
    <3> HIDE DEF o
    <3>3. Goto(c, "admitted", o)
      BY <2>1 DEF o
    <3> QED
      BY <1>12, <1>6, <3>1, <3>2, <3>3, GotoType, Zenon DEF Admit, ClientTyped, Label
  <2>2. CASE Unwritten(c, FALSE)
    BY <1>12, <2>2, <1>0, <1>1, <1>2, <1>6, LedgerType, SwitchType, ZenonT(60) DEF Admit, ClientTyped
  <2> QED
    BY <1>12, <2>1, <2>2, Zenon DEF Admit
<1>13. CASE Write(c)
  <2>1. Holds(c) /\ op[c].claim # 0
    BY <1>13, <1>1, Zenon DEF Write, Holds
  <2>2. FrameOf(op[c]) \in Frame
    BY <1>1, <1>2, <2>1 DEF FrameOf, Frame
  <2>3. ServerTypeOK'
    BY <1>13, <1>6, <2>2 DEF Write, ServerTypeOK
  <2>4. ClientTyped'
    BY <1>13, <1>1, <2>1, GotoType, ZenonT(60) DEF Write, ClientTyped, Label
  <2> QED
    BY <1>13, <1>6, <2>3, <2>4, Zenon DEF Write
<1>14. CASE ReadReply(c)
  BY <1>14, <1>0, <1>1, <1>2, <1>6, GotoType, SwitchType, Zenon
     DEF ReadReply, Holds, Reply, ServerTypeOK, ClientTyped, Label
<1>15. CASE Restore(c)
  BY <1>15, <1>0, <1>1, <1>2, <1>6, LedgerType, SwitchType, ZenonT(60) DEF Restore, ClientTyped
<1>16. CASE Lookup(c)
  BY <1>16, <1>0, <1>2, <1>4, <1>6, ReturnType, SwitchType, Zenon DEF Lookup, ClientTyped
<1>17. CASE Mark(c)
  BY <1>17, <1>1, <1>2, <1>6, LedgerType, ReturnType, ZenonT(60) DEF Mark, ClientTyped
<1>18. CASE UnwrittenOutcome(c)
  BY <1>18, <1>1, <1>2, <1>3, <1>5, <1>6, GotoType, ReturnType, LocalTypes, ZenonT(60)
     DEF UnwrittenOutcome, ClientTyped, Label
<1>19. CASE AcknowledgeWalk(c)
  BY <1>19, <1>1, <1>2, <1>3, <1>4, <1>6, GotoType, ReturnType, LocalTypes, ZenonT(60)
     DEF AcknowledgeWalk, ClientTyped, Label
<1>20. CASE AcknowledgeRemove(c)
  BY <1>20, <1>1, <1>2, <1>6, LedgerType, ReturnType, Zenon DEF AcknowledgeRemove, ClientTyped
<1>21. CASE FindReceipt(c)
  <2>1. ASSUME NEW m \in Newest(op[c].id),
               Goto(c, "adopt", [op[c] EXCEPT !.turn = m.turn, !.steered = m.joined])
        PROVE  ClientTyped'
    <3> DEFINE o == [op[c] EXCEPT !.turn = m.turn, !.steered = m.joined]
    <3>1. o \in Operation /\ o.id \in Ids /\ o.text \in Texts
      BY <1>1, <1>4, Zenon DEF Operation
    <3> HIDE DEF o
    <3>2. Goto(c, "adopt", o)
      BY <2>1 DEF o
    <3> QED
      BY <3>1, <3>2, GotoType, Zenon DEF ClientTyped, Label
  <2> QED
    BY <1>21, <1>2, <1>6, <2>1, ReturnType, Zenon DEF FindReceipt, ClientTyped
<1>22. CASE Adopt(c)
  BY <1>22, <1>1, <1>2, <1>6, LedgerType, ReturnType, Zenon DEF Adopt, ClientTyped
<1> QED
  BY <1>8, <1>9, <1>10, <1>11, <1>12, <1>13, <1>14, <1>15, <1>16, <1>17, <1>18,
     <1>19, <1>20, <1>21, <1>22 DEF Run, Reconcile, Recheck

(* The type invariant of the delivery of messages, with the arguments of   *)
(* every running operation, is inductive.                                  *)
LEMMA TypeStep == TypeInv /\ [Next]_vars => TypeInv'
<1> SUFFICES ASSUME TypeInv, [Next]_vars PROVE TypeInv'
  OBVIOUS
<1>1. ASSUME NEW c \in Clients, Crash(c) PROVE TypeInv'
  <2>1. NoOutcome \in Outcome
    BY LedgerAssumption DEF NoOutcome, Outcome
  <2> QED
    BY <1>1, <2>1, OperationTypes, Zenon DEF Crash, TypeInv, TypeOK, Named, Unnamed, Holds, Label,
       LedgerTypeOK, ServerTypeOK, ledgerVars, serverVars
<1>2. CASE ClearRetired
  <2>1. LedgerTypeOK'
    BY <1>2, AttemptTypes DEF ClearRetired, ClearThread, TypeInv, TypeOK, LedgerTypeOK
  <2> QED
    BY <1>2, <2>1 DEF ClearRetired, TypeInv, TypeOK, Named, Unnamed, Holds, ServerTypeOK,
       serverVars, clientVars
<1>3. CASE Native
  BY <1>3, ServerType DEF Native, TypeInv, TypeOK, Named, Unnamed, Holds, LedgerTypeOK,
     ledgerVars, clientVars
<1>4. CASE UNCHANGED vars
  BY <1>4, Zenon DEF TypeInv, TypeOK, Named, Unnamed, Holds, LedgerTypeOK, ServerTypeOK, vars,
     ledgerVars, serverVars, clientVars
<1> QED
  BY <1>1, <1>2, <1>3, <1>4, CallType, RunType DEF Next

(* Type correctness, for every instance: every record, request, message    *)
(* and local of Send, recovery, acknowledgement and cleanup keeps its type *)
(* (codex/client.go, codex/send_delivery.go).                              *)
THEOREM TypeCorrect == Spec => []TypeOK
<1>1. Init => TypeInv
  <2> SUFFICES ASSUME Init PROVE TypeInv
    OBVIOUS
  <2>1. LedgerTypeOK /\ ServerTypeOK
    BY LedgerAssumption, AttemptTypes
       DEF Init, LedgerInit, ServerInit, LedgerTypeOK, ServerTypeOK
  <2>2. NoOutcome \in Outcome
    BY LedgerAssumption DEF NoOutcome, Outcome
  <2> QED
    BY <2>1, <2>2, OperationTypes DEF Init, TypeInv, TypeOK, Named, Unnamed, Holds, Label
<1>2. TypeInv => TypeOK
  BY DEF TypeInv
<1> QED
  BY <1>1, <1>2, TypeStep, PTL DEF Spec

(***************************************************************************)
(* The steps, seen from the claims.                                        *)
(***************************************************************************)
Holding == {"admitted", "await", "restore", "lookup"}

(* No client takes a claim or moves on with the one it holds.              *)
NoClaimMoves ==
  \A d \in Clients : pc'[d] \in Holding => pc'[d] = pc[d] /\ op'[d] = op[d]

(* A ledger transaction other than a claim or its restoration.             *)
Transaction ==
  \/ \E i \in Ids, t \in Texts, a \in Actions \cup {None}, s \in BOOLEAN : RecordSend(i, t, a, s)
  \/ \E i \in Ids, t \in Texts, a \in Actions \cup {None}, s \in BOOLEAN, turn \in 0..MaxTurns :
       AdoptReceipt(i, t, a, s, turn)
  \/ \E i \in Ids, s \in BOOLEAN, turn \in 0..MaxTurns : AcceptSend(i, s, turn)
  \/ \E i \in Ids : RemoveSend(i)
  \/ ClearThread
  \/ UNCHANGED ledgerVars

(* A quiet step is one ledger transaction at most; nothing is written to   *)
(* the wire, accepted or answered, and no claim moves.                     *)
QuietStep ==
  /\ NoClaimMoves /\ Transaction
  /\ wire' \subseteq wire /\ UNCHANGED <<delivered, replies>>

(* Every way of moving on to a label where no claim is held lets go of it. *)
LEMMA Letting ==
  ASSUME TypeInv, NEW c \in Clients,
         \/ \E kind, turn : Return(c, kind, turn)
         \/ \E turn, s : ToMark(c, turn, s)
         \/ \E b : Unwritten(c, b)
         \/ \E label, o : label \notin Holding /\ Goto(c, label, o)
  PROVE  NoClaimMoves
BY ZenonT(60) DEF TypeInv, TypeOK, Return, ToMark, Unwritten, Goto, NoClaimMoves, Holding

(* Apart from admission, writing, the wait for the reply and the           *)
(* restoration, every step of an operation is quiet.                       *)
LEMMA QuietRun ==
  ASSUME TypeInv, NEW c \in Clients, Run(c),
         ~Admit(c), ~Write(c), ~ReadReply(c), ~Restore(c)
  PROVE  QuietStep
<1>0. pc[c] \notin Unnamed
  BY Zenon DEF Unnamed, Run, CheckQueue, Reconcile, Recheck, ReconcileSubmitting, Resume,
     RecordAttempt, Admit, Write, ReadReply, Restore, Lookup, Mark,
     UnwrittenOutcome, AcknowledgeWalk, AcknowledgeRemove, FindReceipt, Adopt
<1>1. /\ op[c].id \in Ids /\ op[c].text \in Texts /\ op[c].steered \in BOOLEAN
      /\ op[c].turn \in 0..MaxTurns /\ op[c].action \in Actions \cup {None}
  BY <1>0, Zenon DEF TypeInv, TypeOK, Named, Unnamed, Operation
<1>2. CASE CheckQueue(c)
  BY <1>2, Letting, Zenon DEF CheckQueue, QuietStep, Transaction, Holding, serverVars
<1>3. ASSUME NEW label, NEW onError, ReconcileSubmitting(c, label, onError)
      PROVE  QuietStep
  BY <1>3, Letting, Zenon DEF ReconcileSubmitting, QuietStep, Transaction, serverVars
<1>4. CASE Resume(c)
  BY <1>4, Letting, ZenonT(60) DEF Resume, QuietStep, Transaction, Holding, serverVars
<1>5. CASE RecordAttempt(c)
  BY <1>5, <1>1, Letting, Zenon DEF RecordAttempt, QuietStep, Transaction, Holding, serverVars
<1>6. CASE Lookup(c)
  BY <1>6, Letting, ZenonT(60) DEF Lookup, QuietStep, Transaction, serverVars
<1>7. CASE Mark(c)
  BY <1>7, <1>1, Letting, Zenon DEF Mark, QuietStep, Transaction, serverVars
<1>8. CASE UnwrittenOutcome(c)
  BY <1>8, Letting DEF UnwrittenOutcome, QuietStep, Transaction, Holding, serverVars
<1>9. CASE AcknowledgeWalk(c)
  BY <1>9, Letting, ZenonT(60) DEF AcknowledgeWalk, QuietStep, Transaction, Holding, serverVars
<1>10. CASE AcknowledgeRemove(c)
  BY <1>10, <1>1, Letting, Zenon DEF AcknowledgeRemove, QuietStep, Transaction, serverVars
<1>11. CASE FindReceipt(c)
  BY <1>11, Letting, ZenonT(60) DEF FindReceipt, QuietStep, Transaction, Holding, serverVars
<1>12. CASE Adopt(c)
  BY <1>12, <1>1, Letting, Zenon DEF Adopt, QuietStep, Transaction, serverVars
<1> QED
  BY <1>2, <1>3, <1>4, <1>5, <1>6, <1>7, <1>8, <1>9, <1>10, <1>11, <1>12
     DEF Run, Reconcile, Recheck

(* A call that begins, prepares or discards is quiet.                      *)
LEMMA QuietCall ==
  ASSUME TypeInv, NEW c \in Clients, Call(c)
  PROVE  QuietStep
<1>1. PICK i \in Ids, t \in Texts :
        \/ BeginAcknowledge(c, i, t)
        \/ \E a \in Actions :
             \/ BeginSend(c, i, t, a)
             \/ BeginReconcile(c, i, t, a)
             \/ BeginAttempted(c, i, t, a)
             \/ Discard(c, i, t, a)
             \/ \E s \in BOOLEAN : Prepare(c, i, t, a, s)
  BY Zenon DEF Call
<1> USE DEF QuietStep, NoClaimMoves, Transaction, Holding, serverVars
<1>2. CASE BeginAcknowledge(c, i, t)
  BY <1>2 DEF BeginAcknowledge, TypeInv, TypeOK
<1>3. ASSUME NEW a \in Actions, NEW kind, Begin(c, kind, i, t, a)
      PROVE  QuietStep
  BY <1>3 DEF Begin, TypeInv, TypeOK
<1>4. ASSUME NEW a \in Actions, BeginAttempted(c, i, t, a)
      PROVE  QuietStep
  BY <1>4, SMTT(60) DEF BeginAttempted, TypeInv, TypeOK
<1>5. ASSUME NEW a \in Actions, Discard(c, i, t, a)
      PROVE  QuietStep
  BY <1>5, Zenon DEF Discard, clientVars
<1>6. ASSUME NEW a \in Actions, NEW s \in BOOLEAN, Prepare(c, i, t, a, s)
      PROVE  QuietStep
  BY <1>6, Zenon DEF Prepare, clientVars
<1> QED
  BY <1>1, <1>2, <1>3, <1>4, <1>5, <1>6, Zenon DEF BeginSend, BeginReconcile

(* The step of a claim: it is drawn, written, answered, given back or      *)
(* served.                                                                 *)
ClaimStep ==
  \/ \E c \in Clients : Admit(c) \/ Write(c) \/ ReadReply(c) \/ Restore(c)
  \/ \E f \in wire : (ServeInput(f) \/ RefuseInput(f)) /\ UNCHANGED <<ledgerVars, clientVars>>

(* Every step of the system is quiet or the step of a claim.               *)
LEMMA QuietOrClaim ==
  ASSUME TypeInv, [Next]_vars
  PROVE  QuietStep \/ ClaimStep
<1>1. ASSUME NEW c \in Clients, Crash(c) PROVE QuietStep
  BY <1>1, SMTT(60) DEF Crash, TypeInv, TypeOK, QuietStep, NoClaimMoves, Transaction, Holding, serverVars
<1>2. CASE ClearRetired
  BY <1>2, Zenon DEF ClearRetired, QuietStep, NoClaimMoves, Transaction, serverVars, clientVars
<1>3. CASE Native
  BY <1>3, Zenon DEF Native, Serve, ClaimStep, QuietStep, NoClaimMoves, Transaction, clientVars,
     LoseInput, ShowInput, FinishTurn
<1>4. CASE UNCHANGED vars
  BY <1>4, Zenon DEF vars, QuietStep, NoClaimMoves, Transaction, serverVars, clientVars
<1> QED
  BY <1>1, <1>2, <1>3, <1>4, QuietCall, QuietRun DEF Next, ClaimStep

(***************************************************************************)
(* First layer: a claim belongs to one submission.                         *)
(***************************************************************************)

(* A transaction that claims nothing writes no claim that was not drawn.   *)
LEMMA TransactionClaims ==
  ASSUME LedgerTypeOK, Transaction,
         \A i \in Ids : send[i].claim <= claims /\ retired[i] <= claims
  PROVE  claims' = claims /\ \A i \in Ids : send'[i].claim <= claims /\ retired'[i] <= claims
<1>0. claims \in Nat /\ 0 <= claims
  BY LedgerAssumption DEF LedgerTypeOK
<1>1. ASSUME NEW i \in Ids, NEW t \in Texts, NEW a \in Actions \cup {None},
             NEW s \in BOOLEAN, RecordSend(i, t, a, s)
      PROVE  claims' = claims /\ \A j \in Ids : send'[j].claim <= claims /\ retired'[j] <= claims
  BY <1>0, <1>1, Zenon DEF RecordSend, PreparedAttempt, LedgerTypeOK
<1>2. ASSUME NEW i \in Ids, NEW t \in Texts, NEW a \in Actions \cup {None},
             NEW s \in BOOLEAN, NEW turn \in 0..MaxTurns, AdoptReceipt(i, t, a, s, turn)
      PROVE  claims' = claims /\ \A j \in Ids : send'[j].claim <= claims /\ retired'[j] <= claims
  BY <1>0, <1>2, Zenon DEF AdoptReceipt, AcceptedAttempt, LedgerTypeOK
<1>3. ASSUME NEW i \in Ids, NEW s \in BOOLEAN, NEW turn \in 0..MaxTurns, AcceptSend(i, s, turn)
      PROVE  claims' = claims /\ \A j \in Ids : send'[j].claim <= claims /\ retired'[j] <= claims
  BY <1>0, <1>3 DEF AcceptSend, LedgerTypeOK, Attempt
<1>4. ASSUME NEW i \in Ids, RemoveSend(i)
      PROVE  claims' = claims /\ \A j \in Ids : send'[j].claim <= claims /\ retired'[j] <= claims
  BY <1>0, <1>4, SMTT(60) DEF RemoveSend, Absent, LedgerTypeOK
<1>5. CASE ClearThread
  BY <1>0, <1>5 DEF ClearThread, Absent
<1>6. CASE UNCHANGED ledgerVars
  BY <1>6, SMTT(60) DEF ledgerVars
<1> QED
  BY <1>1, <1>2, <1>3, <1>4, <1>5, <1>6, Zenon DEF Transaction

(* A quiet step keeps the claims exclusive.                                *)
LEMMA QuietClaims ==
  ASSUME TypeInv, ExclusiveClaims, QuietStep
  PROVE  ExclusiveClaims'
<1>1. claims' = claims /\ \A i \in Ids : send'[i].claim <= claims /\ retired'[i] <= claims
  BY TransactionClaims, Zenon DEF TypeInv, TypeOK, ExclusiveClaims, QuietStep
<1>2. /\ wire' \subseteq wire /\ delivered' = delivered /\ replies' = replies
      /\ \A d \in Clients : pc'[d] \in Holding => pc'[d] = pc[d] /\ op'[d] = op[d]
  BY DEF QuietStep, NoClaimMoves
<1> QED
  BY <1>1, <1>2, SMTT(60) DEF ExclusiveClaims, Holds, Holding

(* Admission draws a fresh claim or none.                                  *)
LEMMA AdmitClaims ==
  ASSUME TypeInv, ExclusiveClaims, NEW c \in Clients, Admit(c)
  PROVE  ExclusiveClaims'
<1>0. op[c].id \in Ids /\ claims \in Nat /\ op[c] \in Operation
  BY LedgerAssumption DEF TypeInv, TypeOK, LedgerTypeOK, Named, Unnamed, Admit
<1>a. \A d \in Clients \ {c} : pc'[d] = pc[d] /\ op'[d] = op[d]
  BY DEF TypeInv, TypeOK, Admit, Goto, Unwritten
<1>b. wire' = wire /\ delivered' = delivered /\ replies' = replies
  BY DEF Admit, serverVars
<1>c. /\ wire \subseteq Frame /\ delivered \subseteq UserMessage /\ replies \subseteq Reply
  BY SMTT(60) DEF TypeInv, TypeOK, ServerTypeOK
<1>1. CASE ClaimSend(op[c].id, op[c].text, op[c].action, op[c].steered)
  <2>1. /\ claims' = claims + 1 /\ retired' = retired
        /\ \A i \in Ids : send'[i].claim \in {send[i].claim, claims + 1}
    BY <1>0, <1>1 DEF ClaimSend, TypeInv, TypeOK, LedgerTypeOK, Attempt
  <2>2. pc'[c] \in Holding => pc'[c] = "admitted" /\ op'[c].claim = claims + 1
    BY <1>0, <2>1 DEF Admit, Goto, Unwritten, Holding, TypeInv, TypeOK, Operation
  <2>3. \A i \in Ids : send'[i].claim <= claims' /\ retired'[i] <= claims'
    BY <1>0, <2>1, SMTT(60) DEF ExclusiveClaims, TypeInv, TypeOK, LedgerTypeOK, Attempt
  <2>4. \A x \in wire \cup delivered \cup replies : x.claim <= claims /\ x.claim \in Nat
    BY <1>c, SMTT(60) DEF ExclusiveClaims, Frame, UserMessage, Reply
  <2>5. \A d \in Clients \ {c} : Holds(d) => op[d].claim \in 1..claims
    BY Zenon DEF ExclusiveClaims
  <2> QED
    BY <1>0, <1>a, <1>b, <2>1, <2>2, <2>3, <2>4, <2>5, SMTT(60) DEF ExclusiveClaims, Holds, Holding
<1>2. CASE Unwritten(c, FALSE) /\ UNCHANGED ledgerVars
  <2>1. pc'[c] = "unwritten"
    BY <1>2, SMTT(60) DEF Unwritten, Goto, TypeInv, TypeOK
  <2> QED
    BY <1>2, <1>a, <1>b, <2>1 DEF ExclusiveClaims, Holds, ledgerVars
<1> QED
  BY <1>1, <1>2, Zenon DEF Admit

(* Writing puts the claim of its holder on the wire, once.                 *)
LEMMA WriteClaims ==
  ASSUME TypeInv, ExclusiveClaims, NEW c \in Clients, Write(c)
  PROVE  ExclusiveClaims'
<1>1. /\ \A d \in Clients \ {c} : pc'[d] = pc[d] /\ op'[d] = op[d]
      /\ pc'[c] \in {"restore", "await", "lookup"} /\ op'[c] = op[c]
      /\ pc[c] = "admitted" /\ Holds(c)
  BY SMTT(60) DEF TypeInv, TypeOK, Write, Goto, Holds
<1>2. /\ wire' \subseteq wire \cup {FrameOf(op[c])}
      /\ pc'[c] = "restore" => wire' = wire
      /\ FrameOf(op[c]).claim = op[c].claim
  BY Zenon DEF Write, Goto, FrameOf, TypeInv, TypeOK
<1>3. UNCHANGED <<send, retired, claims, delivered, replies>>
  BY Zenon DEF Write, ledgerVars
<1>4. \A x \in wire \cup delivered \cup replies : x.claim # op[c].claim
  BY <1>1, Zenon DEF ExclusiveClaims
<1>5. op[c].claim \in 1..claims
  BY <1>1, Zenon DEF ExclusiveClaims
<1>6. \A d \in Clients \ {c} : Holds(d) => op[d].claim # op[c].claim
  BY <1>1, Zenon DEF ExclusiveClaims
<1>7. claims \in Nat
  BY LedgerAssumption, SMTT(60) DEF TypeInv, TypeOK, LedgerTypeOK
<1> HIDE DEF FrameOf
<1> QED
  BY <1>1, <1>2, <1>3, <1>4, <1>5, <1>6, <1>7, SMTT(60) DEF ExclusiveClaims, Holds

(* The wait for a reply ends with an acceptance, with a refusal that shows *)
(* the claim was not used, or with neither.                                *)
LEMMA ReadReplyClaims ==
  ASSUME TypeInv, ExclusiveClaims, NEW c \in Clients, ReadReply(c)
  PROVE  ExclusiveClaims'
<1>1. /\ \A d \in Clients \ {c} : pc'[d] = pc[d] /\ op'[d] = op[d]
      /\ pc[c] = "await" /\ Holds(c)
      /\ pc'[c] \in {"restore", "mark", "lookup"}
      /\ pc'[c] # "mark" => op'[c] = op[c]
  BY ZenonT(60) DEF TypeInv, TypeOK, ReadReply, Goto, ToMark, Holds
<1>2. UNCHANGED <<send, retired, claims, delivered, wire>> /\ replies' \subseteq replies
  BY Zenon DEF ReadReply, ledgerVars
<1>3. pc'[c] = "restore" => \E r \in replies : r.refused /\ r.claim = op[c].claim
  BY ZenonT(60) DEF TypeInv, TypeOK, ReadReply, Goto, ToMark
<1>4. pc'[c] = "restore" => \A x \in wire \cup delivered : x.claim # op[c].claim
  BY <1>3, Zenon DEF ExclusiveClaims
<1> QED
  BY <1>1, <1>2, <1>4, SMTT(30) DEF ExclusiveClaims, Holds

(* Giving a claim back, or failing to, ends the hold on it.                *)
LEMMA RestoreClaims ==
  ASSUME TypeInv, ExclusiveClaims, NEW c \in Clients, Restore(c)
  PROVE  ExclusiveClaims'
<1>1. /\ \A d \in Clients \ {c} : pc'[d] = pc[d] /\ op'[d] = op[d]
      /\ pc'[c] = "unwritten"
  BY DEF TypeInv, TypeOK, Restore, Unwritten, Goto
<1>2. UNCHANGED <<retired, claims, delivered, wire, replies>>
  BY DEF Restore, RestoreSend, ledgerVars, serverVars
<1>3. \A i \in Ids : send'[i].claim \in {0, send[i].claim}
  BY ZenonT(120) DEF Restore, RestoreSend, ledgerVars, TypeInv, TypeOK, LedgerTypeOK, Attempt
<1>4. \A i \in Ids : send'[i].claim <= claims
  BY <1>3, LedgerAssumption DEF ExclusiveClaims, TypeInv, TypeOK, LedgerTypeOK
<1> QED
  BY <1>1, <1>2, <1>4 DEF ExclusiveClaims, Holds

(* The server turns a request into one message or one refusal.             *)
LEMMA ServeClaims ==
  ASSUME TypeInv, ExclusiveClaims, NEW f \in wire,
         ServeInput(f) \/ RefuseInput(f), UNCHANGED <<ledgerVars, clientVars>>
  PROVE  ExclusiveClaims'
<1>1. UNCHANGED <<send, retired, claims, pc, op>> /\ wire' = wire \ {f}
  BY Zenon DEF ledgerVars, clientVars, ServeInput, RefuseInput
<1>2. /\ f.claim <= claims
      /\ \A g \in wire' : g.claim # f.claim
      /\ \A m \in delivered : m.claim # f.claim
      /\ \A r \in replies : r.refused => r.claim # f.claim
      /\ \A c \in Clients : pc[c] \in {"admitted", "restore"} => f.claim # op[c].claim
  BY <1>1, Zenon DEF ExclusiveClaims
<1>3. CASE ServeInput(f)
  <2> DEFINE n == [id |-> f.id, text |-> f.text, turn |-> TurnOfInput,
                   joined |-> active # 0, claim |-> f.claim]
             r == [claim |-> f.claim, refused |-> FALSE, turn |-> TurnOfInput]
  <2>1. delivered' = delivered \cup {n} /\ replies' = replies \cup {r}
    BY <1>3, Zenon DEF ServeInput
  <2>2. n.claim = f.claim /\ r.claim = f.claim /\ r.refused = FALSE
    BY Zenon
  <2> HIDE DEF n, r
  <2>3. /\ \A x \in (wire \cup delivered \cup replies)' : x.claim <= claims'
        /\ \A g \in wire', m \in delivered' : g.claim # m.claim
        /\ \A m, o \in delivered' : m.claim = o.claim => m = o
    BY <1>1, <1>2, <2>1, <2>2, ZenonT(60) DEF ExclusiveClaims
  <2>4. /\ \A c \in Clients, x \in (wire \cup delivered)' :
             pc'[c] \in {"admitted", "restore"} => x.claim # op'[c].claim
        /\ \A q \in replies', x \in (wire \cup delivered)' : q.refused => x.claim # q.claim
        /\ \A c \in Clients, q \in replies' : pc'[c] = "admitted" => q.claim # op'[c].claim
    BY <1>1, <1>2, <2>1, <2>2, ZenonT(60) DEF ExclusiveClaims
  <2> QED
    BY <1>1, <2>3, <2>4, ZenonT(60) DEF ExclusiveClaims, Holds
<1>4. CASE RefuseInput(f)
  <2> DEFINE r == [claim |-> f.claim, refused |-> TRUE, turn |-> 0]
  <2>1. delivered' = delivered /\ replies' = replies \cup {r}
    BY <1>4 DEF RefuseInput
  <2>2. r.claim = f.claim
    OBVIOUS
  <2> HIDE DEF r
  <2> QED
    BY <1>1, <1>2, <2>1, <2>2, ZenonT(60) DEF ExclusiveClaims, Holds
<1> QED
  BY <1>3, <1>4, SMTT(60)

(* Claims stay exclusive in every step, with either ledger backend.        *)
LEMMA ExclusiveStep == TypeInv /\ ExclusiveClaims /\ [Next]_vars => ExclusiveClaims'
BY QuietOrClaim, QuietClaims, AdmitClaims, WriteClaims, ReadReplyClaims,
   RestoreClaims, ServeClaims DEF ClaimStep

(***************************************************************************)
(* Second layer: the record of an identity answers for its submissions.    *)
(***************************************************************************)

(* A transaction retires an identity with the newest claim, or not at all. *)
LEMMA TransactionRetires ==
  ASSUME LedgerTypeOK, Transaction, \A i \in Ids : retired[i] <= claims, NEW j \in Ids
  PROVE  /\ retired'[j] \in {retired[j], claims}
         /\ retired'[j] = 0 => retired[j] = 0
<1>0. retired[j] \in Nat /\ retired[j] <= claims /\ claims \in Nat
  BY LedgerAssumption DEF LedgerTypeOK
<1>1. retired'[j] \in {retired[j], claims}
  BY <1>0, ZenonT(60) DEF Transaction, RecordSend, AdoptReceipt, AcceptSend, RemoveSend,
     ClearThread, ledgerVars, LedgerTypeOK
<1> QED
  BY <1>0, <1>1

(* A submission is not retired unless its record is removed, and a record  *)
(* that stays keeps answering for it.                                      *)
LEMMA TransactionOwner ==
  ASSUME LedgerTypeOK, Transaction, \A i \in Ids : retired[i] <= claims,
         NEW j \in Ids, NEW u, NEW n \in Nat, n <= claims, n > retired'[j],
         n > retired[j] => /\ send[j].text = u
                           /\ \/ send[j].state = "accepted"
                              \/ send[j].state = "submitting" /\ send[j].claim = n
  PROVE  /\ n > retired[j]
         /\ send'[j].text = u
         /\ \/ send'[j].state = "accepted"
            \/ send'[j].state = "submitting" /\ send'[j].claim = n
<1>0. retired[j] \in Nat /\ retired[j] <= claims /\ claims \in Nat
  BY LedgerAssumption DEF LedgerTypeOK
<1>1. n > retired[j]
  <2>1. retired'[j] \in {retired[j], claims}
    BY TransactionRetires
  <2> QED
    BY <1>0, <2>1
<1>2. /\ send[j].text = u
      /\ \/ send[j].state = "accepted"
         \/ send[j].state = "submitting" /\ send[j].claim = n
  BY <1>1, Zenon
<1>3. ASSUME NEW i \in Ids, NEW t \in Texts, NEW a \in Actions \cup {None},
             NEW s \in BOOLEAN, RecordSend(i, t, a, s)
      PROVE  send'[j] = send[j]
  BY <1>2, <1>3, Zenon DEF RecordSend, Found, LedgerTypeOK
<1>4. ASSUME NEW i \in Ids, NEW t \in Texts, NEW a \in Actions \cup {None},
             NEW s \in BOOLEAN, NEW turn \in 0..MaxTurns, AdoptReceipt(i, t, a, s, turn)
      PROVE  send'[j] = send[j] \/ (send'[j].state = "accepted" /\ send'[j].text = u)
  BY <1>2, <1>4, Zenon DEF AdoptReceipt, CanAdopt, CanRecord, SameRequest, Found,
     AcceptedAttempt, LedgerTypeOK
<1>5. ASSUME NEW i \in Ids, NEW s \in BOOLEAN, NEW turn \in 0..MaxTurns, AcceptSend(i, s, turn)
      PROVE  send'[j] = send[j] \/ (send'[j].state = "accepted" /\ send'[j].text = u)
  BY <1>2, <1>5, SMTT(60) DEF AcceptSend, LedgerTypeOK, Attempt
<1>6. ASSUME NEW i \in Ids, RemoveSend(i)
      PROVE  send'[j] = send[j]
  BY <1>0, <1>6, SMTT(60) DEF RemoveSend, LedgerTypeOK
<1>7. ASSUME ClearThread
      PROVE  send'[j] = send[j]
  BY <1>0, <1>7, SMTT(60) DEF ClearThread
<1>8. ASSUME UNCHANGED ledgerVars
      PROVE  send'[j] = send[j]
  BY <1>8 DEF ledgerVars
<1>9. \/ send'[j] = send[j]
      \/ send'[j].state = "accepted" /\ send'[j].text = u
  BY <1>3, <1>4, <1>5, <1>6, <1>7, <1>8, ZenonT(60) DEF Transaction
<1> QED
  BY <1>1, <1>2, <1>9, Zenon

(* Requests, messages and held operations name an identity and a claim.    *)
LEMMA SubmissionTypes ==
  ASSUME TypeInv, ExclusiveClaims
  PROVE  /\ \A x \in wire \cup delivered :
              x.id \in Ids /\ x.claim \in Nat /\ x.claim <= claims
         /\ \A c \in Clients : Holds(c) =>
              op[c].id \in Ids /\ op[c].claim \in Nat /\ op[c].claim <= claims
         /\ \A i \in Ids : retired[i] \in Nat /\ retired[i] <= claims
         /\ claims \in Nat
<1>1. \A x \in wire \cup delivered : x.id \in Ids /\ x.claim \in Nat
  BY DEF TypeInv, TypeOK, ServerTypeOK, Frame, UserMessage
<1>2. \A c \in Clients : Holds(c) => op[c].id \in Ids /\ op[c].claim \in Nat
  BY SMTT(60) DEF TypeInv, TypeOK, Named, Unnamed, Holds, Operation
<1>3. \A c \in Clients : Holds(c) => op[c].claim <= claims
  BY <1>2, LedgerAssumption DEF ExclusiveClaims, TypeInv, TypeOK, LedgerTypeOK
<1> QED
  BY <1>1, <1>2, <1>3, LedgerAssumption, SMTT(60) DEF ExclusiveClaims, TypeInv, TypeOK, LedgerTypeOK

(***************************************************************************)
(* Ownership is a property of one set: the submissions that are on the     *)
(* wire, accepted, or held by a client.                                    *)
(***************************************************************************)
Submission(x) == [id |-> x.id, text |-> x.text, claim |-> x.claim]

Submissions ==
  {Submission(x) : x \in wire \cup delivered}
  \cup {Submission(op[c]) : c \in {d \in Clients : Holds(d)}}

Owned == \A x \in Submissions : Live(x) => Owns(x)

Agreed == \A x, y \in Submissions : Agree(x, y)

(* A submission agrees with what it was made from.                         *)
LEMMA Projection ==
  \A x : /\ Submission(x).id = x.id
         /\ Submission(x).text = x.text
         /\ Submission(x).claim = x.claim
BY DEF Submission

(* Ownership covers every submission.                                      *)
LEMMA SubmissionsOwned ==
  ASSUME Ownership
  PROVE  Owned /\ Agreed
<1>1. \A x \in Submissions :
        \/ \E m \in wire \cup delivered : x = Submission(m)
        \/ \E c \in Clients : Holds(c) /\ x = Submission(op[c])
  BY DEF Submissions
<1>2. ASSUME NEW x \in Submissions, Live(x) PROVE Owns(x)
  <2>1. CASE \E m \in wire \cup delivered : x = Submission(m)
    <3> PICK m \in wire \cup delivered : x = Submission(m)
      BY <2>1
    <3>1. x.id = m.id /\ x.text = m.text /\ x.claim = m.claim
      BY Projection, SMTT(60)
    <3> QED
      BY <1>2, <3>1, ZenonT(60) DEF Ownership, Live, Kept, Owns
  <2>2. CASE \E c \in Clients : Holds(c) /\ x = Submission(op[c])
    <3> PICK c \in Clients : Holds(c) /\ x = Submission(op[c])
      BY <2>2, SMTT(60)
    <3>1. x.id = op[c].id /\ x.text = op[c].text /\ x.claim = op[c].claim
      BY Projection
    <3>2. Live(op[c]) => Owns(op[c])
      BY DEF Ownership
    <3> QED
      BY <1>2, <3>1, <3>2, Zenon DEF Live, Kept, Owns
  <2> QED
    BY <1>1, <2>1, <2>2, SMTT(60)
<1>3. ASSUME NEW x \in Submissions, NEW y \in Submissions PROVE Agree(x, y)
  <2>1. ASSUME NEW m \in wire \cup delivered, NEW n \in wire \cup delivered,
               x = Submission(m), y = Submission(n)
        PROVE  Agree(x, y)
    <3>1. Agree(m, n)
      BY Zenon DEF Ownership
    <3> QED
      BY <2>1, <3>1, Projection, Zenon DEF Agree, Live, Kept
  <2>2. ASSUME NEW m \in wire \cup delivered, NEW c \in Clients, Holds(c),
               \/ x = Submission(m) /\ y = Submission(op[c])
               \/ y = Submission(m) /\ x = Submission(op[c])
        PROVE  Agree(x, y)
    <3>1. Agree(op[c], m)
      BY <2>2, SMTT(60) DEF Ownership
    <3> QED
      BY <2>2, <3>1, Projection, ZenonT(60) DEF Agree, Live, Kept
  <2>3. ASSUME NEW c \in Clients, NEW d \in Clients, Holds(c), Holds(d),
               x = Submission(op[c]), y = Submission(op[d])
        PROVE  Agree(x, y)
    <3>1. Agree(op[c], op[d])
      BY <2>3, Zenon DEF Ownership
    <3> QED
      BY <2>3, <3>1, Projection, Zenon DEF Agree, Live, Kept
  <2> QED
    BY <1>1, <2>1, <2>2, <2>3, ZenonT(60)
<1> QED
  BY <1>2, <1>3 DEF Owned, Agreed

(* What holds of every submission after a step gives ownership after it.   *)
LEMMA OwnershipOfSubmissions ==
  ASSUME Owned', Agreed'
  PROVE  Ownership'
<1>1. \A m \in wire' \cup delivered' : Submission(m) \in Submissions'
  BY Zenon DEF Submissions, Submission
<1>2. \A c \in Clients : Holds(c)' => Submission(op'[c]) \in Submissions'
  BY Zenon DEF Submissions, Submission
<1>3. \A x : /\ (Live(x)' <=> Live(Submission(x))')
             /\ (Owns(x)' <=> Owns(Submission(x))')
  BY Projection, Zenon DEF Live, Kept, Owns
<1>4. \A x, y : Agree(Submission(x), Submission(y))' => Agree(x, y)'
  BY Projection, Zenon DEF Agree, Live, Kept
<1>5. (\A x \in wire \cup delivered : Live(x) => Owns(x))'
  BY <1>1, <1>3, ZenonT(60) DEF Owned
<1>6. (\A c \in Clients : Holds(c) /\ Live(op[c]) => Owns(op[c]))'
  BY <1>2, <1>3, Zenon DEF Owned
<1>7. (\A x, y \in wire \cup delivered : Agree(x, y))'
  BY <1>1, <1>4, ZenonT(60) DEF Agreed
<1>8. (\A c \in Clients, x \in wire \cup delivered : Holds(c) => Agree(op[c], x))'
  BY <1>1, <1>2, <1>4, Zenon DEF Agreed
<1>9. (\A c, d \in Clients : Holds(c) /\ Holds(d) => Agree(op[c], op[d]))'
  BY <1>2, <1>4, SMTT(60) DEF Agreed
<1> QED
  BY <1>5, <1>6, <1>7, <1>8, <1>9, Zenon DEF Ownership

(* Submissions have an identity and a claim that was drawn.                *)
LEMMA SubmissionsTyped ==
  ASSUME TypeInv, ExclusiveClaims
  PROVE  \A x \in Submissions : x.id \in Ids /\ x.claim \in Nat /\ x.claim <= claims
BY SubmissionTypes, Projection DEF Submissions

(* A step that adds no submission and leaves the ledger alone.             *)
LEMMA FewerSubmissions ==
  ASSUME Ownership, Submissions' \subseteq Submissions, UNCHANGED <<send, retired>>
  PROVE  Ownership'
<1>1. Owned' /\ Agreed'
  BY SubmissionsOwned, Zenon DEF Owned, Agreed, Live, Kept, Owns, Agree
<1> QED
  BY <1>1, OwnershipOfSubmissions, SMTT(60)

(* A quiet step submits nothing.                                           *)
LEMMA QuietSubmissions ==
  ASSUME QuietStep
  PROVE  Submissions' \subseteq Submissions
<1>1. wire' \cup delivered' \subseteq wire \cup delivered
  BY DEF QuietStep
<1>2. \A d \in Clients : Holds(d)' => Holds(d) /\ op'[d] = op[d]
  BY DEF QuietStep, NoClaimMoves, Holds, Holding
<1> QED
  BY <1>1, <1>2, Zenon DEF Submissions, Submission

(* A quiet step keeps the ownership of submissions.                        *)
LEMMA QuietOwnership ==
  ASSUME TypeInv, ExclusiveClaims, Ownership, QuietStep
  PROVE  Ownership'
<1>0. LedgerTypeOK /\ Transaction /\ \A i \in Ids : retired[i] <= claims
  BY Zenon DEF TypeInv, TypeOK, QuietStep, ExclusiveClaims
<1>1. Submissions' \subseteq Submissions
  BY QuietSubmissions, SMTT(60)
<1>2. ASSUME NEW x \in Submissions, Live(x)'
      PROVE  Live(x) /\ Owns(x)'
  <2>1. x.id \in Ids /\ x.claim \in Nat /\ x.claim <= claims
    BY SubmissionsTyped
  <2>2. x.claim > retired'[x.id] /\ Kept(x.id)
    BY <1>0, <1>2, <2>1, TransactionRetires, Zenon DEF Live, Kept
  <2>3. x.claim > retired[x.id] => /\ send[x.id].text = x.text
                                   /\ \/ send[x.id].state = "accepted"
                                      \/ send[x.id].state = "submitting" /\ send[x.id].claim = x.claim
    BY <2>2, SubmissionsOwned, Zenon DEF Owned, Live, Owns
  <2> QED
    BY <1>0, <2>1, <2>2, <2>3, TransactionOwner DEF Live, Owns
<1>3. Owned'
  BY <1>1, <1>2, Zenon DEF Owned
<1>4. Agreed'
  BY <1>1, <1>2, SubmissionsOwned DEF Agreed, Agree
<1> QED
  BY <1>3, <1>4, OwnershipOfSubmissions, SMTT(60)

(* Admission claims a prepared record and submits under a fresh claim, or  *)
(* submits nothing.                                                        *)
LEMMA AdmitSubmissions ==
  ASSUME TypeInv, NEW c \in Clients, Admit(c)
  PROVE  \/ \E new :
              /\ new.id \in Ids /\ new.claim = claims + 1 /\ claims' = claims + 1
              /\ send[new.id].state = "prepared" /\ ~IsQueued(new.id) /\ Owns(new)'
              /\ \A j \in Ids \ {new.id} : send'[j] = send[j]
              /\ UNCHANGED <<retired, queued>>
              /\ Submissions' \subseteq Submissions \cup {new}
         \/ Submissions' \subseteq Submissions /\ UNCHANGED ledgerVars
<1> DEFINE i == op[c].id
<1>0. i \in Ids /\ op[c] \in Operation
  BY DEF TypeInv, TypeOK, Named, Unnamed, Admit
<1>1. /\ \A d \in Clients \ {c} : pc'[d] = pc[d] /\ op'[d] = op[d]
      /\ wire' = wire /\ delivered' = delivered
  BY Zenon DEF TypeInv, TypeOK, Admit, Goto, Unwritten, serverVars
<1>2. CASE ClaimSend(op[c].id, op[c].text, op[c].action, op[c].steered)
  <2> DEFINE new == [id |-> i, text |-> op[c].text, claim |-> claims + 1]
  <2>1. /\ claims' = claims + 1 /\ UNCHANGED <<retired, queued>> /\ ~IsQueued(i)
        /\ send[i].state = "prepared" /\ send[i].text = op[c].text
        /\ send'[i].state = "submitting" /\ send'[i].claim = claims + 1
        /\ send'[i].text = op[c].text
        /\ \A j \in Ids \ {i} : send'[j] = send[j]
    BY <1>0, <1>2, ZenonT(60) DEF ClaimSend, CanClaim, SameRequest, TypeInv, TypeOK, LedgerTypeOK, Attempt
  <2>2. Holds(c)' => Submission(op'[c]) = new
    <3>1. Holds(c)' => op'[c].id = i /\ op'[c].text = op[c].text /\ op'[c].claim = claims + 1
      BY <1>0, <2>1 DEF Admit, Goto, Unwritten, Holds, TypeInv, TypeOK, Operation
    <3> QED
      BY <3>1, Zenon DEF Submission
  <2>3. Submissions' \subseteq Submissions \cup {new}
    BY <1>1, <2>2, Zenon DEF Submissions, Submission, Holds
  <2>4. new.id = i /\ new.text = op[c].text /\ new.claim = claims + 1
    BY Zenon
  <2>5. PICK x : x = new
    BY ZenonT(60)
  <2> HIDE DEF new, i
  <2>6. Owns(x)'
    BY <2>1, <2>4, <2>5, Zenon DEF Owns
  <2> QED
    BY <1>0, <2>1, <2>3, <2>4, <2>5, <2>6, Zenon
<1>3. CASE Unwritten(c, FALSE) /\ UNCHANGED ledgerVars
  <2>1. pc'[c] = "unwritten"
    BY <1>3 DEF Unwritten, Goto, TypeInv, TypeOK
  <2>2. Submissions' \subseteq Submissions
    BY <1>1, <2>1, Zenon DEF Submissions, Submission, Holds
  <2> QED
    BY <1>3, <2>2, Zenon
<1> QED
  BY <1>2, <1>3, ZenonT(30) DEF Admit

(* For a prepared record no submission can be live.                        *)
LEMMA AdmitOwnership ==
  ASSUME TypeInv, ExclusiveClaims, Ownership, NEW c \in Clients, Admit(c)
  PROVE  Ownership'
<1>1. ASSUME NEW new, new.id \in Ids, new.claim = claims + 1, send[new.id].state = "prepared",
             Owns(new)', \A j \in Ids \ {new.id} : send'[j] = send[j], retired' = retired,
             Submissions' \subseteq Submissions \cup {new}
      PROVE  Ownership'
  <2>1. \A x \in Submissions : x.id = new.id => ~Live(x)
    BY <1>1, SubmissionsOwned, Zenon DEF Owned, Owns
  <2>2. Owned'
    <3>1. ASSUME NEW x \in Submissions, Live(x)' PROVE Owns(x)'
      <4>1. x.id \in Ids /\ Live(x)
        BY <1>1, <3>1, SubmissionsTyped, Zenon DEF Live, Kept
      <4>2. send'[x.id] = send[x.id]
        BY <1>1, <2>1, <4>1, Zenon
      <4> QED
        BY <4>1, <4>2, SubmissionsOwned, Zenon DEF Owned, Owns
    <3> QED
      BY <1>1, <3>1, Zenon DEF Owned
  <2>3. Agreed'
    BY <1>1, <2>1, SubmissionsOwned, ZenonT(60) DEF Agreed, Agree, Live, Kept
  <2> QED
    BY <2>2, <2>3, OwnershipOfSubmissions, SMTT(60)
<1>2. CASE Submissions' \subseteq Submissions /\ UNCHANGED ledgerVars
  BY <1>2, FewerSubmissions, SMTT(60) DEF ledgerVars
<1> QED
  BY <1>1, <1>2, AdmitSubmissions, Zenon

(* Writing turns the holder's submission into a request.                   *)
LEMMA WriteSubmissions ==
  ASSUME TypeInv, NEW c \in Clients, Write(c)
  PROVE  Submissions' \subseteq Submissions /\ UNCHANGED ledgerVars
<1>1. \A d \in Clients : Holds(d)' => Holds(d) /\ op'[d] = op[d]
  BY Zenon DEF TypeInv, TypeOK, Write, Goto, Holds
<1>2. /\ wire' \subseteq wire \cup {FrameOf(op[c])} /\ Holds(c)
      /\ UNCHANGED <<ledgerVars, delivered>>
  BY ZenonT(60) DEF Write, Holds
<1>3. Submission(FrameOf(op[c])) = Submission(op[c])
  BY Zenon DEF Submission, FrameOf
<1> QED
  BY <1>1, <1>2, <1>3, ZenonT(60) DEF Submissions, Submission

(* The reply changes no record.                                            *)
LEMMA ReadReplySubmissions ==
  ASSUME TypeInv, NEW c \in Clients, ReadReply(c)
  PROVE  Submissions' \subseteq Submissions /\ UNCHANGED ledgerVars
<1>1. \A d \in Clients : Holds(d)' => Holds(d) /\ op'[d] = op[d]
  BY ZenonT(60) DEF TypeInv, TypeOK, ReadReply, Goto, ToMark, Holds
<1>2. UNCHANGED <<ledgerVars, delivered, wire>>
  BY ZenonT(60) DEF ReadReply
<1> QED
  BY <1>1, <1>2, Zenon DEF Submissions, Submission

(* A claim that is given back leaves with the client that held it: nothing *)
(* was submitted under it.                                                 *)
LEMMA RestoreSubmissions ==
  ASSUME TypeInv, ExclusiveClaims, NEW c \in Clients, Restore(c)
  PROVE  /\ op[c].id \in Ids /\ Holds(c)
         /\ Submissions' \subseteq Submissions /\ retired' = retired
         /\ \A x \in Submissions' : x.claim # op[c].claim
         /\ RestoreSend(op[c].id, op[c].claim) \/ UNCHANGED ledgerVars
<1>0. op[c].id \in Ids /\ Holds(c) /\ pc[c] = "restore"
  BY Zenon DEF TypeInv, Named, Unnamed, Restore, Holds
<1>1. /\ \A d \in Clients \ {c} : pc'[d] = pc[d] /\ op'[d] = op[d]
      /\ pc'[c] = "unwritten" /\ UNCHANGED <<retired, delivered, wire>>
  BY Zenon DEF TypeInv, TypeOK, Restore, Unwritten, Goto, RestoreSend, ledgerVars, serverVars
<1>2. Submissions' \subseteq Submissions
  BY <1>1, Zenon DEF Submissions, Submission, Holds
<1>3. \A x \in wire \cup delivered : x.claim # op[c].claim
  BY <1>0, Zenon DEF ExclusiveClaims
<1>4. \A d \in Clients : Holds(d)' => d # c /\ Holds(d) /\ op'[d] = op[d]
  BY <1>1, Zenon DEF Holds
<1>5. \A d \in Clients : Holds(d)' => op'[d].claim # op[c].claim
  BY <1>0, <1>4, ZenonT(60) DEF ExclusiveClaims
<1>6. \A x \in Submissions' : x.claim # op[c].claim
  BY <1>1, <1>3, <1>5, Projection DEF Submissions
<1>7. RestoreSend(op[c].id, op[c].claim) \/ UNCHANGED ledgerVars
  BY Zenon DEF Restore
<1> QED
  BY <1>0, <1>1, <1>2, <1>6, <1>7, Zenon

(* A claim is given back only while it is the record's claim: the SQLite   *)
(* ledger compares them, and a client of the JSON ledger holds a claim     *)
(* that its record answers for, unless a record was removed before.        *)
LEMMA RestoredClaim ==
  ASSUME TypeInv, ExclusiveClaims, Ownership, NEW c \in Clients, Holds(c), op[c].id \in Ids,
         RestoreSend(op[c].id, op[c].claim), Kept(op[c].id)
  PROVE  send[op[c].id].claim = op[c].claim
<1>1. send[op[c].id].state = "submitting" /\ (SQLite => send[op[c].id].claim = op[c].claim)
  BY Zenon DEF RestoreSend, CanRestore
<1>2. CASE SQLite
  BY <1>1, <1>2, Zenon
<1>3. CASE retired[op[c].id] = 0
  <2>1. op[c].claim > 0
    <3>1. op[c].claim \in 1..claims
      BY Zenon DEF ExclusiveClaims
    <3>2. claims \in Nat
      BY SubmissionTypes, Zenon
    <3> QED
      BY <3>1, <3>2
  <2>2. Live(op[c])
    BY <1>3, <2>1, Zenon DEF Live
  <2>3. Owns(op[c])
    BY <2>2, Zenon DEF Ownership
  <2> QED
    BY <1>1, <2>3, Zenon DEF Owns
<1> QED
  BY <1>2, <1>3, Zenon DEF Kept

(* What is given back was claimed by the client that gives it back.        *)
LEMMA RestoreOwnership ==
  ASSUME TypeInv, ExclusiveClaims, Ownership, NEW c \in Clients, Restore(c)
  PROVE  Ownership'
<1> DEFINE i == op[c].id
<1>1. /\ i \in Ids /\ Holds(c) /\ retired' = retired /\ Submissions' \subseteq Submissions
      /\ \A x \in Submissions' : x.claim # op[c].claim
      /\ RestoreSend(op[c].id, op[c].claim) \/ UNCHANGED ledgerVars
  BY RestoreSubmissions, Zenon
<1>2. CASE RestoreSend(op[c].id, op[c].claim)
  <2>1. /\ send[i].state = "submitting"
        /\ Kept(i) => send[i].claim = op[c].claim
        /\ \A j \in Ids \ {i} : send'[j] = send[j]
    <3>1. /\ send[i].state = "submitting"
          /\ \A j \in Ids \ {i} : send'[j] = send[j]
      BY <1>1, <1>2, Zenon DEF RestoreSend, CanRestore, TypeInv, TypeOK, LedgerTypeOK
    <3> QED
      BY <1>1, <1>2, <3>1, RestoredClaim, Zenon
  <2>2. ASSUME NEW x \in Submissions', Live(x)
        PROVE  x.id # i
    <3>1. Owns(x) /\ Kept(x.id) /\ x.claim # op[c].claim
      BY <1>1, <2>2, SubmissionsOwned, Zenon DEF Owned, Live
    <3> QED
      BY <2>1, <3>1, Zenon DEF Owns
  <2>3. \A x \in Submissions' : x.id \in Ids
    BY <1>1, SubmissionsTyped, Zenon
  <2> HIDE DEF i
  <2>4. Owned'
    BY <1>1, <2>1, <2>2, <2>3, SubmissionsOwned, ZenonT(60) DEF Owned, Live, Kept, Owns
  <2>5. Agreed'
    BY <1>1, SubmissionsOwned, Zenon DEF Agreed, Agree, Live, Kept
  <2> QED
    BY <2>4, <2>5, OwnershipOfSubmissions
<1>3. CASE UNCHANGED ledgerVars
  BY <1>1, <1>3, FewerSubmissions, Zenon DEF ledgerVars
<1> QED
  BY <1>1, <1>2, <1>3, Zenon

(* Serving a request keeps its identity, text and claim.                   *)
LEMMA ServeSubmissions ==
  ASSUME NEW f \in wire, ServeInput(f) \/ RefuseInput(f), UNCHANGED <<ledgerVars, clientVars>>
  PROVE  Submissions' \subseteq Submissions
<1>1. UNCHANGED <<pc, op>> /\ wire' \subseteq wire
  BY Zenon DEF clientVars, ServeInput, RefuseInput
<1>2. \A x \in delivered' : x \in delivered \/ Submission(x) = Submission(f)
  BY DEF ServeInput, RefuseInput, Submission
<1> QED
  BY <1>1, <1>2, ZenonT(60) DEF Submissions, Submission, Holds

(* Ownership is kept by every step.                                        *)
LEMMA OwnershipStep == TypeInv /\ ExclusiveClaims /\ Ownership /\ [Next]_vars => Ownership'
<1> SUFFICES ASSUME TypeInv, ExclusiveClaims, Ownership, [Next]_vars
             PROVE  Ownership'
  OBVIOUS
<1>1. ASSUME Submissions' \subseteq Submissions, UNCHANGED ledgerVars
      PROVE  Ownership'
  BY <1>1, FewerSubmissions DEF ledgerVars
<1>2. CASE QuietStep
  BY <1>2, QuietOwnership
<1>3. ASSUME NEW c \in Clients, Admit(c) \/ Write(c) \/ ReadReply(c) \/ Restore(c)
      PROVE  Ownership'
  BY <1>1, <1>3, AdmitOwnership, WriteSubmissions, ReadReplySubmissions, RestoreOwnership
<1>4. ASSUME NEW f \in wire, ServeInput(f) \/ RefuseInput(f), UNCHANGED <<ledgerVars, clientVars>>
      PROVE  Ownership'
  BY <1>1, <1>4, ServeSubmissions, SMTT(60)
<1> QED
  BY <1>2, <1>3, <1>4, QuietOrClaim DEF ClaimStep

(***************************************************************************)
(* The theorems.                                                           *)
(***************************************************************************)

(* Nothing has been claimed or submitted initially.                        *)
LEMMA Initially == Init => TypeInv /\ ExclusiveClaims /\ Ownership
<1> SUFFICES ASSUME Init PROVE TypeInv /\ ExclusiveClaims /\ Ownership
  OBVIOUS
<1>1. LedgerTypeOK /\ ServerTypeOK
  BY LedgerAssumption, AttemptTypes
     DEF Init, LedgerInit, ServerInit, LedgerTypeOK, ServerTypeOK
<1>2. NoOutcome \in Outcome
  BY LedgerAssumption DEF NoOutcome, Outcome
<1>3. TypeInv
  BY <1>1, <1>2, OperationTypes DEF Init, TypeInv, TypeOK, Named, Unnamed, Holds, Label
<1>4. /\ wire = {} /\ delivered = {} /\ replies = {} /\ claims = 0
      /\ \A c \in Clients : ~Holds(c) /\ pc[c] = "idle"
      /\ \A i \in Ids : send[i].claim = 0 /\ retired[i] = 0
  BY Zenon DEF Init, LedgerInit, ServerInit, Absent, Holds
<1>5. ExclusiveClaims
  BY <1>4 DEF ExclusiveClaims
<1>6. Ownership
  BY <1>4, Zenon DEF Ownership
<1> QED
  BY <1>3, <1>5, <1>6

(* A claim belongs to one submission, with either backend: no interleaving *)
(* of clients, crashes, lost replies and cleanups makes two requests or    *)
(* messages carry the same admission claim, or leaves a request under a    *)
(* claim that is being given back (writeOfferAdmission).                   *)
THEOREM ClaimsAreExclusive == Spec => []ExclusiveClaims
<1>1. Spec => [](TypeInv /\ ExclusiveClaims)
  <2>1. TypeInv /\ ExclusiveClaims /\ [Next]_vars => (TypeInv /\ ExclusiveClaims)'
    BY TypeStep, ExclusiveStep
  <2> QED
    BY Initially, <2>1, PTL DEF Spec
<1> QED
  BY <1>1, PTL

(* The inductive invariant.                                                *)
IInv == TypeInv /\ ExclusiveClaims /\ Ownership

(* The inductive invariant holds of every reachable state.                 *)
LEMMA InvariantHolds == Spec => []IInv
<1>1. Init => IInv
  BY Initially DEF IInv
<1>2. IInv /\ [Next]_vars => IInv'
  BY TypeStep, ExclusiveStep, OwnershipStep, Zenon DEF IInv
<1> QED
  BY <1>1, <1>2, PTL DEF Spec

(* The native server accepts an identity at most once for as long as the   *)
(* ledger keeps its record, for any number of clients, identities, texts   *)
(* and claims: with SQLite between any two removals of the record, with    *)
(* the JSON ledger until the first one (claimSendSubmissionIf,             *)
(* restoreRejectedSendClaim).                                              *)
THEOREM DeliveredAtMostOnce == Spec => []AtMostOnce
<1>1. IInv => AtMostOnce
  BY ZenonT(60) DEF IInv, ExclusiveClaims, Ownership, Agree, AtMostOnce
<1> QED
  BY <1>1, InvariantHolds, PTL

(* A delivered message stays submitting or accepted in the ledger, with    *)
(* its text, until it is retired (markSendAccepted,                        *)
(* restoreRejectedSendClaim).                                              *)
THEOREM DeliveriesAreRemembered == Spec => []DeliveryRemembered
<1>1. IInv => DeliveryRemembered
  BY Zenon DEF IInv, Ownership, Owns, DeliveryRemembered
<1> QED
  BY <1>1, InvariantHolds, PTL

(* Only a restoration takes a record from submitting back to prepared.     *)
LEMMA OnlyRestore ==
  ASSUME TypeInv, [Next]_vars, NEW i \in Ids,
         send[i].state = "submitting", send'[i].state = "prepared"
  PROVE  \E c \in Clients : pc[c] = "restore" /\ RestoreSend(op[c].id, op[c].claim)
                            /\ op[c].id = i
<1>0. send \in [Ids -> Attempt]
  BY Zenon DEF TypeInv, TypeOK, LedgerTypeOK
<1>1. ASSUME Transaction PROVE FALSE
  <2>1. ASSUME NEW j \in Ids, NEW t, NEW a, NEW s, RecordSend(j, t, a, s) PROVE FALSE
    BY <1>0, <2>1, SMTT(60) DEF RecordSend, Found
  <2>2. ASSUME NEW j \in Ids, NEW t, NEW a, NEW s, NEW turn, AdoptReceipt(j, t, a, s, turn)
        PROVE  FALSE
    BY <1>0, <2>2, Zenon DEF AdoptReceipt, AcceptedAttempt
  <2>3. ASSUME NEW j \in Ids, NEW s, NEW turn, AcceptSend(j, s, turn) PROVE FALSE
    BY <1>0, <2>3, SMTT(60) DEF AcceptSend, Attempt
  <2>4. ASSUME NEW j \in Ids, RemoveSend(j) PROVE FALSE
    BY <1>0, <2>4, Zenon DEF RemoveSend, Absent
  <2>5. ASSUME ClearThread \/ UNCHANGED ledgerVars PROVE FALSE
    BY <2>5, SMTT(60) DEF ClearThread, Absent, ledgerVars
  <2> QED
    BY <1>1, <2>1, <2>2, <2>3, <2>4, <2>5, ZenonT(60) DEF Transaction
<1>2. ASSUME NEW c \in Clients, Admit(c) PROVE FALSE
  <2>1. \/ \E j, t, a, s : ClaimSend(j, t, a, s)
        \/ UNCHANGED ledgerVars
    BY <1>2, Zenon DEF Admit
  <2>2. ASSUME NEW j, NEW t, NEW a, NEW s, ClaimSend(j, t, a, s) PROVE FALSE
    BY <1>0, <2>2, Zenon DEF ClaimSend, Attempt
  <2> QED
    BY <2>1, <2>2, Zenon DEF ledgerVars
<1>3. ASSUME NEW c \in Clients, Write(c) \/ ReadReply(c) PROVE FALSE
  BY <1>3, Zenon DEF Write, ReadReply, ledgerVars
<1>4. ASSUME NEW c \in Clients, Restore(c)
      PROVE  pc[c] = "restore" /\ RestoreSend(op[c].id, op[c].claim) /\ op[c].id = i
  BY <1>0, <1>4 DEF Restore, RestoreSend, ledgerVars
<1>5. ASSUME UNCHANGED ledgerVars PROVE FALSE
  BY <1>5 DEF ledgerVars
<1> QED
  BY <1>1, <1>2, <1>3, <1>4, <1>5, QuietOrClaim, Zenon DEF QuietStep, ClaimStep

(* An attempt goes back from submitting to prepared only when nothing was  *)
(* dispatched under its claim, with the JSON ledger until a record of the  *)
(* identity was removed (restoreRejectedSendClaim).                        *)
THEOREM RestorationIsSafe == Spec => RestoredIsUnsent
<1> DEFINE Unsent ==
      \A i \in Ids : Kept(i) /\ send[i].state = "submitting" /\ send'[i].state = "prepared"
        => \A x \in wire \cup delivered : x.id = i => x.claim # send[i].claim
<1>1. ASSUME IInv, [Next]_vars PROVE Unsent
  <2> SUFFICES ASSUME NEW i \in Ids, Kept(i), send[i].state = "submitting",
                      send'[i].state = "prepared"
               PROVE  \A x \in wire \cup delivered : x.claim # send[i].claim
    BY Zenon
  <2>1. PICK c \in Clients : pc[c] = "restore" /\ RestoreSend(op[c].id, op[c].claim)
                             /\ op[c].id = i
    BY <1>1, OnlyRestore, Zenon DEF IInv
  <2>2. send[i].claim = op[c].claim
    <3>1. Holds(c)
      BY <2>1, Zenon DEF Holds
    <3> QED
      BY <1>1, <2>1, <3>1, RestoredClaim, Zenon DEF IInv
  <2> QED
    BY <1>1, <2>1, <2>2, ZenonT(60) DEF IInv, ExclusiveClaims
<1>2. IInv /\ [Next]_vars => [Unsent]_vars
  BY <1>1, Zenon
<1> QED
  BY <1>2, InvariantHolds, PTL DEF Spec, RestoredIsUnsent

(* Only unwrittenSendOutcome reports a message as not sent, from a record  *)
(* that is prepared or absent.                                             *)
LEMMA OnlyUnwritten ==
  ASSUME TypeInv, [Next]_vars, NEW c \in Clients,
         outcome[c].kind # "notSent", outcome'[c].kind = "notSent"
  PROVE  op[c].id \in Ids /\ NotSentState(op[c].id, op[c].allowAbsent)
<1>0. outcome \in [Clients -> Outcome] /\ NoOutcome.kind = "none"
  BY Zenon DEF TypeInv, TypeOK, NoOutcome
<1>1. ASSUME NEW d \in Clients, NEW kind, NEW turn, kind # "notSent", Return(d, kind, turn)
      PROVE  FALSE
  BY <1>0, <1>1, Zenon DEF Return
<1>2. ASSUME UNCHANGED outcome PROVE FALSE
  BY <1>2, Zenon
<1>3. ASSUME NEW d \in Clients, NEW label, NEW o, Goto(d, label, o) PROVE FALSE
  BY <1>2, <1>3 DEF Goto
<1>4. ASSUME NEW d \in Clients, Call(d) PROVE FALSE
  BY <1>0, <1>4, SMTT(60) DEF Call, BeginAcknowledge, BeginSend, BeginReconcile, Begin, BeginAttempted,
     Discard, Prepare, clientVars
<1>5. ASSUME NEW d \in Clients, Crash(d) PROVE FALSE
  BY <1>0, <1>5, SMTT(30) DEF Crash
<1>6. ASSUME NEW d \in Clients, Run(d), ~UnwrittenOutcome(d) PROVE FALSE
  BY <1>6, <1>1, <1>3, ZenonT(60) DEF Run, CheckQueue, Reconcile, Recheck, ReconcileSubmitting,
     Resume, RecordAttempt, Admit, Write, ReadReply, Restore, Lookup, Mark,
     AcknowledgeWalk, AcknowledgeRemove, FindReceipt, Adopt, ToMark, Unwritten
<1>7. ASSUME NEW d \in Clients, UnwrittenOutcome(d)
      PROVE  d = c /\ pc[c] = "unwritten" /\ NotSentState(op[c].id, op[c].allowAbsent)
  <2>1. NotSentState(op[d].id, op[d].allowAbsent) /\ Return(d, "notSent", 0)
    BY <1>7, <1>1, <1>3, SMTT(60) DEF UnwrittenOutcome
  <2>2. d = c
    BY <1>0, <2>1, Zenon DEF Return
  <2> QED
    BY <1>7, <2>1, <2>2 DEF UnwrittenOutcome
<1>8. ASSUME ClearRetired \/ Native \/ UNCHANGED vars PROVE FALSE
  BY <1>2, <1>8, Zenon DEF ClearRetired, Native, vars, clientVars
<1>9. pc[c] = "unwritten" /\ NotSentState(op[c].id, op[c].allowAbsent)
  BY <1>4, <1>5, <1>6, <1>7, <1>8, Zenon DEF Next
<1> QED
  BY <1>9, Zenon DEF TypeInv, Named, Unnamed

(* MessageNotSentError is never returned for a message that the server has *)
(* or can still get (unwrittenSendOutcome).                                *)
THEOREM NotSentIsTrue == Spec => NotSentIsUnsent
<1> DEFINE Unsent ==
      \A c \in Clients : outcome[c].kind # "notSent" /\ outcome'[c].kind = "notSent"
        => ~Sent(op[c].id)
<1>1. ASSUME IInv, [Next]_vars PROVE Unsent
  <2> SUFFICES ASSUME NEW c \in Clients, outcome[c].kind # "notSent",
                      outcome'[c].kind = "notSent"
               PROVE  ~Sent(op[c].id)
    BY Zenon
  <2>1. NotSentState(op[c].id, op[c].allowAbsent)
    BY <1>1, OnlyUnwritten, Zenon DEF IInv
  <2> QED
    BY <1>1, <2>1, ZenonT(60) DEF IInv, Ownership, Owns, Sent, NotSentState
<1>2. IInv /\ [Next]_vars => [Unsent]_vars
  BY <1>1, Zenon
<1> QED
  BY <1>2, InvariantHolds, PTL DEF Spec, NotSentIsUnsent
=============================================================================
