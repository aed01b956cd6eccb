------------------------------ MODULE AppServer ------------------------------
(***************************************************************************)
(* The native Codex App Server, as far as codex/client.go relies on it:    *)
(* turn/start and turn/steer requests on the wire, the turn in progress,   *)
(* the inputs it accepted and the part of them that thread/items/list      *)
(* already shows.  The server is not in the repository; this module is the *)
(* client's view of it (docs/reference.md 222-241):                        *)
(*   - client identities correlate inputs and never suppress a duplicate;  *)
(*   - an accepted input can precede its visibility in paginated history;  *)
(*   - turn/start on a busy thread can join the active turn.               *)
(* Requests and replies can be lost; a request written before a            *)
(* disconnection can still be served after it.                             *)
(***************************************************************************)
EXTENDS SubmissionLedger

VARIABLES
  active,     \* the turn in progress, 0 when the thread is idle
  turns,      \* turns started so far
  wire,       \* requests written by clients and not yet served
  replies,    \* replies not yet read
  delivered,  \* the user messages the server accepted
  visible     \* the accepted messages that history pages show

serverVars == <<active, turns, wire, replies, delivered, visible>>

Frame ==
  [id : Ids, text : Texts, steered : BOOLEAN, expected : 0..MaxTurns,
   claim : 1..MaxClaims]

Reply == [claim : 1..MaxClaims, refused : BOOLEAN, turn : 0..MaxTurns]

UserMessage ==
  [id : Ids, text : Texts, turn : 1..MaxTurns, joined : BOOLEAN,
   claim : 1..MaxClaims]

ServerInit ==
  /\ active = 0
  /\ turns = 0
  /\ wire = {}
  /\ replies = {}
  /\ delivered = {}
  /\ visible = {}

ServerTypeOK ==
  /\ active \in 0..MaxTurns
  /\ turns \in 0..MaxTurns
  /\ wire \subseteq Frame
  /\ replies \subseteq Reply
  /\ delivered \subseteq UserMessage
  /\ visible \subseteq UserMessage

(* The turn an input accepted now belongs to.                              *)
TurnOfInput == IF active = 0 THEN turns + 1 ELSE active

(* Accept the input of request f.  turn/steer names the turn it expects;   *)
(* turn/start begins a turn or joins the active one.                       *)
ServeInput(f) ==
  /\ f.steered => active # 0 /\ active = f.expected
  /\ TurnOfInput <= MaxTurns
  /\ delivered' = delivered \cup
       {[id |-> f.id, text |-> f.text, turn |-> TurnOfInput,
         joined |-> active # 0, claim |-> f.claim]}
  /\ replies' = replies \cup
       {[claim |-> f.claim, refused |-> FALSE, turn |-> TurnOfInput]}
  /\ wire' = wire \ {f}
  /\ active' = TurnOfInput
  /\ turns' = IF active = 0 THEN turns + 1 ELSE turns
  /\ UNCHANGED visible

(* An invalid-request, unknown-method or invalid-parameters refusal.       *)
RefuseInput(f) ==
  /\ wire' = wire \ {f}
  /\ replies' = replies \cup {[claim |-> f.claim, refused |-> TRUE, turn |-> 0]}
  /\ UNCHANGED <<active, turns, delivered, visible>>

(* The connection breaks before the server reads the request.              *)
LoseInput(f) ==
  /\ wire' = wire \ {f}
  /\ UNCHANGED <<active, turns, replies, delivered, visible>>

(* History catches up with an accepted input.                              *)
ShowInput(m) ==
  /\ m \notin visible
  /\ visible' = visible \cup {m}
  /\ UNCHANGED <<active, turns, wire, replies, delivered>>

FinishTurn ==
  /\ active # 0
  /\ active' = 0
  /\ UNCHANGED <<turns, wire, replies, delivered, visible>>

Serve ==
  \/ \E f \in wire : ServeInput(f) \/ RefuseInput(f) \/ LoseInput(f)
  \/ \E m \in delivered : ShowInput(m)
  \/ FinishTurn

(***************************************************************************)
(* What sentByClientID finds: the newest visible message of the identity.  *)
(***************************************************************************)
Newest(i) ==
  {m \in visible : m.id = i /\ \A n \in visible : n.id = i => n.turn <= m.turn}
=============================================================================
