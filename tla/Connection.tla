------------------------------ MODULE Connection ------------------------------
(***************************************************************************)
(* The transport of a client (Ensure, requestOnAdmission, writeOffer-      *)
(* Admission, readLoop, markDisconnected and Close in codex/client.go).    *)
(* Callers share one connection.  The first one to need it dials and       *)
(* initializes it under ensureMu; each request registers a channel,        *)
(* writes, and waits for the reader of that generation, for the loss of    *)
(* the connection, or for its context.                                     *)
(*                                                                         *)
(* What runs under connectionMu and pendingMu is one step.  writeMu is     *)
(* held by the caller whose step is "write".  The server is external: it   *)
(* answers a request once or not at all, or closes the socket.             *)
(***************************************************************************)
EXTENDS Naturals

CONSTANTS
  Callers,
  Ids,             \* request ids; Register takes one that nothing refers to
  MaxGenerations,  \* bound on successful dials
  None

ASSUME ConnectionAssumption ==
  /\ MaxGenerations \in Nat
  /\ None \notin Callers /\ None \notin Ids
  /\ {"off", "reading", "done"} \cap Ids = {}

VARIABLES
  generation, connection, ready, \* as in Link
  closed,        \* Close was called
  closing,       \* the generation Close has still to detach, 0 for none
  ensureMu,      \* the caller inside Ensure that initializes a connection
  pc, call, gen, \* of a caller: its step, the id and generation of its request
  pending,       \* generation of a registered call, 0 when it is not registered
  channel,       \* the buffered answer of a call
  asked,         \* requests written whose answer is still to be read
  socket,        \* the generations whose socket is open
  reader         \* of a generation: "off", "reading", "done" or the call it answers

link == <<generation, connection, ready>>
vars == <<link, closed, closing, ensureMu, pc, call, gen, pending, channel,
          asked, socket, reader>>

Generations == 1..MaxGenerations

Init ==
  /\ generation = 0 /\ connection = 0 /\ ready = 0
  /\ closed = FALSE /\ closing = 0
  /\ ensureMu = None
  /\ pc = [c \in Callers |-> "idle"]
  /\ call = [c \in Callers |-> None]
  /\ gen = [c \in Callers |-> 0]
  /\ pending = [i \in Ids |-> 0]
  /\ channel = [i \in Ids |-> "empty"]
  /\ asked = {}
  /\ socket = {}
  /\ reader = [g \in Generations |-> "off"]

-----------------------------------------------------------------------------
\* A mutant of Settle: the calls of the connection are dropped without a word.
FaultSettleSilent(g, i, buffered) ==
  /\ connection' = IF connection = g THEN 0 ELSE connection
  /\ ready' = IF connection = g THEN 0 ELSE ready
  /\ channel' = buffered
  /\ pending' = [j \in Ids |-> IF j = i \/ (connection = g /\ pending[j] = g) THEN 0 ELSE pending[j]]
  /\ socket' = socket \ {g}
  /\ UNCHANGED generation

\* A mutant of Settle: the calls of every connection get the error.
FaultSettleAll(g, i, buffered) ==
  /\ connection' = IF connection = g THEN 0 ELSE connection
  /\ ready' = IF connection = g THEN 0 ELSE ready
  /\ channel' = [j \in Ids |-> IF pending[j] # 0 /\ buffered[j] = "empty" THEN "lost" ELSE buffered[j]]
  /\ pending' = [j \in Ids |-> IF j = i \/ pending[j] = g THEN 0 ELSE pending[j]]
  /\ socket' = socket \ {g}
  /\ UNCHANGED generation

(***************************************************************************)
(* Settle(g, i, c) is markDisconnected(g) -- which detaches g if it is the *)
(* attached generation, handing an error to every call registered on it -- *)
(* and the removal of the call i, when the channels hold c.                *)
(***************************************************************************)
Settle(g, i, buffered) ==
  LET lost == {j \in Ids : connection = g /\ pending[j] = g} IN
  /\ connection' = IF connection = g THEN 0 ELSE connection
  /\ ready' = IF connection = g THEN 0 ELSE ready
  /\ channel' = [j \in Ids |-> IF j \in lost /\ buffered[j] = "empty"
                               THEN "lost" ELSE buffered[j]]
  /\ pending' = [j \in Ids |-> IF j \in lost \cup {i} THEN 0 ELSE pending[j]]
  /\ socket' = socket \ {g}
  /\ UNCHANGED generation

\* The call is removed and the connection stays as it is.
Forget(i, buffered) ==
  /\ channel' = buffered
  /\ pending' = [j \in Ids |-> IF j = i THEN 0 ELSE pending[j]]
  /\ UNCHANGED <<link, socket>>

Step(c, step) ==
  /\ pc' = [pc EXCEPT ![c] = step]
  /\ UNCHANGED <<closed, closing>>

\* The request returns, and with ensureMu held so does Ensure.  The answer to
\* a call that is no longer registered is ignored, so it is dropped here.
Leave(c) ==
  /\ Step(c, "idle")
  /\ call' = [call EXCEPT ![c] = None]
  /\ ensureMu' = IF ensureMu = c THEN None ELSE ensureMu
  /\ asked' = {a \in asked : a[1] # call[c]}
  /\ UNCHANGED <<gen, reader>>

\* A request fails: Ensure closes the connection its initialize failed on.
Fail(c, buffered) ==
  /\ Leave(c)
  /\ IF ensureMu = c THEN Settle(gen[c], call[c], buffered)
     ELSE Forget(call[c], buffered)

-----------------------------------------------------------------------------
Begin(c) ==
  /\ pc[c] = "idle"
  /\ Step(c, "ensure")
  /\ UNCHANGED <<link, ensureMu, call, gen, pending, channel, asked, socket, reader>>


\* Ensure, when no connection has to be made.
EnsureOld(c) ==
  /\ pc[c] = "ensure"
  /\ ensureMu = None
  /\ closed \/ connection # 0
  /\ Step(c, IF ~closed /\ ready = generation THEN "snapshot" ELSE "idle")
  /\ UNCHANGED <<link, ensureMu, call, gen, pending, channel, asked, socket, reader>>

\* A mutant of EnsureNew: a closed client dials.
FaultEnsureNew(c) ==
  /\ pc[c] = "ensure"
  /\ ensureMu = None
  /\ connection = 0
  /\ \/ Step(c, "idle") /\ UNCHANGED <<link, ensureMu, gen, socket, reader>>
     \/ /\ generation < MaxGenerations
        /\ generation' = generation + 1
        /\ connection' = generation + 1
        /\ socket' = socket \cup {generation + 1}
        /\ reader' = [reader EXCEPT ![generation + 1] = "reading"]
        /\ ensureMu' = c
        /\ gen' = [gen EXCEPT ![c] = generation + 1]
        /\ Step(c, "register")
        /\ UNCHANGED ready
  /\ UNCHANGED <<call, pending, channel, asked>>

\* A mutant of EnsureNew: a connection that is not ready is dialled over.
FaultEnsureNewOver(c) ==
  /\ pc[c] = "ensure"
  /\ ensureMu = None
  /\ ~closed /\ ready = 0
  /\ \/ Step(c, "idle") /\ UNCHANGED <<link, ensureMu, gen, socket, reader>>
     \/ /\ generation < MaxGenerations
        /\ generation' = generation + 1
        /\ connection' = generation + 1
        /\ socket' = socket \cup {generation + 1}
        /\ reader' = [reader EXCEPT ![generation + 1] = "reading"]
        /\ ensureMu' = c
        /\ gen' = [gen EXCEPT ![c] = generation + 1]
        /\ Step(c, "register")
        /\ UNCHANGED ready
  /\ UNCHANGED <<call, pending, channel, asked>>

\* Ensure, when there is none: it dials under connectionMu, and may fail.
EnsureNew(c) ==
  /\ pc[c] = "ensure"
  /\ ensureMu = None
  /\ ~closed /\ connection = 0
  /\ \/ Step(c, "idle") /\ UNCHANGED <<link, ensureMu, gen, socket, reader>>
     \/ /\ generation < MaxGenerations
        /\ generation' = generation + 1
        /\ connection' = generation + 1
        /\ socket' = socket \cup {generation + 1}
        /\ reader' = [reader EXCEPT ![generation + 1] = "reading"]
        /\ ensureMu' = c
        /\ gen' = [gen EXCEPT ![c] = generation + 1]
        /\ Step(c, "register")
        /\ UNCHANGED ready
  /\ UNCHANGED <<call, pending, channel, asked>>

\* requestConnectedAdmission takes the connection of the moment.
Snapshot(c) ==
  /\ pc[c] = "snapshot"
  /\ IF connection # 0 /\ ready = generation
     THEN gen' = [gen EXCEPT ![c] = generation] /\ Step(c, "register")
     ELSE gen' = gen /\ Step(c, "idle")
  /\ UNCHANGED <<link, ensureMu, call, pending, channel, asked, socket, reader>>

Fresh(i) ==
  /\ pending[i] = 0
  /\ \A c \in Callers : call[c] # i
  /\ \A g \in Generations : reader[g] # i

Register(c) ==
  /\ pc[c] = "register"
  /\ \E i \in Ids :
       /\ Fresh(i)
       /\ call' = [call EXCEPT ![c] = i]
       /\ pending' = [pending EXCEPT ![i] = gen[c]]
       /\ channel' = [channel EXCEPT ![i] = "empty"]
  /\ Step(c, "check")
  /\ UNCHANGED <<link, ensureMu, gen, asked, socket, reader>>

\* writeOfferAdmission: under writeMu, is the connection still the same one?
CheckWrite(c) ==
  /\ pc[c] = "check"
  /\ \A d \in Callers : pc[d] # "write"
  /\ connection = gen[c]
  /\ Step(c, "write")
  /\ UNCHANGED <<link, ensureMu, call, gen, pending, channel, asked, socket, reader>>

\* Nothing is written: the connection changed or the context has ended.  Ensure
\* answers a refused initialize by closing the connection, and a refused
\* initialized notification by returning the error.
RefuseWrite(c) ==
  /\ pc[c] \in {"check", "write"}
  /\ IF call[c] = None THEN Leave(c) /\ Forget(None, channel)
     ELSE Fail(c, channel)

\* connectionMu is free again while the message is written.
Write(c) ==
  /\ pc[c] = "write"
  /\ gen[c] \in socket
  /\ IF call[c] = None THEN Step(c, "publish") /\ UNCHANGED asked
     ELSE Step(c, "wait") /\ asked' = asked \cup {<<call[c], gen[c]>>}
  /\ UNCHANGED <<link, ensureMu, call, gen, pending, channel, socket, reader>>

\* A write that breaks off disconnects.
BreakWrite(c) ==
  /\ pc[c] = "write"
  /\ Leave(c)
  /\ Settle(gen[c], call[c], channel)

\* The answer is there: a result, an error of the server, or the disconnect.
Receive(c) ==
  /\ pc[c] = "wait"
  /\ channel[call[c]] # "empty"
  /\ LET taken == [channel EXCEPT ![call[c]] = "empty"] IN
     \/ Fail(c, taken)
     \/ /\ channel[call[c]] = "reply"
        /\ ensureMu = c
        /\ Forget(call[c], taken)
        /\ call' = [call EXCEPT ![c] = None]
        /\ Step(c, "check")
        /\ UNCHANGED <<ensureMu, gen, asked, reader>>

\* The context of the call ends first.
GiveUp(c) ==
  /\ pc[c] = "wait"
  /\ Fail(c, channel)

\* Ensure publishes the connection unless it changed meanwhile.
PublishReady(c) ==
  /\ pc[c] = "publish"
  /\ ensureMu' = None
  /\ IF connection = gen[c] THEN ready' = gen[c] /\ Step(c, "snapshot")
     ELSE ready' = ready /\ Step(c, "idle")
  /\ UNCHANGED <<generation, connection, call, gen, pending, channel, asked, socket, reader>>

-----------------------------------------------------------------------------
(***************************************************************************)
(* The reader of a generation, the server, and Close.                      *)
(***************************************************************************)
CallersStay == UNCHANGED <<ensureMu, pc, call, gen>>

\* A response is read, and its call is looked up under pendingMu.
ReadReply(g) ==
  /\ reader[g] = "reading"
  /\ \E i \in Ids :
       /\ <<i, g>> \in asked
       /\ asked' = asked \ {<<i, g>>}
       /\ reader' = [reader EXCEPT ![g] = IF pending[i] = g THEN i ELSE "reading"]
  /\ CallersStay
  /\ UNCHANGED <<link, closed, closing, pending, channel, socket>>

\* It is sent to the channel of the call, which has room for one answer.
DeliverReply(g) ==
  /\ reader[g] \in Ids
  /\ channel[reader[g]] = "empty"
  /\ channel' = [channel EXCEPT ![reader[g]] = "reply"]
  /\ reader' = [reader EXCEPT ![g] = "reading"]
  /\ CallersStay
  /\ UNCHANGED <<link, closed, closing, pending, asked, socket>>

\* A closed socket ends the reader, which disconnects.
ReadFails(g) ==
  /\ reader[g] = "reading"
  /\ g \notin socket
  /\ reader' = [reader EXCEPT ![g] = "done"]
  /\ Settle(g, None, channel)
  /\ CallersStay
  /\ UNCHANGED <<closed, closing, asked>>

ServerCloses(g) ==
  /\ g \in socket
  /\ socket' = socket \ {g}
  /\ CallersStay
  /\ UNCHANGED <<link, closed, closing, pending, channel, asked, reader>>

Close ==
  /\ ~closed
  /\ closed' = TRUE
  /\ closing' = connection
  /\ CallersStay
  /\ UNCHANGED <<link, pending, channel, asked, socket, reader>>

\* Close goes on outside connectionMu with the connection it saw.
CloseDetaches ==
  /\ closing # 0
  /\ closing' = 0
  /\ Settle(closing, None, channel)
  /\ CallersStay
  /\ UNCHANGED <<closed, asked, reader>>

CallerStep(c) ==
  \/ EnsureOld(c) \/ EnsureNew(c) \/ Snapshot(c) \/ Register(c)
  \/ CheckWrite(c) \/ RefuseWrite(c) \/ Write(c) \/ BreakWrite(c)
  \/ Receive(c) \/ PublishReady(c)

ReaderStep(g) == ReadReply(g) \/ DeliverReply(g) \/ ReadFails(g)

Next ==
  \/ \E c \in Callers : Begin(c) \/ CallerStep(c) \/ GiveUp(c)
  \/ \E g \in Generations : ReaderStep(g) \/ ServerCloses(g)
  \/ Close \/ CloseDetaches

Spec == Init /\ [][Next]_vars

\* A goroutine that can run does, a waiter for ensureMu gets it in the end
\* (Go's mutexes hand over to one that starves), and the ten seconds of
\* initialize pass.  The server owes nothing: a reply may never come.
Fairness ==
  /\ \A c \in Callers :
       /\ WF_vars(CallerStep(c))
       /\ SF_vars(EnsureOld(c) \/ EnsureNew(c))
       /\ WF_vars(ensureMu = c /\ GiveUp(c))
  /\ \A g \in Generations : WF_vars(DeliverReply(g)) /\ WF_vars(ReadFails(g))
  /\ WF_vars(CloseDetaches)

FairSpec == Spec /\ Fairness

-----------------------------------------------------------------------------
\* Steps, callers, channels and readers keep to their values.
ConnectionTypeOK ==
  /\ generation \in 0..MaxGenerations
  /\ connection \in {0, generation}
  /\ ready \in {0, connection}
  /\ closed \in BOOLEAN /\ closing \in 0..MaxGenerations
  /\ ensureMu \in Callers \cup {None}
  /\ pc \in [Callers -> {"idle", "ensure", "snapshot", "register", "check",
                         "write", "wait", "publish"}]
  /\ call \in [Callers -> Ids \cup {None}]
  /\ gen \in [Callers -> 0..MaxGenerations]
  /\ pending \in [Ids -> 0..MaxGenerations]
  /\ channel \in [Ids -> {"empty", "reply", "lost"}]
  /\ asked \subseteq Ids \X Generations
  /\ socket \subseteq Generations
  /\ reader \in [Generations -> {"off", "reading", "done"} \cup Ids]

\* A caller that waits on a connection that is gone has an answer in its
\* channel: detachConnectionLocked misses no call, however the registration,
\* the write and the disconnect fall (client.go:1191, 1634).
LostCallsAnswered ==
  \A c \in Callers :
    pc[c] = "wait" /\ connection # gen[c] => channel[call[c]] # "empty"

\* The reader of the attached connection never stands before a full channel:
\* its send, which is unconditional, does not stop it from reading
\* (client.go:1411).
ReaderFree ==
  \A g \in Generations :
    reader[g] \in Ids /\ connection = g => channel[reader[g]] = "empty"

\* Once Close is through nothing is attached, and nothing will be: a dial that
\* was under way is either refused or seen (client.go:977, 1056).
ClosedIsDetached == closed /\ closing = 0 => connection = 0

\* The callers, readers and Close move the connection as Link says.
Network == INSTANCE Link
FollowsLink == Network!LinkSpec


\* An attached connection that is not usable is being initialized by somebody:
\* the state that Ensure reports as "connection is still initializing"
\* (client.go:987) comes to an end.
InitializingIsTransient ==
  connection # 0 /\ ready # generation => ensureMu # None
=============================================================================
