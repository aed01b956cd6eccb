---------------------------- MODULE StreamProofs ----------------------------
(***************************************************************************)
(* Theorems about the two ends of what a browser is shown: the client's    *)
(* connection to the native server (Connection), for every set of callers  *)
(* and request ids and every number of connections, and the page's         *)
(* synchronisation (PageLanes), for any number of changes.                 *)
(***************************************************************************)
EXTENDS Connection, PageLanes, TLAPS

(* Versions are ordered.                                                   *)
LEMMA Comparing ==
  /\ \A a \in Nat : a <= a /\ a + 1 \in Nat /\ a <= a + 1
  /\ \A a, b \in Nat : (a >= b <=> b <= a) /\ (a <= b /\ b <= a => a = b)
  /\ \A a, b, c \in Nat : a <= b /\ b <= c => a <= c
OBVIOUS

(***************************************************************************)
(* Connection.                                                             *)
(***************************************************************************)
(* What a request relies on: its id is its own, it stays registered while  *)
(* its connection is attached, and once it is on the wire the loss of the  *)
(* connection has left an answer.  Before that no answer can be under way. *)
CallsHeld ==
  \A c \in Callers :
    /\ gen[c] <= generation
    /\ pc[c] \in {"register", "check", "write", "wait", "publish"} => gen[c] # 0
    /\ pc[c] = "wait" => call[c] # None
    /\ call[c] # None =>
         /\ pc[c] \in {"check", "write", "wait"}
         /\ \A d \in Callers : call[d] = call[c] => d = c
         /\ pending[call[c]] \in {0, gen[c]}
         /\ connection = gen[c] => pending[call[c]] = gen[c] /\ channel[call[c]] # "lost"
         /\ connection # gen[c] /\ pc[c] # "check" => channel[call[c]] # "empty"
         /\ pc[c] # "wait" =>
              channel[call[c]] # "reply" /\ \A g \in Generations : reader[g] # call[c]

(* A request whose answer is to be read has a caller that waits for it,    *)
(* and none was read before.                                               *)
AskedOnce ==
  \A i \in Ids, g \in Generations : <<i, g>> \in asked =>
    /\ \E c \in Callers : call[c] = i /\ pc[c] = "wait" /\ gen[c] = g
    /\ channel[i] # "reply"
    /\ \A h \in Generations : reader[h] # i

(* An answer in a reader's hand is the only one of its call.               *)
ReadersHold ==
  \A g \in Generations :
    /\ g > generation => reader[g] = "off"
    /\ reader[g] \in Ids =>
         /\ channel[reader[g]] # "reply"
         /\ connection = g => channel[reader[g]] # "lost"
         /\ \A h \in Generations : reader[h] = reader[g] => h = g

(* Close saw the connection that is attached after it.                     *)
CloseSees == closed /\ connection # 0 => closing = connection

ConnectionInv == ConnectionTypeOK /\ CallsHeld /\ AskedOnce /\ ReadersHold /\ CloseSees

-----------------------------------------------------------------------------
(***************************************************************************)
(* A request ends in one of the ways of RefuseWrite, BreakWrite, Receive   *)
(* and GiveUp: the connection is dropped or kept, and its answer may have  *)
(* been taken from the channel.                                            *)
(***************************************************************************)
Ends(c, buffered) ==
  /\ pc[c] \in {"check", "write", "wait"}
  /\ \/ buffered = channel
     \/ call[c] \in Ids /\ buffered = [channel EXCEPT ![call[c]] = "empty"]
  /\ Leave(c)
  /\ Settle(gen[c], call[c], buffered) \/ Forget(call[c], buffered)

(* Every way a request returns is one of these.                            *)
LEMMA RequestEnds ==
  ASSUME ConnectionTypeOK, CallsHeld, NEW c \in Callers,
         RefuseWrite(c) \/ BreakWrite(c) \/ GiveUp(c)
         \/ (pc[c] = "wait" /\ Fail(c, [channel EXCEPT ![call[c]] = "empty"]))
  PROVE  \E buffered \in [Ids -> {"empty", "reply", "lost"}] : Ends(c, buffered)
<1> DEFINE taken == [channel EXCEPT ![call[c]] = "empty"]
<1>1. channel \in [Ids -> {"empty", "reply", "lost"}] /\ taken \in [Ids -> {"empty", "reply", "lost"}]
  BY Zenon DEF ConnectionTypeOK
<1>2. CASE RefuseWrite(c)
  <2>1. Ends(c, channel)
    BY <1>2, Zenon DEF RefuseWrite, Ends, Fail, Leave, Settle, Forget
  <2> QED
    BY <1>1, <2>1
<1>3. CASE BreakWrite(c)
  <2>1. Ends(c, channel)
    BY <1>3 DEF BreakWrite, Ends
  <2> QED
    BY <1>1, <2>1
<1>4. CASE GiveUp(c)
  <2>1. Ends(c, channel)
    BY <1>4 DEF GiveUp, Ends, Fail
  <2> QED
    BY <1>1, <2>1
<1>5. CASE pc[c] = "wait" /\ Fail(c, taken)
  <2>1. call[c] \in Ids
    BY <1>5 DEF CallsHeld, ConnectionTypeOK
  <2>2. Ends(c, taken)
    BY <1>5, <2>1 DEF Ends, Fail
  <2> QED
    BY <1>1, <2>2, Zenon
<1> QED
  BY <1>2, <1>3, <1>4, <1>5

(* The end of a request keeps the invariant: the others keep their ids and *)
(* their registrations, or the answer the loss of the connection gave them.*)
LEMMA EndKeeps ==
  ASSUME ConnectionInv, NEW c \in Callers,
         NEW buffered \in [Ids -> {"empty", "reply", "lost"}], Ends(c, buffered)
  PROVE  ConnectionInv'
<1> USE ConnectionAssumption DEF Generations
<1>0. ConnectionTypeOK /\ CallsHeld /\ AskedOnce /\ ReadersHold /\ CloseSees
  BY DEF ConnectionInv
<1>1. gen[c] \in Generations /\ call[c] \in Ids \cup {None}
  BY <1>0 DEF Ends, CallsHeld, ConnectionTypeOK
<1>2. ConnectionTypeOK'
  <2>1. /\ pc' \in [Callers -> {"idle", "ensure", "snapshot", "register", "check",
                               "write", "wait", "publish"}]
        /\ call' \in [Callers -> Ids \cup {None}]
        /\ gen' = gen /\ reader' = reader /\ closed' = closed /\ closing' = closing
        /\ ensureMu' \in Callers \cup {None}
        /\ asked' \subseteq Ids \X Generations
    BY <1>0 DEF Ends, Leave, Step, ConnectionTypeOK
  <2>2. /\ generation' = generation /\ connection' \in {0, connection}
        /\ ready' \in {0, connection'}
        /\ pending' \in [Ids -> 0..MaxGenerations]
        /\ channel' \in [Ids -> {"empty", "reply", "lost"}]
        /\ socket' \subseteq Generations
    <3>1. CASE Settle(gen[c], call[c], buffered)
      <4>1. generation' = generation /\ connection' \in {0, connection} /\ ready' \in {0, connection'}
        BY <1>0, <3>1 DEF Settle, ConnectionTypeOK
      <4>2. pending' \in [Ids -> 0..MaxGenerations] /\ channel' \in [Ids -> {"empty", "reply", "lost"}]
        BY <1>0, <3>1 DEF Settle, ConnectionTypeOK
      <4>3. socket' \subseteq Generations
        BY <1>0, <3>1, Zenon DEF Settle, ConnectionTypeOK
      <4> QED
        BY <4>1, <4>2, <4>3
    <3>2. CASE Forget(call[c], buffered)
      BY <1>0, <1>1, <3>2 DEF Forget, ConnectionTypeOK, link
    <3> QED
      BY <3>1, <3>2 DEF Ends
  <2> QED
    BY <1>0, <2>1, <2>2 DEF ConnectionTypeOK
<1>3. CallsHeld'
  BY <1>0, <1>1, SMTT(60) DEF Ends, Leave, Step, Settle, Forget, ConnectionTypeOK, CallsHeld, link
<1>4. AskedOnce'
  BY <1>0, <1>1, SMTT(60) DEF Ends, Leave, Step, Settle, Forget, ConnectionTypeOK, CallsHeld, AskedOnce, link
<1>5. ReadersHold'
  BY <1>0, <1>1, SMTT(60) DEF Ends, Leave, Step, Settle, Forget, ConnectionTypeOK, CallsHeld, ReadersHold, link
<1>6. CloseSees'
  BY <1>0, <1>1 DEF Ends, Leave, Step, Settle, Forget, ConnectionTypeOK, CloseSees, link
<1> QED
  BY <1>2, <1>3, <1>4, <1>5, <1>6 DEF ConnectionInv

(* A connection dropped by its reader or by Close.                         *)
LEMMA DropKeeps ==
  ASSUME ConnectionInv, NEW g \in Generations, Settle(g, None, channel), CallersStay,
         UNCHANGED <<closed, asked>>, closing' \in {closing, 0},
         closing' # closing => closing = g,
         reader' = reader \/ (reader[g] = "reading" /\ reader' = [reader EXCEPT ![g] = "done"])
  PROVE  ConnectionInv'
<1> USE ConnectionAssumption DEF Generations
<1>0. ConnectionTypeOK /\ CallsHeld /\ AskedOnce /\ ReadersHold /\ CloseSees
  BY DEF ConnectionInv
<1>2. ConnectionTypeOK'
  BY <1>0 DEF CallersStay, Settle, ConnectionTypeOK
<1>3. CallsHeld'
  BY <1>0 DEF CallersStay, Settle, ConnectionTypeOK, CallsHeld
<1>4. AskedOnce'
  BY <1>0, SMTT(60) DEF CallersStay, Settle, ConnectionTypeOK, CallsHeld, AskedOnce
<1>5. ReadersHold'
  BY <1>0, SMTT(60) DEF CallersStay, Settle, ConnectionTypeOK, CallsHeld, ReadersHold
<1>6. CloseSees'
  BY <1>0 DEF CallersStay, Settle, ConnectionTypeOK, CloseSees
<1> QED
  BY <1>2, <1>3, <1>4, <1>5, <1>6 DEF ConnectionInv

-----------------------------------------------------------------------------
(* A step that only moves a caller between Ensure and the write of its     *)
(* request, or publishes the connection.                                   *)
LEMMA EnsureKeeps ==
  ASSUME ConnectionInv, NEW c \in Callers,
         Begin(c) \/ EnsureOld(c) \/ Snapshot(c) \/ PublishReady(c) \/ CheckWrite(c)
  PROVE  ConnectionInv'
<1> USE ConnectionAssumption DEF Generations
<1>0. ConnectionTypeOK /\ CallsHeld /\ AskedOnce /\ ReadersHold /\ CloseSees
  BY DEF ConnectionInv
<1>1. ConnectionTypeOK'
  <2>1. CASE Begin(c) \/ EnsureOld(c) \/ CheckWrite(c)
    BY <1>0, <2>1, ZenonT(60) DEF Begin, EnsureOld, CheckWrite, Step, ConnectionTypeOK, link
  <2>2. CASE Snapshot(c)
    <3>1. pc' \in [Callers -> {"idle", "ensure", "snapshot", "register", "check",
                                "write", "wait", "publish"}]
      BY <1>0, <2>2, ZenonT(60) DEF Snapshot, Step, ConnectionTypeOK
    <3>2. gen' \in [Callers -> 0..MaxGenerations]
      BY <1>0, <2>2 DEF Snapshot, ConnectionTypeOK
    <3>3. closed' = closed /\ closing' = closing
      BY <2>2 DEF Snapshot, Step
    <3> QED
      BY <1>0, <2>2, <3>1, <3>2, <3>3 DEF Snapshot, ConnectionTypeOK, link
  <2>3. CASE PublishReady(c)
    BY <1>0, <2>3, ZenonT(60) DEF PublishReady, Step, ConnectionTypeOK
  <2> QED
    BY <2>1, <2>2, <2>3
<1>2. CallsHeld'
  BY <1>0, SMTT(60) DEF Begin, EnsureOld, Snapshot, PublishReady, CheckWrite, Step, ConnectionTypeOK, CallsHeld, link
<1>3. AskedOnce'
  BY <1>0, SMTT(60) DEF Begin, EnsureOld, Snapshot, PublishReady, CheckWrite, Step, ConnectionTypeOK, CallsHeld, AskedOnce, link
<1>4. ReadersHold' /\ CloseSees'
  BY <1>0 DEF Begin, EnsureOld, Snapshot, PublishReady, CheckWrite, Step, ConnectionTypeOK, ReadersHold, CloseSees, link
<1> QED
  BY <1>1, <1>2, <1>3, <1>4 DEF ConnectionInv

(* A new connection has a number that no request and no reader has.        *)
LEMMA DialKeeps ==
  ASSUME ConnectionInv, NEW c \in Callers, EnsureNew(c)
  PROVE  ConnectionInv'
<1> USE ConnectionAssumption DEF Generations
<1>0. ConnectionTypeOK /\ CallsHeld /\ AskedOnce /\ ReadersHold /\ CloseSees
  BY DEF ConnectionInv
<1>1. /\ pc[c] = "ensure" /\ ~closed /\ connection = 0
      /\ \/ Step(c, "idle") /\ UNCHANGED <<link, ensureMu, gen, socket, reader>>
         \/ /\ generation + 1 \in Generations
            /\ generation' = generation + 1 /\ connection' = generation + 1
            /\ socket' = socket \cup {generation + 1}
            /\ reader' = [reader EXCEPT ![generation + 1] = "reading"]
            /\ ensureMu' = c
            /\ gen' = [gen EXCEPT ![c] = generation + 1]
            /\ Step(c, "register") /\ ready' = ready
      /\ UNCHANGED <<call, pending, channel, asked>>
  BY <1>0 DEF EnsureNew, ConnectionTypeOK
<1>2. ConnectionTypeOK'
  <2>1. generation' \in 0..MaxGenerations /\ connection' \in {0, generation'} /\ ready' \in {0, connection'}
    BY <1>0, <1>1 DEF ConnectionTypeOK, link
  <2>2. pc' \in [Callers -> {"idle", "ensure", "snapshot", "register", "check",
                            "write", "wait", "publish"}]
    BY <1>0, <1>1 DEF Step, ConnectionTypeOK
  <2>5. gen' \in [Callers -> 0..MaxGenerations] /\ ensureMu' \in Callers \cup {None}
    <3>1. generation + 1 \in Generations => generation + 1 \in 0..MaxGenerations
      BY <1>0 DEF ConnectionTypeOK
    <3>2. \/ gen' = gen
          \/ generation + 1 \in Generations /\ gen' = [gen EXCEPT ![c] = generation + 1]
      BY <1>1
    <3>3. ensureMu' = ensureMu \/ ensureMu' = c
      BY <1>1
    <3>4. gen \in [Callers -> 0..MaxGenerations] /\ ensureMu \in Callers \cup {None}
      BY <1>0 DEF ConnectionTypeOK
    <3>5. gen' \in [Callers -> 0..MaxGenerations]
      BY <3>1, <3>2, <3>4
    <3> QED
      BY <3>3, <3>4, <3>5
  <2>4. closed' = closed /\ closing' = closing
    BY <1>1 DEF Step
  <2>3. socket' \subseteq Generations /\ reader' \in [Generations -> {"off", "reading", "done"} \cup Ids]
    BY <1>0, <1>1, ZenonT(60) DEF ConnectionTypeOK
  <2> QED
    BY <1>0, <1>1, <2>1, <2>2, <2>3, <2>4, <2>5, Zenon DEF ConnectionTypeOK
<1>3. call[c] = None
  BY <1>0, <1>1 DEF CallsHeld
<1>4. CallsHeld'
  <2>1. \A d \in Callers : call[d] # None => d # c /\ pc'[d] = pc[d] /\ gen'[d] = gen[d]
    BY <1>0, <1>1, <1>3 DEF Step, ConnectionTypeOK, link
  <2>2. \A d \in Callers : gen'[d] <= generation'
    <3>1. \A d \in Callers : gen[d] \in Nat /\ gen[d] <= generation /\ generation \in Nat
      BY <1>0 DEF ConnectionTypeOK, CallsHeld
    <3>2. \A d \in Callers : gen'[d] = gen[d] \/ gen'[d] = generation'
      BY <1>0, <1>1 DEF ConnectionTypeOK
    <3>3. generation' \in {generation, generation + 1}
      BY <1>1 DEF link
    <3> QED
      BY <3>1, <3>2, <3>3
  <2>3. \A d \in Callers :
          /\ pc'[d] \in {"register", "check", "write", "wait", "publish"} => gen'[d] # 0
          /\ pc'[d] = "wait" => call[d] # None
    BY <1>0, <1>1 DEF Step, ConnectionTypeOK, CallsHeld, link
  <2>4. \A d \in Callers : call[d] # None => connection # gen[d] /\ connection' # gen[d]
    BY <1>0, <1>1 DEF ConnectionTypeOK, CallsHeld, link
  <2>5. \A i \in Ids : \A h \in Generations : reader[h] # i => reader'[h] # i
    BY <1>0, <1>1, Zenon DEF ConnectionTypeOK, link
  <2> QED
    BY <1>0, <1>1, <2>1, <2>2, <2>3, <2>4, <2>5 DEF CallsHeld, ConnectionTypeOK
<1>5. AskedOnce'
  <2>1. \A i \in Ids : \A h \in Generations : reader[h] # i => reader'[h] # i
    BY <1>0, <1>1 DEF ConnectionTypeOK
  <2>2. \A d \in Callers : call[d] # None => pc'[d] = pc[d] /\ gen'[d] = gen[d]
    BY <1>0, <1>1, <1>3 DEF Step, ConnectionTypeOK
  <2> QED
    BY <1>0, <1>1, <2>1, <2>2, ConnectionAssumption DEF AskedOnce
<1>6. ReadersHold'
  BY <1>0, <1>1, SMTT(60) DEF ConnectionTypeOK, ReadersHold, link
<1>7. CloseSees'
  BY <1>0, <1>1, Zenon DEF Step, CloseSees
<1> QED
  BY <1>2, <1>4, <1>5, <1>6, <1>7 DEF ConnectionInv

(* A request takes an id that nothing refers to.                           *)
LEMMA RegisterKeeps ==
  ASSUME ConnectionInv, NEW c \in Callers, Register(c)
  PROVE  ConnectionInv'
<1> USE ConnectionAssumption DEF Generations
<1>0. ConnectionTypeOK /\ CallsHeld /\ AskedOnce /\ ReadersHold /\ CloseSees
  BY DEF ConnectionInv
<1>1. PICK i \in Ids : /\ Fresh(i)
                       /\ call' = [call EXCEPT ![c] = i]
                       /\ pending' = [pending EXCEPT ![i] = gen[c]]
                       /\ channel' = [channel EXCEPT ![i] = "empty"]
  BY Zenon DEF Register
<1>2. /\ pc[c] = "register" /\ call[c] = None /\ gen[c] \in Generations
      /\ Step(c, "check")
      /\ UNCHANGED <<link, ensureMu, gen, asked, socket, reader>>
  <2>1. pc[c] = "register"
    BY DEF Register
  <2>2. call[c] = None /\ gen[c] # 0
    BY <1>0, <2>1 DEF CallsHeld
  <2>3. gen[c] \in Generations
    BY <1>0, <2>2 DEF ConnectionTypeOK
  <2> QED
    BY <2>1, <2>2, <2>3 DEF Register
<1>3. ConnectionTypeOK'
  BY <1>0, <1>1, <1>2, Zenon DEF Step, ConnectionTypeOK, link
<1>4. CallsHeld'
  BY <1>0, <1>1, <1>2, SMTT(60) DEF Fresh, Step, ConnectionTypeOK, CallsHeld, link
<1>5. AskedOnce'
  BY <1>0, <1>1, <1>2 DEF Fresh, Step, ConnectionTypeOK, CallsHeld, AskedOnce
<1>6. ReadersHold' /\ CloseSees'
  BY <1>0, <1>1, <1>2 DEF Fresh, Step, ConnectionTypeOK, ReadersHold, CloseSees, link
<1> QED
  BY <1>3, <1>4, <1>5, <1>6 DEF ConnectionInv

(* A written request has no answer yet, in a channel or a reader's hand.   *)
LEMMA WriteKeeps ==
  ASSUME ConnectionInv, NEW c \in Callers, Write(c)
  PROVE  ConnectionInv'
<1> USE ConnectionAssumption DEF Generations
<1>0. ConnectionTypeOK /\ CallsHeld /\ AskedOnce /\ ReadersHold /\ CloseSees
  BY DEF ConnectionInv
<1>1. /\ pc[c] = "write" /\ gen[c] \in Generations
      /\ \/ call[c] = None /\ Step(c, "publish") /\ asked' = asked
         \/ call[c] \in Ids /\ Step(c, "wait") /\ asked' = asked \cup {<<call[c], gen[c]>>}
      /\ UNCHANGED <<link, ensureMu, call, gen, pending, channel, socket, reader>>
  BY <1>0, SMTT(60) DEF Write, ConnectionTypeOK
<1>2. ConnectionTypeOK'
  <2>1. pc' \in [Callers -> {"idle", "ensure", "snapshot", "register", "check",
                              "write", "wait", "publish"}]
    BY <1>0, <1>1, Zenon DEF Step, ConnectionTypeOK
  <2>2. asked' \subseteq Ids \X Generations
    BY <1>0, <1>1 DEF ConnectionTypeOK
  <2>3. closed' = closed /\ closing' = closing
    BY <1>1 DEF Step
  <2> QED
    BY <1>0, <1>1, <2>1, <2>2, <2>3 DEF ConnectionTypeOK, link
<1>3. CallsHeld'
  BY <1>0, <1>1, SMTT(60) DEF Step, ConnectionTypeOK, CallsHeld, link
<1>4. AskedOnce'
  <2>1. \A d \in Callers : pc[d] = "wait" => pc'[d] = "wait"
    BY <1>0, <1>1, Zenon DEF Step, ConnectionTypeOK
  <2>2. call[c] \in Ids => /\ pc'[c] = "wait" /\ channel[call[c]] # "reply"
                           /\ \A h \in Generations : reader[h] # call[c]
    BY <1>0, <1>1, ZenonT(60) DEF Step, ConnectionTypeOK, CallsHeld
  <2> QED
    BY <1>0, <1>1, <2>1, <2>2 DEF AskedOnce
<1>5. ReadersHold' /\ CloseSees'
  BY <1>0, <1>1 DEF Step, ConnectionTypeOK, ReadersHold, CloseSees, link
<1> QED
  BY <1>2, <1>3, <1>4, <1>5 DEF ConnectionInv

(* The reply to initialize lets Ensure go on to write its notification.    *)
LEMMA ReceiveKeeps ==
  ASSUME ConnectionInv, NEW c \in Callers, Receive(c)
  PROVE  ConnectionInv'
<1> USE ConnectionAssumption DEF Generations
<1>0. ConnectionTypeOK /\ CallsHeld /\ AskedOnce /\ ReadersHold /\ CloseSees
  BY DEF ConnectionInv
<1> DEFINE taken == [channel EXCEPT ![call[c]] = "empty"]
<1>1. CASE Fail(c, taken)
  BY <1>0, <1>1, RequestEnds, EndKeeps, Zenon DEF Receive
<1>2. CASE /\ channel[call[c]] = "reply"
           /\ Forget(call[c], taken)
           /\ call' = [call EXCEPT ![c] = None]
           /\ Step(c, "check")
           /\ UNCHANGED <<ensureMu, gen, asked, reader>>
  <2>0. pc[c] = "wait" /\ call[c] \in Ids
    BY <1>0 DEF Receive, CallsHeld, ConnectionTypeOK
  <2>1. ConnectionTypeOK'
    BY <1>0, <1>2, <2>0, SMTT(60) DEF Forget, Step, ConnectionTypeOK, link
  <2>2. CallsHeld'
    BY <1>0, <1>2, <2>0, SMTT(60) DEF Forget, Step, ConnectionTypeOK, CallsHeld, link
  <2>3. AskedOnce'
    BY <1>0, <1>2, <2>0 DEF Forget, Step, ConnectionTypeOK, CallsHeld, AskedOnce, link
  <2>4. ReadersHold' /\ CloseSees'
    BY <1>0, <1>2, <2>0, ZenonT(60) DEF Forget, Step, ConnectionTypeOK, ReadersHold, CloseSees, link
  <2> QED
    BY <2>1, <2>2, <2>3, <2>4 DEF ConnectionInv
<1> QED
  BY <1>1, <1>2, Zenon DEF Receive

(* The reader takes the answer of a request that still waits for it, or    *)
(* of one that is no longer registered.                                    *)
LEMMA ReadKeeps ==
  ASSUME ConnectionInv, NEW g \in Generations, ReadReply(g)
  PROVE  ConnectionInv'
<1> USE ConnectionAssumption DEF Generations
<1>0. ConnectionTypeOK /\ CallsHeld /\ AskedOnce /\ ReadersHold /\ CloseSees
  BY DEF ConnectionInv
<1>1. PICK i \in Ids :
        /\ <<i, g>> \in asked
        /\ asked' = asked \ {<<i, g>>}
        /\ reader' = [reader EXCEPT ![g] = IF pending[i] = g THEN i ELSE "reading"]
  BY Zenon DEF ReadReply
<1>2. /\ reader[g] = "reading"
      /\ UNCHANGED <<link, closed, closing, ensureMu, pc, call, gen, pending, channel, socket>>
  BY DEF ReadReply, CallersStay
<1>3. PICK c \in Callers : call[c] = i /\ pc[c] = "wait" /\ gen[c] = g
  BY <1>0, <1>1 DEF AskedOnce
<1>4. /\ channel[i] # "reply" /\ \A h \in Generations : reader[h] # i
      /\ connection = g => channel[i] # "lost"
      /\ \A d \in Callers : call[d] = i => d = c
      /\ \A h \in Generations : <<i, h>> \in asked => h = g
  BY <1>0, <1>1, <1>3 DEF AskedOnce, CallsHeld
<1>5. ConnectionTypeOK'
  BY <1>0, <1>1, <1>2, Zenon DEF ConnectionTypeOK, link
<1>6. CallsHeld'
  BY <1>0, <1>1, <1>2, <1>3, <1>4, SMTT(60) DEF ConnectionTypeOK, CallsHeld, link
<1>7. AskedOnce'
  BY <1>0, <1>1, <1>2, <1>4, SMTT(60) DEF ConnectionTypeOK, AskedOnce
<1>8. ReadersHold' /\ CloseSees'
  BY <1>0, <1>1, <1>2, <1>4 DEF ConnectionTypeOK, ReadersHold, CloseSees, link
<1> QED
  BY <1>5, <1>6, <1>7, <1>8 DEF ConnectionInv

(* It puts the answer in the channel of its call.                          *)
LEMMA DeliverKeeps ==
  ASSUME ConnectionInv, NEW g \in Generations, DeliverReply(g)
  PROVE  ConnectionInv'
<1> USE ConnectionAssumption DEF Generations
<1>0. ConnectionTypeOK /\ CallsHeld /\ AskedOnce /\ ReadersHold /\ CloseSees
  BY DEF ConnectionInv
<1> DEFINE i == reader[g]
<1>1. /\ i \in Ids
      /\ channel' = [channel EXCEPT ![i] = "reply"]
      /\ reader' = [reader EXCEPT ![g] = "reading"]
      /\ UNCHANGED <<link, closed, closing, ensureMu, pc, call, gen, pending, asked, socket>>
  BY DEF DeliverReply, CallersStay
<1>2. ConnectionTypeOK'
  BY <1>0, <1>1, Zenon DEF ConnectionTypeOK, link
<1>3. CallsHeld'
  BY <1>0, <1>1 DEF ConnectionTypeOK, CallsHeld, link
<1>4. AskedOnce'
  BY <1>0, <1>1 DEF ConnectionTypeOK, AskedOnce
<1>5. ReadersHold' /\ CloseSees'
  BY <1>0, <1>1, ZenonT(60) DEF ConnectionTypeOK, ReadersHold, CloseSees, link
<1> QED
  BY <1>2, <1>3, <1>4, <1>5 DEF ConnectionInv

(* The invariant is inductive.                                             *)
LEMMA Inductive == ConnectionInv /\ [Next]_vars => ConnectionInv'
<1> SUFFICES ASSUME ConnectionInv, [Next]_vars PROVE ConnectionInv'
  OBVIOUS
<1> USE ConnectionAssumption
<1>0. ConnectionTypeOK /\ CallsHeld
  BY DEF ConnectionInv
<1>1. ASSUME NEW c \in Callers, Begin(c) \/ CallerStep(c) \/ GiveUp(c) PROVE ConnectionInv'
  <2>1. CASE RefuseWrite(c) \/ BreakWrite(c) \/ GiveUp(c)
    BY <1>0, <2>1, RequestEnds, EndKeeps, Zenon
  <2> QED
    BY <1>1, <2>1, EnsureKeeps, DialKeeps, RegisterKeeps, WriteKeeps, ReceiveKeeps DEF CallerStep
<1>2. ASSUME NEW g \in Generations, ReaderStep(g) \/ ServerCloses(g) PROVE ConnectionInv'
  <2>1. CASE ReadFails(g)
    BY <2>1, DropKeeps, ZenonT(60) DEF ReadFails
  <2>2. CASE ServerCloses(g)
    <3>1. ConnectionTypeOK'
      BY <2>2 DEF ServerCloses, CallersStay, link, ConnectionInv, ConnectionTypeOK
    <3>2. CallsHeld' /\ AskedOnce'
      BY <2>2 DEF ServerCloses, CallersStay, link, ConnectionInv, ConnectionTypeOK, CallsHeld, AskedOnce
    <3>3. ReadersHold' /\ CloseSees'
      BY <2>2 DEF ServerCloses, CallersStay, link, ConnectionInv, ConnectionTypeOK, CallsHeld, ReadersHold, CloseSees
    <3> QED
      BY <3>1, <3>2, <3>3, Zenon DEF ConnectionInv
  <2> QED
    BY <1>2, <2>1, <2>2, ReadKeeps, DeliverKeeps DEF ReaderStep
<1>3. CASE Close
  <2>1. ConnectionTypeOK'
    BY <1>3 DEF Close, CallersStay, link, ConnectionInv, ConnectionTypeOK
  <2>2. CallsHeld' /\ AskedOnce'
    BY <1>3 DEF Close, CallersStay, link, ConnectionInv, ConnectionTypeOK, CallsHeld, AskedOnce
  <2>3. ReadersHold' /\ CloseSees'
    BY <1>3 DEF Close, CallersStay, link, ConnectionInv, ConnectionTypeOK, CallsHeld, ReadersHold, CloseSees
  <2> QED
    BY <2>1, <2>2, <2>3, Zenon DEF ConnectionInv
<1>4. CASE CloseDetaches
  <2>1. closing \in Generations
    BY <1>0, <1>4, SMTT(60) DEF CloseDetaches, ConnectionTypeOK, Generations
  <2> QED
    BY <1>4, <2>1, DropKeeps DEF CloseDetaches
<1>5. CASE UNCHANGED vars
  <2>1. ConnectionTypeOK'
    BY <1>5 DEF vars, link, ConnectionInv, ConnectionTypeOK
  <2>2. CallsHeld' /\ AskedOnce'
    BY <1>5 DEF vars, link, ConnectionInv, ConnectionTypeOK, CallsHeld, AskedOnce
  <2>3. ReadersHold' /\ CloseSees'
    BY <1>5 DEF vars, link, ConnectionInv, ConnectionTypeOK, CallsHeld, ReadersHold, CloseSees
  <2> QED
    BY <2>1, <2>2, <2>3, Zenon DEF ConnectionInv
<1> QED
  BY <1>1, <1>2, <1>3, <1>4, <1>5 DEF Next

(* So does every initial state satisfy it.                                 *)
LEMMA Initially == Init => ConnectionInv
<1> SUFFICES ASSUME Init PROVE ConnectionInv
  OBVIOUS
<1>1. ConnectionTypeOK
  <2>1. 0 \in 0..MaxGenerations
    BY ConnectionAssumption
  <2> QED
    BY <2>1, Zenon DEF Init, ConnectionTypeOK
<1>2. CallsHeld /\ AskedOnce /\ CloseSees
  BY DEF Init, CallsHeld, AskedOnce, CloseSees
<1>3. ReadersHold
  BY ConnectionAssumption DEF Init, ReadersHold
<1> QED
  BY <1>1, <1>2, <1>3 DEF ConnectionInv

(* It therefore holds in every behaviour.                                  *)
LEMMA InvariantHolds == Spec => []ConnectionInv
BY Initially, Inductive, PTL DEF Spec

(* A caller that waits on a connection that is gone has an answer, for any *)
(* number of callers, requests and connections (detachConnectionLocked).   *)
THEOREM NoCallIsForgotten == Spec => []LostCallsAnswered
<1>1. ConnectionInv => LostCallsAnswered
  BY Zenon DEF ConnectionInv, CallsHeld, LostCallsAnswered
<1> QED
  BY <1>1, InvariantHolds, PTL

(* The reader of the attached connection always finds room in the channel  *)
(* of the call it answers (readLoop).                                      *)
THEOREM ReaderNeverBlocks == Spec => []ReaderFree
<1>1. ConnectionInv => ReaderFree
  BY DEF ConnectionInv, ConnectionTypeOK, ReadersHold, ReaderFree
<1> QED
  BY <1>1, InvariantHolds, PTL

(* After Close nothing is attached (Ensure and Close).                     *)
THEOREM CloseIsFinal == Spec => []ClosedIsDetached
<1>1. ConnectionInv => ClosedIsDetached
  BY DEF ConnectionInv, CloseSees, ClosedIsDetached
<1> QED
  BY <1>1, InvariantHolds, PTL

-----------------------------------------------------------------------------
(* Dropping a connection detaches the link or leaves it.                   *)
LEMMA SettleFollows ==
  ASSUME ConnectionInv, NEW g \in Generations, NEW i, NEW buffered, Settle(g, i, buffered)
  PROVE  [Network!LinkNext]_(Network!linkVars)
BY ConnectionAssumption, Zenon
   DEF ConnectionInv, ConnectionTypeOK, Settle, Generations, Network!LinkNext, Network!Detach, Network!linkVars

(* Every step of a caller, a reader or Close is a step of the link or none *)
(* of it.                                                                  *)
LEMMA StepFollows == ConnectionInv /\ [Next]_vars => [Network!LinkNext]_(Network!linkVars)
<1> SUFFICES ASSUME ConnectionInv, [Next]_vars PROVE [Network!LinkNext]_(Network!linkVars)
  OBVIOUS
<1> USE ConnectionAssumption
<1>0. ConnectionTypeOK /\ CallsHeld
  BY DEF ConnectionInv
<1>1. ASSUME UNCHANGED link PROVE [Network!LinkNext]_(Network!linkVars)
  BY <1>1 DEF link, Network!linkVars
<1>2. ASSUME NEW c \in Callers, Begin(c) \/ CallerStep(c) \/ GiveUp(c)
      PROVE  [Network!LinkNext]_(Network!linkVars)
  <2>1. ASSUME NEW buffered, Ends(c, buffered) PROVE [Network!LinkNext]_(Network!linkVars)
    <3>1. gen[c] \in Generations
      BY <1>0, <2>1 DEF Ends, CallsHeld, ConnectionTypeOK, Generations
    <3>2. CASE Settle(gen[c], call[c], buffered)
      BY <3>1, <3>2, SettleFollows
    <3>3. CASE Forget(call[c], buffered)
      BY <1>1, <3>3 DEF Forget
    <3> QED
      BY <2>1, <3>2, <3>3, SMTT(60) DEF Ends
  <2>2. CASE RefuseWrite(c) \/ BreakWrite(c) \/ GiveUp(c) \/ Receive(c)
    <3>1. CASE UNCHANGED link
      BY <1>1, <3>1
    <3>2. CASE ~UNCHANGED link
      <4>1. RefuseWrite(c) \/ BreakWrite(c) \/ GiveUp(c)
            \/ (pc[c] = "wait" /\ Fail(c, [channel EXCEPT ![call[c]] = "empty"]))
        BY <2>2, <3>2, Zenon DEF Receive, Forget
      <4> QED
        BY <1>0, <2>1, <4>1, RequestEnds
    <3> QED
      BY <3>1, <3>2
  <2>3. CASE EnsureNew(c)
    BY <1>0, <2>3, Zenon DEF EnsureNew, ConnectionTypeOK, link, Network!LinkNext, Network!Attach, Network!linkVars
  <2>4. CASE PublishReady(c)
    BY <1>0, <2>4, Zenon DEF PublishReady, ConnectionTypeOK, CallsHeld, Network!LinkNext, Network!Publish, Network!linkVars
  <2>5. CASE Begin(c) \/ EnsureOld(c) \/ Snapshot(c) \/ Register(c) \/ CheckWrite(c) \/ Write(c)
    BY <1>1, <2>5, Zenon DEF Begin, EnsureOld, Snapshot, Register, CheckWrite, Write
  <2> QED
    BY <1>2, <2>2, <2>3, <2>4, <2>5 DEF CallerStep
<1>3. ASSUME NEW g \in Generations, ReaderStep(g) \/ ServerCloses(g)
      PROVE  [Network!LinkNext]_(Network!linkVars)
  <2>1. CASE ReadFails(g)
    BY <2>1, SettleFollows, SMTT(60) DEF ReadFails
  <2>2. CASE ReadReply(g) \/ DeliverReply(g) \/ ServerCloses(g)
    BY <1>1, <2>2, Zenon DEF ReadReply, DeliverReply, ServerCloses
  <2> QED
    BY <1>3, <2>1, <2>2 DEF ReaderStep
<1>4. CASE CloseDetaches
  <2>1. closing \in Generations
    BY <1>0, <1>4 DEF CloseDetaches, ConnectionTypeOK, Generations
  <2> QED
    BY <1>4, <2>1, SettleFollows DEF CloseDetaches
<1>5. CASE Close \/ UNCHANGED vars
  BY <1>1, <1>5 DEF Close, vars
<1> QED
  BY <1>2, <1>3, <1>4, <1>5 DEF Next

(* The transport implements the link that prompts and watches build on:    *)
(* one generation at a time, numbered upwards, usable once initialized.    *)
THEOREM ImplementsLink == Spec => FollowsLink
<1>1. Init => Network!LinkInit
  BY DEF Init, Network!LinkInit
<1> QED
  BY <1>1, StepFollows, InvariantHolds, PTL DEF Spec, FollowsLink, Network!LinkSpec

-----------------------------------------------------------------------------
(***************************************************************************)
(* PageLanes: a page in view keeps up with the server.                     *)
(***************************************************************************)
Sources == {NoSource} \cup
  [on : {TRUE}, open : BOOLEAN, feed : {"none", "up", "lost"}, hint : BOOLEAN, news : BOOLEAN,
   since : Nat]
Reads == {NoRead, [at |-> "asked"], [at |-> "applied"]} \cup [at : {"answered"}, value : Nat]
Pages ==
  [hidden : BOOLEAN, destroyed : BOOLEAN, suspended : BOOLEAN, dirty : BOOLEAN,
   source : Sources, active : Reads, succeeded : BOOLEAN, streamFailed : BOOLEAN,
   needsSync : BOOLEAN, readError : BOOLEAN,
   refreshTimer : BOOLEAN, retryTimer : BOOLEAN, watchTimer : BOOLEAN]

(* A page that is away does nothing.                                       *)
Still(p) ==
  /\ p.hidden \/ p.destroyed => p.suspended
  /\ p.suspended => /\ ~p.refreshTimer /\ ~p.retryTimer /\ ~p.watchTimer
                    /\ p.source = NoSource /\ p.active = NoRead

(* What is due will be done.                                               *)
Attended(p) ==
  ~p.suspended /\ (p.dirty \/ ~p.source.on) => ~AtRest(p)

(* What the page shows and reads, against versions v and s of the server   *)
(* and the page.                                                           *)
Reading(p, v, s) ==
  /\ s <= v
  /\ p.active.at = "answered" => s <= p.active.value /\ p.active.value <= v
  /\ p.source.on => p.source.since <= v /\ (p.source.open => p.source.feed # "none")
  /\ StreamOpen(p) =>
       /\ p.active.at = "answered" => p.active.value >= p.source.since
       /\ p.active.at = "applied" \/ ~p.needsSync => s >= p.source.since
       /\ p.retryTimer => p.needsSync

Told(p, v, s) ==
  StreamOpen(p) /\ p.source.feed = "up" =>
    \/ s = v \/ p.source.hint \/ p.dirty
    \/ p.active = NoRead /\ (p.refreshTimer \/ p.retryTimer)
    \/ p.active.at = "asked"
    \/ p.active.at = "answered" /\ p.active.value = v

(* What a handler may be left with before it has scheduled a read, and     *)
(* what it leaves.                                                         *)
Fair(p, v, s) == p \in Pages /\ v \in Nat /\ s \in Nat /\ Still(p) /\ Reading(p, v, s)
Good(p, v, s) == Fair(p, v, s) /\ Attended(p) /\ Told(p, v, s)
Kept(q, p) ==
  /\ q.watchTimer = p.watchTimer /\ q.suspended = p.suspended
  /\ q.source = p.source \/ ~StreamOpen(q)

(* The fields other than the source and the read.                          *)
Same(q, p) ==
  /\ q.hidden = p.hidden /\ q.destroyed = p.destroyed /\ q.suspended = p.suspended
  /\ q.dirty = p.dirty /\ q.succeeded = p.succeeded /\ q.streamFailed = p.streamFailed
  /\ q.needsSync = p.needsSync /\ q.readError = p.readError
  /\ q.refreshTimer = p.refreshTimer /\ q.retryTimer = p.retryTimer
  /\ q.watchTimer = p.watchTimer

(* The fields of a page.                                                   *)
LEMMA Fields ==
  ASSUME NEW p \in Pages
  PROVE  /\ p.hidden \in BOOLEAN /\ p.destroyed \in BOOLEAN /\ p.suspended \in BOOLEAN
         /\ p.dirty \in BOOLEAN /\ p.source \in Sources /\ p.active \in Reads
         /\ p.succeeded \in BOOLEAN /\ p.streamFailed \in BOOLEAN /\ p.needsSync \in BOOLEAN
         /\ p.readError \in BOOLEAN /\ p.refreshTimer \in BOOLEAN /\ p.retryTimer \in BOOLEAN
         /\ p.watchTimer \in BOOLEAN
BY DEF Pages

(* Nothing is read, and there is no stream.                                *)
LEMMA Nothing ==
  ~NoSource.on /\ NoSource \in Sources /\ NoRead.at = "none" /\ NoRead \in Reads
BY DEF NoSource, NoRead, Sources, Reads

(* The fields of an event source and of a read.                            *)
LEMMA SourceFields ==
  ASSUME NEW c \in Sources
  PROVE  /\ c.on \in BOOLEAN
         /\ c.on => /\ c.open \in BOOLEAN /\ c.feed \in {"none", "up", "lost"}
                    /\ c.hint \in BOOLEAN /\ c.news \in BOOLEAN /\ c.since \in Nat
         /\ c = NoSource \/ c.on
<1>1. CASE c = NoSource
  BY <1>1 DEF Sources, NoSource
<1>2. CASE c # NoSource
  <2>1. c \in [on : {TRUE}, open : BOOLEAN, feed : {"none", "up", "lost"}, hint : BOOLEAN,
               news : BOOLEAN, since : Nat]
    BY <1>2, Zenon DEF Sources
  <2> QED BY <2>1, Zenon DEF Sources, NoSource
<1> QED BY <1>1, <1>2

(* A read is known by its stage.                                           *)
LEMMA ReadFields ==
  ASSUME NEW r \in Reads
  PROVE  /\ r.at \in {"none", "asked", "answered", "applied"}
         /\ r.at = "none" <=> r = NoRead
         /\ r.at = "answered" => r.value \in Nat
BY DEF Reads, NoRead

(* A page whose source changes.                                            *)
LEMMA WithSource ==
  ASSUME NEW p \in Pages, NEW c \in Sources, NEW q, q = [p EXCEPT !.source = c]
  PROVE  q \in Pages /\ Same(q, p) /\ q.source = c /\ q.active = p.active
BY Fields DEF Pages, Same

(* A page whose read changes.                                              *)
LEMMA WithRead ==
  ASSUME NEW p \in Pages, NEW r \in Reads, NEW q, q = [p EXCEPT !.active = r]
  PROVE  q \in Pages /\ Same(q, p) /\ q.source = p.source /\ q.active = r
BY Fields DEF Pages, Same

(* A read is scheduled, which leaves a page well.                          *)
LEMMA RefreshIsGood ==
  ASSUME NEW p, NEW v, NEW s, Fair(p, v, s), ~p.suspended
  PROVE  Good(ScheduleRefresh(p), v, s) /\ Kept(ScheduleRefresh(p), p)
<1> DEFINE q == ScheduleRefresh(p)
<1> USE DEF Fair
<1>1. /\ q.hidden = p.hidden /\ q.destroyed = p.destroyed /\ q.suspended = p.suspended
      /\ q.source = p.source /\ q.active = p.active /\ q.succeeded = p.succeeded
      /\ q.streamFailed = p.streamFailed /\ q.needsSync = p.needsSync /\ q.readError = p.readError
      /\ q.retryTimer = p.retryTimer /\ q.watchTimer = p.watchTimer /\ q.dirty = TRUE
      /\ p.refreshTimer => q.refreshTimer
      /\ ~(p.readError /\ p.retryTimer) /\ p.active = NoRead => q.refreshTimer
  BY Fields DEF ScheduleRefresh, Pages, Still
<1>2. q \in Pages
  BY Fields, ZenonT(60) DEF ScheduleRefresh, Pages
<1> HIDE DEF q
<1>3. Still(q) /\ Attended(q) /\ Reading(q, v, s) /\ Told(q, v, s)
  BY <1>1, Fields, ZenonT(60) DEF Still, Attended, Reading, Told, AtRest, StreamOpen
<1> QED BY <1>1, <1>2, <1>3, Zenon DEF Good, Fair, Kept, q

(* connect() and a read.                                                   *)
LEMMA ConnectsIsFair ==
  ASSUME NEW p, NEW v, NEW s, Fair(p, v, s), ~p.suspended, NEW q \in Connects(p)
  PROVE  Fair(q, v, s) /\ Kept(q, p)
<1> USE DEF Fair
<1>1. CASE q = p
  BY <1>1 DEF Kept
<1>2. CASE ~p.source.on /\ q = [p EXCEPT !.source = NewSource]
  <2>1. NewSource \in Sources /\ NewSource.on /\ ~NewSource.open /\ NewSource.since = 0
    BY Zenon DEF NewSource, Sources
  <2>2. q \in Pages
    BY <1>2, <2>1, Fields DEF Pages
  <2>3. /\ q.hidden = p.hidden /\ q.destroyed = p.destroyed /\ q.suspended = p.suspended
        /\ q.source = NewSource /\ q.active = p.active /\ q.watchTimer = p.watchTimer
    BY <1>2 DEF Pages
  <2> QED BY <2>1, <2>2, <2>3, Fields DEF Still, Reading, StreamOpen, Kept
<1>3. CASE ~p.source.on /\ q = ScheduleRetry([p EXCEPT !.streamFailed = TRUE])
  <2>1. q = [p EXCEPT !.streamFailed = TRUE, !.retryTimer = TRUE]
    BY <1>3, Fields DEF ScheduleRetry, Pages, Still
  <2>2. q \in Pages
    BY <2>1, Fields, ZenonT(60) DEF Pages
  <2>3. /\ q.hidden = p.hidden /\ q.destroyed = p.destroyed /\ q.suspended = p.suspended
        /\ q.source = p.source /\ q.active = p.active /\ q.watchTimer = p.watchTimer
    BY <2>1 DEF Pages
  <2> QED BY <1>3, <2>2, <2>3, Fields DEF Still, Reading, StreamOpen, Kept
<1> QED BY <1>1, <1>2, <1>3 DEF Connects, Away, Still

(* connect() followed by a read leaves a page well.                        *)
LEMMA ReadsIsGood ==
  ASSUME NEW p, NEW v, NEW s, Fair(p, v, s), ~p.suspended, NEW q \in ConnectsAndReads(p)
  PROVE  Good(q, v, s) /\ Kept(q, p)
<1>1. PICK c \in Connects(p) : q = ScheduleRefresh(c)
  BY DEF ConnectsAndReads
<1>2. Fair(c, v, s) /\ Kept(c, p) /\ ~c.suspended
  BY ConnectsIsFair DEF Kept
<1>3. Good(q, v, s) /\ Kept(q, c)
  BY <1>1, <1>2, RefreshIsGood
<1> QED BY <1>2, <1>3, Zenon DEF Kept, StreamOpen

(* recover(), from a page that is well or, when forced, only fair.         *)
LEMMA RecoversIsGood ==
  ASSUME NEW p, NEW v, NEW s, NEW force, Fair(p, v, s), ~p.suspended,
         force \/ Good(p, v, s), NEW q \in Recovers(p, force)
  PROVE  Good(q, v, s) /\ Kept(q, p)
<1> USE DEF Fair
<1> DEFINE n == [p EXCEPT !.retryTimer = FALSE]
           r == [n EXCEPT !.needsSync = TRUE]
           c == CloseStream(CancelRead(r))
<1>1. ~Away(p)
  BY DEF Away, Still
<1>2. CASE q \in ConnectsAndReads(c)
  <2>1. c = [p EXCEPT !.retryTimer = FALSE, !.needsSync = TRUE, !.active = NoRead, !.source = NoSource]
    BY DEF CloseStream, CancelRead, Pages
  <2>2. c \in Pages
    BY <2>1, Fields, Nothing, ReadFields, SourceFields, ZenonT(60) DEF Pages
  <2>3. /\ c.hidden = p.hidden /\ c.destroyed = p.destroyed /\ c.suspended = p.suspended
        /\ c.source = NoSource /\ c.active = NoRead /\ c.watchTimer = p.watchTimer
    BY <2>1, Zenon DEF Pages
  <2> HIDE DEF c
  <2>4. Fair(c, v, s) /\ ~c.suspended
    BY <2>2, <2>3, Fields, Nothing, ReadFields, SourceFields, Zenon DEF Still, Reading, StreamOpen
  <2>5. Good(q, v, s) /\ Kept(q, c)
    BY <1>2, <2>4, ReadsIsGood
  <2> QED BY <2>3, <2>5, Nothing, Zenon DEF Kept, StreamOpen
<1>3. CASE q \in ConnectsAndReads(r)
  <2>1. r = [p EXCEPT !.retryTimer = FALSE, !.needsSync = TRUE]
    BY DEF Pages
  <2>2. r \in Pages
    BY <2>1, Fields, ZenonT(60) DEF Pages
  <2>3. /\ r.hidden = p.hidden /\ r.destroyed = p.destroyed /\ r.suspended = p.suspended
        /\ r.source = p.source /\ r.active = p.active /\ r.watchTimer = p.watchTimer
        /\ r.needsSync /\ ~r.retryTimer
    BY <2>1 DEF Pages
  <2> HIDE DEF r
  <2>4. Fair(r, v, s) /\ ~r.suspended
    BY <2>2, <2>3, Fields, Zenon DEF Still, Reading, StreamOpen
  <2>5. Good(q, v, s) /\ Kept(q, r)
    BY <1>3, <2>4, ReadsIsGood
  <2> QED BY <2>3, <2>5, Zenon DEF Kept
<1>4. CASE ~force /\ StreamOpen(p) /\ ~p.needsSync /\ q = n
  <2>1. p.retryTimer = FALSE
    BY <1>4, Fields DEF Reading
  <2>2. n = p
    BY <2>1 DEF Pages
  <2> QED BY <1>4, <2>2, Zenon DEF Kept
<1> QED BY <1>1, <1>2, <1>3, <1>4 DEF Recovers

(* pagehide() leaves any page well.                                        *)
LEMMA SuspendIsGood ==
  ASSUME NEW p \in Pages, NEW v \in Nat, NEW s \in Nat, s <= v
  PROVE  Good(Suspend(p), v, s) /\ Suspend(p).suspended
<1> DEFINE q == Suspend(p)
<1>1. q = [p EXCEPT !.active = NoRead, !.source = NoSource, !.suspended = TRUE, !.dirty = TRUE,
             !.needsSync = TRUE, !.refreshTimer = FALSE, !.retryTimer = FALSE, !.watchTimer = FALSE]
  BY DEF Suspend, CloseStream, CancelRead, Pages
<1>2. q \in Pages
  BY <1>1, Fields, Nothing, ReadFields, SourceFields, ZenonT(120) DEF Pages
<1>3. /\ q.suspended /\ ~q.refreshTimer /\ ~q.retryTimer /\ ~q.watchTimer
      /\ q.source = NoSource /\ q.active = NoRead
  BY <1>1 DEF Pages
<1> HIDE DEF q
<1>4. Still(q)
  BY <1>2, <1>3, Nothing, Fields, ReadFields, SourceFields, Zenon DEF Still
<1>5. Reading(q, v, s)
  BY <1>2, <1>3, Nothing, Fields, ReadFields, SourceFields, Zenon DEF Reading, StreamOpen
<1>6. Attended(q) /\ Told(q, v, s)
  BY <1>2, <1>3, Nothing, Fields, ReadFields, SourceFields, Zenon DEF Attended, Told, StreamOpen
<1>7. Good(q, v, s) /\ q.suspended
  BY <1>2, <1>3, <1>4, <1>5, <1>6 DEF Good, Fair
<1> QED BY <1>7 DEF q

(* A read is started, now.                                                 *)
LEMMA NowIsGood ==
  ASSUME NEW p, NEW v, NEW s, Fair(p, v, s), ~p.suspended
  PROVE  Good(RefreshNow(p), v, s) /\ Kept(RefreshNow(p), p)
<1> DEFINE q == RefreshNow(p)
<1> USE DEF Fair
<1>1. ~Away(p)
  BY DEF Away, Still
<1>2. CASE p.active # NoRead
  <2>1. q = [p EXCEPT !.dirty = TRUE]
    BY <1>1, <1>2 DEF RefreshNow
  <2>2. q \in Pages
    BY <2>1, Fields, ZenonT(60) DEF Pages
  <2>3. /\ q.hidden = p.hidden /\ q.destroyed = p.destroyed /\ q.suspended = p.suspended
        /\ q.source = p.source /\ q.active = p.active /\ q.needsSync = p.needsSync
        /\ q.retryTimer = p.retryTimer /\ q.watchTimer = p.watchTimer /\ q.dirty
        /\ q.refreshTimer = p.refreshTimer
    BY <2>1 DEF Pages
  <2> HIDE DEF q
  <2>4. Still(q) /\ Attended(q) /\ Reading(q, v, s) /\ Told(q, v, s)
    BY <1>2, <2>3, Fields, ZenonT(60) DEF Still, Attended, Reading, Told, AtRest, StreamOpen
  <2> QED BY <2>2, <2>3, <2>4, Zenon DEF Good, Kept, q
<1>3. CASE p.active = NoRead
  <2> DEFINE a == [at |-> "asked"]
  <2>1. q = [p EXCEPT !.refreshTimer = FALSE, !.dirty = FALSE, !.active = a]
    BY <1>1, <1>3 DEF RefreshNow
  <2>2. a \in Reads /\ a.at = "asked" /\ a # NoRead
    BY Zenon DEF Reads, NoRead
  <2> HIDE DEF a
  <2>3. q \in Pages
    BY <2>1, <2>2, Fields, ZenonT(60) DEF Pages
  <2>4. /\ q.hidden = p.hidden /\ q.destroyed = p.destroyed /\ q.suspended = p.suspended
        /\ q.source = p.source /\ q.active = a /\ q.needsSync = p.needsSync
        /\ q.retryTimer = p.retryTimer /\ q.watchTimer = p.watchTimer /\ ~q.refreshTimer
    BY <2>1 DEF Pages
  <2> HIDE DEF q
  <2>5. Still(q) /\ Attended(q) /\ Reading(q, v, s) /\ Told(q, v, s)
    BY <2>2, <2>4, Fields, Zenon DEF Still, Attended, Reading, Told, AtRest, StreamOpen
  <2> QED BY <2>3, <2>4, <2>5, Zenon DEF Good, Kept, q
<1> QED BY <1>2, <1>3

(* The stream is given up.                                                 *)
LEMMA BrokenIsGood ==
  ASSUME NEW p, NEW v, NEW s, Fair(p, v, s), ~p.suspended
  PROVE  Good(StreamBroken(p), v, s) /\ Kept(StreamBroken(p), p)
<1> DEFINE c == [CloseStream(p) EXCEPT !.streamFailed = TRUE, !.needsSync = TRUE]
           r == ScheduleRetry(c)
<1> USE DEF Fair
<1>1. r = [p EXCEPT !.source = NoSource, !.streamFailed = TRUE, !.needsSync = TRUE, !.retryTimer = TRUE]
  BY Fields DEF CloseStream, ScheduleRetry, Pages, Still
<1>2. r \in Pages
  BY <1>1, Nothing, Fields, ZenonT(60) DEF Pages
<1>3. /\ r.hidden = p.hidden /\ r.destroyed = p.destroyed /\ r.suspended = p.suspended
      /\ r.source = NoSource /\ r.active = p.active /\ r.watchTimer = p.watchTimer
  BY <1>1, Zenon DEF Pages
<1>4. StreamBroken(p) = ScheduleRefresh(r)
  BY DEF StreamBroken
<1> HIDE DEF r
<1>5. Fair(r, v, s) /\ ~r.suspended
  BY <1>2, <1>3, Nothing, Fields, Zenon DEF Still, Reading, StreamOpen
<1>6. Good(StreamBroken(p), v, s) /\ Kept(StreamBroken(p), r)
  BY <1>4, <1>5, RefreshIsGood, Zenon
<1> QED BY <1>3, <1>6, Nothing, Zenon DEF Kept, StreamOpen

(* A read that was applied ends.                                           *)
LEMMA FinishedIsGood ==
  ASSUME NEW p, NEW v, NEW s, Good(p, v, s), p.active.at = "applied"
  PROVE  Good(Finished(p), v, s) /\ Kept(Finished(p), p)
<1> DEFINE q == [p EXCEPT !.succeeded = TRUE, !.readError = FALSE, !.needsSync = FALSE]
           r == IF StreamOpen(q) THEN [q EXCEPT !.streamFailed = FALSE, !.retryTimer = FALSE]
                ELSE ScheduleRetry(q)
           c == CancelRead(r)
<1> USE DEF Good, Fair
<1>1. ~p.suspended /\ ~p.destroyed
  BY Nothing, Fields, Zenon DEF Still
<1>2. /\ q \in Pages /\ ~q.suspended /\ ~q.destroyed /\ ~q.needsSync /\ q.source = p.source
      /\ q.hidden = p.hidden /\ q.refreshTimer = p.refreshTimer /\ q.retryTimer = p.retryTimer
      /\ q.watchTimer = p.watchTimer /\ q.dirty = p.dirty
  BY <1>1, Fields, Zenon DEF Pages
<1>3. Finished(p) = IF r.dirty THEN ScheduleRefresh(c) ELSE c
  BY DEF Finished
<1> HIDE DEF q
<1>4. /\ r \in Pages /\ ~r.suspended /\ ~r.destroyed /\ ~r.needsSync /\ r.source = p.source
      /\ r.hidden = p.hidden /\ r.watchTimer = p.watchTimer
      /\ r.dirty = p.dirty /\ (IF StreamOpen(p) THEN ~r.retryTimer ELSE r.retryTimer)
  <2>1. CASE StreamOpen(p)
    <3>1. r = [q EXCEPT !.streamFailed = FALSE, !.retryTimer = FALSE]
      BY <2>1, <1>2 DEF StreamOpen
    <3> QED BY <2>1, <3>1, <1>2, Fields, ZenonT(60) DEF Pages
  <2>2. CASE ~StreamOpen(p)
    <3>1. r = [q EXCEPT !.retryTimer = TRUE]
      BY <2>2, <1>2 DEF StreamOpen, ScheduleRetry
    <3> QED BY <2>2, <3>1, <1>2, Fields, ZenonT(60) DEF Pages
  <2> QED BY <2>1, <2>2
<1> HIDE DEF r
<1>5. /\ c \in Pages /\ ~c.suspended /\ ~c.destroyed /\ ~c.needsSync /\ c.source = p.source
      /\ c.hidden = p.hidden /\ c.watchTimer = p.watchTimer /\ c.active = NoRead
      /\ c.dirty = p.dirty /\ (IF StreamOpen(p) THEN ~c.retryTimer ELSE c.retryTimer)
  BY <1>4, Nothing, WithRead DEF CancelRead, Same
<1> HIDE DEF c
<1>6. Fair(c, v, s) /\ Kept(c, p)
  BY <1>1, <1>5, Nothing, Fields, ZenonT(60) DEF Still, Reading, StreamOpen, Kept
<1>7. CASE r.dirty
  <2>1. Good(Finished(p), v, s) /\ Kept(Finished(p), c)
    BY <1>3, <1>5, <1>6, <1>7, RefreshIsGood, Zenon
  <2> QED BY <1>5, <1>6, <2>1, Zenon DEF Kept, StreamOpen
<1>8. CASE ~r.dirty
  <2>1. ~p.dirty /\ p.active # NoRead
    BY <1>4, <1>8, Nothing, Zenon
  <2>2. Attended(c) /\ Told(c, v, s)
    BY <1>5, <2>1, Fields, Zenon DEF Attended, Told, AtRest, StreamOpen
  <2> QED BY <1>3, <1>6, <1>8, <2>2, Zenon
<1> QED BY <1>7, <1>8, Zenon

(* A read that failed, and a network that is gone: a retry is set.         *)
LEMMA FailedIsGood ==
  ASSUME NEW p, NEW v, NEW s, Good(p, v, s), ~p.suspended,
         NEW c \in {p.source, NoSource}, NEW q \in Pages,
         q.hidden = p.hidden, q.destroyed = p.destroyed, q.suspended = p.suspended,
         q.watchTimer = p.watchTimer, q.active = NoRead, q.source = c, q.retryTimer, q.needsSync
  PROVE  Good(q, v, s) /\ Kept(q, p)
<1> USE DEF Good, Fair
<1>1. Still(q) /\ Attended(q)
  BY Zenon DEF Still, Attended, AtRest
<1>2. Reading(q, v, s) /\ Told(q, v, s) /\ Kept(q, p)
  BY Nothing, Fields, Zenon DEF Reading, Told, StreamOpen, Kept
<1> QED BY <1>1, <1>2, Zenon

(* A read that failed or was too late.                                     *)
LEMMA ReadFailedIsGood ==
  ASSUME NEW p, NEW v, NEW s, Good(p, v, s), ~p.suspended
  PROVE  Good(ReadFailed(p), v, s) /\ Kept(ReadFailed(p), p)
<1> DEFINE q == ReadFailed(p)
<1> USE DEF Good, Fair
<1>1. q = [p EXCEPT !.readError = TRUE, !.needsSync = TRUE, !.retryTimer = TRUE, !.active = NoRead]
  BY Fields, Zenon DEF ReadFailed, CancelRead, ScheduleRetry, Pages, Still
<1>2. q \in Pages
  BY <1>1, Nothing, Fields, ZenonT(60) DEF Pages
<1>3. /\ q.hidden = p.hidden /\ q.destroyed = p.destroyed /\ q.suspended = p.suspended
      /\ q.source = p.source /\ q.active = NoRead /\ q.watchTimer = p.watchTimer
      /\ q.retryTimer /\ q.needsSync
  BY <1>1 DEF Pages
<1> QED BY <1>2, <1>3, FailedIsGood, Zenon

OfflinePage(p) ==
  ScheduleRetry([CloseStream(CancelRead(p)) EXCEPT !.streamFailed = TRUE, !.needsSync = TRUE])

(* The network is gone.                                                    *)
LEMMA OfflineIsGood ==
  ASSUME NEW p, NEW v, NEW s, Good(p, v, s), ~p.suspended
  PROVE  Good(OfflinePage(p), v, s) /\ Kept(OfflinePage(p), p)
<1> DEFINE q == OfflinePage(p)
<1> USE DEF Good, Fair
<1>1. q = [p EXCEPT !.source = NoSource, !.streamFailed = TRUE, !.needsSync = TRUE,
             !.retryTimer = TRUE, !.active = NoRead]
  BY Fields, Zenon DEF OfflinePage, CloseStream, CancelRead, ScheduleRetry, Pages, Still
<1>2. q \in Pages
  BY <1>1, Nothing, Fields, ZenonT(60) DEF Pages
<1>3. /\ q.hidden = p.hidden /\ q.destroyed = p.destroyed /\ q.suspended = p.suspended
      /\ q.source = NoSource /\ q.active = NoRead /\ q.watchTimer = p.watchTimer
      /\ q.retryTimer /\ q.needsSync
  BY <1>1 DEF Pages
<1> QED BY <1>2, <1>3, FailedIsGood, Zenon

-----------------------------------------------------------------------------
(***************************************************************************)
(* The steps of PageSync.                                                  *)
(***************************************************************************)
Watched(p) == ~p.suspended => p.watchTimer
PageOk == Good(page, version, shown) /\ Watched(page)

(* A step keeps the page in or out of view, and on a stream that stays     *)
(* open it neither revives the feed nor takes a pending event.             *)
Continues(q, p) ==
  /\ q.suspended = p.suspended
  /\ StreamOpen(q) /\ q.source.feed = "up" /\ StreamOpen(p) =>
       p.source.feed = "up" /\ q.source.news = p.source.news

(* Steps that keep the stream, or close it.                                *)
LEMMA KeptIsOk ==
  ASSUME PageOk, Good(page', version, shown), Kept(page', page), UNCHANGED <<version, shown>>
  PROVE  PageOk' /\ Continues(page', page)
<1>1. Good(page', version', shown')
  OBVIOUS
<1>2. Watched(page') /\ Continues(page', page)
  BY Zenon DEF PageOk, Watched, Kept, Continues
<1> QED BY <1>1, <1>2 DEF PageOk

(* The server and the network change the versions and the source only.     *)
LEMMA SourceIsFine ==
  ASSUME NEW p, NEW v, NEW s, Good(p, v, s), p.source.on, NEW w \in Nat, v <= w,
         NEW c \in Sources, c.on, c.since <= w,
         c.open => p.source.open /\ c.since = p.source.since /\ c.feed # "none",
         c.open /\ c.feed = "up" =>
           p.source.feed = "up" /\ (c.hint \/ (w = v /\ c.hint = p.source.hint)),
         NEW q \in Pages, Same(q, p), q.source = c, q.active = p.active
  PROVE  Good(q, w, s)
<1> USE DEF Good, Fair
<1>1. /\ p.active.at = "answered" => p.active.value \in Nat
      /\ c.hint \in BOOLEAN /\ c.open \in BOOLEAN
      /\ p.source.hint \in BOOLEAN /\ p.source.open \in BOOLEAN
  BY Fields, ReadFields, SourceFields, Zenon
<1>2. ~p.suspended
  BY Nothing, Zenon DEF Still
<1>3. Still(q) /\ Attended(q)
  BY <1>2, Zenon DEF Still, Attended, AtRest, Same
<1>4. Reading(q, w, s)
  <2>1. s <= w /\ (p.active.at = "answered" => s <= p.active.value /\ p.active.value <= w)
    BY <1>1, Comparing, ZenonT(60) DEF Reading
  <2> QED BY <2>1, ZenonT(60) DEF Reading, StreamOpen, Same
<1>5. Told(q, w, s)
  <2> SUFFICES ASSUME StreamOpen(q), q.source.feed = "up", ~c.hint PROVE Told(q, w, s)
    BY ZenonT(60) DEF Told
  <2>1. StreamOpen(p) /\ p.source.feed = "up" /\ w = v /\ ~p.source.hint
    BY <1>1, Zenon DEF StreamOpen
  <2>2. \/ s = v \/ p.dirty
        \/ p.active = NoRead /\ (p.refreshTimer \/ p.retryTimer)
        \/ p.active.at = "asked"
        \/ p.active.at = "answered" /\ p.active.value = v
    BY <2>1, Fields, Zenon DEF Told
  <2> QED BY <2>1, <2>2, Fields, ZenonT(60) DEF Told, Same
<1> QED BY <1>3, <1>4, <1>5, Zenon

(* The same, for an update of the record.                                  *)
LEMMA SourceIsGood ==
  ASSUME NEW p, NEW v, NEW s, Good(p, v, s), p.source.on, NEW w \in Nat, v <= w,
         NEW c \in Sources, c.on, c.since <= w,
         c.open => p.source.open /\ c.since = p.source.since /\ c.feed # "none",
         c.open /\ c.feed = "up" =>
           p.source.feed = "up" /\ (c.hint \/ (w = v /\ c.hint = p.source.hint)),
         NEW q, q = [p EXCEPT !.source = c]
  PROVE  Good(q, w, s) /\ q.watchTimer = p.watchTimer /\ q.suspended = p.suspended /\ q.source = c
<1>1. p \in Pages
  BY DEF Good, Fair
<1>2. q \in Pages /\ Same(q, p) /\ q.source = c /\ q.active = p.active
  BY <1>1, WithSource
<1>3. Good(q, w, s)
  BY <1>2, SourceIsFine, ZenonT(60)
<1> QED BY <1>2, <1>3 DEF Same

(* A change that no stream announces.                                      *)
LEMMA LaterIsGood ==
  ASSUME NEW p, NEW v, NEW s, Good(p, v, s), ~(p.source.on /\ p.source.feed = "up")
  PROVE  Good(p, v + 1, s)
<1> USE DEF Good, Fair
<1>1. /\ p.active.at = "answered" => p.active.value \in Nat
      /\ p.source.on => p.source.since \in Nat
  BY Fields, ReadFields, SourceFields, Zenon
<1>2. Reading(p, v + 1, s)
  BY <1>1 DEF Reading
<1>3. Told(p, v + 1, s)
  BY Zenon DEF Told, StreamOpen
<1> QED BY <1>2, <1>3

(* Updates of an event source.                                             *)
LEMMA SourceUpdates ==
  ASSUME NEW c \in Sources, c.on, NEW v \in Nat
  PROVE  /\ [c EXCEPT !.hint = TRUE] \in Sources
         /\ [c EXCEPT !.hint = FALSE] \in Sources
         /\ [c EXCEPT !.news = FALSE] \in Sources
         /\ [c EXCEPT !.open = TRUE] \in Sources
         /\ [c EXCEPT !.hint = TRUE, !.news = TRUE] \in Sources
         /\ [c EXCEPT !.feed = "up", !.since = v] \in Sources
         /\ [c EXCEPT !.feed = "lost", !.hint = FALSE, !.news = FALSE] \in Sources
<1>1. c # NoSource
  BY Nothing
<1>2. c \in [on : {TRUE}, open : BOOLEAN, feed : {"none", "up", "lost"}, hint : BOOLEAN,
             news : BOOLEAN, since : Nat]
  BY <1>1, ZenonT(60) DEF Sources
<1> QED BY <1>2, Zenon DEF Sources

(* The conversation changes.                                               *)
LEMMA ChangeStep ==
  ASSUME PageOk, Change
  PROVE  PageOk' /\ Continues(page', page)
<1> USE DEF PageOk, Good, Fair
<1>1. version' = version + 1 /\ shown' = shown /\ version \in Nat
  BY DEF Change
<1>2. CASE page.source.on /\ page.source.feed = "up"
  <2> DEFINE c == [page.source EXCEPT !.hint = TRUE]
  <2>1. page' = [page EXCEPT !.source = c]
    BY <1>2 DEF Change, Pages
  <2>2. c \in Sources
    BY <1>2, <1>1, Fields, SourceUpdates, Zenon
  <2>3. /\ c.on /\ c.open = page.source.open /\ c.since = page.source.since
        /\ c.feed = page.source.feed /\ c.news = page.source.news /\ c.hint
    BY <1>2, Fields DEF Sources, NoSource
  <2> HIDE DEF c
  <2>4. page.source.since \in Nat /\ page.source.since <= version
    BY <1>2, Fields, SourceFields, Zenon DEF Reading
  <2>7. /\ version + 1 \in Nat /\ version <= version + 1 /\ c.since <= version + 1
        /\ c.open => page.source.open /\ c.since = page.source.since /\ c.feed # "none"
        /\ c.open /\ c.feed = "up" =>
             page.source.feed = "up" /\ (c.hint \/ (version + 1 = version /\ c.hint = page.source.hint))
    BY <1>1, <1>2, <2>3, <2>4
  <2>5. /\ Good(page', version + 1, shown) /\ page'.source = c
        /\ page'.watchTimer = page.watchTimer /\ page'.suspended = page.suspended
    <3> HIDE DEF Good, Fair
    <3> QED BY <1>1, <1>2, <2>1, <2>2, <2>3, <2>7, SourceIsGood
  <2>6. Watched(page') /\ Continues(page', page)
    BY <2>3, <2>5, Zenon DEF Watched, Continues, StreamOpen
  <2> QED BY <1>1, <2>5, <2>6, Zenon
<1>3. CASE ~(page.source.on /\ page.source.feed = "up")
  <2>1. page' = page
    BY <1>3, Zenon DEF Change
  <2>2. Good(page, version + 1, shown)
    BY <1>3, LaterIsGood, Zenon
  <2>3. Good(page', version', shown') /\ Watched(page')
    BY <1>1, <2>1, <2>2
  <2> QED BY <2>1, <2>3, Zenon DEF Continues
<1> QED BY <1>2, <1>3, Zenon

(* The server starts to send.                                              *)
LEMMA FeedStep ==
  ASSUME PageOk, Feed
  PROVE  PageOk' /\ Continues(page', page)
<1> USE DEF PageOk, Good, Fair
<1> DEFINE c == [page.source EXCEPT !.feed = "up", !.since = version]
<1>1. page' = [page EXCEPT !.source = c] /\ version' = version /\ shown' = shown /\ page.source.on
  BY Zenon DEF Feed, Handles, HandlesOne, Pages
<1>2. c \in Sources
  BY <1>1, Fields, SourceUpdates, Zenon
<1>3. ~page.source.open /\ page.source.open \in BOOLEAN
  BY <1>1, Fields, SourceFields DEF Feed, Reading
<1>4. c.on /\ ~c.open /\ c.since = version
  BY <1>1, <1>3, Fields DEF Sources, NoSource
<1> HIDE DEF c
<1>5. version \in Nat /\ version <= version
  OBVIOUS
<1>6. /\ Good(page', version, shown) /\ page'.source = c
      /\ page'.watchTimer = page.watchTimer /\ page'.suspended = page.suspended
  <2> HIDE DEF Good, Fair
  <2> QED BY <1>1, <1>2, <1>4, <1>5, SourceIsGood
<1>7. Watched(page') /\ Continues(page', page)
  BY <1>4, <1>6, Zenon DEF Watched, Continues, StreamOpen
<1> QED BY <1>1, <1>6, <1>7

(* The stream breaks unnoticed.                                            *)
LEMMA LoseFeedStep ==
  ASSUME PageOk, LoseFeed
  PROVE  PageOk' /\ Continues(page', page)
<1> USE DEF PageOk, Good, Fair
<1> DEFINE c == [page.source EXCEPT !.feed = "lost", !.hint = FALSE, !.news = FALSE]
<1>1. page' = [page EXCEPT !.source = c] /\ version' = version /\ shown' = shown /\ page.source.on
  BY Zenon DEF LoseFeed, Handles, HandlesOne, Pages
<1>2. c \in Sources
  BY <1>1, Fields, SourceUpdates, Zenon
<1>3. c.on /\ c.open = page.source.open /\ c.feed = "lost" /\ c.since = page.source.since
  BY <1>1, Fields DEF Sources, NoSource
<1> HIDE DEF c
<1>4. version \in Nat /\ version <= version /\ page.source.since <= version
  BY <1>1 DEF Reading
<1>5. /\ Good(page', version, shown) /\ page'.source = c
      /\ page'.watchTimer = page.watchTimer /\ page'.suspended = page.suspended
  <2> HIDE DEF Good, Fair
  <2> QED BY <1>1, <1>2, <1>3, <1>4, SourceIsGood
<1>6. Watched(page') /\ Continues(page', page)
  BY <1>3, <1>5, Zenon DEF Watched, Continues, StreamOpen
<1> QED BY <1>1, <1>5, <1>6

(* Questions change: on a live stream a pending event is under way.        *)
LEMMA QuestionsStep ==
  ASSUME PageOk, QuestionsChange
  PROVE  /\ PageOk' /\ page'.suspended = page.suspended
         /\ StreamOpen(page') /\ page'.source.feed = "up" => page'.source.news
<1> USE DEF PageOk, Good, Fair
<1>1. version' = version /\ shown' = shown /\ version \in Nat /\ version <= version
  BY DEF QuestionsChange
<1>2. CASE page.source.on /\ page.source.feed = "up"
  <2> DEFINE c == [page.source EXCEPT !.hint = TRUE, !.news = TRUE]
  <2>1. page' = [page EXCEPT !.source = c]
    BY <1>2, Zenon DEF QuestionsChange, Pages
  <2>2. c \in Sources
    BY <1>2, <1>1, Fields, SourceUpdates, Zenon
  <2>3. /\ c.on /\ c.open = page.source.open /\ c.since = page.source.since
        /\ c.feed = page.source.feed /\ c.news /\ c.hint
    BY <1>2, Fields DEF Sources, NoSource
  <2> HIDE DEF c
  <2>4. page.source.since <= version
    BY <1>2, Zenon DEF Reading
  <2>5. /\ Good(page', version, shown) /\ page'.source = c
        /\ page'.watchTimer = page.watchTimer /\ page'.suspended = page.suspended
    <3> HIDE DEF Good, Fair
    <3> QED BY <1>1, <1>2, <2>1, <2>2, <2>3, <2>4, SourceIsGood
  <2>6. Watched(page')
    BY <2>5 DEF Watched
  <2> QED BY <1>1, <2>3, <2>5, <2>6, Zenon
<1>3. CASE ~(page.source.on /\ page.source.feed = "up")
  <2>1. page' = page
    BY <1>3 DEF QuestionsChange
  <2> QED BY <1>1, <1>3, <2>1, Zenon DEF StreamOpen
<1> QED BY <1>2, <1>3, Zenon

(* The pending event is taken.                                             *)
LEMMA PendingStep ==
  ASSUME PageOk, StreamTellsPending
  PROVE  PageOk' /\ page'.suspended = page.suspended /\ ~page.suspended
<1> USE DEF PageOk, Good, Fair
<1> DEFINE c == [page.source EXCEPT !.news = FALSE]
<1>1. page' = [page EXCEPT !.source = c] /\ version' = version /\ shown' = shown /\ page.source.on
  BY SMTT(60) DEF StreamTellsPending, StreamOpen, Pages
<1>2. c \in Sources
  BY <1>1, Fields, SourceUpdates, Zenon
<1>3. /\ c.on /\ c.open = page.source.open /\ c.feed = page.source.feed
      /\ c.since = page.source.since /\ c.hint = page.source.hint
  BY <1>1, Fields DEF Sources, NoSource
<1> HIDE DEF c
<1>4. /\ version \in Nat /\ version <= version /\ page.source.since <= version
      /\ page.source.open => page.source.feed # "none"
  BY <1>1 DEF Reading
<1>5. Good(page', version, shown) /\ page'.watchTimer = page.watchTimer /\ page'.suspended = page.suspended
  <2> HIDE DEF Good, Fair
  <2> QED BY <1>1, <1>2, <1>3, <1>4, SourceIsGood
<1>6. Watched(page') /\ ~page.suspended
  BY <1>1, <1>5, Nothing DEF Watched, Still
<1> QED BY <1>1, <1>5, <1>6

(* The server answers a read.                                              *)
LEMMA AnswerStep ==
  ASSUME PageOk, Answer
  PROVE  PageOk' /\ Continues(page', page)
<1> USE DEF PageOk, Good, Fair
<1> DEFINE r == [at |-> "answered", value |-> version]
<1>1. page' = [page EXCEPT !.active = r] /\ version' = version /\ shown' = shown
  BY DEF Answer, Handles, HandlesOne
<1>2. r \in Reads /\ r.at = "answered" /\ r.value = version /\ r # NoRead
  BY Zenon DEF Reads, NoRead
<1> HIDE DEF r
<1>3. page' \in Pages /\ Same(page', page) /\ page'.source = page.source /\ page'.active = r
  BY <1>1, <1>2, WithRead
<1>4. page.active # NoRead
  BY Nothing, Zenon DEF Answer
<1>5. page.source.on => page.source.since <= version
  BY Zenon DEF Reading
<1>6. Still(page') /\ Attended(page') /\ Told(page', version, shown)
  BY <1>2, <1>3, <1>4, Zenon DEF Still, Attended, Told, AtRest, Same, Answer
<1>7. Reading(page', version, shown)
  <2>1. version \in Nat /\ version <= version
    BY Comparing, Zenon
  <2>2. page.source.on => version >= page.source.since
    BY <1>5, Comparing, Fields, SourceFields, Zenon
  <2> QED BY <1>2, <1>3, <1>5, <2>1, <2>2, ZenonT(60) DEF Reading, StreamOpen, Same
<1>8. Watched(page') /\ Continues(page', page)
  BY <1>3, Zenon DEF Watched, Continues, Same
<1>9. Good(page', version', shown')
  BY <1>1, <1>3, <1>6, <1>7
<1> QED BY <1>8, <1>9

(* The page shows the answer.                                              *)
LEMMA ApplyStep ==
  ASSUME PageOk, Apply
  PROVE  /\ PageOk' /\ page'.suspended = page.suspended /\ ~page.suspended
         /\ page'.source = page.source /\ (Connected(page') <=> Connected(page))
<1> USE DEF PageOk, Good, Fair
<1> DEFINE r == [at |-> "applied"]
<1>1. page' = [page EXCEPT !.active = r] /\ version' = version /\ shown' = page.active.value
  BY DEF Apply
<1>2. r \in Reads /\ r.at = "applied" /\ r # NoRead
  BY Zenon DEF Reads, NoRead
<1> HIDE DEF r
<1>3. page' \in Pages /\ Same(page', page) /\ page'.source = page.source /\ page'.active = r
  BY <1>1, <1>2, WithRead
<1>4. page.active # NoRead /\ page.active.at = "answered"
  BY Nothing, Zenon DEF Apply
<1>5. page.active.value \in Nat /\ page.active.value <= version /\ shown <= page.active.value
  BY <1>4, Fields, ReadFields, Zenon DEF Reading
<1>6. Still(page') /\ Attended(page') /\ ~page.suspended
  BY <1>2, <1>3, <1>4, Zenon DEF Still, Attended, AtRest, Same
<1>7. Told(page', version, page.active.value)
  <2>1. shown = version => page.active.value = version
    BY <1>5, Comparing, Zenon
  <2>2. StreamOpen(page') => StreamOpen(page)
    BY <1>3, Zenon DEF StreamOpen
  <2> QED BY <1>3, <1>4, <2>1, <2>2, Nothing, ZenonT(60) DEF Told, Same
<1>8. Reading(page', version, page.active.value)
  BY <1>2, <1>3, <1>4, <1>5, Fields, Zenon DEF Reading, StreamOpen, Same
<1>9. Watched(page') /\ (Connected(page') <=> Connected(page))
  BY <1>3, Zenon DEF Watched, Connected, StreamOpen, Same
<1>10. Good(page', version', shown')
  BY <1>1, <1>3, <1>5, <1>6, <1>7, <1>8, Zenon
<1> QED BY <1>3, <1>6, <1>9, <1>10, Zenon DEF Same

(* The stream opens.                                                       *)
LEMMA OpensStep ==
  ASSUME PageOk, StreamOpens
  PROVE  PageOk' /\ Continues(page', page)
<1> USE DEF PageOk, Good, Fair
<1> DEFINE c == [page.source EXCEPT !.open = TRUE]
           r == CancelRead([page EXCEPT !.source.open = TRUE, !.needsSync = TRUE, !.retryTimer = FALSE])
<1>1. /\ page' = ScheduleRefresh(r) /\ version' = version /\ shown' = shown /\ page.source.on
      /\ ~page.source.open /\ page.source.feed = "up"
  BY DEF StreamOpens, Handles, HandlesOne
<1>2. r = [page EXCEPT !.source = c, !.needsSync = TRUE, !.retryTimer = FALSE, !.active = NoRead]
  BY SMTT(60) DEF CancelRead, Pages
<1>3. c \in Sources
  BY <1>1, Fields, SourceUpdates, Zenon
<1>4. c.feed = "up" /\ c.since = page.source.since
  BY <1>1, Fields DEF Sources, NoSource
<1> HIDE DEF c
<1>5. r \in Pages
  BY <1>2, <1>3, Nothing, Fields, ZenonT(60) DEF Pages
<1>6. /\ r.hidden = page.hidden /\ r.destroyed = page.destroyed /\ r.suspended = page.suspended
      /\ r.source = c /\ r.active = NoRead /\ r.needsSync /\ ~r.retryTimer
      /\ r.watchTimer = page.watchTimer
  BY <1>2, ZenonT(60) DEF Pages
<1> HIDE DEF r
<1>7. ~r.suspended
  BY <1>1, <1>6, Nothing, Zenon DEF Still
<1>8. Fair(r, version, shown)
  BY <1>1, <1>4, <1>5, <1>6, <1>7, Nothing, ZenonT(60) DEF Still, Reading, StreamOpen
<1>9. Good(page', version, shown) /\ Kept(page', r)
  BY <1>1, <1>7, <1>8, RefreshIsGood, Zenon
<1>10. Watched(page') /\ Continues(page', page)
  BY <1>1, <1>6, <1>9, Zenon DEF Watched, Continues, Kept, StreamOpen
<1> QED BY <1>1, <1>9, <1>10, Zenon

(* A message comes in.                                                     *)
LEMMA TellsStep ==
  ASSUME PageOk, StreamTells
  PROVE  PageOk' /\ Continues(page', page)
<1> USE DEF PageOk, Good, Fair
<1> DEFINE c == [page.source EXCEPT !.hint = FALSE]
           r == [page EXCEPT !.source = c]
<1>1. /\ page' = ScheduleRefresh(r) /\ version' = version /\ shown' = shown /\ page.source.on
  BY SMTT(60) DEF StreamTells, StreamOpen, Handles, HandlesOne, Pages
<1>2. c \in Sources
  BY <1>1, Fields, SourceUpdates, Zenon
<1>3. /\ c.on /\ c.feed = page.source.feed /\ c.since = page.source.since /\ c.open = page.source.open
      /\ c.news = page.source.news
  BY <1>1, Fields DEF Sources, NoSource
<1> HIDE DEF c
<1>4. r \in Pages /\ Same(r, page) /\ r.source = c /\ r.active = page.active
  BY <1>2, WithSource, Zenon
<1> HIDE DEF r
<1>5. ~r.suspended
  BY <1>1, <1>4, Nothing, Zenon DEF Still, Same
<1>6. Fair(r, version, shown)
  BY <1>1, <1>3, <1>4, <1>5, Fields, ZenonT(60) DEF Still, Reading, StreamOpen, Same
<1>7. Good(page', version, shown) /\ Kept(page', r)
  BY <1>1, <1>5, <1>6, RefreshIsGood, Zenon
<1>8. Watched(page') /\ Continues(page', page)
  BY <1>3, <1>4, <1>7, ZenonT(60) DEF Watched, Continues, Kept, StreamOpen, Same
<1> QED BY <1>1, <1>7, <1>8, Zenon

(* The timers fire.                                                        *)
LEMMA TimerStep ==
  ASSUME PageOk, RefreshFires \/ RetryFires
  PROVE  PageOk' /\ Continues(page', page)
<1> USE DEF PageOk, Good, Fair
<1>1. page.watchTimer /\ ~page.suspended
  BY DEF RefreshFires, RetryFires, Still, Watched
<1>2. version' = version /\ shown' = shown
  BY DEF RefreshFires, RetryFires, Handles, HandlesOne
<1>3. CASE RefreshFires
  <2> DEFINE r == [page EXCEPT !.refreshTimer = FALSE]
  <2>1. page' = RefreshNow(r)
    BY <1>3 DEF RefreshFires, Handles, HandlesOne
  <2>2. r \in Pages
    BY Fields, ZenonT(60) DEF Pages
  <2>3. /\ r.hidden = page.hidden /\ r.destroyed = page.destroyed /\ r.suspended = page.suspended
        /\ r.source = page.source /\ r.active = page.active /\ r.needsSync = page.needsSync
        /\ r.retryTimer = page.retryTimer /\ r.watchTimer = page.watchTimer
    BY DEF Pages
  <2> HIDE DEF r
  <2>4. Fair(r, version, shown) /\ ~r.suspended
    BY <1>1, <2>2, <2>3, Fields, Zenon DEF Still, Reading, StreamOpen
  <2>5. Good(page', version, shown) /\ Kept(page', r)
    BY <2>1, <2>4, NowIsGood, Zenon
  <2>6. Kept(page', page)
    BY <2>3, <2>5, Zenon DEF Kept
  <2> HIDE DEF PageOk, Good
  <2> QED BY <1>2, <2>5, <2>6, KeptIsOk
<1>4. CASE RetryFires
  <2> DEFINE r == [page EXCEPT !.retryTimer = FALSE]
  <2>1. page' \in ConnectsAndReads(r)
    BY <1>4 DEF RetryFires, HandlesOne
  <2>2. r \in Pages
    BY Fields, ZenonT(60) DEF Pages
  <2>3. /\ r.hidden = page.hidden /\ r.destroyed = page.destroyed /\ r.suspended = page.suspended
        /\ r.source = page.source /\ r.active = page.active /\ r.needsSync = page.needsSync
        /\ ~r.retryTimer /\ r.watchTimer = page.watchTimer
    BY DEF Pages
  <2> HIDE DEF r
  <2>4. Fair(r, version, shown) /\ ~r.suspended
    BY <1>1, <2>2, <2>3, Fields, Zenon DEF Still, Reading, StreamOpen
  <2>5. Good(page', version, shown) /\ Kept(page', r)
    BY <2>1, <2>4, ReadsIsGood, Zenon
  <2>6. Kept(page', page)
    BY <2>3, <2>5, Zenon DEF Kept
  <2> HIDE DEF PageOk, Good
  <2> QED BY <1>2, <2>5, <2>6, KeptIsOk
<1> QED BY <1>3, <1>4, Zenon

(* The watch.                                                              *)
LEMMA WatchStep ==
  ASSUME PageOk, Watch
  PROVE  PageOk' /\ Continues(page', page)
<1>1. page.watchTimer /\ ~page.suspended /\ Good(page, version, shown) /\ Fair(page, version, shown)
  BY Zenon DEF PageOk, Good, Fair, Watch, Still
<1>2. version' = version /\ shown' = shown
  BY Zenon DEF Watch, Handles, HandlesOne
<1>3. CASE page' \in Recovers(page, TRUE)
  BY <1>1, <1>2, <1>3, RecoversIsGood, KeptIsOk, Zenon
<1>4. CASE \E late, old \in BOOLEAN :
             LET p == IF late /\ page.source.on THEN StreamBroken(page) ELSE page
             IN page' = IF (old \/ ~p.succeeded) /\ p.active = NoRead /\ ~p.retryTimer
                        THEN ScheduleRefresh(p) ELSE p
  <2>1. PICK p \in {StreamBroken(page), page} : page' \in {p, ScheduleRefresh(p)}
    BY <1>4, Zenon
  <2>2. Good(p, version, shown) /\ Kept(p, page)
    BY <1>1, BrokenIsGood, Zenon DEF Kept
  <2>3. Fair(p, version, shown) /\ ~p.suspended
    BY <1>1, <2>2, Zenon DEF Good, Kept
  <2>4. Good(page', version, shown) /\ Kept(page', p)
    BY <2>1, <2>2, <2>3, RefreshIsGood, Zenon DEF Kept
  <2>5. Kept(page', page)
    BY <2>2, <2>4, Zenon DEF Kept, StreamOpen
  <2> QED BY <1>2, <2>4, <2>5, KeptIsOk
<1> QED BY <1>3, <1>4, ZenonT(60) DEF Watch, Handles, HandlesOne

(* Every step that neither shows nor hides the page.                       *)
LEMMA ProceedsStep ==
  ASSUME PageOk, Proceeds
  PROVE  PageOk' /\ Continues(page', page)
<1>1. Good(page, version, shown) /\ Fair(page, version, shown) /\ page \in Pages
  BY Zenon DEF PageOk, Good, Fair
<1>2. CASE Change \/ Feed \/ LoseFeed \/ Answer \/ StreamOpens \/ StreamTells \/ RefreshFires \/ RetryFires \/ Watch
  BY <1>2, ChangeStep, FeedStep, LoseFeedStep, AnswerStep, OpensStep, TellsStep, TimerStep, WatchStep, Zenon
<1>3. CASE StreamFails
  <2>1. ~page.suspended /\ page' = StreamBroken(page) /\ UNCHANGED <<version, shown>>
    BY <1>1, <1>3, Nothing, Zenon DEF StreamFails, Handles, HandlesOne, Fair, Still
  <2> QED BY <1>1, <2>1, BrokenIsGood, KeptIsOk, Zenon
<1>4. CASE Applied
  <2>1. page' = Finished(page) /\ page.active.at = "applied" /\ UNCHANGED <<version, shown>>
    BY <1>4, Zenon DEF Applied, Handles, HandlesOne
  <2> QED BY <1>1, <2>1, FinishedIsGood, KeptIsOk, Zenon
<1>5. CASE RefreshFails
  <2>1. ~page.suspended /\ page' = ReadFailed(page) /\ UNCHANGED <<version, shown>>
    BY <1>1, <1>5, Zenon DEF RefreshFails, Handles, HandlesOne, Fair, Still
  <2> QED BY <1>1, <2>1, ReadFailedIsGood, KeptIsOk, Zenon
<1>6. CASE Focus \/ Online
  <2>1. /\ ~page.suspended /\ UNCHANGED <<version, shown>>
        /\ page' \in Recovers(page, TRUE) \/ page' \in Recovers(page, FALSE)
    BY <1>6, Zenon DEF Focus, Online, HandlesOne
  <2>2. Good(page', version, shown) /\ Kept(page', page)
    BY <1>1, <2>1, RecoversIsGood, Zenon
  <2> QED BY <2>1, <2>2, KeptIsOk
<1>7. CASE Offline
  <2>1. ~page.suspended /\ page' = OfflinePage(page) /\ UNCHANGED <<version, shown>>
    BY <1>7 DEF Offline, OfflinePage, Handles, HandlesOne
  <2> QED BY <1>1, <2>1, OfflineIsGood, KeptIsOk, Zenon
<1>8. CASE HostRefresh
  <2>1. /\ ~page.suspended /\ UNCHANGED <<version, shown>>
        /\ page' = RefreshNow(page) \/ page' = ScheduleRefresh(page)
    BY <1>8 DEF HostRefresh, Handles, HandlesOne
  <2>2. Good(page', version, shown) /\ Kept(page', page)
    BY <1>1, <2>1, NowIsGood, RefreshIsGood, Zenon
  <2> QED BY <2>1, <2>2, KeptIsOk
<1> QED BY <1>2, <1>3, <1>4, <1>5, <1>6, <1>7, <1>8, Zenon DEF Proceeds

(* The page comes into view.                                               *)
LEMMA AppearsStep ==
  ASSUME PageOk, Appears, ~page.destroyed
  PROVE  PageOk' /\ ~page'.suspended
<1> USE DEF PageOk, Good, Fair
<1> DEFINE r == [page EXCEPT !.hidden = FALSE, !.suspended = FALSE]
<1>1. version' = version /\ shown' = shown
  BY Zenon DEF Appears, Show, PageShow, Resumes, HandlesOne
<1>2. CASE ~page.suspended
  <2>1. page' \in Recovers(page, FALSE)
    BY <1>2, Zenon DEF Appears, Show, PageShow, Resumes, HandlesOne, Still
  <2>2. Good(page', version, shown) /\ Kept(page', page)
    BY <1>2, <2>1, RecoversIsGood, Zenon
  <2>3. ~page'.suspended
    BY <1>2, <2>2 DEF Kept
  <2> HIDE DEF PageOk, Good
  <2> QED BY <1>1, <2>2, <2>3, KeptIsOk
<1>3. CASE page.suspended
  <2>1. PICK q \in Recovers(r, TRUE) : page' = [q EXCEPT !.watchTimer = TRUE]
    <3>1. CASE Show
      <4>1. [page EXCEPT !.hidden = FALSE].suspended
        BY <1>3 DEF Pages
      <4>2. [[page EXCEPT !.hidden = FALSE] EXCEPT !.suspended = FALSE] = r
        BY DEF Pages
      <4> QED BY <3>1, <4>1, <4>2, Zenon DEF Show, Resumes, HandlesOne
    <3>2. CASE PageShow
      <4>1. [page EXCEPT !.suspended = FALSE] = r
        BY <3>2, Fields, Zenon DEF PageShow, Pages
      <4> QED BY <1>3, <3>2, <4>1, Zenon DEF PageShow, Resumes, HandlesOne
    <3> QED BY <3>1, <3>2, Zenon DEF Appears
  <2>2. r \in Pages
    BY Fields, ZenonT(60) DEF Pages
  <2>3. /\ ~r.hidden /\ ~r.suspended /\ r.destroyed = page.destroyed
        /\ r.source = page.source /\ r.active = page.active
    BY DEF Pages
  <2> HIDE DEF r
  <2>4. Fair(r, version, shown)
    BY <1>3, <2>2, <2>3, Nothing, Zenon DEF Still, Reading, StreamOpen
  <2>5. Good(q, version, shown) /\ ~q.suspended
    <3> HIDE DEF Good, Fair
    <3> QED BY <2>3, <2>4, RecoversIsGood, ZenonT(60) DEF Kept
  <2>6. page' \in Pages
    BY <2>1, <2>5, Fields, ZenonT(60) DEF Pages
  <2>7. /\ page'.hidden = q.hidden /\ page'.destroyed = q.destroyed /\ page'.suspended = q.suspended
        /\ page'.dirty = q.dirty /\ page'.source = q.source /\ page'.active = q.active
        /\ page'.needsSync = q.needsSync /\ page'.refreshTimer = q.refreshTimer
        /\ page'.retryTimer = q.retryTimer /\ page'.watchTimer
    BY <2>1, <2>5, SMTT(60) DEF Pages
  <2>8. Still(page') /\ Attended(page') /\ Reading(page', version, shown)
    BY <2>5, <2>7, Fields, ZenonT(60) DEF Still, Attended, Reading, AtRest, StreamOpen
  <2>9. Told(page', version, shown)
    BY <2>5, <2>7, Fields, ZenonT(60) DEF Told, StreamOpen
  <2> QED BY <1>1, <2>5, <2>6, <2>7, <2>8, <2>9, Zenon DEF Watched
<1> QED BY <1>2, <1>3, Fields, Zenon

(* The page goes out of view.                                              *)
LEMMA DisappearsStep ==
  ASSUME PageOk, Disappears
  PROVE  PageOk' /\ page'.suspended
<1> USE DEF PageOk, Good, Fair
<1>1. PICK p \in Pages : page' = Suspend(p)
  BY Fields, ZenonT(60) DEF Disappears, Hide, PageHide, Destroy, Handles, HandlesOne, Pages
<1>2. version' = version /\ shown' = shown
  BY DEF Disappears, Hide, PageHide, Destroy, Handles, HandlesOne
<1>3. Good(page', version, shown) /\ page'.suspended
  BY <1>1, SuspendIsGood, Zenon DEF Reading
<1> QED BY <1>2, <1>3, Zenon DEF Watched

(* The page starts well.                                                   *)
LEMMA PageInit == SyncInit => PageOk
<1> SUFFICES ASSUME SyncInit PROVE PageOk
  OBVIOUS
<1>1. version = 1 /\ shown = 0
  BY DEF SyncInit
<1>2. PICK h \in BOOLEAN : page \in ConnectsAndReads(NewPage(h))
  BY DEF SyncInit
<1> DEFINE p == NewPage(h)
<1>3. p \in Pages
  BY Nothing, Zenon DEF Pages, NewPage
<1>4. /\ p.hidden = h /\ ~p.destroyed /\ p.suspended = h /\ p.source = NoSource /\ p.active = NoRead
      /\ ~p.refreshTimer /\ ~p.retryTimer /\ p.watchTimer = ~h
  BY Zenon DEF NewPage
<1> HIDE DEF p
<1>5. Still(p) /\ Reading(p, 1, 0) /\ Told(p, 1, 0)
  <2>1. Still(p)
    BY <1>3, <1>4, Fields, Zenon DEF Still
  <2>2. Reading(p, 1, 0)
    BY <1>4, Nothing DEF Reading, StreamOpen
  <2>3. Told(p, 1, 0)
    BY <1>4, Nothing, Zenon DEF Told, StreamOpen
  <2> QED BY <2>1, <2>2, <2>3
<1>6. CASE h
  <2>1. Connects(p) = {p} /\ ScheduleRefresh(p) = p
    BY <1>4, <1>6 DEF Connects, ScheduleRefresh, Away
  <2>2. page = p
    BY <1>2, <2>1 DEF ConnectsAndReads, p
  <2> QED BY <1>1, <1>3, <1>4, <1>5, <1>6, <2>2, Zenon DEF PageOk, Good, Fair, Attended, Watched
<1>7. CASE ~h
  <2>1. Fair(p, 1, 0) /\ ~p.suspended /\ page \in ConnectsAndReads(p)
    BY <1>2, <1>3, <1>4, <1>5, <1>7, Zenon DEF Fair, p
  <2>2. Good(page, 1, 0) /\ Kept(page, p)
    BY <2>1, ReadsIsGood
  <2> QED BY <1>1, <1>4, <1>7, <2>2, Zenon DEF PageOk, Watched, Kept
<1> QED BY <1>6, <1>7

-----------------------------------------------------------------------------
(***************************************************************************)
(* The lane.                                                               *)
(***************************************************************************)
LaneReads == {[at |-> "none"], [at |-> "asked"]} \cup [at : {"answered"}, value : Nat]
Lanes == [read : LaneReads, rerun : BOOLEAN, retry : BOOLEAN, due : BOOLEAN, known : BOOLEAN]

(* An answer to a lane has a value.                                        *)
LEMMA AnswerHasValue ==
  ASSUME NEW l \in Lanes
  PROVE  l.read.at = "answered" => l.read.value \in Nat
<1>1. l.read \in LaneReads
  BY DEF Lanes
<1>2. \A x \in LaneReads : x.at = "answered" => x.value \in Nat
  BY DEF LaneReads
<1> QED BY <1>1, <1>2, Zenon

(* What a lane may be left with before it is started again.                *)
LaneFair(l) ==
  /\ l \in Lanes
  /\ l.rerun => l.read.at # "none"
  /\ l.retry => ~l.known /\ l.read.at = "none"

(* The lane runs while the page is in view.                                *)
LaneGood(l, p) ==
  /\ LaneFair(l)
  /\ p.suspended => l.read.at = "none" /\ ~l.retry /\ ~l.due
  /\ ~p.suspended => l.read.at # "none" \/ l.retry \/ l.due

(* What is shown and read, against versions v and s of the server and the  *)
(* page.                                                                   *)
LaneReading(l, v, s) ==
  /\ v \in Nat /\ s \in Nat /\ s <= v
  /\ l.read.at = "answered" => s <= l.read.value /\ l.read.value <= v

LaneTold(l, p, v, s) ==
  Connected(p) /\ p.source.feed = "up" =>
    \/ s = v \/ p.source.news \/ l.rerun \/ l.retry
    \/ l.read.at = "asked"
    \/ l.read.at = "answered" /\ l.read.value = v

LaneOk ==
  /\ LaneGood(lane, page)
  /\ LaneReading(lane, questions, questionsShown)
  /\ LaneTold(lane, page, questions, questionsShown)

(* A read is asked for.                                                    *)
LEMMA AskedFields ==
  ASSUME NEW l \in Lanes
  PROVE  /\ Asked(l) \in Lanes /\ Asked(l).read.at = "asked" /\ Asked(l).rerun = l.rerun
         /\ ~Asked(l).retry
<1> DEFINE r == [at |-> "asked"]
<1>1. r \in LaneReads /\ r.at = "asked"
  BY DEF LaneReads
<1> HIDE DEF r
<1>2. Asked(l) = [l EXCEPT !.read = r, !.retry = FALSE, !.due = FALSE]
  BY DEF Asked, r
<1> QED BY <1>1, <1>2, Zenon DEF Lanes

(* A forced refresh reads, now or after the read under way.                *)
LEMMA ForcedReads ==
  ASSUME NEW l, NEW p, NEW old, LaneFair(l), ~p.suspended, NEW m, m = RefreshPending(l, p, TRUE, old)
  PROVE  /\ LaneGood(m, p)
         /\ m.rerun \/ m.read.at = "asked"
         /\ m.read.at = "answered" => m.read = l.read
<1> USE DEF LaneFair
<1>1. CASE l.read.at # "none"
  <2>1. m = [l EXCEPT !.rerun = TRUE]
    BY <1>1, Zenon DEF RefreshPending, Lanes
  <2>2. m \in Lanes /\ m.read = l.read /\ m.rerun /\ m.retry = l.retry /\ m.known = l.known
    BY <2>1, Zenon DEF Lanes
  <2> QED BY <1>1, <2>2, Zenon DEF LaneGood
<1>2. CASE l.read.at = "none"
  <2>1. m = Asked(l)
    BY <1>2 DEF RefreshPending
  <2>2. m \in Lanes /\ m.read.at = "asked" /\ ~m.retry
    BY <2>1, AskedFields, Zenon
  <2> QED BY <2>2, Zenon DEF LaneGood
<1> QED BY <1>1, <1>2, Zenon

(* Another refresh reads, or leaves a timer that will.                     *)
LEMMA UnforcedReads ==
  ASSUME NEW l, NEW p, NEW old, LaneFair(l), ~p.suspended, NEW m, m = RefreshPending(l, p, FALSE, old)
  PROVE  /\ LaneGood(m, p)
         /\ ~l.known /\ ~l.retry => m.read.at # "none"
         /\ (m.read = l.read /\ m.rerun = l.rerun /\ m.retry = l.retry) \/ m.read.at = "asked"
<1> USE DEF LaneFair
<1>1. CASE l.read.at # "none" \/ l.retry
  <2>1. m = l
    BY <1>1 DEF RefreshPending, Lanes
  <2> QED BY <1>1, <2>1, Zenon DEF LaneGood
<1>2. CASE l.read.at = "none" /\ ~l.retry /\ m = [l EXCEPT !.due = TRUE] /\ l.known
  <2>1. /\ m \in Lanes /\ m.read = l.read /\ m.rerun = l.rerun /\ m.retry = l.retry
        /\ m.known = l.known /\ m.due
    BY <1>2, Zenon DEF Lanes
  <2> QED BY <1>2, <2>1, Zenon DEF LaneGood
<1>3. CASE l.read.at = "none" /\ m = Asked(l)
  <2>1. m \in Lanes /\ m.read.at = "asked" /\ ~m.retry
    BY <1>3, AskedFields, Zenon
  <2> QED BY <2>1, Zenon DEF LaneGood
<1> QED BY <1>1, <1>2, <1>3, Zenon DEF RefreshPending

(* A page that is connected is in view.                                    *)
LEMMA ConnectedInView ==
  ASSUME NEW p, NEW v, NEW s, Good(p, v, s), Connected(p)
  PROVE  ~p.suspended
BY Nothing, Zenon DEF Good, Fair, Still, Connected, StreamOpen

(* The lane at a step that neither shows nor hides the page.               *)
LEMMA LaneProceeds ==
  ASSUME PageOk, LaneOk, Proceeds, UNCHANGED <<questions, questionsShown>>,
         lane' = IF Connected(page') /\ ~Connected(page)
                 THEN RefreshPending(lane, page', TRUE, TRUE) ELSE lane
  PROVE  PageOk' /\ LaneOk'
<1> USE DEF LaneOk
<1>1. PageOk' /\ Continues(page', page)
  BY ProceedsStep, Zenon
<1>2. CASE Connected(page') /\ ~Connected(page)
  <2>1. ~page'.suspended
    BY <1>1, <1>2, ConnectedInView, Zenon DEF PageOk
  <2>2. /\ LaneGood(lane', page') /\ (lane'.rerun \/ lane'.read.at = "asked")
        /\ lane'.read.at = "answered" => lane'.read = lane.read
    BY <1>2, <2>1, ForcedReads, ZenonT(60) DEF LaneGood
  <2>3. LaneReading(lane', questions, questionsShown) /\ LaneTold(lane', page', questions, questionsShown)
    BY <2>2, ZenonT(60) DEF LaneReading, LaneTold
  <2> QED BY <1>1, <2>2, <2>3, Zenon
<1>3. CASE ~(Connected(page') /\ ~Connected(page))
  <2>1. lane' = lane
    BY <1>3, ZenonT(60)
  <2>2. LaneGood(lane, page')
    BY <1>1, ZenonT(60) DEF LaneGood, Continues
  <2>3. LaneTold(lane, page', questions, questionsShown)
    BY <1>1, <1>3, Zenon DEF LaneTold, Continues, Connected
  <2> QED BY <1>1, <2>1, <2>2, <2>3, Zenon
<1> QED BY <1>2, <1>3, Zenon

(* The lane at any step of the page.                                       *)
LEMMA LaneFollowsStep ==
  ASSUME PageOk, LaneOk, ~page.destroyed, LaneFollows
  PROVE  PageOk' /\ LaneOk'
<1> USE DEF LaneOk
<1>1. questions' = questions /\ questionsShown' = questionsShown
  BY Zenon DEF LaneFollows
<1>2. CASE Appears /\ lane' = RefreshPending(lane, page', TRUE, TRUE)
  <2>1. PageOk' /\ ~page'.suspended
    BY <1>2, AppearsStep
  <2>2. /\ LaneGood(lane', page') /\ (lane'.rerun \/ lane'.read.at = "asked")
        /\ lane'.read.at = "answered" => lane'.read = lane.read
    BY <1>2, <2>1, ForcedReads, ZenonT(60) DEF LaneGood
  <2>3. LaneReading(lane', questions, questionsShown) /\ LaneTold(lane', page', questions, questionsShown)
    BY <2>2, Zenon DEF LaneReading, LaneTold
  <2> QED BY <1>1, <2>1, <2>2, <2>3, Zenon
<1>3. CASE Disappears /\ lane' = Idle(lane.known)
  <2>1. PageOk' /\ page'.suspended
    BY <1>3, DisappearsStep
  <2>2. ~Connected(page')
    BY <2>1, ConnectedInView DEF PageOk
  <2>3. lane.known \in BOOLEAN
    BY Zenon DEF LaneGood, LaneFair, Lanes
  <2>4. lane' \in Lanes /\ lane'.read.at = "none" /\ ~lane'.rerun /\ ~lane'.retry /\ ~lane'.due
    BY <1>3, <2>3, Zenon DEF Idle, Lanes, LaneReads
  <2>5. LaneGood(lane', page')
    BY <2>1, <2>4, ZenonT(60) DEF LaneGood, LaneFair
  <2>6. LaneReading(lane', questions, questionsShown) /\ LaneTold(lane', page', questions, questionsShown)
    BY <2>2, <2>4, Zenon DEF LaneReading, LaneTold
  <2> QED BY <1>1, <2>1, <2>5, <2>6, Zenon
<1>4. CASE Apply /\ \E old \in BOOLEAN :
             lane' = IF StreamOpen(page) /\ lane.known /\ ~old THEN lane
                     ELSE RefreshPending(lane, page, FALSE, old)
  <2>1. /\ PageOk' /\ page'.suspended = page.suspended /\ ~page.suspended
        /\ page'.source = page.source /\ (Connected(page') <=> Connected(page))
    BY <1>4, ApplyStep, Zenon
  <2>2. PICK old : lane' = lane \/ lane' = RefreshPending(lane, page, FALSE, old)
    BY <1>4, Zenon
  <2>3. /\ LaneGood(lane', page)
        /\ (lane'.read = lane.read /\ lane'.rerun = lane.rerun /\ lane'.retry = lane.retry)
           \/ lane'.read.at = "asked"
    <3>1. CASE lane' = lane
      BY <3>1, Zenon
    <3>2. CASE lane' = RefreshPending(lane, page, FALSE, old)
      <4>1. LaneFair(lane)
        BY Zenon DEF LaneGood
      <4> HIDE DEF LaneOk
      <4> QED BY <2>1, <3>2, <4>1, UnforcedReads, ZenonT(60)
    <3> QED BY <2>2, <3>1, <3>2, Zenon
  <2>4. LaneGood(lane', page')
    BY <2>1, <2>3, ZenonT(60) DEF LaneGood
  <2>5. LaneReading(lane', questions, questionsShown)
    BY <2>3, Zenon DEF LaneReading
  <2>6. LaneTold(lane', page', questions, questionsShown)
    BY <2>1, <2>3, Zenon DEF LaneTold
  <2> QED BY <1>1, <2>1, <2>4, <2>5, <2>6, Zenon
<1>5. CASE Proceeds /\ lane' = IF Connected(page') /\ ~Connected(page)
                              THEN RefreshPending(lane, page', TRUE, TRUE) ELSE lane
  BY <1>1, <1>5, LaneProceeds, Zenon
<1> QED BY <1>2, <1>3, <1>4, <1>5, Zenon DEF LaneFollows

(* The end of a read that is repeated.                                     *)
LEMMA OverRereads ==
  ASSUME NEW l, NEW p, LaneFair(l), l.rerun, ~p.suspended
  PROVE  LaneGood(Over(l, p), p) /\ Over(l, p).read.at = "asked"
<1> DEFINE n == [at |-> "none"]
           m == [l EXCEPT !.read = n, !.rerun = FALSE]
<1>1. n \in LaneReads /\ n.at = "none"
  BY Zenon DEF LaneReads
<1>2. Over(l, p) = RefreshPending(m, p, TRUE, TRUE)
  BY DEF Over
<1> HIDE DEF n
<1>3. m \in Lanes /\ m.read.at = "none" /\ ~m.rerun /\ m.retry = l.retry /\ m.known = l.known
  BY <1>1, Zenon DEF LaneFair, Lanes
<1> HIDE DEF m
<1>4. Over(l, p) = Asked(m)
  BY <1>2, <1>3 DEF RefreshPending
<1>5. LaneFair(m)
  BY <1>3, Zenon DEF LaneFair
<1> QED BY <1>2, <1>3, <1>4, <1>5, ForcedReads, AskedFields, ZenonT(60)

(* The end of a read that is not.                                          *)
LEMMA OverRests ==
  ASSUME NEW l \in Lanes, NEW p, ~l.rerun
  PROVE  /\ Over(l, p) \in Lanes /\ Over(l, p).read.at = "none" /\ ~Over(l, p).rerun
         /\ Over(l, p).retry = l.retry /\ Over(l, p).due = l.due /\ Over(l, p).known = l.known
<1> DEFINE n == [at |-> "none"]
<1>1. n \in LaneReads /\ n.at = "none"
  BY DEF LaneReads
<1>2. Over(l, p) = [l EXCEPT !.read = n, !.rerun = FALSE]
  BY DEF Over
<1> HIDE DEF n
<1> QED BY <1>1, <1>2, Zenon DEF Lanes

(* The answer comes.                                                       *)
LEMMA AnswerPendingStep ==
  ASSUME LaneOk, AnswerPending
  PROVE  LaneOk'
<1> USE DEF LaneOk
<1> DEFINE r == [at |-> "answered", value |-> questions]
<1>1. questions \in Nat
  BY Zenon DEF LaneReading
<1>2. r \in LaneReads /\ r.at = "answered" /\ r.value = questions
  BY <1>1, Zenon DEF LaneReads
<1>3. /\ lane' = [lane EXCEPT !.read = r] /\ page' = page /\ lane.read.at = "asked"
      /\ questions' = questions /\ questionsShown' = questionsShown
  BY DEF AnswerPending, Quietly, syncVars
<1> HIDE DEF r
<1>4. /\ lane' \in Lanes /\ lane'.read = r /\ lane'.rerun = lane.rerun /\ lane'.retry = lane.retry
      /\ lane'.known = lane.known /\ lane'.due = lane.due
  BY <1>2, <1>3 DEF LaneGood, LaneFair, Lanes
<1>5. LaneGood(lane', page)
  BY <1>2, <1>3, <1>4, Zenon DEF LaneGood, LaneFair
<1>6. LaneReading(lane', questions, questionsShown) /\ LaneTold(lane', page, questions, questionsShown)
  BY <1>1, <1>2, <1>4 DEF LaneReading, LaneTold
<1> QED BY <1>3, <1>5, <1>6

(* The answer is shown.                                                    *)
LEMMA RenderStep ==
  ASSUME LaneOk, RenderPending
  PROVE  LaneOk'
<1> USE DEF LaneOk
<1>1. page' = page /\ questions' = questions /\ lane.read.at = "answered"
  BY Zenon DEF RenderPending, Quietly, syncVars
<1>2. ~page.suspended /\ LaneFair(lane) /\ lane \in Lanes
  BY <1>1, Zenon DEF LaneGood, LaneFair
<1>3. CASE lane.rerun
  <2>1. lane' = Over(lane, page) /\ questionsShown' = questionsShown
    BY <1>3, Zenon DEF RenderPending
  <2>2. LaneGood(lane', page) /\ lane'.read.at = "asked"
    BY <1>2, <1>3, <2>1, OverRereads, Zenon
  <2>3. LaneReading(lane', questions, questionsShown) /\ LaneTold(lane', page, questions, questionsShown)
    BY <2>2, Zenon DEF LaneReading, LaneTold
  <2> QED BY <1>1, <2>1, <2>2, <2>3, Zenon
<1>4. CASE ~lane.rerun
  <2> DEFINE l == [lane EXCEPT !.known = TRUE, !.due = TRUE]
  <2>1. lane' = Over(l, page) /\ questionsShown' = lane.read.value
    BY <1>4 DEF RenderPending
  <2>2. l \in Lanes /\ ~l.rerun /\ l.retry = lane.retry /\ l.due
    BY <1>2, <1>4, ZenonT(60) DEF Lanes
  <2> HIDE DEF l
  <2>3. /\ lane' \in Lanes /\ lane'.read.at = "none" /\ ~lane'.rerun /\ lane'.retry = lane.retry
        /\ lane'.due
    BY <2>1, <2>2, OverRests, ZenonT(60)
  <2>4. ~lane.retry
    BY <1>1, <1>2, Zenon DEF LaneFair
  <2>5. LaneGood(lane', page)
    BY <1>2, <2>3, <2>4, Zenon DEF LaneGood, LaneFair
  <2>6. lane.read.value \in Nat
    BY <1>1, <1>2 DEF Lanes, LaneReads
  <2>7. /\ questionsShown <= lane.read.value /\ lane.read.value <= questions
        /\ questions \in Nat /\ questionsShown \in Nat
    BY <1>1, Zenon DEF LaneReading
  <2>8. LaneReading(lane', questions, lane.read.value)
    BY <2>3, <2>6, <2>7, Zenon DEF LaneReading
  <2>9. LaneTold(lane', page, questions, lane.read.value)
    BY <1>1, <1>4, <2>4, <2>6, <2>7 DEF LaneTold
  <2> QED BY <1>1, <2>1, <2>5, <2>8, <2>9, Zenon
<1> QED BY <1>3, <1>4, Zenon

(* The answer fails to come.                                               *)
LEMMA FailPendingStep ==
  ASSUME LaneOk, FailPending
  PROVE  LaneOk'
<1> USE DEF LaneOk
<1>1. /\ page' = page /\ questions' = questions /\ lane.read.at # "none"
      /\ questionsShown' = questionsShown
  BY Zenon DEF FailPending, Quietly, syncVars
<1>2. ~page.suspended /\ LaneFair(lane) /\ lane \in Lanes
  BY <1>1, Zenon DEF LaneGood, LaneFair
<1>3. CASE lane.rerun
  <2>1. lane' = Over(lane, page)
    BY <1>3, Zenon DEF FailPending
  <2>2. LaneGood(lane', page) /\ lane'.read.at = "asked"
    BY <1>2, <1>3, <2>1, OverRereads, Zenon
  <2>3. LaneReading(lane', questions, questionsShown) /\ LaneTold(lane', page, questions, questionsShown)
    BY <2>2, Zenon DEF LaneReading, LaneTold
  <2> QED BY <1>1, <2>2, <2>3, Zenon
<1>4. CASE ~lane.rerun
  <2> DEFINE l == [lane EXCEPT !.known = FALSE, !.retry = TRUE]
  <2>1. lane' = Over(l, page)
    BY <1>4 DEF FailPending
  <2>2. l \in Lanes /\ ~l.rerun /\ l.retry /\ ~l.known
    BY <1>2, <1>4, ZenonT(60) DEF Lanes
  <2> HIDE DEF l
  <2>3. lane' \in Lanes /\ lane'.read.at = "none" /\ ~lane'.rerun /\ lane'.retry /\ ~lane'.known
    BY <2>1, <2>2, OverRests, ZenonT(60)
  <2>4. LaneGood(lane', page)
    BY <1>2, <2>3, ZenonT(60) DEF LaneGood, LaneFair
  <2>5. LaneReading(lane', questions, questionsShown) /\ LaneTold(lane', page, questions, questionsShown)
    BY <2>3, Zenon DEF LaneReading, LaneTold
  <2> QED BY <1>1, <2>4, <2>5, Zenon
<1> QED BY <1>3, <1>4

(* A timer of the lane, and the reader's request.                          *)
LEMMA LaneTimerStep ==
  ASSUME LaneOk, LaneTimer
  PROVE  LaneOk'
<1> USE DEF LaneOk
<1>1. page' = page /\ questions' = questions /\ questionsShown' = questionsShown
  BY DEF LaneTimer, Quietly, syncVars
<1>2. ~page.suspended /\ LaneFair(lane) /\ lane \in Lanes
  BY Zenon DEF LaneGood, LaneFair, LaneTimer
<1>3. PICK old \in BOOLEAN :
        \/ lane.retry /\ lane' = RefreshPending([lane EXCEPT !.retry = FALSE], page, FALSE, old)
        \/ lane.due /\ lane' = RefreshPending([lane EXCEPT !.due = FALSE], page, FALSE, old)
  BY ZenonT(60) DEF LaneTimer
<1>4. CASE lane.retry /\ lane' = RefreshPending([lane EXCEPT !.retry = FALSE], page, FALSE, old)
  <2> DEFINE l == [lane EXCEPT !.retry = FALSE]
  <2>1. /\ l \in Lanes /\ l.read = lane.read /\ l.rerun = lane.rerun /\ ~l.retry /\ l.known = lane.known
    BY <1>2, Zenon DEF Lanes
  <2>2. lane' = RefreshPending(l, page, FALSE, old)
    BY <1>4
  <2> HIDE DEF l
  <2>3. LaneFair(l) /\ ~l.known /\ l.read.at = "none"
    BY <1>2, <1>4, <2>1 DEF LaneFair
  <2>4. /\ LaneGood(lane', page)
        /\ ~l.known /\ ~l.retry => lane'.read.at # "none"
        /\ (lane'.read = l.read /\ lane'.rerun = l.rerun /\ lane'.retry = l.retry)
           \/ lane'.read.at = "asked"
    <3> HIDE DEF LaneOk
    <3>1. LaneFair(l)
      BY <2>3
    <3> QED BY <1>2, <2>2, <3>1, UnforcedReads, ZenonT(60)
  <2>5. lane'.read.at = "asked"
    BY <2>1, <2>3, <2>4, ZenonT(60)
  <2>6. LaneReading(lane', questions, questionsShown) /\ LaneTold(lane', page, questions, questionsShown)
    BY <2>5, Zenon DEF LaneReading, LaneTold
  <2> QED BY <1>1, <2>4, <2>6, Zenon
<1>5. CASE lane' = RefreshPending([lane EXCEPT !.due = FALSE], page, FALSE, old)
  <2> DEFINE l == [lane EXCEPT !.due = FALSE]
  <2>1. /\ l \in Lanes /\ l.read = lane.read /\ l.rerun = lane.rerun /\ l.retry = lane.retry
        /\ l.known = lane.known
    BY <1>2, Zenon DEF Lanes
  <2>2. lane' = RefreshPending(l, page, FALSE, old)
    BY <1>5, Zenon
  <2> HIDE DEF l
  <2>3. LaneFair(l)
    BY <1>2, <2>1, Zenon DEF LaneFair
  <2>4. /\ LaneGood(lane', page)
        /\ (lane'.read = l.read /\ lane'.rerun = l.rerun /\ lane'.retry = l.retry)
           \/ lane'.read.at = "asked"
    BY <1>2, <2>2, <2>3, UnforcedReads, ZenonT(60)
  <2>5. LaneReading(lane', questions, questionsShown)
    BY <2>1, <2>4, Zenon DEF LaneReading
  <2>6. LaneTold(lane', page, questions, questionsShown)
    BY <2>1, <2>4, Zenon DEF LaneTold
  <2> QED BY <1>1, <2>4, <2>5, <2>6, Zenon
<1> QED BY <1>3, <1>4, <1>5, Zenon

(* A forced read of the lane.                                              *)
LEMMA AskStep ==
  ASSUME LaneOk, ~page.suspended, lane' = RefreshPending(lane, page, TRUE, TRUE),
         questions' = questions, questionsShown' = questionsShown, page'.suspended = page.suspended
  PROVE  LaneOk'
<1> USE DEF LaneOk
<1>1. LaneFair(lane)
  BY Zenon DEF LaneGood
<1>2. /\ LaneGood(lane', page) /\ (lane'.rerun \/ lane'.read.at = "asked")
      /\ lane'.read.at = "answered" => lane'.read = lane.read
  BY <1>1, ForcedReads, ZenonT(60)
<1>3. LaneGood(lane', page')
  BY <1>2, Zenon DEF LaneGood
<1>4. LaneReading(lane', questions, questionsShown) /\ LaneTold(lane', page', questions, questionsShown)
  BY <1>2, ZenonT(60) DEF LaneReading, LaneTold
<1> QED BY <1>3, <1>4, ZenonT(60)

(* Questions change.                                                       *)
LEMMA QuestionsChangeStep ==
  ASSUME PageOk, LaneOk, QuestionsChange
  PROVE  PageOk' /\ LaneOk'
<1> USE DEF LaneOk
<1>1. /\ PageOk' /\ page'.suspended = page.suspended
      /\ StreamOpen(page') /\ page'.source.feed = "up" => page'.source.news
  BY QuestionsStep, Zenon
<1>2. questions' = questions + 1 /\ questionsShown' = questionsShown /\ lane' = lane
  BY Zenon DEF QuestionsChange
<1>3. lane.read.at = "answered" => lane.read.value \in Nat
  BY AnswerHasValue, Zenon DEF LaneGood, LaneFair
<1>4. LaneGood(lane, page')
  BY <1>1, Zenon DEF LaneGood
<1>5. LaneReading(lane, questions + 1, questionsShown)
  BY <1>3, Comparing, ZenonT(60) DEF LaneReading
<1>6. LaneTold(lane, page', questions + 1, questionsShown)
  BY <1>1, Zenon DEF LaneTold, Connected
<1> QED BY <1>1, <1>2, <1>4, <1>5, <1>6, Zenon

-----------------------------------------------------------------------------
PageInv == PageOk /\ LaneOk

(* The invariant holds at first.                                           *)
LEMMA LanesStart == LanesInit => PageInv
<1> SUFFICES ASSUME LanesInit PROVE PageInv
  OBVIOUS
<1>1. PageOk
  BY PageInit DEF LanesInit
<1> DEFINE l == Idle(FALSE)
<1>2. l \in Lanes /\ l.read.at = "none" /\ ~l.rerun /\ ~l.retry /\ ~l.due /\ ~l.known
  BY Zenon DEF Idle, Lanes, LaneReads
<1>3. lane = RefreshPending(l, page, FALSE, TRUE) /\ questions = 1 /\ questionsShown = 0
  BY DEF LanesInit
<1> HIDE DEF l
<1>4. CASE page.suspended
  <2>1. lane = l
    BY <1>3, <1>4 DEF RefreshPending
  <2>2. ~Connected(page)
    BY <1>1, <1>4, ConnectedInView DEF PageOk
  <2>3. LaneGood(lane, page)
    BY <1>2, <1>4, <2>1, Zenon DEF LaneGood, LaneFair
  <2>4. LaneReading(lane, questions, questionsShown)
    <3>1. questions \in Nat /\ questionsShown \in Nat /\ questionsShown <= questions
      BY <1>3
    <3> QED BY <1>2, <2>1, <3>1, Zenon DEF LaneReading
  <2>5. LaneTold(lane, page, questions, questionsShown)
    BY <2>2, Zenon DEF LaneTold
  <2> QED BY <1>1, <2>3, <2>4, <2>5 DEF PageInv, LaneOk
<1>5. CASE ~page.suspended
  <2>1. LaneFair(l)
    BY <1>2, Zenon DEF LaneFair
  <2>2. /\ LaneGood(lane, page)
        /\ ~l.known /\ ~l.retry => lane.read.at # "none"
        /\ (lane.read = l.read /\ lane.rerun = l.rerun /\ lane.retry = l.retry)
           \/ lane.read.at = "asked"
    BY <1>3, <1>5, <2>1, UnforcedReads, ZenonT(60)
  <2>3. lane.read.at = "asked"
    BY <1>2, <2>2, Zenon
  <2>4. LaneReading(lane, questions, questionsShown)
    <3>1. questions \in Nat /\ questionsShown \in Nat /\ questionsShown <= questions
      BY <1>3
    <3> QED BY <2>3, <3>1 DEF LaneReading
  <2>5. LaneTold(lane, page, questions, questionsShown)
    BY <2>3, Zenon DEF LaneTold
  <2> QED BY <1>1, <2>2, <2>4, <2>5, Zenon DEF PageInv, LaneOk
<1> QED BY <1>4, <1>5

(* Every step keeps the invariant.                                         *)
LEMMA LanesKeep == PageInv /\ [LanesNext]_lanesVars => PageInv'
<1> SUFFICES ASSUME PageInv, [LanesNext]_lanesVars PROVE PageInv'
  OBVIOUS
<1> USE DEF PageInv
<1>1. CASE LaneFollows /\ ~page.destroyed
  BY <1>1, LaneFollowsStep
<1>2. CASE QuestionsChange
  BY <1>2, QuestionsChangeStep
<1>3. CASE StreamTellsPending
  <2>1. PageOk' /\ page'.suspended = page.suspended /\ ~page.suspended
    BY <1>3, PendingStep
  <2>2. /\ lane' = RefreshPending(lane, page, TRUE, TRUE)
        /\ questions' = questions /\ questionsShown' = questionsShown
    BY <1>3 DEF StreamTellsPending
  <2> QED BY <2>1, <2>2, AskStep, Zenon
<1>4. ASSUME Quietly PROVE PageOk'
  BY <1>4, Zenon DEF Quietly, syncVars, PageOk
<1>5. CASE AnswerPending
  BY <1>4, <1>5, AnswerPendingStep DEF AnswerPending
<1>6. CASE RenderPending
  BY <1>4, <1>6, RenderStep DEF RenderPending
<1>7. CASE FailPending
  BY <1>4, <1>7, FailPendingStep DEF FailPending
<1>8. CASE LaneTimer
  BY <1>4, <1>8, LaneTimerStep, ZenonT(60) DEF LaneTimer
<1>9. CASE AskPending
  <2>1. PageOk'
    BY <1>4, <1>9 DEF AskPending
  <2>2. /\ lane' = RefreshPending(lane, page, TRUE, TRUE) /\ ~page.suspended /\ page' = page
        /\ questions' = questions /\ questionsShown' = questionsShown
    BY <1>9 DEF AskPending, Quietly, syncVars
  <2> QED BY <2>1, <2>2, AskStep, Zenon
<1>10. CASE UNCHANGED lanesVars
  BY <1>10, Zenon DEF lanesVars, syncVars, PageOk, LaneOk
<1> QED BY <1>1, <1>2, <1>3, <1>5, <1>6, <1>7, <1>8, <1>9, <1>10, Zenon DEF LanesNext

(* The invariant is enough.                                                *)
LEMMA InvKeepsUp == PageInv => PageKeepsUp
<1> SUFFICES ASSUME PageInv PROVE PageKeepsUp
  BY Zenon
<1> USE DEF PageInv, PageOk, LaneOk, Good, Fair
<1>1. TranscriptKeepsUp
  <2> SUFFICES ASSUME ~page.suspended PROVE TranscriptKeepsUp
    BY Zenon DEF TranscriptKeepsUp
  <2>1. page.watchTimer
    BY Zenon DEF Watched
  <2>2. ASSUME AtRest(page) PROVE page.source.on /\ ~page.dirty /\ ~page.refreshTimer /\ ~page.retryTimer /\ page.active.at = "none"
    BY <2>2, Nothing, Zenon DEF Attended, AtRest
  <2>3. ASSUME AtRest(page), StreamOpen(page), page.source.feed = "up", ~page.source.hint
        PROVE  shown = version
    BY <2>2, <2>3, Zenon DEF Told
  <2>4. ASSUME Connected(page) PROVE shown >= page.source.since
    <3>1. page.source.since \in Nat /\ page.source.since <= shown
      BY <2>4, Fields, SourceFields, Zenon DEF Connected, Reading, StreamOpen
    <3> QED BY <3>1, Zenon
  <2> QED BY <2>1, <2>2, <2>3, <2>4, ZenonT(60) DEF TranscriptKeepsUp
<1>2. QuestionsKeepUp
  <2>1. lane.rerun => lane.read.at # "none"
    BY Zenon DEF LaneGood, LaneFair
  <2> QED BY <2>1, Zenon DEF QuestionsKeepUp, LaneGood, LaneTold
<1> QED BY <1>1, <1>2, Zenon DEF PageKeepsUp

(* A page in view keeps up with the server (createConversationSync and     *)
(* refreshPending), however often the conversation and the questions       *)
(* change.                                                                 *)
THEOREM PageInViewKeepsUp == LanesSpec => []PageKeepsUp
BY LanesStart, LanesKeep, InvKeepsUp, PTL DEF LanesSpec
=============================================================================
