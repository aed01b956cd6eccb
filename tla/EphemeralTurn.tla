---------------------------- MODULE EphemeralTurn ----------------------------
(***************************************************************************)
(* One utility turn on a private connection (runEphemeralTurn in           *)
(* codex/ephemeral.go): connect, read the policy, find the model, start a  *)
(* thread and a turn, wait for the verdict of the sink, then interrupt,    *)
(* unsubscribe, detach and join the reader, whatever happened before.      *)
(*                                                                         *)
(* The server is not trusted: it answers requests as it likes, in any      *)
(* order with the notifications it sends, and may drop the connection.     *)
(***************************************************************************)
EXTENDS EphemeralSink

CONSTANTS
  Own,          \* the turn the reply to turn/start names
  Sent,         \* the notifications the server may send
  MaxNotifications, \* bound on the frames of the server's own accord (256 frames)
  MaxPages      \* pages of models it reads (8)

ASSUME TurnAssumption ==
  /\ Own \in Turns
  /\ Sent \subseteq Notifications
  /\ MaxNotifications \in Nat /\ MaxPages \in Nat \ {0}

VARIABLES
  pc,           \* the step of the call
  reply,        \* "wait", or what came back for the request of this step
  link,         \* the private connection
  reader,       \* its reader goroutine
  frames,       \* frames of the server's own accord
  page,         \* pages of models read
  sink,
  turn,         \* local turnID
  clock,        \* deadlines that have passed
  err,          \* the error the call is about to return, "none" for a result
  known,        \* the thread is known; thread/start was issued
  cleaned,      \* local cleanupOK
  returned,     \* what the caller got
  direct,       \* history: a sink that knows the turn from the start
  named,        \* history: identities in turn and item notifications since turn/start
  seen, late,   \* history: notifications up to the first that revoked a retry,
                \* and those among them after a completion
  interrupted   \* history: turns an interrupt was written for

vars == <<pc, reply, link, reader, frames, page, sink, turn, clock, err, known,
          cleaned, returned, direct, named, seen, late, interrupted>>
run == <<pc, reply, page, turn, err, known, cleaned, returned, interrupted>>
wire == <<link, reader, frames>>
history == <<direct, named, seen, late>>

Replies ==
  [config |-> {"ok", "refused", "unsafe"},
   requirements |-> {"ok", "refused", "unsafe"},
   models |-> {"ok", "more", "refused", "unsafe"},
   threadStart |-> {"ok", "refused", "invalid", "unsafe"},
   turnStart |-> {"ok", "refused", "invalid", "stopped"},
   interrupt |-> {"ok", "refused"},
   unsubscribe |-> {"ok", "refused"}]

Init ==
  /\ pc = "connect" /\ reply = "none"
  /\ link = "none" /\ reader = "none" /\ frames = 0 /\ page = 0
  /\ sink = NewSink /\ turn = None
  /\ clock = {}
  /\ err = "none" /\ known = "none" /\ cleaned = FALSE
  /\ returned = <<>>
  /\ direct = NewSink /\ named = {} /\ seen = {} /\ late = {} /\ interrupted = {}

-----------------------------------------------------------------------------
(***************************************************************************)
(* Time.  The inference context ends at its deadline or at the first       *)
(* failure of the sink.  Cleanup has a deadline of its own.  The caller's  *)
(* context, cancelled or past the hard deadline, ends inference too.       *)
(***************************************************************************)
Cancelled == "caller" \in clock
InferenceOver == "inference" \in clock \/ Cancelled \/ sink.err # "none"
CleanupOver == "cleanup" \in clock

InCleanup == pc \in {"interrupt", "unsubscribe", "close", "join"}

\* During cleanup a cancelled caller is noticed at its end only: see Join.
Tick ==
  /\ pc # "done"
  /\ \/ ~InCleanup /\ ~InferenceOver /\ clock' \in {{"inference"}, {"caller"}}
     \/ ~InCleanup /\ clock' = {"caller", "cleanup"}
     \/ InCleanup /\ clock' = clock \cup {"cleanup"}
  /\ clock' # clock
  /\ UNCHANGED <<run, wire, sink, history>>

\* The local function failure.
Failure(category) ==
  CASE Cancelled -> "context"
    [] ~Cancelled /\ sink.err # "none" -> sink.err
    [] ~Cancelled /\ sink.err = "none" /\ InferenceOver -> "context"
    [] OTHER -> category

\* A request of the next step: written, or failed before the write.
Ask(step, over) ==
  /\ pc' = step
  /\ reply' = IF link = "up" /\ ~over THEN "wait" ELSE "lost"

\* The deferred cleanup begins, with the error e the body returned.
Interrupts(s, t, e) ==
  IF e # "none" THEN {CleanupTurn(s, t)} \ {None} ELSE {}

Leave(e, thread, t) ==
  LET owned == IF thread = "thread" /\ ~CleanupOver
               THEN Interrupts(sink, t, e) ELSE {}
  IN  /\ err' = e
      /\ known' = thread
      /\ turn' = t
      /\ interrupted' = IF link = "up" THEN interrupted \cup owned ELSE interrupted
      /\ CASE thread # "thread" \/ CleanupOver -> pc' = "close" /\ reply' = "none"
           [] owned # {} -> Ask("interrupt", FALSE)
           [] OTHER -> Ask("unsubscribe", FALSE)
      /\ cleaned' = (thread = "none")
      /\ clock' = clock \ {"inference"}
      /\ page' = 0

Keep == UNCHANGED <<turn, known>>
Same == UNCHANGED <<wire, clock, sink, history, returned>>

-----------------------------------------------------------------------------
\* Ensure on the private client: a dial that fails, a refused initialize, or up.
Connect ==
  /\ pc = "connect"
  /\ \/ /\ ~InferenceOver
        /\ link' = "up" /\ reader' = "running"
        /\ pc' = "config" /\ reply' = "wait"
        /\ UNCHANGED <<sink, err, cleaned, interrupted>>
     \/ \* no connection; the dial may prove that the server was only busy
        /\ \E e \in {"dial", "server"} :
             /\ err' = IF InferenceOver THEN "context" ELSE e
             /\ pc' = "close" /\ reply' = "none" /\ cleaned' = TRUE
        /\ UNCHANGED <<link, reader, sink, interrupted>>
     \/ \* initialize failed: markDisconnected ends the connection
        /\ link' = "lost" /\ reader' = "exited"
        /\ sink' = Fail(sink, "server")
        /\ err' = IF Cancelled THEN "context" ELSE "server"
        /\ pc' = "close" /\ reply' = "none" /\ cleaned' = TRUE
        /\ UNCHANGED interrupted
  /\ UNCHANGED <<frames, page, clock, history, returned>> /\ Keep

\* A request of the body was refused, or its context ended; when an answer is
\* there too, either may be taken.
Unanswered == reply \in {"lost", "refused"} \/ InferenceOver

Refusal ==
  [config |-> "isolation", requirements |-> "isolation", models |-> "settings",
   threadStart |-> "server", turnStart |-> "server"]

BodyFails ==
  /\ pc \in DOMAIN Refusal
  /\ Unanswered
  /\ Leave(Failure(Refusal[pc]), known, turn)
  /\ UNCHANGED <<wire, sink, history, returned>>

\* The answer breaks the isolation, the settings or the protocol.
BodyRefuses ==
  /\ \/ pc \in {"config", "requirements"} /\ reply = "unsafe" /\ Leave("isolation", known, turn)
     \/ pc = "models" /\ reply = "unsafe" /\ Leave("settings", known, turn)
     \/ pc = "models" /\ reply = "more" /\ page + 1 = MaxPages /\ Leave("settings", known, turn)
     \/ pc = "threadStart" /\ reply = "invalid" /\ Leave("protocol", known, turn)
     \/ /\ pc = "threadStart" /\ reply = "unsafe"
        /\ Leave("isolation", "thread", turn) \/ Leave("settings", "thread", turn)
     \/ pc = "turnStart" /\ reply = "invalid" /\ Leave("protocol", known, turn)
     \/ /\ pc = "turnStart" /\ reply = "stopped"
        /\ Leave("server", known, Own) \/ Leave("protocol", known, Own)
  /\ UNCHANGED <<wire, sink, history, returned>>

\* The next request of the body.
Proceed ==
  /\ reply \in {"ok", "more"}
  /\ \/ pc = "config" /\ Ask("requirements", InferenceOver) /\ UNCHANGED <<page, known>>
     \/ pc = "requirements" /\ Ask("models", InferenceOver) /\ UNCHANGED <<page, known>>
     \/ pc = "models" /\ reply = "more" /\ page + 1 < MaxPages
          /\ Ask("models", InferenceOver) /\ page' = page + 1 /\ UNCHANGED known
     \/ pc = "models" /\ reply = "ok" /\ Ask("threadStart", InferenceOver) /\ known' = "issued"
          /\ page' = 0
  /\ UNCHANGED <<turn, err, cleaned, interrupted>> /\ Same

\* bind of the thread, beginTurn, and the request for the turn.
ThreadStarted ==
  /\ pc = "threadStart" /\ reply = "ok"
  /\ IF sink.err # "none"
     THEN /\ Leave(Failure("protocol"), "thread", turn)
          /\ UNCHANGED <<sink, direct>>
     ELSE /\ known' = "thread"
          /\ sink' = BeginTurn(sink)
          /\ direct' = Bind(BeginTurn(direct), Own)
          /\ Ask("turnStart", InferenceOver)
          /\ UNCHANGED <<turn, err, cleaned, clock, interrupted, page>>
  /\ UNCHANGED <<wire, named, seen, late, returned>>

\* bind of the turn
TurnStarted ==
  /\ pc = "turnStart" /\ reply = "ok"
  /\ turn' = Own
  /\ sink' = Bind(sink, Own)
  /\ pc' = "bound" /\ reply' = "none"
  /\ UNCHANGED <<page, known, err, cleaned, interrupted, returned, wire, clock, history>>

\* The loop that waits for sink.result.
Await ==
  /\ pc = "bound"
  /\ \/ HasResult(sink) /\ Leave("none", known, turn)
     \/ sink.err # "none" /\ Leave(sink.err, known, turn)
     \/ InferenceOver /\ Leave(Failure("protocol"), known, turn)
  /\ UNCHANGED <<wire, sink, history, returned>>

-----------------------------------------------------------------------------
Unsubscribe ==
  /\ pc = "interrupt"
  /\ reply # "wait" \/ CleanupOver
  /\ Ask("unsubscribe", CleanupOver)
  /\ UNCHANGED <<page, err, cleaned, interrupted>> /\ Keep /\ Same

\* A mutant of Unsubscribed: the answer is awaited past the deadline.
FaultUnsubscribed ==
  /\ pc = "unsubscribe"
  /\ reply # "wait"
  /\ cleaned' = (reply = "ok")
  /\ err' = IF err = "none" /\ ~cleaned' THEN "server" ELSE err
  /\ pc' = "close" /\ reply' = "none"
  /\ UNCHANGED <<page, interrupted>> /\ Keep /\ Same

Unsubscribed ==
  /\ pc = "unsubscribe"
  /\ reply # "wait" \/ CleanupOver
  /\ cleaned' \in {reply = "ok", reply = "ok" /\ ~CleanupOver}
  /\ err' = IF err = "none" /\ ~cleaned' THEN "server" ELSE err
  /\ pc' = "close" /\ reply' = "none"
  /\ UNCHANGED <<page, interrupted>> /\ Keep /\ Same

\* closeEphemeral up to its wait: the exact connection is detached.
Close ==
  /\ pc = "close"
  /\ link' = IF link = "up" THEN "detached" ELSE link
  /\ pc' = "join"
  /\ UNCHANGED <<reply, page, reader, frames, turn, clock, sink, err, known, cleaned,
                 returned, interrupted, history>>

\* A mutant of Decide: the sink is not asked again once the reader is joined.
FaultDecide(joined, cancelled) ==
  LET failed == IF err = "none" /\ ~joined THEN "server" ELSE err
      final == IF cancelled THEN "context" ELSE failed
  IN  returned' =
        [err |-> IF final = "dial" THEN "server" ELSE final,
         answer |-> IF final = "none" THEN sink.final ELSE None,
         retry |-> /\ final \in {"server", "dial"}
                   /\ joined /\ cleaned
                   /\ final = "dial" \/ CanRetry(sink, turn)]

\* Its result, and the decision of the deferred function.
Decide(joined, cancelled) ==
  LET failed == IF err = "none" /\ ~joined THEN "server"
                ELSE IF err = "none" THEN sink.err ELSE err
      final == IF cancelled THEN "context" ELSE failed
  IN  returned' =
        [err |-> IF final = "dial" THEN "server" ELSE final,
         answer |-> IF final = "none" THEN sink.final ELSE None,
         retry |-> /\ final \in {"server", "dial"}
                   /\ joined /\ cleaned
                   /\ final = "dial" \/ CanRetry(sink, turn)]

Join ==
  /\ pc = "join"
  /\ \E cancelled \in {Cancelled, TRUE} :
       \/ link = "none" /\ Decide(~CleanupOver, cancelled)
       \/ /\ reader = "exited" /\ link # "none"
          /\ \E clean \in BOOLEAN :
               Decide(link = "detached" /\ ~CleanupOver /\ clean, cancelled)
       \/ link # "none" /\ CleanupOver /\ Decide(FALSE, cancelled)
  /\ pc' = "done"
  /\ UNCHANGED <<reply, page, turn, err, known, cleaned, interrupted, wire, clock,
                 sink, history>>

-----------------------------------------------------------------------------
(***************************************************************************)
(* The reader.  Frames already read are handled after the detach.          *)
(***************************************************************************)
\* Whether a frame can still change what the call returns or writes: during
\* cleanup only while an answer or a retry is possible.
Matters ==
  /\ pc # "done"
  /\ InCleanup => err \in {"none", "server"} /\ ~sink.revoked

Frame ==
  /\ reader = "running" /\ Matters
  /\ frames < MaxNotifications
  /\ frames' = frames + 1

Respond ==
  /\ reader = "running"
  /\ link = "up" /\ reply = "wait"
  /\ reply' \in Replies[pc]
  /\ UNCHANGED <<pc, wire, page, sink, turn, clock, err, known, cleaned,
                 returned, history, interrupted>>

Overflows == sink.err = "none" /\ sink.turn = None /\ Len(sink.events) >= BufferLimit

\* The thread has no identity before the server is asked for it.
Notify(m) ==
  /\ Frame
  /\ known = "none" => m.turn = Foreign
  /\ sink' = Handle(sink, m)
  /\ direct' = IF Overflows /\ sink'.err # "none" THEN Fail(direct, "protocol")
               ELSE Handle(direct, m)
  /\ named' = IF sink.issued /\ m.method # "error" THEN named \cup {m.turn} ELSE named
  /\ seen' = IF sink.revoked THEN seen ELSE seen \cup {m}
  /\ late' = IF ~sink.revoked /\ \E old \in seen : old.method = "turn/completed"
             THEN late \cup {m} ELSE late
  /\ UNCHANGED <<run, link, reader, clock>>

\* A request of the server is refused on the wire and ends the call.
ServerRequest ==
  /\ Frame
  /\ sink' = Fail(sink, "isolation")
  /\ direct' = Fail(direct, "isolation")
  /\ UNCHANGED <<run, link, reader, clock, named, seen, late>>

\* A second reply finds the channel of the call full.
DuplicateReply ==
  /\ Frame
  /\ reply \in UNION {Replies[step] : step \in DOMAIN Replies}
  /\ sink' = Fail(sink, "protocol")
  /\ direct' = Fail(direct, "protocol")
  /\ UNCHANGED <<run, link, reader, clock, named, seen, late>>

\* A frame that does not decode, or one too many, stops the reader.
BadFrame ==
  /\ reader = "running" /\ Matters
  /\ sink' = Fail(sink, "protocol")
  /\ direct' = Fail(direct, "protocol")
  /\ reader' = "exited"
  /\ UNCHANGED <<run, link, frames, clock, named, seen, late>>

\* The connection is lost before the detach: markDisconnected.
Disconnect ==
  /\ reader = "running" /\ link = "up"
  /\ link' = "lost" /\ reader' = "exited"
  /\ sink' = Fail(sink, "server")
  /\ direct' = Fail(direct, "server")
  /\ reply' = IF reply = "wait" THEN "lost" ELSE reply
  /\ UNCHANGED <<pc, frames, page, turn, clock, err, known, cleaned, returned,
                 interrupted, named, seen, late>>

ReaderExits ==
  /\ reader = "running" /\ link = "detached"
  /\ reader' = "exited"
  /\ UNCHANGED <<run, link, frames, clock, sink, history>>

Body ==
  \/ Connect \/ BodyFails \/ BodyRefuses \/ Proceed \/ ThreadStarted
  \/ TurnStarted \/ Await \/ Unsubscribe \/ Unsubscribed \/ Close \/ Join

Reader ==
  \/ Respond \/ (\E m \in Sent : Notify(m)) \/ ServerRequest \/ DuplicateReply \/ BadFrame
  \/ Disconnect \/ ReaderExits

Finished == pc = "done" /\ UNCHANGED vars

Next == Body \/ Reader \/ Tick \/ Finished

Spec == Init /\ [][Next]_vars

-----------------------------------------------------------------------------
(***************************************************************************)
(* Properties.                                                             *)
(***************************************************************************)
\* The values of the call, its connection and its sink.
EphemeralTypeOK ==
  /\ pc \in {"connect", "bound", "close", "join", "done"} \cup DOMAIN Replies
  /\ link \in {"none", "up", "lost", "detached"}
  /\ reader \in {"none", "running", "exited"}
  /\ frames \in 0..MaxNotifications
  /\ page \in 0..(MaxPages - 1)
  /\ turn \in {None, Own}
  /\ sink.err \in {"none", "protocol", "server", "isolation"}
  /\ sink.events \in Seq(Notifications)
  /\ Len(sink.events) <= BufferLimit
  /\ returned # <<>> => returned.err \in {"none", "protocol", "server", "isolation",
                                          "settings", "context"}

TerminalErrors == {m \in seen : m.method = "error" /\ ~m.willRetry}
Completions == {m \in seen : m.method = "turn/completed"}
AnswersSeen == {m.answer : m \in {e \in seen : e.method # "error" /\ e.method # "turn/started"}}

\* What every successful or retryable call has seen: only its own turn, no
\* asynchronous question, one answer at most, and no start after a completion.
Coherent ==
  /\ \A m \in seen : m.turn = Own
  /\ Async \notin AnswersSeen
  /\ \A a, b \in AnswersSeen \cap Answers : a = b
  /\ \A m \in late : m.method \notin {"turn/started", "error"}

\* It unsubscribed its thread, detached the connection itself, and read every
\* frame before it decided.
TornDown == cleaned /\ link = "detached" /\ reader = "exited"

\* CanRetryEphemeralTurn holds only with proof: a transient dial failure, or a
\* completion of the own turn that says failed, with nothing delivered before,
\* between or after that contradicts it, in whatever order frames arrived.
RetryProven ==
  returned # <<>> /\ returned.retry =>
    \/ link = "none"
    \/ /\ TornDown /\ Coherent
       /\ Completions # {}
       /\ \A m, n \in Completions : m = n /\ m.status = "failed"
       /\ \A m \in Completions : m.failure # "permanent"
       /\ \A m \in TerminalErrors : m.failure = "transient"
       /\ \E m \in Completions \cup TerminalErrors : m.failure = "transient"

\* A returned answer is the one final answer of the own, successfully completed
\* turn; frames that arrive while the call is torn down can still take it back.
AnswerProven ==
  returned # <<>> /\ returned.err = "none" =>
    /\ TornDown /\ Coherent
    /\ AnswersSeen \cap Answers = {returned.answer}
    /\ Completions # {}
    /\ \A m \in Completions : m.status = "completed"
    /\ TerminalErrors = {}

\* Keeping notifications until the reply to turn/start is invisible: the sink
\* judges as one that knew the turn from the start.
BufferingInvisible ==
  pc = "bound" \/ sink.turn # None =>
    /\ HasResult(sink) <=> HasResult(direct)
    /\ HasResult(sink) => sink.final = direct.final
    /\ CanRetry(sink, Own) <=> CanRetry(direct, Own)

\* An interrupt names the turn of the reply, or the only turn that turn and item
\* notifications named since turn/start: never a turn of somebody else.
InterruptsOwnTurn ==
  [][interrupted' # interrupted =>
       \E t \in Turns :
         /\ interrupted' = interrupted \cup {t}
         /\ turn' \in {None, t}
         /\ named \subseteq {t}
         /\ sink.issued]_vars

\* Once the caller's deadline has passed, no step waits for the server: the call
\* always has a next step of its own, so it returns (select on the contexts in
\* requestOnAdmission and closeEphemeral).
DeadlineReturns ==
  Cancelled /\ CleanupOver /\ pc # "done" => ENABLED Body
=============================================================================
