---------------------------- MODULE EphemeralSink ----------------------------
(***************************************************************************)
(* How a utility turn judges what its private connection delivers          *)
(* (ephemeralSink in codex/ephemeral.go).  Notifications that arrive       *)
(* before the reply to turn/start are kept, checked when they arrive, and  *)
(* consumed when the reply names the turn.  A sink is a record; its        *)
(* methods are functions from sinks to sinks.                              *)
(***************************************************************************)
EXTENDS Naturals, Sequences, SequencesExt

CONSTANTS
  Turns,        \* turns of the utility's own thread
  Foreign,      \* stands for every identity of another thread
  Answers,      \* final answers: the item and its text
  None,
  BufferLimit   \* notifications kept before the turn is known (32)

ASSUME SinkAssumption ==
  /\ BufferLimit \in Nat
  /\ Foreign \notin Turns
  /\ None \notin Turns \cup Answers \cup {Foreign}

(***************************************************************************)
(* Notifications.  An item event carries a final answer, nothing of        *)
(* interest (a started item, commentary, a tool), or asynchronous-question *)
(* metadata.  Shapes the decoder refuses are frames, not notifications.    *)
(***************************************************************************)
Async == "async"
Identities == Turns \cup {Foreign}
Content == Answers \cup {None, Async}
Failures == {"none", "transient", "permanent"}

Started == [method : {"turn/started"}, turn : Identities]
Items == [method : {"item/completed"}, turn : Identities, answer : Content]
Completed ==
  [method : {"turn/completed"}, turn : Identities, status : {"completed"},
   failure : {"none"}, answer : Content]
Failed ==
  [method : {"turn/completed"}, turn : Identities, status : {"failed"},
   failure : Failures, answer : Content]
Errors ==
  [method : {"error"}, turn : Identities, willRetry : BOOLEAN,
   failure : {"transient", "permanent"}]
Notifications == Started \cup Items \cup Completed \cup Failed \cup Errors

NewSink ==
  [err |-> "none",          \* the first failure
   issued |-> FALSE,        \* turn/start is about to be written
   turn |-> None,           \* the turn the reply named
   cleanup |-> None,        \* the turn the notifications name
   ambiguous |-> FALSE,     \* they named several, or a foreign one
   events |-> <<>>,
   final |-> None,
   completed |-> FALSE, settled |-> FALSE,
   failed |-> FALSE, transient |-> FALSE, revoked |-> FALSE,
   evidence |-> <<>>]       \* what the failed completion said

FirstError(s, category) == IF s.err = "none" THEN category ELSE s.err

\* fail, and the verdict on contradictory evidence: the call ends, no retry.
Fail(s, category) ==
  [s EXCEPT !.transient = FALSE, !.revoked = TRUE, !.err = FirstError(s, category)]

-----------------------------------------------------------------------------
\* validErrorLocked: an error must name the turn as far as it is known.
ErrorIdentity(s, m) ==
  /\ m.turn # Foreign
  /\ s.issued
  /\ s.turn \in {None, m.turn}
  /\ s.cleanup \in {None, m.turn}

\* A mutant of RefuseError: proof of a transient failure survives it.
FaultRefuseError(s, m) ==
  [s EXCEPT !.ambiguous = @ \/ (~s.settled /\ ~ErrorIdentity(s, m)), !.err = "protocol"]

\* rejectErrorLocked, for an error that is refused.
RefuseError(s, m) ==
  [s EXCEPT !.ambiguous = @ \/ (~s.settled /\ ~ErrorIdentity(s, m)),
            !.transient = FALSE, !.revoked = TRUE, !.err = "protocol"]

NoteCleanupIdentity(s, m) ==
  CASE ~s.issued -> s
    [] s.issued /\ (m.turn = Foreign \/ s.turn \notin {None, m.turn}
                                    \/ s.cleanup \notin {None, m.turn})
         -> [s EXCEPT !.ambiguous = TRUE, !.err = FirstError(s, "protocol")]
    [] OTHER -> [s EXCEPT !.cleanup = m.turn]

\* validateItemLocked
ItemError(s, answer) ==
  CASE answer = Async -> "isolation"
    [] answer \in Answers /\ (\/ s.final \notin {None, answer}
                              \/ s.settled /\ s.failed /\ s.final = None)
         -> "protocol"
    [] OTHER -> "none"

Evidence(m) == <<m.status, m.failure, m.answer>>

\* What is wrong with a notification other than an error, seen by sink s.
Contradiction(s, m) ==
  CASE s.ambiguous -> "protocol"
    [] ~s.ambiguous /\ m.method = "turn/started" /\ s.settled -> "protocol"
    [] ~s.ambiguous /\ m.method = "item/completed" -> ItemError(s, m.answer)
    [] ~s.ambiguous /\ m.method = "turn/completed" ->
         IF s.completed THEN "protocol"
         ELSE IF ItemError(s, m.answer) # "none" THEN ItemError(s, m.answer)
         ELSE IF s.settled /\ s.failed /\ Evidence(m) # s.evidence THEN "protocol"
         ELSE "none"
    [] OTHER -> "none"

\* rejectEvidenceLocked: the sink after the check, and whether m was refused.
Check(s, m) ==
  IF m.method = "error"
  THEN IF ~s.settled /\ ErrorIdentity(s, m)
       THEN [sink |-> s, refused |-> FALSE]
       ELSE [sink |-> RefuseError(s, m), refused |-> TRUE]
  ELSE LET noted == NoteCleanupIdentity(s, m)
           wrong == Contradiction(noted, m)
       IN  IF wrong = "none"
           THEN [sink |-> noted, refused |-> FALSE]
           ELSE [sink |-> Fail(noted, wrong), refused |-> TRUE]

-----------------------------------------------------------------------------
ConsumeError(s, m) ==
  IF m.willRetry THEN s
  ELSE LET transient == m.failure = "transient" /\ (s.failed => s.transient)
       IN  [s EXCEPT !.failed = TRUE, !.transient = transient,
                     !.err = IF transient THEN @ ELSE "server"]

\* itemLocked
TakeItem(s, answer) ==
  IF answer \in Answers THEN [s EXCEPT !.final = answer] ELSE s

ConsumeCompletion(s, m) ==
  LET taken == TakeItem(s, m.answer)
  IN  CASE m.status = "failed" ->
             [taken EXCEPT
                !.failed = TRUE, !.settled = TRUE, !.err = "server",
                !.evidence = Evidence(m),
                !.transient = CASE m.failure = "none" -> s.failed /\ s.transient
                                [] m.failure = "permanent" -> FALSE
                                [] OTHER -> s.failed => s.transient]
        [] m.status = "completed" /\ s.failed ->
             [taken EXCEPT !.settled = TRUE, !.transient = FALSE, !.err = "server"]
        [] OTHER -> [taken EXCEPT !.settled = TRUE, !.completed = TRUE]

\* consumeLocked, once the turn is bound
Consume(s, m) ==
  LET checked == Check(s, m)
      now == checked.sink
  IN  CASE checked.refused \/ now.err # "none" -> now
        [] ~checked.refused /\ now.err = "none" /\ m.method = "error" ->
             ConsumeError(now, m)
        [] ~checked.refused /\ now.err = "none" /\ m.method = "item/completed" ->
             TakeItem(now, m.answer)
        [] ~checked.refused /\ now.err = "none" /\ m.method = "turn/completed" ->
             ConsumeCompletion(now, m)
        [] OTHER -> now

\* handle, for the notifications the sink looks at
Handle(s, m) ==
  LET checked == Check(s, m)
      now == checked.sink
  IN  IF checked.refused \/ now.err # "none" THEN now
      ELSE IF now.turn # None THEN Consume(now, m)
      ELSE IF Len(now.events) >= BufferLimit THEN [now EXCEPT !.err = "protocol"]
      ELSE [now EXCEPT !.events = Append(@, m)]

\* beginTurn
BeginTurn(s) == [s EXCEPT !.issued = TRUE]

\* A mutant of Bind: what arrived before the reply is forgotten.
FaultBind(s, t) ==
  IF s.cleanup \notin {None, t}
  THEN [s EXCEPT !.ambiguous = TRUE, !.err = "protocol"]
  ELSE [s EXCEPT !.turn = t, !.events = <<>>]

\* bind, with the turn that the reply to turn/start named
Bind(s, t) ==
  IF s.cleanup \notin {None, t}
  THEN [s EXCEPT !.ambiguous = TRUE, !.err = "protocol"]
  ELSE [FoldLeft(Consume, [s EXCEPT !.turn = t], s.events) EXCEPT !.events = <<>>]

\* A mutant of CleanupTurn: an ambiguous identity is interrupted all the same.
FaultCleanupTurn(s, replied) ==
  CASE ~s.issued \/ (s.settled /\ s.turn # None) -> None
    [] s.issued /\ ~(s.settled /\ s.turn # None) /\ replied # None -> replied
    [] OTHER -> s.cleanup

\* cleanupTurn: the turn a failed call may interrupt
CleanupTurn(s, replied) ==
  CASE s.ambiguous \/ ~s.issued \/ (s.settled /\ s.turn # None) -> None
    [] ~(s.ambiguous \/ ~s.issued \/ (s.settled /\ s.turn # None)) /\ replied # None ->
         IF s.cleanup \in {None, replied} THEN replied ELSE None
    [] OTHER -> s.cleanup

CanRetry(s, replied) ==
  /\ ~s.revoked /\ s.transient /\ s.failed /\ s.settled /\ ~s.ambiguous
  /\ s.turn = replied /\ replied # None

\* result
HasResult(s) == s.err = "none" /\ s.completed /\ s.final # None
=============================================================================
