------------------------------ MODULE Prompts ------------------------------
(***************************************************************************)
(* The questions the App Server asks on one thread (admitPrompt, claim,    *)
(* finishResponse, writeOffer, handleResolved, autoResolveUserInput and    *)
(* snoozeUserInput in codex/client.go), the revision that tells browsers   *)
(* to read them again (bumpPendingLocked, PendingRevision) and the event   *)
(* stream that carries it (streamEvents in conversation/handler.go).       *)
(*                                                                         *)
(* The server asks under one request id, again after a reconnect or once   *)
(* the earlier question is resolved.  Every admitted offer gets a token,   *)
(* here its number.  A question is answered by a browser that shows it or, *)
(* when it does not block, by its timer.                                   *)
(***************************************************************************)
EXTENDS Link

CONSTANTS
  Browsers,
  Applications,    \* users of RespondDecision and RespondAnswers, which take no token
  MaxOffers,       \* bound on admitted offers
  MaxHints,        \* bound on broadcasts that are due at a time
  MaxNotices       \* the notices kept of unsupported requests (20 in the code)

ASSUME PromptsAssumption ==
  /\ MaxOffers \in Nat /\ MaxGenerations \in Nat
  /\ (Browsers \cup Applications) \cap (1..MaxOffers) = {}

VARIABLES
  hand,      \* of a generation: the message its reader has taken off the socket
  offers,    \* offers admitted so far
  request,   \* the entry of c.requests, a set of at most one record
  notices,   \* notices of the thread
  armed,     \* tokens whose timer has not fired
  held,      \* of a browser or a timer: the offers it claimed and is answering
  written,   \* of a token: responses that may have reached the server
  pendingSequence, pendingReset, pendingRevisions,
  hints,     \* broadcasts that are due
  stream     \* of a browser: its event stream

questionVars == <<hand, offers, request, notices, armed, held, written, pendingSequence,
                  pendingReset, pendingRevisions, hints, stream>>
promptVars == <<linkVars, questionVars>>

Tokens == 1..MaxOffers
Actors == Browsers \cup Applications \cup Tokens
Messages == {"ask", "ask later", "resolved", "unsupported"}
Off == [on |-> FALSE]

PromptsInit ==
  /\ LinkInit
  /\ hand = [g \in 1..MaxGenerations |-> "none"]
  /\ offers = 0
  /\ request = {}
  /\ notices = 0
  /\ armed = {}
  /\ held = [a \in Actors |-> {}]
  /\ written = [n \in Tokens |-> 0]
  /\ pendingSequence = 0 /\ pendingReset = 0 /\ pendingRevisions = 0
  /\ hints = 0
  /\ stream = [b \in Browsers |-> Off]

-----------------------------------------------------------------------------
PendingRevision ==
  IF pendingReset > pendingRevisions THEN pendingReset ELSE pendingRevisions

Due == hints < MaxHints /\ hints' = hints + 1

\* bumpPendingLocked, and the broadcast that follows it in every caller.
Bump ==
  /\ pendingSequence' = pendingSequence + 1
  /\ pendingRevisions' = pendingSequence + 1
  /\ Due
  /\ UNCHANGED pendingReset

Watched == {b \in Browsers : stream[b].on}

\* prunePendingRevision, once the requests are r and the streams on are w.
Pruned(revision, r, w) == IF w = {} /\ notices = 0 /\ r = {} THEN 0 ELSE revision

\* The request is over: its revision is bumped, and may go at once.
BumpAndPrune ==
  /\ pendingSequence' = pendingSequence + 1
  /\ pendingRevisions' = Pruned(pendingSequence + 1, {}, Watched)
  /\ Due
  /\ UNCHANGED pendingReset

Quiet == UNCHANGED <<pendingSequence, pendingReset, pendingRevisions, hints>>

\* Prompts: what a browser is shown of the thread.
Projection ==
  [notices |-> notices,
   prompts |-> {[token |-> q.token, snoozed |-> q.snoozed] :
                  q \in {p \in request : ~p.claimed /\ p.generation = connection}}]

\* The offer is the pending one, on the attached connection.
Pending(q) == q \in request /\ ~q.claimed /\ q.generation = connection

\* detachConnectionLocked, for the requests of generation g.
DetachPrompts(g) ==
  /\ Detach
  /\ request' = {q \in request : q.generation # g}
  /\ pendingSequence' = pendingSequence + 1
  /\ pendingReset' = pendingSequence + 1
  /\ pendingRevisions' = 0
  /\ Due

-----------------------------------------------------------------------------
(***************************************************************************)
(* The connection and its reader.                                          *)
(***************************************************************************)
Connect ==
  /\ Attach
  /\ Quiet
  /\ UNCHANGED <<hand, offers, request, notices, armed, held, written, stream>>

Lose ==
  /\ connection # 0
  /\ DetachPrompts(connection)
  /\ UNCHANGED <<hand, offers, notices, armed, held, written, stream>>

\* The reader of the attached generation takes a message.  It may handle it
\* when the generation has long been detached.
Read(m) ==
  /\ connection # 0
  /\ hand[connection] = "none"
  /\ hand' = [hand EXCEPT ![connection] = m]
  /\ Quiet
  /\ UNCHANGED <<linkVars, offers, request, notices, armed, held, written, stream>>

Handled(g) == hand' = [hand EXCEPT ![g] = "none"]

\* admitPrompt: only for the attached connection, and one offer per id.
Admits(g) == connection = g /\ \A q \in request : q.generation # g

\* A question that does not block starts its timer.
Admit(g) ==
  /\ hand[g] \in {"ask", "ask later"}
  /\ Handled(g)
  /\ IF Admits(g)
     THEN /\ offers < MaxOffers
          /\ offers' = offers + 1
          /\ request' = {[generation |-> g, token |-> offers + 1,
                          claimed |-> FALSE, snoozed |-> FALSE]}
          /\ armed' = IF hand[g] = "ask" THEN armed ELSE armed \cup {offers + 1}
          /\ Bump
     ELSE Quiet /\ UNCHANGED <<offers, request, armed>>
  /\ UNCHANGED <<linkVars, notices, held, written, stream>>

\* handleResolved; the reader broadcasts every notification.
Resolved(g) ==
  /\ hand[g] = "resolved"
  /\ Handled(g)
  /\ LET gone == {q \in request : q.generation = g} IN
     /\ request' = request \ gone
     /\ IF gone = {} THEN Due /\ UNCHANGED <<pendingSequence, pendingReset, pendingRevisions>>
        ELSE BumpAndPrune
  /\ UNCHANGED <<linkVars, offers, notices, armed, held, written, stream>>

\* rejectUnsupported keeps a notice of the last requests.
Unsupported(g) ==
  /\ hand[g] = "unsupported"
  /\ Handled(g)
  /\ notices' = IF notices < MaxNotices THEN notices + 1 ELSE notices
  /\ Bump
  /\ UNCHANGED <<linkVars, offers, request, armed, held, written, stream>>

-----------------------------------------------------------------------------
(***************************************************************************)
(* Answers.                                                                *)
(***************************************************************************)
Take(a, q) ==
  /\ request' = {[q EXCEPT !.claimed = TRUE]}
  /\ held' = [held EXCEPT ![a] = {q}]
  /\ Bump
  /\ UNCHANGED <<linkVars, hand, offers, notices, written, stream>>

Shows(b, n) == stream[b].on /\ \E p \in stream[b].shown.prompts : p.token = n

\* claim, by a browser for the offer it shows, by an application for any.
Claim(a) ==
  /\ held[a] = {}
  /\ \E q \in request :
       /\ Pending(q)
       /\ a \in Browsers => Shows(a, q.token)
       /\ Take(a, q)
  /\ UNCHANGED armed

\* A mutant of MayResolve: a snooze is ignored.
FaultMayResolve(q, n) == Pending(q) /\ q.token = n

\* autoResolveUserInput: the timer of an offer fires, once.
MayResolve(q, n) == Pending(q) /\ q.token = n /\ ~q.snoozed

Fire(n) ==
  /\ n \in armed
  /\ armed' = armed \ {n}
  /\ \/ \E q \in request : MayResolve(q, n) /\ Take(n, q)
     \/ /\ \A q \in request : ~MayResolve(q, n)
        /\ Quiet
        /\ UNCHANGED <<linkVars, hand, offers, request, notices, held, written, stream>>

\* snoozeUserInput, by a browser for the offer it shows.
Snooze(b) ==
  /\ \E q \in request :
       /\ Pending(q) /\ ~q.snoozed /\ Shows(b, q.token)
       /\ request' = {[q EXCEPT !.snoozed = TRUE]}
  /\ Bump
  /\ UNCHANGED <<linkVars, hand, offers, notices, armed, held, written, stream>>

Same(q, r) == q.token = r.token /\ q.generation = r.generation

\* writeOffer validates the claim again, under the writer's lock.
Offered(q) ==
  /\ connection = q.generation
  /\ \E r \in request : Same(q, r) /\ r.claimed

\* The response is written and the request is over.
Respond(a) ==
  /\ \E q \in held[a] :
       /\ Offered(q)
       /\ written' = [written EXCEPT ![q.token] = @ + 1]
  /\ request' = {}
  /\ held' = [held EXCEPT ![a] = {}]
  /\ BumpAndPrune
  /\ UNCHANGED <<linkVars, hand, offers, notices, armed, stream>>

\* A mutant of Released: whatever offer is current is released.
FaultReleased(q) == {[r EXCEPT !.claimed = FALSE] : r \in request}

\* releaseClaim, when the current offer is the one that was claimed.
Released(q) == {IF Same(q, r) THEN [r EXCEPT !.claimed = FALSE] ELSE r : r \in request}

\* A mutant of Decline: the released question gets no new revision.
FaultDecline(a) ==
  /\ \E q \in held[a] : request' = Released(q)
  /\ Due
  /\ held' = [held EXCEPT ![a] = {}]
  /\ UNCHANGED <<linkVars, hand, offers, notices, armed, written, pendingSequence,
                 pendingReset, pendingRevisions, stream>>

\* Nothing is written: an invalid answer, no authority for it, another
\* connection, an offer that has gone, or an ended context.
Decline(a) ==
  /\ \E q \in held[a] :
       /\ request' = Released(q)
       /\ IF \E r \in request : Same(q, r) THEN Bump
          ELSE Due /\ UNCHANGED <<pendingSequence, pendingReset, pendingRevisions>>
  /\ held' = [held EXCEPT ![a] = {}]
  /\ UNCHANGED <<linkVars, hand, offers, notices, armed, written, stream>>

\* A mutant of BreakResponse: the claim is released like after a refusal.
FaultBreakResponse(a) ==
  /\ \E q \in held[a] :
       /\ Offered(q)
       /\ written' = [written EXCEPT ![q.token] = @ + 1]
       /\ request' = Released(q)
  /\ Bump
  /\ held' = [held EXCEPT ![a] = {}]
  /\ UNCHANGED <<linkVars, hand, offers, notices, armed, stream>>

\* The write breaks off.  The server may have the response; the connection is
\* given up, which leaves no claim to release.
BreakResponse(a) ==
  /\ \E q \in held[a] :
       /\ Offered(q)
       /\ written' = [written EXCEPT ![q.token] = @ + 1]
       /\ DetachPrompts(q.generation)
  /\ held' = [held EXCEPT ![a] = {}]
  /\ UNCHANGED <<hand, offers, notices, armed, stream>>

-----------------------------------------------------------------------------
(***************************************************************************)
(* The event stream of a browser.                                          *)
(***************************************************************************)
\* A broadcast fills the channels, of capacity one, of the streams.
Broadcast ==
  /\ hints > 0
  /\ hints' = hints - 1
  /\ stream' = [b \in Browsers |-> IF stream[b].on THEN [stream[b] EXCEPT !.full = TRUE]
                                   ELSE stream[b]]
  /\ UNCHANGED <<linkVars, hand, offers, request, notices, armed, held, written,
                 pendingSequence, pendingReset, pendingRevisions>>

\* The stream opens: it notes the revision, and the browser will read.
Open(b) ==
  /\ ~stream[b].on
  /\ stream' = [stream EXCEPT ![b] =
       [on |-> TRUE, full |-> FALSE, previous |-> PendingRevision, stale |-> TRUE,
        shown |-> [notices |-> 0, prompts |-> {}]]]
  /\ Quiet
  /\ UNCHANGED <<linkVars, hand, offers, request, notices, armed, held, written>>

\* streamEvents tells the browser when the revision differs.
Event(b) ==
  /\ stream[b].on /\ stream[b].full
  /\ stream' = [stream EXCEPT ![b] =
       [@ EXCEPT !.full = FALSE, !.previous = PendingRevision,
                 !.stale = stream[b].stale \/ stream[b].previous # PendingRevision]]
  /\ Quiet
  /\ UNCHANGED <<linkVars, hand, offers, request, notices, armed, held, written>>

Refetch(b) ==
  /\ stream[b].on /\ stream[b].stale
  /\ stream' = [stream EXCEPT ![b] = [@ EXCEPT !.stale = FALSE, !.shown = Projection]]
  /\ Quiet
  /\ UNCHANGED <<linkVars, hand, offers, request, notices, armed, held, written>>

\* The stream ends; with the last one the revision may go.
Shut(b) ==
  /\ stream[b].on
  /\ stream' = [stream EXCEPT ![b] = Off]
  /\ pendingRevisions' = Pruned(pendingRevisions, request, Watched \ {b})
  /\ UNCHANGED <<linkVars, hand, offers, request, notices, armed, held, written, hints,
                 pendingSequence, pendingReset>>

PromptsNext ==
  \/ Connect \/ Lose \/ Broadcast
  \/ \E m \in Messages : Read(m)
  \/ \E g \in 1..MaxGenerations : Admit(g) \/ Resolved(g) \/ Unsupported(g)
  \/ \E n \in Tokens : Fire(n)
  \/ \E b \in Browsers :
       Snooze(b) \/ Open(b) \/ Event(b) \/ Refetch(b) \/ Shut(b)
  \/ \E a \in Browsers \cup Applications : Claim(a)
  \/ \E a \in Actors : Respond(a) \/ Decline(a) \/ BreakResponse(a)

PromptsSpec == PromptsInit /\ [][PromptsNext]_promptVars

-----------------------------------------------------------------------------
Offer == [generation : 1..MaxGenerations, token : Tokens, claimed : BOOLEAN, snoozed : BOOLEAN]
Shown == [notices : Nat, prompts : SUBSET [token : Tokens, snoozed : BOOLEAN]]
Stream == [on : {TRUE}, full : BOOLEAN, previous : Nat, stale : BOOLEAN, shown : Shown]

\* Offers, claims, revisions and streams keep to their values.
PromptsTypeOK ==
  /\ generation \in 0..MaxGenerations /\ connection \in {0, generation}
  /\ hand \in [1..MaxGenerations -> Messages \cup {"none"}]
  /\ offers \in 0..MaxOffers
  /\ request \subseteq Offer
  /\ notices \in Nat
  /\ armed \subseteq Tokens
  /\ held \in [Actors -> SUBSET Offer]
  /\ written \in [Tokens -> Nat]
  /\ pendingSequence \in Nat /\ pendingReset \in Nat /\ pendingRevisions \in Nat
  /\ hints \in Nat
  /\ stream \in [Browsers -> {Off} \cup Stream]

\* An offer is answered at most once, whether by a browser, by a second one or
\* by the timer, and a response whose fate is unknown counts: the claim is not
\* given back to anybody (client.go:1288-1306, 2167).
AnsweredOnce == \A n \in Tokens : written[n] <= 1

\* A question is hidden from the browsers exactly while somebody is answering
\* it, so none is lost behind a claim nobody holds, and no late release
\* uncovers a question another responder has claimed (client.go:2118-2155).
ClaimsAreHeld ==
  \A q \in request :
    q.claimed <=> \E a \in Actors : \E h \in held[a] : Same(h, q)

\* A question the user snoozed is never answered by its timer
\* (client.go:1463, 1503).
SnoozeHolds ==
  \A q \in request : \A n \in Tokens :
    q.snoozed => \A h \in held[n] : ~Same(h, q)

\* A browser whose stream is open, with nothing announced, nothing in its
\* channel and no broadcast due, shows the questions that are pending: no
\* change escapes the coalesced hints and the revision they carry
\* (client.go:1919-1967, handler.go:1041-1050).
StreamsAreCurrent ==
  hints = 0 =>
    \A b \in Browsers :
      stream[b].on /\ ~stream[b].full /\ ~stream[b].stale => stream[b].shown = Projection
=============================================================================
