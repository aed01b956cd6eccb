---------------------------- MODULE ThreadProofs ----------------------------
(***************************************************************************)
(* Theorems about what the client keeps of a thread: its questions         *)
(* (Prompts) and its activity (Activity).  They hold for every set of      *)
(* browsers, applications, turns and remarks, any limit on what is kept    *)
(* and any number of questions, connections, notices, hints, reads and     *)
(* crashes.                                                                *)
(***************************************************************************)
EXTENDS Prompts, Activity, TLAPS

(***************************************************************************)
(* The numbers of the activity records, before any state.                  *)
(***************************************************************************)
(* Numbers are ordered.                                                    *)
LEMMA Comparing ==
  /\ 0 \in Nat /\ \A a \in Nat : 0 <= a /\ a <= a
  /\ \A a, b \in Nat : a <= b \/ b <= a
  /\ \A a, b, c \in Nat : a <= b /\ b <= c => a <= c
OBVIOUS

(* At least is at most, read from the other side.                          *)
LEMMA AtMostAtLeast == \A a, b \in Nat : a >= b <=> b <= a
OBVIOUS

(* A number is at most the later of two when it is at most one of them.    *)
LEMMA LaterAbove == \A a, b, c \in Nat : a <= Later(b, c) <=> a <= b \/ a <= c
BY DEF Later

(* The later of two grows with them.                                       *)
LEMMA LaterGrows ==
  \A a, b, c, d \in Nat : a <= c /\ b <= d =>
    Later(a, b) \in Nat /\ Later(c, d) \in Nat /\ Later(a, b) <= Later(c, d)
BY DEF Later

(* What is counted of a turn without a record has number zero.             *)
LEMMA BlankNumber == Blank.sequence = 0
BY DEF Blank

(* The number of a turn.                                                   *)
Number(f, t) == Get(f, t).sequence

(* Every record has a number.                                              *)
HasNumber(r) == "sequence" \in DOMAIN r /\ r.sequence \in Nat
Numbered(f) == \A t \in DOMAIN f : HasNumber(f[t])

(* g has what f has, as new or newer.                                      *)
Grows(f, g) ==
  /\ Numbered(g)
  /\ DOMAIN f \subseteq DOMAIN g
  /\ \A t \in DOMAIN f : f[t].sequence <= g[t].sequence

(* The later of two numbers.                                               *)
LEMMA LaterOf ==
  ASSUME NEW a \in Nat, NEW b \in Nat
  PROVE  /\ Later(a, b) \in Nat /\ a <= Later(a, b) /\ b <= Later(a, b)
         /\ \A n \in Nat : a <= n /\ b <= n => Later(a, b) <= n
BY DEF Later

(* The number of a turn.                                                   *)
LEMMA NumberOf ==
  ASSUME NEW f, NEW t, Numbered(f)
  PROVE  /\ Number(f, t) \in Nat
         /\ t \in DOMAIN f => Number(f, t) = f[t].sequence
         /\ t \notin DOMAIN f => Number(f, t) = 0
BY Zenon DEF Numbered, HasNumber, Number, Get, Blank

(* Growing is transitive, and numbers grow with it.                        *)
LEMMA GrowsOn ==
  ASSUME NEW f, NEW g, NEW h, Numbered(f), Grows(f, g), Grows(g, h)
  PROVE  Grows(f, h)
BY DEF Grows, Numbered, HasNumber

(* So do the numbers.                                                      *)
LEMMA GrowsNumber ==
  ASSUME NEW f, NEW g, NEW t, Numbered(f), Grows(f, g)
  PROVE  Number(f, t) <= Number(g, t)
BY NumberOf DEF Grows

(* What stays the same grows, in this sense.                               *)
LEMMA GrowsSame ==
  ASSUME NEW f, Numbered(f)
  PROVE  Grows(f, f)
BY DEF Grows, Numbered, HasNumber

-----------------------------------------------------------------------------
(* What the operations do to a record: its number stays or grows.          *)
LEMMA AddGrows ==
  ASSUME NEW r, HasNumber(r), NEW state, NEW from, NEW to
  PROVE  HasNumber(Add(r, state, from, to)) /\ r.sequence <= Add(r, state, from, to).sequence
BY DEF Add, HasNumber

(* Taking back the time of the last second leaves the number alone.        *)
LEMMA CutKeeps ==
  ASSUME NEW r, HasNumber(r), NEW end
  PROVE  HasNumber(Cut(r, end)) /\ Cut(r, end).sequence = r.sequence
BY DEF Cut, HasNumber

(* So does the end of the turn.                                            *)
LEMMA CompletedKeeps ==
  ASSUME NEW r, HasNumber(r), NEW end
  PROVE  HasNumber(Completed(r, end)) /\ Completed(r, end).sequence = r.sequence
BY CutKeeps DEF Completed, HasNumber

(* The boundaries of the turn count as a change, unless it is final.       *)
LEMMA MetadataGrows ==
  ASSUME NEW r, HasNumber(r), NEW turn
  PROVE  HasNumber(ApplyMetadata(r, turn)) /\ r.sequence <= ApplyMetadata(r, turn).sequence
<1> DEFINE known == [r EXCEPT !.sequence = @ + 1,
                              !.started = IF turn.started > 0 THEN turn.started ELSE @]
<1>1. HasNumber(known) /\ known.sequence = r.sequence + 1
  BY DEF HasNumber
<1>2. HasNumber(Completed(known, turn.completed))
      /\ Completed(known, turn.completed).sequence = known.sequence
  <2> HIDE DEF known
  <2> QED BY <1>1, CompletedKeeps
<1>3. ApplyMetadata(r, turn) \in {r, known, Completed(known, turn.completed)}
  BY DEF ApplyMetadata
<1> HIDE DEF known
<1> QED BY <1>1, <1>2, <1>3 DEF HasNumber

(* A record that takes up a saved summary is newer than both.              *)
LEMMA ReopenGrows ==
  ASSUME NEW saved, HasNumber(saved), NEW r, HasNumber(r)
  PROVE  HasNumber(Reopened(saved, r)) /\ r.sequence <= Reopened(saved, r).sequence
<1> DEFINE s == IF r.working + r.waiting > 0
                THEN [saved EXCEPT !.working = @ + r.working, !.waiting = @ + r.waiting,
                                   !.through = r.through, !.tailSecond = r.tailSecond,
                                   !.tailWork = r.tailWork, !.tailWait = r.tailWait]
                ELSE saved
<1>1. "sequence" \in DOMAIN s
  BY DEF HasNumber
<1>2. Reopened(saved, r) = [s EXCEPT !.final = FALSE, !.sequence = Later(saved.sequence, r.sequence) + 1]
  BY DEF Reopened
<1> HIDE DEF s
<1>3. Later(saved.sequence, r.sequence) \in Nat /\ r.sequence <= Later(saved.sequence, r.sequence)
  BY LaterOf DEF HasNumber
<1> QED BY <1>1, <1>2, <1>3 DEF HasNumber

(* Making a record final counts as a change.                               *)
LEMMA EndedGrows ==
  ASSUME NEW r, HasNumber(r)
  PROVE  LET ended == [r EXCEPT !.final = TRUE, !.sequence = @ + 1]
         IN  HasNumber(ended) /\ r.sequence <= ended.sequence
BY DEF HasNumber

(* A record is put in place of one that is not newer.                      *)
LEMMA PutGrows ==
  ASSUME NEW f, Numbered(f), NEW t, NEW r, HasNumber(r), Number(f, t) <= r.sequence
  PROVE  Grows(f, Put(f, t, r))
BY NumberOf DEF Grows, Numbered, HasNumber, Put

(* A turn without a record counts as number zero.                          *)
LEMMA BlankHasNumber == HasNumber(Blank)
BY DEF HasNumber, Blank

(* What is got of a turn has its number.                                   *)
LEMMA GetHasNumber ==
  ASSUME NEW f, Numbered(f), NEW t
  PROVE  HasNumber(Get(f, t)) /\ Get(f, t).sequence = Number(f, t)
BY BlankHasNumber DEF Numbered, Get, Number

-----------------------------------------------------------------------------
(***************************************************************************)
(* Prompts.                                                                *)
(***************************************************************************)
(* Offers are numbered as they are admitted, there is one at a time, and   *)
(* an answered one is no longer there.                                     *)
OffersHold ==
  /\ \A q, r \in request : q = r
  /\ \A q \in request : q.token <= offers /\ q.generation <= generation
  /\ \A n \in Tokens : written[n] > 0 => n <= offers /\ \A q \in request : q.token # n
  /\ \A n \in armed : n <= offers

(* Nobody answers two offers, no two answer one, and a timer answers its   *)
(* own, once it has fired.                                                 *)
HeldOnce ==
  /\ \A a \in Actors : \A h \in held[a] :
       /\ h.token <= offers
       /\ \A b \in Actors : \A k \in held[b] : Same(h, k) => a = b /\ h = k
       /\ \A k \in held[a] : h = k
  /\ \A n \in Tokens : \A h \in held[n] : h.token = n
  /\ \A n \in armed : held[n] = {}

(* A stream that has not noted the present revision will hear of it; one   *)
(* that has, and read since, shows the present questions.  Revisions only  *)
(* ever grow while somebody listens.                                       *)
StreamsHear ==
  /\ pendingReset <= pendingSequence /\ pendingRevisions <= pendingSequence
  /\ \A b \in Watched :
       /\ stream[b].previous <= pendingSequence
       /\ stream[b].previous # PendingRevision => hints > 0 \/ stream[b].full
       /\ stream[b].previous = PendingRevision /\ ~stream[b].stale => stream[b].shown = Projection

PromptInv ==
  /\ PromptsTypeOK
  /\ OffersHold /\ HeldOnce /\ StreamsHear
  /\ AnsweredOnce /\ ClaimsAreHeld /\ SnoozeHolds

-----------------------------------------------------------------------------
(***************************************************************************)
(* The questions.                                                          *)
(***************************************************************************)
Questions == OffersHold /\ HeldOnce /\ AnsweredOnce /\ ClaimsAreHeld /\ SnoozeHolds

(* Offers that go take their claims with them.                             *)
LEMMA DropKeeps ==
  ASSUME PromptsTypeOK, Questions, request' \subseteq request, generation <= generation',
         generation' \in Nat, UNCHANGED <<offers, armed, held, written>>
  PROVE  Questions'
<1>1. OffersHold'
  BY PromptsAssumption DEF PromptsTypeOK, Questions, OffersHold, Offer
<1>2. HeldOnce' /\ AnsweredOnce' /\ ClaimsAreHeld' /\ SnoozeHolds'
  BY DEF Questions, HeldOnce, AnsweredOnce, ClaimsAreHeld, SnoozeHolds, Same
<1> QED
  BY <1>1, <1>2 DEF Questions

(* An admitted offer has a number nobody has seen.                         *)
LEMMA AdmitKeeps ==
  ASSUME PromptsTypeOK, Questions, NEW g \in 1..MaxGenerations, Admit(g)
  PROVE  Questions'
<1> USE PromptsAssumption
<1> DEFINE n == offers + 1
<1> DEFINE new == [generation |-> g, token |-> n, claimed |-> FALSE, snoozed |-> FALSE]
<1>1. CASE ~Admits(g)
  <2>1. request' \subseteq request /\ UNCHANGED <<offers, armed, held, written>> /\ generation' = generation
    BY <1>1, Zenon DEF Admit, linkVars
  <2>2. generation \in Nat /\ generation <= generation
    BY DEF PromptsTypeOK
  <2> QED
    BY <2>1, <2>2, DropKeeps
<1>2. CASE Admits(g)
  <2>1. /\ n \in Tokens /\ offers' = n /\ request' = {new} /\ armed' \in {armed, armed \cup {n}}
        /\ held' = held /\ written' = written /\ g <= generation /\ generation' = generation
    <3>1. offers < MaxOffers /\ offers' = n /\ request' = {new} /\ armed' \in {armed, armed \cup {n}}
      BY <1>2, Zenon DEF Admit
    <3>2. held' = held /\ written' = written /\ generation' = generation
      BY Zenon DEF Admit, linkVars
    <3>3. n \in Tokens
      BY <3>1 DEF PromptsTypeOK, Tokens
    <3>4. g <= generation
      BY <1>2 DEF Admits, PromptsTypeOK
    <3> QED
      BY <3>1, <3>2, <3>3, <3>4
  <2>2. offers \in Nat /\ offers < n /\ \A m \in Tokens : m <= offers => m <= n /\ m # n
    BY DEF PromptsTypeOK, Tokens
  <2>3. OffersHold'
    BY <2>1, <2>2 DEF Questions, OffersHold, PromptsTypeOK
  <2>4. \A a \in Actors : \A h \in held[a] : h \in Offer /\ h.token \in Tokens /\ h.token # n
    BY <2>2 DEF Questions, HeldOnce, PromptsTypeOK, Offer
  <2>5. HeldOnce'
    <3>1. n \in Actors /\ held[n] = {}
      BY <2>1, <2>4 DEF Questions, HeldOnce, Actors
    <3> QED
      BY <2>1, <2>2, <2>4, <3>1 DEF Questions, HeldOnce
  <2>6. AnsweredOnce' /\ ClaimsAreHeld' /\ SnoozeHolds'
    BY <2>1, <2>4 DEF Questions, AnsweredOnce, ClaimsAreHeld, SnoozeHolds, Same
  <2> QED
    BY <2>3, <2>5, <2>6 DEF Questions
<1> QED
  BY <1>1, <1>2

(* A pending offer is claimed by one who answers nothing else; a timer     *)
(* claims its own, and not one that was snoozed.                           *)
LEMMA TakeKeeps ==
  ASSUME PromptsTypeOK, Questions, NEW a \in Actors, NEW q \in request,
         Pending(q), Take(a, q), held[a] = {},
         a \in Tokens => q.token = a /\ ~q.snoozed,
         armed' \subseteq armed, a \notin armed'
  PROVE  Questions'
<1> DEFINE mine == [q EXCEPT !.claimed = TRUE]
<1>1. /\ request' = {mine} /\ held' = [held EXCEPT ![a] = {q}]
      /\ offers' = offers /\ written' = written /\ generation' = generation
      /\ q \in Offer /\ mine \in Offer /\ mine.token = q.token /\ mine.generation = q.generation
      /\ mine.claimed = TRUE /\ mine.snoozed = q.snoozed
  BY Zenon DEF Take, linkVars, PromptsTypeOK, Offer
<1>2. OffersHold'
  BY <1>1 DEF Questions, OffersHold
<1>3. \A b \in Actors : \A h \in held[b] : ~Same(h, q)
  BY DEF Questions, ClaimsAreHeld, Pending
<1>4. HeldOnce'
  <2>1. \A b \in Actors : held'[b] = IF b = a THEN {q} ELSE held[b]
    BY <1>1 DEF PromptsTypeOK
  <2>2. q.token <= offers
    BY DEF Questions, OffersHold
  <2>3. \A b \in Actors : \A h \in held[b] : ~Same(q, h)
    BY <1>3 DEF Same
  <2>4. \A n \in armed' : n \in Actors /\ n \in Tokens /\ held'[n] = {}
    BY <2>1, Zenon DEF Questions, HeldOnce, PromptsTypeOK, Actors
  <2>5. \A n \in Tokens : n \in Actors
    BY Zenon DEF Actors
  <2> QED
    BY <1>1, <1>3, <2>1, <2>2, <2>3, <2>4, <2>5 DEF Questions, HeldOnce
<1>5. AnsweredOnce'
  BY <1>1 DEF Questions, AnsweredOnce
<1>6. ClaimsAreHeld'
  BY <1>1, Zenon DEF ClaimsAreHeld, Same, PromptsTypeOK
<1>7. SnoozeHolds'
  <2>1. \A n \in Tokens : n \in Actors /\ held'[n] = IF n = a THEN {q} ELSE held[n]
    BY <1>1 DEF PromptsTypeOK, Actors
  <2>2. ASSUME NEW n \in Tokens, NEW h \in held'[n], mine.snoozed PROVE ~Same(h, mine)
    <3>1. n # a
      BY <1>1, <2>2
    <3>2. h \in held[n] /\ n \in Actors
      BY <2>1, <2>2, <3>1
    <3> QED
      BY <1>1, <1>3, <3>2 DEF Same
  <2> QED
    BY <1>1, <2>2, ZenonT(60) DEF SnoozeHolds, Same
<1> QED
  BY <1>2, <1>4, <1>5, <1>6, <1>7 DEF Questions

(* A snoozed offer is held by nobody.                                      *)
LEMMA SnoozeKeeps ==
  ASSUME PromptsTypeOK, Questions, NEW b \in Browsers, Snooze(b)
  PROVE  Questions'
<1>1. PICK q \in request : Pending(q) /\ request' = {[q EXCEPT !.snoozed = TRUE]}
  BY DEF Snooze
<1> DEFINE r == [q EXCEPT !.snoozed = TRUE]
<1>2. /\ request' = {r} /\ r.token = q.token /\ r.generation = q.generation
      /\ r.claimed = FALSE /\ q.claimed = FALSE
      /\ UNCHANGED <<offers, armed, held, written, generation>>
  BY <1>1, SMTT(60) DEF Snooze, Pending, linkVars, PromptsTypeOK, Offer
<1>3. OffersHold'
  BY <1>1, <1>2 DEF Questions, OffersHold
<1>4. \A a \in Actors : \A h \in held[a] : ~Same(h, q)
  BY <1>1, <1>2 DEF Questions, ClaimsAreHeld
<1>5. HeldOnce' /\ AnsweredOnce'
  BY <1>2 DEF Questions, HeldOnce, AnsweredOnce, Same
<1>6. ClaimsAreHeld' /\ SnoozeHolds'
  BY <1>2, <1>4 DEF ClaimsAreHeld, SnoozeHolds, Same, Actors
<1> QED
  BY <1>3, <1>5, <1>6 DEF Questions

(* A response may have been written: its offer, which had none before, is  *)
(* gone.                                                                   *)
LEMMA WrittenKeeps ==
  ASSUME PromptsTypeOK, Questions, NEW a \in Actors, NEW q \in held[a], Offered(q),
         written' = [written EXCEPT ![q.token] = @ + 1], request' = {},
         held' = [held EXCEPT ![a] = {}], UNCHANGED <<offers, armed, generation>>
  PROVE  Questions'
<1>1. PICK r \in request : Same(q, r)
  BY DEF Offered
<1>2. /\ q.token \in Tokens /\ written[q.token] = 0 /\ q.token <= offers
  BY <1>1 DEF PromptsTypeOK, Questions, OffersHold, Same, Offer
<1>3. \A n \in Tokens : written'[n] = IF n = q.token THEN 1 ELSE written[n]
  BY <1>2 DEF PromptsTypeOK
<1>4. \A b \in Actors : held'[b] = IF b = a THEN {} ELSE held[b]
  BY DEF PromptsTypeOK
<1>5. OffersHold' /\ AnsweredOnce'
  BY <1>2, <1>3 DEF Questions, OffersHold, AnsweredOnce
<1>6. HeldOnce'
  BY <1>4 DEF Questions, HeldOnce, Same, Actors, PromptsTypeOK
<1>7. ClaimsAreHeld' /\ SnoozeHolds'
  BY DEF ClaimsAreHeld, SnoozeHolds
<1> QED
  BY <1>5, <1>6, <1>7 DEF Questions

(* Nothing was written: the claim is given back if its offer is current.   *)
LEMMA DeclineKeeps ==
  ASSUME PromptsTypeOK, Questions, NEW a \in Actors, Decline(a)
  PROVE  Questions'
<1>1. PICK q \in held[a] : request' = Released(q)
  BY DEF Decline
<1>2. held' = [held EXCEPT ![a] = {}] /\ UNCHANGED <<offers, armed, written, generation>>
  BY DEF Decline, linkVars
<1>3. \A b \in Actors : held'[b] = IF b = a THEN {} ELSE held[b]
  BY <1>2 DEF PromptsTypeOK
<1>4. \A s \in request' : \E r \in request :
        /\ s.token = r.token /\ s.generation = r.generation /\ s.snoozed = r.snoozed
        /\ s = IF Same(q, r) THEN [r EXCEPT !.claimed = FALSE] ELSE r
  BY <1>1, Zenon DEF Released, PromptsTypeOK, Offer
<1>5. OffersHold'
  <2>1. ASSUME NEW s \in request', NEW t \in request' PROVE s = t
    <3>1. PICK r \in request : s = IF Same(q, r) THEN [r EXCEPT !.claimed = FALSE] ELSE r
      BY <1>4
    <3>2. PICK p \in request : t = IF Same(q, p) THEN [p EXCEPT !.claimed = FALSE] ELSE p
      BY <1>4
    <3>3. r = p
      BY DEF Questions, OffersHold
    <3> QED
      BY <3>1, <3>2, <3>3
  <2> QED
    BY <1>2, <1>4, <2>1 DEF Questions, OffersHold
<1>6. HeldOnce'
  BY <1>2, <1>3 DEF Questions, HeldOnce, Same, Actors, PromptsTypeOK
<1>7. ClaimsAreHeld'
  <2> SUFFICES ASSUME NEW s \in request'
               PROVE  s.claimed <=> \E b \in Actors : \E h \in held'[b] : Same(h, s)
    BY DEF ClaimsAreHeld, Same
  <2>1. PICK r \in request :
          /\ s.token = r.token /\ s.generation = r.generation
          /\ s = IF Same(q, r) THEN [r EXCEPT !.claimed = FALSE] ELSE r
    BY <1>4
  <2>2. CASE Same(q, r)
    <3>1. s.claimed = FALSE
      BY <2>1, <2>2 DEF PromptsTypeOK, Offer
    <3>2. \A b \in Actors : \A h \in held[b] : Same(h, s) => b = a
      BY <2>1, <2>2 DEF Questions, HeldOnce, Same
    <3> QED
      BY <1>3, <3>1, <3>2
  <2>3. CASE ~Same(q, r)
    <3>1. s = r /\ \A h \in held[a] : ~Same(h, r)
      BY <2>1, <2>3 DEF Questions, HeldOnce
    <3> QED
      BY <1>3, <3>1 DEF Questions, ClaimsAreHeld
  <2> QED
    BY <2>2, <2>3, Zenon
<1>8. SnoozeHolds' /\ AnsweredOnce'
  BY <1>2, <1>3, <1>4 DEF Questions, SnoozeHolds, AnsweredOnce, Same, Actors
<1> QED
  BY <1>5, <1>6, <1>7, <1>8 DEF Questions

-----------------------------------------------------------------------------
(***************************************************************************)
(* The streams.                                                            *)
(***************************************************************************)
(* What a browser can be shown is well formed.                             *)
LEMMA ProjectionType == PromptsTypeOK => Projection \in Shown
BY DEF PromptsTypeOK, Projection, Shown, Offer

(* Nothing a stream depends on changes.                                    *)
LEMMA SameView ==
  ASSUME PromptsTypeOK, StreamsHear, Projection' = Projection,
         UNCHANGED <<pendingSequence, pendingReset, pendingRevisions, stream>>,
         hints' >= hints, hints' \in Nat
  PROVE  StreamsHear'
<1>1. hints \in Nat
  BY Zenon DEF PromptsTypeOK
<1>2. hints > 0 => hints' > 0
  BY <1>1
<1> QED
  BY <1>2, ZenonT(60) DEF StreamsHear, Watched, PendingRevision

(* A new revision is one no stream has noted, and a broadcast is due.  It  *)
(* may go again when nobody listens.                                       *)
LEMMA NewRevision ==
  ASSUME PromptsTypeOK, StreamsHear, stream' = stream, Due,
         pendingSequence' = pendingSequence + 1,
         \/ pendingReset' = pendingReset /\ pendingRevisions' = pendingSequence + 1
         \/ pendingReset' = pendingReset /\ pendingRevisions' = 0 /\ Watched = {}
         \/ pendingReset' = pendingSequence + 1 /\ pendingRevisions' = 0
  PROVE  StreamsHear'
<1>1. pendingReset' <= pendingSequence' /\ pendingRevisions' <= pendingSequence'
  BY DEF PromptsTypeOK, StreamsHear
<1>2. Watched' = Watched
  BY DEF Watched
<1>3. ASSUME NEW b \in Watched
      PROVE  /\ stream[b].previous <= pendingSequence'
             /\ stream[b].previous # PendingRevision'
             /\ hints' > 0
  <2>1. b \in Browsers /\ stream[b] \in Stream
    BY <1>3 DEF Watched, PromptsTypeOK, Off
  <2>2. stream[b].previous \in Nat /\ stream[b].previous <= pendingSequence
    BY <1>3, <2>1, Zenon DEF StreamsHear, Stream
  <2>3. PendingRevision' = pendingSequence + 1
    BY <1>3 DEF PromptsTypeOK, StreamsHear, PendingRevision
  <2> QED
    BY <2>2, <2>3 DEF PromptsTypeOK, Due
<1> QED
  BY <1>1, <1>2, <1>3, Zenon DEF StreamsHear

-----------------------------------------------------------------------------
(***************************************************************************)
(* Types.                                                                  *)
(***************************************************************************)
LinkType == generation \in 0..MaxGenerations /\ connection \in {0, generation}
OfferTypes ==
  /\ offers \in 0..MaxOffers
  /\ request \subseteq Offer
  /\ armed \subseteq Tokens
  /\ held \in [Actors -> SUBSET Offer]
  /\ written \in [Tokens -> Nat]
RevisionTypes ==
  /\ pendingSequence \in Nat /\ pendingReset \in Nat /\ pendingRevisions \in Nat
  /\ hints \in Nat
StreamTypes == stream \in [Browsers -> {Off} \cup Stream]
ReaderTypes == hand \in [1..MaxGenerations -> Messages \cup {"none"}] /\ notices \in Nat

Typed == LinkType /\ OfferTypes /\ RevisionTypes /\ StreamTypes /\ ReaderTypes

(* The parts make up the type invariant.                                   *)
LEMMA TypeParts == PromptsTypeOK <=> Typed
BY SMTT(60) DEF Typed, PromptsTypeOK, LinkType, OfferTypes, RevisionTypes, StreamTypes, ReaderTypes

(* Revisions stay numbers, whatever becomes of them.                       *)
LEMMA RevisionType ==
  ASSUME RevisionTypes,
         \/ Quiet \/ Bump \/ BumpAndPrune
         \/ Due /\ UNCHANGED <<pendingSequence, pendingReset, pendingRevisions>>
  PROVE  RevisionTypes'
BY DEF RevisionTypes, Quiet, Bump, BumpAndPrune, Pruned, Due

(* So does the link, when it is detached.                                  *)
LEMMA DetachType ==
  ASSUME LinkType, RevisionTypes, NEW g, DetachPrompts(g)
  PROVE  LinkType' /\ RevisionTypes'
BY DEF LinkType, RevisionTypes, DetachPrompts, Detach, Due

(* An offer that is claimed, snoozed or released is an offer.              *)
LEMMA OfferChanges ==
  \A q \in Offer : /\ [q EXCEPT !.claimed = TRUE] \in Offer
                   /\ [q EXCEPT !.claimed = FALSE] \in Offer
                   /\ [q EXCEPT !.snoozed = TRUE] \in Offer
BY Zenon DEF Offer

(* Every step keeps the types.                                             *)
LEMMA TypeStep ==
  ASSUME PromptsTypeOK, [PromptsNext]_promptVars
  PROVE  PromptsTypeOK'
<1> USE PromptsAssumption
<1>0. LinkType /\ OfferTypes /\ RevisionTypes /\ StreamTypes /\ ReaderTypes
  BY TypeParts DEF Typed
<1> SUFFICES Typed'
  BY Zenon DEF Typed, PromptsTypeOK, LinkType, OfferTypes, RevisionTypes, StreamTypes, ReaderTypes
<1>1. CASE Connect
  BY <1>0, <1>1, RevisionType DEF Typed, Connect, Attach, LinkType, OfferTypes, StreamTypes, ReaderTypes
<1>2. CASE Lose
  <2>1. LinkType' /\ RevisionTypes'
    BY <1>0, <1>2, DetachType DEF Lose
  <2> QED
    BY <1>0, <1>2, <2>1, Zenon DEF Typed, Lose, DetachPrompts, OfferTypes, StreamTypes, ReaderTypes
<1>3. CASE Broadcast
  <2>1. StreamTypes'
    BY <1>0, <1>3, ZenonT(60) DEF Broadcast, StreamTypes, Stream, Off
  <2> QED
    <3>1. RevisionTypes'
      BY <1>0, <1>3 DEF Broadcast, RevisionTypes
    <3> QED
      BY <1>0, <1>3, <2>1, <3>1, ZenonT(60) DEF Typed, Broadcast, linkVars, LinkType, OfferTypes, ReaderTypes
<1>4. ASSUME NEW m \in Messages, Read(m) PROVE Typed'
  BY <1>0, <1>4, RevisionType, Zenon DEF Typed, Read, linkVars, LinkType, OfferTypes, StreamTypes, ReaderTypes
<1>5. ASSUME NEW g \in 1..MaxGenerations, Admit(g) PROVE Typed'
  <2>1. RevisionTypes'
    BY <1>0, <1>5, RevisionType, Zenon DEF Admit
  <2>2. OfferTypes'
    <3>1. CASE Admits(g)
      <4>1. offers < MaxOffers /\ offers + 1 \in Tokens /\ offers + 1 \in 0..MaxOffers
        <5>1. offers < MaxOffers
          BY <1>5, <3>1, Zenon DEF Admit
        <5>2. offers \in 0..MaxOffers
          BY <1>0 DEF OfferTypes
        <5> QED
          BY <5>1, <5>2 DEF Tokens
      <4>2. [generation |-> g, token |-> offers + 1, claimed |-> FALSE, snoozed |-> FALSE] \in Offer
        BY <4>1, Zenon DEF Offer
      <4> QED
        BY <1>0, <1>5, <3>1, <4>1, <4>2, Zenon DEF Admit, OfferTypes
    <3>2. CASE ~Admits(g)
      BY <1>0, <1>5, <3>2, Zenon DEF Admit, OfferTypes
    <3> QED
      BY <3>1, <3>2
  <2> QED
    BY <1>0, <1>5, <2>1, <2>2, Zenon DEF Typed, Admit, Handled, linkVars, LinkType, StreamTypes, ReaderTypes
<1>6. ASSUME NEW g \in 1..MaxGenerations, Resolved(g) \/ Unsupported(g)
      PROVE  Typed'
  <2>1. RevisionTypes'
    BY <1>0, <1>6, RevisionType, Zenon DEF Resolved, Unsupported
  <2>2. OfferTypes'
    BY <1>0, <1>6, Zenon DEF Resolved, Unsupported, OfferTypes
  <2> QED
    BY <1>0, <1>6, <2>1, <2>2, SMTT(60) DEF Typed, Resolved, Unsupported, Handled, linkVars, LinkType, StreamTypes, ReaderTypes
<1>7. ASSUME NEW a \in Actors, NEW q \in request, Take(a, q), armed' \subseteq armed
      PROVE  Typed'
  <2>1. RevisionTypes'
    BY <1>0, <1>7, RevisionType DEF Take
  <2>2. OfferTypes'
    BY <1>0, <1>7, OfferChanges, Zenon DEF Take, OfferTypes
  <2> QED
    BY <1>0, <1>7, <2>1, <2>2 DEF Typed, Take, linkVars, LinkType, StreamTypes, ReaderTypes
<1>8. ASSUME NEW n \in Tokens, Fire(n) PROVE Typed'
  <2>1. CASE \E q \in request : Take(n, q)
    BY <1>7, <1>8, <2>1, Zenon DEF Fire, Actors
  <2>2. CASE /\ Quiet
             /\ UNCHANGED <<linkVars, hand, offers, request, notices, held, written, stream>>
    BY <1>0, <1>8, <2>2, RevisionType, Zenon DEF Typed, Fire, linkVars, LinkType, OfferTypes, StreamTypes, ReaderTypes
  <2> QED
    BY <1>8, <2>1, <2>2, Zenon DEF Fire
<1>9. ASSUME NEW b \in Browsers, Snooze(b) PROVE Typed'
  <2>1. RevisionTypes'
    BY <1>0, <1>9, RevisionType DEF Snooze
  <2>2. OfferTypes'
    BY <1>0, <1>9, OfferChanges, Zenon DEF Snooze, OfferTypes
  <2> QED
    BY <1>0, <1>9, <2>1, <2>2 DEF Typed, Snooze, linkVars, LinkType, StreamTypes, ReaderTypes
<1>10. ASSUME NEW b \in Browsers, Open(b) \/ Event(b) \/ Refetch(b) \/ Shut(b)
       PROVE  Typed'
  <2>1. Projection \in Shown /\ PendingRevision \in Nat /\ [notices |-> 0, prompts |-> {}] \in Shown
    BY <1>0, ProjectionType, Zenon DEF RevisionTypes, PendingRevision, Shown
  <2>2. StreamTypes'
    <3>0. stream[b].on => stream[b] \in Stream
      <4>1. stream[b] \in {Off} \cup Stream
        BY <1>0, Zenon DEF StreamTypes
      <4>2. ~Off.on
        BY DEF Off
      <4> QED
        BY <4>1, <4>2, Zenon
    <3>1. CASE Open(b)
      <4>1. [on |-> TRUE, full |-> FALSE, previous |-> PendingRevision, stale |-> TRUE,
             shown |-> [notices |-> 0, prompts |-> {}]] \in Stream
        BY <2>1, Zenon DEF Stream
      <4> QED
        BY <1>0, <3>1, <4>1, Zenon DEF Open, StreamTypes
    <3>4. CASE Shut(b)
      BY <1>0, <3>4, Zenon DEF Shut, StreamTypes
    <3>2. CASE Event(b)
      <4>1. [stream[b] EXCEPT !.full = FALSE, !.previous = PendingRevision,
               !.stale = stream[b].stale \/ stream[b].previous # PendingRevision] \in Stream
        BY <2>1, <3>0, <3>2, Zenon DEF Event, Stream
      <4> QED
        BY <1>0, <3>2, <4>1 DEF Event, StreamTypes
    <3>3. CASE Refetch(b)
      <4>1. [stream[b] EXCEPT !.stale = FALSE, !.shown = Projection] \in Stream
        BY <2>1, <3>0, <3>3, Zenon DEF Refetch, Stream
      <4> QED
        BY <1>0, <3>3, <4>1 DEF Refetch, StreamTypes
    <3> QED
      BY <1>10, <3>1, <3>2, <3>3, <3>4
  <2>3. RevisionTypes'
    BY <1>0, <1>10 DEF Open, Event, Refetch, Shut, Quiet, Pruned, RevisionTypes
  <2> QED
    BY <1>0, <1>10, <2>2, <2>3, ZenonT(60) DEF Typed, Open, Event, Refetch, Shut, linkVars, LinkType, OfferTypes, ReaderTypes
<1>11. ASSUME NEW a \in Browsers \cup Applications, Claim(a) PROVE Typed'
  BY <1>7, <1>11, Zenon DEF Claim, Actors
<1>12. ASSUME NEW a \in Actors, Respond(a) \/ Decline(a) \/ BreakResponse(a)
       PROVE  Typed'
  <2>1. CASE Respond(a)
    <3>1. RevisionTypes'
      BY <1>0, <2>1, RevisionType, Zenon DEF Respond
    <3>2. OfferTypes'
      BY <1>0, <2>1 DEF Respond, OfferTypes, Offer
    <3> QED
      BY <1>0, <2>1, <3>1, <3>2, Zenon DEF Typed, Respond, linkVars, LinkType, StreamTypes, ReaderTypes
  <2>2. CASE Decline(a)
    <3>1. RevisionTypes'
      BY <1>0, <2>2, RevisionType, Zenon DEF Decline
    <3>2. OfferTypes'
      BY <1>0, <2>2, OfferChanges, Zenon DEF Decline, Released, OfferTypes
    <3> QED
      BY <1>0, <2>2, <3>1, <3>2, Zenon DEF Typed, Decline, linkVars, LinkType, StreamTypes, ReaderTypes
  <2>3. CASE BreakResponse(a)
    <3>1. LinkType' /\ RevisionTypes'
      BY <1>0, <2>3, DetachType, Zenon DEF BreakResponse
    <3>2. OfferTypes'
      BY <1>0, <2>3 DEF BreakResponse, DetachPrompts, OfferTypes, Offer
    <3> QED
      BY <1>0, <2>3, <3>1, <3>2, Zenon DEF Typed, BreakResponse, StreamTypes, ReaderTypes
  <2> QED
    BY <1>12, <2>1, <2>2, <2>3, Zenon
<1>13. CASE UNCHANGED promptVars
  BY <1>0, <1>13, Zenon DEF Typed, promptVars, questionVars, linkVars, LinkType, OfferTypes, RevisionTypes, StreamTypes, ReaderTypes
<1> QED
  BY <1>1, <1>2, <1>3, <1>4, <1>5, <1>6, <1>8, <1>9, <1>10, <1>11, <1>12, <1>13, ZenonT(60) DEF PromptsNext

-----------------------------------------------------------------------------
(***************************************************************************)
(* The invariant.                                                          *)
(***************************************************************************)
(* Every step keeps what is said of the questions.                         *)
LEMMA QuestionsStep ==
  ASSUME PromptsTypeOK, Questions, [PromptsNext]_promptVars
  PROVE  Questions'
<1> USE PromptsAssumption
<1>0. generation \in Nat
  BY DEF PromptsTypeOK
<1>1. ASSUME UNCHANGED <<offers, armed, held, written>>, request' \subseteq request,
             generation' \in {generation, generation + 1}
      PROVE  Questions'
  BY <1>0, <1>1, DropKeeps
<1>2. CASE Connect \/ Lose \/ Broadcast \/ UNCHANGED promptVars
  BY <1>1, <1>2, Zenon DEF Connect, Attach, Lose, DetachPrompts, Detach, Broadcast, promptVars, questionVars, linkVars
<1>3. ASSUME NEW m \in Messages, Read(m) PROVE Questions'
  BY <1>1, <1>3, Zenon DEF Read, linkVars
<1>4. ASSUME NEW g \in 1..MaxGenerations, Resolved(g) \/ Unsupported(g) PROVE Questions'
  BY <1>1, <1>4, Zenon DEF Resolved, Unsupported, linkVars
<1>5. ASSUME NEW b \in Browsers, Open(b) \/ Event(b) \/ Refetch(b) \/ Shut(b) PROVE Questions'
  BY <1>1, <1>5, Zenon DEF Open, Event, Refetch, Shut, linkVars
<1>6. ASSUME NEW n \in Tokens, Fire(n) PROVE Questions'
  <2>1. CASE \E q \in request : MayResolve(q, n) /\ Take(n, q)
    <3>1. PICK q \in request : MayResolve(q, n) /\ Take(n, q)
      BY <2>1, Zenon
    <3>2. n \in Actors /\ held[n] = {} /\ armed' \subseteq armed /\ n \notin armed'
      BY <1>6, Zenon DEF Fire, Actors, Questions, HeldOnce
    <3> QED
      BY <3>1, <3>2, TakeKeeps, Zenon DEF MayResolve
  <2>2. CASE UNCHANGED <<linkVars, hand, offers, request, notices, held, written, stream>>
    <3>1. OffersHold' /\ HeldOnce'
      <4>1. OffersHold'
        BY <1>6, <2>2, ZenonT(60) DEF Fire, linkVars, Questions, OffersHold
      <4>2. HeldOnce'
        BY <1>6, <2>2, ZenonT(120) DEF Fire, Questions, HeldOnce, Same
      <4> QED
        BY <4>1, <4>2
    <3> QED
      BY <2>2, <3>1, Zenon DEF Questions, AnsweredOnce, ClaimsAreHeld, SnoozeHolds, Same
  <2> QED
    BY <1>6, <2>1, <2>2, Zenon DEF Fire
<1>7. ASSUME NEW a \in Browsers \cup Applications, Claim(a) PROVE Questions'
  <2>1. PICK q \in request : Pending(q) /\ Take(a, q)
    BY <1>7, Zenon DEF Claim
  <2>2. a \in Actors /\ held[a] = {} /\ armed' = armed /\ a \notin Tokens /\ a \notin armed
    BY <1>7, Zenon DEF Claim, Actors, Tokens, PromptsTypeOK
  <2> QED
    BY <2>1, <2>2, TakeKeeps, Zenon
<1>8. ASSUME NEW a \in Actors, Respond(a) PROVE Questions'
  <2>1. PICK q \in held[a] : Offered(q) /\ written' = [written EXCEPT ![q.token] = @ + 1]
    BY <1>8, Zenon DEF Respond
  <2> QED
    BY <1>8, <2>1, WrittenKeeps, Zenon DEF Respond, linkVars
<1>9. ASSUME NEW a \in Actors, BreakResponse(a) PROVE Questions'
  <2>1. PICK q \in held[a] : /\ Offered(q) /\ written' = [written EXCEPT ![q.token] = @ + 1]
                             /\ DetachPrompts(q.generation)
    BY <1>9, Zenon DEF BreakResponse
  <2>2. request' = {}
    BY <2>1, Zenon DEF Offered, Same, DetachPrompts, Questions, OffersHold
  <2> QED
    BY <1>9, <2>1, <2>2, WrittenKeeps, Zenon DEF BreakResponse, DetachPrompts, Detach
<1> QED
  BY <1>2, <1>3, <1>4, <1>5, <1>6, <1>7, <1>8, <1>9, AdmitKeeps, SnoozeKeeps, DeclineKeeps, Zenon DEF PromptsNext

(* Every step keeps what is said of the streams: the projection changes    *)
(* only with a new revision.                                               *)
LEMMA StreamsStep ==
  ASSUME PromptsTypeOK, Questions, StreamsHear, [PromptsNext]_promptVars
  PROVE  StreamsHear'
<1> USE PromptsAssumption
<1>0. hints \in Nat /\ generation \in Nat
  <2>1. hints \in Nat /\ generation \in 0..MaxGenerations
    BY Zenon DEF PromptsTypeOK
  <2> QED
    BY <2>1
<1>1. ASSUME UNCHANGED <<request, notices, connection, stream>>,
             UNCHANGED <<pendingSequence, pendingReset, pendingRevisions>>, Due \/ hints' = hints
      PROVE  StreamsHear'
  <2>1. Projection' = Projection
    BY <1>1, Zenon DEF Projection
  <2>2. hints' >= hints /\ hints' \in Nat
    <3>1. hints' = hints \/ hints' = hints + 1
      BY <1>1, Zenon DEF Due
    <3> QED
      BY <1>0, <3>1
  <2> QED
    BY <1>1, <2>1, <2>2, SameView, Zenon
<1>2. ASSUME Bump \/ BumpAndPrune, stream' = stream PROVE StreamsHear'
  BY <1>2, NewRevision, Zenon DEF Bump, BumpAndPrune, Pruned
<1>3. ASSUME NEW g, DetachPrompts(g), stream' = stream PROVE StreamsHear'
  BY <1>3, NewRevision, Zenon DEF DetachPrompts
<1>4. CASE Connect
  <2>1. Projection' = Projection
    <3>1. \A q \in request : q.generation \in Nat /\ q.generation # 0 /\ q.generation <= generation
      BY DEF Questions, OffersHold, PromptsTypeOK, Offer
    <3>2. connection = 0 /\ connection' = generation + 1 /\ request' = request /\ notices' = notices
      BY <1>4, Zenon DEF Connect, Attach
    <3>3. \A q \in request : q.generation # connection /\ q.generation # connection'
      BY <1>0, <3>1, <3>2
    <3> QED
      BY <3>2, <3>3, Zenon DEF Projection
  <2> QED
    BY <1>0, <1>4, <2>1, SameView DEF Connect, Quiet
<1>5. CASE Broadcast
  <2>1. ASSUME NEW b \in Watched'
        PROVE  /\ b \in Watched /\ stream'[b].full = TRUE /\ stream'[b].previous = stream[b].previous
               /\ stream'[b].stale = stream[b].stale /\ stream'[b].shown = stream[b].shown
    BY <1>5, <2>1 DEF Broadcast, Watched, PromptsTypeOK, Stream, Off
  <2>2. Projection' = Projection /\ PendingRevision' = PendingRevision
    BY <1>5 DEF Broadcast, linkVars, Projection, PendingRevision
  <2> QED
    BY <1>5, <2>1, <2>2, ZenonT(60) DEF Broadcast, StreamsHear
<1>6. ASSUME NEW b \in Browsers, Open(b) \/ Event(b) \/ Refetch(b) PROVE StreamsHear'
  <2>1. Projection' = Projection /\ PendingRevision' = PendingRevision /\ hints' = hints
        /\ UNCHANGED <<pendingSequence, pendingReset, pendingRevisions>>
    BY <1>6, Zenon DEF Open, Event, Refetch, Quiet, linkVars, Projection, PendingRevision
  <2>2. ASSUME NEW d \in Watched', d # b PROVE d \in Watched /\ stream'[d] = stream[d]
    BY <1>6, <2>2, Zenon DEF Open, Event, Refetch, Watched, PromptsTypeOK
  <2>3. PendingRevision \in Nat /\ PendingRevision <= pendingSequence
    BY ZenonT(60) DEF PromptsTypeOK, StreamsHear, PendingRevision
  <2>4. /\ stream'[b].previous <= pendingSequence
        /\ stream'[b].previous # PendingRevision => hints > 0 \/ stream'[b].full
        /\ stream'[b].previous = PendingRevision /\ ~stream'[b].stale => stream'[b].shown = Projection
    <3>0. stream[b].on => b \in Watched /\ stream[b] \in Stream
      <4>1. stream[b] \in {Off} \cup Stream
        BY Zenon DEF PromptsTypeOK
      <4>2. ~Off.on
        BY Zenon DEF Off
      <4> QED
        BY <4>1, <4>2, Zenon DEF Watched
    <3>1. CASE Open(b)
      BY <2>3, <3>1, Zenon DEF Open, PromptsTypeOK
    <3>2. CASE Event(b)
      BY <2>3, <3>0, <3>2, Zenon DEF Event, PromptsTypeOK, Stream, StreamsHear
    <3>3. CASE Refetch(b)
      BY <2>3, <3>0, <3>3, Zenon DEF Refetch, PromptsTypeOK, Stream, StreamsHear
    <3> QED
      BY <1>6, <3>1, <3>2, <3>3, Zenon
  <2> QED
    BY <2>1, <2>2, <2>4, ZenonT(60) DEF StreamsHear
<1>7. ASSUME NEW b \in Browsers, Shut(b) PROVE StreamsHear'
  <2>1. Watched' = Watched \ {b} /\ \A d \in Watched' : stream'[d] = stream[d]
    BY <1>7, ZenonT(60) DEF Shut, Watched, Off, PromptsTypeOK
  <2>2. Projection' = Projection /\ hints' = hints /\ UNCHANGED <<pendingSequence, pendingReset>>
    BY <1>7, Zenon DEF Shut, linkVars, Projection
  <2>3. pendingRevisions' = pendingRevisions \/ (pendingRevisions' = 0 /\ Watched' = {})
    BY <1>7, <2>1, Zenon DEF Shut, Pruned
  <2> QED
    <3>1. pendingReset \in Nat /\ pendingRevisions \in Nat /\ pendingSequence \in Nat
      BY Zenon DEF PromptsTypeOK
    <3>2. CASE pendingRevisions' = pendingRevisions
      BY <2>1, <2>2, <3>2, ZenonT(60) DEF StreamsHear, PendingRevision
    <3>3. CASE pendingRevisions' = 0 /\ Watched' = {}
      BY <2>2, <3>1, <3>3 DEF StreamsHear
    <3> QED
      BY <2>3, <3>2, <3>3
<1>8. CASE Lose
  BY <1>3, <1>8, Zenon DEF Lose
<1>9. ASSUME NEW m \in Messages, Read(m) PROVE StreamsHear'
  BY <1>1, <1>9, Zenon DEF Read, Quiet, linkVars
<1>10. ASSUME NEW g \in 1..MaxGenerations, Admit(g) \/ Resolved(g) \/ Unsupported(g) PROVE StreamsHear'
  BY <1>1, <1>2, <1>10, Zenon DEF Admit, Resolved, Unsupported, Quiet, linkVars
<1>11. ASSUME NEW n \in Tokens, Fire(n) PROVE StreamsHear'
  BY <1>1, <1>2, <1>11 DEF Fire, Take, Quiet, linkVars
<1>12. ASSUME NEW a \in Browsers \cup Applications, Claim(a) \/ Snooze(a) PROVE StreamsHear'
  BY <1>2, <1>12 DEF Claim, Take, Snooze
<1>13. ASSUME NEW a \in Actors, Respond(a) \/ BreakResponse(a) PROVE StreamsHear'
  BY <1>2, <1>3, <1>13, Zenon DEF Respond, BreakResponse
<1>14. ASSUME NEW a \in Actors, Decline(a) PROVE StreamsHear'
  <2>1. CASE Bump
    BY <1>2, <1>14, <2>1, Zenon DEF Decline
  <2>2. CASE ~Bump
    <3>1. request' = request
      BY <1>14, <2>2 DEF Decline, Released
    <3> QED
      BY <1>1, <1>14, <2>2, <3>1, ZenonT(60) DEF Decline, linkVars
  <2> QED
    BY <2>1, <2>2
<1>15. CASE UNCHANGED promptVars
  BY <1>1, <1>15, Zenon DEF promptVars, questionVars, linkVars
<1> QED
  BY <1>4, <1>5, <1>6, <1>7, <1>8, <1>9, <1>10, <1>11, <1>12, <1>13, <1>14, <1>15, Zenon DEF PromptsNext

(* The initial states satisfy the invariant.                               *)
LEMMA PromptStart == PromptsInit => PromptInv
<1> SUFFICES ASSUME PromptsInit PROVE PromptInv
  OBVIOUS
<1> USE PromptsAssumption
<1>1. PromptsTypeOK
  BY DEF PromptsInit, LinkInit, PromptsTypeOK, Actors
<1>2. OffersHold /\ HeldOnce
  <2>1. OffersHold
    BY SMTT(60) DEF PromptsInit, OffersHold, Tokens
  <2>2. HeldOnce
    BY Zenon DEF PromptsInit, HeldOnce, Actors, Tokens
  <2> QED
    BY <2>1, <2>2
<1>3. StreamsHear
  BY DEF PromptsInit, StreamsHear, Watched, Off
<1>4. AnsweredOnce /\ ClaimsAreHeld /\ SnoozeHolds
  BY DEF PromptsInit, AnsweredOnce, ClaimsAreHeld, SnoozeHolds
<1> QED
  BY <1>1, <1>2, <1>3, <1>4 DEF PromptInv

(* It holds in every behaviour.                                            *)
LEMMA PromptInvHolds == PromptsSpec => []PromptInv
<1>1. PromptInv /\ [PromptsNext]_promptVars => PromptInv'
  BY TypeStep, QuestionsStep, StreamsStep, ZenonT(60) DEF PromptInv, Questions
<1> QED
  BY <1>1, PromptStart, PTL DEF PromptsSpec

(* An offer is answered at most once, by whomever (writeOffer).            *)
THEOREM AnswersAreUnique == PromptsSpec => []AnsweredOnce
BY PromptInvHolds, PTL DEF PromptInv

(* A question is hidden exactly while somebody answers it (claim,          *)
(* releaseClaim).                                                          *)
THEOREM ClaimsHaveHolders == PromptsSpec => []ClaimsAreHeld
BY PromptInvHolds, PTL DEF PromptInv

(* No timer answers a question that was snoozed (snoozeUserInput).         *)
THEOREM SnoozedIsLeftAlone == PromptsSpec => []SnoozeHolds
BY PromptInvHolds, PTL DEF PromptInv

(* A browser with nothing left to hear shows the pending questions         *)
(* (bumpPendingLocked, prunePendingRevision, streamEvents).                *)
THEOREM StreamsCatchUp == PromptsSpec => []StreamsAreCurrent
<1>1. PromptInv => StreamsAreCurrent
  BY DEF PromptInv, PromptsTypeOK, StreamsHear, StreamsAreCurrent, Watched
<1> QED
  BY <1>1, PromptInvHolds, PTL

-----------------------------------------------------------------------------
(***************************************************************************)
(* Activity: what was shown, and what a flush has waited for, is on disk.  *)
(*                                                                         *)
(* The argument follows the sequence of a record from memory to the files. *)
(* In memory it only grows; the writer drops a record when its summary is  *)
(* as new; and the checkpoint is replaced by a snapshot that, with the     *)
(* summaries, is as new as the checkpoint was.                             *)
(***************************************************************************)
(* The number that is on disk.                                             *)
Saved(t) == Later(Number(checkpoint, t), Number(summaries, t))

(* Memory f and the summaries replace the checkpoint.                      *)
Covers(f) ==
  \A t \in DOMAIN checkpoint :
    checkpoint[t].sequence <= Later(Number(f, t), Number(summaries, t))

Loaded == thread \in {"open", "closing"}

(* What is in memory, in the hands of the writer and on disk.              *)
Held ==
  /\ Numbered(hot) /\ Numbered(durable) /\ Numbered(snapshot)
  /\ Numbered(checkpoint) /\ Numbered(summaries)
  /\ \A t \in DOMAIN durable : t \in DOMAIN checkpoint /\ durable[t] = checkpoint[t]
  /\ Loaded /\ ~broken => Covers(hot)
  /\ writer \in {"idle", "writing", "last"}
  /\ writer # "idle" => Loaded /\ Grows(snapshot, hot)
  /\ writer # "idle" /\ ~broken => Covers(snapshot)
  /\ writer = "last" => thread = "closing"

(* A watch and a read hold the entry open.                                 *)
Retained ==
  /\ watchers # 0 => thread = "open"
  /\ read.pc # "idle" => readers = 1 /\ thread = "open"

(* What a flush waits for is in memory or on disk; once the writer is at   *)
(* it, in its hands or on disk; and when it is served, on disk.            *)
Flushing ==
  read.pc = "flush" =>
    /\ read = [pc |-> "flush", turns |-> read.turns, served |-> read.served, want |-> read.want]
    /\ \A t \in DOMAIN read.want :
         /\ read.want[t] \in Nat
         /\ read.want[t] <= Later(Number(hot, t), Saved(t))
         /\ read.served = "soon" =>
              writer = "writing" /\ read.want[t] <= Later(Number(snapshot, t), Saved(t))
         /\ read.served = "yes" => read.want[t] <= Saved(t)

Survives == \A t \in Turns : shown[t] \in Nat /\ shown[t] <= Saved(t)

DiskInv == Held /\ Retained /\ Flushing /\ Survives

-----------------------------------------------------------------------------
(* The operations on the records in memory.                                *)
LEMMA AccrueGrows ==
  ASSUME NEW o, NEW f, Numbered(f), NEW now
  PROVE  Grows(f, Accrue(o, f, now).hot)
<1> DEFINE r == Get(f, o.turn)
           added(s, a, b) == Put(f, o.turn, Add(r, s, a, b))
<1>1. HasNumber(r) /\ r.sequence = Number(f, o.turn) /\ Number(f, o.turn) \in Nat
  BY GetHasNumber, NumberOf, Zenon
<1>2. ASSUME NEW s, NEW a, NEW b PROVE Grows(f, added(s, a, b))
  <2>1. HasNumber(Add(r, s, a, b)) /\ r.sequence <= Add(r, s, a, b).sequence
    BY <1>1, AddGrows, Zenon
  <2> QED BY <1>1, <2>1, PutGrows, Zenon
<1>3. Grows(f, Put(f, o.turn, r))
  BY <1>1, PutGrows
<1>4. Grows(f, f)
  BY GrowsSame
<1>5. \/ Accrue(o, f, now).hot = f
      \/ Accrue(o, f, now).hot = Put(f, o.turn, r)
      \/ \E s, a, b : Accrue(o, f, now).hot = added(s, a, b)
  BY Zenon DEF Accrue
<1> QED BY <1>2, <1>3, <1>4, <1>5, ZenonT(60)

(* A turn starts or completes.                                             *)
LEMMA NotedGrows ==
  ASSUME NEW f, Numbered(f), NEW m
  PROVE  Grows(f, Metadata(f, m))
<1>1. ASSUME NEW turn PROVE Grows(f, Put(f, m.turn, ApplyMetadata(Get(f, m.turn), turn)))
  BY GetHasNumber, MetadataGrows, PutGrows, Zenon
<1>2. \/ Metadata(f, m) = f
      \/ \E turn : Metadata(f, m) = Put(f, m.turn, ApplyMetadata(Get(f, m.turn), turn))
  BY ZenonT(60) DEF Metadata
<1> QED BY <1>1, <1>2, GrowsSame, Zenon

(* The records meet the history.                                           *)
LEMMA ReconciledGrows ==
  ASSUME NEW f, Numbered(f), NEW o
  PROVE  Grows(f, ReconciledRecords(f, o))
<1> DEFINE turns == read.turns
           met == [t \in DOMAIN f |->
                     IF t \in DOMAIN turns THEN ApplyMetadata(f[t], turns[t])
                     ELSE [f[t] EXCEPT !.final = TRUE, !.sequence = @ + 1]]
           put == Put(met, o.turn, ApplyMetadata(Get(met, o.turn), turns[o.turn]))
<1>1. ASSUME NEW t \in DOMAIN f PROVE HasNumber(met[t]) /\ f[t].sequence <= met[t].sequence
  <2>1. HasNumber(f[t])
    BY DEF Numbered
  <2>2. CASE t \in DOMAIN turns
    BY <2>1, <2>2, MetadataGrows
  <2>3. CASE t \notin DOMAIN turns
    <3>1. met[t] = [f[t] EXCEPT !.final = TRUE, !.sequence = @ + 1]
      BY <2>3, Zenon
    <3> QED BY <2>1, <3>1, EndedGrows, Zenon
  <2> QED BY <2>2, <2>3, Zenon
<1>2. Numbered(met) /\ Grows(f, met)
  BY <1>1, Zenon DEF Grows, Numbered
<1>3. ReconciledRecords(f, o) \in {met, put}
  BY Zenon DEF ReconciledRecords
<1> HIDE DEF met, turns
<1>4. Grows(met, put)
  BY <1>2, GetHasNumber, MetadataGrows, PutGrows, Zenon
<1> QED BY <1>2, <1>3, <1>4, GrowsOn, Zenon

(* The entry is closed.                                                    *)
LEMMA CloseGrows ==
  ASSUME Numbered(hot), CloseLocked
  PROVE  Grows(hot, hot')
<1>1. ASSUME NEW t \in DOMAIN hot PROVE HasNumber(hot'[t]) /\ hot[t].sequence <= hot'[t].sequence
  <2>1. HasNumber(hot[t])
    BY DEF Numbered
  <2>2. hot[t].sequence <= hot[t].sequence
    BY <2>1 DEF HasNumber
  <2>3. hot'[t] = IF hot[t].final THEN hot[t]
                  ELSE [hot[t] EXCEPT !.final = TRUE, !.sequence = @ + 1]
    BY Zenon DEF CloseLocked
  <2>4. CASE hot[t].final
    BY <2>1, <2>2, <2>3, <2>4, Zenon
  <2>5. CASE ~hot[t].final
    BY <2>1, <2>3, <2>5, EndedGrows, Zenon
  <2> QED BY <2>4, <2>5, Zenon
<1>2. DOMAIN hot' = DOMAIN hot
  BY Zenon DEF CloseLocked
<1> QED BY <1>1, <1>2, Zenon DEF Grows, Numbered

(* A message is observed.                                                  *)
LEMMA ObserveGrows ==
  ASSUME Numbered(hot), NEW m, NEW c, Observe(m, c)
  PROVE  Grows(hot, hot')
<1> DEFINE o == Observation(c)
           boundary == Boundary(o, m)
           before == Accrue(o, hot, boundary)
           noted == UpdateState([Note(before.live, m) EXCEPT !.revision = @ + 1], boundary)
           kept == Metadata(before.hot, m)
           after == IF boundary < clock THEN Accrue(noted, kept, clock)
                    ELSE [live |-> noted, hot |-> kept]
<1>1. hot' \in {hot, after.hot}
  BY Zenon DEF Observe
<1>2. Grows(hot, before.hot) /\ Numbered(before.hot)
  BY AccrueGrows, ZenonT(60) DEF Grows
<1>3. Grows(before.hot, kept) /\ Numbered(kept)
  BY <1>2, NotedGrows, Zenon DEF Grows
<1>4. after.hot \in {kept, Accrue(noted, kept, clock).hot}
  BY Zenon
<1> HIDE DEF after, kept, noted, before
<1>5. Grows(kept, Accrue(noted, kept, clock).hot) /\ Grows(kept, kept)
  BY <1>3, AccrueGrows, GrowsSame, Zenon
<1>6. Grows(hot, kept)
  BY <1>2, <1>3, GrowsOn, ZenonT(60)
<1>7. Grows(hot, after.hot)
  BY <1>4, <1>5, <1>6, GrowsOn, Zenon
<1> QED BY <1>1, <1>7, GrowsSame

(* A read reconciles.                                                      *)
LEMMA ReconcileGrows ==
  ASSUME Numbered(hot), NEW o, ReconcileWith(o)
  PROVE  Grows(hot, hot')
<1>1. PICK now, noted : hot' \in {Accrue(o, hot, now).hot, ReconciledRecords(Accrue(o, hot, now).hot, noted)}
  BY ZenonT(60) DEF ReconcileWith
<1> DEFINE accrued == Accrue(o, hot, now).hot
<1>2. Grows(hot, accrued) /\ Numbered(accrued)
  BY AccrueGrows, Zenon DEF Grows
<1> HIDE DEF accrued
<1>3. Grows(accrued, ReconciledRecords(accrued, noted))
  BY <1>2, ReconciledGrows
<1>4. Grows(hot, ReconciledRecords(accrued, noted))
  BY <1>2, <1>3, GrowsOn
<1> QED BY <1>1, <1>2, <1>4, Zenon DEF accrued

-----------------------------------------------------------------------------
(* What is on disk has a number.                                           *)
LEMMA SavedNumber ==
  ASSUME Held, NEW t
  PROVE  /\ Saved(t) \in Nat
         /\ Number(checkpoint, t) \in Nat /\ Number(checkpoint, t) <= Saved(t)
         /\ Number(summaries, t) \in Nat /\ Number(summaries, t) <= Saved(t)
<1>1. Numbered(checkpoint) /\ Numbered(summaries)
  BY Zenon DEF Held
<1>2. Number(checkpoint, t) \in Nat /\ Number(summaries, t) \in Nat
  BY <1>1, NumberOf, Zenon
<1> QED BY <1>2, LaterOf, Zenon DEF Saved

(* Memory that grows covers what it covered.                               *)
LEMMA CoversGrows ==
  ASSUME NEW f, NEW g, Numbered(f), Numbered(summaries), Numbered(checkpoint),
         Grows(f, g), Covers(f)
  PROVE  Covers(g)
<1> SUFFICES ASSUME NEW t \in DOMAIN checkpoint
             PROVE  checkpoint[t].sequence <= Later(Number(g, t), Number(summaries, t))
  BY ZenonT(60) DEF Covers
<1>1. checkpoint[t].sequence <= Later(Number(f, t), Number(summaries, t))
  BY Zenon DEF Covers
<1>2. Number(f, t) <= Number(g, t)
  BY GrowsNumber, ZenonT(60)
<1>3. Number(f, t) \in Nat /\ Number(g, t) \in Nat /\ Number(summaries, t) \in Nat
  BY NumberOf, Zenon DEF Grows
<1>4. checkpoint[t].sequence \in Nat
  BY Zenon DEF Numbered, HasNumber
<1> QED BY <1>1, <1>2, <1>3, <1>4, Comparing, LaterAbove, ZenonT(60)

(* A step that only lets memory grow, and may close the entry.             *)
LEMMA MemoryHeld ==
  ASSUME Held, Grows(hot, hot'), UNCHANGED <<durable, saver, files, broken>>,
         thread' = thread \/ (thread = "open" /\ thread' = "closing")
  PROVE  Held'
<1>1. Numbered(hot') /\ Numbered(hot)
  BY Zenon DEF Grows, Held
<1>2. Loaded' => Loaded
  BY DEF Loaded
<1>3. Loaded /\ ~broken => Covers(hot')
  BY CoversGrows, Zenon DEF Held
<1>4. writer # "idle" => Grows(snapshot, hot')
  BY GrowsOn, Zenon DEF Held
<1>5. (writer # "idle" => Loaded') /\ (writer = "last" => thread' = "closing")
  BY ZenonT(60) DEF Held, Loaded
<1> QED BY <1>1, <1>2, <1>3, <1>4, <1>5, ZenonT(60) DEF Held, Covers, saver, files

(* Such a step takes nothing from a flush that waits.                      *)
LEMMA MemoryFlushing ==
  ASSUME Held, Flushing, Grows(hot, hot'), UNCHANGED <<saver, files>>,
         read' = read \/ read'.pc # "flush"
  PROVE  Flushing'
<1> SUFFICES ASSUME read' = read, read.pc = "flush", NEW t \in DOMAIN read.want
             PROVE  read.want[t] <= Later(Number(hot', t), Saved(t))
  BY ZenonT(60) DEF Flushing, Saved, saver, files
<1>1. read.want[t] \in Nat /\ read.want[t] <= Later(Number(hot, t), Saved(t))
  BY Zenon DEF Flushing
<1>2. Number(hot, t) <= Number(hot', t)
  BY GrowsNumber, Zenon DEF Held
<1>3. Number(hot, t) \in Nat /\ Number(hot', t) \in Nat /\ Saved(t) \in Nat
  BY NumberOf, SavedNumber, Zenon DEF Grows, Held
<1> QED BY <1>1, <1>2, <1>3, Comparing, LaterAbove, ZenonT(60)

(* What is shown survives when the files stay as they are.                 *)
LEMMA SurvivesSame ==
  ASSUME Survives, UNCHANGED <<files, shown>>
  PROVE  Survives'
BY Zenon DEF Survives, Saved, files

(* The three together.                                                     *)
LEMMA MemoryStep ==
  ASSUME DiskInv, Grows(hot, hot'), UNCHANGED <<durable, saver, files, broken, shown>>,
         thread' = thread \/ (thread = "open" /\ thread' = "closing"),
         read' = read \/ read'.pc # "flush"
  PROVE  Held' /\ Flushing' /\ Survives'
BY MemoryHeld, MemoryFlushing, SurvivesSame, Zenon DEF DiskInv

(* The steps beside the files: the server, the connection and the clock.   *)
LEMMA AsideStep ==
  ASSUME DiskInv,
         \/ Tick \/ Dial \/ Disconnect \/ ResumeWatch \/ Connected
         \/ \E t \in Turns : TurnStarts(t) \/ TurnEnds(t) \/ Revert(t)
         \/ \E t \in Turns, m \in Remarks : Remark(t, m)
  PROVE  DiskInv'
<1>1. UNCHANGED <<entry, hot, durable, saver, files, read, shown>>
  BY Zenon DEF Tick, Dial, Disconnect, ResumeWatch, Connected, TurnStarts, TurnEnds, Revert, Remark,
     memory, reading
<1>2. UNCHANGED <<thread, watchers, readers, broken>>
  BY <1>1, Zenon DEF entry
<1>3. Grows(hot, hot')
  BY <1>1, GrowsSame, Zenon DEF DiskInv, Held
<1>4. Held' /\ Flushing' /\ Survives'
  BY <1>1, <1>2, <1>3, MemoryStep, Zenon
<1>5. Retained'
  BY <1>1, <1>2, Zenon DEF DiskInv, Retained
<1> QED BY <1>4, <1>5, ZenonT(60) DEF DiskInv

(* A message of the server.                                                *)
LEMMA ReceiveStep ==
  ASSUME DiskInv, Receive
  PROVE  DiskInv'
<1>1. UNCHANGED <<entry, durable, saver, files, read, shown>>
  BY Zenon DEF Receive, reading
<1>2. UNCHANGED <<thread, watchers, readers, broken>>
  BY <1>1 DEF entry
<1>3. Numbered(hot)
  BY Zenon DEF DiskInv, Held
<1>4. Grows(hot, hot')
  <2>1. \/ Observe(Head(inbox).m, Head(inbox).on)
        \/ hot' = hot
    BY Zenon DEF Receive
  <2> QED BY <1>3, <2>1, ObserveGrows, GrowsSame, Zenon
<1>5. Held' /\ Flushing' /\ Survives'
  BY <1>1, <1>2, <1>4, MemoryStep, Zenon
<1>6. Retained'
  BY <1>1, <1>2, Zenon DEF DiskInv, Retained
<1> QED BY <1>5, <1>6 DEF DiskInv

(* A watch takes hold of the entry, or a read does.                        *)
LEMMA WatchStep ==
  ASSUME DiskInv, Watch \/ BeginRead \/ ReadHistory
  PROVE  DiskInv'
<1>1. UNCHANGED <<thread, broken, hot, durable, saver, files, shown>>
  BY ZenonT(60) DEF Watch, BeginRead, ReadHistory, memory, entry, reading
<1>2. read' = read \/ (read'.pc # "flush" /\ readers' = 1 /\ thread = "open")
  <2>1. CASE Watch
    BY <2>1, Zenon DEF Watch, reading
  <2>2. CASE BeginRead
    BY <2>2, ZenonT(60) DEF BeginRead
  <2>3. CASE ReadHistory
    <3>1. read.pc = "history" /\ read'.pc = "seed" /\ readers' = readers
      BY <2>3, Zenon DEF ReadHistory, memory, entry
    <3> QED BY <3>1, Zenon DEF DiskInv, Retained
  <2> QED BY <2>1, <2>2, <2>3, Zenon
<1>3. Grows(hot, hot')
  BY <1>1, GrowsSame, Zenon DEF DiskInv, Held
<1>4. Held' /\ Flushing' /\ Survives'
  BY <1>1, <1>2, <1>3, MemoryStep, Zenon
<1>5. Retained'
  BY <1>1, <1>2, Zenon DEF DiskInv, Retained, Watch, BeginRead, ReadHistory, memory, entry, reading
<1> QED BY <1>4, <1>5, Zenon DEF DiskInv

(* The entry is let go: by a watch, by a read, or by Close.                *)
LEMMA CloseHeld ==
  ASSUME DiskInv, thread = "open", CloseLocked
  PROVE  Grows(hot, hot') /\ thread' = "closing"
BY CloseGrows, Zenon DEF DiskInv, Held, CloseLocked

(* A caller gave up before it retained the entry.                          *)
LEMMA RetireStep ==
  ASSUME DiskInv, Retire
  PROVE  DiskInv'
<1>1. UNCHANGED <<watchers, readers, broken, durable, saver, files, read, shown>>
  BY Zenon DEF Retire, reading
<1>2. read.pc = "idle" /\ watchers = 0
  BY DEF Retire, DiskInv, Retained
<1>3. Retained'
  BY <1>1, <1>2, Zenon DEF Retained
<1>4. CASE thread = "open" /\ CloseLocked
  <2>1. Held' /\ Flushing' /\ Survives'
    BY <1>1, <1>4, CloseHeld, MemoryStep, Zenon
  <2> QED BY <1>3, <2>1, Zenon DEF DiskInv
<1>5. CASE thread = "loading" /\ thread' = "doomed" /\ hot' = hot
  <2>1. Held'
    BY <1>1, <1>5, Zenon DEF DiskInv, Held, Loaded, Covers, saver, files
  <2>2. Flushing'
    BY <1>1, <1>2, Zenon DEF Flushing
  <2>3. Survives'
    BY <1>1, SurvivesSame, Zenon DEF DiskInv
  <2> QED BY <1>3, <2>1, <2>2, <2>3, Zenon DEF DiskInv
<1> QED BY <1>4, <1>5, Zenon DEF Retire

(* The watch is removed.                                                   *)
LEMMA UnwatchStep ==
  ASSUME DiskInv, Unwatch
  PROVE  DiskInv'
<1>1. UNCHANGED <<readers, broken, durable, saver, files, read, shown>>
  BY Zenon DEF Unwatch, reading
<1>2. thread = "open" /\ watchers' = 0
  BY DEF Unwatch, DiskInv, Retained
<1>3. (readers = 0 /\ CloseLocked) \/ UNCHANGED <<thread, hot>>
  BY Zenon DEF Unwatch
<1>4. Grows(hot, hot')
  BY <1>2, <1>3, CloseHeld, GrowsSame, Zenon DEF DiskInv, Held
<1>5. thread' = thread \/ (thread = "open" /\ thread' = "closing" /\ readers = 0)
  BY <1>2, <1>3, CloseHeld, Zenon
<1>6. Held' /\ Flushing' /\ Survives'
  BY <1>1, <1>4, <1>5, MemoryStep, Zenon
<1>7. Retained'
  BY <1>1, <1>2, <1>5 DEF DiskInv, Retained
<1> QED BY <1>6, <1>7 DEF DiskInv

(* The process ends in order.                                              *)
LEMMA CloseStep ==
  ASSUME DiskInv, Close
  PROVE  DiskInv'
<1>1. UNCHANGED <<broken, durable, saver, files, shown>> /\ watchers' = 0 /\ read' = Idle
  BY Zenon DEF Close, Disappear
<1>2. thread = "open" /\ CloseLocked
  BY DEF Close
<1>3. Idle.pc = "idle"
  BY Zenon DEF Idle
<1>4. Held' /\ Flushing' /\ Survives'
  BY <1>1, <1>2, <1>3, CloseHeld, MemoryStep, Zenon
<1>5. Retained'
  BY <1>1, <1>3 DEF Retained
<1> QED BY <1>4, <1>5 DEF DiskInv

(* Nothing reads or watches a thread whose entry is not open.              *)
LEMMA NotReading ==
  ASSUME DiskInv, thread # "open"
  PROVE  read.pc = "idle" /\ watchers = 0
BY DEF DiskInv, Retained

(* The entry is made, or its checkpoint cannot be read.                    *)
LEMMA PrepareStep ==
  ASSUME DiskInv, Prepare \/ LoadFails
  PROVE  DiskInv'
<1>1. UNCHANGED <<watchers, hot, durable, saver, files, read, shown>> /\ ~Loaded
  BY Zenon DEF Prepare, LoadFails, reading, Loaded
<1>2. read.pc = "idle" /\ watchers = 0
  BY <1>1, NotReading, Zenon DEF Loaded
<1>3. thread' = "loading" \/ broken'
  BY Zenon DEF Prepare, LoadFails
<1>4. writer = "idle"
  BY <1>1, Zenon DEF DiskInv, Held
<1>5. Held'
  BY <1>1, <1>3, <1>4, ZenonT(60) DEF DiskInv, Held, Loaded, saver, files
<1>6. Retained' /\ Flushing'
  BY <1>1, <1>2, Zenon DEF Retained, Flushing
<1>7. Survives'
  BY <1>1, SurvivesSame, Zenon DEF DiskInv
<1> QED BY <1>5, <1>6, <1>7, ZenonT(60) DEF DiskInv

(* The checkpoint is loaded, without what has a summary as new.            *)
LEMMA LoadStep ==
  ASSUME DiskInv, Load
  PROVE  DiskInv'
<1> DEFINE done == {t \in DOMAIN checkpoint \cap DOMAIN summaries :
                      summaries[t].sequence >= checkpoint[t].sequence}
           left == Without(checkpoint, done)
<1>1. UNCHANGED <<watchers, saver, files, read, shown, broken>> /\ hot' = left /\ durable' = left
      /\ thread \in {"loading", "doomed"}
  BY ZenonT(60) DEF Load, reading
<1>2. read.pc = "idle" /\ watchers = 0
  BY <1>1, NotReading, ZenonT(60)
<1>3. writer = "idle"
  BY <1>1, Zenon DEF DiskInv, Held, Loaded
<1>4. Numbered(checkpoint) /\ Numbered(summaries)
  BY Zenon DEF DiskInv, Held
<1>5. DOMAIN left = DOMAIN checkpoint \ done /\ \A t \in DOMAIN left : left[t] = checkpoint[t]
  BY Zenon DEF Without
<1>6. Numbered(left)
  BY <1>4, <1>5, ZenonT(60) DEF Numbered
<1>7. Covers(left)
  <2> SUFFICES ASSUME NEW t \in DOMAIN checkpoint
               PROVE  checkpoint[t].sequence <= Later(Number(left, t), Number(summaries, t))
    BY Zenon DEF Covers
  <2>1. checkpoint[t].sequence \in Nat
    BY <1>4, Zenon DEF Numbered, HasNumber
  <2>2. Number(left, t) \in Nat /\ Number(summaries, t) \in Nat
    BY <1>4, <1>6, NumberOf, Zenon
  <2>3. CASE t \in done
    <3>1. Number(summaries, t) = summaries[t].sequence /\ checkpoint[t].sequence <= summaries[t].sequence
      BY <1>4, <2>3, NumberOf, AtMostAtLeast, Zenon DEF Numbered, HasNumber
    <3>2. checkpoint[t].sequence <= Number(summaries, t)
      BY <3>1, Zenon
    <3> QED BY <2>1, <2>2, <3>2, LaterAbove, Zenon
  <2>4. CASE t \notin done
    <3>1. t \in DOMAIN left /\ left[t] = checkpoint[t]
      BY <1>5, <2>4, ZenonT(60)
    <3>2. Number(left, t) = checkpoint[t].sequence
      BY <1>6, <3>1, NumberOf, Zenon
    <3>3. checkpoint[t].sequence <= checkpoint[t].sequence
      BY <2>1, Comparing, Zenon
    <3>4. checkpoint[t].sequence <= Number(left, t)
      BY <3>2, <3>3, Zenon
    <3> QED BY <2>1, <2>2, <3>4, LaterAbove, Zenon
  <2> QED BY <2>3, <2>4, ZenonT(60)
<1> HIDE DEF left
<1>8. Covers(hot)'
  BY <1>1, <1>7, ZenonT(60) DEF Covers, files
<1>9. Held'
  BY <1>1, <1>3, <1>4, <1>5, <1>6, <1>8, ZenonT(60) DEF DiskInv, Held, saver, files
<1>10. Retained' /\ Flushing'
  BY <1>1, <1>2, Zenon DEF Retained, Flushing
<1>11. Survives'
  BY <1>1, SurvivesSame, Zenon DEF DiskInv
<1> QED BY <1>9, <1>10, <1>11 DEF DiskInv

(* Nothing is left in memory, and the files stay.                          *)
LEMMA EmptyNumbered == Numbered(Nothing) /\ DOMAIN Nothing = {}
BY DEF Numbered, Nothing

(* A crash leaves the files.                                               *)
LEMMA CrashStep ==
  ASSUME DiskInv, Crash
  PROVE  DiskInv'
<1>1. UNCHANGED <<files, shown>> /\ watchers' = 0 /\ read' = Idle /\ thread' = "none"
      /\ writer' = "idle" /\ hot' = Nothing /\ durable' = Nothing /\ snapshot' = Nothing
  BY ZenonT(60) DEF Crash, Disappear
<1>2. Idle.pc = "idle"
  BY DEF Idle
<1>3. Held'
  BY <1>1, EmptyNumbered, ZenonT(60) DEF DiskInv, Held, Loaded, files
<1>4. Retained' /\ Flushing'
  BY <1>1, <1>2, Zenon DEF Retained, Flushing
<1>5. Survives'
  BY <1>1, SurvivesSame, Zenon DEF DiskInv
<1> QED BY <1>3, <1>4, <1>5 DEF DiskInv

-----------------------------------------------------------------------------
(* The writer takes a snapshot; it will serve a flush that waits.          *)
LEMMA SnapshotStep ==
  ASSUME DiskInv, Snapshot
  PROVE  DiskInv'
<1>1. UNCHANGED <<entry, hot, durable, files, shown>> /\ snapshot' = hot /\ Loaded
      /\ writer' = (IF thread = "closing" THEN "last" ELSE "writing")
      /\ read' = (IF read.pc = "flush" /\ read.served = "no"
                  THEN [read EXCEPT !.served = "soon"] ELSE read)
  BY Zenon DEF Snapshot, memory, Loaded
<1>2. UNCHANGED <<thread, watchers, readers, broken>>
  BY <1>1 DEF entry
<1>3. Numbered(hot) /\ Grows(hot, hot)
  BY GrowsSame, Zenon DEF DiskInv, Held
<1>4. Covers(hot)' = Covers(hot)
  BY <1>1, Zenon DEF Covers, files
<1>5. Held'
  BY <1>1, <1>2, <1>3, <1>4 DEF DiskInv, Held, Loaded, Covers, files
<1>6. read'.pc = read.pc
  BY <1>1 DEF DiskInv, Flushing
<1>7. Retained'
  BY <1>2, <1>6, Zenon DEF DiskInv, Retained
<1>8. Flushing'
  <2>1. CASE read.pc # "flush"
    BY <1>6, <2>1, Zenon DEF Flushing
  <2>2. CASE read.pc = "flush"
    <3>1. writer' = "writing"
      BY <1>1, <2>2 DEF DiskInv, Retained
    <3>2. read' = [pc |-> "flush", turns |-> read'.turns, served |-> read'.served, want |-> read'.want]
          /\ read'.want = read.want /\ (read'.served = "yes" => read.served = "yes")
      BY <1>1, <2>2 DEF DiskInv, Flushing
    <3>3. \A t : Saved(t)' = Saved(t)
      BY <1>1, Zenon DEF Saved, files
    <3>4. ASSUME NEW t \in DOMAIN read.want
          PROVE  /\ read.want[t] \in Nat
                 /\ read.want[t] <= Later(Number(hot, t), Saved(t))
                 /\ read'.served = "yes" => read.want[t] <= Saved(t)
      BY <2>2, <3>2, <3>4, Zenon DEF DiskInv, Flushing
    <3> QED BY <1>1, <3>1, <3>2, <3>3, <3>4, Zenon DEF Flushing
  <2> QED BY <2>1, <2>2
<1>9. Survives'
  BY <1>1, SurvivesSame, Zenon DEF DiskInv
<1> QED BY <1>5, <1>7, <1>8, <1>9 DEF DiskInv

(* A summary replaces one that is not newer.                               *)
LEMMA WriteSummaryStep ==
  ASSUME DiskInv, NEW t \in Turns, WriteSummary(t)
  PROVE  DiskInv'
<1>1. UNCHANGED <<entry, hot, durable, saver, checkpoint, read, shown>>
      /\ summaries' = Put(summaries, t, snapshot[t])
  BY Zenon DEF WriteSummary, memory, reading
<1>2. UNCHANGED <<thread, watchers, readers, broken>>
  BY <1>1, Zenon DEF entry
<1>3. Numbered(summaries) /\ Numbered(checkpoint) /\ Numbered(snapshot) /\ Numbered(hot)
  BY Zenon DEF DiskInv, Held
<1>4. Grows(summaries, summaries')
  <2>1. t \in DOMAIN snapshot /\ HasNumber(snapshot[t])
    BY <1>3, ZenonT(60) DEF WriteSummary, Unsaved, Finals, Numbered
  <2>2. t \in DOMAIN summaries => summaries[t].sequence <= snapshot[t].sequence
    BY ZenonT(60) DEF WriteSummary, Unsaved
  <2>3. Number(summaries, t) <= snapshot[t].sequence
    BY <1>3, <2>1, <2>2, NumberOf, Comparing, ZenonT(120) DEF HasNumber
  <2> QED BY <1>1, <1>3, <2>1, <2>3, PutGrows, ZenonT(60)
<1>5. Numbered(summaries')
  BY <1>4, Zenon DEF Grows
<1>6. ASSUME NEW u PROVE Number(summaries, u) \in Nat /\ Number(summaries', u) \in Nat
                         /\ Number(summaries, u) <= Number(summaries', u)
  BY <1>3, <1>4, <1>5, NumberOf, GrowsNumber, Zenon
<1>7. ASSUME NEW f, Numbered(f), Covers(f), NEW u \in DOMAIN checkpoint
      PROVE  checkpoint[u].sequence <= Later(Number(f, u), Number(summaries', u))
  <2>1. checkpoint[u].sequence \in Nat /\ Number(f, u) \in Nat
    BY <1>3, <1>7, NumberOf, ZenonT(60) DEF Numbered, HasNumber
  <2>2. checkpoint[u].sequence <= Later(Number(f, u), Number(summaries, u))
    BY <1>7, Zenon DEF Covers
  <2> QED BY <1>6, <2>1, <2>2, Comparing, LaterAbove, ZenonT(60)
<1>8. Covers(hot) => Covers(hot)'
  BY <1>1, <1>3, <1>7, Zenon DEF Covers
<1>9. Covers(snapshot) => Covers(snapshot)'
  BY <1>1, <1>3, <1>7, ZenonT(60) DEF Covers, saver
<1>10. Held'
  BY <1>1, <1>2, <1>5, <1>8, <1>9, ZenonT(60) DEF DiskInv, Held, Loaded, saver
<1>11. Retained'
  BY <1>1, <1>2, Zenon DEF DiskInv, Retained
<1>12. ASSUME NEW u PROVE Saved(u) \in Nat /\ Saved(u)' \in Nat /\ Saved(u) <= Saved(u)'
  <2>1. Number(checkpoint, u) \in Nat
    BY <1>3, NumberOf, ZenonT(60)
  <2> QED BY <1>1, <1>6, <2>1, Comparing, LaterGrows, ZenonT(60) DEF Saved
<1>13. Flushing'
  <2> SUFFICES ASSUME read.pc = "flush", NEW u \in DOMAIN read.want
               PROVE  /\ read.want[u] <= Later(Number(hot, u), Saved(u)')
                      /\ read.served = "soon" => read.want[u] <= Later(Number(snapshot, u), Saved(u)')
                      /\ read.served = "yes" => read.want[u] <= Saved(u)'
    BY <1>1, Zenon DEF DiskInv, Flushing, saver
  <2>1. /\ read.want[u] \in Nat
        /\ read.want[u] <= Later(Number(hot, u), Saved(u))
        /\ read.served = "soon" => read.want[u] <= Later(Number(snapshot, u), Saved(u))
        /\ read.served = "yes" => read.want[u] <= Saved(u)
    BY ZenonT(60) DEF DiskInv, Flushing
  <2>2. Number(hot, u) \in Nat /\ Number(snapshot, u) \in Nat
    BY <1>3, NumberOf, Zenon
  <2>3. Saved(u) \in Nat /\ Saved(u)' \in Nat /\ Saved(u) <= Saved(u)'
    BY <1>12, Zenon
  <2>4. read.want[u] <= Later(Number(hot, u), Saved(u)')
    BY <2>1, <2>2, <2>3, Comparing, LaterAbove, ZenonT(60)
  <2>5. read.served = "soon" => read.want[u] <= Later(Number(snapshot, u), Saved(u)')
    BY <2>1, <2>2, <2>3, Comparing, LaterAbove, ZenonT(60)
  <2>6. read.served = "yes" => read.want[u] <= Saved(u)'
    BY <2>1, <2>3, Comparing, ZenonT(60)
  <2> QED BY <2>4, <2>5, <2>6, Zenon
<1>14. Survives'
  <2> SUFFICES ASSUME NEW u \in Turns PROVE shown[u] \in Nat /\ shown[u] <= Saved(u)'
    BY <1>1, Zenon DEF Survives
  <2>1. shown[u] \in Nat /\ shown[u] <= Saved(u)
    BY DEF DiskInv, Survives
  <2> QED BY <1>12, <2>1, Comparing, ZenonT(60)
<1> QED BY <1>10, <1>11, <1>13, <1>14 DEF DiskInv

(* When the checkpoint is written, the snapshot and what was on disk are   *)
(* on disk: the summaries hold what the checkpoint leaves out.             *)
LEMMA CheckpointSaves ==
  ASSUME Held, writer # "idle", ~broken, Unsaved = {}, summaries' = summaries,
         checkpoint' = Without(snapshot, Finals(snapshot)), NEW t
  PROVE  /\ Saved(t) \in Nat /\ Saved(t)' \in Nat /\ Saved(t) <= Saved(t)'
         /\ Number(snapshot, t) \in Nat /\ Number(snapshot, t) <= Saved(t)'
<1> DEFINE n == Number(snapshot, t)
           c == Number(checkpoint, t)
           m == Number(summaries, t)
           d == Number(checkpoint', t)
<1>1. Numbered(snapshot) /\ Numbered(checkpoint) /\ Numbered(summaries)
  BY Zenon DEF Held
<1>2. /\ DOMAIN checkpoint' = DOMAIN snapshot \ Finals(snapshot)
      /\ \A u \in DOMAIN checkpoint' : checkpoint'[u] = snapshot[u]
  BY Zenon DEF Without
<1>3. Numbered(checkpoint')
  BY <1>1, <1>2, ZenonT(60) DEF Numbered
<1>4. n \in Nat /\ c \in Nat /\ m \in Nat /\ d \in Nat
  BY <1>1, <1>3, NumberOf, Zenon
<1>5. n <= m \/ n <= d
  <2>1. CASE t \in Finals(snapshot)
    <3>1. t \in DOMAIN snapshot /\ t \in DOMAIN summaries
          /\ ~(summaries[t] # snapshot[t] /\ summaries[t].sequence <= snapshot[t].sequence)
      BY <2>1, Zenon DEF Unsaved, Finals
    <3>2. n = snapshot[t].sequence /\ m = summaries[t].sequence
      BY <1>1, <3>1, NumberOf, Zenon
    <3> QED BY <1>4, <3>1, <3>2, Comparing, ZenonT(60)
  <2>2. CASE t \in DOMAIN snapshot /\ t \notin Finals(snapshot)
    <3>1. n = snapshot[t].sequence /\ d = snapshot[t].sequence
      BY <1>1, <1>2, <1>3, <2>2, NumberOf, ZenonT(60)
    <3> QED BY <1>4, <3>1, Comparing, ZenonT(60)
  <2>3. CASE t \notin DOMAIN snapshot
    <3>1. n = 0
      BY <1>1, <2>3, NumberOf, Zenon
    <3> QED BY <1>4, <3>1, Comparing, ZenonT(60)
  <2> QED BY <2>1, <2>2, <2>3, Zenon
<1>6. c <= n \/ c <= m
  <2>1. CASE t \in DOMAIN checkpoint
    <3>1. c = checkpoint[t].sequence
      BY <1>1, <2>1, NumberOf, ZenonT(60)
    <3>2. checkpoint[t].sequence <= Later(n, m)
      BY <2>1, Zenon DEF Held, Covers
    <3> QED BY <1>4, <3>1, <3>2, Zenon DEF Later
  <2>2. CASE t \notin DOMAIN checkpoint
    <3>1. c = 0
      BY <1>1, <2>2, NumberOf, Zenon
    <3> QED BY <1>4, <3>1, Comparing, ZenonT(60)
  <2> QED BY <2>1, <2>2, Zenon
<1>7. Saved(t) = Later(c, m) /\ Saved(t)' = Later(d, m)
  BY Zenon DEF Saved
<1> HIDE DEF n, c, m, d
<1>8. /\ Later(c, m) \in Nat /\ Later(d, m) \in Nat /\ Later(c, m) <= Later(d, m)
      /\ n <= Later(d, m)
  BY <1>4, <1>5, <1>6 DEF Later
<1> QED BY <1>4, <1>7, <1>8, Zenon DEF n

(* The last write is over: the entry goes.                                 *)
LEMMA LastStep ==
  ASSUME DiskInv, writer = "last", NEW saved, Finish(saved), Numbered(checkpoint'),
         \A t : Saved(t) \in Nat /\ Saved(t)' \in Nat /\ Saved(t) <= Saved(t)'
  PROVE  DiskInv'
<1>1. thread' = "none" /\ hot' = Nothing /\ durable' = Nothing /\ writer' = "idle"
      /\ snapshot' = Nothing /\ UNCHANGED <<watchers, summaries, shown>>
  BY ZenonT(60) DEF Finish
<1>2. thread # "open"
  BY Zenon DEF DiskInv, Held
<1>3. read.pc = "idle" /\ watchers = 0
  BY <1>2, NotReading, Zenon
<1>4. read' = read
  BY <1>3, Zenon DEF Finish
<1>5. Held'
  BY <1>1, EmptyNumbered, ZenonT(60) DEF DiskInv, Held, Loaded
<1>6. Retained' /\ Flushing'
  BY <1>1, <1>3, <1>4, Zenon DEF Retained, Flushing
<1>7. Survives'
  <2> SUFFICES ASSUME NEW t \in Turns PROVE shown[t] \in Nat /\ shown[t] <= Saved(t)'
    BY <1>1, Zenon DEF Survives
  <2>1. shown[t] \in Nat /\ shown[t] <= Saved(t)
    BY Zenon DEF DiskInv, Survives
  <2>2. Saved(t) \in Nat /\ Saved(t)' \in Nat /\ Saved(t) <= Saved(t)'
    BY Zenon
  <2> QED BY <2>1, <2>2
<1> QED BY <1>5, <1>6, <1>7, Zenon DEF DiskInv

(* A write fails: memory keeps what it has, and a flush waits on.          *)
LEMMA WriteFailsStep ==
  ASSUME DiskInv, WriteFails
  PROVE  DiskInv'
<1>1. UNCHANGED files /\ Finish(FALSE)
  BY DEF WriteFails, Finish, files
<1>2. \A t : Saved(t)' = Saved(t)
  BY <1>1, Zenon DEF Saved, files
<1>3. Numbered(checkpoint')
  BY <1>1, Zenon DEF DiskInv, Held, files
<1>4. \A t : Saved(t) \in Nat /\ Saved(t)' \in Nat /\ Saved(t) <= Saved(t)'
  BY <1>2, SavedNumber DEF DiskInv
<1>5. CASE writer = "last"
  BY <1>1, <1>3, <1>4, <1>5, LastStep, ZenonT(60)
<1>6. CASE writer # "last"
  <2>1. UNCHANGED <<thread, broken, watchers, readers, hot, durable, shown>>
        /\ writer' = "idle" /\ snapshot' = Nothing
        /\ read' = (IF read.pc = "flush" /\ read.served = "soon"
                    THEN [read EXCEPT !.served = "no"] ELSE read)
    BY <1>1, <1>6 DEF Finish
  <2>2. Held'
    BY <1>1, <2>1, EmptyNumbered, Zenon DEF DiskInv, Held, Loaded, Covers, files
  <2>3. read'.pc = read.pc
    BY <2>1 DEF DiskInv, Flushing
  <2>4. Retained'
    BY <2>1, <2>3, ZenonT(60) DEF DiskInv, Retained
  <2>5. Flushing'
    <3>1. CASE read.pc # "flush"
      BY <2>3, <3>1, Zenon DEF Flushing
    <3>2. CASE read.pc = "flush"
      <4>1. read' = [pc |-> "flush", turns |-> read'.turns, served |-> read'.served, want |-> read'.want]
            /\ read'.want = read.want /\ read'.served # "soon"
            /\ (read'.served = "yes" => read.served = "yes")
        BY <2>1, <3>2 DEF DiskInv, Flushing
      <4> QED BY <1>2, <2>1, <3>2, <4>1, Zenon DEF DiskInv, Flushing
    <3> QED BY <3>1, <3>2
  <2>6. Survives'
    BY <1>1, <2>1, SurvivesSame, Zenon DEF DiskInv
  <2> QED BY <2>2, <2>4, <2>5, <2>6 DEF DiskInv
<1> QED BY <1>5, <1>6

(* The checkpoint is written: finished records leave memory, unless they   *)
(* have changed since, and a flush is served.                              *)
LEMMA WriteCheckpointStep ==
  ASSUME DiskInv, WriteCheckpoint
  PROVE  DiskInv'
<1>1. /\ writer # "idle" /\ ~broken /\ Unsaved = {} /\ Finish(TRUE) /\ summaries' = summaries
      /\ checkpoint' = Without(snapshot, Finals(snapshot))
  BY DEF WriteCheckpoint, Finish
<1>2. ASSUME NEW t
      PROVE  /\ Saved(t) \in Nat /\ Saved(t)' \in Nat /\ Saved(t) <= Saved(t)'
             /\ Number(snapshot, t) \in Nat /\ Number(snapshot, t) <= Saved(t)'
  BY <1>1, CheckpointSaves, Zenon DEF DiskInv
<1>3. /\ DOMAIN checkpoint' = DOMAIN snapshot \ Finals(snapshot)
      /\ \A u \in DOMAIN checkpoint' : checkpoint'[u] = snapshot[u]
  BY <1>1, Zenon DEF Without
<1>4. Numbered(checkpoint') /\ Numbered(snapshot) /\ Numbered(hot) /\ Grows(snapshot, hot)
  BY <1>1, <1>3, Zenon DEF DiskInv, Held, Numbered
<1>5. CASE writer = "last"
  BY <1>1, <1>2, <1>4, <1>5, LastStep, ZenonT(60)
<1>6. CASE writer # "last"
  <2> DEFINE gone == {t \in Finals(snapshot) \cap DOMAIN hot : hot[t] = snapshot[t]}
  <2>1. UNCHANGED <<thread, broken, watchers, readers, shown>>
        /\ writer' = "idle" /\ snapshot' = Nothing
        /\ durable' = checkpoint' /\ hot' = Without(hot, gone)
        /\ read' = (IF read.pc = "flush" /\ read.served = "soon"
                    THEN [read EXCEPT !.served = "yes"] ELSE read)
    BY <1>1, <1>6 DEF Finish
  <2>2. /\ DOMAIN hot' = DOMAIN hot \ gone
        /\ \A t \in DOMAIN hot' : hot'[t] = hot[t]
    BY <2>1, Zenon DEF Without
  <2>3. Numbered(hot')
    BY <1>4, <2>2, ZenonT(60) DEF Numbered
  <2>4. ASSUME NEW t \in DOMAIN checkpoint'
        PROVE  checkpoint'[t].sequence <= Later(Number(hot', t), Number(summaries', t))
    <3>1. t \in DOMAIN hot' /\ hot'[t] = hot[t] /\ checkpoint'[t] = snapshot[t] /\ t \in DOMAIN snapshot
      BY <1>3, <1>4, <2>2, <2>4, ZenonT(60) DEF Grows
    <3>2. Number(hot', t) = hot[t].sequence /\ Number(hot', t) \in Nat
      BY <2>3, <3>1, NumberOf, Zenon
    <3>3. snapshot[t].sequence <= hot[t].sequence /\ snapshot[t].sequence \in Nat
      BY <1>4, <3>1, Zenon DEF Grows, Numbered, HasNumber
    <3>4. Number(summaries', t) \in Nat
      BY <1>1, NumberOf, Zenon DEF DiskInv, Held
    <3>5. checkpoint'[t].sequence \in Nat /\ checkpoint'[t].sequence <= Number(hot', t)
      BY <3>1, <3>2, <3>3, Zenon
    <3> QED BY <3>2, <3>4, <3>5, LaterAbove, Zenon
  <2>5. Covers(hot)'
    BY <2>4, Zenon DEF Covers
  <2>6. Held'
    BY <1>1, <1>4, <2>1, <2>3, <2>5, EmptyNumbered, Zenon DEF DiskInv, Held
  <2>7. read'.pc = read.pc
    BY <2>1 DEF DiskInv, Flushing
  <2>8. Retained'
    BY <2>1, <2>7, Zenon DEF DiskInv, Retained
  <2>9. Flushing'
    <3>1. CASE read.pc # "flush"
      BY <2>7, <3>1, Zenon DEF Flushing
    <3>2. CASE read.pc = "flush"
      <4>1. read' = [pc |-> "flush", turns |-> read'.turns, served |-> read'.served, want |-> read'.want]
            /\ read'.want = read.want /\ read'.served # "soon"
            /\ (read'.served = "yes" => read.served \in {"soon", "yes"})
        BY <2>1, <3>2, Zenon DEF DiskInv, Flushing
      <4>2. ASSUME NEW t \in DOMAIN read.want
            PROVE  /\ read.want[t] \in Nat
                   /\ read.want[t] <= Later(Number(hot', t), Saved(t)')
                   /\ read.served \in {"soon", "yes"} => read.want[t] <= Saved(t)'
        <5>1. /\ read.want[t] \in Nat
              /\ read.want[t] <= Later(Number(hot, t), Saved(t))
              /\ read.served = "soon" => read.want[t] <= Later(Number(snapshot, t), Saved(t))
              /\ read.served = "yes" => read.want[t] <= Saved(t)
          BY <3>2, <4>2, ZenonT(60) DEF DiskInv, Flushing
        <5>2. Number(hot, t) \in Nat /\ Number(hot', t) \in Nat
          BY <1>4, <2>3, NumberOf, Zenon
        <5>3. Number(hot', t) = Number(hot, t) \/ Number(hot, t) <= Saved(t)'
          <6>1. CASE t \in gone
            <7>1. Number(hot, t) = hot[t].sequence /\ Number(snapshot, t) = snapshot[t].sequence
                  /\ hot[t] = snapshot[t]
              BY <1>4, <6>1, NumberOf, Zenon DEF Finals
            <7> QED BY <1>2, <7>1, Zenon
          <6>2. CASE t \notin gone
            BY <2>2, <6>2, Zenon DEF Number, Get
          <6> QED BY <6>1, <6>2, ZenonT(60)
        <5> QED BY <1>2, <5>1, <5>2, <5>3, Comparing, LaterAbove, ZenonT(60)
      <4> QED BY <4>1, <4>2, Zenon DEF Flushing
    <3> QED BY <3>1, <3>2
  <2>10. Survives'
    <3> SUFFICES ASSUME NEW t \in Turns PROVE shown[t] \in Nat /\ shown[t] <= Saved(t)'
      BY <2>1 DEF Survives
    <3>1. shown[t] \in Nat /\ shown[t] <= Saved(t)
      BY Zenon DEF DiskInv, Survives
    <3> QED BY <1>2, <3>1
  <2> QED BY <2>6, <2>8, <2>9, <2>10 DEF DiskInv
<1> QED BY <1>5, <1>6

-----------------------------------------------------------------------------
(* A read takes up the saved summary of the running turn.                  *)
LEMMA SeedStep ==
  ASSUME DiskInv, Seed
  PROVE  DiskInv'
<1>1. UNCHANGED <<entry, durable, saver, files, shown>> /\ read'.pc = "reconcile" /\ read.pc = "seed"
  BY Zenon DEF Seed, Seeded
<1>2. UNCHANGED <<thread, watchers, readers, broken>>
  BY <1>1, Zenon DEF entry
<1>3. Numbered(hot) /\ Numbered(summaries)
  BY Zenon DEF DiskInv, Held
<1>4. Grows(hot, hot')
  <2>1. PICK t : hot' = hot \/ (t \in DOMAIN summaries /\ hot' = Put(hot, t, Reopened(summaries[t], Get(hot, t))))
    BY Zenon DEF Seed
  <2>2. CASE hot' = hot
    BY <1>3, <2>2, GrowsSame, ZenonT(60)
  <2>3. CASE t \in DOMAIN summaries /\ hot' = Put(hot, t, Reopened(summaries[t], Get(hot, t)))
    <3>1. HasNumber(summaries[t])
      BY <1>3, <2>3, Zenon DEF Numbered
    <3>2. HasNumber(Get(hot, t)) /\ Get(hot, t).sequence = Number(hot, t)
      BY <1>3, GetHasNumber, Zenon
    <3> QED BY <1>3, <2>3, <3>1, <3>2, ReopenGrows, PutGrows, ZenonT(60)
  <2> QED BY <2>1, <2>2, <2>3, Zenon
<1>5. Held' /\ Flushing' /\ Survives'
  BY <1>1, <1>2, <1>4, MemoryStep, Zenon
<1>6. Retained'
  BY <1>1, <1>2, Zenon DEF DiskInv, Retained
<1> QED BY <1>5, <1>6 DEF DiskInv

(* A read applies the history, and waits for what is then in memory.       *)
LEMMA ReconcileStep ==
  ASSUME DiskInv, Reconcile
  PROVE  DiskInv'
<1> DEFINE mine == {o \in live : o.connection = read.on /\ o.connected}
<1>1. /\ UNCHANGED <<entry, durable, saver, files, shown>> /\ read.pc = "reconcile"
      /\ read' = [pc |-> "flush", turns |-> read.turns, served |-> Served(dirty'),
                  want |-> [t \in IF mine = {} THEN {} ELSE DOMAIN hot' |-> hot'[t].sequence]]
  BY ZenonT(60) DEF Reconcile
<1>2. UNCHANGED <<thread, watchers, readers, broken>>
  BY <1>1, Zenon DEF entry
<1>3. Numbered(hot)
  BY DEF DiskInv, Held
<1>4. mine = {} => hot' = hot
  BY Zenon DEF Reconcile
<1>5. mine # {} => \E o \in mine : ReconcileWith(o)
  BY ZenonT(60) DEF Reconcile
<1>6. Grows(hot, hot') /\ Numbered(hot')
  <2>1. Grows(hot, hot')
    BY <1>3, <1>4, <1>5, ReconcileGrows, GrowsSame, ZenonT(60)
  <2> QED BY <2>1, Zenon DEF Grows
<1>7. mine # {} => Served(dirty') = "no"
  BY <1>5, Zenon DEF ReconcileWith, Signal, Served
<1> HIDE DEF mine
<1>8. Held'
  BY <1>1, <1>2, <1>6, MemoryHeld, ZenonT(60) DEF DiskInv
<1>9. Retained'
  BY <1>1, <1>2, Zenon DEF DiskInv, Retained
<1>10. Flushing'
  <2>1. /\ read' = [pc |-> "flush", turns |-> read'.turns, served |-> read'.served, want |-> read'.want]
        /\ read'.want = [t \in IF mine = {} THEN {} ELSE DOMAIN hot' |-> hot'[t].sequence]
        /\ read'.served = Served(dirty')
    BY <1>1, Zenon
  <2>2. ASSUME NEW t \in DOMAIN read'.want
        PROVE  /\ read'.want[t] \in Nat
               /\ read'.want[t] <= Later(Number(hot', t), Saved(t)')
               /\ read'.served = "no"
    <3>1. mine # {} /\ t \in DOMAIN hot' /\ read'.want[t] = hot'[t].sequence
      BY <2>1, <2>2, Zenon
    <3>2. Number(hot', t) = hot'[t].sequence /\ Number(hot', t) \in Nat
      BY <1>6, <3>1, NumberOf, Zenon
    <3>3. Saved(t)' = Saved(t) /\ Saved(t) \in Nat
      <4>1. Saved(t)' = Saved(t)
        BY <1>1, ZenonT(60) DEF Saved, files
      <4> QED BY <4>1, SavedNumber, Zenon DEF DiskInv
    <3>4. Number(hot', t) <= Later(Number(hot', t), Saved(t))
      BY <3>2, <3>3, LaterOf, Zenon
    <3> QED BY <1>7, <2>1, <3>1, <3>2, <3>3, <3>4, Zenon
  <2> QED BY <2>1, <2>2, Zenon DEF Flushing
<1>11. Survives'
  BY <1>1, SurvivesSame, Zenon DEF DiskInv
<1> QED BY <1>8, <1>9, <1>10, <1>11 DEF DiskInv

(* A read lets go of the entry.                                            *)
LEMMA ReleaseHeld ==
  ASSUME DiskInv, read.pc # "idle", ReleaseRead
  PROVE  Held' /\ Retained' /\ Flushing' /\ UNCHANGED files
<1>1. UNCHANGED <<watchers, broken, durable, saver, files>> /\ read' = Idle
  BY Zenon DEF ReleaseRead
<1>2. Idle.pc = "idle"
  BY Zenon DEF Idle
<1>3. thread = "open"
  BY DEF DiskInv, Retained
<1>4. (watchers = 0 /\ CloseLocked) \/ UNCHANGED <<thread, hot>>
  BY Zenon DEF ReleaseRead
<1>5. Grows(hot, hot')
  BY <1>3, <1>4, CloseHeld, GrowsSame, Zenon DEF DiskInv, Held
<1>6. thread' = thread \/ (thread = "open" /\ thread' = "closing" /\ watchers = 0)
  BY <1>3, <1>4, CloseHeld, Zenon
<1>7. Held'
  BY <1>1, <1>5, <1>6, MemoryHeld, ZenonT(60) DEF DiskInv
<1>8. Retained' /\ Flushing'
  BY <1>1, <1>2, <1>3, <1>6, Zenon DEF DiskInv, Retained, Flushing
<1> QED BY <1>1, <1>7, <1>8, Zenon

(* The reading fails, or what is on disk is shown.                         *)
LEMMA ReadEndsStep ==
  ASSUME DiskInv, ReadFails \/ Show
  PROVE  DiskInv'
<1>1. read.pc # "idle" /\ ReleaseRead
  BY Zenon DEF ReadFails, Show
<1>2. Held' /\ Retained' /\ Flushing' /\ UNCHANGED files
  BY <1>1, ReleaseHeld, Zenon
<1>3. Survives'
  <2>1. CASE shown' = shown
    BY <1>2, <2>1, SurvivesSame, Zenon DEF DiskInv
  <2>2. CASE shown' = [t \in Turns |-> IF t \in DOMAIN read.turns THEN Used(t).sequence ELSE shown[t]]
    <3>1. \A t : Saved(t)' = Saved(t)
      BY <1>2, Zenon DEF Saved, files
    <3> SUFFICES ASSUME NEW t \in Turns PROVE shown'[t] \in Nat /\ shown'[t] <= Saved(t)
      BY <3>1, Zenon DEF Survives
    <3>2. shown[t] \in Nat /\ shown[t] <= Saved(t)
      BY DEF DiskInv, Survives
    <3>3. Used(t).sequence \in Nat /\ Used(t).sequence <= Saved(t)
      <4>1. /\ Saved(t) \in Nat
            /\ Number(checkpoint, t) \in Nat /\ Number(checkpoint, t) <= Saved(t)
            /\ Number(summaries, t) \in Nat /\ Number(summaries, t) <= Saved(t)
        BY SavedNumber, Zenon DEF DiskInv
      <4>2. CASE t \in DOMAIN summaries /\ Used(t) = summaries[t]
        <5>1. Used(t).sequence = Number(summaries, t)
          BY <4>2, Zenon DEF Number, Get
        <5> QED BY <4>1, <5>1, Zenon
      <4>3. CASE Used(t) = Get(durable, t)
        <5>1. CASE t \in DOMAIN durable
          <6>1. Used(t).sequence = Number(checkpoint, t)
            BY <4>3, <5>1, Zenon DEF DiskInv, Held, Number, Get
          <6> QED BY <4>1, <6>1, Zenon
        <5>2. CASE t \notin DOMAIN durable
          <6>1. Used(t).sequence = 0
            BY <4>3, <5>2, BlankNumber, Zenon DEF Get
          <6>2. 0 \in Nat /\ 0 <= Saved(t)
            BY <4>1, Comparing, Zenon
          <6> QED BY <6>1, <6>2, Zenon
        <5> QED BY <5>1, <5>2, Zenon
      <4> QED BY <4>2, <4>3, Zenon DEF Used
    <3> QED BY <2>2, <3>2, <3>3, Zenon
  <2> QED BY <2>1, <2>2, Zenon DEF ReadFails, Show
<1> QED BY <1>2, <1>3, Zenon DEF DiskInv

-----------------------------------------------------------------------------
(* At the start there is nothing.                                          *)
LEMMA DiskStart ==
  ASSUME Init
  PROVE  DiskInv
<1>1. Held
  BY EmptyNumbered, Zenon DEF Init, Held, Loaded
<1>2. Retained /\ Flushing
  BY ZenonT(60) DEF Init, Idle, Retained, Flushing
<1>3. ASSUME NEW t \in Turns PROVE shown[t] = 0
  BY Zenon DEF Init
<1>4. Survives
  BY <1>1, <1>3, SavedNumber DEF Survives
<1> QED BY <1>1, <1>2, <1>4, Zenon DEF DiskInv

(* Every step keeps the invariant.                                         *)
LEMMA DiskStep ==
  ASSUME DiskInv, [Next]_vars
  PROVE  DiskInv'
<1>1. CASE UNCHANGED vars
  BY <1>1, Zenon DEF vars, memory, entry, saver, files, reading, DiskInv, Held, Loaded, Covers, Retained,
     Flushing, Survives, Saved
<1>2. CASE Next
  BY <1>2, AsideStep, ReceiveStep, WatchStep, RetireStep, UnwatchStep, CloseStep, PrepareStep,
     LoadStep, CrashStep, SnapshotStep, WriteSummaryStep, WriteFailsStep, WriteCheckpointStep,
     SeedStep, ReconcileStep, ReadEndsStep, ZenonT(60) DEF Next
<1> QED BY <1>1, <1>2, Zenon

(* Nothing that was saved is lost: memory, the writer and the files hold,  *)
(* between them, at least what the files held, and what a flush waits for. *)
LEMMA DiskInvHolds == Spec => []DiskInv
BY DiskStart, DiskStep, PTL DEF Spec

(* What a reader was shown survives: failed writes, crashes between two    *)
(* files (activityWriter, writeCheckpoint) and a checkpoint that cannot be *)
(* read take nothing back that snapshotContextCached has returned.         *)
THEOREM ShownIsKept == Spec => []ShownSurvives
<1>1. DiskInv => ShownSurvives
  BY Zenon DEF DiskInv, Survives, ShownSurvives, Saved, Number
<1> QED BY <1>1, DiskInvHolds, PTL

(* When flush returns without an error, all that was in memory after       *)
(* reconcile is in the checkpoint or in a summary, whatever the writer was *)
(* doing when it was called.                                               *)
THEOREM FlushMeansSaved == Spec => []FlushedIsSaved
<1>1. DiskInv => FlushedIsSaved
  BY Zenon DEF DiskInv, Flushing, FlushedIsSaved, Saved, Number
<1> QED BY <1>1, DiskInvHolds, PTL
=============================================================================
