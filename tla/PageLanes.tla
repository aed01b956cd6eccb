----------------------------- MODULE PageLanes -----------------------------
(***************************************************************************)
(* The pending questions on a page (refreshPending, schedulePending and    *)
(* suspendLanes in conversation/assets/conversation.js) beside PageSync,   *)
(* whose callbacks, hints and visibility drive them.  A lane has one read  *)
(* at a time; a forced one that finds a read under way outdates it and     *)
(* runs after it.  The queue has a lane of the same shape.                 *)
(***************************************************************************)
EXTENDS PageSync

CONSTANT MaxQuestions  \* bound on changes of the questions

VARIABLES
  questions,       \* the version of the questions on the server
  questionsShown,  \* the version on the page
  lane             \* the variables of the lane

lanesVars == <<syncVars, questions, questionsShown, lane>>

\* No read and no timer; known is FALSE when pendingLastRead is -Infinity.
Idle(known) == [read |-> [at |-> "none"], rerun |-> FALSE, retry |-> FALSE, due |-> FALSE, known |-> known]
Asked(l) == [l EXCEPT !.read = [at |-> "asked"], !.retry = FALSE, !.due = FALSE]

\* A mutant of RefreshPending: a forced refresh joins the read under way.
FaultRefreshPending(l, p, force, old) ==
  IF p.suspended \/ l.read.at # "none" THEN l
  ELSE IF force THEN Asked(l)
  ELSE IF l.retry THEN l
  ELSE IF StreamOpen(p) /\ l.known /\ ~old THEN [l EXCEPT !.due = TRUE]
  ELSE Asked(l)

\* refreshPending(force) on page p; old is what it finds of the last read.
RefreshPending(l, p, force, old) ==
  IF p.suspended THEN l
  ELSE IF l.read.at # "none" THEN [l EXCEPT !.rerun = @ \/ force]
  ELSE IF force THEN Asked(l)
  ELSE IF l.retry THEN l
  ELSE IF StreamOpen(p) /\ l.known /\ ~old THEN [l EXCEPT !.due = TRUE]
  ELSE Asked(l)

\* The read is over, as l says of the rest; a rerun follows.
Over(l, p) ==
  LET m == [l EXCEPT !.read = [at |-> "none"], !.rerun = FALSE]
  IN IF l.rerun THEN RefreshPending(m, p, TRUE, TRUE) ELSE m

LanesInit ==
  /\ SyncInit
  /\ questions = 1
  /\ questionsShown = 0
  /\ lane = RefreshPending(Idle(FALSE), page, FALSE, TRUE)

Quietly == UNCHANGED <<syncVars, questions>>

-----------------------------------------------------------------------------
\* A question is asked or resolved: streamEvents sends a pending event before
\* the message.
QuestionsChange ==
  /\ questions < MaxQuestions
  /\ questions' = questions + 1
  /\ page' = IF page.source.on /\ page.source.feed = "up"
             THEN [page EXCEPT !.source.hint = TRUE, !.source.news = TRUE] ELSE page
  /\ UNCHANGED <<version, shown, questionsShown, lane>>

StreamTellsPending ==
  /\ StreamOpen(page) /\ page.source.news
  /\ page' = [page EXCEPT !.source.news = FALSE]
  /\ lane' = RefreshPending(lane, page, TRUE, TRUE)
  /\ UNCHANGED <<version, shown, questions, questionsShown>>

AnswerPending ==
  /\ lane.read.at = "asked"
  /\ lane' = [lane EXCEPT !.read = [at |-> "answered", value |-> questions]]
  /\ Quietly /\ UNCHANGED questionsShown

\* The answer is shown unless the read was outdated.
RenderPending ==
  /\ lane.read.at = "answered"
  /\ IF lane.rerun THEN lane' = Over(lane, page) /\ UNCHANGED questionsShown
     ELSE /\ questionsShown' = lane.read.value
          /\ lane' = Over([lane EXCEPT !.known = TRUE, !.due = TRUE], page)
  /\ Quietly

FailPending ==
  /\ lane.read.at # "none"
  /\ lane' = IF lane.rerun THEN Over(lane, page)
             ELSE Over([lane EXCEPT !.known = FALSE, !.retry = TRUE], page)
  /\ Quietly /\ UNCHANGED questionsShown

LaneTimer ==
  /\ \E old \in BOOLEAN :
       \/ lane.retry /\ lane' = RefreshPending([lane EXCEPT !.retry = FALSE], page, FALSE, old)
       \/ lane.due /\ lane' = RefreshPending([lane EXCEPT !.due = FALSE], page, FALSE, old)
  /\ Quietly /\ UNCHANGED questionsShown

\* The reader of the page presses Retry or answers a question.
AskPending ==
  /\ ~page.suspended
  /\ lane' = RefreshPending(lane, page, TRUE, TRUE)
  /\ Quietly /\ UNCHANGED questionsShown

-----------------------------------------------------------------------------
(***************************************************************************)
(* What the lane does at a step of PageSync: it stops and starts with the  *)
(* page, follows a rendered transcript, and reads again when the page      *)
(* becomes connected.                                                      *)
(***************************************************************************)
LaneFollows ==
  /\ \/ Appears /\ lane' = RefreshPending(lane, page', TRUE, TRUE)
     \/ Disappears /\ lane' = Idle(lane.known)
     \/ Apply /\ \E old \in BOOLEAN :
          lane' = IF StreamOpen(page) /\ lane.known /\ ~old THEN lane
                  ELSE RefreshPending(lane, page, FALSE, old)
     \/ Proceeds /\ lane' = IF Connected(page') /\ ~Connected(page)
                            THEN RefreshPending(lane, page', TRUE, TRUE) ELSE lane
  /\ UNCHANGED <<questions, questionsShown>>

LanesNext ==
  /\ ~page.destroyed
  /\ \/ LaneFollows
     \/ QuestionsChange \/ StreamTellsPending
     \/ AnswerPending \/ RenderPending \/ FailPending \/ LaneTimer \/ AskPending

LanesSpec == LanesInit /\ [][LanesNext]_lanesVars

-----------------------------------------------------------------------------
\* The lane of a page in view never stops reading, and on a connected page
\* with every pending event delivered and no read under way or to be repeated
\* it shows the questions the server has.
QuestionsKeepUp ==
  ~page.suspended =>
    /\ lane.read.at # "none" \/ lane.retry \/ lane.due
    /\ /\ Connected(page) /\ page.source.feed = "up" /\ ~page.source.news
       /\ lane.read.at = "none" /\ ~lane.retry
       => questionsShown = questions

\* A page in view keeps up with the server, whatever was cancelled, lost or
\* hidden before.  Its watch is set, and once no read or retry is due it has a
\* stream; when that lives and all its messages are delivered, the page shows
\* the latest conversation and questions (sync.js:77-142, 144-250;
\* conversation.js:1404-1439, 1543-1582).  It never calls itself connected
\* before it shows what preceded the stream: "A read started before
\* reconnection cannot establish freshness for it" (sync.js:158).
PageKeepsUp == TranscriptKeepsUp /\ QuestionsKeepUp
=============================================================================
