------------------------------ MODULE PageSync ------------------------------
(***************************************************************************)
(* How a page keeps its copy of a conversation up to date                  *)
(* (createConversationSync in conversation/assets/sync.js, live and with   *)
(* the event stream on).  The stream only carries hints; what the page     *)
(* shows comes from reads, of which at most one is current.  Timers, the   *)
(* stream, the host, the network and the browser's own events interleave,  *)
(* one handler at a time.                                                  *)
(*                                                                         *)
(* Clocks are left out: whether a timer, a heartbeat or the last success   *)
(* is old is a choice at the moment the code looks, and a recovery that is *)
(* debounced does not happen.  So are the warnings, which only display.    *)
(***************************************************************************)
EXTENDS Naturals

CONSTANT MaxVersions  \* bound on changes of the conversation

VARIABLES
  version,  \* of the conversation on the server
  shown,    \* the version on the page
  page      \* the variables of createConversationSync

syncVars == <<version, shown, page>>

NoSource == [on |-> FALSE]
NoRead == [at |-> "none"]

\* An event source: whether its onopen ran, the server's end of it, a message
\* and a pending event on their way, and the version from which on the server
\* sends them.
NewSource == [on |-> TRUE, open |-> FALSE, feed |-> "none", hint |-> FALSE, news |-> FALSE,
              since |-> 0]

StreamOpen(p) == p.source.on /\ p.source.open

-----------------------------------------------------------------------------
(***************************************************************************)
(* The functions inside createConversationSync.                            *)
(***************************************************************************)
CloseStream(p) == [p EXCEPT !.source = NoSource]
CancelRead(p) == [p EXCEPT !.active = NoRead]

ScheduleRetry(p) ==
  IF p.destroyed \/ p.suspended THEN p ELSE [p EXCEPT !.retryTimer = TRUE]

ScheduleRefresh(p) ==
  IF p.destroyed \/ p.suspended THEN p
  ELSE [p EXCEPT
         !.dirty = TRUE,
         !.refreshTimer = \/ @
                          \/ /\ ~(p.readError /\ p.retryTimer)
                             /\ ~p.hidden /\ p.active = NoRead]

Away(p) == p.destroyed \/ p.suspended \/ p.hidden

RefreshNow(p) ==
  IF Away(p) THEN p
  ELSE IF p.active # NoRead THEN [p EXCEPT !.dirty = TRUE]
  ELSE [p EXCEPT !.refreshTimer = FALSE, !.dirty = FALSE, !.active = [at |-> "asked"]]

\* connect(): the pages it may leave, since the event source may not be made.
Connects(p) ==
  IF p.source.on \/ Away(p) THEN {p}
  ELSE {[p EXCEPT !.source = NewSource], ScheduleRetry([p EXCEPT !.streamFailed = TRUE])}

ConnectsAndReads(p) == {ScheduleRefresh(q) : q \in Connects(p)}

\* The stream is given up, by its error or by a missing heartbeat.
StreamBroken(p) ==
  ScheduleRefresh(ScheduleRetry(
    [CloseStream(p) EXCEPT !.streamFailed = TRUE, !.needsSync = TRUE]))

\* recover() past its debounce: it starts over when forced, or the stream is
\* closed or stale; else it reads again, unless nothing is due and the last
\* success is recent.
Recovers(p, force) ==
  LET q == [p EXCEPT !.retryTimer = FALSE]
      r == [q EXCEPT !.needsSync = TRUE]
  IN IF Away(p) THEN {p}
     ELSE ConnectsAndReads(CloseStream(CancelRead(r))) \cup
          IF force \/ ~StreamOpen(p) THEN {}
          ELSE ConnectsAndReads(r) \cup
               IF p.needsSync \/ p.dirty \/ p.readError \/ ~p.succeeded THEN {} ELSE {q}

Suspend(p) ==
  [CloseStream(CancelRead(p)) EXCEPT
    !.suspended = TRUE, !.dirty = TRUE, !.needsSync = TRUE,
    !.refreshTimer = FALSE, !.retryTimer = FALSE, !.watchTimer = FALSE]

\* A mutant of Finished: hints that came during the read are forgotten.
FaultFinished(p) ==
  LET q == [p EXCEPT !.succeeded = TRUE, !.readError = FALSE, !.needsSync = FALSE]
      r == IF StreamOpen(q) THEN [q EXCEPT !.streamFailed = FALSE, !.retryTimer = FALSE]
           ELSE ScheduleRetry(q)
  IN CancelRead(r)

\* The end of a read that was applied, with a new one for what came meanwhile,
\* and of one that failed or timed out.
Finished(p) ==
  LET q == [p EXCEPT !.succeeded = TRUE, !.readError = FALSE, !.needsSync = FALSE]
      r == IF StreamOpen(q) THEN [q EXCEPT !.streamFailed = FALSE, !.retryTimer = FALSE]
           ELSE ScheduleRetry(q)
  IN IF r.dirty THEN ScheduleRefresh(CancelRead(r)) ELSE CancelRead(r)

ReadFailed(p) == CancelRead(ScheduleRetry([p EXCEPT !.readError = TRUE, !.needsSync = TRUE]))

-----------------------------------------------------------------------------
NewPage(hidden) ==
  [hidden |-> hidden, destroyed |-> FALSE, suspended |-> hidden, dirty |-> FALSE,
   source |-> NoSource, active |-> NoRead, succeeded |-> FALSE, streamFailed |-> FALSE,
   needsSync |-> TRUE, readError |-> FALSE,
   refreshTimer |-> FALSE, retryTimer |-> FALSE, watchTimer |-> ~hidden]

SyncInit ==
  /\ version = 1
  /\ shown = 0
  /\ page \in UNION {ConnectsAndReads(NewPage(hidden)) : hidden \in BOOLEAN}

HandlesOne(pages) == page' \in pages /\ UNCHANGED <<version, shown>>
Handles(p) == HandlesOne({p})

-----------------------------------------------------------------------------
(***************************************************************************)
(* The server and the network.  events() subscribes before it answers, and *)
(* every later change sends a hint.                                        *)
(***************************************************************************)
Change ==
  /\ version < MaxVersions
  /\ version' = version + 1
  /\ page' = IF page.source.on /\ page.source.feed = "up"
             THEN [page EXCEPT !.source.hint = TRUE] ELSE page
  /\ UNCHANGED shown

Feed ==
  /\ page.source.on /\ page.source.feed = "none"
  /\ Handles([page EXCEPT !.source.feed = "up", !.source.since = version])

\* The stream breaks and the browser does not notice.
LoseFeed ==
  /\ page.source.on /\ page.source.feed = "up"
  /\ Handles([page EXCEPT !.source.feed = "lost", !.source.hint = FALSE,
                            !.source.news = FALSE])

Answer ==
  /\ page.active.at = "asked"
  /\ Handles([page EXCEPT !.active = [at |-> "answered", value |-> version]])

-----------------------------------------------------------------------------
(***************************************************************************)
(* The handlers.                                                           *)
(***************************************************************************)
\* A mutant of StreamOpens: the read under way is not cancelled.
FaultStreamOpens ==
  /\ page.source.on /\ ~page.source.open /\ page.source.feed = "up"
  /\ Handles(ScheduleRefresh(
       [page EXCEPT !.source.open = TRUE, !.needsSync = TRUE, !.retryTimer = FALSE]))

StreamOpens ==
  /\ page.source.on /\ ~page.source.open /\ page.source.feed = "up"
  /\ Handles(ScheduleRefresh(CancelRead(
       [page EXCEPT !.source.open = TRUE, !.needsSync = TRUE, !.retryTimer = FALSE])))

StreamTells ==
  /\ StreamOpen(page) /\ page.source.hint
  /\ Handles(ScheduleRefresh([page EXCEPT !.source.hint = FALSE]))

StreamFails == page.source.on /\ Handles(StreamBroken(page))

RefreshFires ==
  /\ page.refreshTimer
  /\ Handles(RefreshNow([page EXCEPT !.refreshTimer = FALSE]))

RetryFires ==
  /\ page.retryTimer
  /\ HandlesOne(ConnectsAndReads([page EXCEPT !.retryTimer = FALSE]))

\* apply, which shows what was read.
Apply ==
  /\ page.active.at = "answered"
  /\ shown' = page.active.value
  /\ page' = [page EXCEPT !.active = [at |-> "applied"]]
  /\ UNCHANGED version

Applied == page.active.at = "applied" /\ Handles(Finished(page))

\* The read or its apply fails or exceeds its deadline.
RefreshFails == page.active # NoRead /\ Handles(ReadFailed(page))

\* watch(): after a sleep it recovers, which schedules the read that is due.
\* Otherwise it gives the stream up when heartbeats are missing, and reads again
\* what was not read for long.
Watch ==
  /\ page.watchTimer
  /\ \/ HandlesOne(Recovers(page, TRUE))
     \/ \E late, old \in BOOLEAN :
          LET p == IF late /\ page.source.on THEN StreamBroken(page) ELSE page
          IN Handles(IF (old \/ ~p.succeeded) /\ p.active = NoRead /\ ~p.retryTimer
                     THEN ScheduleRefresh(p) ELSE p)

Focus == ~page.suspended /\ HandlesOne(Recovers(page, FALSE))

\* The network is back, or the reader asks for a retry.
Online == ~page.suspended /\ HandlesOne(Recovers(page, TRUE))

Offline ==
  /\ ~page.suspended
  /\ Handles(ScheduleRetry([CloseStream(CancelRead(page)) EXCEPT
       !.streamFailed = TRUE, !.needsSync = TRUE]))

\* pageshow() on a page p in view, which recovers at once when it was suspended.
Resumes(p) ==
  HandlesOne(
    IF ~p.suspended THEN Recovers(p, FALSE)
    ELSE {[q EXCEPT !.watchTimer = TRUE] : q \in Recovers([p EXCEPT !.suspended = FALSE], TRUE)})

Show == page.hidden /\ Resumes([page EXCEPT !.hidden = FALSE])
PageShow == ~page.hidden /\ Resumes(page)

Hide == ~page.hidden /\ Handles(Suspend([page EXCEPT !.hidden = TRUE]))
PageHide == ~page.suspended /\ Handles(Suspend(page))

\* The host reads again, now or soon, or removes the conversation.
HostRefresh ==
  /\ ~page.suspended
  /\ Handles(RefreshNow(page)) \/ Handles(ScheduleRefresh(page))

Destroy == Handles(Suspend([page EXCEPT !.destroyed = TRUE]))

\* The steps, by what they mean for the rest of the page.
Appears == Show \/ PageShow
Disappears == Hide \/ PageHide \/ Destroy
Proceeds ==
  \/ Change \/ Feed \/ LoseFeed \/ Answer
  \/ StreamOpens \/ StreamTells \/ StreamFails
  \/ RefreshFires \/ RetryFires \/ Applied \/ RefreshFails \/ Watch
  \/ Focus \/ Online \/ Offline \/ HostRefresh

SyncNext == Apply \/ Proceeds \/ (~page.destroyed /\ (Appears \/ Disappears))

SyncSpec == SyncInit /\ [][SyncNext]_syncVars

-----------------------------------------------------------------------------
\* Nothing is under way and no timer but the watch is set.
AtRest(p) == ~p.refreshTimer /\ ~p.retryTimer /\ p.active = NoRead

\* publish() calls the page connected.
Connected(p) == ~p.readError /\ ~p.streamFailed /\ ~p.needsSync /\ StreamOpen(p)

\* A page in view has its watch set.  At rest it has a stream, and with every
\* message of a live stream delivered it shows the latest conversation,
\* whatever was cancelled, lost or hidden before.
TranscriptKeepsUp ==
  ~page.suspended =>
    /\ page.watchTimer
    /\ AtRest(page) =>
         /\ page.source.on
         /\ StreamOpen(page) /\ page.source.feed = "up" /\ ~page.source.hint => shown = version
    /\ Connected(page) => shown >= page.source.since
=============================================================================
