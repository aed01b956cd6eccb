------------------------------ MODULE Activity ------------------------------
(***************************************************************************)
(* The activity recorder for one thread (codex/activity_recording.go and   *)
(* codex/activity_store.go) and the reads that reconcile it with the       *)
(* server's history (ReadActivity in codex/activity.go, seedCurrent and    *)
(* snapshotContextCached in codex/activity_snapshot.go).                   *)
(*                                                                         *)
(* Messages of the App Server arrive on connections that come and go.  The *)
(* recorder turns them into working and waiting time of the running turn   *)
(* in memory; a writer copies that, without the lock, to a summary file    *)
(* per finished turn and then to the checkpoint; the process may crash     *)
(* between any two files.                                                  *)
(***************************************************************************)
EXTENDS ActivityRecord, FiniteSets, Sequences, TLC

CONSTANTS
  Turns,         \* 1..n, in the order they run
  Remarks,       \* messages about the running turn, other than its boundaries
  PendingLimit,  \* summaries the checkpoint may hold (activityPendingLimit)
  MaxTime,       \* bound on the clock
  MaxRemarks,    \* bound on remarks
  MaxConnections, MaxReads, MaxCrashes

VARIABLES
  clock,
  ran,         \* of a turn: when it started and ended, 0 for not yet
  reverted,    \* turns the history no longer has
  native,      \* the status the server reports: active, and its flags
  tools,       \* waits of the running turn in progress, of those in Waits
  slept,       \* the running turn has slept
  up,          \* the attached connection, 0 for none
  connections, \* connections so far
  resumed,     \* the connection on which the server has resumed the thread
  resuming,    \* that resume still has to be recorded
  inbox,       \* messages on their way: to the attached connection, or in the
               \* hands of the reader of one that is gone
  remarks,     \* remarks so far
  thread,      \* the recorder's entry: "none", "loading", "open", "closing" or
               \* "doomed", which is closing while it loads
  watchers, readers,
  live,        \* the observation, a set of at most one
  hot, durable, \* records in memory, and those known to be saved
  wake,        \* the writer has been signalled
  writer,      \* "idle", "writing", or "last" for the last write
  snapshot,    \* the records the writer is saving
  dirty,       \* signalled since the last snapshot that was saved
  broken,      \* loadError
  error,       \* lastError
  checkpoint, summaries, \* the files
  read,        \* the ReadActivity under way
  reads, crashes,
  shown,       \* of a turn: the sequence of the record last shown
  observed,    \* the time a connection was observed so far
  hollow       \* turns with a summary that was saved before any time was counted

server == <<ran, reverted, native, tools, slept>>
transport == <<up, connections, resumed, resuming, inbox, remarks>>
entry == <<thread, watchers, readers, broken>>
memory == <<entry, live, hot, durable, error>>
signal == <<wake, dirty>>
saver == <<writer, snapshot>>
files == <<checkpoint, summaries>>
reading == <<read, reads, shown>>
history == <<crashes, observed, hollow>>
vars == <<clock, server, transport, memory, signal, saver, files, reading, history>>

Nothing == [t \in {} |-> Blank]
Idle == [pc |-> "idle"]
Resting == [active |-> FALSE, flags |-> {}]

Init ==
  /\ clock = Second
  /\ ran = [t \in Turns |-> [start |-> 0, end |-> 0]]
  /\ reverted = {} /\ native = Resting /\ tools = {} /\ slept = FALSE
  /\ up = 0 /\ connections = 0 /\ resumed = 0 /\ resuming = FALSE /\ inbox = <<>> /\ remarks = 0
  /\ thread = "none" /\ watchers = 0 /\ readers = 0
  /\ live = {} /\ hot = Nothing /\ durable = Nothing
  /\ wake = FALSE /\ dirty = FALSE /\ error = FALSE /\ broken = FALSE
  /\ writer = "idle" /\ snapshot = Nothing
  /\ checkpoint = Nothing /\ summaries = Nothing
  /\ read = Idle /\ reads = 0 /\ crashes = 0
  /\ shown = [t \in Turns |-> 0]
  /\ observed = 0 /\ hollow = {}

-----------------------------------------------------------------------------
Put(f, t, r) == [u \in DOMAIN f \cup {t} |-> IF u = t THEN r ELSE f[u]]
Without(f, S) == [t \in DOMAIN f \ S |-> f[t]]
Get(f, t) == IF t \in DOMAIN f THEN f[t] ELSE Blank

\* observation: that of the connection, or a new one in its place.
Observation(c) ==
  IF \E o \in live : o.connection = c THEN CHOOSE o \in live : TRUE
  ELSE [connection |-> c, connected |-> FALSE, ready |-> FALSE, startObserved |-> FALSE,
        workObserved |-> FALSE, turn |-> 0, active |-> FALSE, flags |-> {}, requests |-> {},
        toolWaits |-> {}, state |-> "unclassified", through |-> clock, revision |-> 0,
        overflow |-> FALSE]

\* The time cannot be kept: too many summaries wait to be saved.
Refused(o, records) ==
  /\ o.connected /\ o.active /\ o.turn # 0 /\ o.state \in {"working", "waiting"}
  /\ o.turn \notin DOMAIN records
  /\ Cardinality(DOMAIN records) >= PendingLimit

\* accrue: the time since the last look belongs to the state it found.
Accrue(o, records, now) ==
  LET t == o.turn
      to == Later(now, o.through)
      from == Later(o.through, Get(records, t).started)
      counts == o.active /\ t # 0 /\ o.state \in {"working", "waiting"}
  IN IF ~o.connected THEN [live |-> o, hot |-> records]
     ELSE IF Refused(o, records)
     THEN [live |-> [o EXCEPT !.ready = FALSE, !.state = "unclassified", !.through = to],
           hot |-> records]
     ELSE [live |-> [o EXCEPT !.through = to],
           hot |-> IF counts /\ ~Get(records, t).final
                   THEN Put(records, t, IF to > from THEN Add(Get(records, t), o.state, from, to)
                                        ELSE Get(records, t))
                   ELSE records]

\* A mutant of UpdateState: the time before is not left behind.
FaultUpdateState(o, now) == [o EXCEPT !.state = ActivityState(o)]

\* updateState
UpdateState(o, now) ==
  [o EXCEPT !.state = ActivityState(o), !.through = Later(@, now)]

-----------------------------------------------------------------------------
(***************************************************************************)
(* observe: one message of the server.                                     *)
(***************************************************************************)
\* The server's boundary is a better time than the arrival of the message.
Boundary(o, m) ==
  IF /\ m.kind = "started"
     /\ o.connected /\ o.ready /\ o.state = "idle"
     /\ m.at > 0 /\ m.at <= clock
  THEN Later(m.at, o.through)
  ELSE IF m.kind = "completed" /\ o.turn = m.turn /\ m.at > 0 /\ m.at < clock
  THEN Later(m.at, o.through)
  ELSE clock

\* A request is answered; with the last of its category goes the flag.
Resolve(o, answered) ==
  LET left == o.requests \ answered
      over == {q.category : q \in answered} \ {q.category : q \in left}
  IN [o EXCEPT !.requests = left,
               !.flags = @ \ {IF c = "userInput" THEN "waitingOnUserInput"
                              ELSE "waitingOnApproval" : c \in over}]

\* What the message says of the observation.
Note(o, m) ==
  CASE m.kind = "started" ->
         [o EXCEPT !.startObserved = TRUE, !.workObserved = FALSE, !.toolWaits = {},
                   !.turn = m.turn, !.active = TRUE, !.ready = TRUE]
    [] m.kind = "completed" ->
         [o EXCEPT !.active = IF o.turn = m.turn THEN FALSE ELSE @,
                   !.toolWaits = IF o.turn = m.turn THEN {} ELSE @,
                   !.requests = {q \in @ : q.turn # m.turn},
                   !.flags = {}]
    [] m.kind = "sleep" ->
         IF Cardinality(o.toolWaits) >= PendingLimit THEN [o EXCEPT !.overflow = TRUE]
         ELSE [o EXCEPT !.toolWaits = @ \cup {m.item}]
    [] m.kind = "wake" -> [o EXCEPT !.toolWaits = @ \ {m.item}]
    [] m.kind = "resolved" -> Resolve(o, {q \in o.requests : q.id = m.id})
    [] m.kind = "status" ->
         [o EXCEPT !.flags = m.flags,
                   !.workObserved = @ \/ (o.active /\ m.active),
                   !.ready = @ \/ (o.active /\ m.active)]
    [] m.kind = "ask" ->
         IF \E q \in o.requests : q.id = m.id THEN o
         ELSE IF Cardinality(o.requests) >= PendingLimit
         THEN [o EXCEPT !.ready = FALSE, !.overflow = TRUE]
         ELSE [o EXCEPT !.requests = @ \cup {[id |-> m.id, turn |-> m.turn,
                                              category |-> m.category, blocking |-> m.blocking]}]


\* What it says of the records.
Metadata(records, m) ==
  LET t == m.turn
      turn == [started |-> WholeSecond(ran[t].start),
               completed |-> IF m.kind = "completed" THEN m.at ELSE 0]
  IN IF \/ m.kind = "started" /\ (t \in DOMAIN records \/ Cardinality(DOMAIN records) < PendingLimit)
        \/ m.kind = "completed" /\ t \in DOMAIN records
     THEN Put(records, t, ApplyMetadata(Get(records, t), turn))
     ELSE records

\* signalLocked
Signal == wake' = TRUE /\ dirty' = TRUE

Observe(m, c) ==
  LET o == Observation(c)
      boundary == Boundary(o, m)
      before == Accrue(o, hot, boundary)
      noted == UpdateState([Note(before.live, m) EXCEPT !.revision = @ + 1], boundary)
      after == IF boundary < clock THEN Accrue(noted, Metadata(before.hot, m), clock)
               ELSE [live |-> noted, hot |-> Metadata(before.hot, m)]
  IN IF thread # "open" THEN UNCHANGED <<live, hot, error, signal>>
     ELSE IF m.kind \in {"sleep", "wake"} /\ (m.turn # o.turn \/ ~o.active)
     THEN live' = {o} /\ UNCHANGED <<hot, error, signal>>
     ELSE /\ live' = {after.live} /\ hot' = after.hot
          /\ error' = (error \/ Refused(o, hot) \/ (boundary < clock /\ Refused(noted, Metadata(before.hot, m))))
          /\ Signal

-----------------------------------------------------------------------------
(***************************************************************************)
(* The server, the connection, and the reader of its messages.             *)
(***************************************************************************)
Tick ==
  /\ clock < MaxTime
  /\ clock' = clock + 1
  /\ observed' = IF \E o \in live : o.connected THEN observed + 1 ELSE observed
  /\ UNCHANGED <<server, transport, memory, signal, saver, files, reading, crashes, hollow>>

Running == {t \in Turns : ran[t].start # 0 /\ ran[t].end = 0}
Subscribed == up # 0 /\ resumed = up

\* The server sends to a connection that has resumed the thread.
Send(m) ==
  IF Subscribed THEN Len(inbox) < 1 /\ inbox' = Append(inbox, [m |-> m, on |-> up])
  ELSE UNCHANGED inbox

TurnStarts(t) ==
  /\ Running = {} /\ ran[t].start = 0
  /\ \A u \in Turns : u < t => ran[u].end # 0
  /\ ran' = [ran EXCEPT ![t].start = clock]
  /\ native' = [Resting EXCEPT !.active = TRUE]
  /\ tools' = {} /\ slept' = FALSE
  /\ Send([kind |-> "started", turn |-> t, at |-> WholeSecond(clock)])
  /\ UNCHANGED <<clock, reverted, up, connections, resumed, resuming, remarks, memory, signal,
                 saver, files, reading, history>>

TurnEnds(t) ==
  /\ t \in Running
  /\ ran' = [ran EXCEPT ![t].end = clock]
  /\ native' = Resting
  /\ tools' = {} /\ slept' = FALSE
  /\ Send([kind |-> "completed", turn |-> t, at |-> WholeSecond(clock)])
  /\ UNCHANGED <<clock, reverted, up, connections, resumed, resuming, remarks, memory, signal,
                 saver, files, reading, history>>

\* Anything else the server says while a turn runs.
Remark(t, m) ==
  /\ t \in Running /\ Subscribed
  /\ remarks < MaxRemarks
  /\ m.kind = "wake" => m.item \in tools
  /\ remarks' = remarks + 1
  /\ native' = IF m.kind = "status" THEN [active |-> m.active, flags |-> m.flags] ELSE native
  /\ tools' = IF m.kind = "sleep" THEN tools \cup {m.item}
              ELSE IF m.kind = "wake" THEN tools \ {m.item} ELSE tools
  /\ slept' = (slept \/ (m.kind = "sleep" /\ m.item = "sleep"))
  /\ Send(m @@ [turn |-> t])
  /\ UNCHANGED <<clock, ran, reverted, up, connections, resumed, resuming, memory, signal, saver,
                 files, reading, history>>

\* The user rolls a finished turn back.
Revert(t) ==
  /\ ran[t].end # 0 /\ t \notin reverted
  /\ reverted' = reverted \cup {t}
  /\ UNCHANGED <<clock, ran, native, tools, slept, transport, memory, signal, saver, files, reading,
                 history>>

Dial ==
  /\ up = 0 /\ connections < MaxConnections
  /\ connections' = connections + 1
  /\ up' = connections + 1
  /\ UNCHANGED <<clock, server, resumed, resuming, inbox, remarks, memory, signal, saver, files,
                 reading, history>>

\* disconnected: nothing is accrued for a connection that is lost.
Disconnected(c) ==
  IF \E o \in live : o.connection = c THEN live' = {} /\ Signal
  ELSE UNCHANGED <<live, signal>>

\* The reader of the lost connection may still have a message in hand.
Disconnect ==
  /\ up # 0
  /\ up' = 0
  /\ \E n \in 0..Len(inbox) : n <= 1 /\ inbox' = SubSeq(inbox, 1, n)
  /\ Disconnected(up)
  /\ UNCHANGED <<clock, server, connections, resumed, resuming, remarks, entry, hot, durable, error,
                 saver, files, reading, history>>

\* readLoop, for a thread that is watched.
Receive ==
  /\ inbox # <<>>
  /\ inbox' = Tail(inbox)
  /\ IF watchers > 0 THEN Observe(Head(inbox).m, Head(inbox).on)
     ELSE UNCHANGED <<live, hot, error, signal>>
  /\ UNCHANGED <<clock, server, up, connections, resumed, resuming, remarks, entry, durable, saver,
                 files, reading, history>>

-----------------------------------------------------------------------------
(***************************************************************************)
(* The entry of the thread: prepare, retain, release, retire and Close.    *)
(***************************************************************************)
\* prepare: the first to need the entry makes it, and its writer loads.
Prepare ==
  /\ thread = "none"
  /\ thread' = "loading"
  /\ UNCHANGED <<clock, server, transport, watchers, readers, broken, live, hot, durable, error,
                 signal, saver, files, reading, history>>

\* Records with a summary as new were finished before a crash.
Load ==
  /\ thread \in {"loading", "doomed"}
  /\ LET done == {t \in DOMAIN checkpoint \cap DOMAIN summaries :
                    summaries[t].sequence >= checkpoint[t].sequence}
     IN hot' = Without(checkpoint, done) /\ durable' = Without(checkpoint, done)
  /\ thread' = IF thread = "doomed" THEN "closing" ELSE "open"
  /\ UNCHANGED <<clock, server, transport, watchers, readers, broken, live, error, signal, saver,
                 files, reading, history>>

\* The checkpoint cannot be read: nothing is loaded, and nothing will be saved.
LoadFails ==
  /\ thread \in {"loading", "doomed"}
  /\ broken' = TRUE /\ error' = TRUE
  /\ thread' = IF thread = "doomed" THEN "closing" ELSE "open"
  /\ UNCHANGED <<clock, server, transport, watchers, readers, live, hot, durable, signal, saver,
                 files, reading, history>>

Watch ==
  /\ thread = "open" /\ watchers = 0
  /\ watchers' = 1
  /\ UNCHANGED <<clock, server, transport, thread, readers, broken, live, hot, durable, error,
                 signal, saver, files, reading, history>>

\* closeLocked: what is left is final.
CloseLocked ==
  /\ thread' = "closing"
  /\ hot' = [t \in DOMAIN hot |->
               IF hot[t].final THEN hot[t]
               ELSE [hot[t] EXCEPT !.final = TRUE, !.sequence = @ + 1]]
  /\ Signal

\* retire, for a caller who gave up before it retained.
Retire ==
  /\ watchers = 0 /\ readers = 0 /\ live = {}
  /\ \/ thread = "open" /\ CloseLocked
     \/ thread = "loading" /\ thread' = "doomed" /\ Signal /\ UNCHANGED hot
  /\ UNCHANGED <<clock, server, transport, watchers, readers, broken, live, durable, error, saver,
                 files, reading, history>>

\* resumeWatchedGeneration: the server resumes the thread, ...
ResumeWatch ==
  /\ watchers = 1 /\ up # 0 /\ resumed # up /\ ~resuming
  /\ resumed' = up /\ resuming' = TRUE
  /\ UNCHANGED <<clock, server, up, connections, inbox, remarks, memory, signal, saver, files,
                 reading, history>>

\* ... and coverage starts, if the connection is still there.
Connected ==
  /\ resuming
  /\ resuming' = FALSE
  /\ IF Subscribed /\ thread = "open"
     THEN /\ live' = {UpdateState([Observation(up) EXCEPT !.connected = TRUE], clock)}
          /\ Signal
     ELSE UNCHANGED <<live, signal>>
  /\ UNCHANGED <<clock, server, up, connections, resumed, inbox, remarks, entry, hot, durable, error,
                 saver, files, reading, history>>

\* removeWatch: disconnected, then release.
Unwatch ==
  /\ watchers = 1 /\ ~resuming
  /\ watchers' = 0
  /\ resumed' = 0
  /\ LET rest == {o \in live : o.connection # connections} IN
     /\ live' = rest
     /\ IF readers = 0 /\ rest = {} THEN CloseLocked
        ELSE /\ UNCHANGED <<thread, hot>>
             /\ IF rest # live THEN Signal ELSE UNCHANGED signal
  /\ UNCHANGED <<clock, server, up, connections, resuming, inbox, remarks, readers, broken, durable,
                 error, saver, files, reading, history>>

\* What the process held besides the entry.
Disappear ==
  /\ up' = 0 /\ inbox' = <<>> /\ resumed' = 0 /\ resuming' = FALSE
  /\ watchers' = 0 /\ readers' = 0
  /\ live' = {}
  /\ read' = Idle
  /\ UNCHANGED <<clock, server, connections, remarks, files, reads, shown, observed, hollow>>

\* Close: the last write is waited for.
Close ==
  /\ thread = "open"
  /\ CloseLocked
  /\ Disappear
  /\ UNCHANGED <<broken, durable, error, saver, crashes>>

Crash ==
  /\ thread # "none"
  /\ crashes < MaxCrashes
  /\ crashes' = crashes + 1
  /\ thread' = "none" /\ broken' = FALSE
  /\ hot' = Nothing /\ durable' = Nothing
  /\ wake' = FALSE /\ dirty' = FALSE /\ error' = FALSE
  /\ writer' = "idle" /\ snapshot' = Nothing
  /\ Disappear

-----------------------------------------------------------------------------
(***************************************************************************)
(* activityWriter and writeCheckpoint.                                     *)
(***************************************************************************)
Finals(f) == {t \in DOMAIN f : f[t].final}

\* A flush that waits will be served by this snapshot.
Snapshot ==
  /\ writer = "idle" /\ wake /\ thread \in {"open", "closing"}
  /\ wake' = FALSE /\ dirty' = FALSE
  /\ writer' = IF thread = "closing" THEN "last" ELSE "writing"
  /\ snapshot' = hot
  /\ read' = IF read.pc = "flush" /\ read.served = "no" THEN [read EXCEPT !.served = "soon"] ELSE read
  /\ UNCHANGED <<clock, server, transport, memory, files, reads, shown, history>>

\* The summaries of finished turns, unless a newer one is there.
Unsaved ==
  {t \in Finals(snapshot) :
     t \notin DOMAIN summaries
     \/ (summaries[t] # snapshot[t] /\ summaries[t].sequence <= snapshot[t].sequence)}

WriteSummary(t) ==
  /\ writer \in {"writing", "last"} /\ ~broken
  /\ t \in Unsaved
  /\ summaries' = Put(summaries, t, snapshot[t])
  /\ hollow' = IF snapshot[t].first = 0 THEN hollow \cup {t} ELSE hollow
  /\ UNCHANGED <<clock, server, transport, memory, signal, saver, checkpoint, reading, crashes,
                 observed>>

\* Afterwards: finished records leave memory, and a closing entry goes.
Finish(saved) ==
  /\ writer' = "idle" /\ snapshot' = Nothing
  /\ IF writer = "last"
     THEN /\ thread' = "none" /\ hot' = Nothing /\ durable' = Nothing
          /\ broken' = FALSE /\ error' = FALSE
          /\ wake' = FALSE /\ dirty' = FALSE
     ELSE /\ durable' = IF saved THEN Without(snapshot, Finals(snapshot)) ELSE durable
          /\ hot' = IF saved THEN Without(hot, {t \in Finals(snapshot) \cap DOMAIN hot :
                                                  hot[t] = snapshot[t]})
                    ELSE hot
          /\ error' = ~saved
          /\ dirty' = (dirty \/ ~saved)
          /\ UNCHANGED <<thread, broken, wake>>
  /\ read' = IF read.pc = "flush" /\ read.served = "soon"
             THEN [read EXCEPT !.served = IF saved THEN "yes" ELSE "no"] ELSE read
  /\ UNCHANGED <<clock, server, transport, watchers, readers, live, summaries, reads, shown, history>>

\* The checkpoint comes last, without the finished turns.
WriteCheckpoint ==
  /\ writer \in {"writing", "last"} /\ ~broken
  /\ Unsaved = {}
  /\ checkpoint' = Without(snapshot, Finals(snapshot))
  /\ Finish(TRUE)

WriteFails ==
  /\ writer \in {"writing", "last"}
  /\ UNCHANGED checkpoint
  /\ Finish(FALSE)

-----------------------------------------------------------------------------
(***************************************************************************)
(* ReadActivity.                                                           *)
(***************************************************************************)
\* retain, the revision of the observation, and the status of the thread.
BeginRead ==
  /\ read = Idle /\ reads < MaxReads
  /\ thread = "open"
  /\ readers' = 1
  /\ reads' = reads + 1
  /\ read' = [pc |-> "history", status |-> native,
              revision |-> IF live = {} THEN 0 ELSE (CHOOSE o \in live : TRUE).revision]
  /\ UNCHANGED <<clock, server, transport, thread, watchers, broken, live, hot, durable, error,
                 signal, saver, files, shown, history>>

\* The turns, the times of which are whole seconds, and the tool waits of the
\* one that is running.
ReadHistory ==
  /\ read.pc = "history"
  /\ LET had == {t \in Turns : ran[t].start # 0 /\ t \notin reverted} IN
     read' = [pc |-> "seed", status |-> read.status, revision |-> read.revision,
              turns |-> [t \in had |-> [started |-> WholeSecond(ran[t].start),
                                        completed |-> WholeSecond(ran[t].end)]],
              slept |-> slept, waits |-> tools \cap {"agents"}]
  /\ UNCHANGED <<clock, server, transport, memory, signal, saver, files, reads, shown, history>>

Latest(turns) == IF DOMAIN turns = {} THEN 0
                 ELSE CHOOSE t \in DOMAIN turns : \A u \in DOMAIN turns : u <= t

Seeded ==
  read' = [pc |-> "reconcile", status |-> read.status, revision |-> read.revision,
           turns |-> read.turns, slept |-> read.slept, waits |-> read.waits,
           now |-> clock, on |-> connections]

\* A mutant of Seed: the summary is added to a record that already holds it.
FaultSeed ==
  /\ read.pc = "seed"
  /\ LET t == Latest(read.turns) IN
     IF t \notin DOMAIN summaries \/ read.turns[t].completed # 0 THEN UNCHANGED hot
     ELSE hot' = Put(hot, t, Reopened(summaries[t], Get(hot, t)))
  /\ Seeded
  /\ UNCHANGED <<clock, server, transport, entry, live, durable, error, signal, saver, files, reads,
                 shown, history>>

\* seedCurrent takes up the saved summary of the turn that is running, if it
\* can be read.
Seed ==
  /\ read.pc = "seed"
  /\ LET t == Latest(read.turns)
         r == Get(hot, t)
     IN IF \/ t \notin DOMAIN summaries
           \/ read.turns[t].completed # 0
           \/ r.first > 0 /\ r.first <= summaries[t].through
           \/ t \notin DOMAIN hot /\ Cardinality(DOMAIN hot) >= PendingLimit
        THEN UNCHANGED hot
        ELSE UNCHANGED hot \/ hot' = Put(hot, t, Reopened(summaries[t], r))
  /\ Seeded
  /\ UNCHANGED <<clock, server, transport, entry, live, durable, error, signal, saver, files, reads,
                 shown, history>>

\* The observation as the history has it.
Reconciled(o) ==
  LET turns == read.turns
      t == Latest(turns)
      active == t # 0 /\ turns[t].completed = 0
      same == o.turn = t
      work == (o.workObserved /\ same) \/ (active /\ read.status.active)
      start == o.startObserved /\ same
  IN [o EXCEPT !.turn = t, !.active = active, !.flags = read.status.flags,
               !.startObserved = start, !.workObserved = work,
               !.toolWaits = IF ~active THEN {}
                             ELSE (IF same THEN @ \ {"agents"} ELSE {}) \cup read.waits,
               !.ready = ~active \/ ~read.slept \/ start \/ work,
               !.requests = {q \in @ : q.turn \notin DOMAIN turns \/ turns[q.turn].completed = 0}]

\* The records meet their boundaries; a turn that is no longer there is final.
ReconciledRecords(records, o) ==
  LET turns == read.turns
      met == [t \in DOMAIN records |->
                IF t \in DOMAIN turns THEN ApplyMetadata(records[t], turns[t])
                ELSE [records[t] EXCEPT !.final = TRUE, !.sequence = @ + 1]]
  IN IF /\ o.turn # 0
        /\ o.turn \in DOMAIN met \/ (o.active /\ Cardinality(DOMAIN met) < PendingLimit)
     THEN Put(met, o.turn, ApplyMetadata(Get(met, o.turn), turns[o.turn]))
     ELSE met

\* reconcile applies the history only if nothing was observed since.
ReconcileWith(o) ==
  LET end == IF o.turn \in DOMAIN read.turns THEN read.turns[o.turn].completed ELSE 0
      boundary == IF end > 0 /\ end < read.now THEN Later(end, o.through) ELSE read.now
      seen == Accrue(o, hot, boundary)
      fresh == o.revision = read.revision
      noted == IF fresh THEN Reconciled(seen.live) ELSE seen.live
  IN /\ live' = {UpdateState(noted, read.now)}
     /\ hot' = IF fresh THEN ReconciledRecords(seen.hot, noted) ELSE seen.hot
     /\ error' = (error \/ Refused(o, hot))
     /\ Signal

\* A mutant of Served: a flush does not wait for what was only signalled.
FaultServed(unsaved) == IF writer \in {"writing", "last"} THEN "soon" ELSE "yes"

\* What a flush finds of the revision it is to wait for.
Served(unsaved) == IF unsaved THEN "no"
                   ELSE IF writer \in {"writing", "last"} THEN "soon" ELSE "yes"

Reconcile ==
  /\ read.pc = "reconcile"
  /\ LET mine == {o \in live : o.connection = read.on /\ o.connected} IN
     /\ IF mine = {} THEN UNCHANGED <<live, hot, error, signal>>
        ELSE \A o \in mine : ReconcileWith(o)
     /\ read' = [pc |-> "flush", turns |-> read.turns, served |-> Served(dirty'),
                 want |-> [t \in IF mine = {} THEN {} ELSE DOMAIN hot' |-> hot'[t].sequence]]
  /\ UNCHANGED <<clock, server, transport, entry, durable, saver, files, reads, shown, history>>

\* release, of the reader.
ReleaseRead ==
  /\ read' = Idle
  /\ readers' = 0
  /\ IF watchers = 0 /\ live = {} THEN CloseLocked ELSE UNCHANGED <<thread, hot, signal>>
  /\ UNCHANGED <<clock, server, transport, watchers, broken, live, durable, error, saver, files,
                 reads, history>>

ReadFails ==
  /\ read.pc = "history"
  /\ ReleaseRead
  /\ UNCHANGED shown

\* A mutant of Used: a record is shown before it is saved.
FaultUsed(t) ==
  IF t \in DOMAIN summaries /\ (t \notin DOMAIN hot \/ summaries[t].sequence > hot[t].sequence)
  THEN summaries[t] ELSE Get(hot, t)

\* The record a snapshot uses of a turn: the newer of checkpoint and summary.
Used(t) ==
  IF t \in DOMAIN summaries /\ (t \notin DOMAIN durable \/ summaries[t].sequence > durable[t].sequence)
  THEN summaries[t] ELSE Get(durable, t)

\* flush returns when it is served, with the last error or with its context;
\* then snapshotContextCached, and the deferred release.
Show ==
  /\ read.pc = "flush"
  /\ shown' = [t \in Turns |-> IF t \in DOMAIN read.turns THEN Used(t).sequence ELSE shown[t]]
  /\ ReleaseRead

-----------------------------------------------------------------------------
Next ==
  \/ Tick \/ Dial \/ Disconnect \/ Receive
  \/ \E t \in Turns : TurnStarts(t) \/ TurnEnds(t) \/ Revert(t)
  \/ \E t \in Turns, m \in Remarks : Remark(t, m)
  \/ Prepare \/ Load \/ LoadFails \/ Watch \/ Retire \/ ResumeWatch \/ Connected \/ Unwatch
  \/ Close \/ Crash
  \/ Snapshot \/ WriteCheckpoint \/ WriteFails
  \/ \E t \in Turns : WriteSummary(t)
  \/ BeginRead \/ ReadHistory \/ Seed \/ Reconcile \/ ReadFails \/ Show

Spec == Init /\ [][Next]_vars

-----------------------------------------------------------------------------

\* No time is counted twice: what a record counts fits between its first and
\* its last moment, in memory and on disk, over reconnects, restarts and the
\* seeding of a saved summary.  Completed, a record that was seeded may keep
\* what the saved summary counted of the second it ended in.  The code doubts
\* this where it shows the record ("known > end-start").  Not so for a turn whose
\* summary was saved before any time was counted: FirstMS and ThroughMS of such
\* a summary are zero, and the comparison in seedCurrent cannot tell whether
\* the record in memory holds it already.
NoOvercount ==
  \A f \in {hot, durable, checkpoint, summaries} : \A t \in DOMAIN f :
    LET r == f[t] IN
    /\ \/ t \in hollow
       \/ r.working + r.waiting + r.first
            <= r.through + (IF r.completed = 0 THEN 0 ELSE Second - 1)
    /\ r.tailWork <= r.working /\ r.tailWait <= r.waiting
    /\ r.through <= clock

\* What a reader was shown of a turn is on disk in a version as new: writes
\* that fail, crashes between two files, and a checkpoint that cannot be read
\* take nothing back.
ShownSurvives ==
  \A t \in Turns : shown[t] <= Later(Get(checkpoint, t).sequence, Get(summaries, t).sequence)

\* A read sees its own reconciliation: when flush returns without an error, all
\* that was in memory after reconcile is on disk, whatever the writer was doing
\* when it was called.
FlushedIsSaved ==
  (read.pc = "flush" /\ read.served = "yes") =>
    \A t \in DOMAIN read.want :
      read.want[t] <= Later(Get(checkpoint, t).sequence, Get(summaries, t).sequence)

\* Only observed time is counted: no record holds more than the time during
\* which a connection was observed.  Time that passed while the connection was
\* down, or before its coverage began, stays unclassified.  The exception is
\* that of NoOvercount.
OnlyObserved ==
  \A f \in {hot, durable, summaries} : \A t \in DOMAIN f \ hollow :
    f[t].working + f[t].waiting <= observed
=============================================================================
