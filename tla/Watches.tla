------------------------------ MODULE Watches ------------------------------
(***************************************************************************)
(* The subscription of a client to one thread (Subscribe, removeWatch,     *)
(* restoreWatched, resumeWatchedGeneration, unsubscribeThread and          *)
(* RefreshThreadSubscription in codex/client.go).  Watchers share it: the  *)
(* thread is resumed once per connection and left with the last of them.   *)
(* Every transition runs under the watch lock of the thread, which is held *)
(* across the request, while connections come and go and the server may    *)
(* close the thread.                                                       *)
(***************************************************************************)
EXTENDS Link

CONSTANTS
  Watchers,
  Application,     \* the caller of RefreshThreadSubscription
  Nobody,
  MaxCloses        \* bound on threads closed by the server

VARIABLES
  step,            \* of a task: what it is doing
  watched,         \* the watchers counted in c.watched
  watchedGeneration,
  watchLock,       \* the task that holds it
  seen,            \* the generation that task read under it, 0 for none
  watchError,      \* the notice of recordWatchError is shown
  subscribed,      \* the server sends the thread to the attached connection
  closedNote,      \* generations whose reader has a thread/closed in hand
  closes,          \* threads closed by the server so far
  dropped,         \* the server closed the thread after the last resume
  lapsed           \* an unsubscribe request got no answer in time

subscriptionVars == <<step, watched, watchedGeneration, watchLock, seen, watchError,
                      subscribed, closedNote, closes, dropped, lapsed>>
watchVars == <<linkVars, subscriptionVars>>

\* The goroutines: one per Subscribe, per restored connection and for the
\* application, and one for unsubscribeThread (a second one that waits for the
\* lock beside it finds the same state and does the same).
Restores == {<<"restore", g>> : g \in 1..MaxGenerations}
Leaver == <<"leave", 0>>
Tasks == Watchers \cup Restores \cup {Leaver, Application}

ASSUME WatchesAssumption ==
  /\ MaxGenerations \in Nat
  /\ Nobody \notin Tasks
  /\ Application \notin Watchers
  /\ (Watchers \cup {Application}) \cap (Restores \cup {Leaver}) = {}

WatchesInit ==
  /\ LinkInit
  /\ step = [t \in Tasks |-> "off"]
  /\ watched = {}
  /\ watchedGeneration = 0
  /\ watchLock = Nobody
  /\ seen = 0
  /\ watchError = FALSE
  /\ subscribed = FALSE
  /\ closedNote = {}
  /\ closes = 0
  /\ dropped = FALSE
  /\ lapsed = FALSE

Go(t, s) == step' = [step EXCEPT ![t] = s]
Unlock == watchLock' = Nobody /\ seen' = 0
Server == <<subscribed, closedNote, closes, dropped, lapsed>>

\* Where a task is once its resume is over, well or not.
Done(t) == IF t \in Watchers THEN "on" ELSE "off"
Failed(t) == IF t \in Watchers THEN "remove" ELSE "off"

-----------------------------------------------------------------------------
(***************************************************************************)
(* The link.  restoreWatched starts a goroutine for a watched thread.      *)
(***************************************************************************)
WatchConnect ==
  /\ Attach
  /\ UNCHANGED <<step, watched, watchedGeneration, watchLock, seen, watchError, Server>>

\* A mutant of Restore: watched threads are not resumed on the new connection.
FaultRestore ==
  /\ ready = 0
  /\ Publish
  /\ UNCHANGED <<step, watched, watchedGeneration, watchLock, seen, watchError, Server>>

Restore ==
  /\ ready = 0
  /\ Publish
  /\ step' = [step EXCEPT ![<<"restore", generation>>] = IF watched = {} THEN "off" ELSE "lock"]
  /\ UNCHANGED <<watched, watchedGeneration, watchLock, seen, watchError, Server>>

WatchLose ==
  /\ Detach
  /\ subscribed' = FALSE
  /\ UNCHANGED <<step, watched, watchedGeneration, watchLock, seen, watchError,
                 closedNote, closes, dropped, lapsed>>

-----------------------------------------------------------------------------
Subscribe(w) ==
  /\ step[w] = "off"
  /\ watched' = watched \cup {w}
  /\ Go(w, "ensure")
  /\ UNCHANGED <<linkVars, watchedGeneration, watchLock, seen, watchError, Server>>

\* RefreshThreadSubscription forgets the generation before it resumes.
Refresh ==
  /\ step[Application] = "off"
  /\ watchedGeneration' = 0
  /\ watched # {}
  /\ Go(Application, "ensure")
  /\ UNCHANGED <<linkVars, watched, watchLock, seen, watchError, Server>>

\* Ensure, which leaves a usable connection or fails.
Ensured(t) ==
  /\ step[t] = "ensure"
  /\ \/ ready # 0 /\ Go(t, "lock")
     \/ Go(t, Failed(t))
  /\ UNCHANGED <<linkVars, watched, watchedGeneration, watchLock, seen, watchError, Server>>

\* resumeWatchedGeneration takes the lock and looks whether there is work.
Acquire(t) ==
  /\ step[t] = "lock"
  /\ t # Leaver
  /\ watchLock = Nobody
  /\ IF watched = {} \/ watchedGeneration = generation
     THEN Go(t, Done(t)) /\ UNCHANGED <<watchLock, seen>>
     ELSE /\ Go(t, "resume")
          /\ watchLock' = t
          /\ seen' = generation
  /\ UNCHANGED <<linkVars, watched, watchedGeneration, watchError, Server>>

\* The server accepts thread/resume on the connection of the moment.
Resume(t) ==
  /\ step[t] = "resume"
  /\ ready # 0
  /\ subscribed' = TRUE
  /\ dropped' = FALSE
  /\ Go(t, "resumed")
  /\ UNCHANGED <<linkVars, watched, watchedGeneration, watchLock, seen, watchError,
                 closedNote, closes, lapsed>>

\* The request fails, before or after the server accepted it.
ResumeFails(t) ==
  /\ step[t] \in {"resume", "resumed"}
  /\ Unlock
  /\ Go(t, Failed(t))
  /\ watchError' = (watchError \/ t \in Restores)
  /\ UNCHANGED <<linkVars, watched, watchedGeneration, Server>>

\* A mutant of Record: the generation is not compared with the one resumed on.
FaultRecord(t) ==
  /\ step[t] = "resumed"
  /\ ~(subscribed /\ connection \in closedNote)
  /\ Unlock
  /\ Go(t, Done(t))
  /\ IF connection # 0 /\ ready = generation
     THEN /\ watchedGeneration' = IF watched = {} THEN watchedGeneration ELSE generation
          /\ watchError' = FALSE
     ELSE UNCHANGED <<watchedGeneration, watchError>>
  /\ UNCHANGED <<linkVars, watched, Server>>

\* The reply is in.  A thread/closed the server sent before it was read before
\* it; one sent after it may have been read already, too.
Record(t) ==
  /\ step[t] = "resumed"
  /\ ~(subscribed /\ connection \in closedNote)
  /\ Unlock
  /\ Go(t, Done(t))
  /\ IF connection # 0 /\ seen = generation /\ ready = generation
     THEN /\ watchedGeneration' = IF watched = {} THEN watchedGeneration ELSE generation
          /\ watchError' = FALSE
     ELSE UNCHANGED <<watchedGeneration, watchError>>
  /\ UNCHANGED <<linkVars, watched, Server>>

\* A watcher goes, or its Subscribe failed.
Unsubscribe(w) ==
  /\ step[w] = "on"
  /\ Go(w, "remove")
  /\ UNCHANGED <<linkVars, watched, watchedGeneration, watchLock, seen, watchError, Server>>

\* A mutant of RemoveWatch: the last watcher does not unsubscribe.
FaultRemoveWatch(w) ==
  /\ step[w] = "remove"
  /\ watchLock = Nobody
  /\ watched' = watched \ {w}
  /\ Go(w, "off")
  /\ watchedGeneration' = IF watched = {w} THEN 0 ELSE watchedGeneration
  /\ UNCHANGED <<linkVars, watchLock, seen, watchError, Server>>

\* removeWatch; the last watcher starts unsubscribeThread.
RemoveWatch(w) ==
  /\ step[w] = "remove"
  /\ watchLock = Nobody
  /\ watched' = watched \ {w}
  /\ IF watched = {w}
     THEN /\ step' = [step EXCEPT ![w] = "off", ![Leaver] = "lock"]
          /\ watchedGeneration' = 0
     ELSE Go(w, "off") /\ UNCHANGED watchedGeneration
  /\ UNCHANGED <<linkVars, watchLock, seen, watchError, Server>>

\* unsubscribeThread, unless somebody watches again.
AcquireToLeave(t) ==
  /\ step[t] = "lock"
  /\ t = Leaver
  /\ watchLock = Nobody
  /\ IF watched = {} THEN Go(t, "leave") /\ watchLock' = t
     ELSE Go(t, "off") /\ UNCHANGED watchLock
  /\ UNCHANGED <<linkVars, watched, watchedGeneration, seen, watchError, Server>>

\* The request ends: answered, refused for want of a connection, or late.
LeaveThread(t) ==
  /\ step[t] = "leave"
  /\ Unlock
  /\ Go(t, "off")
  /\ watchError' = FALSE
  /\ \/ ready # 0 /\ subscribed' = FALSE /\ UNCHANGED lapsed
     \/ ready = 0 /\ UNCHANGED <<subscribed, lapsed>>
     \/ ready # 0 /\ lapsed' = TRUE /\ UNCHANGED subscribed
  /\ UNCHANGED <<linkVars, watched, watchedGeneration, closedNote, closes, dropped>>

-----------------------------------------------------------------------------
\* The server closes the thread; the reader learns of it.
ThreadCloses ==
  /\ connection # 0 /\ subscribed
  /\ connection \notin closedNote
  /\ closes < MaxCloses
  /\ closes' = closes + 1
  /\ subscribed' = FALSE
  /\ dropped' = TRUE
  /\ closedNote' = closedNote \cup {connection}
  /\ UNCHANGED <<linkVars, step, watched, watchedGeneration, watchLock, seen, watchError, lapsed>>

ReadClosed(g) ==
  /\ g \in closedNote
  /\ closedNote' = closedNote \ {g}
  /\ watchedGeneration' = 0
  /\ UNCHANGED <<linkVars, step, watched, watchLock, seen, watchError, subscribed, closes,
                 dropped, lapsed>>

WatchesNext ==
  \/ WatchConnect \/ Restore \/ WatchLose \/ Refresh \/ ThreadCloses
  \/ \E w \in Watchers : Subscribe(w) \/ Unsubscribe(w) \/ RemoveWatch(w)
  \/ \E t \in Tasks :
       Ensured(t) \/ Acquire(t) \/ Resume(t) \/ ResumeFails(t) \/ Record(t)
       \/ AcquireToLeave(t) \/ LeaveThread(t)
  \/ \E g \in 1..MaxGenerations : ReadClosed(g)

WatchesSpec == WatchesInit /\ [][WatchesNext]_watchVars

-----------------------------------------------------------------------------
\* Every goroutine is between two transitions and the reader is idle.
Settled ==
  /\ \A t \in Tasks : step[t] \in {"off", "on"}
  /\ closedNote = {}
  /\ connection # 0 /\ ready = generation

\* A watched thread is subscribed once things settle, on whatever connection
\* they settle, unless the failure is shown or the server closed the thread
\* (client.go:1663-1697, 1736-1841).
WatchedIsSubscribed ==
  Settled /\ watched # {} => subscribed \/ watchError \/ dropped

\* A thread nobody watches is left, unless the server did not answer
\* (client.go:1699-1726, 1843-1858).
UnwatchedIsLeft == Settled /\ watched = {} => ~subscribed \/ lapsed

\* The recorded generation speaks of a thread that is watched, and of a
\* subscription the server granted on that connection: a record that outlives
\* its connection is never mistaken for one on the next (client.go:1788, 1819).
RecordIsTrue ==
  /\ watched = {} => watchedGeneration = 0
  /\ connection # 0 /\ watchedGeneration = connection => subscribed \/ dropped
=============================================================================
