------------------------------ MODULE Migration ------------------------------
(***************************************************************************)
(* The move of the submission ledger from schema-3 JSON files to SQLite    *)
(* (codex/submission_migration.go).  JSON clients keep the records in the  *)
(* primary file, taking over the legacy file when the primary is absent.   *)
(* The first SQLite clients lock both files, back them up, import one,     *)
(* replace both by fences, and only then mark the database ready.          *)
(*                                                                         *)
(* A file is its content: JSON records, a fence, or Missing; the digest of *)
(* a content is the content.  The checks of permissions, sizes and         *)
(* encodings refuse files that no client of this model writes, and are     *)
(* left out.                                                               *)
(***************************************************************************)
EXTENDS Naturals, Sequences

CONSTANTS
  Records,      \* submission records
  JsonClients,  \* processes that use the JSON ledger
  Databases,    \* processes that use the SQLite ledger
  LockOrder,    \* the two paths in the order of their names
  MaxReboots,   \* bound on restarts of the machine
  None

Paths == {"primary", "legacy"}

ASSUME MigrationAssumption ==
  /\ LockOrder \in {<<"primary", "legacy">>, <<"legacy", "primary">>}
  /\ MaxReboots \in Nat
  /\ JsonClients \cap Databases = {}
  /\ None \notin JsonClients \cup Databases

VARIABLES
  file,         \* content of the two JSON paths
  backups,      \* contents preserved beside the database
  db,           \* the database: schema version, phase, import journal, records
  lock,         \* holder of the advisory lock of a path
  pc,           \* where a client is
  todo,         \* paths a SQLite client has still to treat in its present stage
  volatile,     \* paths a restart of the machine removes (never changes)
  transitioned, \* a SQLite client has been started
  saved,        \* history: receipts of files that vanished but were backed up
  reboots, last

files == <<file, backups, db>>
clients == <<lock, pc, todo>>
vars == <<file, backups, db, lock, pc, todo, volatile, transitioned, saved,
          reboots, last>>

Clients == JsonClients \cup Databases
Json(set) == [kind |-> "json", records |-> set]
Contents == {Json(set) : set \in SUBSET Records}
Fence == [kind |-> "fence", records |-> {}]
Missing == [kind |-> "missing", records |-> {}]
Events == INSTANCE ReceiptStore WITH receipts <- saved

Journal ==
  {<<>>} \cup ((Contents \cup {Missing}) \X (Contents \cup {Missing}))

(***************************************************************************)
(* Initially no SQLite client has run.  A legacy file exists only beside a *)
(* primary file that survives restarts.                                    *)
(***************************************************************************)
Init ==
  /\ file \in [Paths -> Contents \cup {Missing}]
  /\ volatile \in {{}, {"primary"}, {"legacy"}}
  /\ "primary" \in volatile => file["legacy"] = Missing
  /\ backups = {}
  /\ db = [version |-> 0, phase |-> "", sources |-> <<>>, records |-> {}]
  /\ lock = [p \in Paths |-> None]
  /\ pc = [c \in Clients |-> "idle"]
  /\ todo = [d \in Databases |-> <<>>]
  /\ transitioned = FALSE
  /\ saved = {}
  /\ reboots = 0
  /\ last = Events!NoEvent

Release(c) == [p \in Paths |-> IF lock[p] = c THEN None ELSE lock[p]]

\* The import takes the primary file, or the legacy file when that is absent.
Chosen ==
  IF file["primary"] # Missing THEN file["primary"].records
                               ELSE file["legacy"].records

-----------------------------------------------------------------------------
(***************************************************************************)
(* JSON clients (loadQueueLedgerLockedContext, writeQueueLedgerLocked).    *)
(* The documentation asks for predecessor writers to be stopped before the *)
(* transition.  Without volatile files the locks and fences alone protect  *)
(* the records, so there the model lets them run on.                       *)
(***************************************************************************)
MayRun == ~transitioned \/ volatile = {}

JsonUnchanged == UNCHANGED <<backups, db, todo, volatile, transitioned, saved, reboots>>

JsonLock(c) ==
  /\ MayRun
  /\ pc[c] = "idle"
  /\ lock["primary"] = None
  /\ lock' = [lock EXCEPT !["primary"] = c]
  /\ pc' = [pc EXCEPT ![c] = "load"]
  /\ UNCHANGED <<file, last>> /\ JsonUnchanged

\* The file decodes as schema 3, or there is none and none to take over.
JsonLoad(c) ==
  /\ pc[c] = "load"
  /\ \/ file["primary"].kind = "json"
     \/ file["primary"] = Missing /\ file["legacy"] = Missing
  /\ pc' = [pc EXCEPT ![c] = "transact"]
  /\ UNCHANGED <<file, lock, last>> /\ JsonUnchanged

\* The legacy lock is taken for as long as its file is copied.
JsonAdopt(c) ==
  /\ pc[c] = "load"
  /\ file["primary"] = Missing
  /\ file["legacy"].kind = "json"
  /\ lock["legacy"] = None
  /\ file' = [file EXCEPT !["primary"] = file["legacy"]]
  /\ pc' = [pc EXCEPT ![c] = "transact"]
  /\ UNCHANGED <<lock, last>> /\ JsonUnchanged

\* A fence, an expired deadline or the end of the process releases the lock.
JsonFail(c) ==
  /\ pc[c] \in {"load", "transact"}
  /\ lock' = Release(c)
  /\ pc' = [pc EXCEPT ![c] = "idle"]
  /\ UNCHANGED <<file, last>> /\ JsonUnchanged

JsonTransact(c) ==
  /\ pc[c] = "transact"
  /\ \E r \in Records :
       \/ /\ file' = [file EXCEPT !["primary"] = Json(@.records \cup {r})]
          /\ last' = [does |-> "record", what |-> r]
       \/ /\ file' = [file EXCEPT !["primary"] = Json(@.records \ {r})]
          /\ last' = [does |-> "remove", what |-> r]
  /\ lock' = Release(c)
  /\ pc' = [pc EXCEPT ![c] = "idle"]
  /\ JsonUnchanged

-----------------------------------------------------------------------------
(***************************************************************************)
(* SQLite clients (openSubmissionDatabaseLocked and what it calls).        *)
(***************************************************************************)
OpenUnchanged == UNCHANGED <<volatile, saved, reboots, last>>

\* A version-0 database gets its tables in one transaction.
CreateSchema(d) ==
  /\ pc[d] = "idle"
  /\ db' = [db EXCEPT !.version = 1]
  /\ pc' = [pc EXCEPT ![d] = "lock"]
  /\ todo' = [todo EXCEPT ![d] = LockOrder]
  /\ transitioned' = TRUE
  /\ UNCHANGED <<file, backups, lock>> /\ OpenUnchanged

\* lockSubmissionPredecessors: in the order of the names.
LockPredecessor(d) ==
  /\ pc[d] = "lock"
  /\ todo[d] # <<>>
  /\ lock[Head(todo[d])] = None
  /\ lock' = [lock EXCEPT ![Head(todo[d])] = d]
  /\ todo' = [todo EXCEPT ![d] = Tail(@)]
  /\ UNCHANGED <<files, pc, transitioned>> /\ OpenUnchanged

\* A mutant of Enter: a database that is ready is opened as it is.
FaultEnter(d) ==
  /\ pc[d] = "lock"
  /\ todo[d] = <<>>
  /\ pc' = [pc EXCEPT ![d] = CASE db.phase = "" -> "backup"
                               [] db.phase = "imported" -> "fence"
                               [] db.phase = "ready" -> "open"]
  /\ todo' = [todo EXCEPT ![d] = <<"primary", "legacy">>]
  /\ UNCHANGED <<files, lock, transitioned>> /\ OpenUnchanged

\* The phase is read again under the locks.
Enter(d) ==
  /\ pc[d] = "lock"
  /\ todo[d] = <<>>
  /\ pc' = [pc EXCEPT ![d] = CASE db.phase = "" -> "backup"
                               [] db.phase = "imported" -> "fence"
                               [] db.phase = "ready" -> "verify"]
  /\ todo' = [todo EXCEPT ![d] = <<"primary", "legacy">>]
  /\ UNCHANGED <<files, lock, transitioned>> /\ OpenUnchanged

\* preserveSubmissionBackup: the name of a backup is the digest of its content.
Backup(d) ==
  /\ pc[d] = "backup"
  /\ todo[d] # <<>>
  /\ file[Head(todo[d])] # Fence
  /\ backups' = backups \cup ({file[Head(todo[d])]} \ {Missing})
  /\ todo' = [todo EXCEPT ![d] = Tail(@)]
  /\ UNCHANGED <<file, db, lock, pc, transitioned>> /\ OpenUnchanged

\* An empty import is refused while a backup says that there was a ledger.
MayImport == (\A p \in Paths : file[p] = Missing) => backups = {}

\* The records, the journal and the phase are committed together.
Import(d) ==
  /\ pc[d] = "backup"
  /\ todo[d] = <<>>
  /\ MayImport
  /\ db' = [db EXCEPT !.records = Chosen, !.phase = "imported",
                      !.sources = <<file["primary"], file["legacy"]>>]
  /\ pc' = [pc EXCEPT ![d] = "fence"]
  /\ todo' = [todo EXCEPT ![d] = <<"primary", "legacy">>]
  /\ UNCHANGED <<file, backups, lock, transitioned>> /\ OpenUnchanged

Source(p) == db.sources[IF p = "primary" THEN 1 ELSE 2]

\* A mutant of SourceUnchanged: a changed file is not compared with the journal.
FaultSourceUnchanged(p) == file[p] \in Contents \cup {Fence, Missing}

\* The file is a fence, or what was imported, or gone with a backup left.
SourceUnchanged(p) ==
  \/ file[p] = Fence
  \/ file[p] # Missing /\ file[p] = Source(p)
  \/ file[p] = Missing /\ Source(p) \in backups \cup {Missing}

PublishFence(d) ==
  /\ pc[d] = "fence"
  /\ todo[d] # <<>>
  /\ SourceUnchanged(Head(todo[d]))
  /\ file' = [file EXCEPT ![Head(todo[d])] = Fence]
  /\ todo' = [todo EXCEPT ![d] = Tail(@)]
  /\ UNCHANGED <<backups, db, lock, pc, transitioned>> /\ OpenUnchanged

MarkReady(d) ==
  /\ pc[d] = "fence"
  /\ todo[d] = <<>>
  /\ db' = [db EXCEPT !.phase = "ready"]
  /\ pc' = [pc EXCEPT ![d] = "open"]
  /\ lock' = Release(d)
  /\ UNCHANGED <<file, backups, todo, transitioned>> /\ OpenUnchanged

\* verifySubmissionFencesLocked: every present predecessor is checked first.
RestoreFence(d) ==
  /\ pc[d] = "verify"
  /\ todo[d] # <<>>
  /\ \A p \in Paths : file[p] \in {Fence, Missing}
  /\ file' = [file EXCEPT ![Head(todo[d])] = Fence]
  /\ todo' = [todo EXCEPT ![d] = Tail(@)]
  /\ UNCHANGED <<backups, db, lock, pc, transitioned>> /\ OpenUnchanged

Verified(d) ==
  /\ pc[d] = "verify"
  /\ todo[d] = <<>>
  /\ pc' = [pc EXCEPT ![d] = "open"]
  /\ lock' = Release(d)
  /\ UNCHANGED <<files, todo, transitioned>> /\ OpenUnchanged

\* A failed check, the deadline of ten seconds or the end of the process.
Abandon(d) ==
  /\ pc[d] # "idle"
  /\ pc' = [pc EXCEPT ![d] = "idle"]
  /\ lock' = Release(d)
  /\ todo' = [todo EXCEPT ![d] = <<>>]
  /\ UNCHANGED <<files, transitioned>> /\ OpenUnchanged

Transact(d) ==
  /\ pc[d] = "open"
  /\ \E r \in Records :
       \/ /\ db' = [db EXCEPT !.records = @ \cup {r}]
          /\ last' = [does |-> "record", what |-> r]
       \/ /\ db' = [db EXCEPT !.records = @ \ {r}]
          /\ last' = [does |-> "remove", what |-> r]
  /\ UNCHANGED <<file, backups, clients, volatile, transitioned, saved, reboots>>

-----------------------------------------------------------------------------
(***************************************************************************)
(* The records a client must still see.  The JSON files hold them until    *)
(* the primary path is fenced, or absent after an import.  When every file *)
(* vanished before an import, a backup holds them.                         *)
(***************************************************************************)
Vanished == db.phase = "" /\ \A p \in Paths : file[p] = Missing

Authority ==
  IF file["primary"].kind = "json" THEN file["primary"].records
  ELSE IF db.phase # "" THEN db.records
  ELSE IF Vanished THEN saved
  ELSE file["legacy"].records

\* The machine restarts: processes end, volatile files are gone.
Reboot ==
  /\ reboots < MaxReboots
  /\ reboots' = reboots + 1
  /\ file' = [p \in Paths |-> IF p \in volatile THEN Missing ELSE file[p]]
  /\ lock' = [p \in Paths |-> None]
  /\ pc' = [c \in Clients |-> "idle"]
  /\ todo' = [d \in Databases |-> <<>>]
  /\ LET gone == db.phase = "" /\ \A p \in Paths : file'[p] = Missing
         kept == Authority = {} \/ Json(Authority) \in backups
     IN  /\ saved' = IF gone /\ kept THEN Authority ELSE {}
         /\ last' = IF gone /\ ~kept THEN Events!Loss ELSE last
  /\ UNCHANGED <<backups, db, volatile, transitioned>>

\* The operator puts back the ledger whose backup remained.
RestorePredecessor ==
  /\ Vanished
  /\ Json(saved) \in backups
  /\ \A p \in Paths : lock[p] = None
  /\ file' = [file EXCEPT !["primary"] = Json(saved)]
  /\ UNCHANGED <<backups, db, clients, volatile, transitioned, saved, reboots, last>>

JsonNext(c) ==
  \/ JsonLock(c) \/ JsonLoad(c) \/ JsonAdopt(c) \/ JsonFail(c) \/ JsonTransact(c)

OpenStep(d) ==
  \/ LockPredecessor(d) \/ Enter(d) \/ Backup(d) \/ Import(d)
  \/ PublishFence(d) \/ MarkReady(d) \/ RestoreFence(d) \/ Verified(d)

DatabaseNext(d) == CreateSchema(d) \/ OpenStep(d) \/ Abandon(d) \/ Transact(d)

Next ==
  \/ \E c \in JsonClients : JsonNext(c)
  \/ \E d \in Databases : DatabaseNext(d)
  \/ Reboot
  \/ RestorePredecessor

Spec == Init /\ [][Next]_vars

(***************************************************************************)
(* Properties.                                                             *)
(***************************************************************************)
\* The values the files, the database and the clients can have.
MigrationTypeOK ==
  /\ file \in [Paths -> Contents \cup {Fence, Missing}]
  /\ backups \subseteq Contents
  /\ db \in [version : {0, 1}, phase : {"", "imported", "ready"},
             sources : Journal, records : SUBSET Records]
  /\ lock \in [Paths -> Clients \cup {None}]
  /\ pc \in [Clients -> {"idle", "load", "transact", "lock", "backup", "fence",
                         "verify", "open"}]
  /\ todo \in [Databases -> {<<>>, <<"legacy">>, <<"primary">>,
                             <<"primary", "legacy">>, <<"legacy", "primary">>}]
  /\ saved \in SUBSET Records

\* The whole life of the files and the database, with clients of both kinds,
\* interrupted openings and restarts, is one store of receipts: importing,
\* fencing, resuming, verifying and restoring never change what it holds.
Store == INSTANCE ReceiptStore WITH receipts <- Authority
KeepsReceipts == Store!StoreSpec

\* A database in use has its fences, over restarts that remove them: an older
\* process that starts, or was waiting for the lock, finds a fence and commits
\* nothing (writeSubmissionFence, verifySubmissionFencesLocked).
OpenIsFenced ==
  (\E d \in Databases : pc[d] = "open") => \A p \in Paths : file[p] = Fence
=============================================================================
