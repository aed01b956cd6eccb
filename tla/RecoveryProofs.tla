--------------------------- MODULE RecoveryProofs ---------------------------
(***************************************************************************)
(* Theorems about what outlives a restart and a connection.  Migration: no *)
(* receipt is lost and no fence passed, for every set of clients, records  *)
(* and restarts.  Watches: what is watched gets subscribed again, for      *)
(* every set of watchers and any number of connections and closed threads. *)
(***************************************************************************)
EXTENDS Migration, Watches, TLAPS

(***************************************************************************)
(* Migration.                                                              *)
(***************************************************************************)
Rest(s) == {p \in Paths : \E i \in 1..Len(s) : s[i] = p}
Volatile == {{}, {"primary"}, {"legacy"}}

(* Who is past a lock holds it.                                            *)
LocksHeld ==
  /\ \A c \in JsonClients : /\ pc[c] \in {"idle", "load", "transact"}
                            /\ pc[c] # "idle" => lock["primary"] = c
  /\ \A d \in Databases :
       /\ pc[d] \in {"idle", "lock", "backup", "fence", "verify", "open"}
       /\ pc[d] = "lock" => \A p \in Paths \ Rest(todo[d]) : lock[p] = d
       /\ pc[d] \in {"backup", "fence", "verify"} => \A p \in Paths : lock[p] = d

(* A client's stage agrees with the phase of the database, and what it has *)
(* treated is fenced.                                                      *)
Stages ==
  \A d \in Databases :
    /\ pc[d] = "backup" => db.phase = ""
    /\ pc[d] = "fence" => db.phase = "imported"
    /\ pc[d] \in {"verify", "open"} => db.phase = "ready"
    /\ pc[d] \in {"fence", "verify"} => \A p \in Paths \ Rest(todo[d]) : file[p] = Fence

(* A JSON client at work found no fence; beside volatile files it started  *)
(* before the import.                                                      *)
JsonSafe ==
  \A c \in JsonClients :
    /\ pc[c] # "idle" => saved = {} /\ (volatile = {} \/ db.phase = "")
    /\ pc[c] = "transact" => \/ file["primary"].kind = "json"
                             \/ file["primary"] = Missing /\ file["legacy"] = Missing

(* What the phase says of the files.                                       *)
Untouched ==
  db.phase = "" =>
    /\ \A p \in Paths : file[p] # Fence
    /\ "primary" \in volatile => file["legacy"] = Missing
Imported ==
  db.phase = "imported" =>
    /\ db.sources # <<>>
    /\ db.records = IF Source("primary") # Missing THEN Source("primary").records
                                                  ELSE Source("legacy").records
    /\ file["legacy"] \in {Source("legacy"), Fence, Missing}
    /\ volatile # {} => file["primary"] \in {Source("primary"), Fence, Missing}
    /\ volatile = {} => \A p \in Paths : file[p] = Missing => Source(p) = Missing
Ready ==
  db.phase = "ready" =>
    \A p \in Paths : file[p] \in {Fence, Missing} /\ (volatile = {} => file[p] = Fence)

(* Only a transition makes backups, and only they keep what vanished.      *)
Kept ==
  /\ db.phase # "" \/ backups # {} \/ (\E d \in Databases : pc[d] # "idle") => transitioned = TRUE
  /\ saved # {} => Json(saved) \in backups /\ volatile # {}

MigrationInv ==
  /\ MigrationTypeOK /\ volatile \in Volatile
  /\ LocksHeld /\ Stages /\ JsonSafe /\ Untouched /\ Imported /\ Ready /\ Kept
  /\ OpenIsFenced

-----------------------------------------------------------------------------
(* Records, fences and absent files are told apart.                        *)
LEMMA ContentFacts ==
  /\ \A x \in Contents : /\ x.kind = "json" /\ x # Fence /\ x # Missing
                         /\ x.records \in SUBSET Records /\ x = Json(x.records)
  /\ \A set \in SUBSET Records : Json(set) \in Contents /\ Json(set).records = set
  /\ Fence # Missing /\ Fence.kind # "json" /\ Missing.kind # "json" /\ Missing.records = {}
BY DEF Contents, Json, Fence, Missing

Todos == {<<>>, <<"legacy">>, <<"primary">>, <<"primary", "legacy">>, <<"legacy", "primary">>}

(* The paths that are left are treated one by one.                         *)
LEMMA TodoFacts ==
  /\ \A s \in Todos : s # <<>> => /\ Head(s) \in Paths /\ Tail(s) \in Todos
                                  /\ \A p \in Paths : p \notin Rest(Tail(s)) => p = Head(s) \/ p \notin Rest(s)
  /\ \A p \in Paths : p \notin Rest(<<>>) /\ p \in Rest(<<"primary", "legacy">>) /\ p \in Rest(LockOrder)
  /\ LockOrder \in Todos /\ <<"primary", "legacy">> \in Todos /\ <<>> \in Todos
<1>1. \A s \in Todos : s # <<>> => /\ Head(s) \in Paths /\ Tail(s) \in Todos
                                   /\ \A p \in Paths : p \notin Rest(Tail(s)) => p = Head(s) \/ p \notin Rest(s)
  <2> SUFFICES ASSUME NEW s \in Todos, s # <<>>
               PROVE  /\ Head(s) \in Paths /\ Tail(s) \in Todos
                      /\ \A p \in Paths : p \notin Rest(Tail(s)) => p = Head(s) \/ p \notin Rest(s)
    OBVIOUS
  <2>1. CASE s = <<"legacy">>
    BY <2>1 DEF Todos, Paths, Rest
  <2>2. CASE s = <<"primary">>
    BY <2>2 DEF Todos, Paths, Rest
  <2>3. CASE s = <<"primary", "legacy">>
    BY <2>3 DEF Todos, Paths, Rest
  <2>4. CASE s = <<"legacy", "primary">>
    BY <2>4 DEF Todos, Paths, Rest
  <2> QED
    BY <2>1, <2>2, <2>3, <2>4 DEF Todos
<1>2. \A p \in Paths : p \notin Rest(<<>>) /\ p \in Rest(<<"primary", "legacy">>) /\ p \in Rest(<<"legacy", "primary">>)
  BY DEF Rest, Paths
<1> QED
  BY <1>1, <1>2, MigrationAssumption DEF Todos

Database == [version : {0, 1}, phase : {"", "imported", "ready"}, sources : Journal, records : SUBSET Records]
Points == {"idle", "load", "transact", "lock", "backup", "fence", "verify", "open"}
LockTypes == lock \in [Paths -> Clients \cup {None}]
PointTypes == pc \in [Clients -> Points] /\ todo \in [Databases -> Todos]
FileTypes ==
  /\ file \in [Paths -> Contents \cup {Fence, Missing}]
  /\ backups \subseteq Contents
  /\ db \in Database
  /\ saved \in SUBSET Records

(* The parts of the type invariant.                                        *)
LEMMA TypeParts == MigrationTypeOK <=> LockTypes /\ PointTypes /\ FileTypes
BY Zenon DEF MigrationTypeOK, LockTypes, PointTypes, FileTypes, Points, Todos, Database

(* They make it up after a step, too.                                      *)
LEMMA TypePartsNext == LockTypes' /\ PointTypes' /\ FileTypes' => MigrationTypeOK'
BY Zenon DEF MigrationTypeOK, LockTypes, PointTypes, FileTypes, Points, Todos, Database

(* A released lock is free and no other changes.                           *)
LEMMA Releases ==
  ASSUME LockTypes, NEW c \in Clients, lock' = Release(c)
  PROVE  /\ LockTypes'
         /\ \A p \in Paths : lock'[p] = IF lock[p] = c THEN None ELSE lock[p]
BY DEF LockTypes, Release

(* The fields of the database.                                             *)
LEMMA DatabaseFacts ==
  /\ \A x \in Database, s \in SUBSET Records :
       /\ [x EXCEPT !.version = 1] \in Database /\ [x EXCEPT !.phase = "ready"] \in Database
       /\ [x EXCEPT !.records = s] \in Database
       /\ x.records \in SUBSET Records /\ x.phase \in {"", "imported", "ready"}
<1> SUFFICES ASSUME NEW x \in Database, NEW s \in SUBSET Records
             PROVE  /\ [x EXCEPT !.version = 1] \in Database /\ [x EXCEPT !.phase = "ready"] \in Database
                    /\ [x EXCEPT !.records = s] \in Database
                    /\ x.records \in SUBSET Records /\ x.phase \in {"", "imported", "ready"}
  BY Zenon
<1>1. [x EXCEPT !.version = 1] \in Database
  BY Zenon DEF Database
<1>2. [x EXCEPT !.phase = "ready"] \in Database
  BY Zenon DEF Database
<1>3. [x EXCEPT !.records = s] \in Database
  BY Zenon DEF Database
<1> QED
  BY <1>1, <1>2, <1>3, Zenon DEF Database

Files == Untouched /\ Imported /\ Ready

(* Nothing is said of clients in Files.                                    *)
LEMMA SameFiles ==
  ASSUME Files, UNCHANGED <<file, volatile, db>>
  PROVE  Files'
BY Zenon DEF Files, Untouched, Imported, Ready, Source

-----------------------------------------------------------------------------
(***************************************************************************)
(* JSON clients.                                                           *)
(***************************************************************************)
(* A JSON client that holds the lock excludes the stages of an opening.    *)
LEMMA JsonExcludes ==
  ASSUME MigrationInv, NEW c \in JsonClients, pc[c] # "idle"
  PROVE  /\ lock["primary"] = c /\ c \in Clients /\ c \notin Databases /\ c # None
         /\ \A d \in Databases : pc[d] \notin {"backup", "fence", "verify"}
         /\ \A e \in JsonClients : e # c => pc[e] = "idle"
BY MigrationAssumption DEF MigrationInv, LocksHeld, Clients, Paths

(* A step of a JSON client that leaves the files alone.                    *)
LEMMA JsonMoves ==
  ASSUME MigrationInv, NEW c \in JsonClients, JsonLock(c) \/ JsonLoad(c) \/ JsonFail(c)
  PROVE  MigrationInv'
<1> USE MigrationAssumption
<1>1. /\ \A e \in Clients : e # c => pc'[e] = pc[e]
      /\ pc'[c] \in {"idle", "load", "transact"}
      /\ UNCHANGED <<file, backups, db, todo, volatile, transitioned, saved>>
      /\ c \in Clients /\ c \notin Databases /\ \A d \in Databases : d \in Clients /\ d # c
      /\ \A e \in JsonClients : e \in Clients
  BY ZenonT(60) DEF MigrationInv, MigrationTypeOK, JsonLock, JsonLoad, JsonFail, JsonUnchanged, Clients
<1>2. /\ pc'[c] # "idle" => lock'["primary"] = c
      /\ \A p \in Paths : lock'[p] # lock[p] => lock[p] \in {None, c}
      /\ LockTypes'
  <2>1. LockTypes /\ PointTypes
    BY TypeParts DEF MigrationInv
  <2>2. CASE JsonLock(c)
    BY <1>1, <2>1, <2>2 DEF JsonLock, LockTypes, Paths
  <2>3. CASE JsonLoad(c)
    BY <1>1, <2>1, <2>3, Zenon DEF MigrationInv, LocksHeld, JsonLoad, LockTypes
  <2>4. CASE JsonFail(c)
    BY <1>1, <2>1, <2>4, Releases DEF JsonFail, PointTypes
  <2> QED
    BY <2>2, <2>3, <2>4
<1>3. MigrationTypeOK'
  <2>1. PointTypes'
    BY <1>1, TypeParts DEF MigrationInv, PointTypes, Points, JsonLock, JsonLoad, JsonFail
  <2>2. FileTypes'
    BY <1>1, TypeParts DEF MigrationInv, FileTypes
  <2> QED
    BY <1>2, <2>1, <2>2, TypePartsNext
<1>4. LocksHeld'
  BY <1>1, <1>2 DEF MigrationInv, LocksHeld, Paths
<1>5. Stages' /\ OpenIsFenced'
  BY <1>1, ZenonT(60) DEF MigrationInv, Stages, OpenIsFenced
<1>6. JsonSafe'
  <2>1. pc'[c] # "idle" => saved = {} /\ (volatile = {} \/ db.phase = "")
    BY <1>1, Zenon DEF MigrationInv, MigrationTypeOK, JsonSafe, JsonLock, JsonLoad, JsonFail, MayRun, Kept
  <2>2. pc'[c] = "transact" => \/ file["primary"].kind = "json"
                               \/ file["primary"] = Missing /\ file["legacy"] = Missing
    BY <1>1, Zenon DEF MigrationInv, MigrationTypeOK, JsonLock, JsonLoad, JsonFail
  <2> QED
    BY <1>1, <2>1, <2>2, Zenon DEF MigrationInv, JsonSafe
<1>7. Files' /\ Kept' /\ volatile' \in Volatile
  BY <1>1, SameFiles, Zenon DEF MigrationInv, Files, Kept
<1> QED
  BY <1>3, <1>4, <1>5, <1>6, <1>7 DEF MigrationInv, Files

(* A JSON client writes the primary file, which is no fence.               *)
LEMMA JsonWrites ==
  ASSUME MigrationInv, NEW c \in JsonClients, JsonAdopt(c) \/ JsonTransact(c)
  PROVE  MigrationInv'
<1> USE MigrationAssumption
<1>0. pc[c] # "idle" /\ pc[c] \in {"load", "transact"}
  BY DEF JsonAdopt, JsonTransact
<1>1. /\ \A e \in Clients : e # c => pc'[e] = pc[e]
      /\ pc'[c] \in {"idle", "transact"}
      /\ UNCHANGED <<backups, db, todo, volatile, transitioned, saved>>
      /\ \A d \in Databases : d \in Clients /\ d # c
      /\ \A e \in JsonClients : e \in Clients
  BY <1>0, JsonExcludes, ZenonT(60) DEF MigrationInv, MigrationTypeOK, JsonAdopt, JsonTransact, JsonUnchanged, Clients
<1>2. /\ file["primary"] # Fence
      /\ file'["legacy"] = file["legacy"] /\ file'["primary"] \in Contents
      /\ file' \in [Paths -> Contents \cup {Fence, Missing}]
  <2>1. CASE JsonAdopt(c)
    BY <2>1, ContentFacts, Zenon DEF MigrationInv, MigrationTypeOK, JsonAdopt, Paths, Fence, Missing
  <2>2. CASE JsonTransact(c)
    <3>1. file["primary"] # Fence /\ file["primary"].records \in SUBSET Records
      BY <2>2, ContentFacts, ZenonT(60) DEF MigrationInv, MigrationTypeOK, JsonSafe, JsonTransact, Paths
    <3>2. PICK r \in Records :
            \/ file' = [file EXCEPT !["primary"] = Json(@.records \cup {r})]
            \/ file' = [file EXCEPT !["primary"] = Json(@.records \ {r})]
      BY <2>2, Zenon DEF JsonTransact
    <3>3. Json(file["primary"].records \cup {r}) \in Contents /\ Json(file["primary"].records \ {r}) \in Contents
      BY <3>1, <3>2, ContentFacts
    <3>4. file \in [Paths -> Contents \cup {Fence, Missing}] /\ "primary" \in Paths /\ "legacy" \in Paths
      BY Zenon DEF MigrationInv, MigrationTypeOK, Paths
    <3>5. PICK x \in Contents : file' = [file EXCEPT !["primary"] = x]
      BY <3>2, <3>3
    <3> QED
      BY <3>1, <3>4, <3>5
  <2> QED
    BY <2>1, <2>2
<1>3. /\ pc'[c] # "idle" => lock'["primary"] = c
      /\ \A p \in Paths : lock'[p] # lock[p] => lock[p] = c
      /\ LockTypes'
  <2>1. LockTypes /\ PointTypes /\ c \in Clients
    BY TypeParts DEF MigrationInv, Clients
  <2>2. CASE JsonAdopt(c)
    BY <2>1, <2>2 DEF MigrationInv, LocksHeld, JsonAdopt, LockTypes
  <2>3. CASE JsonTransact(c)
    BY <2>1, <2>3, Releases, Zenon DEF JsonTransact, PointTypes
  <2> QED
    BY <2>2, <2>3
<1>4. MigrationTypeOK'
  <2>1. PointTypes'
    BY <1>1, TypeParts, Zenon DEF MigrationInv, PointTypes, Points, JsonAdopt, JsonTransact
  <2>2. FileTypes'
    BY <1>1, <1>2, TypeParts DEF MigrationInv, FileTypes
  <2> QED
    BY <1>3, <2>1, <2>2, TypePartsNext
<1>5. LocksHeld'
  BY <1>1, <1>3 DEF MigrationInv, LocksHeld, Paths
<1>6. Stages'
  BY <1>0, <1>1, JsonExcludes, ZenonT(60) DEF MigrationInv, Stages
<1>7. OpenIsFenced'
  BY <1>1, <1>2 DEF MigrationInv, OpenIsFenced, Paths
<1>8. JsonSafe'
  BY <1>0, <1>1, <1>2, JsonExcludes, ContentFacts, Zenon DEF MigrationInv, JsonSafe
<1>9. Files'
  <2>1. db.phase # "ready"
    BY <1>0, <1>2, ContentFacts, ZenonT(60) DEF MigrationInv, JsonSafe, Ready, Paths
  <2>2. Untouched'
    BY <1>1, <1>2, ContentFacts, Zenon DEF MigrationInv, Untouched, Paths
  <2>3. Imported'
    BY <1>0, <1>1, <1>2, ContentFacts DEF MigrationInv, JsonSafe, Imported, Source, Paths
  <2>4. Ready'
    BY <1>1, <2>1, Zenon DEF Ready
  <2> QED
    BY <2>2, <2>3, <2>4 DEF Files
<1>10. Kept' /\ volatile' \in Volatile
  BY <1>1, Zenon DEF MigrationInv, Kept
<1> QED
  BY <1>4, <1>5, <1>6, <1>7, <1>8, <1>9, <1>10 DEF MigrationInv, Files

-----------------------------------------------------------------------------
(***************************************************************************)
(* SQLite clients.                                                         *)
(***************************************************************************)
(* A SQLite client that holds both locks is alone.                         *)
LEMMA StageExcludes ==
  ASSUME MigrationInv, NEW d \in Databases, pc[d] \in {"backup", "fence", "verify"}
  PROVE  /\ \A c \in JsonClients : pc[c] = "idle"
         /\ \A e \in Databases : e # d => pc[e] \in {"idle", "lock", "open"}
BY MigrationAssumption DEF MigrationInv, LocksHeld, Paths

(* A step of a SQLite client that leaves files and database alone.         *)
LEMMA OpenMoves ==
  ASSUME MigrationInv, NEW d \in Databases,
         LockPredecessor(d) \/ Enter(d) \/ Verified(d) \/ Abandon(d)
  PROVE  MigrationInv'
<1> USE MigrationAssumption
<1>1. /\ \A e \in Clients : e # d => pc'[e] = pc[e]
      /\ \A e \in Databases : e # d => todo'[e] = todo[e]
      /\ UNCHANGED <<file, backups, db, volatile, transitioned, saved>>
      /\ d \in Clients /\ \A e \in Databases : e \in Clients
      /\ \A c \in JsonClients : c \in Clients /\ c # d
  BY ZenonT(60) DEF MigrationInv, MigrationTypeOK, LockPredecessor, Enter, Verified, Abandon, OpenUnchanged, files, Clients
<1>0. LockTypes /\ PointTypes /\ FileTypes /\ db.phase \in {"", "imported", "ready"}
  BY TypeParts, DatabaseFacts, Zenon DEF MigrationInv, FileTypes
<1>2. LockTypes' /\ \A p \in Paths : lock'[p] # lock[p] => lock[p] \in {None, d}
  <2>1. CASE LockPredecessor(d)
    <3>1. Head(todo[d]) \in Paths
      BY <1>0, <2>1, TodoFacts, Zenon DEF PointTypes, LockPredecessor
    <3> QED
      BY <1>0, <1>1, <2>1, <3>1, Zenon DEF LockPredecessor, LockTypes
  <2>2. CASE Enter(d)
    BY <1>0, <2>2, Zenon DEF Enter, LockTypes
  <2>3. CASE Verified(d) \/ Abandon(d)
    BY <1>0, <1>1, <2>3, Releases, ZenonT(60) DEF Verified, Abandon
  <2> QED
    BY <2>1, <2>2, <2>3
<1>3. MigrationTypeOK'
  <2>1. PointTypes'
    <3>1. CASE LockPredecessor(d)
      BY <1>0, <3>1, TodoFacts, Zenon DEF PointTypes, LockPredecessor
    <3>2. CASE Enter(d)
      <4>1. PICK x \in Points : pc' = [pc EXCEPT ![d] = x]
        BY <1>0, <3>2, Zenon DEF Points, Enter
      <4>2. todo' = [todo EXCEPT ![d] = <<"primary", "legacy">>] /\ <<"primary", "legacy">> \in Todos
        BY <3>2, Zenon DEF Enter, Todos
      <4> QED
        BY <1>0, <4>1, <4>2, Zenon DEF PointTypes
    <3>4. CASE Abandon(d)
      BY <1>0, <1>1, <3>4, TodoFacts, Zenon DEF PointTypes, Points, Abandon
    <3>3. CASE Verified(d)
      BY <1>0, <1>1, <3>3, Zenon DEF PointTypes, Points, Verified
    <3> QED
      BY <3>1, <3>2, <3>3, <3>4
  <2>2. FileTypes'
    BY <1>0, <1>1, Zenon DEF FileTypes
  <2> QED
    BY <1>2, <2>1, <2>2, TypePartsNext
<1>4. LocksHeld'
  <2>1. /\ pc'[d] \in {"idle", "lock", "backup", "fence", "verify", "open"}
        /\ pc'[d] = "lock" => \A p \in Paths \ Rest(todo'[d]) : lock'[p] = d
        /\ pc'[d] \in {"backup", "fence", "verify"} => \A p \in Paths : lock'[p] = d
    <3>1. CASE LockPredecessor(d)
      <4>1. pc'[d] = "lock" /\ todo[d] \in Todos /\ todo[d] # <<>> /\ todo'[d] = Tail(todo[d])
            /\ lock' = [lock EXCEPT ![Head(todo[d])] = d]
        BY <3>1, Zenon DEF MigrationInv, MigrationTypeOK, Todos, LockPredecessor
      <4>2. \A p \in Paths : p \notin Rest(Tail(todo[d])) => p = Head(todo[d]) \/ lock[p] = d
        BY <3>1, <4>1, TodoFacts DEF MigrationInv, LocksHeld, LockPredecessor
      <4> QED
        BY <4>1, <4>2, Zenon DEF MigrationInv, MigrationTypeOK
    <3>2. CASE Enter(d)
      <4>1. pc'[d] \in {"backup", "fence", "verify"}
        BY <1>0, <1>1, <3>2, Zenon DEF PointTypes, Enter
      <4>2. \A p \in Paths : lock[p] = d
        BY <3>2, TodoFacts, ZenonT(60) DEF MigrationInv, LocksHeld, Enter
      <4> QED
        BY <3>2, <4>1, <4>2, Zenon DEF Enter
    <3>3. CASE Verified(d) \/ Abandon(d)
      BY <1>1, <3>3, ZenonT(60) DEF MigrationInv, MigrationTypeOK, Verified, Abandon
    <3> QED
      BY <3>1, <3>2, <3>3, Zenon
  <2> QED
    BY <1>1, <1>2, <2>1 DEF MigrationInv, LocksHeld, Paths
<1>5. Stages'
  <2>1. /\ pc'[d] = "backup" => db.phase = ""
        /\ pc'[d] = "fence" => db.phase = "imported"
        /\ pc'[d] \in {"verify", "open"} => db.phase = "ready"
    BY <1>1, ZenonT(60) DEF MigrationInv, MigrationTypeOK, Stages, LockPredecessor, Enter, Verified, Abandon
  <2>2. pc'[d] \in {"fence", "verify"} => todo'[d] = <<"primary", "legacy">>
    BY <1>1, ZenonT(60) DEF MigrationInv, MigrationTypeOK, LockPredecessor, Enter, Verified, Abandon
  <2> QED
    BY <1>1, <2>1, <2>2, TodoFacts, ZenonT(60) DEF MigrationInv, Stages
<1>6. OpenIsFenced'
  <2>1. pc'[d] = "open" => \A p \in Paths : file[p] = Fence
    <3>1. CASE Verified(d)
      BY <3>1, TodoFacts, Zenon DEF MigrationInv, Stages, Verified
    <3>2. CASE LockPredecessor(d) \/ Enter(d) \/ Abandon(d)
      BY <1>0, <1>1, <3>2, Zenon DEF PointTypes, LockPredecessor, Enter, Abandon
    <3> QED
      BY <3>1, <3>2
  <2> QED
    BY <1>1, <2>1, Zenon DEF MigrationInv, OpenIsFenced
<1>7. JsonSafe'
  BY <1>1, ZenonT(60) DEF MigrationInv, JsonSafe
<1>8. pc[d] # "idle"
  BY Zenon DEF LockPredecessor, Enter, Verified, Abandon
<1>9. Files' /\ Kept' /\ volatile' \in Volatile
  BY <1>1, <1>8, SameFiles, Zenon DEF MigrationInv, Files, Kept
<1> QED
  BY <1>3, <1>4, <1>5, <1>6, <1>7, <1>9 DEF MigrationInv, Files

(* The tables are there; nothing else happens to the database.             *)
LEMMA SchemaKeeps ==
  ASSUME MigrationInv, NEW d \in Databases, CreateSchema(d)
  PROVE  MigrationInv'
<1> USE MigrationAssumption
<1>0. LockTypes /\ PointTypes /\ FileTypes
  BY TypeParts DEF MigrationInv
<1>1. /\ \A e \in Clients : e # d => pc'[e] = pc[e]
      /\ \A e \in Databases : e # d => todo'[e] = todo[e]
      /\ pc'[d] = "lock" /\ todo'[d] = LockOrder
      /\ UNCHANGED <<file, backups, lock, volatile, saved>> /\ transitioned' = TRUE
      /\ d \in Clients /\ \A e \in Databases : e \in Clients
      /\ \A c \in JsonClients : c \in Clients /\ c # d
  BY <1>0 DEF PointTypes, CreateSchema, OpenUnchanged, Clients
<1>2. /\ db' \in Database
      /\ db'.phase = db.phase /\ db'.sources = db.sources /\ db'.records = db.records
  <2>1. db \in Database /\ db' = [db EXCEPT !.version = 1]
    BY <1>0 DEF FileTypes, CreateSchema
  <2>2. db' \in Database
    BY <2>1, DatabaseFacts, Zenon
  <2> QED
    BY <2>1, <2>2, Zenon DEF Database
<1>3. MigrationTypeOK'
  <2>1. LockTypes' /\ FileTypes'
    BY <1>0, <1>1, <1>2, Zenon DEF LockTypes, FileTypes
  <2>2. PointTypes'
    BY <1>0, <1>1, TodoFacts DEF PointTypes, Points, CreateSchema
  <2> QED
    BY <2>1, <2>2, TypePartsNext
<1>4. LocksHeld'
  BY <1>1, TodoFacts, SMTT(60) DEF MigrationInv, LocksHeld
<1>5. Stages' /\ JsonSafe' /\ OpenIsFenced'
  BY <1>1, <1>2, ZenonT(60) DEF MigrationInv, Stages, JsonSafe, OpenIsFenced
<1>6. Untouched' /\ Imported' /\ Ready' /\ Kept' /\ volatile' \in Volatile
  BY <1>1, <1>2, ZenonT(60) DEF MigrationInv, Untouched, Imported, Ready, Source, Kept
<1> QED
  BY <1>3, <1>4, <1>5, <1>6 DEF MigrationInv

(* A backup is made, under both locks.                                     *)
LEMMA BackupKeeps ==
  ASSUME MigrationInv, NEW d \in Databases, Backup(d)
  PROVE  MigrationInv'
<1> USE MigrationAssumption
<1>0. LockTypes /\ PointTypes /\ FileTypes
  BY TypeParts DEF MigrationInv
<1>1. /\ \A e \in Databases : e # d => todo'[e] = todo[e]
      /\ pc[d] = "backup" /\ todo[d] # <<>> /\ todo[d] \in Todos /\ todo' = [todo EXCEPT ![d] = Tail(@)]
      /\ UNCHANGED <<file, db, lock, pc, volatile, saved, transitioned>>
      /\ backups \subseteq backups'
  BY <1>0 DEF PointTypes, Backup, OpenUnchanged
<1>2. backups' \subseteq Contents
  <2>1. file[Head(todo[d])] \in Contents \cup {Fence, Missing}
    BY <1>0, <1>1, TodoFacts, Zenon DEF FileTypes
  <2>2. file[Head(todo[d])] # Fence /\ backups' = backups \cup ({file[Head(todo[d])]} \ {Missing})
    BY DEF Backup
  <2> QED
    BY <1>0, <2>1, <2>2 DEF FileTypes
<1>3. MigrationTypeOK'
  <2>1. LockTypes' /\ FileTypes'
    BY <1>0, <1>1, <1>2 DEF LockTypes, FileTypes
  <2>2. PointTypes'
    BY <1>0, <1>1, TodoFacts, SMTT(60) DEF PointTypes
  <2> QED
    BY <2>1, <2>2, TypePartsNext
<1>4. LocksHeld' /\ Stages'
  BY <1>1, ZenonT(120) DEF MigrationInv, LocksHeld, Stages
<1>5. Files' /\ JsonSafe' /\ OpenIsFenced'
  BY <1>1, SameFiles, Zenon DEF MigrationInv, Files, JsonSafe, OpenIsFenced
<1>6. transitioned = TRUE
  BY <1>1, Zenon DEF MigrationInv, Kept
<1>7. Kept' /\ volatile' \in Volatile
  BY <1>1, <1>6 DEF MigrationInv, Kept
<1> QED
  BY <1>3, <1>4, <1>5, <1>7 DEF MigrationInv, Files

(* The import commits what the files say.                                  *)
LEMMA ImportKeeps ==
  ASSUME MigrationInv, NEW d \in Databases, Import(d)
  PROVE  MigrationInv'
<1> USE MigrationAssumption
<1>0. LockTypes /\ PointTypes /\ FileTypes
  BY TypeParts DEF MigrationInv
<1>1. /\ \A e \in Clients : e # d => pc'[e] = pc[e]
      /\ \A e \in Databases : e # d => todo'[e] = todo[e]
      /\ pc[d] = "backup" /\ pc'[d] = "fence" /\ todo'[d] = <<"primary", "legacy">>
      /\ UNCHANGED <<file, backups, lock, volatile, saved, transitioned>>
      /\ d \in Clients /\ \A e \in Databases : e \in Clients
      /\ \A c \in JsonClients : c \in Clients /\ c # d
  BY <1>0 DEF PointTypes, Import, OpenUnchanged, Clients
<1>2. \A p \in Paths : file[p] \in Contents \cup {Missing}
  BY <1>0, <1>1, ZenonT(60) DEF MigrationInv, FileTypes, Stages, Untouched
<1>3. /\ db'.phase = "imported" /\ db'.records = Chosen
      /\ db'.sources = <<file["primary"], file["legacy"]>> /\ db'.version = db.version
      /\ db' \in Database
  <2>1. <<file["primary"], file["legacy"]>> \in Journal
    BY <1>2 DEF Journal, Paths
  <2>2. Chosen \in SUBSET Records
    BY <1>2, ContentFacts DEF Chosen, Paths
  <2> QED
    BY <1>0, <2>1, <2>2, Zenon DEF FileTypes, Import, Database
<1>4. MigrationTypeOK'
  <2>1. LockTypes' /\ FileTypes'
    BY <1>0, <1>1, <1>3 DEF LockTypes, FileTypes
  <2>2. PointTypes'
    BY <1>0, <1>1, TodoFacts, SMTT(60) DEF PointTypes, Points, Import
  <2> QED
    BY <2>1, <2>2, TypePartsNext
<1>5. LocksHeld'
  BY <1>1, SMTT(60) DEF MigrationInv, LocksHeld
<1>6. Stages' /\ JsonSafe' /\ OpenIsFenced'
  <2>1. db.phase = ""
    BY <1>1, ZenonT(60) DEF MigrationInv, Stages
  <2>2. Stages'
    BY <1>1, <1>3, <2>1, StageExcludes, TodoFacts, ZenonT(60) DEF MigrationInv, Stages
  <2> QED
    BY <1>1, <2>2, StageExcludes, ZenonT(60) DEF MigrationInv, JsonSafe, OpenIsFenced
<1>7. Untouched' /\ Ready'
  BY <1>3 DEF Untouched, Ready
<1>8. Imported'
  <2>1. Source("primary")' = file["primary"] /\ Source("legacy")' = file["legacy"]
    BY <1>3 DEF Source
  <2>2. db'.sources # <<>>
    BY <1>3
  <2>3. db'.records = IF file["primary"] # Missing THEN file["primary"].records ELSE file["legacy"].records
    BY <1>3 DEF Chosen
  <2>4. \A p \in Paths : Source(p)' = file[p]
    BY <2>1 DEF Paths
  <2> QED
    BY <1>1, <2>1, <2>2, <2>3, <2>4 DEF Imported
<1>9. Kept' /\ volatile' \in Volatile
  <2>1. transitioned = TRUE
    BY <1>1, Zenon DEF MigrationInv, Kept
  <2> QED
    BY <1>1, <2>1, SMTT(60) DEF MigrationInv, Kept
<1> QED
  BY <1>4, <1>5, <1>6, <1>7, <1>8, <1>9, Zenon DEF MigrationInv

(* A file is replaced by a fence.                                          *)
LEMMA FenceKeeps ==
  ASSUME MigrationInv, NEW d \in Databases, PublishFence(d) \/ RestoreFence(d)
  PROVE  MigrationInv'
<1> USE MigrationAssumption
<1>0. LockTypes /\ PointTypes /\ FileTypes
  BY TypeParts DEF MigrationInv
<1>1. /\ \A e \in Databases : e # d => todo'[e] = todo[e]
      /\ pc[d] \in {"fence", "verify"} /\ todo[d] # <<>> /\ todo[d] \in Todos
      /\ Head(todo[d]) \in Paths /\ todo' = [todo EXCEPT ![d] = Tail(@)]
      /\ UNCHANGED <<backups, db, lock, pc, volatile, saved, transitioned>>
      /\ file' = [file EXCEPT ![Head(todo[d])] = Fence]
  BY <1>0, TodoFacts, ZenonT(60) DEF PointTypes, PublishFence, RestoreFence, OpenUnchanged
<1>2. \A p \in Paths : file'[p] = IF p = Head(todo[d]) THEN Fence ELSE file[p]
  BY <1>0, <1>1 DEF FileTypes
<1>3. MigrationTypeOK'
  <2>1. LockTypes' /\ FileTypes'
    BY <1>0, <1>1 DEF LockTypes, FileTypes
  <2>2. PointTypes'
    BY <1>0, <1>1, TodoFacts, SMTT(60) DEF PointTypes
  <2> QED
    BY <2>1, <2>2, TypePartsNext
<1>4. LocksHeld'
  BY <1>1, SMTT(60) DEF MigrationInv, LocksHeld
<1>5. Stages'
  <2>1. \A p \in Paths : p \notin Rest(Tail(todo[d])) => p = Head(todo[d]) \/ p \notin Rest(todo[d])
    BY <1>1, TodoFacts
  <2>2. \A p \in Paths \ Rest(todo'[d]) : file'[p] = Fence
    BY <1>0, <1>1, <1>2, <2>1, ZenonT(60) DEF MigrationInv, Stages, PointTypes
  <2>3. \A e \in Databases : pc[e] \in {"fence", "verify"} => e = d
    BY <1>1, StageExcludes
  <2> QED
    BY <1>1, <1>2, <2>2, <2>3, Zenon DEF MigrationInv, Stages
<1>6. OpenIsFenced' /\ JsonSafe'
  BY <1>1, <1>2, StageExcludes, ZenonT(60) DEF MigrationInv, OpenIsFenced, JsonSafe
<1>7. Files' /\ Kept' /\ volatile' \in Volatile
  <2>1. Untouched'
    BY <1>1, Zenon DEF MigrationInv, Stages, Untouched
  <2>2. Imported'
    BY <1>1, <1>2, ContentFacts, ZenonT(60) DEF MigrationInv, Imported, Source, Paths
  <2>3. Ready'
    BY <1>1, <1>2 DEF MigrationInv, Ready
  <2> QED
    BY <1>1, <2>1, <2>2, <2>3, Zenon DEF MigrationInv, Kept, Files
<1> QED
  BY <1>3, <1>4, <1>5, <1>6, <1>7 DEF MigrationInv, Files

(* Both files are fences: the database may be used.                        *)
LEMMA ReadyKeeps ==
  ASSUME MigrationInv, NEW d \in Databases, MarkReady(d)
  PROVE  MigrationInv'
<1> USE MigrationAssumption
<1>0. LockTypes /\ PointTypes /\ FileTypes
  BY TypeParts DEF MigrationInv
<1>1. /\ \A e \in Clients : e # d => pc'[e] = pc[e]
      /\ pc[d] = "fence" /\ pc'[d] = "open" /\ todo[d] = <<>>
      /\ UNCHANGED <<file, backups, todo, volatile, saved, transitioned>> /\ lock' = Release(d)
      /\ d \in Clients /\ \A e \in Databases : e \in Clients
      /\ \A c \in JsonClients : c \in Clients /\ c # d
  BY <1>0 DEF PointTypes, MarkReady, OpenUnchanged, Clients
<1>2. /\ db'.phase = "ready"
      /\ db' \in Database
  BY <1>0, DatabaseFacts, ZenonT(60) DEF FileTypes, MarkReady, Database
<1>3. LockTypes' /\ \A p \in Paths : lock'[p] = IF lock[p] = d THEN None ELSE lock[p]
  BY <1>0, <1>1, Releases, Zenon
<1>4. MigrationTypeOK'
  <2>1. FileTypes'
    BY <1>0, <1>1, <1>2, Zenon DEF FileTypes
  <2>2. PointTypes'
    BY <1>0, <1>1, SMTT(60) DEF PointTypes, Points, MarkReady
  <2> QED
    BY <1>3, <2>1, <2>2, TypePartsNext
<1>5. \A p \in Paths : file[p] = Fence
  BY <1>1, TodoFacts, ZenonT(60) DEF MigrationInv, Stages
<1>6. LocksHeld'
  BY <1>1, <1>3, SMTT(60) DEF MigrationInv, LocksHeld, Paths
<1>7. Stages' /\ JsonSafe' /\ OpenIsFenced'
  BY <1>1, <1>2, <1>5, StageExcludes, ZenonT(60) DEF MigrationInv, Stages, JsonSafe, OpenIsFenced
<1>8. Untouched' /\ Imported' /\ Ready'
  BY <1>1, <1>2, <1>5, Zenon DEF Untouched, Imported, Ready
<1>9. Kept' /\ volatile' \in Volatile
  BY <1>1, <1>2, Zenon DEF MigrationInv, Kept, Stages
<1> QED
  BY <1>4, <1>6, <1>7, <1>8, <1>9 DEF MigrationInv

(* A transaction changes the records of a database that is ready.          *)
LEMMA TransactKeeps ==
  ASSUME MigrationInv, NEW d \in Databases, Transact(d)
  PROVE  MigrationInv'
<1>0. LockTypes /\ PointTypes /\ FileTypes
  BY TypeParts DEF MigrationInv
<1>1. pc[d] = "open" /\ UNCHANGED <<file, backups, lock, pc, todo, volatile, transitioned, saved>>
  BY DEF Transact, clients
<1>2. /\ db'.phase = db.phase /\ db'.sources = db.sources /\ db.phase = "ready"
      /\ db' \in Database
  <2>1. PICK set \in SUBSET Records : db' = [db EXCEPT !.records = set]
    <3>1. PICK r \in Records : \/ db' = [db EXCEPT !.records = @ \cup {r}]
                              \/ db' = [db EXCEPT !.records = @ \ {r}]
      BY DEF Transact
    <3>2. db.records \in SUBSET Records
      BY <1>0, DatabaseFacts, Zenon DEF FileTypes
    <3> QED
      BY <3>1, <3>2
  <2>2. db \in Database /\ db' \in Database
    BY <1>0, <2>1, DatabaseFacts, Zenon DEF FileTypes
  <2> QED
    BY <1>1, <2>1, <2>2, Zenon DEF MigrationInv, Stages, Database
<1>3. MigrationTypeOK'
  BY <1>0, <1>1, <1>2, TypePartsNext, Zenon DEF LockTypes, PointTypes, FileTypes
<1>4. LocksHeld' /\ Stages' /\ JsonSafe' /\ OpenIsFenced'
  BY <1>1, <1>2, ZenonT(120) DEF MigrationInv, LocksHeld, Stages, JsonSafe, OpenIsFenced
<1>5. Untouched' /\ Imported' /\ Ready' /\ Kept' /\ volatile' \in Volatile
  BY <1>1, <1>2, Zenon DEF MigrationInv, Untouched, Imported, Ready, Kept
<1> QED
  BY <1>3, <1>4, <1>5 DEF MigrationInv

-----------------------------------------------------------------------------
(***************************************************************************)
(* Restarts.                                                               *)
(***************************************************************************)
(* What the authority is, before and after a step.                         *)
LEMMA AuthorityIs ==
  /\ file["primary"].kind = "json" => Authority = file["primary"].records
  /\ file["primary"].kind # "json" /\ db.phase # "" => Authority = db.records
  /\ file["primary"].kind # "json" /\ db.phase = "" /\ ~Vanished => Authority = file["legacy"].records
  /\ Vanished => Authority = saved
<1>1. file["primary"].kind = "json" => Authority = file["primary"].records
  BY SMTT(60) DEF Authority
<1>2. file["primary"].kind # "json" /\ db.phase # "" => Authority = db.records
  BY Zenon DEF Authority
<1>3. file["primary"].kind # "json" /\ db.phase = "" /\ ~Vanished => Authority = file["legacy"].records
  BY Zenon DEF Authority
<1>4. Vanished => file["primary"].kind # "json" /\ db.phase = ""
  BY ContentFacts, ZenonT(60) DEF Vanished, Paths
<1> QED
  BY <1>1, <1>2, <1>3, <1>4, ZenonT(60) DEF Authority

(* The same in the next state.                                             *)
LEMMA AuthorityBecomes ==
  /\ file'["primary"].kind = "json" => Authority' = file'["primary"].records
  /\ file'["primary"].kind # "json" /\ db'.phase # "" => Authority' = db'.records
  /\ file'["primary"].kind # "json" /\ db'.phase = "" /\ ~Vanished' => Authority' = file'["legacy"].records
  /\ Vanished' => Authority' = saved'
<1>1. file'["primary"].kind = "json" => Authority' = file'["primary"].records
  BY DEF Authority
<1>2. file'["primary"].kind # "json" /\ db'.phase # "" => Authority' = db'.records
  BY Zenon DEF Authority
<1>3. file'["primary"].kind # "json" /\ db'.phase = "" /\ ~Vanished' => Authority' = file'["legacy"].records
  BY Zenon DEF Authority
<1>4. Vanished' => file'["primary"].kind # "json" /\ db'.phase = ""
  BY ContentFacts, Zenon DEF Vanished, Paths
<1> QED
  BY <1>1, <1>2, <1>3, <1>4, Zenon DEF Authority

(* The authority is a set of records.                                      *)
LEMMA AuthorityType == MigrationInv => Authority \in SUBSET Records
<1> SUFFICES ASSUME MigrationInv PROVE Authority \in SUBSET Records
  OBVIOUS
<1>1. FileTypes /\ db.records \in SUBSET Records
  BY TypeParts, DatabaseFacts, Zenon DEF MigrationInv, FileTypes
<1>2. file["primary"].kind = "json" => file["primary"] \in Contents
  BY <1>1, ContentFacts, Zenon DEF FileTypes, Paths
<1>3. file["legacy"].records \in SUBSET Records
  BY <1>1, ContentFacts DEF FileTypes, Paths, Fence, Missing
<1> QED
  BY <1>1, <1>2, <1>3, AuthorityIs, ContentFacts, ZenonT(60) DEF FileTypes

(* The machine restarts.                                                   *)
LEMMA RebootKeeps ==
  ASSUME MigrationInv, Reboot
  PROVE  MigrationInv'
<1> USE MigrationAssumption
<1>0. LockTypes /\ PointTypes /\ FileTypes
  BY TypeParts DEF MigrationInv
<1>1. /\ \A p \in Paths : file'[p] = IF p \in volatile THEN Missing ELSE file[p]
      /\ \A c \in Clients : pc'[c] = "idle"
      /\ \A c \in JsonClients \cup Databases : c \in Clients
      /\ UNCHANGED <<backups, db, volatile, transitioned>>
  BY Zenon DEF Reboot, Clients
<1>2. saved' \in SUBSET Records /\ (saved' # {} => Json(saved') \in backups /\ volatile # {})
  <2> DEFINE gone == db.phase = "" /\ \A p \in Paths : file'[p] = Missing
  <2> DEFINE kept == Authority = {} \/ Json(Authority) \in backups
  <2>1. saved' = IF gone /\ kept THEN Authority ELSE {}
    BY Zenon DEF Reboot
  <2>2. gone /\ volatile = {} => Authority = saved
    BY <1>1, AuthorityIs, Zenon DEF Vanished
  <2> HIDE DEF gone
  <2> QED
    BY <1>0, <2>1, <2>2, AuthorityType, Zenon DEF MigrationInv, Kept
<1>3. MigrationTypeOK'
  <2>1. LockTypes' /\ PointTypes'
    BY TodoFacts, Zenon DEF Reboot, LockTypes, PointTypes, Points
  <2>2. FileTypes'
    BY <1>0, <1>1, <1>2, ZenonT(60) DEF FileTypes, Reboot
  <2> QED
    BY <2>1, <2>2, TypePartsNext
<1>4. LocksHeld' /\ Stages' /\ JsonSafe' /\ OpenIsFenced'
  BY <1>1, ZenonT(60) DEF LocksHeld, Stages, JsonSafe, OpenIsFenced
<1>5. Untouched'
  BY <1>1, ContentFacts, ZenonT(60) DEF MigrationInv, Untouched, Paths
<1>6. Imported'
  BY <1>1, Zenon DEF MigrationInv, Imported, Source, Paths
<1>7. Ready'
  BY <1>1 DEF MigrationInv, Ready
<1>8. Kept' /\ volatile' \in Volatile
  BY <1>1, <1>2, Zenon DEF MigrationInv, Kept
<1> QED
  BY <1>3, <1>4, <1>5, <1>6, <1>7, <1>8 DEF MigrationInv

(* A ledger that vanished is put back.                                     *)
LEMMA RestoredKeeps ==
  ASSUME MigrationInv, RestorePredecessor
  PROVE  MigrationInv'
<1> USE MigrationAssumption
<1>0. LockTypes /\ PointTypes /\ FileTypes
  BY TypeParts DEF MigrationInv
<1>1. /\ UNCHANGED <<backups, db, lock, pc, todo, volatile, transitioned, saved>>
      /\ file' = [file EXCEPT !["primary"] = Json(saved)] /\ Json(saved) \in Contents
      /\ db.phase = "" /\ \A p \in Paths : file[p] = Missing /\ lock[p] = None
  BY <1>0, ContentFacts, Zenon DEF RestorePredecessor, Vanished, clients, FileTypes
<1>2. /\ file' \in [Paths -> Contents \cup {Fence, Missing}]
      /\ file'["primary"] = Json(saved) /\ file'["legacy"] = Missing
  BY <1>0, <1>1, Zenon DEF FileTypes, Paths
<1>3. MigrationTypeOK'
  BY <1>0, <1>1, <1>2, TypePartsNext, ZenonT(60) DEF LockTypes, PointTypes, FileTypes
<1>4. LocksHeld'
  BY <1>1, ZenonT(60) DEF MigrationInv, LocksHeld
<1>5. Stages' /\ JsonSafe' /\ OpenIsFenced'
  BY <1>1, <1>2, ContentFacts, ZenonT(60) DEF MigrationInv, LocksHeld, Stages, JsonSafe, OpenIsFenced, Paths
<1>6. Files' /\ Kept' /\ volatile' \in Volatile
  BY <1>1, <1>2, ContentFacts, Zenon DEF MigrationInv, Untouched, Imported, Ready, Files, Kept, Paths
<1> QED
  BY <1>3, <1>4, <1>5, <1>6, SMTT(60) DEF MigrationInv, Files

(* The initial states satisfy the invariant.                               *)
LEMMA MigrationStart == Init => MigrationInv
<1> SUFFICES ASSUME Init PROVE MigrationInv
  OBVIOUS
<1> USE MigrationAssumption
<1>1. LockTypes /\ PointTypes
  BY TodoFacts, ZenonT(60) DEF Init, LockTypes, PointTypes, Points
<1>2. FileTypes
  BY ZenonT(60) DEF Init, FileTypes, Database, Journal
<1>3. LocksHeld /\ Stages /\ JsonSafe /\ OpenIsFenced
  BY ZenonT(60) DEF Init, LocksHeld, Stages, JsonSafe, OpenIsFenced, Clients
<1>4. Untouched /\ Imported /\ Ready /\ Kept
  BY ContentFacts, ZenonT(60) DEF Init, Untouched, Imported, Ready, Kept, Clients
<1> QED
  BY <1>1, <1>2, <1>3, <1>4, TypeParts, Zenon DEF MigrationInv, Init, Volatile

(* The invariant holds in every behaviour.                                 *)
LEMMA MigrationInvHolds == Spec => []MigrationInv
<1>1. MigrationInv /\ UNCHANGED vars => MigrationInv'
  <2> SUFFICES ASSUME MigrationInv, UNCHANGED vars PROVE MigrationInv'
    OBVIOUS
  <2>1. UNCHANGED <<file, backups, db, lock, pc, todo, volatile, transitioned, saved>>
    BY DEF vars
  <2>2. MigrationTypeOK'
    BY <2>1, ZenonT(60) DEF MigrationInv, MigrationTypeOK
  <2>3. LocksHeld'
    BY <2>1, ZenonT(60) DEF MigrationInv, LocksHeld
  <2>5. Stages'
    BY <2>1, ZenonT(60) DEF MigrationInv, Stages
  <2>4. JsonSafe' /\ OpenIsFenced' /\ Kept' /\ volatile' \in Volatile
    BY <2>1, Zenon DEF MigrationInv, JsonSafe, OpenIsFenced, Kept
  <2> QED
    BY <2>1, <2>2, <2>3, <2>4, <2>5, SameFiles DEF MigrationInv, Files
<1>2. MigrationInv /\ Next => MigrationInv'
  BY JsonMoves, JsonWrites, OpenMoves, SchemaKeeps, BackupKeeps, ImportKeeps, FenceKeeps, ReadyKeeps, TransactKeeps,
     RebootKeeps, RestoredKeeps, ZenonT(60) DEF Next, JsonNext, DatabaseNext, OpenStep
<1> QED
  BY <1>1, <1>2, MigrationStart, PTL DEF Spec

(* A database in use has both its fences (openSubmissionDatabaseLocked,    *)
(* verifySubmissionFencesLocked).                                          *)
THEOREM UsedMeansFenced == Spec => []OpenIsFenced
BY MigrationInvHolds, PTL DEF MigrationInv

-----------------------------------------------------------------------------
(***************************************************************************)
(* The files and the database implement one store of receipts.             *)
(***************************************************************************)
Same == UNCHANGED <<Authority, last>>
Stores(r) == \/ Authority' = Authority \cup {r} /\ last' = [does |-> "record", what |-> r]
             \/ Authority' = Authority \ {r} /\ last' = [does |-> "remove", what |-> r]

(* Steps of clients that neither commit nor fence.                         *)
LEMMA QuietSteps ==
  ASSUME MigrationInv,
         \/ \E c \in JsonClients : JsonLock(c) \/ JsonLoad(c) \/ JsonFail(c)
         \/ \E d \in Databases : \/ CreateSchema(d) \/ LockPredecessor(d) \/ Enter(d)
                                 \/ Backup(d) \/ Verified(d) \/ Abandon(d)
         \/ UNCHANGED vars
  PROVE  Same
<1>1. FileTypes
  BY TypeParts, SMTT(60) DEF MigrationInv
<1>2. UNCHANGED <<file, saved, last>> /\ db'.phase = db.phase /\ db'.records = db.records
  BY <1>1, ZenonT(60) DEF FileTypes, Database, JsonLock, JsonLoad, JsonFail, JsonUnchanged, CreateSchema, LockPredecessor, Enter,
              Backup, Verified, Abandon, OpenUnchanged, files, vars
<1>3. Vanished' <=> Vanished
  BY <1>2, Zenon DEF Vanished
<1> QED
  BY <1>2, <1>3, Zenon DEF Same, Authority

(* A JSON client takes over the legacy file.                               *)
LEMMA AdoptSame ==
  ASSUME MigrationInv, NEW c \in JsonClients, JsonAdopt(c)
  PROVE  Same
<1>1. /\ file["primary"] = Missing /\ file["legacy"] \in Contents /\ pc[c] # "idle"
      /\ file' = [file EXCEPT !["primary"] = file["legacy"]] /\ UNCHANGED <<db, last>>
  BY TypeParts, ContentFacts, Zenon DEF MigrationInv, FileTypes, JsonAdopt, JsonUnchanged, Paths, Fence, Missing
<1>2. Authority' = file["legacy"].records
  <2>1. file'["primary"] = file["legacy"]
    BY <1>1, TypeParts DEF MigrationInv, FileTypes, Paths
  <2> QED
    BY <1>1, <2>1, AuthorityBecomes, ContentFacts, Zenon
<1>3. CASE db.phase = ""
  <2>1. ~Vanished
    BY <1>1, ContentFacts, Zenon DEF Vanished, Paths
  <2> QED
    BY <1>1, <1>2, <1>3, <2>1, AuthorityIs, ContentFacts, Zenon DEF Same
<1>4. CASE db.phase # ""
  <2>1. volatile = {} /\ db.phase = "imported"
    <3>1. volatile = {}
      BY <1>1, <1>4, Zenon DEF MigrationInv, JsonSafe
    <3>2. db.phase # "ready"
      BY <1>1, <3>1, ContentFacts, SMTT(60) DEF MigrationInv, Ready, Paths
    <3> QED
      BY <1>4, <3>1, <3>2, TypeParts, DatabaseFacts, Zenon DEF MigrationInv, FileTypes
  <2>2. Source("primary") = Missing /\ file["legacy"] = Source("legacy")
    BY <1>1, <2>1, ContentFacts, Zenon DEF MigrationInv, Imported, Paths
  <2>3. Authority = db.records /\ db.records = file["legacy"].records
    BY <1>1, <1>4, <2>1, <2>2, AuthorityIs, ContentFacts, Zenon DEF MigrationInv, Imported
  <2> QED
    BY <1>1, <1>2, <2>3 DEF Same
<1> QED
  BY <1>3, <1>4, ZenonT(60)

(* A JSON client commits to the primary file.                              *)
LEMMA JsonCommits ==
  ASSUME MigrationInv, NEW c \in JsonClients, JsonTransact(c)
  PROVE  \E r \in Records : Stores(r)
<1>0. FileTypes /\ pc[c] = "transact" /\ db.phase \in {"", "imported", "ready"}
  BY TypeParts, DatabaseFacts, ZenonT(60) DEF MigrationInv, JsonTransact, FileTypes
<1>1. Authority = file["primary"].records /\ file["primary"].records \in SUBSET Records
  <2>1. CASE file["primary"].kind = "json"
    BY <1>0, <2>1, AuthorityIs, ContentFacts, Zenon DEF FileTypes, Paths
  <2>2. CASE file["primary"] = Missing /\ file["legacy"] = Missing
    <3>1. CASE db.phase = ""
      <4>1. Vanished /\ saved = {}
        BY <1>0, <2>2, <3>1, ZenonT(60) DEF MigrationInv, JsonSafe, Vanished, Paths
      <4> QED
        BY <2>2, <4>1, AuthorityIs, ContentFacts, ZenonT(60)
    <3>2. CASE db.phase # ""
      <4>1. volatile = {}
        BY <1>0, <3>2, ZenonT(60) DEF MigrationInv, JsonSafe
      <4>2. db.phase = "imported"
        BY <1>0, <2>2, <3>2, <4>1, ContentFacts, ZenonT(60) DEF MigrationInv, Ready, Paths
      <4>3. Source("primary") = Missing /\ Source("legacy") = Missing
        BY <2>2, <4>1, <4>2, Zenon DEF MigrationInv, Imported, Paths
      <4>4. db.records = {}
        BY <4>2, <4>3, ContentFacts, Zenon DEF MigrationInv, Imported
      <4> QED
        BY <2>2, <3>2, <4>4, AuthorityIs, ContentFacts, Zenon
    <3> QED
      BY <3>1, <3>2, ZenonT(60)
  <2> QED
    BY <1>0, <2>1, <2>2, ZenonT(60) DEF MigrationInv, JsonSafe
<1>2. PICK r \in Records :
        \/ /\ file' = [file EXCEPT !["primary"] = Json(@.records \cup {r})]
           /\ last' = [does |-> "record", what |-> r]
        \/ /\ file' = [file EXCEPT !["primary"] = Json(@.records \ {r})]
           /\ last' = [does |-> "remove", what |-> r]
  BY ZenonT(60) DEF JsonTransact
<1>3. ASSUME NEW set \in SUBSET Records, file' = [file EXCEPT !["primary"] = Json(set)]
      PROVE  Authority' = set
  <2>1. file'["primary"] = Json(set)
    BY <1>0, <1>3, Zenon DEF FileTypes, Paths
  <2> QED
    BY <2>1, AuthorityBecomes, ContentFacts, Zenon
<1>4. CASE file' = [file EXCEPT !["primary"] = Json(@.records \cup {r})] /\ last' = [does |-> "record", what |-> r]
  <2>1. Authority' = file["primary"].records \cup {r}
    <3>1. file' = [file EXCEPT !["primary"] = Json(file["primary"].records \cup {r})]
      BY <1>0, <1>4, Zenon DEF FileTypes, Paths
    <3>2. file["primary"].records \cup {r} \in SUBSET Records
      BY <1>1, Zenon
    <3> QED
      BY <1>3, <3>1, <3>2, Zenon
  <2> QED
    BY <1>1, <1>4, <2>1, Zenon DEF Stores
<1>5. CASE file' = [file EXCEPT !["primary"] = Json(@.records \ {r})] /\ last' = [does |-> "remove", what |-> r]
  <2>1. Authority' = file["primary"].records \ {r}
    <3>1. file' = [file EXCEPT !["primary"] = Json(file["primary"].records \ {r})]
      BY <1>0, <1>5, Zenon DEF FileTypes, Paths
    <3>2. file["primary"].records \ {r} \in SUBSET Records
      BY <1>1, Zenon
    <3> QED
      BY <1>3, <3>1, <3>2, ZenonT(60)
  <2> QED
    BY <1>1, <1>5, <2>1, Zenon DEF Stores
<1> QED
  BY <1>2, <1>4, <1>5, Zenon

(* The import, the fences and the ready mark change no receipt.            *)
LEMMA OpeningSame ==
  ASSUME MigrationInv, NEW d \in Databases, Import(d) \/ PublishFence(d) \/ RestoreFence(d) \/ MarkReady(d)
  PROVE  Same
<1>0. FileTypes /\ PointTypes
  BY TypeParts DEF MigrationInv
<1>1. CASE Import(d)
  <2>1. UNCHANGED <<file, backups, saved, last>> /\ db'.records = Chosen /\ db'.phase = "imported" /\ db.phase = ""
    BY <1>0, <1>1, Zenon DEF MigrationInv, Stages, FileTypes, Database, Import, OpenUnchanged
  <2>2. \A p \in Paths : file[p] \in Contents \cup {Missing}
    BY <1>0, <2>1, Zenon DEF MigrationInv, FileTypes, Untouched
  <2>3. CASE file["primary"] # Missing
    BY <2>1, <2>2, <2>3, AuthorityIs, AuthorityBecomes, ContentFacts, Zenon DEF Same, Paths
  <2>4. CASE file["primary"] = Missing
    <3>1. Authority' = file["legacy"].records
      BY <2>1, <2>4, AuthorityBecomes, ContentFacts, ZenonT(60) DEF Chosen
    <3>2. CASE Vanished
      <4>1. saved = {} /\ file["legacy"].records = {}
        BY <1>1, <3>2, ContentFacts, ZenonT(60) DEF MigrationInv, Kept, Import, MayImport, Vanished, Paths
      <4> QED
        BY <2>1, <3>1, <3>2, <4>1, AuthorityIs, Zenon DEF Same
    <3>3. CASE ~Vanished
      BY <2>1, <2>4, <3>1, <3>3, AuthorityIs, ContentFacts, ZenonT(60) DEF Same
    <3> QED
      BY <3>2, <3>3, SMTT(60)
  <2> QED
    BY <2>3, <2>4, Zenon
<1>2. CASE PublishFence(d) \/ RestoreFence(d)
  <2>1. /\ Head(todo[d]) \in Paths /\ file' = [file EXCEPT ![Head(todo[d])] = Fence]
        /\ UNCHANGED <<db, last>> /\ db.phase # ""
    BY <1>0, <1>2, TodoFacts, ZenonT(60) DEF MigrationInv, Stages, PointTypes, PublishFence, RestoreFence, OpenUnchanged
  <2>2. CASE file'["primary"] = file["primary"]
    BY <2>1, <2>2, AuthorityIs, AuthorityBecomes, ZenonT(60) DEF Same
  <2>3. CASE file'["primary"] # file["primary"]
    <3>1. Head(todo[d]) = "primary" /\ file'["primary"] = Fence
      BY <1>0, <2>1, <2>3, ZenonT(60) DEF FileTypes, Paths
    <3>2. Authority' = db.records
      BY <2>1, <3>1, AuthorityBecomes, ContentFacts, ZenonT(60)
    <3>3. CASE file["primary"].kind = "json"
      <4>1. file["primary"] \in Contents
        BY <1>0, <3>3, ContentFacts, Zenon DEF FileTypes, Paths
      <4>2. PublishFence(d)
        BY <1>2, <4>1, ContentFacts, Zenon DEF RestoreFence, Paths
      <4>3. db.phase = "imported" /\ file["primary"] = Source("primary")
        BY <3>1, <4>1, <4>2, ContentFacts, ZenonT(60) DEF MigrationInv, Stages, PublishFence, SourceUnchanged
      <4>4. db.records = file["primary"].records
        BY <4>1, <4>3, ContentFacts, ZenonT(60) DEF MigrationInv, Imported
      <4> QED
        BY <2>1, <3>2, <3>3, <4>4, AuthorityIs, ZenonT(60) DEF Same
    <3>4. CASE file["primary"].kind # "json"
      BY <2>1, <3>2, <3>4, AuthorityIs, ZenonT(60) DEF Same
    <3> QED
      BY <3>3, <3>4
  <2> QED
    BY <2>2, <2>3, Zenon
<1>3. CASE MarkReady(d)
  <2>1. UNCHANGED <<file, last>> /\ db'.records = db.records /\ db'.phase = "ready" /\ db.phase # ""
    BY <1>0, <1>3, ZenonT(60) DEF MigrationInv, Stages, FileTypes, Database, MarkReady, OpenUnchanged
  <2> QED
    BY <2>1, AuthorityIs, AuthorityBecomes, Zenon DEF Same
<1> QED
  BY <1>1, <1>2, <1>3

(* A SQLite client commits to the database, whose files are fences.        *)
LEMMA DatabaseCommits ==
  ASSUME MigrationInv, NEW d \in Databases, Transact(d)
  PROVE  \E r \in Records : Stores(r)
<1>1. file["primary"] = Fence /\ file' = file /\ db.phase = "ready" /\ db \in Database
  BY TypeParts, Zenon DEF MigrationInv, FileTypes, OpenIsFenced, Stages, Transact, Paths
<1>2. PICK r \in Records :
        \/ /\ db' = [db EXCEPT !.records = @ \cup {r}]
           /\ last' = [does |-> "record", what |-> r]
        \/ /\ db' = [db EXCEPT !.records = @ \ {r}]
           /\ last' = [does |-> "remove", what |-> r]
  BY DEF Transact
<1>3. /\ db'.phase = "ready"
      /\ \/ db'.records = db.records \cup {r} /\ last' = [does |-> "record", what |-> r]
         \/ db'.records = db.records \ {r} /\ last' = [does |-> "remove", what |-> r]
  BY <1>1, <1>2, ZenonT(60) DEF Database
<1>4. Authority = db.records /\ Authority' = db'.records
  BY <1>1, <1>3, AuthorityIs, AuthorityBecomes, ContentFacts, Zenon
<1> QED
  BY <1>3, <1>4, Zenon DEF Stores

(* A restart keeps the receipts, or is the loss of a file without backup.  *)
LEMMA RebootStores ==
  ASSUME MigrationInv, Reboot
  PROVE  Same \/ (Authority' \in SUBSET Authority /\ last' = Events!Loss)
<1> DEFINE gone == db.phase = "" /\ \A p \in Paths : file'[p] = Missing
<1> DEFINE kept == Authority = {} \/ Json(Authority) \in backups
<1>1. /\ saved' = IF gone /\ kept THEN Authority ELSE {}
      /\ last' = IF gone /\ ~kept THEN Events!Loss ELSE last
      /\ db' = db
  BY Zenon DEF Reboot
<1>2. gone <=> Vanished'
  BY <1>1, Zenon DEF Vanished
<1>3. \A p \in Paths : file'[p] = IF p \in volatile THEN Missing ELSE file[p]
  BY Zenon DEF Reboot
<1>4. FileTypes /\ db.phase \in {"", "imported", "ready"}
  BY TypeParts, DatabaseFacts, Zenon DEF MigrationInv, FileTypes
<1> HIDE DEF gone, kept
<1>5. CASE gone
  BY <1>1, <1>2, <1>5, AuthorityBecomes, Zenon DEF Same
<1>6. CASE ~gone
  <2>1. last' = last
    BY <1>1, <1>6
  <2>2. CASE db.phase = ""
    <3>1. file'["primary"] = file["primary"] /\ (file["primary"] = Missing => file'["legacy"] = file["legacy"])
      BY <1>1, <1>2, <1>3, <1>6, <2>2, Zenon DEF MigrationInv, Untouched, Vanished, Paths
    <3>2. file["primary"] \in Contents \cup {Missing}
      BY <1>4, <2>2, ZenonT(60) DEF MigrationInv, FileTypes, Untouched, Paths
    <3>3. CASE file["primary"] = Missing
      <4>1. ~Vanished /\ ~Vanished'
        BY <1>2, <1>6, <2>2, <3>1, <3>3, <1>1, ZenonT(60) DEF Vanished, Paths
      <4> QED
        BY <1>1, <2>1, <2>2, <3>1, <3>3, <4>1, AuthorityIs, AuthorityBecomes, ContentFacts, ZenonT(60) DEF Same
    <3>4. CASE file["primary"] \in Contents
      BY <2>1, <3>1, <3>4, AuthorityIs, AuthorityBecomes, ContentFacts, Zenon DEF Same
    <3> QED
      BY <3>2, <3>3, <3>4, SMTT(60)
  <2>3. CASE db.phase # ""
    <3>1. CASE file'["primary"] = file["primary"]
      BY <1>1, <2>1, <2>3, <3>1, AuthorityIs, AuthorityBecomes, ZenonT(60) DEF Same
    <3>2. CASE file'["primary"] # file["primary"]
      <4>1. file'["primary"] = Missing /\ volatile # {}
        BY <1>3, <3>2, SMTT(60) DEF Paths
      <4>2. file["primary"].kind = "json" => file["primary"].records = db.records
        BY <1>4, <2>3, <4>1, ContentFacts, ZenonT(60) DEF MigrationInv, Imported, Ready, Paths
      <4>3. Authority' = db.records
        BY <1>1, <2>3, <4>1, AuthorityBecomes, ContentFacts, ZenonT(60)
      <4> QED
        BY <2>1, <2>3, <4>2, <4>3, AuthorityIs, Zenon DEF Same
    <3> QED
      BY <3>1, <3>2, SMTT(60)
  <2> QED
    BY <2>2, <2>3, Zenon
<1> QED
  BY <1>5, <1>6, SMTT(60)

(* What is put back is what had vanished.                                  *)
LEMMA RestoredSame ==
  ASSUME MigrationInv, RestorePredecessor
  PROVE  Same
<1>1. Vanished /\ file'["primary"] = Json(saved) /\ saved \in SUBSET Records /\ last' = last
  BY TypeParts DEF MigrationInv, FileTypes, RestorePredecessor, Paths
<1> QED
  BY <1>1, AuthorityIs, AuthorityBecomes, ContentFacts, Zenon DEF Same

(* The files, fences, backups and the database together are one store of   *)
(* receipts: nothing is lost by the move (openSubmissionDatabaseLocked).   *)
THEOREM ImplementsStore == Spec => KeepsReceipts
<1>1. Init => Store!StoreInit
  BY MigrationStart, AuthorityType, ZenonT(60) DEF Init, Store!StoreInit, Events!NoEvent, Store!NoEvent
<1>2. MigrationInv /\ [Next]_vars => [Store!StoreNext]_(Store!storeVars)
  <2> SUFFICES ASSUME MigrationInv, [Next]_vars PROVE [Store!StoreNext]_(Store!storeVars)
    OBVIOUS
  <2>1. \/ Same \/ (\E r \in Records : Stores(r))
        \/ (Authority' \in SUBSET Authority /\ last' = Events!Loss)
    BY QuietSteps, AdoptSame, JsonCommits, OpeningSame, DatabaseCommits, RebootStores, RestoredSame, Zenon
       DEF Next, JsonNext, DatabaseNext, OpenStep
  <2> QED
    BY <2>1, Zenon DEF Same, Stores, Store!StoreNext, Store!storeVars, Store!Record, Store!Remove, Store!Lose,
                Store!Loss, Events!Loss
<1> QED
  BY <1>1, <1>2, MigrationInvHolds, PTL DEF Spec, KeepsReceipts, Store!StoreSpec

-----------------------------------------------------------------------------
(***************************************************************************)
(* Watches.                                                                *)
(***************************************************************************)
Steps == {"off", "ensure", "lock", "resume", "resumed", "on", "remove", "leave"}
Resuming(t) == step[t] \in {"resume", "resumed"}

(* The variables the argument is about keep to their values.               *)
Types ==
  /\ generation \in 0..MaxGenerations /\ connection \in {0, generation} /\ ready \in {0, connection}
  /\ step \in [Tasks -> Steps]
  /\ watched \subseteq Watchers
  /\ watchedGeneration \in 0..generation /\ seen \in 0..generation

(* A request runs under the lock, a resume for somebody who watches.  A    *)
(* watcher is counted from Subscribe to removeWatch.                       *)
LockHeld ==
  /\ \A t \in Tasks : Resuming(t) => watchLock = t /\ t # Leaver /\ watched # {}
  /\ \A t \in Tasks : step[t] = "leave" => t = Leaver /\ watchLock = Leaver
  /\ \A w \in Watchers : w \in watched <=> step[w] # "off"

(* A resume granted on the connection of its record took effect there, and *)
(* a subscription is one of a usable connection.                           *)
Granted ==
  /\ subscribed => ready # 0
  /\ \A t \in Tasks : step[t] = "resumed" /\ seen = generation /\ connection # 0 => subscribed \/ dropped

(* While the thread is being left nothing is recorded, and whoever watches *)
(* again has not come to the lock.                                         *)
LeavesAlone ==
  step[Leaver] = "leave" =>
    /\ watchedGeneration = 0
    /\ \A w \in watched : step[w] \in {"ensure", "lock", "remove"}

(* On a usable connection a watched thread is subscribed, or excused, or a *)
(* restoration of this connection is under way, or no watcher relies on    *)
(* the subscription yet.                                                   *)
AtWork(t) == step[t] = "lock" \/ (Resuming(t) /\ seen = generation)
Serving ==
  ready # 0 =>
    \/ subscribed \/ dropped \/ watchError
    \/ \E t \in Restores : AtWork(t)
    \/ \A w \in watched : AtWork(w) \/ step[w] \in {"ensure", "remove"}

(* A subscription nobody uses has somebody to end it.                      *)
Ending == watched = {} /\ subscribed => lapsed \/ step[Leaver] \in {"lock", "leave"}

WatchInv == Types /\ LockHeld /\ Granted /\ LeavesAlone /\ Serving /\ Ending /\ RecordIsTrue

-----------------------------------------------------------------------------
(* Restorations and the leaver are tasks, and the leaver is no other.      *)
LEMMA TaskFacts ==
  /\ Leaver \in Tasks /\ Application \in Tasks /\ Watchers \subseteq Tasks /\ Restores \subseteq Tasks
  /\ Leaver \notin Watchers /\ Leaver # Application /\ Leaver \notin Restores /\ Leaver # Nobody
  /\ \A w \in Watchers : w \notin Restores /\ w # Nobody
  /\ Application \notin Restores /\ Nobody \notin Tasks
BY WatchesAssumption, Zenon DEF Tasks, Restores, Leaver

(* The initial states satisfy the invariant.                               *)
LEMMA WatchStart == WatchesInit => WatchInv
BY WatchesAssumption, TaskFacts
   DEF WatchesInit, LinkInit, WatchInv, Types, Steps, LockHeld, Resuming, Granted, LeavesAlone, Serving, Ending, RecordIsTrue

(* A lost or replaced connection.                                          *)
LEMMA LinkKeeps == WatchInv /\ (WatchConnect \/ WatchLose \/ Restore) => WatchInv'
<1> USE WatchesAssumption, TaskFacts
<1>1. ASSUME WatchInv, WatchConnect PROVE WatchInv'
  <2>1. Types' /\ LockHeld'
    BY <1>1 DEF WatchInv, WatchConnect, Attach, Server, Types, LockHeld, Resuming
  <2>2. Granted' /\ LeavesAlone' /\ Serving' /\ Ending' /\ RecordIsTrue'
    BY <1>1 DEF WatchInv, WatchConnect, Attach, Server, Types, LockHeld, Resuming, Granted, LeavesAlone, Serving, Ending, RecordIsTrue
  <2> QED
    BY <2>1, <2>2 DEF WatchInv
<1>2. ASSUME WatchInv, WatchLose PROVE WatchInv'
  <2>1. Types' /\ LockHeld'
    BY <1>2, Zenon DEF WatchInv, WatchLose, Detach, Types, LockHeld, Resuming
  <2>2. Granted' /\ LeavesAlone' /\ Serving' /\ Ending' /\ RecordIsTrue'
    BY <1>2, Zenon DEF WatchInv, WatchLose, Detach, Types, Granted, LeavesAlone, Serving, Ending, RecordIsTrue
  <2> QED
    BY <2>1, <2>2 DEF WatchInv
<1>3. ASSUME WatchInv, Restore PROVE WatchInv'
  <2> DEFINE r == <<"restore", generation>>
  <2>1. r \in Restores /\ r \in Tasks
    BY <1>3 DEF WatchInv, Restore, Publish, Types, Restores
  <2>2. /\ \A t \in Tasks : t # r => step'[t] = step[t]
        /\ step'[r] = IF watched = {} THEN "off" ELSE "lock"
        /\ UNCHANGED <<watched, watchedGeneration, watchLock, seen, subscribed, dropped, lapsed, generation, connection>>
    BY <1>3, <2>1, Zenon DEF WatchInv, Restore, Publish, Server, Types
  <2>3. Types'
    BY <1>3, <2>1, Zenon DEF WatchInv, Restore, Publish, Types, Steps
  <2>4. LockHeld' /\ LeavesAlone'
    BY <1>3, <2>1, <2>2, Zenon DEF WatchInv, LockHeld, Resuming, LeavesAlone, Types
  <2>5. Granted' /\ Ending' /\ RecordIsTrue'
    BY <1>3, <2>1, <2>2, Zenon DEF WatchInv, Restore, Publish, Granted, Ending, RecordIsTrue, Types
  <2>6. Serving'
    BY <2>1, <2>2, Zenon DEF Serving, AtWork
  <2> QED
    BY <2>3, <2>4, <2>5, <2>6, Zenon DEF WatchInv
<1> QED
  BY <1>1, <1>2, <1>3, Zenon

(* The server closes the thread, and the reader hears of it.               *)
LEMMA CloseKeeps ==
  ASSUME WatchInv, ThreadCloses \/ (\E g \in 1..MaxGenerations : ReadClosed(g)) PROVE WatchInv'
<1> USE WatchesAssumption, TaskFacts
<1>1. Types' /\ LockHeld'
  BY DEF WatchInv, ThreadCloses, ReadClosed, linkVars, Types, LockHeld, Resuming
<1>2. Granted' /\ LeavesAlone' /\ Serving' /\ Ending' /\ RecordIsTrue'
  BY DEF WatchInv, ThreadCloses, ReadClosed, linkVars, Types, Resuming, Granted, LeavesAlone, Serving, AtWork, Ending, RecordIsTrue
<1> QED
  BY <1>1, <1>2, Zenon DEF WatchInv

(* A task moves without the lock.                                          *)
LEMMA WalkKeeps ==
  ASSUME WatchInv, NEW t \in Tasks,
         \/ t \in Watchers /\ (Subscribe(t) \/ Unsubscribe(t))
         \/ t = Application /\ Refresh
         \/ Ensured(t)
  PROVE  WatchInv'
<1> USE WatchesAssumption, TaskFacts
<1>1. /\ \A u \in Tasks : u # t => step'[u] = step[u]
      /\ \/ step[t] = "off" /\ step'[t] = "ensure"
         \/ step[t] = "on" /\ step'[t] = "remove" /\ t \in Watchers
         \/ step[t] = "ensure" /\ step'[t] \in {"lock", "off", "remove"} /\ (t \in Watchers => step'[t] # "off")
      /\ step' \in [Tasks -> Steps]
      /\ watchedGeneration' \in {0, watchedGeneration}
      /\ watched' = IF t \in Watchers /\ step[t] = "off" THEN watched \cup {t} ELSE watched
  BY ZenonT(60) DEF WatchInv, Types, Steps, Subscribe, Unsubscribe, Refresh, Ensured, Failed, Go, LockHeld
<1>2. UNCHANGED <<linkVars, watchLock, seen, watchError, Server>>
  BY Zenon DEF Subscribe, Unsubscribe, Refresh, Ensured
<1>3. Types'
  BY <1>1, <1>2 DEF WatchInv, Types, linkVars
<1>4. LockHeld'
  BY <1>1, <1>2, Zenon DEF WatchInv, LockHeld, Resuming
<1>5. Granted' /\ Ending' /\ RecordIsTrue'
  BY <1>1, <1>2 DEF WatchInv, Granted, Ending, RecordIsTrue, linkVars, Server, Types
<1>6. LeavesAlone'
  BY <1>1, <1>2, Zenon DEF WatchInv, LeavesAlone, Types
<1>7. Serving'
  BY <1>1, <1>2, ZenonT(60) DEF WatchInv, Serving, AtWork, Resuming, linkVars, Server, Types
<1> QED
  BY <1>3, <1>4, <1>5, <1>6, <1>7, Zenon DEF WatchInv

(* A resume, from the lock to its record.                                  *)
LEMMA ResumeKeeps ==
  ASSUME WatchInv, NEW t \in Tasks, Acquire(t) \/ Resume(t) \/ ResumeFails(t) \/ Record(t)
  PROVE  WatchInv'
<1> USE WatchesAssumption, TaskFacts
<1>1. /\ \A u \in Tasks : u # t => step'[u] = step[u]
      /\ step' \in [Tasks -> Steps]
      /\ UNCHANGED <<linkVars, watched, closedNote, closes, lapsed>>
      /\ t # Leaver
  BY ZenonT(60) DEF WatchInv, Types, Steps, Acquire, Resume, ResumeFails, Record, Server, Done, Failed, Go, LockHeld, Resuming
<1>2. \A u \in Tasks : u # t => ~Resuming(u) /\ step[u] # "leave"
  BY Zenon DEF WatchInv, Acquire, Resume, ResumeFails, Record, LockHeld, Resuming
<1>3. t \in Watchers => step[t] # "off" /\ step'[t] # "off"
  BY Zenon DEF WatchInv, Types, Acquire, Resume, ResumeFails, Record, Done, Failed, Go
<1>4. Types'
  BY <1>1 DEF WatchInv, Types, linkVars, Acquire, Resume, ResumeFails, Record, Unlock
<1>5. LockHeld'
  <2>1. step'[t] # "leave" /\ (Resuming(t)' => watchLock' = t /\ watched' # {})
    BY <1>1, ZenonT(60) DEF WatchInv, Types, LockHeld, Resuming, Acquire, Resume, ResumeFails, Record, Done, Failed, Go
  <2> QED
    BY <1>1, <1>2, <1>3, <2>1 DEF WatchInv, LockHeld, Resuming
<1>6. LeavesAlone'
  BY <1>1, <1>2, Zenon DEF LeavesAlone
<1>7. Granted'
  <2>1. CASE Acquire(t) \/ Resume(t)
    BY <1>1, <1>2, <2>1 DEF WatchInv, Types, Granted, Resuming, Acquire, Resume, Done, Go, Server, linkVars
  <2>2. CASE ResumeFails(t) \/ Record(t)
    BY <1>1, <1>2, <2>2 DEF WatchInv, Types, Granted, Resuming, ResumeFails, Record, Done, Failed, Go, Server, linkVars
  <2> QED
    BY <2>1, <2>2, Zenon
<1>8. RecordIsTrue'
  BY <1>1, Zenon DEF WatchInv, Types, Granted, RecordIsTrue, Acquire, Resume, ResumeFails, Record, Server, linkVars
<1>9. Ending'
  BY <1>1, Zenon DEF WatchInv, Ending, LockHeld, Resuming, Acquire, Resume, ResumeFails, Record, Server
<1>10. Serving'
  <2>1. CASE Acquire(t)
    BY <1>1, <1>2, <2>1, Zenon DEF WatchInv, Types, Serving, AtWork, RecordIsTrue, Resuming, Acquire, Done, Go, Server, linkVars
  <2>2. CASE Resume(t)
    BY <2>2, Zenon DEF Serving, Resume
  <2>3. CASE ResumeFails(t)
    BY <1>1, <1>2, <2>3, ZenonT(60) DEF WatchInv, Types, Serving, AtWork, Resuming, ResumeFails, Failed, Go, Server, linkVars
  <2>4. CASE Record(t)
    BY <1>1, <1>2, <2>4, Zenon DEF WatchInv, Types, LockHeld, Serving, Granted, AtWork, Resuming, Record, Done, Go, Server, linkVars
  <2> QED
    BY <2>1, <2>2, <2>3, <2>4, Zenon
<1> QED
  BY <1>4, <1>5, <1>6, <1>7, <1>8, <1>9, <1>10, Zenon DEF WatchInv

(* The last watcher goes and the thread is left.                           *)
LEMMA LeaveKeeps ==
  ASSUME WatchInv, NEW t \in Tasks, (t \in Watchers /\ RemoveWatch(t)) \/ AcquireToLeave(t) \/ LeaveThread(t)
  PROVE  WatchInv'
<1> USE WatchesAssumption, TaskFacts
<1>1. CASE t \in Watchers /\ RemoveWatch(t)
  <2>1. /\ \A u \in Tasks : u # t /\ u # Leaver => step'[u] = step[u]
        /\ step'[t] = "off" /\ step' \in [Tasks -> Steps]
        /\ step'[Leaver] = IF watched = {t} THEN "lock" ELSE step[Leaver]
        /\ watched' = watched \ {t} /\ watchLock = Nobody
        /\ watchedGeneration' = IF watched = {t} THEN 0 ELSE watchedGeneration
        /\ UNCHANGED <<linkVars, watchLock, seen, watchError, Server>>
        /\ t \in watched
    BY <1>1, ZenonT(60) DEF WatchInv, Types, Steps, LockHeld, RemoveWatch, Go
  <2>2. \A u \in Tasks : ~Resuming(u) /\ step[u] # "leave"
    BY <2>1, Zenon DEF WatchInv, LockHeld, Resuming
  <2>3. Types' /\ LockHeld' /\ LeavesAlone'
    BY <1>1, <2>1, <2>2 DEF WatchInv, Types, LockHeld, LeavesAlone, Resuming, linkVars
  <2>4. Granted' /\ RecordIsTrue' /\ Ending'
    BY <1>1, <2>1, <2>2, ZenonT(60) DEF WatchInv, Types, Granted, Resuming, RecordIsTrue, Ending, linkVars, Server
  <2>5. Serving'
    BY <1>1, <2>1, <2>2, Zenon DEF WatchInv, Types, Serving, AtWork, Resuming, linkVars, Server
  <2> QED
    BY <2>3, <2>4, <2>5, Zenon DEF WatchInv
<1>2. CASE AcquireToLeave(t)
  <2>1. /\ \A u \in Tasks : u # Leaver => step'[u] = step[u]
        /\ step'[Leaver] \in {"leave", "off"} /\ step' \in [Tasks -> Steps]
        /\ step'[Leaver] = "leave" <=> watched = {}
        /\ watchLock = Nobody /\ watchLock' = IF watched = {} THEN Leaver ELSE Nobody
        /\ UNCHANGED <<linkVars, watched, watchedGeneration, seen, watchError, Server>>
    BY <1>2, Zenon DEF WatchInv, Types, Steps, AcquireToLeave, Go
  <2>2. \A u \in Tasks : ~Resuming(u) /\ step[u] # "leave"
    BY <2>1, Zenon DEF WatchInv, LockHeld, Resuming
  <2>3. Types' /\ LockHeld' /\ LeavesAlone'
    BY <2>1, <2>2, Zenon DEF WatchInv, Types, LockHeld, LeavesAlone, Resuming, RecordIsTrue, linkVars
  <2>4. Granted' /\ RecordIsTrue' /\ Ending'
    BY <2>1, <2>2, Zenon DEF WatchInv, Types, Granted, Resuming, RecordIsTrue, Ending, linkVars, Server
  <2>5. Serving'
    BY <2>1, <2>2, Zenon DEF WatchInv, Types, Serving, AtWork, Resuming, linkVars, Server
  <2> QED
    BY <2>3, <2>4, <2>5, Zenon DEF WatchInv
<1>3. CASE LeaveThread(t)
  <2>1. /\ t = Leaver /\ step[Leaver] = "leave" /\ watchLock = Leaver
        /\ \A u \in Tasks : u # Leaver => step'[u] = step[u]
        /\ step'[Leaver] = "off" /\ step' \in [Tasks -> Steps]
        /\ UNCHANGED <<linkVars, watched, watchedGeneration, dropped>>
        /\ watchLock' = Nobody /\ seen' = 0
    BY <1>3, Zenon DEF WatchInv, Types, Steps, LockHeld, LeaveThread, Unlock, Go
  <2>2. \A u \in Tasks : ~Resuming(u)
    BY <2>1, Zenon DEF WatchInv, LockHeld, Resuming
  <2>3. Types' /\ LockHeld' /\ LeavesAlone'
    BY <2>1, <2>2, Zenon DEF WatchInv, Types, LockHeld, LeavesAlone, Resuming, linkVars
  <2>4. Granted' /\ RecordIsTrue' /\ Ending'
    BY <1>3, <2>1, <2>2 DEF WatchInv, Types, LeaveThread, Granted, LeavesAlone, Resuming, RecordIsTrue, Ending, linkVars
  <2>5. Serving'
    BY <1>3, <2>1, <2>2, Zenon DEF WatchInv, Types, LeavesAlone, Serving, AtWork, linkVars
  <2> QED
    BY <2>3, <2>4, <2>5 DEF WatchInv
<1> QED
  BY <1>1, <1>2, <1>3

(* The invariant holds in every behaviour.                                 *)
LEMMA WatchInvHolds == WatchesSpec => []WatchInv
<1>1. WatchInv /\ UNCHANGED watchVars => WatchInv'
  BY DEF watchVars, subscriptionVars, linkVars, WatchInv, Types, LockHeld, Granted, LeavesAlone, Serving, Ending,
         RecordIsTrue, Resuming, AtWork
<1>2. WatchInv /\ WatchesNext => WatchInv'
  BY TaskFacts, LinkKeeps, CloseKeeps, WalkKeeps, ResumeKeeps, LeaveKeeps, Zenon DEF WatchesNext
<1> QED
  BY <1>1, <1>2, WatchStart, PTL DEF WatchesSpec

(* What is recorded of a subscription is true of the connection it names   *)
(* (resumeWatchedGeneration, removeWatch).                                 *)
THEOREM RecordsAreTrue == WatchesSpec => []RecordIsTrue
BY WatchInvHolds, PTL DEF WatchInv

(* Once everything has settled a watched thread is subscribed              *)
(* (restoreWatched, resumeWatchedGeneration).                              *)
THEOREM WatchedGetSubscribed == WatchesSpec => []WatchedIsSubscribed
<1>1. WatchInv => WatchedIsSubscribed
  BY TaskFacts, Zenon DEF WatchInv, Types, Serving, AtWork, Resuming, LockHeld, Settled, WatchedIsSubscribed
<1> QED
  BY <1>1, WatchInvHolds, PTL

(* Once everything has settled a thread nobody watches has been left       *)
(* (removeWatch, unsubscribeThread).                                       *)
THEOREM UnwatchedGetLeft == WatchesSpec => []UnwatchedIsLeft
<1>1. WatchInv => UnwatchedIsLeft
  BY TaskFacts, Zenon DEF WatchInv, Ending, Settled, UnwatchedIsLeft
<1> QED
  BY <1>1, WatchInvHolds, PTL
=============================================================================
