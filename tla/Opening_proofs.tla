---------------------------- MODULE Opening_proofs ----------------------------
(***************************************************************************)
(* Files get one version, and what open returns is ready, whatever the      *)
(* processes, the versions and the number of files that come and go; and a  *)
(* file stays without tables only if whoever was to initialise it died,      *)
(* failed or was overtaken by a removal.                                    *)
(***************************************************************************)
EXTENDS Opening, TLAPS

Locations == {"idle", "exists", "connect", "pragmas", "create", "commit", "check",
              "indexes", "remove", "open", "failed"}
Connected == {"pragmas", "create", "commit", "check", "indexes", "remove", "open"}

DatabaseFile == [tables : BOOLEAN, versions : Seq(Nat), indexes : BOOLEAN]
Process ==
  [at : Locations, kind : Kinds \cup {"none"}, new : BOOLEAN, file : Nat, again : BOOLEAN]

TypeOK ==
  /\ db \in Seq(DatabaseFile) /\ Len(db) <= MaxFiles
  /\ name \in 0..Len(db)
  /\ lock \in [1..MaxFiles -> SUBSET Processes]
  /\ proc \in [Processes -> Process]

(* The tables and the one version come together. *)
FileInv(d) == IF d.tables THEN Len(d.versions) = 1 ELSE d.versions = <<>>

(* What a process knows of its file where it is. *)
ProcessInv(p, r) ==
  /\ r.at \in Connected => r.file \in DOMAIN db
  /\ r.at = "commit" => lock[r.file] = {p} /\ ~db[r.file].tables
  /\ r.at \in {"indexes", "open"} => db[r.file].tables /\ db[r.file].versions = <<VERSION>>
  /\ r.at = "open" => db[r.file].indexes

IInv ==
  /\ TypeOK
  /\ \A f \in DOMAIN db : FileInv(db[f])
  /\ \A p \in Processes : ProcessInv(p, proc[p])

(* Init establishes the invariant. *)
LEMMA InitIInv == Init => IInv
<1> SUFFICES ASSUME Init PROVE IInv
  OBVIOUS
<1>1. PICK versions \in SUBSET (OldVersions \cup {VERSION}) :
        db = <<>> \/ \E v \in versions : db = <<Database(v)>>
  BY DEF Init
<1>2. /\ db \in Seq(DatabaseFile) /\ Len(db) <= MaxFiles /\ Len(db) \in Nat
      /\ \A f \in DOMAIN db : FileInv(db[f])
  <2>1. CASE db = <<>>
    BY <2>1, OpeningAssumption
  <2>2. CASE db # <<>>
    <3>1. PICK v \in OldVersions \cup {VERSION} : db = <<Database(v)>>
      BY <1>1, <2>2
    <3>2. v \in Nat
      BY OpeningAssumption
    <3>3. Database(v) \in DatabaseFile /\ FileInv(Database(v))
      BY <3>2 DEF Database, DatabaseFile, FileInv
    <3> QED BY <3>1, <3>3, OpeningAssumption
  <2> QED BY <2>1, <2>2
<1>3. Idle \in Process /\ Idle.at = "idle"
  BY DEF Idle, Process, Locations, NoFile
<1>4. TypeOK
  BY <1>2, <1>3 DEF Init, TypeOK
<1>5. ASSUME NEW p \in Processes PROVE ProcessInv(p, proc[p])
  BY <1>3 DEF Init, ProcessInv, Connected
<1> QED BY <1>2, <1>4, <1>5 DEF IInv

(* A step of one process that leaves the files and the locks alone.         *)
LEMMA Moves ==
  ASSUME IInv, NEW p \in Processes, NEW r \in Process, ProcessInv(p, r),
         proc' = [proc EXCEPT ![p] = r], UNCHANGED <<db, lock>>, name' \in {name, NoFile}
  PROVE  IInv'
<1>1. TypeOK'
  BY DEF IInv, TypeOK, NoFile
<1>2. \A f \in DOMAIN db' : FileInv(db'[f])
  BY DEF IInv
<1>3. ASSUME NEW q \in Processes PROVE ProcessInv(q, proc[q])'
  <2>1. CASE q = p
    <3>1. proc'[p] = r
      BY DEF IInv, TypeOK
    <3> QED BY <2>1, <3>1 DEF ProcessInv
  <2>2. CASE q # p
    BY <2>2 DEF IInv, TypeOK, ProcessInv
  <2> QED BY <2>1, <2>2
<1> QED BY <1>1, <1>2, <1>3 DEF IInv, FileInv

LEMMA OpenMoves ==
  ASSUME IInv, NEW p \in Processes, NEW kind \in Kinds, Open(p, kind)
  PROVE  IInv'
<1> DEFINE r == [Idle EXCEPT !.at = "exists", !.kind = kind]
<1>1. r \in Process /\ r.at = "exists"
  BY DEF Idle, Process, Locations, NoFile
<1>2. ProcessInv(p, r)
  BY <1>1 DEF ProcessInv, Connected
<1>3. proc' = [proc EXCEPT ![p] = r] /\ UNCHANGED <<db, lock, name>>
  BY DEF Open
<1> HIDE DEF r
<1> QED BY <1>1, <1>2, <1>3, Moves

(* Failing and finding the place of a process.                              *)
LEMMA Goes ==
  ASSUME IInv, NEW p \in Processes, NEW at \in Locations,
         ProcessInv(p, [proc[p] EXCEPT !.at = at]),
         Goto(p, at), UNCHANGED <<db, lock, name>>
  PROVE  IInv'
<1> DEFINE r == [proc[p] EXCEPT !.at = at]
<1>1. proc[p] \in Process /\ proc \in [Processes -> Process]
  BY DEF IInv, TypeOK
<1>2. r \in Process
  BY <1>1 DEF Process
<1>3. proc' = [proc EXCEPT ![p] = r]
  BY <1>1 DEF Goto
<1>4. ProcessInv(p, r)
  OBVIOUS
<1> HIDE DEF r
<1> QED BY <1>2, <1>3, <1>4, Moves

LEMMA FailMoves ==
  ASSUME IInv, NEW p \in Processes, Fail(p)
  PROVE  IInv'
<1> DEFINE r == [proc[p] EXCEPT !.at = "failed"]
<1>1. proc[p] \in Process
  BY DEF IInv, TypeOK
<1>2. r.at = "failed"
  BY <1>1 DEF Process
<1>3. ProcessInv(p, r) /\ "failed" \in Locations
  BY <1>2 DEF ProcessInv, Connected, Locations
<1> QED BY <1>3, Goes DEF Fail

LEMMA LookForFileMoves ==
  ASSUME IInv, NEW p \in Processes, LookForFile(p)
  PROVE  IInv'
<1>1. CASE MissesDatabase(p)
  BY <1>1, FailMoves DEF LookForFile
<1>2. CASE ~MissesDatabase(p)
  <2> DEFINE r == [proc[p] EXCEPT !.at = "connect", !.new = (name = NoFile)]
  <2>1. proc[p] \in Process /\ proc \in [Processes -> Process]
    BY DEF IInv, TypeOK
  <2>2. r \in Process /\ r.at = "connect"
    BY <2>1 DEF Process, Locations
  <2>3. ProcessInv(p, r)
    BY <2>2 DEF ProcessInv, Connected
  <2>4. proc' = [proc EXCEPT ![p] = r] /\ UNCHANGED <<db, lock, name>>
    BY <1>2, <2>1 DEF LookForFile
  <2> HIDE DEF r
  <2> QED BY <2>2, <2>3, <2>4, Moves
<1> QED BY <1>1, <1>2

LEMMA SetPragmasMoves ==
  ASSUME IInv, NEW p \in Processes, SetPragmas(p)
  PROVE  IInv'
<1> DEFINE at == IF proc[p].new /\ proc[p].kind # "reader" THEN "create" ELSE "check"
           r == [proc[p] EXCEPT !.at = at]
<1>1. proc[p] \in Process
  BY DEF IInv, TypeOK
<1>2. r.at = at /\ r.file = proc[p].file /\ at \in {"create", "check"}
  BY <1>1 DEF Process
<1>3. proc[p].file \in DOMAIN db
  BY DEF SetPragmas, IInv, ProcessInv, Connected
<1>4. ProcessInv(p, r) /\ at \in Locations
  BY <1>2, <1>3 DEF ProcessInv, Locations
<1>5. Goto(p, at) /\ UNCHANGED <<db, lock, name>>
  BY DEF SetPragmas
<1> HIDE DEF at
<1> QED BY <1>4, <1>5, Goes

LEMMA CheckVersionMoves ==
  ASSUME IInv, NEW p \in Processes, CheckVersion(p)
  PROVE  IInv'
<1> DEFINE d == db[File(p)]
           at == IF d.versions # <<>> /\ ~Incompatible(Head(d.versions)) THEN "indexes"
                 ELSE IF Recreates(p) THEN "remove" ELSE "failed"
           r == [proc[p] EXCEPT !.at = at]
<1>1. proc[p] \in Process
  BY DEF IInv, TypeOK
<1>2. r.at = at /\ r.file = File(p) /\ at \in {"indexes", "remove", "failed"}
  BY <1>1 DEF Process, File
<1>3. File(p) \in DOMAIN db
  BY DEF CheckVersion, IInv, ProcessInv, Connected, File
<1>4. d \in DatabaseFile /\ FileInv(d)
  BY <1>3 DEF IInv, TypeOK
<1>5. d.versions \in Seq(Nat) /\ (d.versions # <<>> => d.tables /\ d.versions = <<Head(d.versions)>>)
  BY <1>4 DEF DatabaseFile, FileInv
<1>6. at = "indexes" => d.tables /\ d.versions = <<VERSION>>
  BY <1>5 DEF Incompatible
<1>8. ProcessInv(p, r) /\ at \in Locations
  BY <1>2, <1>3, <1>6 DEF ProcessInv, Connected, Locations
<1>9. Goto(p, at) /\ UNCHANGED <<db, lock, name>>
  BY DEF CheckVersion
<1> HIDE DEF at
<1> QED BY <1>8, <1>9, Goes

LEMMA RemoveMoves ==
  ASSUME IInv, NEW p \in Processes, Remove(p)
  PROVE  IInv'
<1>1. CASE name = NoFile
  BY <1>1, FailMoves DEF Remove
<1>2. CASE name # NoFile
  <2> DEFINE r == [proc[p] EXCEPT !.at = "exists", !.again = TRUE]
  <2>1. proc[p] \in Process /\ proc \in [Processes -> Process]
    BY DEF IInv, TypeOK
  <2>2. r \in Process /\ r.at = "exists"
    BY <2>1 DEF Process, Locations
  <2>3. ProcessInv(p, r)
    BY <2>2 DEF ProcessInv, Connected
  <2>4. proc' = [proc EXCEPT ![p] = r] /\ UNCHANGED <<db, lock>> /\ name' = NoFile
    BY <1>2, <2>1 DEF Remove
  <2> HIDE DEF r
  <2> QED BY <2>2, <2>3, <2>4, Moves
<1> QED BY <1>1, <1>2

LEMMA CloseMoves ==
  ASSUME IInv, NEW p \in Processes, Close(p)
  PROVE  IInv'
<1>1. Idle \in Process /\ Idle.at = "idle"
  BY DEF Idle, Process, Locations, NoFile
<1>2. ProcessInv(p, Idle)
  BY <1>1 DEF ProcessInv, Connected
<1> QED BY <1>1, <1>2, Moves DEF Close

LEMMA DeleteMoves ==
  ASSUME IInv, NEW p \in Processes, Delete(p)
  PROVE  IInv'
<1>1. proc[p] \in Process /\ ProcessInv(p, proc[p]) /\ proc = [proc EXCEPT ![p] = proc[p]]
  BY DEF IInv, TypeOK
<1> QED BY <1>1, Moves DEF Delete

(* A file is created; no process but this one has to do with it.            *)
LEMMA ConnectKeeps ==
  ASSUME IInv, NEW p \in Processes, Connect(p)
  PROVE  IInv'
<1>1. proc[p] \in Process /\ proc \in [Processes -> Process] /\ db \in Seq(DatabaseFile)
      /\ name \in 0..Len(db) /\ Len(db) \in Nat
  BY DEF IInv, TypeOK
<1>2. CASE name # NoFile
  <2> DEFINE r == [proc[p] EXCEPT !.at = "pragmas", !.file = name]
  <2>5. name \in Nat
    BY <1>1
  <2>1. r \in Process /\ r.at = "pragmas" /\ r.file = name
    BY <1>1, <2>5 DEF Process, Locations
  <2>2. name \in DOMAIN db
    BY <1>1, <1>2 DEF NoFile
  <2>3. ProcessInv(p, r)
    BY <2>1, <2>2 DEF ProcessInv
  <2>4. proc' = [proc EXCEPT ![p] = r] /\ UNCHANGED <<db, lock, name>>
    BY <1>1, <1>2 DEF Connect
  <2> HIDE DEF r
  <2> QED BY <2>1, <2>3, <2>4, Moves
<1>3. CASE name = NoFile
  <2> DEFINE new == Len(db) + 1
             r == [proc[p] EXCEPT !.at = "pragmas", !.file = new]
  <2>1. Empty \in DatabaseFile /\ FileInv(Empty)
    BY DEF Empty, DatabaseFile, FileInv
  <2>2. /\ db' \in Seq(DatabaseFile) /\ Len(db') = new /\ db'[new] = Empty
        /\ \A f \in DOMAIN db : db'[f] = db[f] /\ f \in DOMAIN db'
    <3>1. db' = Append(db, Empty)
      BY <1>3 DEF Connect
    <3> QED BY <1>1, <2>1, <3>1
  <2>9. new \in Nat
    BY <1>1
  <2>3. r \in Process /\ r.at = "pragmas" /\ r.file = new
    <3> HIDE DEF new
    <3> QED BY <1>1, <2>9 DEF Process, Locations
  <2>4. proc' = [proc EXCEPT ![p] = r] /\ UNCHANGED lock /\ name' = new /\ Len(db) < MaxFiles
    BY <1>1, <1>3, <2>2 DEF Connect
  <2>5. TypeOK'
    BY <1>1, <2>2, <2>3, <2>4, OpeningAssumption DEF IInv, TypeOK
  <2>6. \A f \in DOMAIN db' : f \in DOMAIN db \/ f = new
    BY <1>1, <2>2
  <2>7. \A f \in DOMAIN db' : FileInv(db'[f])
    BY <2>1, <2>2, <2>6 DEF IInv
  <2>8. ASSUME NEW q \in Processes PROVE ProcessInv(q, proc[q])'
    <3>1. CASE q = p
      <4>1. proc'[p].at = "pragmas" /\ proc'[p].file = new /\ new \in DOMAIN db'
        BY <1>1, <2>2, <2>3, <2>4
      <4> QED BY <3>1, <4>1 DEF ProcessInv
    <3>2. CASE q # p
      <4>1. proc'[q] = proc[q] /\ ProcessInv(q, proc[q])
        BY <3>2, <1>1, <2>4 DEF IInv
      <4>2. proc[q].at \in Connected =>
              proc[q].file \in DOMAIN db /\ db'[proc[q].file] = db[proc[q].file]
        BY <4>1, <2>2 DEF ProcessInv
      <4> QED BY <4>1, <4>2, <2>2, <2>4 DEF ProcessInv, Connected
    <3> QED BY <3>1, <3>2
  <2> QED BY <2>5, <2>7, <2>8 DEF IInv, FileInv
<1> QED BY <1>2, <1>3

LEMMA CreateTablesKeeps ==
  ASSUME IInv, NEW p \in Processes, CreateTables(p)
  PROVE  IInv'
<1>1. CASE TablesRefused(p)
  BY <1>1, FailMoves DEF CreateTables
<1>2. CASE ~TablesRefused(p)
  <2> DEFINE r == [proc[p] EXCEPT !.at = "commit"]
  <2>1. proc[p] \in Process /\ proc \in [Processes -> Process] /\ lock \in [1..MaxFiles -> SUBSET Processes]
    BY DEF IInv, TypeOK
  <2>2. r \in Process /\ r.at = "commit" /\ r.file = File(p)
    BY <2>1 DEF Process, Locations, File
  <2>3. proc' = [proc EXCEPT ![p] = r] /\ lock' = [lock EXCEPT ![File(p)] = {p}]
        /\ UNCHANGED <<db, name>>
    BY <1>2, <2>1 DEF CreateTables, Goto
  <2>4. File(p) \in DOMAIN db /\ DOMAIN db \subseteq 1..MaxFiles /\ lock[File(p)] \subseteq {p}
    BY OpeningAssumption DEF CreateTables, Busy, IInv, TypeOK, ProcessInv, Connected, File
  <2>5. TypeOK'
    BY <2>1, <2>2, <2>3 DEF IInv, TypeOK
  <2>6. ASSUME NEW q \in Processes PROVE ProcessInv(q, proc[q])'
    <3>1. CASE q = p
      <4>1. proc'[p] = r /\ lock'[File(p)] = {p} /\ ~db[File(p)].tables
        BY <1>2, <2>1, <2>3, <2>4 DEF TablesRefused
      <4> HIDE DEF r
      <4> QED BY <3>1, <4>1, <2>2, <2>3, <2>4 DEF ProcessInv
    <3>2. CASE q # p
      <4>1. proc'[q] = proc[q] /\ ProcessInv(q, proc[q])
        BY <3>2, <2>1, <2>3 DEF IInv
      <4>2. proc[q].at = "commit" => proc[q].file # File(p)
        BY <3>2, <4>1, <2>4 DEF ProcessInv
      <4>3. proc[q].at = "commit" => lock'[proc[q].file] = lock[proc[q].file]
        BY <4>2, <2>1, <2>3
      <4> QED BY <4>1, <4>3, <2>3 DEF ProcessInv
    <3> QED BY <3>1, <3>2
  <2> QED BY <2>3, <2>5, <2>6 DEF IInv, FileInv
<1> QED BY <1>1, <1>2

LEMMA CommitTablesKeeps ==
  ASSUME IInv, NEW p \in Processes, CommitTables(p)
  PROVE  IInv'
<1> DEFINE f == File(p)
           d == [tables |-> TRUE, versions |-> <<VERSION>>, indexes |-> db[f].indexes]
           r == [proc[p] EXCEPT !.at = "indexes"]
<1>1. proc[p] \in Process /\ proc \in [Processes -> Process] /\ db \in Seq(DatabaseFile)
      /\ lock \in [1..MaxFiles -> SUBSET Processes]
  BY DEF IInv, TypeOK
<1>2. f \in DOMAIN db /\ lock[f] = {p} /\ ~db[f].tables
  BY DEF CommitTables, IInv, ProcessInv, Connected, File
<1>3. db[f] \in DatabaseFile /\ db[f].versions = <<>>
  BY <1>1, <1>2 DEF IInv, FileInv
<1>4. d \in DatabaseFile /\ FileInv(d)
  BY <1>3, OpeningAssumption DEF DatabaseFile, FileInv
<1>5. db' = [db EXCEPT ![f] = d]
  <2>1. Append(db[f].versions, VERSION) = <<VERSION>>
    BY <1>3
  <2> QED BY <2>1 DEF CommitTables
<1>6. lock' = [lock EXCEPT ![f] = {}] /\ proc' = [proc EXCEPT ![p] = r] /\ name' = name
  BY <1>1 DEF CommitTables, Goto
<1>7. r \in Process /\ r.at = "indexes" /\ r.file = f
  BY <1>1 DEF Process, Locations, File
<1>8. /\ db' \in Seq(DatabaseFile) /\ Len(db') = Len(db) /\ db'[f] = d
      /\ DOMAIN db' = DOMAIN db
      /\ \A g \in DOMAIN db \ {f} : db'[g] = db[g]
  <2> HIDE DEF d, f
  <2> QED BY <1>1, <1>2, <1>4, <1>5
<1>9. TypeOK'
  BY <1>1, <1>6, <1>7, <1>8 DEF IInv, TypeOK
<1>10. \A g \in DOMAIN db' : FileInv(db'[g])
  BY <1>4, <1>8 DEF IInv
<1>11. ASSUME NEW q \in Processes PROVE ProcessInv(q, proc[q])'
  <2>1. CASE q = p
    <3>1. proc'[p].at = "indexes" /\ proc'[p].file = f
      BY <1>1, <1>6, <1>7
    <3> QED BY <2>1, <3>1, <1>2, <1>8 DEF ProcessInv
  <2>2. CASE q # p
    <3>1. proc'[q] = proc[q] /\ ProcessInv(q, proc[q])
      BY <2>2, <1>1, <1>6 DEF IInv
    <3>2. proc[q].at \in {"commit", "indexes", "open"} => proc[q].file # f
      BY <2>2, <3>1, <1>2 DEF ProcessInv
    <3>3. proc[q].at \in {"commit", "indexes", "open"} =>
            /\ db'[proc[q].file] = db[proc[q].file]
            /\ lock'[proc[q].file] = lock[proc[q].file]
      BY <3>1, <3>2, <1>1, <1>6, <1>8 DEF ProcessInv, Connected
    <3> QED BY <3>1, <3>3, <1>8 DEF ProcessInv
  <2> QED BY <2>1, <2>2
<1> QED BY <1>9, <1>10, <1>11 DEF IInv, FileInv

LEMMA InitIndexesKeeps ==
  ASSUME IInv, NEW p \in Processes, InitIndexes(p)
  PROVE  IInv'
<1> DEFINE f == File(p)
           d == [db[f] EXCEPT !.indexes = TRUE]
           r == [proc[p] EXCEPT !.at = "open"]
<1>1. proc[p] \in Process /\ proc \in [Processes -> Process] /\ db \in Seq(DatabaseFile)
  BY DEF IInv, TypeOK
<1>2. f \in DOMAIN db /\ db[f].tables /\ db[f].versions = <<VERSION>>
  BY DEF InitIndexes, IInv, ProcessInv, Connected, File
<1>3. db[f] \in DatabaseFile /\ FileInv(db[f])
  BY <1>1, <1>2 DEF IInv
<1>4. d \in DatabaseFile /\ d.tables = db[f].tables /\ d.versions = db[f].versions /\ d.indexes
  BY <1>3 DEF DatabaseFile
<1>5. db' = [db EXCEPT ![f] = d] /\ proc' = [proc EXCEPT ![p] = r] /\ UNCHANGED <<name, lock>>
  BY <1>1 DEF InitIndexes, Goto
<1>6. r \in Process /\ r.at = "open" /\ r.file = f
  BY <1>1 DEF Process, Locations, File
<1>7. /\ db' \in Seq(DatabaseFile) /\ Len(db') = Len(db) /\ db'[f] = d
      /\ DOMAIN db' = DOMAIN db
      /\ \A g \in DOMAIN db \ {f} : db'[g] = db[g]
  <2> HIDE DEF d, f
  <2> QED BY <1>1, <1>2, <1>4, <1>5
<1>8. TypeOK'
  BY <1>1, <1>5, <1>6, <1>7 DEF IInv, TypeOK
<1>9. \A g \in DOMAIN db : /\ db'[g].tables = db[g].tables
                           /\ db'[g].versions = db[g].versions
                           /\ db[g].indexes => db'[g].indexes
  BY <1>4, <1>7
<1>10. \A g \in DOMAIN db' : FileInv(db'[g])
  BY <1>7, <1>9 DEF IInv, FileInv
<1>11. ASSUME NEW q \in Processes PROVE ProcessInv(q, proc[q])'
  <2>1. CASE q = p
    <3>1. proc'[p].at = "open" /\ proc'[p].file = f
      BY <1>1, <1>5, <1>6
    <3> QED BY <2>1, <3>1, <1>2, <1>4, <1>7 DEF ProcessInv
  <2>2. CASE q # p
    <3>1. proc'[q] = proc[q] /\ ProcessInv(q, proc[q])
      BY <2>2, <1>1, <1>5 DEF IInv
    <3> QED BY <3>1, <1>5, <1>7, <1>9 DEF ProcessInv, Connected
  <2> QED BY <2>1, <2>2
<1> QED BY <1>8, <1>10, <1>11 DEF IInv, FileInv

(* A process ends, or its call does, and its transaction is rolled back.    *)
LEMMA EndKeeps ==
  ASSUME IInv, NEW p \in Processes, NEW r \in Process, r.at \in {"idle", "failed"},
         proc' = [proc EXCEPT ![p] = r], UNCHANGED <<db, name>>,
         lock' = [f \in DOMAIN lock |-> lock[f] \ {p}]
  PROVE  IInv'
<1>1. proc \in [Processes -> Process] /\ lock \in [1..MaxFiles -> SUBSET Processes]
      /\ DOMAIN db \subseteq 1..MaxFiles
  BY OpeningAssumption DEF IInv, TypeOK
<1>2. lock' = [f \in 1..MaxFiles |-> lock[f] \ {p}]
  BY <1>1
<1>3. TypeOK'
  BY <1>1, <1>2 DEF IInv, TypeOK
<1>4. ASSUME NEW q \in Processes PROVE ProcessInv(q, proc[q])'
  <2>1. CASE q = p
    <3>1. proc'[p].at \in {"idle", "failed"}
      BY <1>1
    <3> QED BY <2>1, <3>1 DEF ProcessInv, Connected
  <2>2. CASE q # p
    <3>1. proc'[q] = proc[q] /\ ProcessInv(q, proc[q])
      BY <2>2, <1>1 DEF IInv
    <3>2. proc[q].at = "commit" => lock'[proc[q].file] = {q}
      BY <2>2, <3>1, <1>1, <1>2 DEF ProcessInv, Connected
    <3> QED BY <3>1, <3>2 DEF ProcessInv
  <2> QED BY <2>1, <2>2
<1> QED BY <1>3, <1>4 DEF IInv, FileInv

LEMMA KillKeeps ==
  ASSUME IInv, NEW p \in Processes, Kill(p)
  PROVE  IInv'
<1>1. Idle \in Process /\ Idle.at = "idle"
  BY DEF Idle, Process, Locations, NoFile
<1> QED BY <1>1, EndKeeps DEF Kill

LEMMA BreaksKeeps ==
  ASSUME IInv, NEW p \in Processes, Breaks(p)
  PROVE  IInv'
<1> DEFINE r == [proc[p] EXCEPT !.at = "failed"]
<1>1. proc[p] \in Process /\ proc \in [Processes -> Process]
  BY DEF IInv, TypeOK
<1>2. r \in Process /\ r.at = "failed"
  BY <1>1 DEF Process, Locations
<1>3. proc' = [proc EXCEPT ![p] = r]
  BY <1>1 DEF Breaks, Goto
<1> HIDE DEF r
<1> QED BY <1>2, <1>3, EndKeeps DEF Breaks

LEMMA NextIInv == IInv /\ [Next]_vars => IInv'
<1> SUFFICES ASSUME IInv, [Next]_vars PROVE IInv'
  OBVIOUS
<1>1. CASE Next
  <2>1. PICK p \in Processes :
          \/ \E kind \in Kinds : Open(p, kind)
          \/ LookForFile(p) \/ Connect(p) \/ SetPragmas(p)
          \/ CreateTables(p) \/ CommitTables(p) \/ CheckVersion(p) \/ InitIndexes(p)
          \/ DatabaseBusy(p) \/ Remove(p) \/ Breaks(p)
          \/ Close(p) \/ Delete(p) \/ Kill(p)
    BY <1>1 DEF Next
  <2>2. CASE \E kind \in Kinds : Open(p, kind)
    BY <2>2, OpenMoves
  <2>3. CASE DatabaseBusy(p)
    BY <2>3, FailMoves DEF DatabaseBusy
  <2>4. CASE LookForFile(p) \/ SetPragmas(p) \/ CheckVersion(p) \/ Remove(p) \/ Close(p) \/ Delete(p)
    BY <2>4, LookForFileMoves, SetPragmasMoves, CheckVersionMoves, RemoveMoves, CloseMoves, DeleteMoves
  <2>5. CASE Connect(p) \/ CreateTables(p) \/ CommitTables(p) \/ InitIndexes(p) \/ Kill(p) \/ Breaks(p)
    BY <2>5, BreaksKeeps, ConnectKeeps, CreateTablesKeeps, CommitTablesKeeps, InitIndexesKeeps, KillKeeps
  <2> QED BY <2>1, <2>2, <2>3, <2>4, <2>5
<1>2. CASE UNCHANGED vars
  BY <1>2 DEF vars, IInv, TypeOK, FileInv, ProcessInv
<1> QED BY <1>1, <1>2

(* The strengthening of OneVersion and OpenedIsReady is inductive.          *)
THEOREM Inductive == Spec => []IInv
BY InitIInv, NextIInv, PTL DEF Spec

(* Whoever initialises a file, it gets one version: init.                   *)
THEOREM VersionsUnique == Spec => []OneVersion
<1>1. IInv => OneVersion
  BY DEF IInv, FileInv, OneVersion
<1> QED BY <1>1, Inductive, PTL

(* What open returns is complete: init, check_version and init_indexes.     *)
THEOREM OpensReady == Spec => []OpenedIsReady
<1>1. IInv => OpenedIsReady
  BY DEF IInv, ProcessInv, OpenedIsReady, File
<1> QED BY <1>1, Inductive, PTL

-----------------------------------------------------------------------------
(* Files without tables.  A process is on its way to init, or has the lock  *)
(* of a file, only from where it saw that there was no file.                *)
Starts(r) ==
  /\ r.at \in {"connect", "pragmas"} /\ r.new => r.kind # "reader"
  /\ r.at \in {"create", "commit"} => r.new

Locked == \A f \in 1..MaxFiles : \A q \in lock[f] : proc[q].at = "commit" /\ proc[q].file = f

EmptyInv ==
  /\ \A p \in Processes : Starts(proc[p])
  /\ Locked
  /\ EmptyOnlyIfInterrupted

LEMMA InitEmptyInv == Init => EmptyInv
<1> SUFFICES ASSUME Init PROVE EmptyInv
  OBVIOUS
<1>1. name # NoFile => db[name].tables
  BY DEF Init, Database, NoFile
<1>2. \A p \in Processes : Starts(proc[p])
  BY DEF Init, Idle, Starts
<1> QED BY <1>1, <1>2 DEF Init, EmptyInv, Locked, EmptyOnlyIfInterrupted

(* A step of one process that leaves the files and the locks alone, and, if *)
(* the process was to initialise a file, leaves it to do so or leaves that  *)
(* to the process that has the lock.                                        *)
LEMMA EmptyMoves ==
  ASSUME IInv, EmptyInv, NEW p \in Processes, NEW r \in Process, Starts(r),
         proc' = [proc EXCEPT ![p] = r], UNCHANGED <<db, lock, interrupted>>,
         name' \in {name, NoFile}, proc[p].at # "commit",
         Initialising(p) /\ ~db[File(p)].tables =>
           \/ r.file = File(p) /\ r.new /\ r.at \in {"pragmas", "create"}
           \/ Busy(p)
  PROVE  EmptyInv'
<1>1. /\ proc \in [Processes -> Process] /\ lock \in [1..MaxFiles -> SUBSET Processes]
      /\ DOMAIN db \subseteq 1..MaxFiles /\ proc'[p] = r
      /\ \A q \in Processes : q # p => proc'[q] = proc[q]
  BY OpeningAssumption DEF IInv, TypeOK
<1>2. \A q \in Processes : Starts(proc'[q])
  BY <1>1 DEF EmptyInv
<1>3. Locked'
  BY <1>1 DEF EmptyInv, Locked
<1>4. EmptyOnlyIfInterrupted'
  <2>1. SUFFICES ASSUME name # NoFile, name' = name, ~db[name].tables, name \notin interrupted
                 PROVE  \E q \in Processes : proc'[q].file = name /\ Initialising(q)'
    BY DEF EmptyOnlyIfInterrupted, File
  <2>2. PICK q \in Processes : File(q) = name /\ Initialising(q)
    BY <2>1 DEF EmptyInv, EmptyOnlyIfInterrupted
  <2>3. CASE q # p
    BY <1>1, <2>2, <2>3 DEF File, Initialising
  <2>4. CASE q = p /\ Busy(p)
    <3>1. name \in 1..MaxFiles
      BY <1>1, <2>2, <2>4 DEF IInv, ProcessInv, Connected, Initialising, File
    <3>2. PICK u \in lock[name] : u # p
      BY <2>2, <2>4 DEF Busy
    <3>3. u \in Processes /\ proc[u].at = "commit" /\ proc[u].file = name /\ proc[u].new
      BY <1>1, <3>1, <3>2 DEF EmptyInv, Locked, Starts
    <3> QED BY <1>1, <3>2, <3>3 DEF Initialising
  <2>5. CASE q = p /\ ~Busy(p)
    BY <1>1, <2>1, <2>2, <2>5 DEF File, Initialising
  <2> QED BY <2>3, <2>4, <2>5
<1> QED BY <1>2, <1>3, <1>4 DEF EmptyInv

LEMMA OpenEmpty ==
  ASSUME IInv, EmptyInv, NEW p \in Processes, NEW kind \in Kinds, Open(p, kind)
  PROVE  EmptyInv'
<1> DEFINE r == [Idle EXCEPT !.at = "exists", !.kind = kind]
<1>1. r \in Process /\ r.at = "exists"
  BY DEF Idle, Process, Locations, NoFile
<1>2. Starts(r)
  BY <1>1 DEF Starts
<1>3. /\ proc' = [proc EXCEPT ![p] = r] /\ UNCHANGED <<db, lock, interrupted, name>>
      /\ proc[p].at # "commit" /\ ~Initialising(p)
  BY DEF Open, Initialising
<1> HIDE DEF r
<1> QED BY <1>1, <1>2, <1>3, EmptyMoves

(* A process changes only where it is. *)
LEMMA EmptyGoes ==
  ASSUME IInv, EmptyInv, NEW p \in Processes, NEW at \in Locations,
         Goto(p, at), UNCHANGED <<name, db, lock, interrupted>>, proc[p].at # "commit",
         at \notin {"connect", "pragmas", "commit"}, at = "create" => proc[p].new,
         Initialising(p) /\ ~db[File(p)].tables => at = "create" \/ Busy(p)
  PROVE  EmptyInv'
<1> DEFINE r == [proc[p] EXCEPT !.at = at]
<1>1. proc[p] \in Process /\ proc \in [Processes -> Process]
  BY DEF IInv, TypeOK
<1>2. /\ r \in Process /\ r.at = at /\ r.new = proc[p].new /\ r.file = File(p)
      /\ proc' = [proc EXCEPT ![p] = r]
  BY <1>1 DEF Process, File, Goto
<1>3. Starts(r)
  BY <1>2 DEF Starts
<1>4. Initialising(p) /\ ~db[File(p)].tables =>
        \/ r.file = File(p) /\ r.new /\ r.at \in {"pragmas", "create"}
        \/ Busy(p)
  BY <1>2
<1> HIDE DEF r
<1> QED BY <1>2, <1>3, <1>4, EmptyMoves

LEMMA FailEmpty ==
  ASSUME IInv, EmptyInv, NEW p \in Processes, Fail(p), proc[p].at # "commit",
         Initialising(p) /\ ~db[File(p)].tables => Busy(p)
  PROVE  EmptyInv'
<1>1. "failed" \in Locations
  BY DEF Locations
<1> QED BY <1>1, EmptyGoes DEF Fail

LEMMA LookForFileEmpty ==
  ASSUME IInv, EmptyInv, NEW p \in Processes, LookForFile(p)
  PROVE  EmptyInv'
<1>1. proc[p].at # "commit" /\ ~Initialising(p)
  BY DEF LookForFile, Initialising
<1>2. CASE MissesDatabase(p)
  BY <1>1, <1>2, FailEmpty DEF LookForFile
<1>3. CASE ~MissesDatabase(p)
  <2> DEFINE r == [proc[p] EXCEPT !.at = "connect", !.new = (name = NoFile)]
  <2>1. proc[p] \in Process /\ proc \in [Processes -> Process]
    BY DEF IInv, TypeOK
  <2>2. r \in Process /\ r.at = "connect" /\ r.new = (name = NoFile) /\ r.kind = proc[p].kind
    BY <2>1 DEF Process, Locations
  <2>3. Starts(r)
    BY <1>3, <2>2 DEF Starts, MissesDatabase
  <2>4. proc' = [proc EXCEPT ![p] = r] /\ UNCHANGED <<db, lock, interrupted, name>>
    BY <1>3, <2>1 DEF LookForFile
  <2> HIDE DEF r
  <2> QED BY <1>1, <2>2, <2>3, <2>4, EmptyMoves
<1> QED BY <1>2, <1>3

LEMMA SetPragmasEmpty ==
  ASSUME IInv, EmptyInv, NEW p \in Processes, SetPragmas(p)
  PROVE  EmptyInv'
<1> DEFINE at == IF proc[p].new /\ proc[p].kind # "reader" THEN "create" ELSE "check"
<1>1. Starts(proc[p]) /\ proc[p].at = "pragmas"
  BY DEF EmptyInv, SetPragmas
<1>2. /\ at \in Locations \ {"connect", "pragmas", "commit"}
      /\ at = "create" => proc[p].new
      /\ Initialising(p) => at = "create"
  BY <1>1 DEF Locations, Starts, Initialising
<1>3. Goto(p, at) /\ UNCHANGED <<db, lock, name, interrupted>>
  BY DEF SetPragmas
<1> HIDE DEF at
<1> QED BY <1>1, <1>2, <1>3, EmptyGoes

LEMMA CheckVersionEmpty ==
  ASSUME IInv, EmptyInv, NEW p \in Processes, CheckVersion(p)
  PROVE  EmptyInv'
<1>1. PICK at \in {"indexes", "remove", "failed"} : Goto(p, at)
  BY DEF CheckVersion
<1>2. /\ UNCHANGED <<db, lock, name, interrupted>> /\ at \in Locations
      /\ proc[p].at # "commit" /\ ~Initialising(p)
  BY DEF CheckVersion, Locations, Initialising
<1> QED BY <1>1, <1>2, EmptyGoes

LEMMA RemoveEmpty ==
  ASSUME IInv, EmptyInv, NEW p \in Processes, Remove(p)
  PROVE  EmptyInv'
<1>1. proc[p].at # "commit" /\ ~Initialising(p)
  BY DEF Remove, Initialising
<1>2. CASE name = NoFile
  BY <1>1, <1>2, FailEmpty DEF Remove
<1>3. CASE name # NoFile
  <2> DEFINE r == [proc[p] EXCEPT !.at = "exists", !.again = TRUE]
  <2>1. proc[p] \in Process /\ proc \in [Processes -> Process]
    BY DEF IInv, TypeOK
  <2>2. r \in Process /\ r.at = "exists"
    BY <2>1 DEF Process, Locations
  <2>3. Starts(r)
    BY <2>2 DEF Starts
  <2>4. proc' = [proc EXCEPT ![p] = r] /\ UNCHANGED <<db, lock, interrupted>> /\ name' = NoFile
    BY <1>3, <2>1 DEF Remove
  <2> HIDE DEF r
  <2> QED BY <1>1, <2>2, <2>3, <2>4, EmptyMoves
<1> QED BY <1>2, <1>3

LEMMA CloseEmpty ==
  ASSUME IInv, EmptyInv, NEW p \in Processes, Close(p)
  PROVE  EmptyInv'
<1>1. Idle \in Process /\ Starts(Idle)
  BY DEF Idle, Process, Locations, NoFile, Starts
<1>2. proc[p].at # "commit" /\ ~Initialising(p)
  BY DEF Close, Initialising
<1> QED BY <1>1, <1>2, EmptyMoves DEF Close

LEMMA DeleteEmpty ==
  ASSUME IInv, EmptyInv, NEW p \in Processes, Delete(p)
  PROVE  EmptyInv'
<1>1. proc[p] \in Process /\ Starts(proc[p]) /\ proc = [proc EXCEPT ![p] = proc[p]]
  BY DEF IInv, TypeOK, EmptyInv
<1>2. proc[p].at # "commit" /\ ~Initialising(p)
  BY DEF Delete, Initialising
<1> QED BY <1>1, <1>2, EmptyMoves DEF Delete

(* A file is created by a process that saw that there was none, or it saw   *)
(* one that was removed since then, which counts as an interruption.        *)
LEMMA ConnectEmpty ==
  ASSUME IInv, EmptyInv, NEW p \in Processes, Connect(p)
  PROVE  EmptyInv'
<1>1. proc[p] \in Process /\ proc \in [Processes -> Process] /\ db \in Seq(DatabaseFile)
      /\ name \in 0..Len(db) /\ Len(db) \in Nat
  BY DEF IInv, TypeOK
<1>2. proc[p].at = "connect" /\ ~Initialising(p) /\ Starts(proc[p])
  BY DEF Connect, Initialising, EmptyInv
<1>3. CASE name # NoFile
  <2> DEFINE r == [proc[p] EXCEPT !.at = "pragmas", !.file = name]
  <2>1. name \in Nat
    BY <1>1
  <2>2. /\ r \in Process /\ r.at = "pragmas" /\ r.new = proc[p].new /\ r.kind = proc[p].kind
    BY <1>1, <2>1 DEF Process, Locations
  <2>3. Starts(r)
    BY <1>2, <2>2 DEF Starts
  <2>4. proc' = [proc EXCEPT ![p] = r] /\ UNCHANGED <<db, lock, name, interrupted>>
    BY <1>1, <1>3 DEF Connect
  <2> HIDE DEF r
  <2> QED BY <1>2, <2>2, <2>3, <2>4, EmptyMoves
<1>4. CASE name = NoFile
  <2> DEFINE new == Len(db) + 1
             r == [proc[p] EXCEPT !.at = "pragmas", !.file = new]
  <2>1. new \in Nat /\ name' = new
    <3>1. Empty \in DatabaseFile /\ db' = Append(db, Empty) /\ name' = Len(db')
      BY <1>4 DEF Empty, DatabaseFile, Connect
    <3> QED BY <1>1, <3>1
  <2>2. /\ proc' = [proc EXCEPT ![p] = r] /\ UNCHANGED lock
        /\ proc[p].new \/ new \in interrupted'
    BY <1>4, <2>1 DEF Connect
  <2>3. /\ r.at = "pragmas" /\ r.file = new /\ r.new = proc[p].new /\ r.kind = proc[p].kind
    <3> HIDE DEF new
    <3> QED BY <1>1, <2>1 DEF Process, Locations
  <2> HIDE DEF r, new
  <2>4. proc'[p] = r /\ \A q \in Processes : q # p => proc'[q] = proc[q]
    BY <1>1, <2>2
  <2>5. \A q \in Processes : Starts(proc'[q])
    BY <1>2, <2>3, <2>4 DEF EmptyInv, Starts
  <2>6. Locked'
    <3>1. \A f \in 1..MaxFiles : \A q \in lock[f] : q \in Processes /\ q # p
      BY <1>2 DEF IInv, TypeOK, EmptyInv, Locked
    <3> QED BY <2>2, <2>4, <3>1 DEF EmptyInv, Locked
  <2>7. EmptyOnlyIfInterrupted'
    BY <2>1, <2>2, <2>3, <2>4 DEF EmptyOnlyIfInterrupted, File, Initialising
  <2> QED BY <2>5, <2>6, <2>7 DEF EmptyInv
<1> QED BY <1>3, <1>4

LEMMA CreateTablesEmpty ==
  ASSUME IInv, EmptyInv, NEW p \in Processes, CreateTables(p)
  PROVE  EmptyInv'
<1>1. CASE TablesRefused(p)
  BY <1>1, FailEmpty DEF CreateTables, TablesRefused
<1>2. CASE ~TablesRefused(p)
  <2> DEFINE r == [proc[p] EXCEPT !.at = "commit"]
  <2>1. proc[p] \in Process /\ proc \in [Processes -> Process] /\ lock \in [1..MaxFiles -> SUBSET Processes]
    BY DEF IInv, TypeOK
  <2>2. /\ r.at = "commit" /\ r.file = File(p) /\ r.new = proc[p].new
        /\ proc' = [proc EXCEPT ![p] = r] /\ lock' = [lock EXCEPT ![File(p)] = {p}]
        /\ UNCHANGED <<db, name, interrupted>> /\ proc[p].at = "create"
    BY <1>2, <2>1 DEF Process, Locations, File, CreateTables, Goto
  <2> HIDE DEF r
  <2>3. proc'[p] = r /\ \A q \in Processes : q # p => proc'[q] = proc[q]
    BY <2>1, <2>2
  <2>4. \A q \in Processes : Starts(proc'[q])
    BY <2>2, <2>3 DEF EmptyInv, Starts
  <2>5. Locked'
    BY <2>1, <2>2, <2>3 DEF EmptyInv, Locked
  <2>6. EmptyOnlyIfInterrupted'
    BY <2>2, <2>3 DEF EmptyInv, EmptyOnlyIfInterrupted, File, Initialising
  <2> QED BY <2>4, <2>5, <2>6 DEF EmptyInv
<1> QED BY <1>1, <1>2

LEMMA CommitTablesEmpty ==
  ASSUME IInv, EmptyInv, NEW p \in Processes, CommitTables(p)
  PROVE  EmptyInv'
<1> DEFINE f == File(p)
           r == [proc[p] EXCEPT !.at = "indexes"]
<1>1. proc[p] \in Process /\ proc \in [Processes -> Process] /\ db \in Seq(DatabaseFile)
      /\ lock \in [1..MaxFiles -> SUBSET Processes] /\ name \in 0..Len(db)
  BY DEF IInv, TypeOK
<1>2. f \in DOMAIN db /\ lock[f] = {p}
  BY DEF CommitTables, IInv, ProcessInv, Connected, File
<1>3. /\ r.at = "indexes" /\ proc' = [proc EXCEPT ![p] = r] /\ lock' = [lock EXCEPT ![f] = {}]
      /\ UNCHANGED <<name, interrupted>> /\ proc[p].at = "commit"
      /\ DOMAIN db' = DOMAIN db /\ db'[f].tables
      /\ \A g \in DOMAIN db \ {f} : db'[g] = db[g]
  BY <1>1, <1>2 DEF Process, Goto, CommitTables
<1> HIDE DEF r, f
<1>4. proc'[p] = r /\ \A q \in Processes : q # p => proc'[q] = proc[q]
  BY <1>1, <1>3
<1>5. \A q \in Processes : Starts(proc'[q])
  BY <1>3, <1>4 DEF EmptyInv, Starts
<1>6. Locked'
  <2> SUFFICES ASSUME NEW g \in 1..MaxFiles, NEW q \in lock'[g]
               PROVE  proc'[q].at = "commit" /\ proc'[q].file = g
    BY DEF Locked
  <2>1. g # f /\ q \in lock[g] /\ q \in Processes
    BY <1>1, <1>3
  <2>2. q # p
    BY <2>1 DEF EmptyInv, Locked, f, File
  <2> QED BY <2>1, <2>2, <1>4 DEF EmptyInv, Locked
<1>7. EmptyOnlyIfInterrupted'
  <2>1. SUFFICES ASSUME name # NoFile, ~db'[name].tables, name \notin interrupted
                 PROVE  \E q \in Processes : proc'[q].file = name /\ Initialising(q)'
    BY <1>3 DEF EmptyOnlyIfInterrupted, File
  <2>2. name \in DOMAIN db /\ name # f /\ db'[name] = db[name]
    BY <1>1, <1>3, <2>1 DEF NoFile
  <2>3. PICK q \in Processes : File(q) = name /\ Initialising(q)
    BY <2>1, <2>2 DEF EmptyInv, EmptyOnlyIfInterrupted
  <2>4. q # p
    BY <2>2, <2>3 DEF f
  <2> QED BY <1>4, <2>3, <2>4 DEF File, Initialising
<1> QED BY <1>5, <1>6, <1>7 DEF EmptyInv

LEMMA InitIndexesEmpty ==
  ASSUME IInv, EmptyInv, NEW p \in Processes, InitIndexes(p)
  PROVE  EmptyInv'
<1> DEFINE f == File(p)
           r == [proc[p] EXCEPT !.at = "open"]
<1>1. proc[p] \in Process /\ proc \in [Processes -> Process] /\ db \in Seq(DatabaseFile)
      /\ lock \in [1..MaxFiles -> SUBSET Processes] /\ name \in 0..Len(db)
  BY DEF IInv, TypeOK
<1>2. f \in DOMAIN db /\ db[f] \in DatabaseFile
  BY <1>1 DEF InitIndexes, IInv, ProcessInv, Connected, File
<1>3. /\ r.at = "open" /\ proc' = [proc EXCEPT ![p] = r]
      /\ UNCHANGED <<name, lock, interrupted>> /\ proc[p].at = "indexes"
      /\ \A g \in DOMAIN db : db'[g].tables = db[g].tables
  BY <1>1, <1>2 DEF Process, Goto, InitIndexes, DatabaseFile
<1> HIDE DEF r, f
<1>4. proc'[p] = r /\ \A q \in Processes : q # p => proc'[q] = proc[q]
  BY <1>1, <1>3
<1>5. \A q \in Processes : Starts(proc'[q])
  BY <1>3, <1>4 DEF EmptyInv, Starts
<1>6. Locked'
  <2>1. \A g \in 1..MaxFiles : \A q \in lock[g] : q \in Processes /\ q # p
    BY <1>1, <1>3 DEF EmptyInv, Locked
  <2> QED BY <1>3, <1>4, <2>1 DEF EmptyInv, Locked
<1>7. EmptyOnlyIfInterrupted'
  <2>1. name # NoFile => name \in DOMAIN db
    BY <1>1 DEF NoFile
  <2>2. \A q \in Processes : Initialising(q) => q # p
    BY <1>3 DEF Initialising
  <2> QED BY <1>3, <1>4, <2>1, <2>2 DEF EmptyInv, EmptyOnlyIfInterrupted, File, Initialising
<1> QED BY <1>5, <1>6, <1>7 DEF EmptyInv

(* Whoever ends while it was to initialise a file has been interrupted.     *)
LEMMA EndEmpty ==
  ASSUME IInv, EmptyInv, NEW p \in Processes, NEW r \in Process, r.at \in {"idle", "failed"},
         proc' = [proc EXCEPT ![p] = r], UNCHANGED <<db, name>>,
         lock' = [f \in DOMAIN lock |-> lock[f] \ {p}], Interrupt(p)
  PROVE  EmptyInv'
<1>1. proc \in [Processes -> Process] /\ lock \in [1..MaxFiles -> SUBSET Processes]
  BY DEF IInv, TypeOK
<1>2. lock' = [f \in 1..MaxFiles |-> lock[f] \ {p}]
  BY <1>1
<1>3. proc'[p] = r /\ \A q \in Processes : q # p => proc'[q] = proc[q]
  BY <1>1
<1>4. \A q \in Processes : Starts(proc'[q])
  BY <1>3 DEF EmptyInv, Starts
<1>5. Locked'
  BY <1>1, <1>2, <1>3 DEF EmptyInv, Locked
<1>6. EmptyOnlyIfInterrupted'
  <2>1. Initialising(p) => File(p) \in interrupted'
    BY DEF Interrupt
  <2>2. interrupted \subseteq interrupted'
    BY DEF Interrupt
  <2> QED BY <1>3, <2>1, <2>2 DEF EmptyInv, EmptyOnlyIfInterrupted, File, Initialising
<1> QED BY <1>4, <1>5, <1>6 DEF EmptyInv

LEMMA KillEmpty ==
  ASSUME IInv, EmptyInv, NEW p \in Processes, Kill(p)
  PROVE  EmptyInv'
<1>1. Idle \in Process /\ Idle.at = "idle"
  BY DEF Idle, Process, Locations, NoFile
<1> QED BY <1>1, EndEmpty DEF Kill

LEMMA BreaksEmpty ==
  ASSUME IInv, EmptyInv, NEW p \in Processes, Breaks(p)
  PROVE  EmptyInv'
<1> DEFINE r == [proc[p] EXCEPT !.at = "failed"]
<1>1. proc[p] \in Process /\ proc \in [Processes -> Process]
  BY DEF IInv, TypeOK
<1>2. r \in Process /\ r.at = "failed"
  BY <1>1 DEF Process, Locations
<1>3. proc' = [proc EXCEPT ![p] = r]
  BY <1>1 DEF Breaks, Goto
<1> HIDE DEF r
<1> QED BY <1>2, <1>3, EndEmpty DEF Breaks

LEMMA NextEmptyInv == IInv /\ EmptyInv /\ [Next]_vars => EmptyInv'
<1> SUFFICES ASSUME IInv, EmptyInv, [Next]_vars PROVE EmptyInv'
  OBVIOUS
<1>1. CASE Next
  <2>1. PICK p \in Processes :
          \/ \E kind \in Kinds : Open(p, kind)
          \/ LookForFile(p) \/ Connect(p) \/ SetPragmas(p)
          \/ CreateTables(p) \/ CommitTables(p) \/ CheckVersion(p) \/ InitIndexes(p)
          \/ DatabaseBusy(p) \/ Remove(p) \/ Breaks(p)
          \/ Close(p) \/ Delete(p) \/ Kill(p)
    BY <1>1 DEF Next
  <2>2. CASE \E kind \in Kinds : Open(p, kind)
    BY <2>2, OpenEmpty
  <2>3. CASE DatabaseBusy(p)
    BY <2>3, FailEmpty DEF DatabaseBusy
  <2>4. CASE LookForFile(p) \/ SetPragmas(p) \/ CheckVersion(p) \/ Remove(p) \/ Close(p) \/ Delete(p)
    BY <2>4, LookForFileEmpty, SetPragmasEmpty, CheckVersionEmpty, RemoveEmpty, CloseEmpty, DeleteEmpty
  <2>5. CASE Connect(p) \/ CreateTables(p) \/ CommitTables(p) \/ InitIndexes(p) \/ Kill(p) \/ Breaks(p)
    BY <2>5, BreaksEmpty, ConnectEmpty, CreateTablesEmpty, CommitTablesEmpty, InitIndexesEmpty, KillEmpty
  <2> QED BY <2>1, <2>2, <2>3, <2>4, <2>5
<1>2. CASE UNCHANGED vars
  BY <1>2 DEF vars, EmptyInv, Starts, Locked, EmptyOnlyIfInterrupted, File, Initialising
<1> QED BY <1>1, <1>2

(* Whatever dies, fails or races: a file that has no tables is about to get *)
(* them, or the very call that was to initialise it, or that created it,    *)
(* died, failed or was overtaken by a removal.                              *)
THEOREM EmptyIfInterrupted == Spec => []EmptyOnlyIfInterrupted
<1>1. EmptyInv => EmptyOnlyIfInterrupted
  BY DEF EmptyInv
<1> QED BY <1>1, InitEmptyInv, NextEmptyInv, Inductive, PTL DEF Spec
=============================================================================
