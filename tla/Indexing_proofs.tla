-------------------------- MODULE Indexing_proofs --------------------------
(* Proofs about Indexing, for every number of files, writers, contents and *)
(* paths.                                                                  *)
EXTENDS Indexing, TLAPS

LEMMA InitIInv == Init => IInv
<1> SUFFICES ASSUME Init PROVE IInv
  OBVIOUS
<1> USE DEF Init
<1>1. TypeOK
  BY DEF TypeOK, EmptyTables, Tables, NoPaths, Job, NoJob, Call, Flags, Locations
<1>2. StoredExactly
  BY DEF StoredExactly, Exact, HoldsNoPaths, EmptyTables
<1>3. LockInv
  BY DEF LockInv, Writing
<1>4. \A w \in Writers : JobInv(w) /\ TxInv(w)
  BY DEF JobInv, TxInv, Writing, NoJob, Call
<1> QED BY <1>1, <1>2, <1>3, <1>4 DEF IInv

(* The parts about a writer whose own state stays. *)
LEMMA JobInvFrame ==
  ASSUME NEW u \in Writers, JobInv(u), pc'[u] = pc[u], job'[u] = job[u]
  PROVE  JobInv(u)'
  BY DEF JobInv, file

LEMMA TxInvFrame ==
  ASSUME NEW u \in Writers, TxInv(u), pc'[u] = pc[u], job'[u] = job[u],
         UNCHANGED <<db, tx>>
  PROVE  TxInv(u)'
<1>1. /\ file(u)' = file(u)
      /\ Target(u)' = Target(u)
      /\ Writing(u)' <=> Writing(u)
  BY DEF file, Target, Writing
<1> QED BY <1>1 DEF TxInv

(* Only w moves, outside its transaction, and the tables stay. *)
LEMMA OutsideTransaction ==
  ASSUME IInv, NEW w \in Writers, TypeOK',
         UNCHANGED <<db, tx, lock>>,
         ~ Writing(w), ~ Writing(w)',
         \A u \in Writers \ {w} : pc'[u] = pc[u] /\ job'[u] = job[u],
         JobInv(w)'
  PROVE  IInv'
<1>1. StoredExactly'
  BY DEF IInv, StoredExactly, Exact, HoldsResult, HoldsNoPaths, HoldsError
<1>2. LockInv'
  BY DEF IInv, LockInv, Writing
<1>3. ASSUME NEW u \in Writers PROVE JobInv(u)' /\ TxInv(u)'
  <2>1. CASE u = w
    BY <2>1 DEF TxInv, Writing
  <2>2. CASE u # w
    <3>1. JobInv(u) /\ TxInv(u) /\ pc'[u] = pc[u] /\ job'[u] = job[u]
      BY <2>2 DEF IInv
    <3> QED BY <3>1, JobInvFrame, TxInvFrame
  <2> QED BY <2>1, <2>2
<1> QED BY <1>1, <1>2, <1>3 DEF IInv

-----------------------------------------------------------------------------
(* The building blocks of the actions. *)

LEMMA CallType ==
  ASSUME NEW fs \in SUBSET Files
  PROVE  Call("clean", <<>>, {}, FALSE, fs) \in Job
  BY DEF Call, Job

LEMMA NoJobType == NoJob \in Job
  BY DEF NoJob, Call, Job

LEMMA Element ==
  ASSUME NEW S, NEW q \in Seq(S), NEW i \in 1..Len(q) PROVE q[i] \in S
  OBVIOUS

LEMMA ReturnFacts ==
  ASSUME TypeOK, NEW w \in Writers,
         NEW o \in {"none", "ok", "cancelled", "error", "killed"}, Return(w, o)
  PROVE  /\ pc' \in [Writers -> Locations]
         /\ job' \in [Writers -> Job]
         /\ cancelled' \in [Writers -> BOOLEAN]
         /\ outcome' \in [Writers -> {"none", "ok", "cancelled", "error", "killed"}]
         /\ pc'[w] = "idle"
         /\ job'[w] = NoJob
         /\ \A u \in Writers \ {w} : pc'[u] = pc[u] /\ job'[u] = job[u]
         /\ JobInv(w)'
<1>1. /\ pc' \in [Writers -> Locations]
      /\ job' \in [Writers -> Job]
      /\ cancelled' \in [Writers -> BOOLEAN]
      /\ outcome' \in [Writers -> {"none", "ok", "cancelled", "error", "killed"}]
      /\ pc'[w] = "idle"
      /\ job'[w] = NoJob
      /\ \A u \in Writers \ {w} : pc'[u] = pc[u] /\ job'[u] = job[u]
  BY NoJobType DEF TypeOK, Return, Goto, Locations
<1>2. JobInv(w)'
  BY <1>1 DEF JobInv, NoJob, Call
<1> QED BY <1>1, <1>2

LEMMA AbortFacts ==
  ASSUME TypeOK, NEW w \in Writers, Abort(w)
  PROVE  /\ Return(w, "error")
         /\ status' \in [Writers -> SUBSET Flags]
  BY DEF TypeOK, Abort, FailureIfProcessing, InProgress, Report, Flags

LEMMA NextFileFacts ==
  ASSUME TypeOK, NEW w \in Writers, NEW s \in SUBSET Flags, NextFile(w, s),
         job[w].op = "index"
  PROVE  /\ pc' \in [Writers -> Locations]
         /\ job' \in [Writers -> Job]
         /\ UNCHANGED <<cancelled, outcome>>
         /\ status' \in [Writers -> SUBSET Flags]
         /\ pc'[w] = "loop"
         /\ \A u \in Writers \ {w} : pc'[u] = pc[u] /\ job'[u] = job[u]
         /\ JobInv(w)'
<1> DEFINE j == NextTurn(job[w])
<1>1. job[w] \in Job
  BY DEF TypeOK
<1>2. j \in Job /\ j.op = "index" /\ j.message = "none"
  BY <1>1 DEF Job, NextTurn
<1>3. job' = [job EXCEPT ![w] = j]
  BY DEF NextFile, TypeOK
<1> HIDE DEF j
<1>4. /\ job' \in [Writers -> Job]
      /\ job'[w] = j
      /\ \A u \in Writers \ {w} : job'[u] = job[u]
  BY <1>2, <1>3 DEF TypeOK
<1>7. /\ pc' \in [Writers -> Locations]
      /\ pc'[w] = "loop"
      /\ \A u \in Writers \ {w} : pc'[u] = pc[u]
  BY DEF NextFile, Goto, Locations, TypeOK
<1>5. UNCHANGED <<cancelled, outcome>> /\ status' \in [Writers -> SUBSET Flags]
  BY DEF NextFile, AssertReported, Flags, TypeOK
<1>6. JobInv(w)'
  BY <1>2, <1>4, <1>7 DEF JobInv
<1> QED BY <1>4, <1>5, <1>6, <1>7

LEMMA ReporterFacts ==
  ASSUME NEW s \in SUBSET Flags
  PROVE  /\ Processing(s) \in SUBSET Flags
         /\ Report(s) \in SUBSET Flags
         /\ Skipped(s) \in SUBSET Flags
  BY DEF Processing, Report, Skipped, Flags

-----------------------------------------------------------------------------
(* Actions outside the transactions. *)

LEMMA FinishIndexingStep ==
  ASSUME IInv, NEW w \in Writers, FinishIndexing(w) PROVE IInv'
<1>1. TypeOK /\ Return(w, "ok") /\ pc[w] = "loop" /\ UNCHANGED <<db, tx, lock, content, status>>
  BY DEF IInv, FinishIndexing, Unlocked
<1>2. TypeOK'
  BY <1>1, ReturnFacts DEF TypeOK
<1> QED
  BY <1>1, <1>2, ReturnFacts, OutsideTransaction DEF Writing

LEMMA StartCleaningStep ==
  ASSUME IInv, NEW w \in Writers, StartCleaning(w) PROVE IInv'
<1> USE DEF StartCleaning
<1>1. PICK fs \in Scopes : job' = [job EXCEPT ![w] = Call("clean", <<>>, {}, FALSE, fs)]
  OBVIOUS
<1>2. Call("clean", <<>>, {}, FALSE, fs) \in Job
  <2>1. fs \subseteq Files
    BY IndexingAssumption
  <2> QED BY <2>1, CallType
<1>3. TypeOK'
  BY <1>1, <1>2 DEF IInv, TypeOK, Goto, Locations, Unlocked
<1>4. JobInv(w)'
  BY <1>1 DEF IInv, TypeOK, JobInv, Goto, Call
<1>5. ~ Writing(w) /\ ~ Writing(w)'
  BY DEF IInv, TypeOK, Writing, Goto
<1>6. \A u \in Writers \ {w} : pc'[u] = pc[u] /\ job'[u] = job[u]
  BY <1>1 DEF IInv, TypeOK, Goto
<1> QED
  BY <1>3, <1>4, <1>5, <1>6, OutsideTransaction DEF Unlocked

LEMMA StartIndexingStep ==
  ASSUME IInv, NEW w \in Writers, StartIndexing(w) PROVE IInv'
<1> USE DEF StartIndexing
<1>1. PICK l \in SourceLists, c \in ContinueFroms, b \in BOOLEAN :
        job' = [job EXCEPT ![w] = Call("index", l, c, b, {})]
  OBVIOUS
<1>2. Call("index", l, c, b, {}) \in Job
  BY IndexingAssumption DEF Job, Call
<1>3. TypeOK'
  BY <1>1, <1>2 DEF IInv, TypeOK, Goto, Locations, Unlocked
<1>4. JobInv(w)'
  BY <1>1 DEF IInv, TypeOK, JobInv, Goto, Call
<1>5. ~ Writing(w) /\ ~ Writing(w)'
  BY DEF IInv, TypeOK, Writing, Goto
<1>6. \A u \in Writers \ {w} : pc'[u] = pc[u] /\ job'[u] = job[u]
  BY <1>1 DEF IInv, TypeOK, Goto
<1> QED
  BY <1>3, <1>4, <1>5, <1>6, OutsideTransaction DEF Unlocked

(* An action outside the transactions that ends with index_file's Ok or Err. *)
LEMMA NextFileStep ==
  ASSUME IInv, NEW w \in Writers, NEW s \in SUBSET Flags, NextFile(w, s),
         job[w].op = "index", ~ Writing(w), Unlocked, UNCHANGED content
  PROVE  IInv'
<1>1. TypeOK'
  BY NextFileFacts DEF IInv, TypeOK, Unlocked
<1> QED
  BY <1>1, NextFileFacts, OutsideTransaction DEF IInv, Writing, Unlocked

LEMMA AbortStep ==
  ASSUME IInv, NEW w \in Writers, Abort(w), ~ Writing(w), Unlocked, UNCHANGED content
  PROVE  IInv'
<1>1. TypeOK'
  BY AbortFacts, ReturnFacts DEF IInv, TypeOK, Unlocked
<1> QED
  BY <1>1, AbortFacts, ReturnFacts, OutsideTransaction DEF IInv, Writing, Unlocked

(* In a call of index_all past the head of the loop, there is a current file. *)
LEMMA CurrentFile ==
  ASSUME IInv, NEW w \in Writers,
         pc[w] \in {"load", "query status", "build", "stitch", "insert graph",
                   "insert paths", "insert error"}
  PROVE  /\ job[w] \in Job
         /\ job[w].op = "index"
         /\ job[w].pos \in 1..Len(job[w].list)
         /\ file(w) \in Files
         /\ pc[w] # "load" => \E v \in Versions : job[w].tag = {v}
<1>1. job[w] \in Job
  BY DEF IInv, TypeOK
<1>2. job[w].op = "index"
  BY DEF IInv, JobInv
<1>3. job[w].pos \in 1..Len(job[w].list)
  BY <1>2 DEF IInv, JobInv
<1>4. file(w) \in Files
  <2>1. job[w].list \in Seq(Files)
    BY <1>1 DEF Job
  <2> QED BY <1>3, <2>1, Element DEF file
<1>5. pc[w] # "load" => \E v \in Versions : job[w].tag = {v}
  BY <1>2 DEF IInv, JobInv
<1> QED BY <1>1, <1>2, <1>3, <1>4, <1>5

LEMMA TakeFileStep ==
  ASSUME IInv, NEW w \in Writers, TakeFile(w) PROVE IInv'
<1>1. /\ TypeOK /\ pc[w] = "loop" /\ ~ Writing(w)
      /\ UNCHANGED content /\ Unlocked
      /\ job[w] \in Job
      /\ job[w].pos \in 1..Len(job[w].list)
  BY DEF IInv, TypeOK, TakeFile, Writing, Job
<1>2. job[w].op = "index"
  BY <1>1 DEF IInv, JobInv
<1>3. file(w) \in Files
  <2>1. job[w].list \in Seq(Files)
    BY <1>1 DEF Job
  <2> QED BY <1>1, <2>1 DEF file
<1>4. CASE Return(w, "cancelled") /\ status' = [status EXCEPT ![w] = {}]
  <2>1. TypeOK'
    BY <1>1, <1>4, ReturnFacts DEF TypeOK, Unlocked
  <2> QED
    BY <1>1, <1>4, <2>1, ReturnFacts, OutsideTransaction DEF Writing, Unlocked
<1>5. CASE NextFile(w, Skipped({}))
  BY <1>1, <1>2, <1>5, ReporterFacts, NextFileStep
<1>6. CASE /\ Goto(w, "load")
           /\ job' = [job EXCEPT ![w].resume = {}]
           /\ status' = [status EXCEPT ![w] = {}]
           /\ UNCHANGED <<cancelled, outcome>>
  <2> DEFINE j == [job[w] EXCEPT !.resume = {}]
  <2>1. j \in Job /\ j.op = "index" /\ j.pos = job[w].pos /\ j.list = job[w].list
           /\ j.message = job[w].message
    BY <1>1, <1>2, <1>3 DEF Job
  <2>2. job' = [job EXCEPT ![w] = j]
    BY <1>1, <1>6 DEF TypeOK
  <2> HIDE DEF j
  <2>3. TypeOK'
    BY <1>1, <1>6, <2>1, <2>2 DEF TypeOK, Goto, Locations, Unlocked
  <2>4. job[w].message = "none"
    BY <1>1, <1>2 DEF IInv, JobInv
  <2>5. JobInv(w)'
    BY <1>1, <1>6, <2>1, <2>2, <2>4 DEF TypeOK, JobInv, Goto
  <2>6. ~ Writing(w)' /\ \A u \in Writers \ {w} : pc'[u] = pc[u] /\ job'[u] = job[u]
    BY <1>1, <1>6, <2>2 DEF TypeOK, Goto, Writing
  <2> QED
    BY <1>1, <2>3, <2>5, <2>6, OutsideTransaction DEF Unlocked
<1> QED BY <1>4, <1>5, <1>6 DEF TakeFile

(* An action outside the transactions that moves on inside index_file. *)
LEMMA InsideFileStep ==
  ASSUME IInv, NEW w \in Writers, ~ Writing(w),
         NEW l \in {"query status", "build", "stitch", "delete file_paths", "insert error"},
         Goto(w, l), Unlocked, UNCHANGED <<content, cancelled, outcome>>,
         status' \in [Writers -> SUBSET Flags],
         NEW j \in Job, job' = [job EXCEPT ![w] = j],
         JobInv(w)'
  PROVE  IInv'
<1>1. TypeOK'
  BY DEF IInv, TypeOK, Goto, Locations, Unlocked
<1>2. ~ Writing(w)' /\ \A u \in Writers \ {w} : pc'[u] = pc[u] /\ job'[u] = job[u]
  BY DEF IInv, TypeOK, Goto, Writing
<1> QED BY <1>1, <1>2, OutsideTransaction DEF Unlocked

LEMMA LoadFileStep ==
  ASSUME IInv, NEW w \in Writers, LoadFile(w) PROVE IInv'
<1>1. /\ TypeOK /\ pc[w] = "load" /\ ~ Writing(w)
      /\ UNCHANGED content /\ Unlocked
      /\ status[w] \in SUBSET Flags
  BY DEF IInv, TypeOK, LoadFile, Writing
<1>2. /\ job[w] \in Job /\ job[w].op = "index" /\ file(w) \in Files
      /\ job[w].pos \in 1..Len(job[w].list)
  BY <1>1, CurrentFile
<1>3. CASE \E named \in BOOLEAN :
             NextFile(w, IF named THEN Report(status[w]) ELSE status[w])
  BY <1>1, <1>2, <1>3, ReporterFacts, NextFileStep
<1>4. CASE Abort(w)
  BY <1>1, <1>4, AbortStep
<1>5. CASE /\ Goto(w, "query status")
           /\ job' = [job EXCEPT ![w].tag = {content[file(w)]}]
           /\ UNCHANGED <<cancelled, outcome, status>>
  <2> DEFINE v == content[file(w)]
             j == [job[w] EXCEPT !.tag = {v}]
  <2>1. v \in Versions
    BY <1>1, <1>2 DEF TypeOK
  <2> HIDE DEF v
  <2>2. /\ j \in Job /\ j.op = "index" /\ j.pos = job[w].pos /\ j.list = job[w].list
        /\ j.message = job[w].message /\ j.tag = {v}
    BY <1>2, <2>1 DEF Job
  <2>3. job' = [job EXCEPT ![w] = j]
    BY <1>1, <1>5 DEF TypeOK, v
  <2> HIDE DEF j
  <2>4. job[w].message = "none"
    BY <1>1, <1>2 DEF IInv, JobInv
  <2>5. JobInv(w)'
    BY <1>1, <1>2, <1>5, <2>1, <2>2, <2>3, <2>4 DEF TypeOK, JobInv, Goto
  <2> QED
    BY <1>1, <1>5, <2>2, <2>3, <2>5, InsideFileStep DEF TypeOK
<1> QED BY <1>3, <1>4, <1>5 DEF LoadFile

LEMMA QueryStatusStep ==
  ASSUME IInv, NEW w \in Writers, QueryStatus(w) PROVE IInv'
<1>1. /\ TypeOK /\ pc[w] = "query status" /\ ~ Writing(w)
      /\ UNCHANGED content /\ Unlocked
      /\ status[w] \in SUBSET Flags
  BY DEF IInv, TypeOK, QueryStatus, Writing
<1>2. /\ job[w] \in Job /\ job[w].op = "index"
      /\ job[w].pos \in 1..Len(job[w].list)
      /\ \E v \in Versions : job[w].tag = {v}
  BY <1>1, CurrentFile
<1>3. CASE NextFile(w, Skipped(status[w]))
  BY <1>1, <1>2, <1>3, ReporterFacts, NextFileStep
<1>4. CASE /\ Goto(w, "build")
           /\ status' = [status EXCEPT ![w] = Processing(@)]
           /\ UNCHANGED <<job, cancelled, outcome>>
  <2>1. status' \in [Writers -> SUBSET Flags]
    BY <1>1, <1>4, ReporterFacts DEF TypeOK
  <2>2. job' = [job EXCEPT ![w] = job[w]]
    BY <1>1, <1>4 DEF TypeOK
  <2>3. job[w].message = "none"
    BY <1>1, <1>2 DEF IInv, JobInv
  <2>4. JobInv(w)'
    BY <1>1, <1>2, <1>4, <2>3 DEF TypeOK, JobInv, Goto
  <2> QED
    BY <1>1, <1>2, <1>4, <2>1, <2>2, <2>4, InsideFileStep
<1> QED BY <1>3, <1>4 DEF QueryStatus

LEMMA GiveUpStep ==
  ASSUME IInv, NEW w \in Writers, NEW m \in Messages, GiveUp(w, m),
         pc[w] \in {"build", "stitch"}, Unlocked, UNCHANGED <<content, cancelled, outcome>>
  PROVE  IInv'
<1>1. /\ TypeOK /\ ~ Writing(w) /\ status[w] \in SUBSET Flags
  BY DEF IInv, TypeOK, Writing
<1>2. /\ job[w] \in Job /\ job[w].op = "index"
      /\ job[w].pos \in 1..Len(job[w].list)
      /\ \E v \in Versions : job[w].tag = {v}
  BY CurrentFile
<1> DEFINE j == [job[w] EXCEPT !.message = m]
<1>3. /\ j \in Job /\ j.op = "index" /\ j.pos = job[w].pos /\ j.list = job[w].list
      /\ j.message = m /\ j.tag = job[w].tag
  BY <1>2 DEF Job
<1>4. job' = [job EXCEPT ![w] = j]
  BY <1>1 DEF TypeOK, GiveUp
<1> HIDE DEF j
<1>5. status' \in [Writers -> SUBSET Flags]
  BY <1>1, ReporterFacts DEF TypeOK, GiveUp
<1>6. JobInv(w)'
  BY <1>1, <1>2, <1>3, <1>4 DEF TypeOK, JobInv, Goto, GiveUp
<1> QED
  BY <1>1, <1>3, <1>4, <1>5, <1>6, InsideFileStep DEF GiveUp

LEMMA BuildStackGraphStep ==
  ASSUME IInv, NEW w \in Writers, BuildStackGraph(w) PROVE IInv'
<1>1. /\ TypeOK /\ pc[w] = "build" /\ ~ Writing(w)
      /\ UNCHANGED <<content, cancelled, outcome>> /\ Unlocked
  BY DEF IInv, TypeOK, BuildStackGraph, Writing
<1>2. /\ job[w] \in Job /\ job[w].op = "index"
      /\ job[w].pos \in 1..Len(job[w].list)
      /\ \E v \in Versions : job[w].tag = {v}
  BY <1>1, CurrentFile
<1>3. CASE \E m \in Messages : GiveUp(w, m)
  <2>1. PICK m \in Messages : GiveUp(w, m)
    BY <1>3
  <2> QED
    BY <1>1, <2>1, GiveUpStep
<1>4. CASE Goto(w, "stitch") /\ UNCHANGED <<job, status>>
  <2>1. job' = [job EXCEPT ![w] = job[w]]
    BY <1>1, <1>4 DEF TypeOK
  <2>2. job[w].message = "none"
    BY <1>1, <1>2 DEF IInv, JobInv
  <2>3. JobInv(w)'
    BY <1>1, <1>2, <1>4, <2>2 DEF TypeOK, JobInv, Goto
  <2> QED
    BY <1>1, <1>2, <1>4, <2>1, <2>3, InsideFileStep DEF TypeOK
<1>5. GiveUp(w, "failed") => \E m \in Messages : GiveUp(w, m)
  BY DEF Messages
<1> QED BY <1>3, <1>4, <1>5 DEF BuildStackGraph

LEMMA FindPartialPathsStep ==
  ASSUME IInv, NEW w \in Writers, FindPartialPaths(w) PROVE IInv'
<1>1. /\ TypeOK /\ pc[w] = "stitch" /\ ~ Writing(w)
      /\ UNCHANGED <<content, cancelled, outcome>> /\ Unlocked
  BY DEF IInv, TypeOK, FindPartialPaths, Writing
<1>2. /\ job[w] \in Job /\ job[w].op = "index" /\ file(w) \in Files
      /\ job[w].pos \in 1..Len(job[w].list)
      /\ \E v \in Versions : job[w].tag = {v}
  BY <1>1, CurrentFile
<1>3. PICK v \in Versions : job[w].tag = {v}
  BY <1>2
<1>4. CASE GiveUp(w, "timed out")
  BY <1>1, <1>4, GiveUpStep DEF Messages
<1>5. CASE /\ Goto(w, "delete file_paths")
           /\ job' = [job EXCEPT ![w].scope = {file(w)}, ![w].remaining = PathsOf[v]]
           /\ UNCHANGED status
  <2> DEFINE j == [job[w] EXCEPT !.scope = {file(w)}, !.remaining = PathsOf[v]]
  <2>1. PathsOf[v] \subseteq Paths
    BY <1>3, IndexingAssumption
  <2>2. /\ j \in Job /\ j.op = "index" /\ j.pos = job[w].pos /\ j.list = job[w].list
        /\ j.message = job[w].message /\ j.tag = {v}
        /\ j.scope = {job[w].list[job[w].pos]} /\ j.remaining = PathsOf[v]
    BY <1>2, <1>3, <2>1 DEF Job, file
  <2>3. job' = [job EXCEPT ![w] = j]
    BY <1>1, <1>5 DEF TypeOK
  <2> HIDE DEF j
  <2>4. job[w].message = "none"
    BY <1>1, <1>2 DEF IInv, JobInv
  <2>6. /\ pc'[w] = "delete file_paths" /\ job'[w] = j
        /\ file(w)' = job[w].list[job[w].pos]
    BY <1>1, <1>5, <2>2, <2>3 DEF TypeOK, Goto, file
  <2>5. JobInv(w)'
    BY <1>2, <1>3, <2>2, <2>4, <2>6 DEF JobInv
  <2> QED
    BY <1>1, <1>5, <2>2, <2>3, <2>5, InsideFileStep DEF TypeOK
<1> QED BY <1>3, <1>4, <1>5 DEF FindPartialPaths

LEMMA DatabaseBusyStep ==
  ASSUME IInv, NEW w \in Writers, DatabaseBusy(w) PROVE IInv'
  BY AbortStep DEF DatabaseBusy, Writing

LEMMA RaiseFlagStep ==
  ASSUME IInv, NEW w \in Writers, RaiseFlag(w) PROVE IInv'
<1>1. /\ TypeOK /\ UNCHANGED <<db, tx, lock, content, pc, job, outcome, status>>
      /\ cancelled' = [cancelled EXCEPT ![w] = TRUE]
  BY DEF IInv, RaiseFlag, Unlocked
<1>2. TypeOK'
  BY <1>1 DEF TypeOK
<1>3. StoredExactly' /\ LockInv'
  BY <1>1 DEF IInv, StoredExactly, Exact, HoldsResult, HoldsNoPaths, HoldsError,
              LockInv, Writing
<1>4. ASSUME NEW u \in Writers PROVE JobInv(u)' /\ TxInv(u)'
  <2>1. JobInv(u) /\ TxInv(u) /\ pc'[u] = pc[u] /\ job'[u] = job[u]
    BY <1>1 DEF IInv
  <2> QED BY <1>1, <2>1, JobInvFrame, TxInvFrame
<1> QED BY <1>2, <1>3, <1>4 DEF IInv

(* Neither an edit of a file nor a stuttering step touches what IInv is     *)
(* about.                                                                   *)
LEMMA SameStateStep ==
  ASSUME IInv, content' \in [Files -> Versions],
         UNCHANGED <<db, tx, lock, pc, job, cancelled, outcome, status>>
  PROVE  IInv'
<1>1. TypeOK'
  BY DEF IInv, TypeOK
<1>2. StoredExactly' /\ LockInv'
  BY DEF IInv, StoredExactly, Exact, HoldsResult, HoldsNoPaths, HoldsError,
         LockInv, Writing
<1>3. ASSUME NEW u \in Writers PROVE JobInv(u)' /\ TxInv(u)'
  <2>1. JobInv(u) /\ TxInv(u) /\ pc'[u] = pc[u] /\ job'[u] = job[u]
    BY DEF IInv
  <2> QED BY <2>1, JobInvFrame, TxInvFrame
<1> QED BY <1>1, <1>2, <1>3 DEF IInv

LEMMA EditStep ==
  ASSUME IInv, NEW f \in Files, Edit(f) PROVE IInv'
<1>1. content' \in [Files -> Versions]
  BY DEF IInv, TypeOK, Edit
<1> QED BY <1>1, SameStateStep DEF Edit, Unlocked

-----------------------------------------------------------------------------
(* Statements. *)

LEMMA DbFrame ==
  ASSUME StoredExactly, db' = db PROVE StoredExactly'
  BY DEF StoredExactly, Exact, HoldsResult, HoldsNoPaths, HoldsError

(* A step of the writer that holds the lock, or takes it. *)
LEMMA TransactionStep ==
  ASSUME IInv, NEW w \in Writers, TypeOK', StoredExactly',
         Writing(w) \/ lock = {},
         Writing(w)' => lock' = {w},
         ~ Writing(w)' => lock' = {} /\ tx' = db',
         \A u \in Writers \ {w} : pc'[u] = pc[u] /\ job'[u] = job[u],
         JobInv(w)', TxInv(w)'
  PROVE  IInv'
<1>1. ASSUME NEW u \in Writers \ {w} PROVE ~ Writing(u) /\ ~ Writing(u)'
  BY DEF IInv, LockInv, Writing
<1>2. LockInv'
  <2>1. \A u \in Writers : Writing(u)' <=> u \in lock'
    BY <1>1
  <2> QED BY <2>1 DEF LockInv
<1>3. ASSUME NEW u \in Writers PROVE JobInv(u)' /\ TxInv(u)'
  <2>1. CASE u = w
    BY <2>1
  <2>2. CASE u # w
    <3>1. JobInv(u)'
      BY <2>2, JobInvFrame DEF IInv
    <3>2. TxInv(u)'
      BY <1>1, <2>2 DEF TxInv, Writing
    <3> QED BY <3>1, <3>2
  <2> QED BY <2>1, <2>2
<1> QED BY <1>2, <1>3 DEF IInv

LEMMA WithoutType ==
  ASSUME NEW S, NEW t \in [Files -> S], NEW fs, NEW none \in S
  PROVE  Without(t, fs, none) \in [Files -> S]
  BY DEF Without

LEMMA TablesWith ==
  ASSUME NEW t \in Tables
  PROVE  /\ t.graphs \in [Files -> SUBSET Row]
         /\ t.file_paths \in [Files -> [Paths -> Nat]]
         /\ t.root_paths \in [Files -> [Paths -> Nat]]
         /\ \A g \in [Files -> SUBSET Row] :
              /\ [t EXCEPT !.graphs = g] \in Tables
              /\ [t EXCEPT !.graphs = g].graphs = g
              /\ [t EXCEPT !.graphs = g].file_paths = t.file_paths
              /\ [t EXCEPT !.graphs = g].root_paths = t.root_paths
         /\ \A g \in [Files -> [Paths -> Nat]] :
              /\ [t EXCEPT !.file_paths = g] \in Tables
              /\ [t EXCEPT !.file_paths = g].file_paths = g
              /\ [t EXCEPT !.file_paths = g].graphs = t.graphs
              /\ [t EXCEPT !.file_paths = g].root_paths = t.root_paths
         /\ \A g \in [Files -> [Paths -> Nat]] :
              /\ [t EXCEPT !.root_paths = g] \in Tables
              /\ [t EXCEPT !.root_paths = g].root_paths = g
              /\ [t EXCEPT !.root_paths = g].graphs = t.graphs
              /\ [t EXCEPT !.root_paths = g].file_paths = t.file_paths
  BY DEF Tables

LEMMA NoPathsType == NoPaths \in [Paths -> Nat]
  BY DEF NoPaths

(* The scope of a transaction in progress. *)
LEMMA ScopeIsTarget ==
  ASSUME IInv, NEW w \in Writers,
         pc[w] \in {"delete file_paths", "delete root_paths", "delete graphs"}
  PROVE  Target(w) = job[w].scope /\ Target(w) \subseteq Files
<1>1. JobInv(w) /\ job[w] \in Job
  BY DEF IInv, TypeOK
<1>2. job[w].op \in {"index", "clean"}
  BY <1>1 DEF JobInv
<1>3. job[w].op = "index" => job[w].scope = {file(w)}
  BY <1>1 DEF JobInv
<1>4. job[w].scope \subseteq Files
  BY <1>1 DEF Job
<1> QED BY <1>2, <1>3, <1>4 DEF Target

LEMMA DeleteFilePathsStep ==
  ASSUME IInv, NEW w \in Writers, DeleteFilePaths(w) PROVE IInv'
<1> DEFINE g == Without(db.file_paths, job[w].scope, NoPaths)
<1>1. /\ TypeOK /\ JobInv(w) /\ LockInv
      /\ lock = {} /\ lock' = {w} /\ pc[w] = "delete file_paths"
      /\ UNCHANGED <<content, db, cancelled, outcome, status, job>>
      /\ pc' = [pc EXCEPT ![w] = "delete root_paths"]
      /\ tx' = [db EXCEPT !.file_paths = g]
  BY DEF IInv, DeleteFilePaths, Locks, Goto
<1>2. db \in Tables
  BY <1>1 DEF TypeOK
<1>3. g \in [Files -> [Paths -> Nat]]
  BY <1>2, TablesWith, WithoutType, NoPathsType
<1>4. \A f \in Files : g[f] = IF f \in job[w].scope THEN NoPaths ELSE db.file_paths[f]
  BY DEF Without
<1> HIDE DEF g
<1>5. tx' \in Tables /\ tx'.file_paths = g /\ tx'.graphs = db.graphs
      /\ tx'.root_paths = db.root_paths
  <2> DEFINE t == [db EXCEPT !.file_paths = g]
  <2>1. t \in Tables /\ t.file_paths = g /\ t.graphs = db.graphs
        /\ t.root_paths = db.root_paths
    BY <1>2, <1>3, TablesWith
  <2>2. tx' = t
    BY <1>1
  <2> QED BY <2>1, <2>2
<1>6. TypeOK'
  BY <1>1, <1>5 DEF TypeOK, Locations
<1>7. /\ \A u \in Writers \ {w} : pc'[u] = pc[u] /\ job'[u] = job[u]
      /\ pc'[w] = "delete root_paths" /\ job'[w] = job[w]
      /\ file(w)' = file(w) /\ Target(w)' = Target(w) /\ Writing(w)'
  BY <1>1 DEF TypeOK, file, Target, Writing
<1>8. JobInv(w)'
  BY <1>1, <1>7 DEF JobInv
<1>9. Target(w) = job[w].scope /\ Target(w) \subseteq Files
  BY <1>1, ScopeIsTarget
<1>10. TxInv(w)'
  <2>1. \A f \in Files \ Target(w) : SameRows(tx, db, f)'
    BY <1>1, <1>4, <1>5, <1>9 DEF SameRows, SamePaths
  <2>2. \A f \in Target(w) : tx'.file_paths[f] = NoPaths
    BY <1>4, <1>5, <1>9
  <2> QED BY <1>7, <2>1, <2>2 DEF TxInv
<1> QED
  BY <1>1, <1>6, <1>7, <1>8, <1>10, DbFrame, TransactionStep DEF IInv

LEMMA DeleteRootPathsStep ==
  ASSUME IInv, NEW w \in Writers, DeleteRootPaths(w) PROVE IInv'
<1> DEFINE g == Without(tx.root_paths, job[w].scope, NoPaths)
<1>1. /\ TypeOK /\ JobInv(w) /\ TxInv(w) /\ LockInv /\ pc[w] = "delete root_paths"
      /\ UNCHANGED <<content, db, lock, cancelled, outcome, status, job>>
      /\ pc' = [pc EXCEPT ![w] = "delete graphs"]
      /\ tx' = [tx EXCEPT !.root_paths = g]
  BY DEF IInv, DeleteRootPaths, Within, Goto
<1>2. tx \in Tables
  BY <1>1 DEF TypeOK
<1>3. g \in [Files -> [Paths -> Nat]]
  BY <1>2, TablesWith, WithoutType, NoPathsType
<1>4. \A f \in Files : g[f] = IF f \in job[w].scope THEN NoPaths ELSE tx.root_paths[f]
  BY DEF Without
<1> HIDE DEF g
<1>5. tx' \in Tables /\ tx'.root_paths = g /\ tx'.graphs = tx.graphs
      /\ tx'.file_paths = tx.file_paths
  BY <1>1, <1>2, <1>3, TablesWith
<1>6. TypeOK'
  BY <1>1, <1>5 DEF TypeOK, Locations
<1>7. /\ \A u \in Writers \ {w} : pc'[u] = pc[u] /\ job'[u] = job[u]
      /\ pc'[w] = "delete graphs" /\ job'[w] = job[w]
      /\ file(w)' = file(w) /\ Target(w)' = Target(w) /\ Writing(w) /\ Writing(w)'
      /\ lock' = {w}
  BY <1>1 DEF TypeOK, file, Target, Writing, LockInv
<1>8. JobInv(w)'
  BY <1>1, <1>7 DEF JobInv
<1>9. Target(w) = job[w].scope /\ Target(w) \subseteq Files
  BY <1>1, ScopeIsTarget
<1>10. TxInv(w)'
  <2>1. \A f \in Files \ Target(w) : SameRows(tx, db, f)
    BY <1>1, <1>7 DEF TxInv
  <2>2. \A f \in Files \ Target(w) : SameRows(tx, db, f)'
    BY <1>1, <1>4, <1>5, <1>9, <2>1 DEF SameRows, SamePaths
  <2>3. \A f \in Target(w) : tx.file_paths[f] = NoPaths
    BY <1>1 DEF TxInv
  <2>4. \A f \in Target(w) : HoldsNoPaths(tx, f)'
    BY <1>4, <1>5, <1>9, <2>3 DEF HoldsNoPaths, NoPaths
  <2> QED BY <1>7, <2>2, <2>4 DEF TxInv
<1> QED
  BY <1>1, <1>6, <1>7, <1>8, <1>10, DbFrame, TransactionStep DEF IInv

LEMMA DeleteGraphsStep ==
  ASSUME IInv, NEW w \in Writers, DeleteGraphs(w) PROVE IInv'
<1> DEFINE g == Without(tx.graphs, job[w].scope, {})
           l == IF job[w].op = "clean" THEN "commit" ELSE "insert graph"
<1>1. /\ TypeOK /\ JobInv(w) /\ TxInv(w) /\ LockInv /\ pc[w] = "delete graphs"
      /\ UNCHANGED <<content, db, lock, cancelled, outcome, status, job>>
      /\ pc' = [pc EXCEPT ![w] = l]
      /\ tx' = [tx EXCEPT !.graphs = g]
  BY DEF IInv, DeleteGraphs, Within, Goto
<1>2. tx \in Tables
  BY <1>1 DEF TypeOK
<1>3. g \in [Files -> SUBSET Row]
  BY <1>2, TablesWith, WithoutType
<1>4. \A f \in Files : g[f] = IF f \in job[w].scope THEN {} ELSE tx.graphs[f]
  BY DEF Without
<1> HIDE DEF g
<1>5. tx' \in Tables /\ tx'.graphs = g /\ tx'.root_paths = tx.root_paths
      /\ tx'.file_paths = tx.file_paths
  <2> DEFINE t == [tx EXCEPT !.graphs = g]
  <2>1. t \in Tables /\ t.graphs = g /\ t.root_paths = tx.root_paths
        /\ t.file_paths = tx.file_paths
    BY <1>2, <1>3, TablesWith
  <2>2. tx' = t
    BY <1>1
  <2> QED BY <2>1, <2>2
<1>6. TypeOK'
  BY <1>1, <1>5 DEF TypeOK, Locations
<1>7. /\ \A u \in Writers \ {w} : pc'[u] = pc[u] /\ job'[u] = job[u]
      /\ pc'[w] = l /\ job'[w] = job[w]
      /\ file(w)' = file(w) /\ Target(w)' = Target(w) /\ Writing(w) /\ Writing(w)'
      /\ lock' = {w}
  BY <1>1 DEF TypeOK, file, Target, Writing, LockInv
<1>8. job[w].op \in {"clean", "index"}
  BY <1>1 DEF JobInv
<1>9. JobInv(w)'
  <2>3. pc[w] = "delete graphs" /\ JobInv(w) /\ job'[w] = job[w] /\ file(w)' = file(w)
    BY <1>1, <1>7
  <2>1. CASE job[w].op = "clean"
    <3>1. pc'[w] = "commit"
      BY <1>7, <2>1
    <3> QED BY <2>1, <2>3, <3>1 DEF JobInv
  <2>2. CASE job[w].op = "index"
    <3>1. pc'[w] = "insert graph"
      BY <1>7, <2>2
    <3> QED BY <2>2, <2>3, <3>1 DEF JobInv
  <2> QED BY <1>8, <2>1, <2>2
<1>10. Target(w) = job[w].scope /\ Target(w) \subseteq Files
  BY <1>1, ScopeIsTarget
<1>11. TxInv(w)'
  <2>1. \A f \in Files \ Target(w) : SameRows(tx, db, f)
    BY <1>1, <1>7 DEF TxInv
  <2>2. \A f \in Files \ Target(w) : SameRows(tx, db, f)'
    BY <1>1, <1>4, <1>5, <1>10, <2>1 DEF SameRows, SamePaths
  <2>3. \A f \in Target(w) : HoldsNoPaths(tx, f)
    BY <1>1 DEF TxInv
  <2>4. \A f \in Target(w) : HoldsNoPaths(tx, f)'
    BY <1>5, <2>3 DEF HoldsNoPaths, NoPaths
  <2>5. \A f \in Target(w) : tx'.graphs[f] = {}
    BY <1>4, <1>5, <1>10
  <2>6. l = "insert graph" => file(w) \in Target(w)
    BY DEF Target
  <2> QED BY <1>7, <1>8, <2>2, <2>4, <2>5, <2>6 DEF TxInv
<1> QED
  BY <1>1, <1>6, <1>7, <1>9, <1>11, DbFrame, TransactionStep DEF IInv

LEMMA InsertGraphStep ==
  ASSUME IInv, NEW w \in Writers, InsertGraph(w) PROVE IInv'
<1>1. /\ TypeOK /\ JobInv(w) /\ TxInv(w) /\ LockInv /\ pc[w] = "insert graph"
      /\ UNCHANGED <<content, db, lock, cancelled, outcome, status, job>>
      /\ pc' = [pc EXCEPT ![w] = "insert paths"]
  BY DEF IInv, InsertGraph, Within, Goto
<1>2. /\ job[w].op = "index" /\ file(w) \in Files
      /\ \E v \in Versions : job[w].tag = {v}
  BY <1>1, CurrentFile
<1>3. PICK v \in Versions : job[w].tag = {v}
  BY <1>2
<1> DEFINE g == [tx.graphs EXCEPT ![file(w)] = {ResultRow(v)}]
<1>4. tx' = [tx EXCEPT !.graphs = g]
  BY <1>3 DEF InsertGraph, ResultRow
<1>5. tx \in Tables
  BY <1>1 DEF TypeOK
<1>6. /\ g \in [Files -> SUBSET Row]
      /\ g[file(w)] = {ResultRow(v)}
      /\ \A f \in Files \ {file(w)} : g[f] = tx.graphs[f]
  <2>1. tx.graphs \in [Files -> SUBSET Row]
    BY <1>5, TablesWith
  <2>2. ResultRow(v) \in Row
    BY DEF ResultRow, Row
  <2> QED BY <1>2, <2>1, <2>2
<1> HIDE DEF g
<1>7. tx' \in Tables /\ tx'.graphs = g /\ tx'.root_paths = tx.root_paths
      /\ tx'.file_paths = tx.file_paths
  BY <1>4, <1>5, <1>6, TablesWith
<1>8. TypeOK'
  BY <1>1, <1>7 DEF TypeOK, Locations
<1>9. /\ \A u \in Writers \ {w} : pc'[u] = pc[u] /\ job'[u] = job[u]
      /\ pc'[w] = "insert paths" /\ job'[w] = job[w]
      /\ file(w)' = file(w) /\ Target(w)' = Target(w) /\ Writing(w) /\ Writing(w)'
      /\ lock' = {w} /\ Target(w) = {file(w)}
  <2>1. /\ \A u \in Writers \ {w} : pc'[u] = pc[u] /\ job'[u] = job[u]
        /\ pc'[w] = "insert paths" /\ job'[w] = job[w]
    BY <1>1 DEF TypeOK
  <2>2. Writing(w) /\ Writing(w)'
    BY <1>1, <2>1 DEF Writing
  <2>3. lock' = {w}
    BY <1>1, <2>2 DEF LockInv
  <2>4. file(w)' = file(w) /\ Target(w)' = Target(w) /\ Target(w) = {file(w)}
    BY <1>2, <2>1 DEF file, Target
  <2> QED BY <2>1, <2>2, <2>3, <2>4
<1>10. JobInv(w)'
  BY <1>1, <1>9 DEF JobInv
<1>11. TxInv(w)'
  <2>1. \A f \in Files \ Target(w) : SameRows(tx, db, f)
    BY <1>1, <1>9 DEF TxInv
  <2>2. \A f \in Files \ Target(w) : SameRows(tx, db, f)'
    BY <1>1, <1>6, <1>7, <1>9, <2>1 DEF SameRows, SamePaths
  <2>3. HoldsNoPaths(tx, file(w))
    BY <1>1, <1>9 DEF TxInv
  <2>4. job[w].remaining = PathsOf[v]
    BY <1>1, <1>2, <1>3 DEF JobInv
  <2>5. /\ tx'.file_paths[file(w)] = Once((PathsOf[v] \ job[w].remaining) \ FromRoot)
        /\ tx'.root_paths[file(w)] = Once((PathsOf[v] \ job[w].remaining) \cap FromRoot)
    BY <1>7, <2>3, <2>4 DEF HoldsNoPaths, NoPaths, Once
  <2> QED BY <1>3, <1>6, <1>7, <1>9, <2>2, <2>4, <2>5 DEF TxInv, ResultRow
<1> QED
  BY <1>1, <1>8, <1>9, <1>10, <1>11, DbFrame, TransactionStep DEF IInv

(* Counting a path that is not there yet. *)
LEMMA OnceMore ==
  ASSUME NEW ps \in SUBSET Paths, NEW p \in Paths, p \notin ps
  PROVE  [Once(ps) EXCEPT ![p] = @ + 1] = Once(ps \cup {p})
<1> DEFINE g == [Once(ps) EXCEPT ![p] = @ + 1]
           h == Once(ps \cup {p})
<1>1. /\ g \in [Paths -> Nat] /\ h \in [Paths -> Nat]
      /\ g[p] = 1 /\ h[p] = 1
  BY DEF Once
<1>2. \A q \in Paths \ {p} : g[q] = h[q]
  BY DEF Once
<1> HIDE DEF g, h
<1>3. g = h
  BY <1>1, <1>2
<1> QED BY <1>3 DEF g, h

LEMMA InsertPathStep ==
  ASSUME IInv, NEW w \in Writers, InsertPath(w) PROVE IInv'
<1>1. /\ TypeOK /\ JobInv(w) /\ TxInv(w) /\ LockInv /\ pc[w] = "insert paths"
      /\ UNCHANGED <<content, db, lock, cancelled, outcome, status, pc>>
  BY DEF IInv, InsertPath, Within
<1>2. /\ job[w] \in Job /\ job[w].op = "index" /\ file(w) \in Files
      /\ job[w].pos \in 1..Len(job[w].list)
      /\ \E v \in Versions : job[w].tag = {v}
  BY <1>1, CurrentFile
<1>3. PICK v \in Versions : job[w].tag = {v}
  BY <1>2
<1>4. PICK p \in job[w].remaining :
        /\ tx' = IF p \in FromRoot
                 THEN [tx EXCEPT !.root_paths[file(w)][p] = @ + 1]
                 ELSE [tx EXCEPT !.file_paths[file(w)][p] = @ + 1]
        /\ job' = [job EXCEPT ![w].remaining = @ \ {p}]
  BY DEF InsertPath
<1> DEFINE R == job[w].remaining
           j == [job[w] EXCEPT !.remaining = R \ {p}]
<1>5. R \subseteq Paths /\ R \subseteq PathsOf[v] /\ PathsOf[v] \subseteq Paths
  BY <1>1, <1>2, <1>3, IndexingAssumption DEF Job, TxInv
<1>6. /\ j \in Job /\ j.op = job[w].op /\ j.list = job[w].list /\ j.pos = job[w].pos
      /\ j.message = job[w].message /\ j.tag = job[w].tag /\ j.scope = job[w].scope
      /\ j.remaining = R \ {p}
  BY <1>2 DEF Job
<1>7. job' = [job EXCEPT ![w] = j]
  BY <1>1, <1>4 DEF TypeOK
<1> HIDE DEF j
<1>8. /\ \A u \in Writers \ {w} : pc'[u] = pc[u] /\ job'[u] = job[u]
      /\ pc'[w] = "insert paths" /\ job'[w] = j
      /\ job' \in [Writers -> Job]
  BY <1>1, <1>6, <1>7 DEF TypeOK
<1>9. Writing(w) /\ Writing(w)' /\ lock' = {w}
  BY <1>1, <1>8 DEF Writing, LockInv
<1>10. file(w)' = file(w) /\ Target(w)' = {file(w)} /\ Target(w) = {file(w)}
  BY <1>2, <1>6, <1>8 DEF file, Target
<1>11. JobInv(w)'
  <2>1. job[w].message = "none"
    BY <1>1 DEF JobInv
  <2> QED BY <1>2, <1>3, <1>6, <1>8, <2>1 DEF JobInv
<1>12. /\ tx \in Tables
       /\ tx.file_paths \in [Files -> [Paths -> Nat]]
       /\ tx.root_paths \in [Files -> [Paths -> Nat]]
  BY <1>1, TablesWith DEF TypeOK
<1>13. /\ tx.graphs[file(w)] = {ResultRow(v)}
       /\ tx.file_paths[file(w)] = Once((PathsOf[v] \ R) \ FromRoot)
       /\ tx.root_paths[file(w)] = Once((PathsOf[v] \ R) \cap FromRoot)
       /\ \A f \in Files \ Target(w) : SameRows(tx, db, f)
  BY <1>1, <1>3, <1>9 DEF TxInv
<1> DEFINE S == PathsOf[v] \ (R \ {p})
<1>14. /\ tx' \in Tables
       /\ \A f \in Files \ {file(w)} : SameRows(tx, db, f)'
       /\ tx'.graphs[file(w)] = {ResultRow(v)}
       /\ tx'.file_paths[file(w)] = Once(S \ FromRoot)
       /\ tx'.root_paths[file(w)] = Once(S \cap FromRoot)
  <2>1. CASE p \in FromRoot
    <3> DEFINE g == [tx.root_paths EXCEPT ![file(w)][p] = @ + 1]
               t == [tx EXCEPT !.root_paths = g]
    <3>1. tx' = t
      BY <1>4, <2>1
    <3>2. /\ g \in [Files -> [Paths -> Nat]]
          /\ \A f \in Files \ {file(w)} : g[f] = tx.root_paths[f]
          /\ g[file(w)] = [tx.root_paths[file(w)] EXCEPT ![p] = @ + 1]
      BY <1>2, <1>4, <1>5, <1>12
    <3> HIDE DEF g
    <3>3. t \in Tables /\ t.root_paths = g /\ t.graphs = tx.graphs
          /\ t.file_paths = tx.file_paths
      BY <1>12, <3>2, TablesWith
    <3>4. \A f \in Files \ {file(w)} : SameRows(tx, db, f)'
      BY <1>1, <1>10, <1>13, <3>1, <3>2, <3>3 DEF SameRows, SamePaths
    <3>5. g[file(w)] = Once(((PathsOf[v] \ R) \cap FromRoot) \cup {p})
      BY <1>4, <1>5, <1>13, <3>2, OnceMore
    <3>6. ((PathsOf[v] \ R) \cap FromRoot) \cup {p} = S \cap FromRoot
      BY <1>4, <1>5, <2>1
    <3>7. (PathsOf[v] \ R) \ FromRoot = S \ FromRoot
      BY <1>4, <1>5, <2>1
    <3> QED BY <1>13, <3>1, <3>3, <3>4, <3>5, <3>6, <3>7
  <2>2. CASE p \notin FromRoot
    <3> DEFINE g == [tx.file_paths EXCEPT ![file(w)][p] = @ + 1]
               t == [tx EXCEPT !.file_paths = g]
    <3>1. tx' = t
      BY <1>4, <2>2
    <3>2. /\ g \in [Files -> [Paths -> Nat]]
          /\ \A f \in Files \ {file(w)} : g[f] = tx.file_paths[f]
          /\ g[file(w)] = [tx.file_paths[file(w)] EXCEPT ![p] = @ + 1]
      BY <1>2, <1>4, <1>5, <1>12
    <3> HIDE DEF g
    <3>3. t \in Tables /\ t.file_paths = g /\ t.graphs = tx.graphs
          /\ t.root_paths = tx.root_paths
      BY <1>12, <3>2, TablesWith
    <3>4. \A f \in Files \ {file(w)} : SameRows(tx, db, f)'
      BY <1>1, <1>10, <1>13, <3>1, <3>2, <3>3 DEF SameRows, SamePaths
    <3>5. g[file(w)] = Once(((PathsOf[v] \ R) \ FromRoot) \cup {p})
      BY <1>4, <1>5, <1>13, <3>2, OnceMore
    <3>6. ((PathsOf[v] \ R) \ FromRoot) \cup {p} = S \ FromRoot
      BY <1>4, <1>5, <2>2
    <3>7. (PathsOf[v] \ R) \cap FromRoot = S \cap FromRoot
      BY <1>4, <1>5, <2>2
    <3> QED BY <1>13, <3>1, <3>3, <3>4, <3>5, <3>6, <3>7
  <2> QED BY <2>1, <2>2
<1>15. TypeOK'
  BY <1>1, <1>8, <1>14 DEF TypeOK
<1>16. TxInv(w)'
  BY <1>3, <1>5, <1>6, <1>8, <1>10, <1>14 DEF TxInv
<1> QED
  BY <1>1, <1>8, <1>9, <1>11, <1>15, <1>16, DbFrame, TransactionStep DEF IInv

LEMMA AllPathsInsertedStep ==
  ASSUME IInv, NEW w \in Writers, AllPathsInserted(w) PROVE IInv'
<1>1. /\ TypeOK /\ JobInv(w) /\ TxInv(w) /\ LockInv /\ pc[w] = "insert paths"
      /\ UNCHANGED <<content, db, tx, lock, cancelled, outcome, status, job>>
      /\ pc' = [pc EXCEPT ![w] = "commit"]
      /\ job[w].remaining = {}
  BY DEF IInv, AllPathsInserted, Within, Goto
<1>2. /\ job[w] \in Job /\ job[w].op = "index" /\ file(w) \in Files
      /\ job[w].pos \in 1..Len(job[w].list)
      /\ \E v \in Versions : job[w].tag = {v}
  BY <1>1, CurrentFile
<1>3. PICK v \in Versions : job[w].tag = {v}
  BY <1>2
<1>4. /\ \A u \in Writers \ {w} : pc'[u] = pc[u] /\ job'[u] = job[u]
      /\ pc'[w] = "commit" /\ job'[w] = job[w]
      /\ file(w)' = file(w) /\ Target(w)' = Target(w) /\ Writing(w) /\ Writing(w)'
  BY <1>1 DEF TypeOK, file, Target, Writing
<1>5. lock' = {w}
  BY <1>1, <1>4 DEF LockInv
<1>6. TypeOK'
  BY <1>1 DEF TypeOK, Locations
<1>7. job[w].message = "none"
  BY <1>1 DEF JobInv
<1>8. JobInv(w)'
  BY <1>2, <1>4, <1>7 DEF JobInv
<1>9. TxInv(w)'
  <2>1. \A f \in Files \ Target(w) : SameRows(tx, db, f)'
    BY <1>1, <1>4 DEF TxInv, SameRows, SamePaths
  <2>2. HoldsResult(tx, file(w), v)
    <3>1. /\ tx.graphs[file(w)] = {ResultRow(v)}
          /\ tx.file_paths[file(w)] = Once((PathsOf[v] \ job[w].remaining) \ FromRoot)
          /\ tx.root_paths[file(w)] = Once((PathsOf[v] \ job[w].remaining) \cap FromRoot)
      BY <1>1, <1>3 DEF TxInv
    <3>2. PathsOf[v] \ job[w].remaining = PathsOf[v]
      BY <1>1
    <3> QED BY <3>1, <3>2 DEF HoldsResult
  <2>3. HoldsResult(tx', file(w)', v)
    BY <1>1, <1>4, <2>2
  <2> QED BY <1>2, <1>3, <1>4, <1>7, <2>1, <2>3 DEF TxInv
<1> QED
  BY <1>1, <1>4, <1>5, <1>6, <1>8, <1>9, DbFrame, TransactionStep DEF IInv

(* A file without a row has no paths. *)
LEMMA NoRowNoPaths ==
  ASSUME NEW f \in Files, Exact(db, f), db.graphs[f] = {}
  PROVE  HoldsNoPaths(db, f)
  BY DEF Exact, HoldsResult, HoldsError

LEMMA InsertErrorStep ==
  ASSUME IInv, NEW w \in Writers, InsertError(w) PROVE IInv'
<1>1. /\ TypeOK /\ StoredExactly /\ JobInv(w) /\ LockInv /\ pc[w] = "insert error"
      /\ UNCHANGED <<content, db, cancelled, outcome, status, job>>
      /\ lock = {} /\ lock' = {w} /\ tx = db
      /\ pc' = [pc EXCEPT ![w] = "commit"]
      /\ tx.graphs[file(w)] = {}
  BY DEF IInv, LockInv, InsertError, Locks, Goto
<1>2. /\ job[w] \in Job /\ job[w].op = "index" /\ file(w) \in Files
      /\ job[w].pos \in 1..Len(job[w].list)
      /\ \E v \in Versions : job[w].tag = {v}
  BY <1>1, CurrentFile
<1>3. PICK v \in Versions : job[w].tag = {v}
  BY <1>2
<1>4. job[w].message \in Messages
  BY <1>1 DEF JobInv
<1> DEFINE m == job[w].message
           g == [tx.graphs EXCEPT ![file(w)] = {ErrorRow(v, m)}]
           t == [tx EXCEPT !.graphs = g]
<1>5. tx' = t
  BY <1>3 DEF InsertError, ErrorRow
<1>6. tx \in Tables
  BY <1>1 DEF TypeOK
<1>7. /\ g \in [Files -> SUBSET Row]
      /\ g[file(w)] = {ErrorRow(v, m)}
      /\ \A f \in Files \ {file(w)} : g[f] = tx.graphs[f]
  <2>1. tx.graphs \in [Files -> SUBSET Row]
    BY <1>6, TablesWith
  <2>2. ErrorRow(v, m) \in Row
    BY <1>4 DEF ErrorRow, Row
  <2> QED BY <1>2, <2>1, <2>2
<1> HIDE DEF g
<1>8. t \in Tables /\ t.graphs = g /\ t.root_paths = tx.root_paths
      /\ t.file_paths = tx.file_paths
  BY <1>6, <1>7, TablesWith
<1>9. TypeOK'
  BY <1>1, <1>5, <1>8 DEF TypeOK, Locations
<1>10. /\ \A u \in Writers \ {w} : pc'[u] = pc[u] /\ job'[u] = job[u]
       /\ pc'[w] = "commit" /\ job'[w] = job[w]
  BY <1>1 DEF TypeOK
<1>11. Writing(w)' /\ file(w)' = file(w) /\ Target(w)' = {file(w)}
  BY <1>2, <1>10 DEF Writing, file, Target
<1>12. JobInv(w)'
  BY <1>2, <1>4, <1>10 DEF JobInv
<1>13. TxInv(w)'
  <2>1. \A f \in Files \ {file(w)} : SameRows(tx, db, f)'
    BY <1>1, <1>5, <1>7, <1>8 DEF SameRows, SamePaths
  <2>2. HoldsNoPaths(db, file(w))
    BY <1>1, <1>2, NoRowNoPaths DEF StoredExactly
  <2>3. HoldsNoPaths(tx', file(w)')
    BY <1>1, <1>5, <1>8, <1>11, <2>2 DEF HoldsNoPaths, NoPaths
  <2>4. tx'.graphs[file(w)] = {ErrorRow(v, m)} /\ db'.graphs[file(w)] = {}
    BY <1>1, <1>5, <1>7, <1>8
  <2>5. \A x \in job'[w].tag : x = v
    BY <1>3, <1>10
  <2> QED
    BY <1>2, <1>4, <1>10, <1>11, <2>1, <2>3, <2>4, <2>5 DEF TxInv
<1> QED
  BY <1>1, <1>9, <1>10, <1>11, <1>12, <1>13, DbFrame, TransactionStep DEF IInv

LEMMA ExactFrame ==
  ASSUME NEW f \in Files, NEW t, NEW u, SameRows(t, u, f), Exact(u, f)
  PROVE  Exact(t, f)
  BY DEF SameRows, SamePaths, Exact, HoldsResult, HoldsError, HoldsNoPaths

LEMMA CommitStep ==
  ASSUME IInv, NEW w \in Writers, Commit(w) PROVE IInv'
<1>1. /\ TypeOK /\ StoredExactly /\ JobInv(w) /\ TxInv(w) /\ LockInv /\ pc[w] = "commit"
      /\ UNCHANGED <<content, tx>> /\ db' = tx /\ lock' = {}
      /\ Writing(w)
  BY DEF IInv, Commit, Writing
<1>2. job[w] \in Job /\ status[w] \in SUBSET Flags
  BY <1>1 DEF TypeOK
<1>3. \A f \in Files : Exact(tx, f)
  <2>1. ASSUME NEW f \in Files \ Target(w) PROVE Exact(tx, f)
    <3>1. SameRows(tx, db, f)
      BY <1>1 DEF TxInv
    <3> QED BY <1>1, <3>1, ExactFrame DEF StoredExactly
  <2>2. ASSUME NEW f \in Target(w), f \in Files PROVE Exact(tx, f)
    <3>1. CASE job[w].op = "clean"
      BY <1>1, <3>1 DEF TxInv, Exact
    <3>2. CASE job[w].op = "index"
      <4>1. f = file(w)
        BY <3>2 DEF Target
      <4>2. PICK v \in Versions : job[w].tag = {v}
        BY <1>1, <3>2 DEF JobInv
      <4>3. \/ HoldsResult(tx, f, v)
            \/ /\ job[w].message \in Messages
               /\ tx.graphs[f] = {ErrorRow(v, job[w].message)}
               /\ HoldsNoPaths(tx, f)
        BY <1>1, <3>2, <4>1, <4>2 DEF TxInv
      <4> QED BY <4>3 DEF Exact, HoldsError
    <3> QED BY <1>1, <3>1, <3>2 DEF JobInv
  <2> QED BY <2>1, <2>2
<1>4. StoredExactly'
  BY <1>1, <1>3 DEF StoredExactly, Exact, HoldsResult, HoldsNoPaths, HoldsError
<1>5. CASE Return(w, "ok") /\ UNCHANGED status
  <2>1. TypeOK'
    BY <1>1, <1>5, ReturnFacts DEF TypeOK
  <2>2. ~ Writing(w)' /\ JobInv(w)'
        /\ \A u \in Writers \ {w} : pc'[u] = pc[u] /\ job'[u] = job[u]
    BY <1>1, <1>5, ReturnFacts DEF Writing
  <2>3. TxInv(w)'
    BY <2>2 DEF TxInv, Writing
  <2> QED BY <1>1, <1>4, <2>1, <2>2, <2>3, TransactionStep
<1>6. CASE /\ job[w].op = "index"
           /\ NextFile(w, IF job[w].message = "none" THEN Report(status[w]) ELSE status[w])
  <2> DEFINE s == IF job[w].message = "none" THEN Report(status[w]) ELSE status[w]
  <2>1. s \in SUBSET Flags /\ NextFile(w, s)
    BY <1>2, <1>6, ReporterFacts
  <2> HIDE DEF s
  <2>2. TypeOK'
    BY <1>1, <1>6, <2>1, NextFileFacts DEF TypeOK
  <2>3. ~ Writing(w)' /\ JobInv(w)'
        /\ \A u \in Writers \ {w} : pc'[u] = pc[u] /\ job'[u] = job[u]
    BY <1>1, <1>6, <2>1, NextFileFacts DEF Writing
  <2>4. TxInv(w)'
    BY <2>3 DEF TxInv, Writing
  <2> QED BY <1>1, <1>4, <2>2, <2>3, <2>4, TransactionStep
<1> QED BY <1>5, <1>6 DEF Commit

(* A call that returns with its transaction rolled back. *)
LEMMA RollbackStep ==
  ASSUME IInv, NEW w \in Writers,
         NEW o \in {"none", "ok", "cancelled", "error", "killed"}, Return(w, o),
         status' \in [Writers -> SUBSET Flags], UNCHANGED <<content, db>>,
         Writing(w) \/ lock = {},
         Rollback
  PROVE  IInv'
<1>1. TypeOK /\ StoredExactly
  BY DEF IInv
<1>2. TypeOK'
  BY <1>1, ReturnFacts DEF TypeOK, Rollback
<1>3. ~ Writing(w)' /\ JobInv(w)'
      /\ \A u \in Writers \ {w} : pc'[u] = pc[u] /\ job'[u] = job[u]
  BY <1>1, ReturnFacts DEF Writing
<1>4. TxInv(w)'
  BY <1>3 DEF TxInv, Writing
<1> QED
  BY <1>1, <1>2, <1>3, <1>4, DbFrame, TransactionStep DEF Rollback

LEMMA PrimaryKeyConflictStep ==
  ASSUME IInv, NEW w \in Writers, PrimaryKeyConflict(w) PROVE IInv'
<1>1. Return(w, "error") /\ status' \in [Writers -> SUBSET Flags]
  BY AbortFacts DEF IInv, PrimaryKeyConflict
<1>2. Writing(w) \/ lock = {}
  BY DEF PrimaryKeyConflict, Writing
<1> QED BY <1>1, <1>2, RollbackStep DEF PrimaryKeyConflict

LEMMA StatementFailsStep ==
  ASSUME IInv, NEW w \in Writers, StatementFails(w) PROVE IInv'
<1>1. Return(w, "error") /\ status' \in [Writers -> SUBSET Flags]
  BY AbortFacts DEF IInv, StatementFails
<1> QED BY <1>1, RollbackStep DEF StatementFails

LEMMA KillStep ==
  ASSUME IInv, NEW w \in Writers, Kill(w) PROVE IInv'
<1>1. /\ TypeOK /\ LockInv /\ Return(w, "killed")
      /\ UNCHANGED <<content, db, status>>
      /\ status' \in [Writers -> SUBSET Flags]
  BY DEF IInv, TypeOK, Kill
<1>2. CASE lock = {w}
  <2>1. Writing(w) /\ Rollback
    BY <1>1, <1>2 DEF LockInv, Kill
  <2> QED BY <1>1, <2>1, RollbackStep
<1>3. CASE lock # {w}
  <2>1. ~ Writing(w)
    BY <1>1, <1>3 DEF LockInv, TypeOK
  <2>2. UNCHANGED <<db, tx, lock>>
    BY <1>1, <1>3 DEF Kill
  <2>3. TypeOK'
    BY <1>1, <2>2, ReturnFacts DEF TypeOK
  <2> QED
    BY <1>1, <2>1, <2>2, <2>3, ReturnFacts, OutsideTransaction DEF Writing
<1> QED BY <1>2, <1>3

-----------------------------------------------------------------------------
LEMMA NextIInv == IInv /\ [Next]_vars => IInv'
<1> SUFFICES ASSUME IInv, [Next]_vars PROVE IInv'
  OBVIOUS
<1>1. ASSUME NEW w \in Writers, StartIndexing(w) \/ StartCleaning(w) PROVE IInv'
  BY <1>1, StartIndexingStep, StartCleaningStep
<1>2. ASSUME NEW w \in Writers, Progress(w) PROVE IInv'
  BY <1>2, FinishIndexingStep, TakeFileStep, LoadFileStep, QueryStatusStep,
     BuildStackGraphStep, FindPartialPathsStep, DeleteFilePathsStep,
     DeleteRootPathsStep, DeleteGraphsStep, InsertGraphStep, InsertPathStep,
     AllPathsInsertedStep, InsertErrorStep, CommitStep, PrimaryKeyConflictStep,
     DatabaseBusyStep DEF Progress
<1>3. ASSUME NEW w \in Writers, StatementFails(w) \/ Kill(w) \/ RaiseFlag(w) PROVE IInv'
  BY <1>3, StatementFailsStep, KillStep, RaiseFlagStep
<1>4. ASSUME NEW f \in Files, Edit(f) PROVE IInv'
  BY <1>4, EditStep
<1>5. ASSUME UNCHANGED vars PROVE IInv'
  <2>1. content' \in [Files -> Versions]
    BY <1>5 DEF vars, IInv, TypeOK
  <2> QED BY <1>5, <2>1, SameStateStep DEF vars
<1> QED BY <1>1, <1>2, <1>3, <1>4, <1>5 DEF Next

(* The strengthening of StoredExactly that the statements of SQLiteWriter   *)
(* preserve one by one: who holds the lock, what the locals of a call hold  *)
(* and how far its transaction has come.                                    *)
THEOREM Inductive == Spec => []IInv
<1>1. Init => IInv
  BY InitIInv
<1>2. IInv /\ [Next]_vars => IInv'
  BY NextIInv
<1> QED BY <1>1, <1>2, PTL DEF Spec

(* Every variable of the writers and of the database keeps its type. *)
THEOREM TypeCorrect == Spec => []TypeOK
<1>1. IInv => TypeOK
  BY DEF IInv
<1> QED BY <1>1, Inductive, PTL

(* For any number of files, contents, paths and writers: whatever order     *)
(* statements, crashes, failures and edits come in, what is committed for   *)
(* a file is nothing, an error without paths, or one complete result.       *)
THEOREM StoresExactly == Spec => []StoredExactly
<1>1. IInv => StoredExactly
  BY DEF IInv
<1> QED BY <1>1, Inductive, PTL

-----------------------------------------------------------------------------
(* Only COMMIT shows a reader anything, and it shows one step of FileIndex. *)

LEMMA EntriesOfNothing ==
  ASSUME NEW f \in Files, NEW t, t.graphs[f] = {} PROVE Entries(t, f) = {}
  BY DEF Entries, HoldsResult

LEMMA EntriesOfResult ==
  ASSUME NEW f \in Files, NEW t, NEW v \in Versions, HoldsResult(t, f, v)
  PROVE  Entries(t, f) = {[kind |-> "result", tag |-> v]}
<1>1. t.graphs[f] = {ResultRow(v)}
  BY DEF HoldsResult
<1>2. ASSUME NEW x \in Versions, HoldsResult(t, f, x) PROVE x = v
  <2>1. ResultRow(x) = ResultRow(v)
    BY <1>1, <1>2 DEF HoldsResult
  <2>2. ResultRow(x).tag = ResultRow(v).tag
    BY <2>1
  <2> QED BY <2>2 DEF ResultRow
<1>3. {x \in Versions : HoldsResult(t, f, x)} = {v}
  BY <1>2
<1>4. {x \in t.graphs[f] : x.error \in Messages} = {}
  <2>1. ResultRow(v).error \notin Messages
    BY DEF ResultRow, Messages
  <2> HIDE DEF ResultRow, Messages
  <2> QED BY <1>1, <2>1
<1> QED BY <1>3, <1>4 DEF Entries

LEMMA EntriesOfError ==
  ASSUME NEW f \in Files, NEW t, NEW v \in Versions, NEW m \in Messages,
         t.graphs[f] = {ErrorRow(v, m)}
  PROVE  Entries(t, f) = {[kind |-> "error", tag |-> v, error |-> m]}
<1>1. ASSUME NEW x \in Versions PROVE ~ HoldsResult(t, f, x)
  <2>1. ResultRow(x).error # ErrorRow(v, m).error
    BY DEF ResultRow, ErrorRow, Messages
  <2>2. ResultRow(x) # ErrorRow(v, m)
    BY <2>1
  <2> QED BY <2>2 DEF HoldsResult
<1>2. {x \in Versions : HoldsResult(t, f, x)} = {}
  BY <1>1
<1>3. {x \in t.graphs[f] : x.error \in Messages} = {ErrorRow(v, m)}
  BY DEF ErrorRow
<1>4. ErrorRow(v, m).tag = v /\ ErrorRow(v, m).error = m
  BY DEF ErrorRow
<1> HIDE DEF Messages
<1> QED BY <1>2, <1>3, <1>4 DEF Entries

LEMMA EntriesFrame ==
  ASSUME NEW f \in Files, NEW t, NEW u, SameRows(t, u, f)
  PROVE  Entries(t, f) = Entries(u, f)
  BY DEF SameRows, SamePaths, Entries, HoldsResult

LEMMA DbIndexFrame ==
  ASSUME db' = db PROVE StoredIndex' = StoredIndex
  BY DEF StoredIndex, Entries, HoldsResult

LEMMA CommitImplements ==
  ASSUME IInv, NEW w \in Writers, Commit(w) PROVE [Index!Next]_StoredIndex
<1>1. /\ TypeOK /\ JobInv(w) /\ TxInv(w) /\ pc[w] = "commit" /\ Writing(w) /\ db' = tx
  BY DEF IInv, Commit, Writing
<1>2. StoredIndex' = [f \in Files |-> Entries(tx, f)]
  BY <1>1 DEF StoredIndex, Entries, HoldsResult
<1>3. \A f \in Files \ Target(w) : Entries(tx, f) = StoredIndex[f]
  BY <1>1, EntriesFrame DEF TxInv, StoredIndex
<1>4. CASE job[w].op = "clean"
  <2>1. job[w].scope \in Scopes /\ Target(w) = job[w].scope
    BY <1>1, <1>4 DEF JobInv, Target
  <2>2. \A f \in Files : f \in job[w].scope => Entries(tx, f) = {}
    BY <1>1, <1>4, <2>1, EntriesOfNothing DEF TxInv
  <2>3. StoredIndex' = [f \in Files |-> IF f \in job[w].scope THEN {} ELSE StoredIndex[f]]
    BY <1>2, <1>3, <2>1, <2>2
  <2> QED BY <2>1, <2>3 DEF Index!Next, Index!Clean
<1>5. CASE job[w].op = "index"
  <2>1. PICK v \in Versions : job[w].tag = {v}
    BY <1>1, <1>5 DEF JobInv
  <2>2. file(w) \in Files /\ Target(w) = {file(w)}
    <3>1. job[w].list \in Seq(Files) /\ job[w].pos \in 1..Len(job[w].list)
      BY <1>1, <1>5 DEF JobInv, TypeOK, Job
    <3> QED BY <1>5, <3>1, Element DEF file, Target
  <2>3. ASSUME NEW e, Entries(tx, file(w)) = e
        PROVE  StoredIndex' = [StoredIndex EXCEPT ![file(w)] = e]
    BY <1>2, <1>3, <2>2, <2>3 DEF StoredIndex
  <2>4. CASE HoldsResult(tx, file(w), v)
    <3>1. Entries(tx, file(w)) = {[kind |-> "result", tag |-> v]}
      BY <2>2, <2>4, EntriesOfResult
    <3>2. Index!StoreResult(file(w), v)
      BY <2>3, <3>1 DEF Index!StoreResult
    <3> QED BY <2>2, <3>2 DEF Index!Next
  <2>5. CASE /\ job[w].message \in Messages
             /\ db.graphs[file(w)] = {}
             /\ tx.graphs[file(w)] = {ErrorRow(v, job[w].message)}
    <3> DEFINE m == job[w].message
    <3>1. Entries(tx, file(w)) = {[kind |-> "error", tag |-> v, error |-> m]}
      BY <2>2, <2>5, EntriesOfError
    <3>2. StoredIndex[file(w)] = {}
      BY <2>2, <2>5, EntriesOfNothing DEF StoredIndex
    <3>3. Index!StoreError(file(w), v, m)
      BY <2>3, <3>1, <3>2 DEF Index!StoreError
    <3> QED BY <2>2, <2>5, <3>3 DEF Index!Next
  <2>6. \/ HoldsResult(tx, file(w), v)
        \/ /\ job[w].message \in Messages
           /\ db.graphs[file(w)] = {}
           /\ tx.graphs[file(w)] = {ErrorRow(v, job[w].message)}
    BY <1>1, <1>5, <2>1 DEF TxInv
  <2> QED BY <2>4, <2>5, <2>6
<1> QED BY <1>1, <1>4, <1>5 DEF JobInv

LEMMA StepImplements ==
  ASSUME IInv, [Next]_vars PROVE [Index!Next]_StoredIndex
<1>1. ASSUME NEW w \in Writers, Commit(w) PROVE [Index!Next]_StoredIndex
  BY <1>1, CommitImplements
<1>2. ASSUME NEW w \in Writers, Progress(w), ~ Commit(w) PROVE db' = db
  BY <1>2 DEF Progress, FinishIndexing, TakeFile, LoadFile, QueryStatus,
     BuildStackGraph, FindPartialPaths, DeleteFilePaths, DeleteRootPaths,
     DeleteGraphs, InsertGraph, InsertPath, AllPathsInserted, InsertError,
     PrimaryKeyConflict, DatabaseBusy, Unlocked, Within, Locks
<1>3. ASSUME NEW w \in Writers,
             \/ StartIndexing(w) \/ StartCleaning(w)
             \/ StatementFails(w) \/ Kill(w) \/ RaiseFlag(w)
      PROVE  db' = db
  BY <1>3 DEF StartIndexing, StartCleaning, StatementFails, Kill, RaiseFlag, Unlocked
<1>4. ASSUME NEW f \in Files, Edit(f) PROVE db' = db
  BY <1>4 DEF Edit, Unlocked
<1>5. ASSUME UNCHANGED vars PROVE db' = db
  BY <1>5 DEF vars
<1>6. (\E w \in Writers : Commit(w)) \/ db' = db
  BY <1>2, <1>3, <1>4, <1>5 DEF Next
<1> QED BY <1>1, <1>6, DbIndexFrame

(* SQLiteWriter implements FileIndex for every value of the constants: the  *)
(* files of the index change only by whole results, by errors of files of   *)
(* which nothing was stored, and by whole clean operations.                 *)
THEOREM Implements == Spec => ImplementsFileIndex
<1>1. Init => Index!Init
  BY EntriesOfNothing DEF Init, Index!Init, StoredIndex, EmptyTables
<1>2. IInv /\ [Next]_vars => [Index!Next]_StoredIndex
  BY StepImplements
<1> QED BY <1>1, <1>2, Inductive, PTL DEF Spec, ImplementsFileIndex, Index!Spec

-----------------------------------------------------------------------------
(* The reporter.  A step of w disturbs only the flags of w. *)

LEMMA ReporterFrame ==
  ASSUME ReporterInv, NEW w \in Writers,
         \A u \in Writers \ {w} :
           pc'[u] = pc[u] /\ job'[u] = job[u] /\ status'[u] = status[u],
         "panic" \notin status'[w],
         job'[w].op = "index" /\ pc'[w] # "loop" => status'[w] = FlagsAt(w)'
  PROVE  ReporterInv'
<1>1. ASSUME NEW u \in Writers \ {w}
      PROVE  /\ "panic" \notin status'[u]
             /\ job'[u].op = "index" /\ pc'[u] # "loop" => status'[u] = FlagsAt(u)'
  BY DEF ReporterInv, FlagsAt
<1> QED BY <1>1 DEF ReporterInv

(* A call that returns has no panic to answer for. *)
LEMMA ReturnReports ==
  ASSUME TypeOK, ReporterInv, NEW w \in Writers,
         NEW o \in {"none", "ok", "cancelled", "error", "killed"}, Return(w, o),
         NEW s \in SUBSET Flags, "panic" \notin s,
         status' = [status EXCEPT ![w] = s]
  PROVE  ReporterInv'
<1>1. status'[w] = s /\ \A u \in Writers \ {w} : status'[u] = status[u]
  BY DEF TypeOK
<1>2. job'[w].op = "none"
  BY ReturnFacts DEF NoJob, Call
<1> QED BY <1>1, <1>2, ReturnFacts, ReporterFrame

(* Nor has one that returns without a word to the reporter. *)
LEMMA ReturnSilently ==
  ASSUME TypeOK, ReporterInv, NEW w \in Writers,
         NEW o \in {"none", "ok", "cancelled", "error", "killed"}, Return(w, o),
         UNCHANGED status
  PROVE  ReporterInv'
<1>1. status[w] \in SUBSET Flags /\ "panic" \notin status[w]
      /\ status' = [status EXCEPT ![w] = status[w]]
  BY DEF TypeOK, ReporterInv
<1> QED BY <1>1, ReturnReports

LEMMA AbortReports ==
  ASSUME TypeOK, ReporterInv, NEW w \in Writers, Abort(w) PROVE ReporterInv'
<1> DEFINE s == FailureIfProcessing(status[w])
<1>1. status[w] \in SUBSET Flags /\ "panic" \notin status[w]
  BY DEF TypeOK, ReporterInv
<1>2. s \in SUBSET Flags /\ "panic" \notin s
  BY <1>1 DEF FailureIfProcessing, InProgress, Report, Flags
<1>3. Return(w, "error") /\ status' = [status EXCEPT ![w] = s]
  BY DEF Abort
<1> HIDE DEF s
<1> QED BY <1>2, <1>3, ReturnReports

(* index_file may return Ok when it has reported what it started. *)
LEMMA NextFileReports ==
  ASSUME TypeOK, ReporterInv, NEW w \in Writers, job[w].op = "index",
         NEW s \in SUBSET Flags, "panic" \notin s, ~ InProgress(s), NextFile(w, s)
  PROVE  ReporterInv'
<1>1. status' = [status EXCEPT ![w] = s]
  BY DEF NextFile, AssertReported
<1>2. status'[w] = s /\ \A u \in Writers \ {w} : status'[u] = status[u]
  BY <1>1 DEF TypeOK
<1> QED BY <1>2, NextFileFacts, ReporterFrame

(* A step inside a call that tells the reporter nothing. *)
LEMMA MoveSilently ==
  ASSUME TypeOK, ReporterInv, NEW w \in Writers, NEW l \in Locations, Goto(w, l),
         UNCHANGED <<job, status>>,
         job[w].op = "index" =>
           status[w] = CASE l \in {"load", "query status"} -> {}
                 [] l = "insert error" -> {"path", "status"}
                 [] l = "commit" /\ job[w].message # "none" -> {"path", "status"}
                 [] OTHER -> {"path"}
  PROVE  ReporterInv'
<1>1. /\ pc'[w] = l /\ \A u \in Writers : job'[u] = job[u] /\ status'[u] = status[u]
      /\ \A u \in Writers \ {w} : pc'[u] = pc[u]
  BY DEF TypeOK, Goto
<1>2. job'[w].op = "index" /\ pc'[w] # "loop" => status'[w] = FlagsAt(w)'
  BY <1>1 DEF FlagsAt
<1>3. "panic" \notin status'[w]
  BY <1>1 DEF ReporterInv
<1> QED BY <1>1, <1>2, <1>3, ReporterFrame

LEMMA CallReports ==
  ASSUME IInv, ReporterInv, NEW w \in Writers, StartIndexing(w) \/ StartCleaning(w)
  PROVE  ReporterInv'
<1>1. TypeOK
  BY DEF IInv
<1>2. /\ status'[w] = {}
      /\ \A u \in Writers \ {w} :
           pc'[u] = pc[u] /\ job'[u] = job[u] /\ status'[u] = status[u]
  BY <1>1 DEF TypeOK, StartIndexing, StartCleaning, Goto
<1>3. StartIndexing(w) => pc'[w] = "loop"
  BY <1>1 DEF TypeOK, StartIndexing, Goto
<1>4. ASSUME StartCleaning(w) PROVE job'[w].op = "clean"
  <2>1. PICK fs \in Scopes : job' = [job EXCEPT ![w] = Call("clean", <<>>, {}, FALSE, fs)]
    BY <1>4 DEF StartCleaning
  <2>2. Call("clean", <<>>, {}, FALSE, fs).op = "clean"
    BY DEF Call
  <2> QED BY <1>1, <2>1, <2>2 DEF TypeOK
<1> QED BY <1>2, <1>3, <1>4, ReporterFrame

LEMMA LoopReports ==
  ASSUME IInv, ReporterInv, NEW w \in Writers, FinishIndexing(w) \/ TakeFile(w)
  PROVE  ReporterInv'
<1>1. TypeOK /\ pc[w] = "loop" /\ job[w] \in Job
  BY DEF IInv, TypeOK, FinishIndexing, TakeFile
<1>2. job[w].op = "index"
  BY <1>1 DEF IInv, JobInv
<1>3. CASE FinishIndexing(w)
  BY <1>1, <1>3, ReturnSilently DEF FinishIndexing
<1>4. CASE Return(w, "cancelled") /\ status' = [status EXCEPT ![w] = {}]
  BY <1>1, <1>4, ReturnReports
<1>5. CASE NextFile(w, Skipped({}))
  <2>1. Skipped({}) = {"status"}
    BY DEF Skipped
  <2>2. "panic" \notin {"status"} /\ ~ InProgress({"status"}) /\ {"status"} \in SUBSET Flags
    BY DEF InProgress, Flags
  <2> QED BY <1>1, <1>2, <1>5, <2>1, <2>2, NextFileReports
<1>6. CASE /\ Goto(w, "load")
           /\ job' = [job EXCEPT ![w].resume = {}]
           /\ status' = [status EXCEPT ![w] = {}]
  <2>1. /\ job'[w].op = job[w].op /\ pc'[w] = "load" /\ status'[w] = {}
        /\ \A u \in Writers \ {w} :
             pc'[u] = pc[u] /\ job'[u] = job[u] /\ status'[u] = status[u]
    BY <1>1, <1>6 DEF TypeOK, Goto, Job
  <2> QED BY <2>1, ReporterFrame DEF FlagsAt
<1> QED BY <1>3, <1>4, <1>5, <1>6 DEF TakeFile

(* The flags of a writer inside index_file. *)
LEMMA FlagsInside ==
  ASSUME IInv, ReporterInv, NEW w \in Writers,
         pc[w] \in {"load", "query status", "build", "stitch", "insert graph",
                   "insert paths", "insert error"}
  PROVE  /\ job[w].op = "index"
         /\ pc[w] \in {"load", "query status"} => status[w] = {}
         /\ pc[w] \in {"build", "stitch", "insert graph", "insert paths"}
              => status[w] = {"path"}
         /\ pc[w] = "insert error" => status[w] = {"path", "status"}
  BY CurrentFile DEF ReporterInv, FlagsAt

LEMMA LoadFileReports ==
  ASSUME IInv, ReporterInv, NEW w \in Writers, LoadFile(w) PROVE ReporterInv'
<1>1. TypeOK /\ pc[w] = "load"
  BY DEF IInv, LoadFile
<1>2. job[w].op = "index" /\ status[w] = {}
  BY <1>1, FlagsInside
<1>3. CASE \E named \in BOOLEAN :
             NextFile(w, IF named THEN Report(status[w]) ELSE status[w])
  <2>1. Report({}) = {"path", "status"}
    BY DEF Report
  <2>2. NextFile(w, {"path", "status"}) \/ NextFile(w, {})
    BY <1>2, <1>3, <2>1
  <2>3. /\ "panic" \notin {"path", "status"} /\ {"path", "status"} \in SUBSET Flags
        /\ ~ InProgress({"path", "status"}) /\ ~ InProgress({})
    BY DEF InProgress, Flags
  <2> QED BY <1>1, <1>2, <2>2, <2>3, NextFileReports
<1>4. CASE Abort(w)
  BY <1>1, <1>4, AbortReports
<1>5. CASE /\ Goto(w, "query status")
           /\ job' = [job EXCEPT ![w].tag = {content[file(w)]}]
           /\ UNCHANGED status
  <2>1. /\ pc'[w] = "query status" /\ status'[w] = {}
        /\ \A u \in Writers \ {w} :
             pc'[u] = pc[u] /\ job'[u] = job[u] /\ status'[u] = status[u]
    BY <1>1, <1>2, <1>5 DEF TypeOK, Goto
  <2> QED BY <2>1, ReporterFrame DEF FlagsAt
<1> QED BY <1>3, <1>4, <1>5 DEF LoadFile

LEMMA QueryStatusReports ==
  ASSUME IInv, ReporterInv, NEW w \in Writers, QueryStatus(w) PROVE ReporterInv'
<1>1. TypeOK /\ pc[w] = "query status" /\ job[w] \in Job
  BY DEF IInv, TypeOK, QueryStatus
<1>2. job[w].op = "index" /\ status[w] = {}
  BY <1>1, FlagsInside
<1>3. CASE NextFile(w, Skipped(status[w]))
  <2>1. Skipped(status[w]) = {"status"}
    BY <1>2 DEF Skipped
  <2>2. "panic" \notin {"status"} /\ ~ InProgress({"status"}) /\ {"status"} \in SUBSET Flags
    BY DEF InProgress, Flags
  <2> QED BY <1>1, <1>2, <1>3, <2>1, <2>2, NextFileReports
<1>4. CASE /\ Goto(w, "build")
           /\ status' = [status EXCEPT ![w] = Processing(@)]
           /\ UNCHANGED job
  <2>1. Processing({}) = {"path"}
    BY DEF Processing
  <2>2. /\ pc'[w] = "build" /\ status'[w] = {"path"}
        /\ \A u \in Writers \ {w} :
             pc'[u] = pc[u] /\ job'[u] = job[u] /\ status'[u] = status[u]
    BY <1>1, <1>2, <1>4, <2>1 DEF TypeOK, Goto
  <2> QED BY <2>2, ReporterFrame DEF FlagsAt
<1> QED BY <1>3, <1>4 DEF QueryStatus

LEMMA GiveUpReports ==
  ASSUME IInv, ReporterInv, NEW w \in Writers, NEW m \in Messages, GiveUp(w, m),
         pc[w] \in {"build", "stitch"}
  PROVE  ReporterInv'
<1>1. TypeOK /\ status[w] = {"path"}
  BY FlagsInside DEF IInv
<1>2. Report({"path"}) = {"path", "status"}
  BY DEF Report
<1>3. /\ pc'[w] = "insert error" /\ status'[w] = {"path", "status"}
      /\ \A u \in Writers \ {w} :
           pc'[u] = pc[u] /\ job'[u] = job[u] /\ status'[u] = status[u]
  BY <1>1, <1>2 DEF TypeOK, Goto, GiveUp
<1> QED BY <1>3, ReporterFrame DEF FlagsAt

LEMMA ComputeReports ==
  ASSUME IInv, ReporterInv, NEW w \in Writers, BuildStackGraph(w) \/ FindPartialPaths(w)
  PROVE  ReporterInv'
<1>1. TypeOK /\ pc[w] \in {"build", "stitch"} /\ status[w] = {"path"}
  BY FlagsInside DEF IInv, BuildStackGraph, FindPartialPaths
<1>2. CASE \E m \in Messages : GiveUp(w, m)
  BY <1>1, <1>2, GiveUpReports
<1>3. CASE Goto(w, "stitch") /\ UNCHANGED <<job, status>>
  BY <1>1, <1>3, MoveSilently DEF Locations
<1>4. ASSUME NEW v, Goto(w, "delete file_paths"),
             job' = [job EXCEPT ![w].scope = {file(w)}, ![w].remaining = PathsOf[v]],
             UNCHANGED status
      PROVE  ReporterInv'
  <2>1. /\ pc'[w] = "delete file_paths" /\ status'[w] = {"path"}
        /\ \A u \in Writers \ {w} :
             pc'[u] = pc[u] /\ job'[u] = job[u] /\ status'[u] = status[u]
    BY <1>1, <1>4 DEF TypeOK, Goto
  <2> QED BY <2>1, ReporterFrame DEF FlagsAt
<1> QED BY <1>2, <1>3, <1>4 DEF BuildStackGraph, FindPartialPaths, Messages

(* Statements say nothing to the reporter; COMMIT reports a result. *)
LEMMA StatementReports ==
  ASSUME IInv, ReporterInv, NEW w \in Writers,
         \/ DeleteFilePaths(w) \/ DeleteRootPaths(w) \/ DeleteGraphs(w)
         \/ InsertGraph(w) \/ AllPathsInserted(w) \/ InsertError(w)
  PROVE  ReporterInv'
<1>1. /\ TypeOK /\ JobInv(w)
      /\ UNCHANGED <<job, status>>
  BY DEF IInv, DeleteFilePaths, DeleteRootPaths, DeleteGraphs, InsertGraph,
         AllPathsInserted, InsertError, Within, Locks
<1>2. job[w].op = "index" /\ pc[w] # "loop" => status[w] = FlagsAt(w)
  BY DEF ReporterInv
<1>3. CASE DeleteFilePaths(w)
  <2>1. Goto(w, "delete root_paths") /\ pc[w] = "delete file_paths"
    BY <1>3 DEF DeleteFilePaths
  <2> QED BY <1>1, <1>2, <2>1, MoveSilently DEF FlagsAt, Locations
<1>4. CASE DeleteRootPaths(w)
  <2>1. Goto(w, "delete graphs") /\ pc[w] = "delete root_paths"
    BY <1>4 DEF DeleteRootPaths
  <2> QED BY <1>1, <1>2, <2>1, MoveSilently DEF FlagsAt, Locations
<1>5. CASE DeleteGraphs(w)
  <2>1. pc[w] = "delete graphs"
    BY <1>5 DEF DeleteGraphs
  <2>2. CASE job[w].op = "clean"
    <3>1. Goto(w, "commit")
      BY <1>5, <2>2 DEF DeleteGraphs
    <3> QED BY <1>1, <2>2, <3>1, MoveSilently DEF Locations
  <2>3. CASE job[w].op # "clean"
    <3>1. Goto(w, "insert graph")
      BY <1>5, <2>3 DEF DeleteGraphs
    <3> QED BY <1>1, <1>2, <2>1, <3>1, MoveSilently DEF FlagsAt, Locations
  <2> QED BY <2>2, <2>3
<1>6. CASE InsertGraph(w)
  <2>1. Goto(w, "insert paths") /\ pc[w] = "insert graph"
    BY <1>6 DEF InsertGraph
  <2> QED BY <1>1, <1>2, <2>1, MoveSilently DEF FlagsAt, Locations
<1>7. CASE AllPathsInserted(w)
  <2>1. Goto(w, "commit") /\ pc[w] = "insert paths" /\ job[w].message = "none"
    BY <1>1, <1>7 DEF AllPathsInserted, JobInv
  <2> QED BY <1>1, <1>2, <2>1, MoveSilently DEF FlagsAt, Locations
<1>8. CASE InsertError(w)
  <2>1. Goto(w, "commit") /\ pc[w] = "insert error" /\ job[w].message # "none"
    BY <1>1, <1>8 DEF InsertError, JobInv, Messages
  <2> QED BY <1>1, <1>2, <2>1, MoveSilently DEF FlagsAt, Locations
<1> QED BY <1>3, <1>4, <1>5, <1>6, <1>7, <1>8

LEMMA InsertPathReports ==
  ASSUME IInv, ReporterInv, NEW w \in Writers, InsertPath(w) PROVE ReporterInv'
<1>1. TypeOK /\ pc[w] = "insert paths" /\ UNCHANGED <<pc, status>>
      /\ \E p : job' = [job EXCEPT ![w].remaining = @ \ {p}]
  BY DEF IInv, InsertPath, Within
<1>2. status[w] = {"path"}
  BY <1>1, FlagsInside
<1>3. \A u \in Writers \ {w} : job'[u] = job[u]
  BY <1>1 DEF TypeOK
<1> QED BY <1>1, <1>2, <1>3, ReporterFrame DEF FlagsAt

LEMMA CommitReports ==
  ASSUME IInv, ReporterInv, NEW w \in Writers, Commit(w) PROVE ReporterInv'
<1>1. TypeOK /\ pc[w] = "commit" /\ JobInv(w) /\ TxInv(w)
  BY DEF IInv, Commit
<1>2. CASE Return(w, "ok") /\ UNCHANGED status
  BY <1>1, <1>2, ReturnSilently
<1>3. CASE /\ job[w].op = "index"
           /\ NextFile(w, IF job[w].message = "none" THEN Report(status[w]) ELSE status[w])
  <2>1. status[w] = IF job[w].message = "none" THEN {"path"} ELSE {"path", "status"}
    BY <1>1, <1>3 DEF ReporterInv, FlagsAt
  <2>2. Report({"path"}) = {"path", "status"}
    BY DEF Report
  <2>3. NextFile(w, {"path", "status"})
    BY <1>3, <2>1, <2>2
  <2>4. /\ "panic" \notin {"path", "status"} /\ {"path", "status"} \in SUBSET Flags
        /\ ~ InProgress({"path", "status"})
    BY DEF InProgress, Flags
  <2> QED BY <1>1, <1>3, <2>3, <2>4, NextFileReports
<1> QED BY <1>2, <1>3 DEF Commit

LEMMA StepReports == IInv /\ ReporterInv /\ [Next]_vars => ReporterInv'
<1> SUFFICES ASSUME IInv, ReporterInv, [Next]_vars PROVE ReporterInv'
  OBVIOUS
<1>1. TypeOK
  BY DEF IInv
<1>2. ASSUME NEW w \in Writers, StartIndexing(w) \/ StartCleaning(w) PROVE ReporterInv'
  BY <1>2, CallReports
<1>3. ASSUME NEW w \in Writers, Progress(w) PROVE ReporterInv'
  <2>1. PrimaryKeyConflict(w) \/ DatabaseBusy(w) => Abort(w)
    BY DEF PrimaryKeyConflict, DatabaseBusy
  <2> QED
    BY <1>1, <1>3, <2>1, LoopReports, LoadFileReports, QueryStatusReports,
       ComputeReports, StatementReports, InsertPathReports, CommitReports,
       AbortReports DEF Progress
<1>4. ASSUME NEW w \in Writers, StatementFails(w) PROVE ReporterInv'
  BY <1>1, <1>4, AbortReports DEF StatementFails
<1>5. ASSUME NEW w \in Writers, Kill(w) PROVE ReporterInv'
  BY <1>1, <1>5, ReturnSilently DEF Kill
<1>6. ASSUME UNCHANGED <<pc, job, status>> PROVE ReporterInv'
  BY <1>6 DEF ReporterInv, FlagsAt
<1>7. ASSUME \/ \E w \in Writers : RaiseFlag(w)
             \/ \E f \in Files : Edit(f)
             \/ UNCHANGED vars
      PROVE  UNCHANGED <<pc, job, status>>
  BY <1>7 DEF RaiseFlag, Edit, vars
<1> QED BY <1>2, <1>3, <1>4, <1>5, <1>6, <1>7 DEF Next

(* None of the panics of CLIFileReporter is reachable, whatever fails: at   *)
(* each location of index_file the reporter has one possible state.         *)
THEOREM ReporterIsSafe == Spec => []ReporterNeverPanics
<1>1. Init => ReporterInv
  BY DEF Init, ReporterInv, NoJob, Call
<1>2. IInv /\ ReporterInv /\ [Next]_vars => ReporterInv'
  BY StepReports
<1>3. ReporterInv => ReporterNeverPanics
  BY DEF ReporterInv, ReporterNeverPanics
<1> QED BY <1>1, <1>2, <1>3, Inductive, PTL DEF Spec

-----------------------------------------------------------------------------
(* Coverage, for a writer that runs alone on files that keep still. *)

Alone == QuietEdits /\ \A u, w \in Writers : u = w

(* The part of CoverInv about the mark, and the files the call of w is done with. *)
Covered(w) ==
  /\ MarkInv(w)
  /\ \A f \in Asked(job[w], job[w].pos - 1) \cap Supported :
       StatusForFile(f, content[f]) # "missing"

(* A call that has come one file further was asked for one file more, unless *)
(* the mark is still to come.                                               *)
LEMMA AskedMore ==
  ASSUME NEW j \in Job, NEW k \in Job, j.pos \in 1..Len(j.list),
         k.list = j.list, k.mark = j.mark
  PROVE  /\ Asked(k, j.pos) \subseteq Asked(j, j.pos - 1) \cup {j.list[j.pos]}
         /\ j.mark \notin {{}, {j.list[j.pos]}} /\ Asked(j, j.pos - 1) = {} =>
              Asked(k, j.pos) = {}
<1>1. j.pos \in Nat /\ DOMAIN j.list \subseteq Nat
  BY DEF Job
<1>2. ASSUME NEW i \in DOMAIN j.list, i <= j.pos
      PROVE  i = j.pos \/ i <= j.pos - 1
  BY <1>1, <1>2
<1>3. Asked(k, j.pos) \subseteq Asked(j, j.pos - 1) \cup {j.list[j.pos]}
  BY <1>2 DEF Asked
<1>4. ASSUME j.mark \notin {{}, {j.list[j.pos]}}, NEW f \in Asked(k, j.pos)
      PROVE  Asked(j, j.pos - 1) # {}
  <2>1. PICK i \in DOMAIN j.list : i <= j.pos /\ \E x \in 1..i : j.mark = {j.list[x]}
    BY <1>4 DEF Asked
  <2>2. PICK x \in 1..i : j.mark = {j.list[x]}
    BY <2>1
  <2>3. x \in DOMAIN j.list /\ x <= j.pos /\ x \in 1..x
    BY <1>1, <2>1, <2>2 DEF Job
  <2>4. x <= j.pos - 1
    BY <1>2, <1>4, <2>2, <2>3
  <2>5. j.list[x] \in Asked(j, j.pos - 1)
    BY <2>2, <2>3, <2>4 DEF Asked
  <2> QED BY <2>5
<1> QED BY <1>3, <1>4

LEMMA CoverFrame ==
  ASSUME Alone, NEW w \in Writers,
         job'[w].op = "index" =>
           /\ pc'[w] \notin {"loop", "load"} => job'[w].tag = {content'[file(w)']}
           /\ Covered(w)'
  PROVE  CoverInv'
<1>1. \A u \in Writers : u = w
  BY DEF Alone
<1> QED BY <1>1 DEF CoverInv, Covered

LEMMA CoverOf ==
  ASSUME CoverInv, NEW w \in Writers, job[w].op = "index"
  PROVE  /\ pc[w] \notin {"loop", "load"} => job[w].tag = {content[file(w)]}
         /\ Covered(w)
  BY DEF CoverInv, Covered

(* A call that returns has nothing left to cover. *)
LEMMA ReturnCovers ==
  ASSUME TypeOK, Alone, NEW w \in Writers,
         NEW o \in {"none", "ok", "cancelled", "error", "killed"}, Return(w, o)
  PROVE  CoverInv'
<1>1. job'[w].op # "index"
  BY ReturnFacts DEF NoJob, Call
<1> QED BY <1>1, CoverFrame

(* A turn of the loop may end when its file was not asked for, or is covered. *)
LEMMA NextFileCovers ==
  ASSUME TypeOK, Alone, CoverInv, NEW w \in Writers, job[w].op = "index",
         job[w].pos \in 1..Len(job[w].list),
         NEW s \in SUBSET Flags, NextFile(w, s), UNCHANGED <<content, db>>,
         \/ job[w].resume \notin {{}, {file(w)}}
         \/ /\ job[w].resume = {}
            /\ \/ file(w) \notin Supported
               \/ StatusForFile(file(w), content[file(w)]) # "missing"
  PROVE  CoverInv'
<1>1. job' = [job EXCEPT ![w] = NextTurn(@)] /\ pc' = [pc EXCEPT ![w] = "loop"]
  BY DEF NextFile, Goto
<1>2. /\ job[w] \in Job /\ job'[w] \in Job /\ pc'[w] = "loop"
      /\ job'[w].list = job[w].list /\ job'[w].mark = job[w].mark
      /\ job'[w].resume = job[w].resume
      /\ job'[w].pos = job[w].pos + 1
  BY <1>1 DEF TypeOK, NextTurn, Job
<1>3. job'[w].pos - 1 = job[w].pos
  BY <1>2
<1>4. /\ MarkInv(w)
      /\ \A f \in Asked(job[w], job[w].pos - 1) \cap Supported :
           StatusForFile(f, content[f]) # "missing"
  BY CoverOf DEF Covered
<1>5. CASE job[w].resume \notin {{}, {file(w)}}
  <2>1. /\ job[w].mark \notin {{}, {job[w].list[job[w].pos]}}
        /\ Asked(job[w], job[w].pos - 1) = {}
    BY <1>4, <1>5 DEF MarkInv, file
  <2>2. Asked(job'[w], job'[w].pos - 1) = {}
    BY <1>2, <1>3, <2>1, AskedMore
  <2>3. MarkInv(w)'
    BY <1>2, <1>4, <1>5, <2>2 DEF MarkInv
  <2>4. Covered(w)'
    BY <2>2, <2>3 DEF Covered
  <2> QED BY <1>2, <2>4, CoverFrame
<1>6. CASE /\ job[w].resume = {}
           /\ \/ file(w) \notin Supported
              \/ StatusForFile(file(w), content[file(w)]) # "missing"
  <2>1. MarkInv(w)'
    BY <1>2, <1>6 DEF MarkInv
  <2>2. Asked(job'[w], job'[w].pos - 1)
          \subseteq Asked(job[w], job[w].pos - 1) \cup {file(w)}
    BY <1>2, <1>3, AskedMore DEF file
  <2>3. \A f \in Asked(job'[w], job'[w].pos - 1) \cap Supported :
          StatusForFile(f, content[f]) # "missing"
    BY <1>4, <1>6, <2>2
  <2>4. Covered(w)'
    BY <2>1, <2>3 DEF Covered, StatusForFile
  <2> QED BY <1>2, <2>4, CoverFrame
<1> QED BY <1>5, <1>6

(* A step inside a call that keeps the file and the tag. *)
LEMMA MoveCovers ==
  ASSUME TypeOK, Alone, CoverInv, NEW w \in Writers, job[w].op = "index",
         pc[w] # "loop", pc'[w] # "loop", UNCHANGED <<content, db>>,
         job'[w].list = job[w].list, job'[w].pos = job[w].pos,
         job'[w].resume = job[w].resume, job'[w].mark = job[w].mark,
         pc'[w] # "load" => job'[w].tag = {content[file(w)]}
  PROVE  CoverInv'
<1>1. file(w)' = file(w)
  BY DEF file
<1>2. Asked(job'[w], job'[w].pos - 1) = Asked(job[w], job[w].pos - 1)
  BY DEF Asked
<1>3. Covered(w)'
  BY <1>2, CoverOf DEF Covered, MarkInv, StatusForFile
<1> QED BY <1>1, <1>3, CoverFrame

(* The mark is met, if there is one, and the file is taken. *)
LEMMA TakenCovers ==
  ASSUME TypeOK, Alone, CoverInv, NEW w \in Writers, job[w].op = "index",
         pc'[w] = "load", job' = [job EXCEPT ![w].resume = {}], UNCHANGED <<content, db>>
  PROVE  CoverInv'
<1>1. /\ job'[w].list = job[w].list /\ job'[w].pos = job[w].pos
      /\ job'[w].mark = job[w].mark /\ job'[w].resume = {}
  BY DEF TypeOK, Job
<1>2. Asked(job'[w], job'[w].pos - 1) = Asked(job[w], job[w].pos - 1)
  BY <1>1 DEF Asked
<1>3. MarkInv(w)'
  BY <1>1 DEF MarkInv
<1>4. \A f \in Asked(job[w], job[w].pos - 1) \cap Supported :
        StatusForFile(f, content[f]) # "missing"
  BY CoverOf DEF Covered
<1>5. Covered(w)'
  BY <1>2, <1>3, <1>4 DEF Covered, StatusForFile
<1> QED BY <1>5, CoverFrame

LEMMA CallCovers ==
  ASSUME IInv, Alone, NEW w \in Writers, StartIndexing(w) \/ StartCleaning(w)
  PROVE  CoverInv'
<1>1. TypeOK
  BY DEF IInv
<1>2. ASSUME StartIndexing(w) PROVE CoverInv'
  <2>1. PICK l \in SourceLists, c \in ContinueFroms, b \in BOOLEAN :
          job' = [job EXCEPT ![w] = Call("index", l, c, b, {})]
    BY <1>2 DEF StartIndexing
  <2> DEFINE j == Call("index", l, c, b, {})
  <2>2. j.pos = 1 /\ j.resume = j.mark
    BY DEF Call
  <2>3. l \in Seq(Files)
    BY IndexingAssumption
  <2>4. j.list = l
    BY DEF Call
  <2>5. Asked(j, 0) = {}
    BY <2>3, <2>4 DEF Asked
  <2> HIDE DEF j
  <2>6. job'[w] = j /\ pc'[w] = "loop"
    BY <1>1, <1>2, <2>1 DEF TypeOK, StartIndexing, Goto, j
  <2>7. Covered(w)'
    BY <2>2, <2>5, <2>6 DEF Covered, MarkInv
  <2> QED BY <2>6, <2>7, CoverFrame
<1>3. ASSUME StartCleaning(w) PROVE CoverInv'
  <2>1. PICK fs \in Scopes : job' = [job EXCEPT ![w] = Call("clean", <<>>, {}, FALSE, fs)]
    BY <1>3 DEF StartCleaning
  <2>2. Call("clean", <<>>, {}, FALSE, fs).op = "clean"
    BY DEF Call
  <2>3. job'[w].op # "index"
    BY <1>1, <2>1, <2>2 DEF TypeOK
  <2> QED BY <2>3, CoverFrame
<1> QED BY <1>2, <1>3

LEMMA LoopCovers ==
  ASSUME IInv, Alone, CoverInv, NEW w \in Writers, FinishIndexing(w) \/ TakeFile(w)
  PROVE  CoverInv'
<1>1. TypeOK /\ pc[w] = "loop" /\ job[w] \in Job /\ UNCHANGED <<content, db>>
  BY DEF IInv, TypeOK, FinishIndexing, TakeFile, Unlocked
<1>2. job[w].op = "index"
  BY <1>1 DEF IInv, JobInv
<1>3. ASSUME NEW o \in {"ok", "cancelled"}, Return(w, o) PROVE CoverInv'
  BY <1>1, <1>3, ReturnCovers
<1>4. ASSUME TakeFile(w), job[w].resume \notin {{}, {file(w)}}, NextFile(w, Skipped({}))
      PROVE  CoverInv'
  <2>1. job[w].pos \in 1..Len(job[w].list)
    BY <1>1, <1>4 DEF TakeFile, Job
  <2> QED BY <1>1, <1>2, <1>4, <2>1, ReporterFacts, NextFileCovers
<1>5. CASE Goto(w, "load") /\ job' = [job EXCEPT ![w].resume = {}]
  <2>1. pc'[w] = "load"
    BY <1>1, <1>5 DEF TypeOK, Goto
  <2> QED BY <1>1, <1>2, <1>5, <2>1, TakenCovers
<1> QED BY <1>3, <1>4, <1>5 DEF FinishIndexing, TakeFile

LEMMA LoadFileCovers ==
  ASSUME IInv, Alone, CoverInv, NEW w \in Writers, LoadFile(w) PROVE CoverInv'
<1>1. TypeOK /\ pc[w] = "load" /\ UNCHANGED <<content, db>> /\ status[w] \in SUBSET Flags
  BY DEF IInv, TypeOK, LoadFile, Unlocked
<1>2. /\ job[w].op = "index" /\ job[w] \in Job /\ job[w].pos \in 1..Len(job[w].list)
      /\ job[w].resume = {}
  BY <1>1, CurrentFile, CoverOf DEF Covered, MarkInv
<1>3. ASSUME file(w) \notin Supported,
             \E named \in BOOLEAN :
               NextFile(w, IF named THEN Report(status[w]) ELSE status[w])
      PROVE  CoverInv'
  BY <1>1, <1>2, <1>3, ReporterFacts, NextFileCovers
<1>4. CASE Abort(w)
  BY <1>1, <1>4, AbortFacts, ReturnCovers
<1>5. CASE /\ Goto(w, "query status")
           /\ job' = [job EXCEPT ![w].tag = {content[file(w)]}]
  <2>1. /\ pc'[w] = "query status" /\ job'[w].tag = {content[file(w)]}
        /\ job'[w].list = job[w].list /\ job'[w].pos = job[w].pos
        /\ job'[w].resume = job[w].resume /\ job'[w].mark = job[w].mark
    BY <1>1, <1>2, <1>5 DEF TypeOK, Job, Goto
  <2> QED BY <1>1, <1>2, <2>1, MoveCovers
<1> QED BY <1>3, <1>4, <1>5 DEF LoadFile

LEMMA QueryStatusCovers ==
  ASSUME IInv, Alone, CoverInv, NEW w \in Writers, QueryStatus(w) PROVE CoverInv'
<1>1. /\ TypeOK /\ pc[w] = "query status" /\ UNCHANGED <<content, db>>
      /\ status[w] \in SUBSET Flags
  BY DEF IInv, TypeOK, QueryStatus, Unlocked
<1>2. /\ job[w].op = "index" /\ job[w] \in Job /\ job[w].pos \in 1..Len(job[w].list)
      /\ job[w].resume = {}
  BY <1>1, CurrentFile, CoverOf DEF Covered, MarkInv
<1>3. job[w].tag = {content[file(w)]}
  BY <1>1, <1>2, CoverOf
<1>4. ASSUME NextFile(w, Skipped(status[w])),
             StatusForFile(file(w), content[file(w)]) # "missing"
      PROVE  CoverInv'
  BY <1>1, <1>2, <1>4, ReporterFacts, NextFileCovers
<1>5. CASE Goto(w, "build") /\ UNCHANGED job
  <2>1. pc'[w] = "build" /\ job'[w] = job[w]
    BY <1>1, <1>5 DEF TypeOK, Goto
  <2> QED BY <1>1, <1>2, <1>3, <2>1, MoveCovers
<1> QED BY <1>3, <1>4, <1>5 DEF QueryStatus

LEMMA ComputeCovers ==
  ASSUME IInv, Alone, CoverInv, NEW w \in Writers, BuildStackGraph(w) \/ FindPartialPaths(w)
  PROVE  CoverInv'
<1>1. TypeOK /\ pc[w] \in {"build", "stitch"} /\ UNCHANGED <<content, db>>
  BY DEF IInv, BuildStackGraph, FindPartialPaths, Unlocked
<1>2. job[w].op = "index" /\ job[w] \in Job /\ job[w].tag = {content[file(w)]}
  BY <1>1, CurrentFile, CoverOf
<1>3. ASSUME NEW m, GiveUp(w, m) PROVE CoverInv'
  <2>1. /\ pc'[w] = "insert error" /\ job'[w].tag = job[w].tag
        /\ job'[w].list = job[w].list /\ job'[w].pos = job[w].pos
        /\ job'[w].resume = job[w].resume /\ job'[w].mark = job[w].mark
    BY <1>1, <1>2, <1>3 DEF TypeOK, Job, Goto, GiveUp
  <2> QED BY <1>1, <1>2, <2>1, MoveCovers
<1>4. ASSUME Goto(w, "stitch"), UNCHANGED job PROVE CoverInv'
  <2>1. pc'[w] = "stitch" /\ job'[w] = job[w]
    BY <1>1, <1>4 DEF TypeOK, Goto
  <2> QED BY <1>1, <1>2, <2>1, MoveCovers
<1>5. ASSUME NEW v, Goto(w, "delete file_paths"),
             job' = [job EXCEPT ![w].scope = {file(w)}, ![w].remaining = PathsOf[v]]
      PROVE  CoverInv'
  <2>1. /\ pc'[w] = "delete file_paths" /\ job'[w].tag = job[w].tag
        /\ job'[w].list = job[w].list /\ job'[w].pos = job[w].pos
        /\ job'[w].resume = job[w].resume /\ job'[w].mark = job[w].mark
    BY <1>1, <1>2, <1>5 DEF TypeOK, Job, Goto
  <2> QED BY <1>1, <1>2, <2>1, MoveCovers
<1> QED BY <1>3, <1>4, <1>5 DEF BuildStackGraph, FindPartialPaths

LEMMA StatementCovers ==
  ASSUME IInv, Alone, CoverInv, NEW w \in Writers,
         \/ DeleteFilePaths(w) \/ DeleteRootPaths(w) \/ DeleteGraphs(w)
         \/ InsertGraph(w) \/ InsertPath(w) \/ AllPathsInserted(w) \/ InsertError(w)
  PROVE  CoverInv'
<1>1. /\ TypeOK /\ job[w] \in Job /\ pc[w] \notin {"loop", "load"}
      /\ UNCHANGED <<content, db>>
  BY DEF IInv, TypeOK, DeleteFilePaths, DeleteRootPaths, DeleteGraphs, InsertGraph,
         InsertPath, AllPathsInserted, InsertError, Within, Locks
<1>2. pc'[w] # "loop"
  BY <1>1 DEF TypeOK, DeleteFilePaths, DeleteRootPaths, DeleteGraphs, InsertGraph,
         InsertPath, AllPathsInserted, InsertError, Goto
<1>3. UNCHANGED job \/ \E p : job' = [job EXCEPT ![w].remaining = @ \ {p}]
  BY DEF DeleteFilePaths, DeleteRootPaths, DeleteGraphs, InsertGraph,
         InsertPath, AllPathsInserted, InsertError
<1>4. /\ job'[w].op = job[w].op
      /\ job'[w].list = job[w].list /\ job'[w].pos = job[w].pos
      /\ job'[w].resume = job[w].resume /\ job'[w].mark = job[w].mark
      /\ job'[w].tag = job[w].tag
  BY <1>1, <1>3 DEF TypeOK, Job
<1>5. CASE job[w].op = "index"
  BY <1>1, <1>2, <1>4, <1>5, CoverOf, MoveCovers
<1>6. CASE job[w].op # "index"
  BY <1>4, <1>6, CoverFrame
<1> QED BY <1>5, <1>6

(* What COMMIT publishes covers the file, and keeps the others covered. *)
LEMMA CommitCovers ==
  ASSUME IInv, Alone, CoverInv, NEW w \in Writers, Commit(w) PROVE CoverInv'
<1>1. /\ TypeOK /\ pc[w] = "commit" /\ JobInv(w) /\ TxInv(w) /\ job[w] \in Job
      /\ content' = content /\ db' = tx /\ Writing(w)
  BY DEF IInv, TypeOK, Commit, Writing
<1>2. CASE Return(w, "ok")
  BY <1>1, <1>2, ReturnCovers
<1>3. CASE /\ job[w].op = "index"
           /\ NextFile(w, IF job[w].message = "none" THEN Report(status[w]) ELSE status[w])
  <2> DEFINE v == content[file(w)]
  <2>1. job[w].tag = {v} /\ Target(w) = {file(w)}
    BY <1>1, <1>3, CoverOf DEF Target
  <2>2. /\ job'[w].list = job[w].list /\ job'[w].mark = job[w].mark
        /\ job'[w].resume = job[w].resume /\ job'[w].pos = job[w].pos + 1
        /\ job'[w] \in Job /\ pc'[w] = "loop"
    BY <1>1, <1>3 DEF TypeOK, NextFile, NextTurn, Goto, Job
  <2>7. job[w].resume = {} /\ job[w].pos \in 1..Len(job[w].list)
    BY <1>1, <1>3, CoverOf DEF Covered, MarkInv, JobInv
  <2>8. Asked(job'[w], job'[w].pos - 1)
          \subseteq Asked(job[w], job[w].pos - 1) \cup {file(w)}
    <3>1. job'[w].pos - 1 = job[w].pos
      BY <2>2, <2>7
    <3> QED BY <1>1, <2>2, <2>7, <3>1, AskedMore DEF file
  <2>3. \/ tx.graphs[file(w)] = {ResultRow(v)}
        \/ tx.graphs[file(w)] = {ErrorRow(v, job[w].message)}
    BY <1>1, <1>3, <2>1 DEF TxInv, HoldsResult
  <2>4. \E r \in tx.graphs[file(w)] : r.tag = v
    <3>1. ResultRow(v).tag = v /\ ErrorRow(v, job[w].message).tag = v
      BY DEF ResultRow, ErrorRow
    <3> QED BY <2>3, <3>1
  <2>5. ASSUME NEW f \in Asked(job'[w], job'[w].pos - 1) \cap Supported
        PROVE  \E r \in tx.graphs[f] : r.tag = content[f]
    <3>1. CASE f = file(w)
      BY <2>4, <3>1
    <3>2. CASE f # file(w)
      <4>1. f \in Files
        BY IndexingAssumption
      <4>2. tx.graphs[f] = db.graphs[f]
        BY <1>1, <2>1, <3>2, <4>1 DEF TxInv, SameRows
      <4>3. StatusForFile(f, content[f]) # "missing"
        BY <1>3, <2>8, <3>2, CoverOf DEF Covered
      <4> QED BY <4>2, <4>3 DEF StatusForFile
    <3> QED BY <3>1, <3>2
  <2>6. Covered(w)'
    <3>1. ASSUME NEW f \in Asked(job'[w], job'[w].pos - 1) \cap Supported
          PROVE  StatusForFile(f, content[f])' # "missing"
      <4>1. {r \in tx.graphs[f] : r.tag = content[f]} # {}
        BY <2>5
      <4> QED BY <1>1, <4>1 DEF StatusForFile
    <3> QED BY <1>1, <2>2, <2>7, <3>1 DEF Covered, MarkInv
  <2> QED BY <2>2, <2>6, CoverFrame
<1> QED BY <1>2, <1>3 DEF Commit

LEMMA StepCovers == IInv /\ Alone /\ CoverInv /\ [Next]_vars => CoverInv'
<1> SUFFICES ASSUME IInv, Alone, CoverInv, [Next]_vars PROVE CoverInv'
  OBVIOUS
<1>1. TypeOK
  BY DEF IInv
<1>2. ASSUME NEW w \in Writers, StartIndexing(w) \/ StartCleaning(w) PROVE CoverInv'
  BY <1>2, CallCovers
<1>3. ASSUME NEW w \in Writers, Progress(w) PROVE CoverInv'
  <2>1. PrimaryKeyConflict(w) \/ DatabaseBusy(w) => Return(w, "error")
    BY DEF PrimaryKeyConflict, DatabaseBusy, Abort
  <2> QED
    BY <1>1, <1>3, <2>1, LoopCovers, LoadFileCovers, QueryStatusCovers,
       ComputeCovers, StatementCovers, CommitCovers, ReturnCovers DEF Progress
<1>4. ASSUME NEW w \in Writers, StatementFails(w) \/ Kill(w) PROVE CoverInv'
  <2>1. Return(w, "error") \/ Return(w, "killed")
    BY <1>4 DEF StatementFails, Kill, Abort
  <2> QED BY <1>1, <2>1, ReturnCovers
<1>5. ASSUME UNCHANGED <<content, db, pc, job>> PROVE CoverInv'
  BY <1>5 DEF CoverInv, MarkInv, Asked, StatusForFile, file
<1>6. ASSUME NEW f \in Files, Edit(f) PROVE CoverInv'
  <2>1. \A w \in Writers : pc[w] = "idle" /\ job'[w] = job[w]
    BY <1>6 DEF Edit, Alone
  <2>2. \A w \in Writers : job'[w].op # "index"
    BY <2>1 DEF IInv, JobInv
  <2> QED BY <2>2 DEF CoverInv
<1>7. ASSUME (\E w \in Writers : RaiseFlag(w)) \/ UNCHANGED vars
      PROVE  UNCHANGED <<content, db, pc, job>>
  BY <1>7 DEF RaiseFlag, Unlocked, vars
<1> QED BY <1>2, <1>3, <1>4, <1>5, <1>6, <1>7 DEF Next

(* A step by which index_all returns Ok finds its files covered. *)
LEMMA OkMeansCovered ==
  ASSUME IInv, CoverInv, [Next]_vars, Alone,
         NEW w \in Writers, job[w].op = "index", pc'[w] = "idle", outcome'[w] = "ok"
  PROVE  \A f \in Asked(job[w], Len(job[w].list)) \cap Supported :
           StatusForFile(f, content[f]) # "missing"
<1>1. TypeOK /\ JobInv(w)
  BY DEF IInv
<1>2. pc[w] # "idle"
  BY <1>1 DEF JobInv
<1>3. \A u \in Writers : u = w
  BY DEF Alone
<1>4. CASE FinishIndexing(w)
  <2>1. job[w] \in Job /\ job[w].pos > Len(job[w].list)
    BY <1>1, <1>4 DEF TypeOK, FinishIndexing
  <2>2. Asked(job[w], Len(job[w].list)) \subseteq Asked(job[w], job[w].pos - 1)
    <3> DEFINE j == job[w]
               n == Len(j.list)
    <3>1. j.pos \in Nat /\ n \in Nat /\ n <= j.pos - 1 /\ DOMAIN j.list = 1 .. n
      <4>1. j.pos \in Nat \ {0} /\ j.list \in Seq(Files)
        BY <2>1 DEF Job
      <4> QED BY <2>1, <4>1
    <3> HIDE DEF j, n
    <3>2. \A x \in DOMAIN j.list : x <= n => x <= j.pos - 1
      BY <3>1
    <3>3. Asked(j, n) \subseteq Asked(j, j.pos - 1)
      BY <3>2, ZenonT(30) DEF Asked
    <3> QED BY <3>3 DEF j, n
  <2> QED BY <2>2, CoverOf DEF Covered
<1>5. ASSUME NEW o \in {"cancelled", "error", "killed"}, Return(w, o) PROVE FALSE
  BY <1>1, <1>5 DEF TypeOK, Return
<1>6. ASSUME NEW s, NextFile(w, s) PROVE FALSE
  BY <1>1, <1>6 DEF TypeOK, NextFile, Goto
<1>7. ASSUME NEW l \in Locations \ {"idle"}, Goto(w, l) PROVE FALSE
  BY <1>1, <1>7 DEF TypeOK, Goto
<1>8. UNCHANGED pc => FALSE
  BY <1>2
<1>9. ASSUME Progress(w), ~ FinishIndexing(w) PROVE FALSE
  <2>1. \/ \E o \in {"cancelled", "error", "killed"} : Return(w, o)
        \/ \E s : NextFile(w, s)
        \/ \E l \in Locations \ {"idle"} : Goto(w, l)
        \/ UNCHANGED pc
    <3>1. CASE TakeFile(w)
      BY <3>1 DEF TakeFile, Locations
    <3>2. CASE LoadFile(w)
      BY <3>2 DEF LoadFile, Abort, Locations
    <3>3. CASE QueryStatus(w)
      BY <3>3 DEF QueryStatus, Locations
    <3>4. CASE BuildStackGraph(w) \/ FindPartialPaths(w)
      BY <3>4 DEF BuildStackGraph, FindPartialPaths, GiveUp, Locations
    <3>5. CASE \/ DeleteFilePaths(w) \/ DeleteRootPaths(w) \/ DeleteGraphs(w)
               \/ InsertGraph(w) \/ InsertPath(w) \/ AllPathsInserted(w) \/ InsertError(w)
      BY <3>5 DEF DeleteFilePaths, DeleteRootPaths, DeleteGraphs, InsertGraph,
         InsertPath, AllPathsInserted, InsertError, Locations
    <3>6. CASE Commit(w)
      BY <3>6 DEF Commit
    <3>7. CASE PrimaryKeyConflict(w) \/ DatabaseBusy(w)
      BY <3>7 DEF PrimaryKeyConflict, DatabaseBusy, Abort
    <3> QED
      BY <1>9, <3>1, <3>2, <3>3, <3>4, <3>5, <3>6, <3>7 DEF Progress
  <2> QED BY <1>5, <1>6, <1>7, <1>8, <2>1
<1>10. ASSUME StatementFails(w) \/ Kill(w) PROVE FALSE
  <2>1. Return(w, "error") \/ Return(w, "killed")
    BY <1>10 DEF StatementFails, Kill, Abort
  <2> QED BY <1>5, <2>1
<1>11. ~ StartIndexing(w) /\ ~ StartCleaning(w)
  BY <1>2 DEF StartIndexing, StartCleaning
<1>12. ~ RaiseFlag(w) /\ (\A f \in Files : ~ Edit(f)) /\ ~ UNCHANGED vars
  BY <1>8 DEF RaiseFlag, Edit, vars
<1>13. FinishIndexing(w)
  BY <1>3, <1>9, <1>10, <1>11, <1>12 DEF Next
<1> QED BY <1>4, <1>13

(* For any files, contents and paths: when index_all of a writer that runs  *)
(* alone returns Ok, every supported file from the mark on is stored with    *)
(* the content it has, as a result or as an error.                          *)
THEOREM OkCoversFiles == ASSUME Alone PROVE Spec => OkRunCovers
<1>1. Init => CoverInv
  BY DEF Init, CoverInv, NoJob, Call
<1>2. IInv /\ CoverInv /\ [Next]_vars => CoverInv'
  BY StepCovers
<1> DEFINE A == \A w \in Writers :
       job[w].op = "index" /\ pc'[w] = "idle" /\ outcome'[w] = "ok" =>
         \A f \in Asked(job[w], Len(job[w].list)) \cap Supported :
           StatusForFile(f, content[f]) # "missing"
<1>3. IInv /\ CoverInv /\ [Next]_vars => A
  BY OkMeansCovered
<1>4. OkRunCovers <=> [][A]_vars
  BY DEF OkRunCovers
<1> HIDE DEF A
<1> QED BY <1>1, <1>2, <1>3, <1>4, Inductive, PTL DEF Spec
=============================================================================
