------------------------ MODULE LanguageServer_proofs ------------------------
(***************************************************************************)
(* When the language server is quiet, the index is what the notifications  *)
(* of the editor asked for, whatever the files, the folders, how they are  *)
(* nested, the bound on jobs and the failures.                             *)
(***************************************************************************)
EXTENDS LanguageServer, SequenceTheorems, TLAPS

(* Jobs in a sequence.                                                      *)
LEMMA JobType ==
  ASSUME NEW p \in Folders \cup Files
  PROVE  /\ Index(p) \in Job /\ Clean(p) \in Job
         /\ Index(p).kind = "index" /\ Index(p).path = p
         /\ Clean(p).kind = "clean" /\ Clean(p).path = p
BY DEF Index, Clean, Job

LEMMA ConcatAsks ==
  ASSUME NEW s \in Seq(Job), NEW t \in Seq(Job), NEW f, NEW k
  PROVE  /\ NoneAsks(s \o t, f) <=> NoneAsks(s, f) /\ NoneAsks(t, f)
         /\ LastAsks(t, f, k) => LastAsks(s \o t, f, k)
         /\ NoneAsks(t, f) /\ LastAsks(s, f, k) => LastAsks(s \o t, f, k)
<1> DEFINE u == s \o t
<1>1. /\ DOMAIN s = 1..Len(s) /\ DOMAIN t = 1..Len(t) /\ DOMAIN u = 1..Len(s) + Len(t)
      /\ Len(s) \in Nat /\ Len(t) \in Nat
      /\ \A i \in DOMAIN u : u[i] = IF i <= Len(s) THEN s[i] ELSE t[i - Len(s)]
  BY ConcatProperties, LenProperties
<1> HIDE DEF u
<1>2. \A i \in DOMAIN s : i \in DOMAIN u /\ u[i] = s[i]
  BY <1>1
<1>3. \A i \in DOMAIN t : i + Len(s) \in DOMAIN u /\ u[i + Len(s)] = t[i]
  BY <1>1
<1>4. \A i \in DOMAIN u :
        i \in DOMAIN s \/ (i > Len(s) /\ i - Len(s) \in DOMAIN t /\ u[i] = t[i - Len(s)])
  BY <1>1
<1>5. NoneAsks(u, f) <=> NoneAsks(s, f) /\ NoneAsks(t, f)
  BY <1>2, <1>3, <1>4 DEF NoneAsks
<1>6. LastAsks(t, f, k) => LastAsks(u, f, k)
  <2> SUFFICES ASSUME NEW i \in DOMAIN t, Covers(t[i], f), t[i].kind = k,
                      \A j \in DOMAIN t : j > i => ~Covers(t[j], f)
               PROVE  LastAsks(u, f, k)
    BY DEF LastAsks
  <2>1. \A j \in DOMAIN u : j > i + Len(s) => ~Covers(u[j], f)
    <3> SUFFICES ASSUME NEW j \in DOMAIN u, j > i + Len(s) PROVE ~Covers(u[j], f)
      OBVIOUS
    <3>1. j - Len(s) \in DOMAIN t /\ j - Len(s) > i /\ u[j] = t[j - Len(s)]
      BY <1>1
    <3> QED BY <3>1
  <2> QED BY <1>3, <2>1 DEF LastAsks
<1>7. NoneAsks(t, f) /\ LastAsks(s, f, k) => LastAsks(u, f, k)
  <2> SUFFICES ASSUME NoneAsks(t, f), NEW i \in DOMAIN s, Covers(s[i], f), s[i].kind = k,
                      \A j \in DOMAIN s : j > i => ~Covers(s[j], f)
               PROVE  LastAsks(u, f, k)
    BY DEF LastAsks
  <2>1. \A j \in DOMAIN u : j > i => ~Covers(u[j], f)
    BY <1>2, <1>4 DEF NoneAsks
  <2> QED BY <1>2, <2>1 DEF LastAsks
<1> QED BY <1>5, <1>6, <1>7 DEF u

LEMMA OneAsks ==
  ASSUME NEW job \in Job, NEW f
  PROVE  /\ <<job>> \in Seq(Job)
         /\ NoneAsks(<<job>>, f) <=> ~Covers(job, f)
         /\ LastAsks(<<job>>, f, job.kind) <=> Covers(job, f)
         /\ \A k : LastAsks(<<job>>, f, k) => k = job.kind /\ Covers(job, f)
BY DEF NoneAsks, LastAsks

LEMMA EmptyAsks ==
  ASSUME NEW f, NEW k
  PROVE  NoneAsks(<<>>, f) /\ ~LastAsks(<<>>, f, k)
BY DEF NoneAsks, LastAsks

(* The first job is taken. *)
LEMMA TailAsks ==
  ASSUME NEW s \in Seq(Job), s # <<>>, NEW f, NEW k
  PROVE  /\ NoneAsks(s, f) <=> ~Covers(Head(s), f) /\ NoneAsks(Tail(s), f)
         /\ LastAsks(s, f, k) =>
              \/ LastAsks(Tail(s), f, k)
              \/ NoneAsks(Tail(s), f) /\ Covers(Head(s), f) /\ Head(s).kind = k
<1> DEFINE t == Tail(s)
<1>1. /\ DOMAIN s = 1..Len(s) /\ DOMAIN t = 1..Len(s) - 1 /\ Len(s) \in Nat \ {0}
      /\ Head(s) = s[1]
      /\ \A i \in DOMAIN t : i + 1 \in DOMAIN s /\ t[i] = s[i + 1]
  BY HeadTailProperties, LenProperties
<1> HIDE DEF t
<1>2. \A i \in DOMAIN s : i = 1 \/ (i - 1 \in DOMAIN t /\ t[i - 1] = s[i])
  BY <1>1
<1>3. NoneAsks(s, f) <=> ~Covers(Head(s), f) /\ NoneAsks(t, f)
  BY <1>1, <1>2 DEF NoneAsks
<1>4. ASSUME NEW i \in DOMAIN s, Covers(s[i], f), s[i].kind = k,
             \A j \in DOMAIN s : j > i => ~Covers(s[j], f)
      PROVE  LastAsks(t, f, k) \/ (NoneAsks(t, f) /\ Covers(Head(s), f) /\ Head(s).kind = k)
  <2>1. CASE i = 1
    BY <1>1, <1>4, <2>1 DEF NoneAsks
  <2>2. CASE i # 1
    <3>1. i - 1 \in DOMAIN t /\ t[i - 1] = s[i]
      BY <1>2, <2>2
    <3>2. \A j \in DOMAIN t : j > i - 1 => ~Covers(t[j], f)
      BY <1>1, <1>4
    <3> QED BY <3>1, <3>2, <1>4 DEF LastAsks
  <2> QED BY <2>1, <2>2
<1> QED BY <1>3, <1>4 DEF LastAsks, t
-----------------------------------------------------------------------------
(* Types. *)
LEMMA FilesType ==
  ASSUME NEW p \in Folders \cup Files
  PROVE  FilesOf[p] \in Seq(Files) /\ ToSet(FilesOf[p]) \subseteq Files
BY LanguageServerAssumption DEF ToSet

LEMMA AtType ==
  ASSUME NEW l \in {"none", "waiting", "timeout", "files", "build", "clean", "stopped"}
  PROVE  At(l) \in Thread /\ At(l).at = l /\ At(l).files = <<>>
BY DEF At, Thread

LEMMA PendingType ==
  ASSUME TypeOK PROVE Pending \in Seq(Job)
BY ConcatProperties DEF TypeOK, Pending

LEMMA SetOfTail ==
  ASSUME NEW s \in Seq(Files), s # <<>>
  PROVE  /\ Head(s) \in Files /\ Tail(s) \in Seq(Files)
         /\ ToSet(s) = {Head(s)} \cup ToSet(Tail(s))
<1>1. /\ DOMAIN s = 1..Len(s) /\ DOMAIN Tail(s) = 1..Len(s) - 1 /\ Len(s) \in Nat \ {0}
      /\ Head(s) = s[1] /\ Head(s) \in Files /\ Tail(s) \in Seq(Files)
      /\ \A i \in DOMAIN Tail(s) : i + 1 \in DOMAIN s /\ Tail(s)[i] = s[i + 1]
  BY HeadTailProperties, LenProperties
<1>2. \A i \in DOMAIN s : i = 1 \/ (i - 1 \in DOMAIN Tail(s) /\ Tail(s)[i - 1] = s[i])
  BY <1>1
<1> QED BY <1>1, <1>2 DEF ToSet

LEMMA InitIInv == Init => IInv
<1> SUFFICES ASSUME Init PROVE IInv
  OBVIOUS
<1>1. TypeOK
  <2>1. <<>> \in Seq(Job) /\ Len(<<>>) = 0
    BY EmptySeq
  <2>2. Store!TypeOK
    BY DEF Init, Store!Init, Store!TypeOK
  <2>3. At("none") \in Thread
    BY AtType
  <2>4. Len(sending) + Len(queue) <= MaxJobs
    BY <2>1, LanguageServerAssumption DEF Init
  <2>5. expected \in [Files -> {"anything", "indexed", "absent"}]
    BY DEF Init, Nothing
  <2> QED BY <2>1, <2>2, <2>3, <2>4, <2>5 DEF Init, TypeOK
<1>2. Phases
  BY AtType DEF Init, Phases
<1> QED BY <1>1, <1>2 DEF Init, IInv

-----------------------------------------------------------------------------
(* A step that leaves the jobs alone: what is still expected of a file is   *)
(* what was, and the current job goes on to see to it.                      *)
LEMMA TrackedFrame ==
  ASSUME IInv, lsp = "ready", Pending' = Pending, NEW f \in Files,
         expected'[f] \in {expected[f], "anything"},
         expected'[f] = "indexed" /\ IndexedSoon(f) => IndexedSoon(f)',
         expected'[f] = "absent" /\ AbsentSoon(f) => AbsentSoon(f)'
  PROVE  Tracked(f)'
<1>1. Tracked(f)
  BY DEF IInv
<1>2. \A k : LastAsks(Pending, f, k)' = LastAsks(Pending, f, k)
  BY <1>1 DEF LastAsks, Covers
<1>3. NoneAsks(Pending, f)' = NoneAsks(Pending, f)
  BY <1>1 DEF NoneAsks, Covers
<1> QED BY <1>1, <1>2, <1>3 DEF Tracked

(* A handler schedules jobs, and expects of files what the last of them     *)
(* that is about them asks.                                                 *)
LEMMA ScheduleTracked ==
  ASSUME IInv, NEW jobs \in Seq(Job), Schedule(jobs), NEW f \in Files,
         UNCHANGED <<index, content, queue>>,
         \/ lsp = "ready" /\ UNCHANGED thread
         \/ lsp = "down" /\ thread'.at = "waiting",
         \/ expected'[f] = expected[f] /\ NoneAsks(jobs, f)
         \/ expected'[f] = "indexed" /\ LastAsks(jobs, f, "index")
         \/ expected'[f] = "absent" /\ LastAsks(jobs, f, "clean")
  PROVE  Tracked(f)'
<1>1. queue \in Seq(Job) /\ sending = <<>>
  BY DEF IInv, TypeOK, Schedule
<1>2. Pending = queue /\ Pending' = queue \o jobs
  BY <1>1 DEF Pending, Schedule
<1>3. CASE expected'[f] = expected[f] /\ NoneAsks(jobs, f)
  <2>1. CASE lsp = "down"
    BY <1>3, <2>1 DEF IInv, Phases, Nothing, Tracked
  <2>2. CASE lsp = "ready" /\ UNCHANGED thread
    <3>1. Tracked(f)
      BY <2>2 DEF IInv
    <3>2. /\ IndexedSoon(f)' = IndexedSoon(f)
          /\ AbsentSoon(f)' = AbsentSoon(f)
      BY <2>2 DEF IndexedSoon, AbsentSoon, Works, Builds, Cleans
    <3>3. /\ \A k \in {"index", "clean"} : LastAsks(Pending, f, k) => LastAsks(Pending', f, k)
          /\ NoneAsks(Pending, f) => NoneAsks(Pending', f)
      BY <1>1, <1>2, <1>3, ConcatAsks
    <3>4. /\ \A k \in {"index", "clean"} : LastAsks(Pending', f, k) = LastAsks(Pending, f, k)'
          /\ NoneAsks(Pending', f) = NoneAsks(Pending, f)'
      BY DEF LastAsks, NoneAsks, Covers
    <3> QED BY <3>1, <3>2, <3>3, <3>4, <1>3 DEF Tracked
  <2> QED BY <2>1, <2>2
<1>4. CASE expected'[f] = "indexed" /\ LastAsks(jobs, f, "index")
  <2>1. LastAsks(Pending', f, "index")
    BY <1>1, <1>2, <1>4, ConcatAsks
  <2> QED BY <1>4, <2>1 DEF Tracked, LastAsks, Covers
<1>5. CASE expected'[f] = "absent" /\ LastAsks(jobs, f, "clean")
  <2>1. LastAsks(Pending', f, "clean")
    BY <1>1, <1>2, <1>5, ConcatAsks
  <2> QED BY <1>5, <2>1 DEF Tracked, LastAsks, Covers
<1> QED BY <1>3, <1>4, <1>5

(* The jobs for a list of at most one folder. *)
LEMMA FolderJobs ==
  ASSUME NEW s \in FolderLists
  PROVE  /\ [i \in DOMAIN s |-> Index(s[i])] \in Seq(Job)
         /\ [i \in DOMAIN s |-> Clean(s[i])] \in Seq(Job)
         /\ \A f \in Files :
              /\ (\E p \in ToSet(s) : f \in ToSet(FilesOf[p])) =>
                   /\ LastAsks([i \in DOMAIN s |-> Index(s[i])], f, "index")
                   /\ LastAsks([i \in DOMAIN s |-> Clean(s[i])], f, "clean")
              /\ ~(\E p \in ToSet(s) : f \in ToSet(FilesOf[p])) =>
                   /\ NoneAsks([i \in DOMAIN s |-> Index(s[i])], f)
                   /\ NoneAsks([i \in DOMAIN s |-> Clean(s[i])], f)
<1>1. CASE s = <<>>
  <2>1. /\ [i \in DOMAIN s |-> Index(s[i])] = <<>>
        /\ [i \in DOMAIN s |-> Clean(s[i])] = <<>>
        /\ ToSet(s) = {}
    BY <1>1 DEF ToSet
  <2> QED BY <2>1, EmptyAsks, EmptySeq
<1>2. CASE \E p \in Folders : s = <<p>>
  <2>1. PICK p \in Folders : s = <<p>>
    BY <1>2
  <2>2. /\ [i \in DOMAIN s |-> Index(s[i])] = <<Index(p)>>
        /\ [i \in DOMAIN s |-> Clean(s[i])] = <<Clean(p)>>
        /\ ToSet(s) = {p}
    BY <2>1 DEF ToSet
  <2>3. /\ Index(p) \in Job /\ Clean(p) \in Job
        /\ \A f : Covers(Index(p), f) <=> f \in ToSet(FilesOf[p])
        /\ \A f : Covers(Clean(p), f) <=> f \in ToSet(FilesOf[p])
        /\ Index(p).kind = "index" /\ Clean(p).kind = "clean"
    BY JobType DEF Covers
  <2>4. <<Index(p)>> \in Seq(Job) /\ <<Clean(p)>> \in Seq(Job)
    BY <2>3, OneAsks
  <2>5. ASSUME NEW f \in Files
        PROVE  /\ f \in ToSet(FilesOf[p]) => LastAsks(<<Index(p)>>, f, "index") /\ LastAsks(<<Clean(p)>>, f, "clean")
               /\ f \notin ToSet(FilesOf[p]) => NoneAsks(<<Index(p)>>, f) /\ NoneAsks(<<Clean(p)>>, f)
    BY <2>3, OneAsks
  <2> QED BY <2>2, <2>4, <2>5
<1> QED BY <1>1, <1>2 DEF FolderLists

-----------------------------------------------------------------------------
(* Handlers. *)
LEMMA ScheduleType ==
  ASSUME TypeOK, NEW jobs \in Seq(Job), Schedule(jobs), UNCHANGED queue
  PROVE  sending' \in Seq(Job) /\ queue' \in Seq(Job) /\ Len(sending') + Len(queue') <= MaxJobs
<1>1. Len(jobs) \in Nat /\ Len(queue) \in Nat /\ MaxJobs \in Nat /\ queue \in Seq(Job)
  BY LenProperties, LanguageServerAssumption DEF TypeOK
<1>2. sending' = jobs /\ Len(queue) + Len(jobs) <= MaxJobs
  BY DEF Schedule
<1> QED BY <1>1, <1>2

LEMMA ExpectType ==
  ASSUME NEW what \in {"indexed", "absent"}, NEW e \in [Files -> {"anything", "indexed", "absent"}],
         NEW paths
  PROVE  /\ Expect(paths, what, e) \in [Files -> {"anything", "indexed", "absent"}]
         /\ \A f \in Files : Expect(paths, what, e)[f] =
              IF \E p \in paths : f \in ToSet(FilesOf[p]) THEN what ELSE e[f]
BY DEF Expect

LEMMA GiveUpType ==
  ASSUME TypeOK, NEW files, GiveUpOn(files)
  PROVE  /\ expected' \in [Files -> {"anything", "indexed", "absent"}]
         /\ \A f \in Files : expected'[f] = IF f \in ToSet(files) THEN "anything" ELSE expected[f]
BY DEF GiveUpOn, TypeOK

LEMMA InitializeKeeps ==
  ASSUME IInv, NEW s \in FolderLists, Initialize(s)
  PROVE  IInv'
<1> DEFINE jobs == [i \in DOMAIN s |-> Index(s[i])]
<1>1. jobs \in Seq(Job) /\ TypeOK /\ Phases /\ Schedule(jobs) /\ lsp = "down"
  BY FolderJobs DEF Initialize, IInv
<1>2. /\ lsp' = "ready" /\ thread' = At("waiting") /\ UNCHANGED <<index, content, queue, flag>>
      /\ expected' = Expect(ToSet(s), "indexed", expected)
  BY DEF Initialize
<1>3. thread' \in Thread /\ thread'.at = "waiting"
  BY <1>2, AtType
<1> HIDE DEF jobs
<1>4. TypeOK'
  BY <1>1, <1>2, <1>3, ScheduleType, ExpectType DEF TypeOK, Store!TypeOK
<1>5. Phases'
  BY <1>1, <1>2, <1>3 DEF Phases
<1>6. ASSUME NEW f \in Files PROVE Tracked(f)'
  <2>1. \/ expected'[f] = expected[f] /\ NoneAsks(jobs, f)
        \/ expected'[f] = "indexed" /\ LastAsks(jobs, f, "index")
    <3>1. expected'[f] = IF \E p \in ToSet(s) : f \in ToSet(FilesOf[p]) THEN "indexed" ELSE expected[f]
      BY <1>1, <1>2, ExpectType DEF TypeOK
    <3> QED BY <3>1, FolderJobs DEF jobs
  <2> QED BY <2>1, <1>1, <1>2, <1>3, ScheduleTracked
<1> QED BY <1>4, <1>5, <1>6 DEF IInv

LEMMA DidSaveKeeps ==
  ASSUME IInv, NEW g \in Files, DidSave(g)
  PROVE  IInv'
<1> DEFINE jobs == <<Index(g)>>
<1>1. Index(g) \in Job /\ Index(g).kind = "index" /\ Index(g).path = g /\ jobs \in Seq(Job)
  BY JobType, OneAsks
<1>2. /\ lsp = "ready" /\ Schedule(jobs) /\ UNCHANGED <<index, content, lsp, queue, flag, thread>>
      /\ expected' = Expect({g}, "indexed", expected) /\ TypeOK /\ Phases
  BY DEF DidSave, IInv
<1>3. ASSUME NEW f \in Files
      PROVE  \/ expected'[f] = expected[f] /\ NoneAsks(jobs, f)
             \/ expected'[f] = "indexed" /\ LastAsks(jobs, f, "index")
  <2>1. expected'[f] = IF \E p \in {g} : f \in ToSet(FilesOf[p]) THEN "indexed" ELSE expected[f]
    BY <1>2, ExpectType DEF TypeOK
  <2>2. Covers(Index(g), f) <=> f \in ToSet(FilesOf[g])
    BY <1>1 DEF Covers
  <2> QED BY <2>1, <2>2, <1>1, OneAsks
<1> HIDE DEF jobs
<1>4. TypeOK'
  BY <1>1, <1>2, ScheduleType, ExpectType DEF TypeOK, Store!TypeOK
<1>5. Phases'
  BY <1>2 DEF Phases
<1>6. ASSUME NEW f \in Files PROVE Tracked(f)'
  BY <1>1, <1>2, <1>3, ScheduleTracked
<1> QED BY <1>4, <1>5, <1>6 DEF IInv

(* The folders that are added count more than the ones that are removed.    *)
LEMMA DidChangeKeeps ==
  ASSUME IInv, NEW r \in FolderLists, NEW s \in FolderLists, DidChangeWorkspaceFolders(r, s)
  PROVE  IInv'
<1> DEFINE cleans == [i \in DOMAIN r |-> Clean(r[i])]
           indexes == [i \in DOMAIN s |-> Index(s[i])]
           jobs == cleans \o indexes
           absent == Expect(ToSet(r), "absent", expected)
<1>1. cleans \in Seq(Job) /\ indexes \in Seq(Job)
  BY FolderJobs
<1>2. /\ lsp = "ready" /\ Schedule(jobs) /\ UNCHANGED <<index, content, lsp, queue, flag, thread>>
      /\ expected' = Expect(ToSet(s), "indexed", absent) /\ TypeOK /\ Phases
  BY DEF DidChangeWorkspaceFolders, IInv
<1>3. jobs \in Seq(Job)
  BY <1>1, ConcatProperties
<1>4. absent \in [Files -> {"anything", "indexed", "absent"}]
  BY <1>2, ExpectType DEF TypeOK
<1>5. ASSUME NEW f \in Files
      PROVE  \/ expected'[f] = expected[f] /\ NoneAsks(jobs, f)
             \/ expected'[f] = "indexed" /\ LastAsks(jobs, f, "index")
             \/ expected'[f] = "absent" /\ LastAsks(jobs, f, "clean")
  <2>1. /\ absent[f] = IF \E p \in ToSet(r) : f \in ToSet(FilesOf[p]) THEN "absent" ELSE expected[f]
        /\ expected'[f] = IF \E p \in ToSet(s) : f \in ToSet(FilesOf[p]) THEN "indexed" ELSE absent[f]
    <3>1. expected \in [Files -> {"anything", "indexed", "absent"}]
      BY <1>2 DEF TypeOK
    <3> HIDE DEF absent
    <3>2. expected'[f] = IF \E p \in ToSet(s) : f \in ToSet(FilesOf[p]) THEN "indexed" ELSE absent[f]
      BY <1>2, <1>4, ExpectType
    <3> QED BY <3>1, <3>2, ExpectType DEF absent
  <2>2. /\ (\E p \in ToSet(r) : f \in ToSet(FilesOf[p])) => LastAsks(cleans, f, "clean")
        /\ ~(\E p \in ToSet(r) : f \in ToSet(FilesOf[p])) => NoneAsks(cleans, f)
    BY FolderJobs
  <2>3. /\ (\E p \in ToSet(s) : f \in ToSet(FilesOf[p])) => LastAsks(indexes, f, "index")
        /\ ~(\E p \in ToSet(s) : f \in ToSet(FilesOf[p])) => NoneAsks(indexes, f)
    BY FolderJobs
  <2> HIDE DEF cleans, indexes, absent
  <2> QED BY <2>1, <2>2, <2>3, <1>1, ConcatAsks
<1> HIDE DEF jobs, absent
<1>6. TypeOK'
  BY <1>2, <1>3, <1>4, ScheduleType, ExpectType DEF TypeOK, Store!TypeOK
<1>7. Phases'
  BY <1>2 DEF Phases
<1>8. ASSUME NEW f \in Files PROVE Tracked(f)'
  BY <1>2, <1>3, <1>5, ScheduleTracked
<1> QED BY <1>6, <1>7, <1>8 DEF IInv

(* The channel and what is not sent yet are one sequence of jobs.           *)
LEMMA SendConcat ==
  ASSUME NEW q \in Seq(Job), NEW s \in Seq(Job), s # <<>>
  PROVE  /\ Append(q, Head(s)) \in Seq(Job) /\ Tail(s) \in Seq(Job)
         /\ Len(Tail(s)) + Len(Append(q, Head(s))) = Len(s) + Len(q)
         /\ Append(q, Head(s)) \o Tail(s) = q \o s
<1> DEFINE a == Append(q, Head(s))
           t == Tail(s)
<1>1. /\ Head(s) \in Job /\ t \in Seq(Job) /\ Len(t) = Len(s) - 1 /\ Len(s) \in Nat \ {0}
      /\ Head(s) = s[1] /\ \A i \in 1..Len(t) : t[i] = s[i + 1]
  BY HeadTailProperties, LenProperties
<1>2. /\ a \in Seq(Job) /\ Len(a) = Len(q) + 1 /\ Len(q) \in Nat
      /\ \A i \in 1..Len(q) : a[i] = q[i] /\ a[Len(q) + 1] = Head(s)
  BY <1>1, AppendProperties, LenProperties
<1>3. a[Len(q) + 1] = Head(s)
  BY <1>1, AppendProperties
<1> HIDE DEF a, t
<1>4. /\ a \o t \in Seq(Job) /\ Len(a \o t) = Len(q) + Len(s)
      /\ \A i \in 1..Len(q) + Len(s) :
           (a \o t)[i] = IF i <= Len(q) + 1 THEN a[i] ELSE t[i - (Len(q) + 1)]
  <2>1. /\ a \o t \in Seq(Job) /\ Len(a \o t) = Len(a) + Len(t)
        /\ \A i \in 1..Len(a) + Len(t) : (a \o t)[i] = IF i <= Len(a) THEN a[i] ELSE t[i - Len(a)]
    BY <1>1, <1>2, ConcatProperties
  <2>2. Len(a) + Len(t) = Len(q) + Len(s)
    BY <1>1, <1>2
  <2> QED BY <2>1, <2>2, <1>2
<1>7. /\ q \o s \in Seq(Job) /\ Len(q \o s) = Len(q) + Len(s)
      /\ \A i \in 1..Len(q) + Len(s) : (q \o s)[i] = IF i <= Len(q) THEN q[i] ELSE s[i - Len(q)]
  BY ConcatProperties
<1>5. ASSUME NEW i \in 1..Len(q) + Len(s) PROVE (a \o t)[i] = (q \o s)[i]
  <2>1. CASE i <= Len(q)
    BY <2>1, <1>2, <1>4, <1>7
  <2>2. CASE i = Len(q) + 1
    BY <2>2, <1>1, <1>2, <1>3, <1>4, <1>7
  <2>3. CASE i > Len(q) + 1
    <3>1. /\ i - (Len(q) + 1) \in 1..Len(t) /\ (i - (Len(q) + 1)) + 1 = i - Len(q)
          /\ ~(i <= Len(q)) /\ ~(i <= Len(q) + 1)
      BY <2>3, <1>1, <1>2
    <3>2. (a \o t)[i] = t[i - (Len(q) + 1)]
      BY <3>1, <1>4
    <3>3. (q \o s)[i] = s[i - Len(q)]
      BY <3>1, <1>7
    <3>4. t[i - (Len(q) + 1)] = s[(i - (Len(q) + 1)) + 1]
      BY <3>1, <1>1
    <3> QED BY <3>1, <3>2, <3>3, <3>4
  <2>4. i <= Len(q) \/ i = Len(q) + 1 \/ i > Len(q) + 1
    BY <1>1, <1>2
  <2> QED BY <2>1, <2>2, <2>3, <2>4
<1>6. a \o t = q \o s
  BY <1>4, <1>5, <1>7, SeqEqual
<1> QED BY <1>1, <1>2, <1>6 DEF a, t

LEMMA ReceiveConcat ==
  ASSUME NEW q \in Seq(Job), NEW s \in Seq(Job), q # <<>>
  PROVE  /\ Head(q) \in Job /\ Tail(q) \in Seq(Job) /\ Len(Tail(q)) = Len(q) - 1
         /\ q \o s \in Seq(Job) /\ q \o s # <<>>
         /\ Head(q \o s) = Head(q) /\ Tail(q \o s) = Tail(q) \o s
<1> DEFINE u == q \o s
           t == Tail(q)
<1>1. /\ Head(q) \in Job /\ t \in Seq(Job) /\ Len(t) = Len(q) - 1 /\ Len(q) \in Nat \ {0}
      /\ Head(q) = q[1] /\ \A i \in 1..Len(t) : t[i] = q[i + 1]
  BY HeadTailProperties, LenProperties
<1>2. /\ u \in Seq(Job) /\ Len(u) = Len(q) + Len(s) /\ Len(s) \in Nat
      /\ \A i \in 1..Len(q) + Len(s) : u[i] = IF i <= Len(q) THEN q[i] ELSE s[i - Len(q)]
  BY ConcatProperties, LenProperties
<1> HIDE DEF u
<1>3. u # <<>>
  BY <1>1, <1>2, EmptySeq
<1>4. /\ Tail(u) \in Seq(Job) /\ Len(Tail(u)) = Len(u) - 1
      /\ Head(u) = u[1] /\ \A i \in 1..Len(Tail(u)) : Tail(u)[i] = u[i + 1]
  BY <1>2, <1>3, HeadTailProperties
<1> HIDE DEF t
<1>5. /\ t \o s \in Seq(Job) /\ Len(t \o s) = Len(t) + Len(s)
      /\ \A i \in 1..Len(t) + Len(s) : (t \o s)[i] = IF i <= Len(t) THEN t[i] ELSE s[i - Len(t)]
  BY <1>1, ConcatProperties
<1>6. ASSUME NEW i \in 1..Len(Tail(u)) PROVE Tail(u)[i] = (t \o s)[i]
  BY <1>1, <1>2, <1>4, <1>5
<1>7. Tail(u) = t \o s
  BY <1>1, <1>2, <1>4, <1>5, <1>6, SeqEqual
<1> QED BY <1>1, <1>2, <1>3, <1>4, <1>7 DEF t, u

LEMMA SendKeeps ==
  ASSUME IInv, Send
  PROVE  IInv'
<1>1. /\ queue \in Seq(Job) /\ sending \in Seq(Job) /\ sending # <<>> /\ sending' = Tail(sending)
      /\ UNCHANGED <<index, content, lsp, flag, thread>> /\ TypeOK /\ Phases
  BY DEF Send, IInv, TypeOK
<1>2. lsp # "down"
  BY <1>1 DEF Phases
<1>3. CASE thread.at = "stopped"
  <2>1. GiveUpOn(FilesOf[Head(sending).path]) /\ UNCHANGED queue
    BY <1>3 DEF Send
  <2>2. Tail(sending) \in Seq(Job) /\ Len(Tail(sending)) = Len(sending) - 1 /\ Len(sending) \in Nat
        /\ Len(queue) \in Nat /\ MaxJobs \in Nat /\ Len(sending) + Len(queue) <= MaxJobs
    BY <1>1, HeadTailProperties, LenProperties, LanguageServerAssumption DEF TypeOK
  <2>3. Len(sending') + Len(queue') <= MaxJobs
    BY <1>1, <2>1, <2>2
  <2>4. TypeOK'
    BY <1>1, <2>1, <2>2, <2>3, GiveUpType DEF TypeOK, Store!TypeOK
  <2>5. lsp' # "ready" /\ Phases'
    BY <1>1, <1>2, <1>3 DEF Phases
  <2> QED BY <2>4, <2>5 DEF IInv
<1>4. CASE thread.at # "stopped"
  <2>1. queue' = Append(queue, Head(sending)) /\ UNCHANGED expected
    BY <1>4 DEF Send
  <2>2. /\ queue' \in Seq(Job) /\ sending' \in Seq(Job) /\ Pending' = Pending
        /\ Len(sending') + Len(queue') = Len(sending) + Len(queue)
    BY <1>1, <2>1, SendConcat DEF Pending
  <2>3. TypeOK'
    BY <1>1, <2>1, <2>2 DEF TypeOK, Store!TypeOK
  <2>4. Phases'
    BY <1>1, <1>2, <2>1 DEF Phases
  <2>5. ASSUME NEW f \in Files, lsp = "ready" PROVE Tracked(f)'
    <3>1. IndexedSoon(f)' = IndexedSoon(f) /\ AbsentSoon(f)' = AbsentSoon(f)
      BY <1>1 DEF IndexedSoon, AbsentSoon, Works, Builds, Cleans
    <3> QED BY <1>1, <2>1, <2>2, <2>5, <3>1, TrackedFrame
  <2> QED BY <1>1, <2>3, <2>4, <2>5 DEF IInv
<1> QED BY <1>3, <1>4

LEMMA ShutDownKeeps ==
  ASSUME IInv, ShutDown \/ RaiseFlag
  PROVE  IInv'
<1>1. /\ lsp' = "shutting down" /\ flag' \in BOOLEAN
      /\ UNCHANGED <<index, content, sending, queue, thread, expected>>
      /\ flag => flag'
  BY DEF ShutDown, RaiseFlag, IInv, TypeOK
<1>2. TypeOK' /\ Phases'
  BY <1>1 DEF IInv, TypeOK, Store!TypeOK, Phases
<1> QED BY <1>1, <1>2 DEF IInv

LEMMA ExitKeeps ==
  ASSUME IInv, Exit
  PROVE  IInv'
<1>1. /\ lsp' = "down" /\ sending' = <<>> /\ queue' = <<>> /\ flag' = FALSE
      /\ thread' = At("none") /\ expected' = Nothing /\ UNCHANGED <<index, content>>
  BY DEF Exit
<1>2. <<>> \in Seq(Job) /\ Len(<<>>) = 0 /\ At("none") \in Thread /\ At("none").at = "none"
  BY EmptySeq, AtType
<1>3. Len(sending') + Len(queue') <= MaxJobs
  BY <1>1, <1>2, LanguageServerAssumption
<1>4. Nothing \in [Files -> {"anything", "indexed", "absent"}]
  BY DEF Nothing
<1>5. TypeOK'
  BY <1>1, <1>2, <1>3, <1>4 DEF IInv, TypeOK, Store!TypeOK
<1>6. Phases'
  BY <1>1, <1>2 DEF Phases, Nothing
<1> QED BY <1>1, <1>5, <1>6 DEF IInv

LEMMA EditKeeps ==
  ASSUME IInv, NEW g \in Files, Edit(g)
  PROVE  IInv'
<1>1. PICK v \in Versions : content' = [content EXCEPT ![g] = v]
  BY DEF Edit
<1>2. /\ UNCHANGED <<index, lsp, sending, queue, flag, thread>> /\ TypeOK /\ Phases
      /\ expected' \in [Files -> {"anything", "indexed", "absent"}]
      /\ \A f \in Files : expected'[f] = IF f = g THEN "anything" ELSE expected[f]
  BY GiveUpType DEF Edit, IInv, ToSet
<1>3. content' \in [Files -> Versions] /\ \A f \in Files : f # g => content'[f] = content[f]
  BY <1>1, <1>2 DEF TypeOK
<1>4. TypeOK'
  BY <1>2, <1>3 DEF TypeOK, Store!TypeOK
<1>5. Phases'
  BY <1>2 DEF Phases, Nothing
<1>6. ASSUME NEW f \in Files, lsp = "ready" PROVE Tracked(f)'
  <2>1. CASE f = g
    BY <1>2, <2>1 DEF Tracked
  <2>2. CASE f # g
    <3>1. IndexedSoon(f)' = IndexedSoon(f) /\ AbsentSoon(f)' = AbsentSoon(f) /\ Pending' = Pending
      BY <1>2, <1>3, <2>2 DEF IndexedSoon, AbsentSoon, Works, Builds, Cleans, Pending
    <3> QED BY <1>2, <1>6, <2>2, <3>1, TrackedFrame
  <2> QED BY <2>1, <2>2
<1> QED BY <1>2, <1>4, <1>5, <1>6 DEF IInv

-----------------------------------------------------------------------------
(* The job thread. *)
LEMMA TimeoutKeeps ==
  ASSUME IInv, Timeout \/ CheckFlag
  PROVE  IInv'
<1>1. PICK l \in {"timeout", "stopped", "waiting"} :
        /\ thread' = At(l)
        /\ l = "stopped" => flag
        /\ UNCHANGED <<index, content, lsp, sending, queue, flag, expected>>
        /\ thread.at \in {"waiting", "timeout"}
  BY DEF Timeout, CheckFlag
<1>2. At(l) \in Thread /\ At(l).at = l
  BY AtType
<1>3. TypeOK' /\ Phases'
  BY <1>1, <1>2 DEF IInv, TypeOK, Store!TypeOK, Phases
<1>4. ASSUME NEW f \in Files, lsp = "ready" PROVE Tracked(f)'
  <2>1. /\ IndexedSoon(f) => IndexedSoon(f)'
        /\ AbsentSoon(f) => AbsentSoon(f)'
        /\ Pending' = Pending
    BY <1>1, <1>2 DEF IndexedSoon, AbsentSoon, Works, Builds, Cleans, Pending
  <2> QED BY <1>1, <1>4, <2>1, TrackedFrame
<1> QED BY <1>1, <1>3, <1>4 DEF IInv

LEMMA ReceiveKeeps ==
  ASSUME IInv, Receive
  PROVE  IInv'
<1> DEFINE job == Head(queue)
<1>1. /\ thread.at = "waiting" /\ queue # <<>> /\ queue' = Tail(queue) /\ TypeOK /\ Phases
      /\ UNCHANGED <<index, content, lsp, sending, flag>>
      /\ queue \in Seq(Job) /\ sending \in Seq(Job)
  BY DEF Receive, IInv, TypeOK
<1>2. /\ job \in Job /\ queue' \in Seq(Job) /\ Len(queue') = Len(queue) - 1
      /\ Pending \in Seq(Job) /\ Pending # <<>> /\ Head(Pending) = job /\ Tail(Pending) = Pending'
  BY <1>1, ReceiveConcat DEF Pending
<1>3. job.path \in Folders \cup Files /\ job.kind \in {"index", "clean"}
      /\ FilesOf[job.path] \in Seq(Files)
  BY <1>2, FilesType DEF Job
<1>4. Len(sending') + Len(queue') <= MaxJobs
  <2>1. Len(sending) \in Nat /\ Len(queue) \in Nat /\ MaxJobs \in Nat /\ Len(sending) + Len(queue) <= MaxJobs
    BY <1>1, LenProperties, LanguageServerAssumption DEF TypeOK
  <2> QED BY <1>1, <1>2, <2>1
<1>5. lsp # "down"
  BY <1>1 DEF Phases
<1>6. \/ /\ thread' = [at |-> IF job.kind = "index" THEN "files" ELSE "clean",
                       files |-> FilesOf[job.path], tag |-> {}]
         /\ UNCHANGED expected
      \/ GiveUpOn(FilesOf[job.path]) /\ UNCHANGED thread
  BY DEF Receive
<1>7. ASSUME NEW f \in Files
      PROVE  /\ NoneAsks(Pending, f) <=> ~Covers(job, f) /\ NoneAsks(Pending', f)
             /\ \A k \in {"index", "clean"} : LastAsks(Pending, f, k) =>
                  \/ LastAsks(Pending', f, k)
                  \/ NoneAsks(Pending', f) /\ Covers(job, f) /\ job.kind = k
  BY <1>2, TailAsks
<1>8. ASSUME NEW f
      PROVE  /\ NoneAsks(Pending, f)' = NoneAsks(Pending', f)
             /\ \A k : LastAsks(Pending, f, k)' = LastAsks(Pending', f, k)
             /\ Covers(job, f) <=> f \in ToSet(FilesOf[job.path])
  BY DEF NoneAsks, LastAsks, Covers
<1> HIDE DEF job
<1>9. CASE /\ thread' = [at |-> IF job.kind = "index" THEN "files" ELSE "clean",
                         files |-> FilesOf[job.path], tag |-> {}]
           /\ UNCHANGED expected
  <2>1. /\ thread'.at = IF job.kind = "index" THEN "files" ELSE "clean"
        /\ thread'.files = FilesOf[job.path] /\ thread' \in Thread
    BY <1>3, <1>9 DEF Thread
  <2>2. TypeOK'
    BY <1>1, <1>2, <1>4, <1>9, <2>1 DEF TypeOK, Store!TypeOK
  <2>3. Phases'
    BY <1>1, <1>5, <1>9, <2>1 DEF Phases
  <2>4. ASSUME NEW f \in Files, lsp = "ready" PROVE Tracked(f)'
    <3>1. Tracked(f)
      BY <2>4 DEF IInv
    <3>2. /\ Covers(job, f) /\ job.kind = "index" => IndexedSoon(f)'
          /\ Covers(job, f) /\ job.kind = "clean" => AbsentSoon(f)'
          /\ ~Covers(job, f) /\ IndexedSoon(f) => IndexedSoon(f)'
          /\ ~Covers(job, f) /\ AbsentSoon(f) => AbsentSoon(f)'
      BY <1>1, <1>8, <2>1 DEF IndexedSoon, AbsentSoon, Works, Builds, Cleans
    <3> QED BY <1>7, <1>8, <1>9, <3>1, <3>2 DEF Tracked
  <2> QED BY <1>1, <2>2, <2>3, <2>4 DEF IInv
<1>10. CASE GiveUpOn(FilesOf[job.path]) /\ UNCHANGED thread
  <2>1. TypeOK'
    BY <1>1, <1>2, <1>4, <1>10, GiveUpType DEF TypeOK, Store!TypeOK
  <2>2. Phases'
    BY <1>1, <1>5, <1>10 DEF Phases
  <2>3. ASSUME NEW f \in Files, lsp = "ready" PROVE Tracked(f)'
    <3>1. Tracked(f)
      BY <2>3 DEF IInv
    <3>2. expected'[f] = IF Covers(job, f) THEN "anything" ELSE expected[f]
      BY <1>1, <1>8, <1>10, GiveUpType
    <3>3. IndexedSoon(f)' = IndexedSoon(f) /\ AbsentSoon(f)' = AbsentSoon(f)
      BY <1>1, <1>10 DEF IndexedSoon, AbsentSoon, Works, Builds, Cleans
    <3> QED BY <1>7, <1>8, <3>1, <3>2, <3>3 DEF Tracked
  <2> QED BY <1>1, <2>1, <2>2, <2>3 DEF IInv
<1> QED BY <1>6, <1>9, <1>10 DEF job

(* The loop over files is left: nothing is expected of those that are left. *)
LEMMA EndJobKeeps ==
  ASSUME IInv, thread.at \in {"files", "build"}, EndJob,
         UNCHANGED <<index, content, lsp, sending, queue, flag>>
  PROVE  IInv'
<1>1. /\ thread'.at = "waiting" /\ thread' \in Thread
      /\ expected' \in [Files -> {"anything", "indexed", "absent"}]
      /\ \A f \in Files : expected'[f] = IF f \in ToSet(thread.files) THEN "anything" ELSE expected[f]
  BY AtType, GiveUpType DEF EndJob, IInv
<1>2. TypeOK'
  BY <1>1 DEF IInv, TypeOK, Store!TypeOK
<1>3. Phases'
  <2>1. expected = Nothing => expected' = Nothing
    BY <1>1 DEF Nothing
  <2> QED BY <1>1, <2>1 DEF IInv, Phases
<1>4. ASSUME NEW f \in Files, lsp = "ready" PROVE Tracked(f)'
  <2>1. CASE f \in ToSet(thread.files)
    BY <1>1, <2>1 DEF Tracked
  <2>2. CASE f \notin ToSet(thread.files)
    <3>1. /\ IndexedSoon(f) => IndexedSoon(f)'
          /\ AbsentSoon(f) => AbsentSoon(f)'
          /\ Pending' = Pending
      BY <1>1, <2>2 DEF IndexedSoon, AbsentSoon, Works, Builds, Cleans, Pending
    <3> QED BY <1>1, <1>4, <2>2, <3>1, TrackedFrame
  <2> QED BY <2>1, <2>2
<1> QED BY <1>2, <1>3, <1>4 DEF IInv

(* The first file is known, or is to be built from the content it has.      *)
LEMMA TakeFileKeeps ==
  ASSUME IInv, TakeFile
  PROVE  IInv'
<1>1. UNCHANGED <<index, content, lsp, sending, queue, flag>> /\ thread.at = "files"
      /\ thread \in Thread /\ thread.files \in Seq(Files)
  BY DEF TakeFile, IInv, TypeOK, Thread
<1>2. CASE EndJob
  BY <1>1, <1>2, EndJobKeeps
<1>3. CASE ~EndJob
  <2> DEFINE f == Head(thread.files)
             known == \E e \in index[f] : e.tag = content[f]
  <2>1. /\ thread.files # <<>> /\ UNCHANGED expected
        /\ thread' = IF known THEN [thread EXCEPT !.files = Tail(@)]
                     ELSE [thread EXCEPT !.at = "build", !.tag = {content[f]}]
    BY <1>3 DEF TakeFile
  <2>2. /\ f \in Files /\ Tail(thread.files) \in Seq(Files)
        /\ ToSet(thread.files) = {f} \cup ToSet(Tail(thread.files))
    BY <1>1, <2>1, SetOfTail
  <2>3. content[f] \in Versions
    BY <2>2 DEF IInv, TypeOK
  <2> HIDE DEF f
  <2>4. CASE known
    <3>1. thread' \in Thread /\ thread'.at = "files" /\ thread'.files = Tail(thread.files)
      BY <1>1, <2>1, <2>2, <2>4 DEF Thread
    <3>2. TypeOK' /\ Phases'
      BY <1>1, <2>1, <3>1 DEF IInv, TypeOK, Store!TypeOK, Phases
    <3>3. ASSUME NEW g \in Files, lsp = "ready" PROVE Tracked(g)'
      <4>1. /\ IndexedSoon(g) => IndexedSoon(g)'
            /\ AbsentSoon(g) => AbsentSoon(g)'
            /\ Pending' = Pending
        BY <1>1, <2>2, <2>4, <3>1 DEF IndexedSoon, AbsentSoon, Works, Builds, Cleans, Pending
      <4> QED BY <2>1, <3>3, <4>1, TrackedFrame
    <3> QED BY <1>1, <3>2, <3>3 DEF IInv
  <2>5. CASE ~known
    <3>1. /\ thread' \in Thread /\ thread'.at = "build" /\ thread'.files = thread.files
          /\ thread'.tag = {content[f]}
      BY <1>1, <2>1, <2>3, <2>5 DEF Thread
    <3>2. TypeOK' /\ Phases'
      BY <1>1, <2>1, <3>1 DEF IInv, TypeOK, Store!TypeOK, Phases
    <3>3. ASSUME NEW g \in Files, lsp = "ready" PROVE Tracked(g)'
      <4>1. /\ IndexedSoon(g) => IndexedSoon(g)'
            /\ AbsentSoon(g) => AbsentSoon(g)'
            /\ Pending' = Pending
        BY <1>1, <3>1 DEF IndexedSoon, AbsentSoon, Works, Builds, Cleans, Pending, f
      <4> QED BY <2>1, <3>3, <4>1, TrackedFrame
    <3> QED BY <1>1, <3>2, <3>3 DEF IInv
  <2> QED BY <2>4, <2>5
<1> QED BY <1>2, <1>3

(* The result, or the error, of the content that was read is stored.        *)
LEMMA BuildKeeps ==
  ASSUME IInv, Build
  PROVE  IInv'
<1> DEFINE f == Head(thread.files)
<1>1. /\ UNCHANGED <<content, lsp, sending, queue, flag>> /\ thread.at = "build"
      /\ thread \in Thread /\ thread.files \in Seq(Files) /\ thread.files # <<>>
      /\ index \in [Files -> SUBSET Store!Entry]
  BY DEF Build, IInv, TypeOK, Thread, Phases, Store!TypeOK
<1>2. CASE EndJob /\ UNCHANGED index
  BY <1>1, <1>2, EndJobKeeps
<1>3. CASE ~(EndJob /\ UNCHANGED index)
  <2>1. PICK v \in thread.tag :
          /\ Continue /\ UNCHANGED expected
          /\ Store!StoreResult(f, v) \/ \E m \in Messages : Store!StoreError(f, v, m)
    BY <1>3 DEF Build
  <2>2. /\ f \in Files /\ Tail(thread.files) \in Seq(Files)
        /\ ToSet(thread.files) = {f} \cup ToSet(Tail(thread.files))
        /\ v \in Versions
    BY <1>1, SetOfTail DEF Thread
  <2> HIDE DEF f
  <2>3. PICK entry \in Store!Entry : index' = [index EXCEPT ![f] = {entry}] /\ entry.tag = v
    <3>1. CASE Store!StoreResult(f, v)
      <4>1. [kind |-> "result", tag |-> v] \in Store!Entry
        BY <2>2 DEF Store!Entry
      <4> QED BY <3>1, <4>1 DEF Store!StoreResult
    <3>2. CASE \E m \in Messages : Store!StoreError(f, v, m)
      <4>1. PICK m \in Messages : Store!StoreError(f, v, m)
        BY <3>2
      <4>2. [kind |-> "error", tag |-> v, error |-> m] \in Store!Entry
        BY <2>2 DEF Store!Entry
      <4> QED BY <4>1, <4>2 DEF Store!StoreError
    <3> QED BY <2>1, <3>1, <3>2
  <2>4. thread' \in Thread /\ thread'.at = "files" /\ thread'.files = Tail(thread.files)
    BY <2>1, <2>2 DEF Continue, Thread
  <2>5. index' \in [Files -> SUBSET Store!Entry]
    BY <1>1, <2>3
  <2>6. TypeOK'
    BY <1>1, <2>1, <2>4, <2>5 DEF IInv, TypeOK, Store!TypeOK, Store!Entry
  <2>7. Phases'
    BY <1>1, <2>1, <2>4 DEF IInv, Phases
  <2>8. ASSUME NEW g \in Files, lsp = "ready" PROVE Tracked(g)'
    <3>1. index'[f] = {entry} /\ (g # f => index'[g] = index[g])
      BY <1>1, <2>2, <2>3
    <3>2. IndexedSoon(g) => IndexedSoon(g)'
      <4>1. CASE g = f
        <5>1. IndexedSoon(g) => v = content[f]
          BY <1>1, <2>1, <4>1 DEF IndexedSoon, Builds, f
        <5> QED BY <1>1, <2>3, <2>4, <3>1, <4>1, <5>1 DEF IndexedSoon, Works, Builds, Cleans
      <4>2. CASE g # f
        BY <1>1, <2>2, <2>4, <3>1, <4>2 DEF IndexedSoon, Works, Builds, Cleans
      <4> QED BY <4>1, <4>2
    <3>3. AbsentSoon(g) => AbsentSoon(g)' /\ Pending' = Pending
      BY <1>1, <2>2, <2>4, <3>1 DEF AbsentSoon, Works, Cleans, Pending
    <3>4. Pending' = Pending
      BY <1>1 DEF Pending
    <3> QED BY <2>1, <2>8, <3>2, <3>3, <3>4, TrackedFrame
  <2> QED BY <1>1, <2>6, <2>7, <2>8 DEF IInv
<1> QED BY <1>2, <1>3

LEMMA CleanPathKeeps ==
  ASSUME IInv, CleanPath
  PROVE  IInv'
<1>1. /\ UNCHANGED <<content, lsp, sending, queue, flag>> /\ thread.at = "clean"
      /\ thread'.at = "waiting" /\ thread' \in Thread
      /\ index \in [Files -> SUBSET Store!Entry] /\ TypeOK
  BY AtType DEF CleanPath, IInv, TypeOK, Store!TypeOK
<1>2. CASE Store!Clean(ToSet(thread.files)) /\ UNCHANGED expected
  <2>1. /\ index' \in [Files -> SUBSET Store!Entry]
        /\ \A f \in Files : index'[f] = IF f \in ToSet(thread.files) THEN {} ELSE index[f]
    BY <1>1, <1>2 DEF Store!Clean
  <2>2. TypeOK' /\ Phases'
    BY <1>1, <1>2, <2>1 DEF IInv, TypeOK, Store!TypeOK, Store!Entry, Phases
  <2>3. ASSUME NEW f \in Files, lsp = "ready" PROVE Tracked(f)'
    <3>1. /\ IndexedSoon(f) => IndexedSoon(f)'
          /\ AbsentSoon(f) => AbsentSoon(f)'
          /\ Pending' = Pending
      BY <1>1, <2>1 DEF IndexedSoon, AbsentSoon, Works, Builds, Cleans, Pending
    <3> QED BY <1>2, <2>3, <3>1, TrackedFrame
  <2> QED BY <1>1, <2>2, <2>3 DEF IInv
<1>3. CASE GiveUpOn(thread.files) /\ UNCHANGED index
  <2>1. /\ expected' \in [Files -> {"anything", "indexed", "absent"}]
        /\ \A f \in Files : expected'[f] = IF f \in ToSet(thread.files) THEN "anything" ELSE expected[f]
    BY <1>1, <1>3, GiveUpType
  <2>2. TypeOK'
    BY <1>1, <1>3, <2>1 DEF TypeOK, Store!TypeOK
  <2>3. Phases'
    <3>1. expected = Nothing => expected' = Nothing
      BY <2>1 DEF Nothing
    <3> QED BY <1>1, <3>1 DEF IInv, Phases
  <2>4. ASSUME NEW f \in Files, lsp = "ready" PROVE Tracked(f)'
    <3>1. CASE f \in ToSet(thread.files)
      BY <2>1, <3>1 DEF Tracked
    <3>2. CASE f \notin ToSet(thread.files)
      <4>1. /\ IndexedSoon(f) => IndexedSoon(f)'
            /\ AbsentSoon(f) => AbsentSoon(f)'
            /\ Pending' = Pending
        BY <1>1, <1>3, <3>2 DEF IndexedSoon, AbsentSoon, Works, Builds, Cleans, Pending
      <4> QED BY <2>1, <2>4, <3>2, <4>1, TrackedFrame
    <3> QED BY <3>1, <3>2
  <2> QED BY <1>1, <2>2, <2>3, <2>4 DEF IInv
<1> QED BY <1>2, <1>3 DEF CleanPath

-----------------------------------------------------------------------------
LEMMA NextIInv == IInv /\ [Next]_vars => IInv'
<1> SUFFICES ASSUME IInv, [Next]_vars PROVE IInv'
  OBVIOUS
<1>1. CASE \/ \E s \in FolderLists : Initialize(s)
           \/ \E f \in Files : DidSave(f)
           \/ \E r, s \in FolderLists : DidChangeWorkspaceFolders(r, s)
  BY <1>1, InitializeKeeps, DidSaveKeeps, DidChangeKeeps
<1>2. CASE Send \/ ShutDown \/ RaiseFlag \/ Exit \/ \E f \in Files : Edit(f)
  BY <1>2, SendKeeps, ShutDownKeeps, ExitKeeps, EditKeeps
<1>3. CASE JobThread
  BY <1>3, ReceiveKeeps, TimeoutKeeps, TakeFileKeeps, BuildKeeps, CleanPathKeeps DEF JobThread
<1>4. CASE UNCHANGED vars
  <2>1. TypeOK' /\ Phases'
    BY <1>4 DEF vars, IInv, TypeOK, Store!TypeOK, Phases
  <2>2. ASSUME NEW f \in Files, lsp = "ready" PROVE Tracked(f)'
    <3>1. /\ IndexedSoon(f)' = IndexedSoon(f) /\ AbsentSoon(f)' = AbsentSoon(f)
          /\ Pending' = Pending
      BY <1>4 DEF vars, IndexedSoon, AbsentSoon, Works, Builds, Cleans, Pending
    <3> QED BY <1>4, <2>2, <3>1, TrackedFrame DEF vars
  <2> QED BY <1>4, <2>1, <2>2 DEF vars, IInv
<1> QED BY <1>1, <1>2, <1>3, <1>4 DEF Next

(* What the editor asked for last is pending, under way or done.            *)
THEOREM Inductive == Spec => []IInv
BY InitIInv, NextIInv, PTL DEF Spec

(* When the server is quiet, the index agrees with the notifications:       *)
(* handle_index and handle_clean run in the order of the notifications, and *)
(* what changes meanwhile is not taken for indexed.                         *)
THEOREM QuietMatches == Spec => []QuietIndexMatches
<1>1. IInv => QuietIndexMatches
  <2> SUFFICES ASSUME IInv, Quiet, NEW f \in Files
               PROVE  /\ expected[f] = "indexed" => \E e \in index[f] : e.tag = content[f]
                      /\ expected[f] = "absent" => index[f] = {}
    BY DEF QuietIndexMatches
  <2>1. Tracked(f) /\ thread.at \in {"waiting", "timeout"} /\ queue = <<>> /\ sending = <<>>
    BY DEF Quiet, IInv
  <2>2. Pending = <<>>
    BY <2>1, ConcatEmptySeq, EmptySeq DEF Pending
  <2> QED BY <2>1, <2>2, EmptyAsks DEF Tracked, IndexedSoon, AbsentSoon, Works, Cleans
<1> QED BY <1>1, Inductive, PTL
=============================================================================
