--------------------------- MODULE LanguageServer ---------------------------
(***************************************************************************)
(* The job queue of the language server (Backend).                         *)
(*                                                                         *)
(* Notifications of the editor become jobs on a channel; one thread runs   *)
(* them against the index, file by file, until the server is shut down.    *)
(* Handlers that schedule jobs hold the mutex of Backend::jobs, so their    *)
(* sends do not mix; the thread does not take the mutex and works between  *)
(* any two of them.  The files change at any time, the process may end at  *)
(* any time, and what it has stored is there for the next one.             *)
(*                                                                         *)
(* The index is FileIndex: module Indexing shows what a job's transactions *)
(* amount to.  tower_lsp is external: it hands a request or notification   *)
(* over only between initialize and shutdown.                              *)
(***************************************************************************)
EXTENDS Naturals, Sequences, SequencesExt

CONSTANTS
  Files, Versions, Messages, Scopes,  \* as in FileIndex; files of supported languages
  Broken,    \* contents for which building the stack graph fails
  Folders,   \* workspace folders; they may be nested
  FilesOf,   \* folder or file -> its files, in the order they are walked
  Timers,    \* whether a maximum time per folder or per file is configured
  MaxJobs    \* bound: jobs that wait or are about to be sent

ASSUME LanguageServerAssumption ==
  /\ Broken \subseteq Versions
  /\ FilesOf \in [Folders \cup Files -> Seq(Files)]
  /\ \A f \in Files : FilesOf[f] = <<f>>
  /\ {ToSet(FilesOf[p]) : p \in Folders \cup Files} \subseteq Scopes
  /\ Messages # {}
  /\ Timers \in BOOLEAN
  /\ MaxJobs \in Nat

VARIABLES
  index,      \* file -> what is stored of it
  content,    \* file -> its content on disk
  lsp,        \* "down", "ready" or "shutting down"
  sending,    \* jobs that the handler holding the mutex has still to send
  queue,      \* the channel
  flag,       \* the flag that shutdown raises
  thread,     \* the job thread: where it is, files left, tag of the current one
  expected    \* history: what the editor's notifications ask of each file

vars == <<index, content, lsp, sending, queue, flag, thread, expected>>

Store == INSTANCE FileIndex

-----------------------------------------------------------------------------
Job == [kind : {"index", "clean"}, path : Folders \cup Files]

Index(p) == [kind |-> "index", path |-> p]
Clean(p) == [kind |-> "clean", path |-> p]

(* "timeout": recv_timeout has returned without a job. *)
Thread ==
  [at    : {"none", "waiting", "timeout", "files", "build", "clean", "stopped"},
   files : Seq(Files),
   tag   : SUBSET Versions]

At(l) == [at |-> l, files |-> <<>>, tag |-> {}]


TypeOK ==
  /\ Store!TypeOK
  /\ content \in [Files -> Versions]
  /\ lsp \in {"down", "ready", "shutting down"}
  /\ sending \in Seq(Job)
  /\ queue \in Seq(Job)
  /\ Len(sending) + Len(queue) <= MaxJobs
  /\ flag \in BOOLEAN
  /\ thread \in Thread
  /\ expected \in [Files -> {"anything", "indexed", "absent"}]

Nothing == [f \in Files |-> "anything"]

Init ==
  /\ Store!Init
  /\ content \in [Files -> Versions]
  /\ lsp = "down"
  /\ sending = <<>>
  /\ queue = <<>>
  /\ flag = FALSE
  /\ thread = At("none")
  /\ expected = Nothing

(* What the paths ask of their files. *)
Expect(paths, what, e) ==
  [f \in Files |-> IF \E p \in paths : f \in ToSet(FilesOf[p]) THEN what ELSE e[f]]

(* Files for which a job has failed. *)
GiveUpOn(files) ==
  expected' = [f \in Files |-> IF f \in ToSet(files) THEN "anything" ELSE expected[f]]

-----------------------------------------------------------------------------
(* Handlers. *)

(* The mutex of Backend::jobs is free, and the jobs to send are bounded. *)
Schedule(jobs) ==
  /\ sending = <<>>
  /\ Len(queue) + Len(jobs) <= MaxJobs
  /\ sending' = jobs

(* initialize: the thread is started, then the folders are scheduled. *)
Initialize(folders) ==
  /\ lsp = "down"
  /\ Schedule([i \in DOMAIN folders |-> Index(folders[i])])
  /\ lsp' = "ready"
  /\ thread' = At("waiting")
  /\ expected' = Expect(ToSet(folders), "indexed", expected)
  /\ UNCHANGED <<index, content, queue, flag>>

DidSave(f) ==
  /\ lsp = "ready"
  /\ Schedule(<<Index(f)>>)
  /\ expected' = Expect({f}, "indexed", expected)
  /\ UNCHANGED <<index, content, lsp, queue, flag, thread>>

(* Mutated: what is added is scheduled first. *)
DidChangeAddedFirst(removed, added) ==
  /\ lsp = "ready"
  /\ Schedule([i \in DOMAIN added |-> Index(added[i])]
              \o [i \in DOMAIN removed |-> Clean(removed[i])])
  /\ expected' = Expect(ToSet(added), "indexed", Expect(ToSet(removed), "absent", expected))
  /\ UNCHANGED <<index, content, lsp, queue, flag, thread>>

DidChangeWorkspaceFolders(removed, added) ==
  /\ lsp = "ready"
  /\ Schedule([i \in DOMAIN removed |-> Clean(removed[i])]
              \o [i \in DOMAIN added |-> Index(added[i])])
  /\ expected' = Expect(ToSet(added), "indexed", Expect(ToSet(removed), "absent", expected))
  /\ UNCHANGED <<index, content, lsp, queue, flag, thread>>

(* Mutated: what has been sent is sent again. *)
SendAgain ==
  /\ sending # <<>>
  /\ queue' = Append(queue, Head(sending))
  /\ UNCHANGED <<index, content, lsp, sending, flag, thread, expected>>

(* Sending fails when the thread, which owns the receiver, has ended. *)
Send ==
  /\ sending # <<>>
  /\ sending' = Tail(sending)
  /\ IF thread.at = "stopped"
     THEN GiveUpOn(FilesOf[Head(sending).path]) /\ UNCHANGED queue
     ELSE queue' = Append(queue, Head(sending)) /\ UNCHANGED expected
  /\ UNCHANGED <<index, content, lsp, flag, thread>>

(* shutdown arrives; nothing after it is handled. *)
ShutDown ==
  /\ lsp = "ready"
  /\ lsp' = "shutting down"
  /\ UNCHANGED <<index, content, sending, queue, flag, thread, expected>>

(* shutdown has got the mutex. *)
RaiseFlag ==
  /\ lsp = "shutting down"
  /\ sending = <<>>
  /\ ~flag
  /\ flag' = TRUE
  /\ UNCHANGED <<index, content, lsp, sending, queue, thread, expected>>

-----------------------------------------------------------------------------
(* The job thread. *)

(* recv_timeout returns a job; nothing is done if the database does not open. *)
Receive ==
  /\ thread.at = "waiting"
  /\ queue # <<>>
  /\ queue' = Tail(queue)
  /\ LET job == Head(queue)
     IN  \/ /\ thread' = [at    |-> IF job.kind = "index" THEN "files" ELSE "clean",
                          files |-> FilesOf[job.path], tag |-> {}]
            /\ UNCHANGED expected
         \/ GiveUpOn(FilesOf[job.path]) /\ UNCHANGED thread
  /\ UNCHANGED <<index, content, lsp, sending, flag>>

(* Mutated: the thread waits without a timeout. *)
TimeoutNever == FALSE /\ UNCHANGED vars

Timeout ==
  /\ thread.at = "waiting"
  /\ queue = <<>>
  /\ thread' = At("timeout")
  /\ UNCHANGED <<index, content, lsp, sending, queue, flag, expected>>

(* A job that is sent after the timeout is not looked at. *)
CheckFlag ==
  /\ thread.at = "timeout"
  /\ thread' = At(IF flag THEN "stopped" ELSE "waiting")
  /\ UNCHANGED <<index, content, lsp, sending, queue, flag, expected>>

(* The loop of index_all is left, with or without an error. *)
EndJob == thread' = At("waiting") /\ GiveUpOn(thread.files)

Cancelled == flag \/ Timers

(* The head of the loop, up to the question whether the content is known. *)
TakeFile ==
  /\ thread.at = "files"
  /\ \/ thread.files = <<>> /\ EndJob
     \/ thread.files # <<>> /\ Cancelled /\ EndJob
     \/ thread.files # <<>> /\ ~flag /\ EndJob   \* the file is not readable
     \/ /\ thread.files # <<>>
        /\ ~flag
        /\ LET f == Head(thread.files)
           IN  thread' = IF \E e \in index[f] : e.tag = content[f]
                         THEN [thread EXCEPT !.files = Tail(@)]
                         ELSE [thread EXCEPT !.at = "build", !.tag = {content[f]}]
        /\ UNCHANGED expected
  /\ UNCHANGED <<index, content, lsp, sending, queue, flag>>

Continue == thread' = [at |-> "files", files |-> Tail(thread.files), tag |-> {}]

(* The graph and the paths have been computed, or not, and are stored. *)
Build ==
  /\ thread.at = "build"
  /\ LET f == Head(thread.files)
     IN  \E v \in thread.tag :
           \/ /\ v \notin Broken
              /\ Store!StoreResult(f, v)
              /\ Continue
              /\ UNCHANGED expected
           \/ /\ v \in Broken \/ Cancelled
              /\ \E m \in Messages : Store!StoreError(f, v, m)
              /\ Continue
              /\ UNCHANGED expected
           \/ /\ v \in Broken \/ Cancelled
              /\ index[f] # {}       \* the error is refused
              /\ EndJob
              /\ UNCHANGED index
           \/ EndJob /\ UNCHANGED index   \* the database is busy, or fails
  /\ UNCHANGED <<content, lsp, sending, queue, flag>>

CleanPath ==
  /\ thread.at = "clean"
  /\ thread' = At("waiting")
  /\ \/ Store!Clean(ToSet(thread.files)) /\ UNCHANGED expected
     \/ GiveUpOn(thread.files) /\ UNCHANGED index
  /\ UNCHANGED <<content, lsp, sending, queue, flag>>

-----------------------------------------------------------------------------
(* The environment. *)

(* A file is written, or replaced behind the editor's back. *)
Edit(f) ==
  /\ \E v \in Versions \ {content[f]} : content' = [content EXCEPT ![f] = v]
  /\ GiveUpOn(<<f>>)
  /\ UNCHANGED <<index, lsp, sending, queue, flag, thread>>

(* The process ends, in order or not. *)
Exit ==
  /\ lsp # "down"
  /\ lsp' = "down"
  /\ sending' = <<>>
  /\ queue' = <<>>
  /\ flag' = FALSE
  /\ thread' = At("none")
  /\ expected' = Nothing
  /\ UNCHANGED <<index, content>>

-----------------------------------------------------------------------------
JobThread == Receive \/ Timeout \/ CheckFlag \/ TakeFile \/ Build \/ CleanPath

FolderLists == {<<>>} \cup {<<p>> : p \in Folders}

Next ==
  \/ \E s \in FolderLists : Initialize(s)
  \/ \E f \in Files : DidSave(f)
  \/ \E r, s \in FolderLists : r \o s # <<>> /\ DidChangeWorkspaceFolders(r, s)
  \/ Send \/ ShutDown \/ RaiseFlag
  \/ JobThread
  \/ \E f \in Files : Edit(f)
  \/ Exit

(* The thread runs, and so does a handler until it returns. *)
Spec == Init /\ [][Next]_vars /\ WF_vars(JobThread) /\ WF_vars(Send \/ RaiseFlag)

-----------------------------------------------------------------------------
(* Properties. *)

Quiet ==
  /\ lsp = "ready"
  /\ sending = <<>>
  /\ queue = <<>>
  /\ thread.at \in {"waiting", "timeout"}

(* When all jobs are done, the index agrees with what the editor's          *)
(* notifications ask for, the last one about a file counting: files of      *)
(* added folders and saved files are there with the content they have now,  *)
(* files of removed folders are gone.  This is across file changes while    *)
(* jobs wait or run, overlapping folders, removals and additions in one     *)
(* event, and whatever earlier processes left behind; files for which a job *)
(* failed, or that changed without being saved, are left out.               *)
QuietIndexMatches ==
  Quiet => \A f \in Files :
    /\ expected[f] = "indexed" => \E e \in index[f] : e.tag = content[f]
    /\ expected[f] = "absent" => index[f] = {}

(* After shutdown the job thread ends, whatever is queued or running. *)
ThreadStops == flag ~> thread.at \in {"stopped", "none"}

-----------------------------------------------------------------------------
(* The inductive invariant behind QuietIndexMatches.                        *)

Covers(job, f) == f \in ToSet(FilesOf[job.path])

(* No job of a sequence is about f; or the last one that is has this kind.  *)
NoneAsks(jobs, f) == \A i \in DOMAIN jobs : ~Covers(jobs[i], f)
LastAsks(jobs, f, kind) ==
  \E i \in DOMAIN jobs :
    /\ Covers(jobs[i], f) /\ jobs[i].kind = kind
    /\ \A j \in DOMAIN jobs : j > i => ~Covers(jobs[j], f)

Pending == queue \o sending

Works(f) == thread.at \in {"files", "build"} /\ f \in ToSet(thread.files)
Builds(f) == thread.at = "build" /\ f = Head(thread.files)
Cleans(f) == thread.at = "clean" /\ f \in ToSet(thread.files)

(* The index agrees, or will when the current job is done. *)
IndexedSoon(f) ==
  /\ Builds(f) => thread.tag = {content[f]}
  /\ ~Cleans(f)
  /\ Works(f) \/ \E e \in index[f] : e.tag = content[f]
AbsentSoon(f) == ~Works(f) /\ (Cleans(f) \/ index[f] = {})

(* What is expected of a file is what the last job that is pending asks, or *)
(* if there is none, what the current job leaves.                           *)
Tracked(f) ==
  /\ expected[f] = "indexed" =>
       LastAsks(Pending, f, "index") \/ (NoneAsks(Pending, f) /\ IndexedSoon(f))
  /\ expected[f] = "absent" =>
       LastAsks(Pending, f, "clean") \/ (NoneAsks(Pending, f) /\ AbsentSoon(f))

(* What goes with where the server, its thread and the flag are.            *)
Phases ==
  /\ lsp = "down" => expected = Nothing /\ sending = <<>> /\ queue = <<>>
  /\ flag => lsp = "shutting down"
  /\ thread.at = "stopped" => flag
  /\ thread.at = "build" => thread.files # <<>>

IInv ==
  /\ TypeOK
  /\ Phases
  /\ lsp = "ready" => \A f \in Files : Tracked(f)
=============================================================================
