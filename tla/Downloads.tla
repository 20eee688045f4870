------------------------------ MODULE Downloads -----------------------------
(***************************************************************************)
(* Received files from packet to notification: SharePlugin::receivePacket  *)
(* makes a DownloadJob and registers it with the JobManager; the job finds *)
(* a free name, creates the file and copies into it; its end goes to       *)
(* JobInfo::onFinished, SharePlugin::finished and JobsNotificator.         *)
(*                                                                         *)
(* The copying itself is CopyJob.tla.  Here its poll() moves any number of *)
(* bytes at a time, and its ends are what finish() makes of their count.   *)
(* All of it runs in one event loop, where several downloads interleave    *)
(* event by event.                                                         *)
(***************************************************************************)
EXTENDS Integers, FiniteSets

CONSTANTS
  Downloads,   \* identities for the jobs, in the end each used once
  Names,       \* file names a peer announces; no name is a suffixed other
  MaxSuffix,   \* bound: suffixes "name (1)".."name (MaxSuffix)" considered
  MaxBytes     \* bound: bytes of a payload

(* A path is a name and a number: 0 for the name itself, i for "name (i)". *)
Paths == Names \X (0..MaxSuffix)

NoFile == "no file"
UserFile == "user's file"
NoPath == <<>>

(* There are numbers enough for the jobs, and no job is a mark of a file.  *)
ASSUME DownloadsAssumption ==
  /\ IsFiniteSet(Downloads) /\ MaxSuffix \in Nat /\ MaxBytes \in Nat
  /\ Cardinality(Downloads) < MaxSuffix
  /\ Downloads \cap {NoFile, UserFile} = {}

VARIABLES
  plugin,    \* the SharePlugin instance of the device exists
  file,      \* whose bytes each path holds: a download, the user, or nothing
  status,    \* what each job has told of itself, "none" before it is made
  size,      \* the announced payload size, -1 if the packet has none
  moved,     \* bytes written into the job's file
  dest,      \* DownloadJob::m_destination
  state,     \* JobInfo::m_state
  failed,    \* JobInfo::m_errorString is not empty
  target,    \* JobInfo::m_target
  summary,   \* the summary of the job's notification
  received,  \* downloads whose path was emitted with shareReceived
  cancelled  \* downloads that were cancelled (history)

vars == <<plugin, file, status, size, moved, dest, state, failed, target, summary, received, cancelled>>

requestVars == <<plugin, size, target, cancelled>>

Init ==
  /\ plugin = TRUE
  /\ file \in [Paths -> {NoFile, UserFile}]
  /\ \A p \in Paths : file[p] = UserFile => p[2] <= 1
  /\ status = [d \in Downloads |-> "none"]
  /\ size = [d \in Downloads |-> -1]
  /\ moved = [d \in Downloads |-> 0]
  /\ dest = [d \in Downloads |-> NoPath]
  /\ state = [d \in Downloads |-> "none"]
  /\ failed = [d \in Downloads |-> FALSE]
  /\ target = [d \in Downloads |-> NoPath]
  /\ summary = [d \in Downloads |-> "none"]
  /\ received = {} /\ cancelled = {}

Unfinished(d) == status[d] \in {"pending", "running"}

-----------------------------------------------------------------------------
(* What the observers of a job make of its end.                            *)

(* JobInfo::onFinished, with the job's error: 0 none, 1 killed, 2 other.   *)
InfoState(error) == IF error = 1 THEN "canceled" ELSE "finished"

(* JobsNotificator::jobChanged for a job that no longer runs.              *)
Summary(error) ==
  CASE InfoState(error) = "canceled" -> "Download aborted"
    [] InfoState(error) = "finished" /\ error = 0 -> "Download succeeded"
    [] InfoState(error) = "finished" /\ error # 0 -> "Download failed"

(* KJob::finished of the jobs D, each with its error, and the results.     *)
Finished(D, error) ==
  /\ state' = [d \in Downloads |-> IF d \in D THEN InfoState(error) ELSE state[d]]
  /\ failed' = [d \in Downloads |-> IF d \in D THEN error # 0 ELSE failed[d]]
  /\ summary' = [d \in Downloads |-> IF d \in D THEN Summary(error) ELSE summary[d]]

(* KJob::result of job d: SharePlugin::finished.                           *)
Result(d, error) ==
  /\ Finished({d}, error)
  /\ status' = [status EXCEPT ![d] = IF error = 0 THEN "succeeded" ELSE "failed"]
  /\ received' = IF error = 0 THEN received \cup {d} ELSE received

-----------------------------------------------------------------------------

(* JobInfo: what the application keeps of a job.  The target is the one of *)
(* now; doStart may choose another path.                                   *)
getTarget(d, destination) == target' = [target EXCEPT ![d] = destination]

JobInfo(d, destination) ==
  /\ state' = [state EXCEPT ![d] = "running"]
  /\ getTarget(d, destination)

(* JobsNotificator: the notification that the job's changes will change.   *)
addJob(d) == summary' = [summary EXCEPT ![d] = "Downloading ..."]

registerJob(d, destination) == JobInfo(d, destination) /\ addJob(d)

(* (Names with an underscore are faulty variants, the mutants that show    *)
(* that the properties notice: each stands before what it is a fault of.)  *)

(* Fault: the file name alone is taken for the path.                       *)
ReceivePacket_BareName(d, n, s) ==
  /\ plugin /\ status[d] = "none"
  /\ status' = [status EXCEPT ![d] = "pending"]
  /\ size' = [size EXCEPT ![d] = s]
  /\ dest' = [dest EXCEPT ![d] = n]
  /\ registerJob(d, n)
  /\ UNCHANGED <<plugin, file, moved, failed, received, cancelled>>

(* receivePacket with a payload, of which n gives the name and s the size. *)
ReceivePacket(d, n, s) ==
  /\ plugin /\ status[d] = "none"
  /\ status' = [status EXCEPT ![d] = "pending"]
  /\ size' = [size EXCEPT ![d] = s]
  /\ dest' = [dest EXCEPT ![d] = <<n, 0>>]
  /\ registerJob(d, <<n, 0>>)
  /\ UNCHANGED <<plugin, file, moved, failed, received, cancelled>>

(* Faults: no look at what exists; a look at the plain name only.          *)
nonexistingFile_Unchecked(p) == p

nonexistingFile_OneSuffix(p) == IF file[p] = NoFile THEN p ELSE <<p[1], 1>>

(* nonexistingFile: the path itself, or the first free numbered one.       *)
nonexistingFile(p) ==
  LET free == {i \in 0..MaxSuffix : file[<<p[1], i>>] = NoFile}
  IN <<p[1], CHOOSE i \in free : \A j \in free : i <= j>>

(* DownloadJob::doStart when the folder cannot be made.                    *)
DoStartNoFolder(d) ==
  /\ status[d] = "pending"
  /\ Result(d, 2)
  /\ UNCHANGED <<requestVars, file, moved, dest>>

(* DownloadJob::doStart when the file cannot be opened.                    *)
DoStartNoFile(d) ==
  /\ status[d] = "pending"
  /\ dest' = [dest EXCEPT ![d] = nonexistingFile(dest[d])]
  /\ Result(d, 2)
  /\ UNCHANGED <<requestVars, file, moved>>

(* The ends of a copy that has written m bytes: the end of the stream is   *)
(* one without error only if no other number was announced; a read or      *)
(* write error, or bytes left in the buffer, may end it at any number.     *)
Ends(d, m) == (size[d] \in {-1, m} /\ Result(d, 0)) \/ Result(d, 2)

(* DownloadJob::doStart: the file is created at a free path, and           *)
(* CopyJob::doStart copies what there is, which may be everything, or      *)
(* fails.                                                                  *)
DoStart(d, m) ==
  LET p == nonexistingFile(dest[d]) IN
  /\ status[d] = "pending"
  /\ dest' = [dest EXCEPT ![d] = p]
  /\ file' = [file EXCEPT ![p] = d]
  /\ moved' = [moved EXCEPT ![d] = m]
  /\ \/ /\ status' = [status EXCEPT ![d] = "running"]
        /\ UNCHANGED <<state, failed, summary, received, cancelled>>
     \/ Ends(d, m)
  /\ UNCHANGED requestVars

(* CopyJob::poll, by the signals of the devices or by itself: it brings    *)
(* the written bytes to m, and may end the copy.                           *)
Copy(d, m) ==
  /\ status[d] = "running" /\ m >= moved[d]
  /\ moved' = [moved EXCEPT ![d] = m]
  /\ \/ /\ m > moved[d]
        /\ UNCHANGED <<status, state, failed, summary, received, cancelled>>
     \/ Ends(d, m)
  /\ UNCHANGED <<requestVars, file, dest>>

(* poll() had failed and was queued once more, or is called by its source: *)
(* until the deferred delete a failed job goes on writing its file.        *)
CopyAfterFailure(d, m) ==
  /\ status[d] = "failed" /\ file[dest[d]] = d /\ m > moved[d]
  /\ moved' = [moved EXCEPT ![d] = m]
  /\ UNCHANGED <<requestVars, file, status, dest, state, failed, summary, received>>

(* JobInfo::cancel of a running download.  CopyJob::doKill closes the      *)
(* devices, whereby the job finishes as if its source had ended, perhaps   *)
(* with a last poll; then DownloadJob::doKill removes the file.  (No page  *)
(* of the application calls cancel(), and of a pending download, which has *)
(* no destination device yet, or of a deleted one it must not be called.)  *)
Cancel(d, m) ==
  /\ status[d] = "running" /\ m >= moved[d]
  /\ moved' = [moved EXCEPT ![d] = m]
  /\ Ends(d, m)
  /\ file' = [file EXCEPT ![dest[d]] = NoFile]
  /\ cancelled' = cancelled \cup {d}
  /\ UNCHANGED <<plugin, size, target, dest>>

(* Fault: the jobs are deleted and nobody is told.                         *)
PluginDeleted_Silent ==
  /\ plugin
  /\ plugin' = FALSE
  /\ status' = [d \in Downloads |-> IF Unfinished(d) THEN "abandoned" ELSE status[d]]
  /\ UNCHANGED <<file, size, moved, dest, state, failed, target, summary, received, cancelled>>

(* The device goes: its plugins are deleted, and with the SharePlugin its  *)
(* jobs.  An unfinished job emits finished() from ~KJob, with no error and *)
(* without result().                                                       *)
PluginDeleted ==
  LET D == {d \in Downloads : Unfinished(d)} IN
  /\ plugin
  /\ plugin' = FALSE
  /\ Finished(D, 0)
  /\ status' = [d \in Downloads |-> IF d \in D THEN "abandoned" ELSE status[d]]
  /\ UNCHANGED <<file, size, moved, dest, target, received, cancelled>>

(* The device comes back and its plugins are loaded again.                 *)
PluginLoaded ==
  /\ ~plugin
  /\ plugin' = TRUE
  /\ UNCHANGED <<file, status, size, moved, dest, state, failed, target, summary, received, cancelled>>

Next ==
  \/ \E d \in Downloads :
       \/ \E n \in Names, s \in -1..MaxBytes : ReceivePacket(d, n, s)
       \/ DoStartNoFolder(d) \/ DoStartNoFile(d)
       \/ \E m \in 0..MaxBytes :
            DoStart(d, m) \/ Copy(d, m) \/ CopyAfterFailure(d, m) \/ Cancel(d, m)
  \/ PluginDeleted \/ PluginLoaded

Spec == Init /\ [][Next]_vars

-----------------------------------------------------------------------------

TypeOK ==
  /\ plugin \in BOOLEAN
  /\ file \in [Paths -> {NoFile, UserFile} \cup Downloads]
  /\ status \in [Downloads -> {"none", "pending", "running", "succeeded", "failed", "abandoned"}]
  /\ size \in [Downloads -> -1..MaxBytes]
  /\ moved \in [Downloads -> 0..MaxBytes]
  /\ dest \in [Downloads -> Paths \cup {NoPath}]
  /\ state \in [Downloads -> {"none", "running", "finished", "canceled"}]
  /\ failed \in [Downloads -> BOOLEAN]
  /\ target \in [Downloads -> Paths \cup {NoPath}]
  /\ received \in SUBSET Downloads /\ cancelled \in SUBSET Downloads
  /\ summary \in [Downloads -> {"none", "Downloading ...", "Download aborted",
                                "Download succeeded", "Download failed"}]

(* A file is never overwritten, nor removed but by the cancellation of the *)
(* download that made it: not the user's, and not that of another download *)
(* of the same name, even if both look for a free name at once.            *)
FilesKept ==
  [][\A p \in Paths :
       file[p] # NoFile /\ file'[p] # file[p]
         => file'[p] = NoFile /\ file[p] \in cancelled' \ cancelled]_vars

(* A path announced with shareReceived holds that download, whole if its   *)
(* size was announced, and stays so: no later download of the same name    *)
(* takes it.  (A cancelled download of unknown size is announced and gone.)*)
ReceivedFilesStay ==
  \A d \in received :
    /\ size[d] >= 0 => moved[d] = size[d]
    /\ d \notin cancelled => file[dest[d]] = d

(* A notification that says a download succeeded is about one that was     *)
(* received, or that was abandoned with its plugin: then it is wrong.      *)
(* Once the job is over the notification says so: no progress stays behind *)
(* for a job nobody runs any more.                                         *)
NotesAreTrue ==
  \A d \in Downloads :
    /\ summary[d] = "Download succeeded" => d \in received \/ status[d] = "abandoned"
    /\ summary[d] = "Downloading ..." <=> Unfinished(d)

=============================================================================
