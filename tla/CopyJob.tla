------------------------------- MODULE CopyJob ------------------------------
(***************************************************************************)
(* One SailfishConnect::CopyJob (pluginscommon/copyjob.cpp): a KJob that   *)
(* pumps bytes from a source device through a fixed buffer into a          *)
(* destination device, driven only by the events of one Qt event loop.     *)
(*                                                                         *)
(* Everything runs in one thread: an action is one event the loop          *)
(* dispatches, with all the slots that run synchronously inside it.        *)
(* Bytes are counted; the counts are in units in which the buffer holds    *)
(* BufCap (512 KiB in the code) and the write-ahead limit is HighWater     *)
(* (2 MiB).                                                                *)
(*                                                                         *)
(* Left out: progress reporting (setProcessedAmount, setTotalAmount) and   *)
(* error texts.  With them goes the only other effect of m_timer when the  *)
(* destination is a file, so the timer itself is not a variable: it runs   *)
(* while the job is started, and poll() ignores it once m_finished is set. *)
(***************************************************************************)
EXTENDS Integers

CONSTANTS
  SourceKinds,   \* subset of {"file", "socket", "reply"}
  DestKinds,     \* subset of {"file", "ssl"}
  MaxBytes,      \* bound: bytes a source carries
  BufCap,        \* m_buffer.size()
  HighWater,     \* the limit on bytesToWrite() above which nothing is read
  MaxPosted,     \* bound: posted poll events a timer tick may find
  EofReads       \* what read() returns on an ended, drained stream

ASSUME SourceKindsAssumption == SourceKinds \subseteq {"file", "socket", "reply"}
ASSUME DestKindsAssumption == DestKinds \subseteq {"file", "ssl"}
ASSUME BoundsAssumption ==
  /\ MaxBytes \in Nat /\ MaxPosted \in Nat
  /\ BufCap \in Nat \ {0} /\ HighWater \in Nat \ {0}
ASSUME EofReadsAssumption == EofReads \subseteq {-1, 0} /\ EofReads # {}

VARIABLES
  source,          \* the kind of the source device, fixed
  destination,     \* the kind of the destination device, fixed
  content,         \* the bytes the source's other end has, fixed
  m_size, m_started, m_sourceEof, m_finished, m_bufferSize, m_writtenBytes,
  isFinished,      \* KJob: a result or a quiet end has been emitted
  error,           \* KJob::error(): 0, KilledJobError 1, or 2
  reported,        \* error() when KJob::finished was emitted, -1 before
  reporter,        \* what emitted it
  alive,           \* the C++ object exists
  startPosted,     \* a doStart call is in the event queue
  polls,           \* queued poll calls ahead of the deferred delete
  arrived,         \* bytes the source device has received
  avail,           \* of them, those not read yet: bytesAvailable()
  srcOpen, srcEnded,
  dst,             \* "open", "closing" (disconnectFromHost called), "closed"
  btw              \* bytes an ssl destination still has to send

deviceVars == <<source, destination, content>>
jobVars    == <<m_size, m_started, m_sourceEof, m_finished, m_bufferSize, m_writtenBytes>>
kjobVars   == <<isFinished, error, reported, reporter>>
loopVars   == <<alive, startPosted, polls>>
srcVars    == <<arrived, avail, srcOpen, srcEnded>>
dstVars    == <<dst, btw>>
vars == <<deviceVars, jobVars, kjobVars, loopVars, srcVars, dstVars>>

LeastOf(a, b) == IF a <= b THEN a ELSE b

sourceIsSequential == source # "file"
m_sslSocket == destination = "ssl"

(* KJob errors: none, KJob::KilledJobError, and the 2 every failure sets.  *)
NoError == 0
KilledJobError == 1
Failure == 2

(* bytesToWrite(), when b bytes have been queued and not sent.             *)
bytesToWrite(b) == IF m_sslSocket /\ dst # "closed" THEN b ELSE 0

(* deleteLater() was called when isFinished was set; the event is handled  *)
(* behind the calls posted before it.                                      *)
deletePosted == isFinished

Init ==
  /\ source \in SourceKinds
  /\ destination \in DestKinds
  /\ content \in 0..MaxBytes
  /\ m_size \in -1..MaxBytes
  /\ m_started = FALSE /\ m_sourceEof = FALSE /\ m_finished = FALSE
  /\ m_bufferSize = 0 /\ m_writtenBytes = 0
  /\ isFinished = FALSE /\ error = NoError /\ reported = -1 /\ reporter = "nobody"
  /\ alive = TRUE /\ startPosted = FALSE /\ polls = 0
  /\ arrived = IF source = "file" THEN content ELSE 0
  /\ avail = arrived
  /\ srcOpen \in BOOLEAN /\ srcEnded = FALSE
  /\ dst \in {"open", "closed"} /\ btw = 0

-----------------------------------------------------------------------------
(* The pieces the handlers are made of.                                    *)

(* (Names with an underscore are faulty variants, the mutants that show    *)
(* that the properties notice: each stands before what it is a fault of.)  *)

(* Fault: every end is announced, not only the first.                      *)
End_EachAnnounced(e, who) ==
  /\ error' = e /\ isFinished' = TRUE /\ reported' = e /\ reporter' = who

(* KJob::emitResult and, from kill() and ~KJob, the other ends: only the   *)
(* first one is announced.  setError(e) comes before it.                   *)
End(e, who) ==
  /\ error' = e
  /\ IF isFinished
     THEN UNCHANGED <<isFinished, reported, reporter>>
     ELSE isFinished' = TRUE /\ reported' = e /\ reporter' = who

(* What m_source->read into the free part of the buffer may return, with   *)
(* have bytes readable and out bytes unsent.  (As in what follows, flags   *)
(* the calling slot sets before it polls are read primed.)                 *)
ReadResults(have, out) ==
  IF ~(m_bufferSize < BufCap /\ bytesToWrite(out) < HighWater) THEN {0}
  ELSE IF ~srcOpen THEN {-1}
  ELSE IF have > 0 THEN {LeastOf(have, BufCap - m_bufferSize)}
                        \cup (IF sourceIsSequential THEN {} ELSE {-1})
  ELSE IF srcEnded' THEN EofReads
  ELSE {0}

(* What m_destination->write of n buffered bytes may return: a file takes  *)
(* some of them or fails, a socket queues them all.                        *)
WriteResults(n) ==
  IF n = 0 THEN {0}
  ELSE IF dst = "closed" THEN {-1}
  ELSE IF m_sslSocket THEN {n}
  ELSE 1..n \cup {-1}

(* r of have readable bytes into the buffer, w bytes out of it.            *)
Pump(r, w, have, out) ==
  /\ avail' = have - r
  /\ m_bufferSize' = m_bufferSize + r - w
  /\ m_writtenBytes' = m_writtenBytes + w
  /\ btw' = IF m_sslSocket THEN out + w ELSE out

(* Fault: the counts are not compared at the end.                          *)
Finish_Trusting(e, who) ==
  /\ m_finished' = TRUE /\ End(e, who)
  /\ srcOpen' = FALSE /\ dst' = "closed"

(* finish(), with the counters primed and e set so far: it settles the     *)
(* error, emits the result and closes both devices.                        *)
Finish(e, who) ==
  /\ m_finished' = TRUE
  /\ End(IF m_bufferSize' # 0 \/ (m_size' >= 0 /\ m_writtenBytes' # m_size')
         THEN Failure ELSE e, who)
  /\ srcOpen' = FALSE
  /\ dst' = "closed"

(* The test for the end at the bottom of poll().                           *)
AtEof ==
  /\ avail' = 0 /\ m_bufferSize' = 0 /\ bytesToWrite(btw') = 0
  /\ m_sourceEof' \/ m_size' = m_writtenBytes'

(* poll() gives up.  m_finished stays unset and the devices stay open.     *)
PollFails(queued) ==
  /\ polls' = queued
  /\ End(Failure, "job")
  /\ UNCHANGED <<m_finished, srcOpen, dst>>

(* Fault: only a poll that leaves an empty buffer posts another.           *)
PostPoll_WhenEmpty(queued) ==
  polls' = IF avail' > 0 /\ m_bufferSize' = 0 /\ ~deletePosted
           THEN queued + 1 ELSE queued

(* poll() has moved bytes: it posts itself if it could move more (behind   *)
(* the deferred delete a post is lost, and not counted) ...                *)
PostPoll(queued) ==
  polls' = IF /\ avail' > 0 /\ m_bufferSize' # BufCap
              /\ bytesToWrite(btw') < HighWater
              /\ ~deletePosted
           THEN queued + 1 ELSE queued

(* Fault: an ssl destination is not disconnected at the end.               *)
EndCopy_NoDisconnect ==
  \/ (AtEof => m_sslSocket) /\ UNCHANGED <<m_finished, kjobVars, srcOpen, dst>>
  \/ AtEof /\ ~m_sslSocket /\ Finish(error, "job")

(* ... and ends the copy if it is complete.                                *)
EndCopy ==
  \/ ~AtEof /\ UNCHANGED <<m_finished, kjobVars, srcOpen, dst>>
  \/ /\ AtEof /\ m_sslSocket
     /\ dst' = IF dst = "open" THEN "closing" ELSE dst
     /\ UNCHANGED <<m_finished, kjobVars, srcOpen>>
  \/ AtEof /\ ~m_sslSocket /\ Finish(error, "job")

(* poll(), when queued polls, have readable and out unsent bytes are left  *)
(* by its caller.                                                          *)
Poll(queued, have, out) ==
  \/ /\ m_finished
     /\ polls' = queued /\ avail' = have /\ btw' = out
     /\ UNCHANGED <<m_finished, m_bufferSize, m_writtenBytes, kjobVars,
                    srcOpen, dst>>
  \/ /\ ~m_finished
     /\ -1 \in ReadResults(have, out)
     /\ Pump(0, 0, have, out) /\ PollFails(queued)
  \/ /\ ~m_finished
     /\ \E r \in ReadResults(have, out) \ {-1} :
          \/ /\ -1 \in WriteResults(m_bufferSize + r)
             /\ Pump(r, 0, have, out) /\ PollFails(queued)
          \/ \E w \in WriteResults(m_bufferSize + r) \ {-1} :
               Pump(r, w, have, out) /\ PostPoll(queued) /\ EndCopy

-----------------------------------------------------------------------------
(* The events.                                                             *)

(* start(): the owner queues doStart.                                      *)
Start ==
  /\ alive /\ ~startPosted /\ ~m_started /\ ~isFinished
  /\ startPosted' = TRUE
  /\ UNCHANGED <<deviceVars, jobVars, kjobVars, alive, polls, srcVars, dstVars>>

(* doStart() when a device is not ready: the job fails at once.            *)
DoStartRefused ==
  /\ alive /\ startPosted
  /\ ~srcOpen \/ dst = "closed"
  /\ startPosted' = FALSE
  /\ End(Failure, "job")
  /\ UNCHANGED <<deviceVars, jobVars, alive, polls, srcVars, dstVars>>

(* doStart(): settle the size, connect the devices' signals and poll.      *)
DoStart ==
  /\ alive /\ startPosted
  /\ srcOpen /\ dst # "closed"
  /\ startPosted' = FALSE
  /\ m_started' = TRUE
  /\ m_sourceEof' = ~sourceIsSequential
  /\ m_size' = IF m_size = -1 /\ ~sourceIsSequential THEN content ELSE m_size
  /\ UNCHANGED <<deviceVars, alive, arrived, srcEnded>>
  /\ Poll(polls, avail, btw)

(* A poll that an earlier poll posted.                                     *)
QueuedPoll ==
  /\ alive /\ ~startPosted /\ polls > 0
  /\ UNCHANGED <<deviceVars, m_size, m_started, m_sourceEof, alive, startPosted,
                 arrived, srcEnded>>
  /\ Poll(polls - 1, avail, btw)

(* n bytes reach a sequential source.  Of a started job readyRead then     *)
(* calls poll(), unless the source is a QNetworkReply.                     *)
ReadyRead(n) ==
  /\ alive /\ sourceIsSequential /\ srcOpen /\ ~srcEnded
  /\ arrived + n <= content
  /\ arrived' = arrived + n
  /\ UNCHANGED <<deviceVars, m_size, m_started, m_sourceEof, alive, startPosted,
                 srcEnded>>
  /\ IF m_started /\ source # "reply"
     THEN Poll(polls, avail + n, btw)
     ELSE /\ avail' = avail + n
          /\ UNCHANGED <<m_finished, m_bufferSize, m_writtenBytes, kjobVars,
                         polls, srcOpen, dstVars>>

(* The other end closes the stream, after all of its bytes or before.  Of  *)
(* a started job readChannelFinished then calls pollAtSourceClose().      *)
ReadChannelFinished ==
  /\ alive /\ sourceIsSequential /\ srcOpen /\ ~srcEnded
  /\ srcEnded' = TRUE
  /\ m_sourceEof' = (m_sourceEof \/ (m_started /\ ~m_finished))
  /\ UNCHANGED <<deviceVars, m_size, m_started, alive, startPosted, arrived>>
  /\ IF m_started
     THEN Poll(polls, avail, btw)
     ELSE UNCHANGED <<m_finished, m_bufferSize, m_writtenBytes, kjobVars, polls,
                      avail, srcOpen, dstVars>>

(* The ssl destination sends n of its bytes: bytesWritten calls poll().    *)
BytesWritten(n) ==
  /\ alive /\ m_sslSocket /\ m_started /\ dst # "closed" /\ n <= btw
  /\ UNCHANGED <<deviceVars, m_size, m_started, m_sourceEof, alive, startPosted,
                 arrived, srcEnded>>
  /\ Poll(polls, avail, btw - n)

(* The timer polls for sequential destinations.  The loop empties the      *)
(* posted events between two ticks, so a tick finds few of them.           *)
Tick ==
  /\ alive /\ m_sslSocket /\ m_started /\ ~m_finished /\ polls < MaxPosted
  /\ UNCHANGED <<deviceVars, m_size, m_started, m_sourceEof, alive, startPosted,
                 arrived, srcEnded>>
  /\ Poll(polls, avail, btw)

(* The ssl destination is disconnected, by us or by its other end.         *)
Disconnected ==
  /\ alive /\ m_sslSocket /\ m_started /\ dst # "closed" /\ ~m_finished
  /\ UNCHANGED <<deviceVars, m_size, m_started, m_sourceEof, m_bufferSize,
                 m_writtenBytes, loopVars, arrived, avail, srcEnded, btw>>
  /\ Finish(error, "job")

(* KJob::kill() of a job that has not started: doKill() closes the devices *)
(* and, as no result came of that, the job ends quietly as killed.         *)
KillUnstarted ==
  /\ alive /\ startPosted /\ ~isFinished
  /\ srcOpen' = FALSE /\ dst' = "closed"
  /\ End(KilledJobError, "kill")
  /\ UNCHANGED <<deviceVars, jobVars, loopVars, arrived, avail, srcEnded, btw>>

(* KJob::kill() of a started job.  Closing the destination emits           *)
(* aboutToClose, which is connected to finish(): the result is out before  *)
(* kill() could set KilledJobError.  Closing a connected socket source     *)
(* first ends its read channel, and so polls once more.                    *)
Kill ==
  /\ alive /\ m_started /\ ~isFinished
  /\ UNCHANGED <<deviceVars, m_size, m_started, loopVars, arrived>>
  /\ \/ /\ source # "socket" \/ srcEnded
        /\ UNCHANGED <<m_sourceEof, m_bufferSize, m_writtenBytes, avail, srcEnded, btw>>
        /\ Finish(error, "kill")
     \/ /\ source = "socket" /\ ~srcEnded
        /\ m_sourceEof' = TRUE /\ srcEnded' = TRUE
        /\ \/ /\ -1 \in ReadResults(avail, btw)
              /\ Pump(0, 0, avail, btw) /\ Finish(Failure, "kill")
           \/ \E r \in ReadResults(avail, btw) \ {-1} :
                \/ /\ -1 \in WriteResults(m_bufferSize + r)
                   /\ Pump(r, 0, avail, btw) /\ Finish(Failure, "kill")
                \/ \E w \in WriteResults(m_bufferSize + r) \ {-1} :
                     Pump(r, w, avail, btw) /\ Finish(error, "kill")

(* The loop deletes the finished job, behind what was posted before.       *)
DeferredDelete ==
  /\ alive /\ deletePosted /\ ~startPosted /\ polls = 0
  /\ alive' = FALSE
  /\ UNCHANGED <<deviceVars, jobVars, kjobVars, startPosted, polls, srcVars, dstVars>>

(* The job's parent object is deleted, and the job with it.  ~KJob emits   *)
(* finished(), not result(), if nothing was reported.                      *)
Destroy ==
  /\ alive
  /\ alive' = FALSE /\ startPosted' = FALSE /\ polls' = 0
  /\ End(error, "destructor")
  /\ UNCHANGED <<deviceVars, jobVars, srcVars, dstVars>>

Next ==
  \/ Start \/ DoStartRefused \/ DoStart \/ QueuedPoll
  \/ \E n \in 1..MaxBytes : ReadyRead(n) \/ BytesWritten(n)
  \/ ReadChannelFinished \/ Tick \/ Disconnected
  \/ KillUnstarted \/ Kill \/ DeferredDelete \/ Destroy

(* The event loop handles what is posted; the network sends what an ssl    *)
(* destination holds and answers our disconnect.  Nothing makes the other  *)
(* end of the source send or close, and nothing kills or destroys the job. *)
Fairness ==
  /\ WF_vars(DoStart) /\ WF_vars(DoStartRefused) /\ WF_vars(QueuedPoll)
  /\ WF_vars(\E n \in 1..MaxBytes : BytesWritten(n))
  /\ WF_vars(dst = "closing" /\ Disconnected)
  /\ WF_vars(DeferredDelete)

Spec == Init /\ [][Next]_vars /\ Fairness

-----------------------------------------------------------------------------
(* Properties.                                                             *)

TypeOK ==
  /\ source \in SourceKinds /\ destination \in DestKinds
  /\ content \in 0..MaxBytes /\ m_size \in -1..MaxBytes
  /\ m_started \in BOOLEAN /\ m_sourceEof \in BOOLEAN /\ m_finished \in BOOLEAN
  /\ m_bufferSize \in 0..BufCap /\ m_writtenBytes \in 0..MaxBytes
  /\ isFinished \in BOOLEAN /\ error \in 0..2 /\ reported \in -1..2
  /\ reporter \in {"nobody", "job", "kill", "destructor"}
  /\ alive \in BOOLEAN /\ startPosted \in BOOLEAN /\ polls \in Nat
  /\ arrived \in 0..MaxBytes /\ avail \in 0..MaxBytes
  /\ srcOpen \in BOOLEAN /\ srcEnded \in BOOLEAN
  /\ dst \in {"open", "closing", "closed"} /\ btw \in 0..MaxBytes

(* Every byte received is unread, buffered or written, exactly once.       *)
BytesConserved == arrived = avail + m_bufferSize + m_writtenBytes

(* A result without error is never announced for a partial copy: with a    *)
(* known size, exactly that many bytes were written and none is left over  *)
(* in the buffer.  (The destructor announces no result.)                   *)
SuccessIsComplete ==
  reported = NoError /\ reporter \in {"job", "kill"}
    => m_bufferSize = 0 /\ (m_size >= 0 => m_writtenBytes = m_size)

(* With an unknown size, a copy to a file that ends by itself without      *)
(* error has seen the end of its source and written all of it.             *)
UnknownSizeIsWholeStream ==
  reported = NoError /\ reporter = "job" /\ m_size = -1 /\ ~m_sslSocket
    => srcEnded /\ m_writtenBytes = arrived

(* No lost wakeup: while a running job could move bytes, a poll is queued. *)
(* (A reply signals only its end, and after a failure nobody need poll.)   *)
NoLostWakeup ==
  m_started /\ alive /\ ~isFinished /\ (source = "reply" => srcEnded)
  /\ avail > 0 /\ m_bufferSize < BufCap /\ bytesToWrite(btw) < HighWater
    => polls > 0

(* No missed end: poll() is not called again for the sake of a copy that   *)
(* is complete, so each event that completes it must notice.               *)
NoMissedEnd ==
  m_started /\ alive /\ ~isFinished
  /\ avail = 0 /\ m_bufferSize = 0 /\ bytesToWrite(btw) = 0
  /\ (m_sourceEof \/ m_size = m_writtenBytes)
    => m_sslSocket /\ dst = "closing"

(* A copy that ends by itself as a success is whole: it has written what   *)
(* was announced or, if nothing was, all that the source had.              *)
SuccessIsWhole == SuccessIsComplete /\ UnknownSizeIsWholeStream

(* poll() is called by events and by itself; nothing that it has to do is  *)
(* ever left to a call that does not come.                                 *)
NothingMissed == NoLostWakeup /\ NoMissedEnd

(* A job that has seen the end of its source reports, and so does one that *)
(* has all the announced bytes from a socket that stays open, as peers     *)
(* keep payload connections; unless a partial write leaves bytes in the    *)
(* buffer that no event will ever flush.                                   *)
SourceEndsJob ==
  \/ /\ m_sourceEof ~> isFinished
     /\ (m_started /\ source = "socket" /\ arrived = m_size /\ content = m_size ~> isFinished)
  \/ <>[](m_bufferSize # 0)

(* What relates the parts of the state to one another between two events.  *)
Connected ==
  /\ reporter # "nobody" <=> isFinished
  /\ reporter = "nobody" <=> reported = -1
  /\ m_finished => m_started /\ isFinished /\ ~srcOpen
  /\ m_started => ~startPosted
  /\ polls > 0 => m_started
  /\ m_started /\ ~m_finished => srcOpen /\ dst # "closed"
  /\ startPosted /\ isFinished => ~srcOpen
  /\ m_started /\ source = "file" => m_size >= 0
  /\ source # "file" /\ m_sourceEof => srcEnded
  /\ btw <= m_writtenBytes
  /\ ~m_started => m_writtenBytes = 0 /\ m_bufferSize = 0

(* A success freezes the job: poll() does nothing more.                    *)
SuccessIsFinal ==
  reported = NoError /\ reporter \in {"job", "kill"} => m_finished

(* The inductive invariant of the proofs.                                  *)
IndInv ==
  /\ TypeOK /\ BytesConserved /\ Connected /\ SuccessIsFinal
  /\ SuccessIsComplete /\ UnknownSizeIsWholeStream
  /\ arrived <= content

(* CopyJob implements Transfer.                                            *)
status ==
  IF reporter = "nobody" THEN (IF m_started THEN "running" ELSE "pending")
  ELSE IF reporter = "destructor" THEN "abandoned"
  ELSE IF reported = NoError THEN "succeeded" ELSE "failed"

Promise == INSTANCE Transfer WITH size <- m_size, moved <- m_writtenBytes

KeepsPromise == Promise!TransferSpec

=============================================================================
