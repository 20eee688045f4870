--------------------------- MODULE CopyJob_proofs ---------------------------
(***************************************************************************)
(* Proofs about CopyJob, for every kind of device, every stream length,    *)
(* buffer and write-ahead limit.  IndInv is inductive; the safety          *)
(* properties follow from it, and each event is a step of Transfer.        *)
(***************************************************************************)
EXTENDS CopyJob, TLAPS

USE BoundsAssumption

(* What read() and write() may return, other than -1.                      *)
LEMMA ReadBound ==
  ASSUME TypeOK, NEW have \in Nat, NEW out \in Nat,
         NEW r \in ReadResults(have, out) \ {-1}
  PROVE  r \in Nat /\ r <= have /\ m_bufferSize + r <= BufCap
BY EofReadsAssumption DEF TypeOK, ReadResults, LeastOf

LEMMA WriteBound ==
  ASSUME NEW n \in Nat, NEW w \in WriteResults(n) \ {-1}
  PROVE  w \in Nat /\ w <= n
BY DEF WriteResults

(* A pump of possible amounts moves bytes from one place to the next, and  *)
(* of the total that there is before it loses none.                        *)
Pumped(total) ==
  /\ avail' \in Nat /\ m_bufferSize' \in 0..BufCap /\ m_writtenBytes' \in Nat
  /\ btw' \in Nat /\ btw' <= m_writtenBytes'
  /\ m_writtenBytes' >= m_writtenBytes
  /\ total = avail' + m_bufferSize' + m_writtenBytes'

LEMMA PumpMoves ==
  ASSUME TypeOK, NEW have \in Nat, NEW out \in Nat, out <= m_writtenBytes,
         NEW r \in Nat, NEW w \in Nat,
         r <= have, m_bufferSize + r <= BufCap, w <= m_bufferSize + r,
         Pump(r, w, have, out)
  PROVE  Pumped(have + m_bufferSize + m_writtenBytes)
BY DEF TypeOK, Pump, Pumped

(* One call of poll() on a job that has not finished moves bytes, and then *)
(* gives up, or posts itself and ends the copy if that is complete.        *)
LEMMA PollEffect ==
  ASSUME TypeOK, ~m_finished,
         NEW queued \in Nat, NEW have \in Nat, NEW out \in Nat, out <= m_writtenBytes,
         Poll(queued, have, out)
  PROVE  /\ Pumped(have + m_bufferSize + m_writtenBytes)
         /\ PollFails(queued) \/ (PostPoll(queued) /\ EndCopy)
<1>. DEFINE total == have + m_bufferSize + m_writtenBytes
<1>1. m_bufferSize \in Nat /\ m_bufferSize <= BufCap
  BY DEF TypeOK
<1>2. CASE Pump(0, 0, have, out) /\ PollFails(queued)
  <2>1. Pumped(total)
    BY <1>1, <1>2, PumpMoves
  <2>. QED BY <2>1, <1>2
<1>3. ASSUME NEW r \in ReadResults(have, out) \ {-1},
             Pump(r, 0, have, out), PollFails(queued)
      PROVE  Pumped(total) /\ PollFails(queued)
  <2>1. r \in Nat /\ r <= have /\ m_bufferSize + r <= BufCap
    BY ReadBound
  <2>2. Pumped(total)
    BY <1>1, <1>3, <2>1, PumpMoves
  <2>. QED BY <2>2, <1>3
<1>4. ASSUME NEW r \in ReadResults(have, out) \ {-1},
             NEW w \in WriteResults(m_bufferSize + r) \ {-1},
             Pump(r, w, have, out), PostPoll(queued), EndCopy
      PROVE  Pumped(total) /\ PostPoll(queued) /\ EndCopy
  <2>1. r \in Nat /\ r <= have /\ m_bufferSize + r <= BufCap
    BY ReadBound
  <2>2. w \in Nat /\ w <= m_bufferSize + r
    BY <1>1, <2>1, WriteBound
  <2>3. Pumped(total)
    BY <1>4, <2>1, <2>2, PumpMoves
  <2>. QED BY <2>3, <1>4
<1>. QED BY <1>2, <1>3, <1>4 DEF Poll

(* What holds of the KJob state of a job, and stays so when it ends.       *)
KJobFacts ==
  /\ isFinished \in BOOLEAN /\ error \in 0..2 /\ reported \in -1..2
  /\ reporter \in {"nobody", "job", "kill", "destructor"}
  /\ reporter # "nobody" <=> isFinished
  /\ reporter = "nobody" <=> reported = -1

LEMMA IndInvKJob == IndInv => KJobFacts
BY DEF IndInv, TypeOK, Connected, KJobFacts

(* Only the first end of a job is announced, with the error it has then.   *)
LEMMA EndEffect ==
  ASSUME KJobFacts, NEW e \in 0..2, NEW who \in {"job", "kill", "destructor"},
         End(e, who)
  PROVE  /\ KJobFacts'
         /\ isFinished' = TRUE
         /\ isFinished => UNCHANGED <<reported, reporter>>
         /\ ~isFinished => reported' = e /\ reporter' = who
<1>1. CASE isFinished
  <2>1. error' = e /\ UNCHANGED <<isFinished, reported, reporter>>
    BY <1>1 DEF End
  <2>2. isFinished' = TRUE
    BY <1>1, <2>1 DEF KJobFacts
  <2>. QED BY <1>1, <2>1, <2>2 DEF KJobFacts
<1>2. CASE ~isFinished
  <2>1. error' = e /\ isFinished' = TRUE /\ reported' = e /\ reporter' = who
    BY <1>2 DEF End
  <2>. QED BY <1>2, <2>1 DEF KJobFacts
<1>. QED BY <1>1, <1>2

-----------------------------------------------------------------------------

LEMMA InitInv == Init => IndInv
<1>. SUFFICES ASSUME Init PROVE IndInv
  OBVIOUS
<1>1. /\ arrived \in 0..content /\ avail = arrived /\ content \in 0..MaxBytes
      /\ m_bufferSize = 0 /\ m_writtenBytes = 0 /\ btw = 0
  BY DEF Init
<1>2. TypeOK
  <2>1. /\ source \in SourceKinds /\ destination \in DestKinds /\ m_size \in -1..MaxBytes
        /\ m_bufferSize \in 0..BufCap /\ m_writtenBytes \in 0..MaxBytes
        /\ error \in 0..2 /\ reported \in -1..2 /\ polls \in Nat
    BY <1>1 DEF Init, NoError
  <2>2. arrived \in 0..MaxBytes /\ avail \in 0..MaxBytes /\ btw \in 0..MaxBytes
    BY <1>1
  <2>3. /\ m_started \in BOOLEAN /\ m_sourceEof \in BOOLEAN /\ m_finished \in BOOLEAN
        /\ isFinished \in BOOLEAN /\ alive \in BOOLEAN /\ startPosted \in BOOLEAN
        /\ srcOpen \in BOOLEAN /\ srcEnded \in BOOLEAN
    BY DEF Init
  <2>4. /\ reporter \in {"nobody", "job", "kill", "destructor"}
        /\ dst \in {"open", "closing", "closed"}
    BY DEF Init
  <2>. QED BY <1>1, <2>1, <2>2, <2>3, <2>4 DEF TypeOK
<1>3. BytesConserved /\ arrived <= content
  BY <1>1 DEF BytesConserved
<1>4. Connected
  BY <1>1 DEF Init, Connected
<1>5. SuccessIsFinal /\ SuccessIsComplete /\ UnknownSizeIsWholeStream
  BY DEF Init, SuccessIsFinal, SuccessIsComplete, UnknownSizeIsWholeStream, NoError
<1>. QED BY <1>2, <1>3, <1>4, <1>5 DEF IndInv

(* What an action that polls settles before it does.                       *)
PollContext(have, out) ==
  /\ UNCHANGED <<deviceVars, alive>>
  /\ m_started' /\ ~startPosted'
  /\ m_started' = TRUE /\ startPosted' = FALSE
  /\ ~m_started => srcOpen /\ dst # "closed" /\ ~isFinished
  /\ m_size' \in -1..MaxBytes
  /\ source = "file" => m_size' >= 0
  /\ m_started => m_size' = m_size
  /\ m_sourceEof' \in BOOLEAN /\ srcEnded' \in BOOLEAN
  /\ srcEnded => srcEnded'
  /\ source # "file" /\ m_sourceEof' => srcEnded'
  /\ arrived' \in Nat /\ arrived' <= content
  /\ arrived' = have + m_bufferSize + m_writtenBytes
  /\ m_finished => arrived' = arrived
  /\ out <= m_writtenBytes

LEMMA PollKeepsInv ==
  ASSUME IndInv,
         NEW queued \in Nat, NEW have \in Nat, NEW out \in Nat,
         PollContext(have, out),
         Poll(queued, have, out)
  PROVE  IndInv'
<1>. USE DEF IndInv
<1>1. CASE m_finished
  <2>1. /\ polls' = queued /\ avail' = have /\ btw' = out
        /\ UNCHANGED <<m_finished, m_bufferSize, m_writtenBytes, kjobVars, srcOpen, dst>>
    BY <1>1 DEF Poll
  <2>2. m_started
    BY <1>1 DEF Connected
  <2>3. TypeOK'
    <3>1. avail' \in 0..MaxBytes /\ btw' \in 0..MaxBytes /\ arrived' \in 0..MaxBytes
      BY <2>1, <1>1 DEF TypeOK, PollContext, BytesConserved
    <3>2. /\ polls' \in Nat /\ dst' \in {"open", "closing", "closed"}
          /\ m_bufferSize' \in 0..BufCap /\ m_writtenBytes' \in 0..MaxBytes
      BY <2>1 DEF TypeOK
    <3>3. /\ isFinished' \in BOOLEAN /\ error' \in 0..2 /\ reported' \in -1..2
          /\ reporter' \in {"nobody", "job", "kill", "destructor"}
      BY <2>1 DEF TypeOK, kjobVars
    <3>4. /\ m_started' \in BOOLEAN /\ m_finished' \in BOOLEAN /\ alive' \in BOOLEAN
          /\ startPosted' \in BOOLEAN /\ srcOpen' \in BOOLEAN
      BY <2>1 DEF TypeOK, PollContext
    <3>. QED BY <3>1, <3>2, <3>3, <3>4 DEF TypeOK, PollContext, deviceVars
  <2>4. BytesConserved' /\ (arrived <= content)'
    BY <2>1 DEF BytesConserved, PollContext, deviceVars
  <2>5. Connected'
    BY <2>1, <2>2, <1>1 DEF Connected, PollContext, deviceVars, kjobVars
  <2>6. SuccessIsFinal' /\ SuccessIsComplete' /\ UnknownSizeIsWholeStream'
    BY <2>1, <2>2, <1>1 DEF SuccessIsFinal, SuccessIsComplete, UnknownSizeIsWholeStream,
       PollContext, deviceVars, kjobVars, m_sslSocket
  <2>. QED BY <2>3, <2>4, <2>5, <2>6
<1>2. CASE ~m_finished
  <2>1. /\ Pumped(have + m_bufferSize + m_writtenBytes)
        /\ PollFails(queued) \/ (PostPoll(queued) /\ EndCopy)
    BY <1>2, PollEffect DEF PollContext
  <2>2. /\ BytesConserved' /\ (arrived <= content)'
        /\ m_writtenBytes' \in 0..MaxBytes /\ avail' \in 0..MaxBytes
        /\ m_bufferSize' \in 0..BufCap /\ arrived' \in 0..MaxBytes
        /\ btw' \in 0..MaxBytes /\ btw' <= m_writtenBytes'
    <3>1. PICK a \in Nat, v \in Nat, s \in Nat, w \in Nat, u \in Nat, c \in Nat :
            /\ a = arrived' /\ v = avail' /\ s = m_bufferSize' /\ w = m_writtenBytes'
            /\ u = btw' /\ c = content'
      BY <2>1 DEF Pumped, PollContext, TypeOK, deviceVars
    <3>2. a <= c /\ c <= MaxBytes
      BY <3>1 DEF TypeOK, PollContext, deviceVars
    <3>3. a = v + s + w /\ u <= w
      BY <2>1, <3>1 DEF Pumped, PollContext
    <3>4. v \in 0..MaxBytes /\ w \in 0..MaxBytes /\ a \in 0..MaxBytes /\ u \in 0..MaxBytes
      BY <3>2, <3>3
    <3>. QED BY <2>1, <3>1, <3>2, <3>3, <3>4 DEF BytesConserved, Pumped
  <2>3. polls' \in Nat
    BY <2>1 DEF PollFails, PostPoll
  <2>4. ~(reported = NoError /\ reporter \in {"job", "kill"})
    BY <1>2 DEF SuccessIsFinal
  <2>5. srcOpen /\ dst # "closed"
    BY <1>2 DEF Connected, PollContext
  <2>6. CASE PollFails(queued) \/ (EndCopy /\ UNCHANGED <<m_finished, kjobVars, srcOpen>>)
    <3>1. /\ UNCHANGED <<m_finished, srcOpen>>
          /\ dst' \in {dst, "closing"}
          /\ \/ UNCHANGED kjobVars
             \/ End(Failure, "job")
      BY <2>6, <2>5 DEF PollFails, EndCopy, Finish
    <3>2. KJobFacts' /\ ~(reported' = NoError /\ reporter' \in {"job", "kill"})
      <4>1. CASE UNCHANGED kjobVars
        BY <4>1, <2>4, IndInvKJob DEF kjobVars, KJobFacts
      <4>2. CASE End(Failure, "job")
        BY <4>2, <2>4, IndInvKJob, EndEffect DEF Failure, NoError
      <4>. QED BY <3>1, <4>1, <4>2
    <3>3. TypeOK'
      BY <2>2, <2>3, <2>5, <3>1, <3>2 DEF TypeOK, PollContext, deviceVars, KJobFacts
    <3>4. Connected'
      BY <1>2, <2>2, <2>5, <3>1, <3>2 DEF Connected, PollContext, deviceVars, KJobFacts
    <3>5. SuccessIsFinal' /\ SuccessIsComplete' /\ UnknownSizeIsWholeStream'
      BY <3>2 DEF SuccessIsFinal, SuccessIsComplete, UnknownSizeIsWholeStream, NoError
    <3>. QED BY <2>2, <3>3, <3>4, <3>5
  <2>7. CASE AtEof /\ ~m_sslSocket /\ Finish(error, "job")
    <3>1. m_finished' = TRUE /\ srcOpen' = FALSE /\ dst' = "closed"
      BY <2>7 DEF Finish
    <3>2. /\ KJobFacts' /\ isFinished' = TRUE
          /\ m_bufferSize' # 0 \/ (m_size' >= 0 /\ m_writtenBytes' # m_size')
               => ~(reported' = NoError /\ reporter' \in {"job", "kill"})
      <4>1. CASE m_bufferSize' # 0 \/ (m_size' >= 0 /\ m_writtenBytes' # m_size')
        <5>1. End(Failure, "job")
          BY <2>7, <4>1 DEF Finish
        <5>. QED BY <5>1, <2>4, IndInvKJob, EndEffect DEF Failure, NoError
      <4>2. CASE ~(m_bufferSize' # 0 \/ (m_size' >= 0 /\ m_writtenBytes' # m_size'))
        <5>1. End(error, "job") /\ error \in 0..2
          BY <2>7, <4>2 DEF Finish, TypeOK
        <5>. QED BY <5>1, <4>2, IndInvKJob, EndEffect
      <4>. QED BY <4>1, <4>2
    <3>3. TypeOK'
      BY <2>2, <2>3, <3>1, <3>2 DEF TypeOK, PollContext, deviceVars, KJobFacts
    <3>4. Connected'
      BY <2>2, <3>1, <3>2 DEF Connected, PollContext, deviceVars, KJobFacts
    <3>5. SuccessIsFinal' /\ SuccessIsComplete'
      BY <3>1, <3>2 DEF SuccessIsFinal, SuccessIsComplete, NoError
    <3>6. UnknownSizeIsWholeStream'
      <4>1. m_size' = -1 => srcEnded' /\ avail' = 0 /\ m_bufferSize' = 0
        BY <2>2, <2>7 DEF AtEof, PollContext
      <4>2. PICK v, s, w \in Nat : v = avail' /\ s = m_bufferSize' /\ w = m_writtenBytes'
        BY <2>1 DEF Pumped
      <4>3. v = 0 /\ s = 0 => v + s + w = w
        OBVIOUS
      <4>4. m_size' = -1 => m_writtenBytes' = arrived'
        BY <4>1, <4>2, <4>3, <2>2 DEF BytesConserved
      <4>. QED BY <4>1, <4>4 DEF UnknownSizeIsWholeStream
    <3>. QED BY <2>2, <3>3, <3>4, <3>5, <3>6
  <2>. QED BY <2>1, <2>6, <2>7 DEF EndCopy
<1>. QED BY <1>1, <1>2

-----------------------------------------------------------------------------
(* The events that poll settle the context of the poll first.              *)

LEMMA DoStartContext == ASSUME IndInv, DoStart PROVE PollContext(avail, btw)
<1>1. ~m_started /\ ~isFinished /\ ~m_finished
  BY DEF IndInv, Connected, DoStart
<1>2. m_size' \in -1..MaxBytes /\ (source = "file" => m_size' >= 0)
  BY DEF IndInv, TypeOK, DoStart, sourceIsSequential
<1>. QED
  BY <1>1, <1>2
  DEF IndInv, TypeOK, Connected, BytesConserved, DoStart, PollContext, sourceIsSequential,
      deviceVars

LEMMA DoStartPolls ==
  ASSUME IndInv, DoStart
  PROVE  Poll(polls, avail, btw) /\ polls \in Nat /\ avail \in Nat /\ btw \in Nat
<1>1. Poll(polls, avail, btw)
  BY DEF DoStart
<1>. QED BY <1>1 DEF IndInv, TypeOK

LEMMA DoStartInv == ASSUME IndInv, DoStart PROVE IndInv'
BY DoStartContext, DoStartPolls, PollKeepsInv

LEMMA QueuedPollContext ==
  ASSUME IndInv, QueuedPoll PROVE PollContext(avail, btw) /\ polls - 1 \in Nat
<1>1. m_started
  BY DEF IndInv, Connected, QueuedPoll
<1>2. PollContext(avail, btw)
  BY <1>1 DEF IndInv, TypeOK, Connected, BytesConserved, QueuedPoll, PollContext, deviceVars
<1>3. polls - 1 \in Nat
  BY DEF IndInv, TypeOK, QueuedPoll
<1>. QED BY <1>2, <1>3

LEMMA QueuedPollInv == ASSUME IndInv, QueuedPoll PROVE IndInv'
BY QueuedPollContext, PollKeepsInv DEF QueuedPoll, IndInv, TypeOK

LEMMA TickContext == ASSUME IndInv, Tick PROVE PollContext(avail, btw)
BY DEF IndInv, TypeOK, Connected, BytesConserved, Tick, PollContext, deviceVars

LEMMA TickInv == ASSUME IndInv, Tick PROVE IndInv'
BY TickContext, PollKeepsInv DEF Tick, IndInv, TypeOK

LEMMA BytesWrittenContext ==
  ASSUME IndInv, NEW n \in 1..MaxBytes, BytesWritten(n)
  PROVE  PollContext(avail, btw - n) /\ btw - n \in Nat
<1>1. btw - n \in Nat /\ btw - n <= m_writtenBytes
  BY DEF IndInv, TypeOK, Connected, BytesWritten
<1>2. PollContext(avail, btw - n)
  BY <1>1 DEF IndInv, TypeOK, Connected, BytesConserved, BytesWritten, PollContext, deviceVars
<1>. QED BY <1>1, <1>2

LEMMA BytesWrittenInv ==
  ASSUME IndInv, NEW n \in 1..MaxBytes, BytesWritten(n) PROVE IndInv'
BY BytesWrittenContext, PollKeepsInv DEF BytesWritten, IndInv, TypeOK

LEMMA ReadyReadContext ==
  ASSUME IndInv, NEW n \in 1..MaxBytes, ReadyRead(n), m_started, source # "reply"
  PROVE  PollContext(avail + n, btw) /\ avail + n \in Nat
<1>1. /\ avail + n \in Nat /\ arrived + n \in Nat /\ arrived + n <= content
      /\ arrived + n = (avail + n) + m_bufferSize + m_writtenBytes
      /\ ~m_finished
  BY DEF IndInv, TypeOK, BytesConserved, Connected, ReadyRead
<1>2. PollContext(avail + n, btw)
  BY <1>1 DEF IndInv, TypeOK, Connected, ReadyRead, PollContext, deviceVars
<1>. QED BY <1>1, <1>2

LEMMA ReadyReadInv ==
  ASSUME IndInv, NEW n \in 1..MaxBytes, ReadyRead(n) PROVE IndInv'
<1>1. /\ avail + n \in Nat /\ arrived + n \in Nat /\ arrived + n <= content
      /\ arrived + n = (avail + n) + m_bufferSize + m_writtenBytes
      /\ ~m_finished
  BY DEF IndInv, TypeOK, BytesConserved, Connected, ReadyRead
<1>2. CASE m_started /\ source # "reply"
  BY <1>2, ReadyReadContext, PollKeepsInv DEF ReadyRead, IndInv, TypeOK
<1>3. CASE ~(m_started /\ source # "reply")
  <2>1. /\ arrived' = arrived + n /\ avail' = avail + n
        /\ UNCHANGED <<deviceVars, m_size, m_started, m_sourceEof, alive, startPosted,
                       srcEnded, m_finished, m_bufferSize, m_writtenBytes, kjobVars,
                       polls, srcOpen, dstVars>>
    BY <1>3 DEF ReadyRead
  <2>2. arrived' \in 0..MaxBytes /\ avail' \in 0..MaxBytes
    <3>1. arrived + n \in 0..MaxBytes /\ avail + n \in 0..MaxBytes
      BY <1>1 DEF IndInv, TypeOK
    <3>. QED BY <2>1, <3>1
  <2>3. TypeOK'
    BY <2>1, <2>2 DEF IndInv, TypeOK, deviceVars, kjobVars, dstVars
  <2>4. Connected'
    BY <2>1 DEF IndInv, Connected, deviceVars, kjobVars, dstVars
  <2>5. BytesConserved' /\ (arrived <= content)'
    BY <1>1, <2>1 DEF BytesConserved, deviceVars
  <2>6. SuccessIsFinal' /\ SuccessIsComplete'
    BY <2>1 DEF IndInv, SuccessIsFinal, SuccessIsComplete, kjobVars
  <2>7. UnknownSizeIsWholeStream'
    BY <1>1, <2>1 DEF IndInv, SuccessIsFinal, UnknownSizeIsWholeStream, kjobVars
  <2>. QED BY <2>3, <2>4, <2>5, <2>6, <2>7 DEF IndInv
<1>. QED BY <1>2, <1>3

LEMMA ReadChannelFinishedContext ==
  ASSUME IndInv, ReadChannelFinished, m_started PROVE PollContext(avail, btw)
BY DEF IndInv, TypeOK, Connected, BytesConserved, ReadChannelFinished, PollContext, deviceVars

LEMMA ReadChannelFinishedInv == ASSUME IndInv, ReadChannelFinished PROVE IndInv'
<1>1. m_sourceEof' \in BOOLEAN
  BY DEF IndInv, TypeOK, ReadChannelFinished
<1>2. CASE m_started
  BY <1>2, ReadChannelFinishedContext, PollKeepsInv DEF ReadChannelFinished, IndInv, TypeOK
<1>3. CASE ~m_started
  <2>1. /\ srcEnded' = TRUE /\ source # "file"
        /\ UNCHANGED <<deviceVars, m_size, m_started, alive, startPosted, arrived,
                       m_finished, m_bufferSize, m_writtenBytes, kjobVars, polls,
                       avail, srcOpen, dstVars>>
    BY <1>3 DEF ReadChannelFinished, sourceIsSequential
  <2>2. TypeOK'
    BY <1>1, <2>1 DEF IndInv, TypeOK, deviceVars, kjobVars, dstVars
  <2>3. Connected'
    BY <2>1 DEF IndInv, Connected, deviceVars, kjobVars, dstVars
  <2>4. /\ BytesConserved' /\ (arrived <= content)'
        /\ SuccessIsFinal' /\ SuccessIsComplete'
    BY <2>1 DEF IndInv, BytesConserved, SuccessIsFinal, SuccessIsComplete, deviceVars, kjobVars
  <2>5. UnknownSizeIsWholeStream'
    BY <2>1 DEF IndInv, UnknownSizeIsWholeStream, kjobVars, deviceVars, m_sslSocket
  <2>. QED BY <2>2, <2>3, <2>4, <2>5 DEF IndInv
<1>. QED BY <1>2, <1>3

(* The events that end a job without polling.                              *)

(* Finish() of a job whose counters are settled keeps the invariant: it    *)
(* reports success only if the counts are right, and only the job itself   *)
(* vouches for the whole stream, when eof says so.                         *)
FinishContext(e, who) ==
  /\ UNCHANGED <<deviceVars, m_size, m_started, loopVars, arrived>>
  /\ m_started /\ ~m_finished
  /\ e \in 0..2 /\ who \in {"job", "kill"}
  /\ who = "job" => m_sslSocket
  /\ m_sourceEof' \in BOOLEAN /\ srcEnded' \in BOOLEAN
  /\ srcEnded => srcEnded'
  /\ source # "file" /\ m_sourceEof' => srcEnded'
  /\ Pumped(arrived)

LEMMA FinishKeepsInv ==
  ASSUME IndInv,
         NEW e, NEW who, FinishContext(e, who), Finish(e, who)
  PROVE  IndInv'
<1>1. m_finished' = TRUE /\ srcOpen' = FALSE /\ dst' = "closed"
  BY DEF Finish
<1>. DEFINE short == m_bufferSize' # 0 \/ (m_size' >= 0 /\ m_writtenBytes' # m_size')
<1>2. PICK f \in 0..2 : End(f, who) /\ (short => f = Failure)
  BY DEF Finish, FinishContext, Failure
<1>3. /\ KJobFacts /\ KJobFacts' /\ isFinished' = TRUE
      /\ isFinished => UNCHANGED <<reported, reporter>>
      /\ ~isFinished => reported' = f /\ reporter' = who
  BY <1>2, IndInvKJob, EndEffect DEF FinishContext
<1>4. ~(reported = NoError /\ reporter \in {"job", "kill"})
  BY DEF IndInv, SuccessIsFinal, FinishContext
<1>5. short => ~(reported' = NoError /\ reporter' \in {"job", "kill"})
  BY <1>2, <1>3, <1>4 DEF Failure, NoError
<1>6. ~(reported' = NoError /\ reporter' = "job" /\ ~m_sslSocket)
  <2>1. CASE isFinished
    BY <1>3, <1>4, <2>1
  <2>2. CASE ~isFinished
    BY <1>3, <2>2 DEF FinishContext
  <2>. QED BY <2>1, <2>2
<1>7. /\ BytesConserved' /\ (arrived <= content)'
      /\ m_writtenBytes' \in 0..MaxBytes /\ avail' \in 0..MaxBytes
      /\ btw' \in 0..MaxBytes /\ btw' <= m_writtenBytes'
  <2>1. arrived \in Nat /\ arrived <= MaxBytes
    BY DEF IndInv, TypeOK
  <2>2. /\ avail' \in Nat /\ m_bufferSize' \in Nat /\ m_writtenBytes' \in Nat /\ btw' \in Nat
        /\ btw' <= m_writtenBytes' /\ arrived = avail' + m_bufferSize' + m_writtenBytes'
    BY DEF Pumped, FinishContext
  <2>3. PICK a \in Nat, v \in Nat, s \in Nat, w \in Nat, u \in Nat :
          /\ a = arrived /\ v = avail' /\ s = m_bufferSize' /\ w = m_writtenBytes'
          /\ u = btw'
    BY <2>1, <2>2
  <2>4. a = v + s + w /\ u <= w /\ a <= MaxBytes
    BY <2>1, <2>2, <2>3
  <2>5. v \in 0..MaxBytes /\ w \in 0..MaxBytes /\ u \in 0..MaxBytes
    BY <2>4
  <2>6. BytesConserved'
    BY <2>2 DEF BytesConserved, FinishContext
  <2>7. (arrived <= content)'
    BY DEF FinishContext, deviceVars, IndInv
  <2>. QED BY <2>2, <2>3, <2>5, <2>6, <2>7
<1>8. TypeOK'
  BY <1>1, <1>3, <1>7 DEF IndInv, TypeOK, FinishContext, KJobFacts, Pumped, deviceVars, loopVars
<1>9. Connected'
  BY <1>1, <1>3, <1>7 DEF IndInv, Connected, FinishContext, KJobFacts, deviceVars, loopVars
<1>10. SuccessIsFinal'
  BY <1>1 DEF SuccessIsFinal
<1>11. SuccessIsComplete'
  BY <1>5 DEF SuccessIsComplete
<1>12. UnknownSizeIsWholeStream'
  <2>1. m_sslSocket' = m_sslSocket
    BY DEF m_sslSocket, FinishContext, deviceVars
  <2>. QED BY <1>6, <2>1 DEF UnknownSizeIsWholeStream, NoError
<1>. QED BY <1>7, <1>8, <1>9, <1>10, <1>11, <1>12 DEF IndInv

(* Leaving the counters alone is pumping nothing.                          *)
LEMMA NothingPumped ==
  ASSUME IndInv, UNCHANGED <<m_bufferSize, m_writtenBytes, avail, btw>>
  PROVE  Pumped(arrived)
BY DEF IndInv, TypeOK, BytesConserved, Connected, Pumped

LEMMA DisconnectedInv == ASSUME IndInv, Disconnected PROVE IndInv'
<1>1. Pumped(arrived)
  BY NothingPumped DEF Disconnected
<1>2. FinishContext(error, "job") /\ Finish(error, "job")
  BY <1>1 DEF IndInv, TypeOK, Connected, Disconnected, FinishContext
<1>. QED BY <1>2, FinishKeepsInv

LEMMA KillInv == ASSUME IndInv, Kill PROVE IndInv'
<1>1. ~m_finished
  BY DEF IndInv, Connected, Kill
<1>2. CASE UNCHANGED <<m_sourceEof, m_bufferSize, m_writtenBytes, avail, srcEnded, btw>>
           /\ Finish(error, "kill")
  <2>1. Pumped(arrived)
    BY <1>2, NothingPumped
  <2>2. FinishContext(error, "kill")
    BY <1>1, <1>2, <2>1 DEF IndInv, TypeOK, Connected, Kill, FinishContext
  <2>. QED BY <1>2, <2>2, FinishKeepsInv
<1>3. CASE m_sourceEof' = TRUE /\ srcEnded' = TRUE
  <2>1. /\ m_bufferSize \in Nat /\ m_bufferSize <= BufCap /\ btw <= m_writtenBytes
        /\ avail \in Nat /\ btw \in Nat /\ TypeOK
        /\ arrived = avail + m_bufferSize + m_writtenBytes
    BY DEF IndInv, TypeOK, Connected, BytesConserved
  <2>2. ASSUME NEW r \in Nat, NEW w \in Nat, NEW e \in {error, Failure},
               r <= avail, m_bufferSize + r <= BufCap, w <= m_bufferSize + r,
               Pump(r, w, avail, btw), Finish(e, "kill")
        PROVE  IndInv'
    <3>1. Pumped(avail + m_bufferSize + m_writtenBytes)
      BY <2>1, <2>2, PumpMoves
    <3>2. FinishContext(e, "kill")
      BY <1>1, <1>3, <2>1, <3>1 DEF IndInv, TypeOK, Kill, FinishContext, Failure
    <3>. QED BY <2>2, <3>2, FinishKeepsInv
  <2>3. CASE Pump(0, 0, avail, btw) /\ Finish(Failure, "kill")
    BY <2>1, <2>2, <2>3
  <2>4. ASSUME NEW r \in ReadResults(avail, btw) \ {-1},
               Pump(r, 0, avail, btw), Finish(Failure, "kill")
        PROVE  IndInv'
    <3>1. r \in Nat /\ r <= avail /\ m_bufferSize + r <= BufCap
      BY <2>1, ReadBound
    <3>. QED BY <2>1, <2>2, <2>4, <3>1
  <2>5. ASSUME NEW r \in ReadResults(avail, btw) \ {-1},
               NEW w \in WriteResults(m_bufferSize + r) \ {-1},
               Pump(r, w, avail, btw), Finish(error, "kill")
        PROVE  IndInv'
    <3>1. r \in Nat /\ r <= avail /\ m_bufferSize + r <= BufCap
      BY <2>1, ReadBound
    <3>2. w \in Nat /\ w <= m_bufferSize + r
      BY <2>1, <3>1, WriteBound
    <3>. QED BY <2>2, <2>5, <3>1, <3>2
  <2>. QED BY <1>2, <2>3, <2>4, <2>5 DEF Kill
<1>. QED BY <1>2, <1>3 DEF Kill

(* The other events end the job, or touch the counters not at all.         *)
Quiet ==
  UNCHANGED <<deviceVars, m_size, m_started, m_finished, m_bufferSize, m_writtenBytes,
              m_sourceEof, arrived, avail, srcEnded, btw>>

(* Such an event keeps the invariant if what it says of the job fits.      *)
LEMMA QuietKeepsInv ==
  ASSUME IndInv, Quiet, KJobFacts',
         alive' \in BOOLEAN, startPosted' \in BOOLEAN, polls' \in Nat,
         srcOpen' \in BOOLEAN, dst' \in {"open", "closing", "closed"},
         m_finished => isFinished' /\ ~srcOpen',
         m_started => ~startPosted',
         polls' > 0 => m_started,
         m_started /\ ~m_finished => srcOpen' /\ dst' # "closed",
         startPosted' /\ isFinished' => ~srcOpen',
         UNCHANGED <<reported, reporter>>
           \/ ~(reported' = NoError /\ reporter' \in {"job", "kill"})
  PROVE  IndInv'
<1>1. TypeOK'
  BY DEF IndInv, TypeOK, Quiet, KJobFacts, deviceVars
<1>2. Connected'
  BY DEF IndInv, Connected, Quiet, KJobFacts, deviceVars
<1>3. BytesConserved' /\ (arrived <= content)'
  BY DEF IndInv, BytesConserved, Quiet, deviceVars
<1>4. SuccessIsFinal'
  BY DEF IndInv, SuccessIsFinal, Quiet
<1>5. SuccessIsComplete'
  BY DEF IndInv, SuccessIsComplete, Quiet
<1>6. UnknownSizeIsWholeStream'
  <2>1. m_sslSocket' = m_sslSocket
    BY DEF Quiet, deviceVars, m_sslSocket
  <2>. QED BY <2>1 DEF IndInv, UnknownSizeIsWholeStream, Quiet
<1>. QED BY <1>1, <1>2, <1>3, <1>4, <1>5, <1>6 DEF IndInv

LEMMA StartInv == ASSUME IndInv, Start PROVE IndInv'
<1>1. Quiet /\ KJobFacts'
  BY IndInvKJob DEF Start, Quiet, jobVars, srcVars, dstVars, kjobVars, KJobFacts
<1>. QED
  BY <1>1, QuietKeepsInv
  DEF IndInv, TypeOK, Connected, Start, jobVars, kjobVars, srcVars, dstVars

LEMMA DoStartRefusedInv == ASSUME IndInv, DoStartRefused PROVE IndInv'
<1>1. KJobFacts' /\ isFinished' = TRUE
      /\ (UNCHANGED <<reported, reporter>>
            \/ ~(reported' = NoError /\ reporter' \in {"job", "kill"}))
  <2>1. End(Failure, "job") /\ Failure \in 0..2 /\ Failure # NoError
    BY DEF DoStartRefused, Failure, NoError
  <2>2. /\ KJobFacts' /\ isFinished' = TRUE
        /\ isFinished => UNCHANGED <<reported, reporter>>
        /\ ~isFinished => reported' = Failure
    BY <2>1, IndInvKJob, EndEffect
  <2>. QED BY <2>1, <2>2
<1>2. Quiet /\ ~m_started
  BY DEF IndInv, Connected, DoStartRefused, Quiet, jobVars, srcVars, dstVars
<1>. QED
  BY <1>1, <1>2, QuietKeepsInv
  DEF IndInv, TypeOK, Connected, DoStartRefused, jobVars, srcVars, dstVars

LEMMA KillUnstartedInv == ASSUME IndInv, KillUnstarted PROVE IndInv'
<1>1. KJobFacts' /\ isFinished' = TRUE
      /\ ~(reported' = NoError /\ reporter' \in {"job", "kill"})
  <2>1. /\ End(KilledJobError, "kill") /\ KilledJobError \in 0..2
        /\ KilledJobError # NoError /\ ~isFinished
    BY DEF KillUnstarted, KilledJobError, NoError
  <2>. QED BY <2>1, IndInvKJob, EndEffect
<1>2. Quiet /\ ~m_started
  BY DEF IndInv, Connected, KillUnstarted, Quiet, jobVars
<1>. QED
  BY <1>1, <1>2, QuietKeepsInv
  DEF IndInv, TypeOK, Connected, KillUnstarted, jobVars, loopVars

LEMMA DeferredDeleteInv == ASSUME IndInv, DeferredDelete PROVE IndInv'
<1>1. Quiet /\ KJobFacts'
  BY IndInvKJob DEF DeferredDelete, Quiet, jobVars, srcVars, dstVars, kjobVars, KJobFacts
<1>. QED
  BY <1>1, QuietKeepsInv
  DEF IndInv, TypeOK, Connected, DeferredDelete, jobVars, kjobVars, srcVars, dstVars

LEMMA DestroyInv == ASSUME IndInv, Destroy PROVE IndInv'
<1>1. error \in 0..2
  BY DEF IndInv, TypeOK
<1>2. KJobFacts' /\ isFinished' = TRUE
      /\ (UNCHANGED <<reported, reporter>>
            \/ ~(reported' = NoError /\ reporter' \in {"job", "kill"}))
  BY <1>1, IndInvKJob, EndEffect DEF Destroy
<1>3. Quiet /\ startPosted' = FALSE /\ polls' = 0 /\ alive' = FALSE
  BY DEF Destroy, Quiet, jobVars, srcVars, dstVars
<1>4. srcOpen' = srcOpen /\ dst' = dst
  BY DEF Destroy, srcVars, dstVars
<1>5. /\ srcOpen' \in BOOLEAN /\ dst' \in {"open", "closing", "closed"}
      /\ m_finished => ~srcOpen'
      /\ m_started /\ ~m_finished => srcOpen' /\ dst' # "closed"
  BY <1>4 DEF IndInv, TypeOK, Connected
<1>6. alive' \in BOOLEAN /\ startPosted' \in BOOLEAN /\ ~startPosted'
  BY <1>3
<1>7. polls' \in Nat /\ ~(polls' > 0)
  <2>1. 0 \in Nat /\ ~(0 > 0)
    OBVIOUS
  <2>. QED BY <1>3, <2>1, Zenon
<1>. QED BY <1>2, <1>3, <1>5, <1>6, <1>7, QuietKeepsInv

LEMMA StutterInv == ASSUME IndInv, UNCHANGED vars PROVE IndInv'
<1>1. Quiet /\ KJobFacts'
  BY IndInvKJob DEF vars, Quiet, jobVars, srcVars, dstVars, kjobVars, KJobFacts
<1>. QED
  BY <1>1, QuietKeepsInv
  DEF IndInv, TypeOK, Connected, vars, jobVars, kjobVars, loopVars, srcVars, dstVars

LEMMA NextInv == IndInv /\ [Next]_vars => IndInv'
BY StartInv, DoStartRefusedInv, DoStartInv, QueuedPollInv, ReadyReadInv, BytesWrittenInv,
   ReadChannelFinishedInv, TickInv, DisconnectedInv, KillUnstartedInv, KillInv,
   DeferredDeleteInv, DestroyInv, StutterInv
DEF Next

-----------------------------------------------------------------------------
(* Neither a wakeup nor the end is missed.  Each event that leaves a job   *)
(* unfinished and started has polled, and poll() looks at both.            *)

Awake == NoLostWakeup /\ NoMissedEnd

(* A job that is over, deleted or not started needs no poll.               *)
LEMMA AwakeAtRest ==
  ASSUME isFinished' \/ ~alive' \/ ~m_started'
  PROVE  Awake'
BY DEF Awake, NoLostWakeup, NoMissedEnd

LEMMA PollWakes ==
  ASSUME IndInv,
         NEW queued \in Nat, NEW have \in Nat, NEW out \in Nat,
         PollContext(have, out),
         Poll(queued, have, out)
  PROVE  Awake'
<1>1. CASE m_finished
  <2>1. isFinished'
    BY <1>1 DEF IndInv, Connected, Poll, kjobVars
  <2>. QED BY <2>1, AwakeAtRest
<1>2. CASE ~m_finished
  <2>1. /\ Pumped(have + m_bufferSize + m_writtenBytes)
        /\ PollFails(queued) \/ (PostPoll(queued) /\ EndCopy)
    BY <1>2, PollEffect DEF PollContext, IndInv
  <2>2. dst # "closed" /\ m_sslSocket' = m_sslSocket
    BY <1>2 DEF IndInv, Connected, PollContext, deviceVars, m_sslSocket
  <2>3. CASE isFinished'
    BY <2>3, AwakeAtRest
  <2>4. CASE ~isFinished'
    <3>1. PostPoll(queued) /\ EndCopy
      BY <2>1, <2>4 DEF PollFails, End
    <3>2. ~(AtEof /\ ~m_sslSocket)
      BY <3>1, <2>4 DEF EndCopy, Finish, End
    <3>3. UNCHANGED kjobVars /\ dst' # "closed" /\ (AtEof => dst' = "closing")
      BY <3>1, <3>2, <2>2 DEF EndCopy, IndInv, TypeOK
    <3>4. bytesToWrite(btw)' = bytesToWrite(btw')
      BY <2>2, <3>3 DEF bytesToWrite
    <3>5. ~deletePosted
      BY <2>4, <3>3 DEF deletePosted, kjobVars
    <3>6. NoLostWakeup'
      <4>1. SUFFICES ASSUME avail' > 0, m_bufferSize' < BufCap, bytesToWrite(btw') < HighWater
                     PROVE  polls' > 0
        BY <3>4 DEF NoLostWakeup
      <4>2. m_bufferSize' # BufCap
        BY <4>1, <2>1 DEF Pumped
      <4>3. polls' = queued + 1
        BY <3>1, <3>5, <4>1, <4>2 DEF PostPoll
      <4>. QED BY <4>3
    <3>7. NoMissedEnd'
      BY <2>2, <3>2, <3>3, <3>4 DEF NoMissedEnd, AtEof
    <3>. QED BY <3>6, <3>7 DEF Awake
  <2>. QED BY <2>3, <2>4
<1>. QED BY <1>1, <1>2

LEMMA NextAwake == IndInv /\ Awake /\ [Next]_vars => Awake'
<1>. SUFFICES ASSUME IndInv, Awake, [Next]_vars PROVE Awake'
  OBVIOUS
<1>0. isFinished \in BOOLEAN
  BY DEF IndInv, TypeOK
<1>1. CASE Start
  BY <1>1, AwakeAtRest DEF Start, jobVars
<1>2. CASE DoStartRefused
  BY <1>2, <1>0, AwakeAtRest DEF DoStartRefused, End
<1>3. CASE DoStart
  BY <1>3, DoStartContext, DoStartPolls, PollWakes
<1>4. CASE QueuedPoll
  BY <1>4, QueuedPollContext, PollWakes DEF QueuedPoll, IndInv, TypeOK
<1>5. ASSUME NEW n \in 1..MaxBytes, ReadyRead(n) PROVE Awake'
  <2>1. CASE m_started /\ source # "reply"
    BY <1>5, <2>1, ReadyReadContext, PollWakes DEF ReadyRead, IndInv, TypeOK
  <2>2. CASE ~m_started
    BY <1>5, <2>2, AwakeAtRest DEF ReadyRead
  <2>3. CASE m_started /\ source = "reply"
    <3>1. ~srcEnded' /\ source' = "reply"
      BY <1>5, <2>3 DEF ReadyRead, deviceVars
    <3>2. NoLostWakeup'
      BY <3>1 DEF NoLostWakeup
    <3>3. avail + n # 0 /\ avail' = avail + n
      BY <1>5, <2>3 DEF ReadyRead, IndInv, TypeOK
    <3>4. NoMissedEnd'
      BY <3>3 DEF NoMissedEnd
    <3>. QED BY <3>2, <3>4 DEF Awake
  <2>. QED BY <2>1, <2>2, <2>3
<1>6. ASSUME NEW n \in 1..MaxBytes, BytesWritten(n) PROVE Awake'
  BY <1>6, BytesWrittenContext, PollWakes DEF BytesWritten, IndInv, TypeOK
<1>7. CASE ReadChannelFinished
  <2>1. CASE m_started
    BY <1>7, <2>1, ReadChannelFinishedContext, PollWakes
    DEF ReadChannelFinished, IndInv, TypeOK
  <2>2. CASE ~m_started
    BY <1>7, <2>2, AwakeAtRest DEF ReadChannelFinished
  <2>. QED BY <2>1, <2>2
<1>8. CASE Tick
  BY <1>8, TickContext, PollWakes DEF Tick, IndInv, TypeOK
<1>9. CASE Disconnected
  BY <1>9, <1>0, AwakeAtRest DEF Disconnected, Finish, End
<1>10. CASE KillUnstarted
  BY <1>10, <1>0, AwakeAtRest DEF KillUnstarted, End
<1>11. CASE Kill
  BY <1>11, <1>0, AwakeAtRest DEF Kill, Finish, End
<1>12. CASE DeferredDelete
  BY <1>12, AwakeAtRest DEF DeferredDelete
<1>13. CASE Destroy
  BY <1>13, AwakeAtRest DEF Destroy
<1>14. CASE UNCHANGED vars
  BY <1>14 DEF Awake, NoLostWakeup, NoMissedEnd, vars, deviceVars, jobVars, kjobVars,
     loopVars, srcVars, dstVars, bytesToWrite, m_sslSocket
<1>. QED
  BY <1>1, <1>2, <1>3, <1>4, <1>5, <1>6, <1>7, <1>8, <1>9, <1>10, <1>11, <1>12, <1>13,
     <1>14 DEF Next

-----------------------------------------------------------------------------
(* The theorems.                                                           *)

(* Between any two events of any run, the job's counters, flags and        *)
(* devices fit together as IndInv says (copyjob.cpp as a whole).           *)
THEOREM Invariance == Spec => []IndInv
<1>1. Init => IndInv
  BY InitInv
<1>2. IndInv /\ [Next]_vars => IndInv'
  BY NextInv
<1>. QED BY <1>1, <1>2, PTL DEF Spec

(* Every variable keeps its type: no counter is negative and the buffer    *)
(* never holds more than its capacity, whatever the devices do.            *)
THEOREM TypeCorrectness == Spec => []TypeOK
BY Invariance, PTL DEF IndInv

(* poll() and doKill() neither lose nor repeat a byte.                     *)
THEOREM Conservation == Spec => []BytesConserved
BY Invariance, PTL DEF IndInv

(* finish() reports no success for a partial copy: a result without error  *)
(* means an empty buffer and exactly the announced number of bytes.        *)
THEOREM NoPartialSuccess == Spec => []SuccessIsComplete
BY Invariance, PTL DEF IndInv

(* A copy of unknown size to a file that succeeds by itself has seen its   *)
(* source end and written all it received.                                 *)
THEOREM NoTruncatedStream == Spec => []UnknownSizeIsWholeStream
BY Invariance, PTL DEF IndInv

(* finish() and the end in poll() tell no part from the whole, of a known  *)
(* size or not.                                                            *)
THEOREM SuccessWhole == Spec => []SuccessIsWhole
BY NoPartialSuccess, NoTruncatedStream, PTL DEF SuccessIsWhole

(* While a started job could move bytes, a poll is queued: no chain of     *)
(* signals, requeued polls and write-ahead limits leaves it asleep with    *)
(* bytes to copy.  The event that makes a copy complete ends it, or has    *)
(* asked an ssl destination to disconnect, which ends it (poll()).         *)
THEOREM Wakefulness == Spec => []NothingMissed
<1>1. Init => Awake
  BY DEF Init, Awake, NoLostWakeup, NoMissedEnd
<1>2. IndInv /\ Awake /\ [Next]_vars => Awake'
  BY NextAwake
<1>3. Awake => NothingMissed
  BY DEF Awake, NothingMissed
<1>. QED BY <1>1, <1>2, <1>3, Invariance, PTL DEF Spec

-----------------------------------------------------------------------------
(* CopyJob implements Transfer: seen through the refinement mapping of     *)
(* CopyJob.tla, every event of a job is a step of Transfer or a stutter.   *)

(* What a step of the job must do, and not do, to be a step of Transfer.   *)
Faithful ==
  /\ m_writtenBytes' >= m_writtenBytes
  /\ m_finished => m_writtenBytes' = m_writtenBytes
  /\ isFinished => UNCHANGED <<reported, reporter>>
  /\ m_started => m_started'
  /\ ~m_started /\ m_started' => ~isFinished /\ reporter' # "destructor"
  /\ m_size' = m_size \/ (m_size = -1 /\ ~m_started /\ m_started')

LEMMA FaithfulIsAbstract ==
  ASSUME IndInv, IndInv', Faithful
  PROVE  [Promise!TransferNext]_<<status, m_size, m_writtenBytes>>
<1>. USE DEF Faithful
<1>1. /\ KJobFacts /\ KJobFacts'
      /\ m_size' \in -1..MaxBytes /\ m_writtenBytes' \in m_writtenBytes..MaxBytes
      /\ m_writtenBytes' \in 0..MaxBytes
      /\ m_started \in BOOLEAN /\ m_started' \in BOOLEAN
  <2>1. KJobFacts /\ KJobFacts'
    BY DEF IndInv, TypeOK, Connected, KJobFacts
  <2>2. /\ m_size' \in -1..MaxBytes /\ m_writtenBytes' \in 0..MaxBytes
        /\ m_writtenBytes \in Nat /\ m_started \in BOOLEAN /\ m_started' \in BOOLEAN
    BY DEF IndInv, TypeOK
  <2>3. m_writtenBytes' \in m_writtenBytes..MaxBytes
    BY <2>2
  <2>. QED BY <2>1, <2>2, <2>3
<1>2. /\ status = "pending" <=> reporter = "nobody" /\ ~m_started
      /\ status = "running" <=> reporter = "nobody" /\ m_started
      /\ status = "abandoned" <=> reporter = "destructor"
      /\ status \in {"succeeded", "failed"} => reporter \in {"job", "kill"}
      /\ status = "succeeded" => reported = NoError
      /\ status \in {"pending", "running", "succeeded", "failed", "abandoned"}
  BY <1>1 DEF status, KJobFacts
<1>3. /\ status' = "pending" <=> reporter' = "nobody" /\ ~m_started'
      /\ status' = "running" <=> reporter' = "nobody" /\ m_started'
      /\ status' = "abandoned" <=> reporter' = "destructor"
      /\ status' \in {"succeeded", "failed"} => reporter' \in {"job", "kill"}
      /\ status' = "succeeded" => reported' = NoError
      /\ status' \in {"pending", "running", "succeeded", "failed", "abandoned"}
  BY <1>1 DEF status, KJobFacts
<1>4. status' = "succeeded" => m_size' = -1 \/ m_writtenBytes' = m_size'
  BY <1>1, <1>3 DEF IndInv, SuccessIsComplete
<1>5. CASE status = "pending"
  <2>1. ~m_started /\ ~isFinished
    BY <1>1, <1>2, <1>5 DEF KJobFacts
  <2>2. IF m_size = -1 THEN m_size' \in -1..MaxBytes ELSE m_size' = m_size
    BY <1>1
  <2>3. CASE status' = "pending"
    <3>1. m_size' = m_size
      BY <1>3, <2>3
    <3>2. m_writtenBytes = 0 /\ m_writtenBytes' = 0
      BY <1>3, <2>1, <2>3 DEF IndInv, Connected
    <3>. QED BY <1>5, <2>3, <3>1, <3>2
  <2>4. CASE status' = "running"
    BY <1>1, <1>5, <2>2, <2>4 DEF Promise!TransferNext, Promise!Begin
  <2>5. CASE status' = "succeeded"
    BY <1>1, <1>4, <1>5, <2>2, <2>5 DEF Promise!TransferNext, Promise!Succeed
  <2>6. CASE status' = "failed"
    BY <1>1, <1>5, <2>2, <2>6 DEF Promise!TransferNext, Promise!Fail
  <2>7. CASE status' = "abandoned"
    <3>1. m_size' = m_size
      BY <1>3, <2>1, <2>7
    <3>. QED BY <1>1, <1>5, <2>7, <3>1 DEF Promise!TransferNext, Promise!Abandon
  <2>. QED BY <1>3, <2>3, <2>4, <2>5, <2>6, <2>7
<1>6. CASE status = "running"
  <2>1. m_started /\ m_started' /\ m_size' = m_size
    BY <1>2, <1>6
  <2>2. status' # "pending"
    BY <1>3, <2>1
  <2>3. CASE status' = "running"
    BY <1>1, <1>6, <2>1, <2>3 DEF Promise!TransferNext, Promise!Move
  <2>4. CASE status' = "succeeded"
    BY <1>1, <1>4, <1>6, <2>1, <2>4 DEF Promise!TransferNext, Promise!Succeed
  <2>5. CASE status' = "failed"
    BY <1>1, <1>6, <2>1, <2>5 DEF Promise!TransferNext, Promise!Fail
  <2>6. CASE status' = "abandoned"
    BY <1>1, <1>6, <2>1, <2>6 DEF Promise!TransferNext, Promise!Abandon
  <2>. QED BY <1>3, <2>2, <2>3, <2>4, <2>5, <2>6
<1>7. CASE status \in {"succeeded", "failed", "abandoned"}
  <2>1. isFinished
    BY <1>1, <1>2, <1>7 DEF KJobFacts
  <2>2. m_size' = m_size
    BY <2>1
  <2>3. status' = status
    BY <2>1, <1>1, <1>2, <1>7 DEF status
  <2>4. CASE status = "succeeded"
    <3>1. m_finished
      BY <1>2, <2>4 DEF IndInv, SuccessIsFinal
    <3>. QED BY <2>2, <2>3, <3>1
  <2>5. CASE status # "succeeded"
    BY <1>1, <1>7, <2>2, <2>3, <2>5 DEF Promise!TransferNext, Promise!Move
  <2>. QED BY <2>4, <2>5
<1>. QED BY <1>2, <1>5, <1>6, <1>7

-----------------------------------------------------------------------------
(* Each event is faithful.                                                 *)

LEMMA EndIsFirst ==
  ASSUME NEW e, NEW who, End(e, who), isFinished
  PROVE  UNCHANGED <<reported, reporter>>
BY DEF End

LEMMA PollIsFaithful ==
  ASSUME IndInv,
         NEW queued \in Nat, NEW have \in Nat, NEW out \in Nat,
         PollContext(have, out),
         Poll(queued, have, out),
         m_size' = m_size \/ (m_size = -1 /\ ~m_started)
  PROVE  Faithful
<1>1. m_started' /\ (~m_started => ~isFinished)
  BY DEF PollContext
<1>2. m_writtenBytes' >= m_writtenBytes /\ (m_finished => m_writtenBytes' = m_writtenBytes)
  <2>1. CASE m_finished
    <3>1. m_writtenBytes' = m_writtenBytes /\ m_writtenBytes >= m_writtenBytes
      BY <2>1 DEF Poll, IndInv, TypeOK
    <3>. QED BY <3>1
  <2>2. CASE ~m_finished
    BY <2>2, PollEffect DEF Pumped, PollContext, IndInv
  <2>. QED BY <2>1, <2>2
<1>3. /\ isFinished => UNCHANGED <<reported, reporter>>
      /\ ~m_started => reporter' # "destructor"
  <2>1. \/ UNCHANGED <<reported, reporter>>
        \/ \E e \in 0..2 : End(e, "job")
    <3>1. CASE m_finished
      BY <3>1 DEF Poll, kjobVars
    <3>2. CASE ~m_finished
      <4>1. PollFails(queued) \/ (PostPoll(queued) /\ EndCopy)
        BY <3>2, PollEffect DEF PollContext, IndInv
      <4>. QED BY <4>1 DEF PollFails, EndCopy, Finish, kjobVars, Failure, IndInv, TypeOK
    <3>. QED BY <3>1, <3>2
  <2>2. ~isFinished => reporter = "nobody"
    BY IndInvKJob DEF KJobFacts
  <2>. QED BY <1>1, <2>1, <2>2, EndIsFirst DEF End
<1>. QED BY <1>1, <1>2, <1>3 DEF Faithful

(* An event that moves no bytes and leaves the size alone.                 *)
LEMMA StillIsFaithful ==
  ASSUME IndInv, UNCHANGED <<m_size, m_started, m_writtenBytes>>,
         isFinished => UNCHANGED <<reported, reporter>>
  PROVE  Faithful
<1>1. m_writtenBytes' = m_writtenBytes /\ m_writtenBytes >= m_writtenBytes
  BY DEF IndInv, TypeOK
<1>. QED BY <1>1 DEF Faithful

LEMMA KillIsFaithful == ASSUME IndInv, Kill PROVE Faithful
<1>1. ~isFinished /\ ~m_finished /\ m_started /\ m_started' /\ m_size' = m_size
  BY DEF Kill, IndInv, Connected
<1>2. CASE UNCHANGED m_writtenBytes
  BY <1>1, <1>2, StillIsFaithful
<1>3. ASSUME NEW r \in ReadResults(avail, btw) \ {-1},
             NEW w \in {0} \cup (WriteResults(m_bufferSize + r) \ {-1}),
             Pump(r, w, avail, btw)
      PROVE  Faithful
  <2>1. m_bufferSize + r \in Nat
    BY ReadBound DEF IndInv, TypeOK
  <2>2. w \in Nat
    BY <2>1, WriteBound
  <2>3. m_writtenBytes' >= m_writtenBytes
    BY <1>3, <2>2 DEF Pump, IndInv, TypeOK
  <2>. QED BY <1>1, <2>3 DEF Faithful
<1>4. CASE Pump(0, 0, avail, btw)
  <2>1. m_writtenBytes' = m_writtenBytes
    BY <1>4 DEF Pump, IndInv, TypeOK
  <2>. QED BY <1>2, <2>1
<1>. QED BY <1>2, <1>3, <1>4 DEF Kill

LEMMA NextIsFaithful == ASSUME IndInv, [Next]_vars PROVE Faithful
<1>1. CASE Start
  BY <1>1, StillIsFaithful DEF Start, jobVars, kjobVars
<1>2. CASE DoStartRefused
  BY <1>2, StillIsFaithful, EndIsFirst DEF DoStartRefused, jobVars
<1>3. CASE DoStart
  <2>1. m_size' = m_size \/ (m_size = -1 /\ ~m_started)
    BY <1>3 DEF DoStart, IndInv, Connected
  <2>. QED BY <1>3, <2>1, DoStartContext, DoStartPolls, PollIsFaithful
<1>4. CASE QueuedPoll
  BY <1>4, QueuedPollContext, PollIsFaithful DEF QueuedPoll, IndInv, TypeOK
<1>5. ASSUME NEW n \in 1..MaxBytes, ReadyRead(n) PROVE Faithful
  <2>1. CASE m_started /\ source # "reply"
    BY <1>5, <2>1, ReadyReadContext, PollIsFaithful DEF ReadyRead, IndInv, TypeOK
  <2>2. CASE ~(m_started /\ source # "reply")
    BY <1>5, <2>2, StillIsFaithful DEF ReadyRead, kjobVars
  <2>. QED BY <2>1, <2>2
<1>6. ASSUME NEW n \in 1..MaxBytes, BytesWritten(n) PROVE Faithful
  BY <1>6, BytesWrittenContext, PollIsFaithful DEF BytesWritten, IndInv, TypeOK
<1>7. CASE ReadChannelFinished
  <2>1. CASE m_started
    BY <1>7, <2>1, ReadChannelFinishedContext, PollIsFaithful
    DEF ReadChannelFinished, IndInv, TypeOK
  <2>2. CASE ~m_started
    BY <1>7, <2>2, StillIsFaithful DEF ReadChannelFinished, kjobVars
  <2>. QED BY <2>1, <2>2
<1>8. CASE Tick
  BY <1>8, TickContext, PollIsFaithful DEF Tick, IndInv, TypeOK
<1>9. CASE Disconnected
  BY <1>9, StillIsFaithful, EndIsFirst DEF Disconnected, Finish
<1>10. CASE KillUnstarted
  BY <1>10, StillIsFaithful DEF KillUnstarted, jobVars
<1>11. CASE Kill
  BY <1>11, KillIsFaithful
<1>12. CASE DeferredDelete
  BY <1>12, StillIsFaithful DEF DeferredDelete, jobVars, kjobVars
<1>13. CASE Destroy
  BY <1>13, StillIsFaithful, EndIsFirst DEF Destroy, jobVars
<1>14. CASE UNCHANGED vars
  BY <1>14, StillIsFaithful DEF vars, jobVars, kjobVars
<1>. QED
  BY <1>1, <1>2, <1>3, <1>4, <1>5, <1>6, <1>7, <1>8, <1>9, <1>10, <1>11, <1>12, <1>13,
     <1>14 DEF Next

LEMMA InitIsAbstract == Init => Promise!TransferInit
BY DEF Init, Promise!TransferInit, status

(* The owner of a CopyJob may rely on Transfer: one outcome, announced     *)
(* once and never changed, success only for the announced number of bytes, *)
(* and nothing written after a success (copyjob.cpp and KJob together).    *)
THEOREM KeepsItsPromise == Spec => KeepsPromise
<1>1. Init => Promise!TransferInit
  BY InitIsAbstract
<1>2. IndInv /\ IndInv' /\ [Next]_vars
        => [Promise!TransferNext]_<<status, m_size, m_writtenBytes>>
  BY NextIsFaithful, FaithfulIsAbstract
<1>. QED BY <1>1, <1>2, Invariance, PTL
     DEF Spec, KeepsPromise, Promise!TransferSpec, Promise!transferVars

=============================================================================
