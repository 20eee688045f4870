-------------------------- MODULE Downloads_proofs --------------------------
(***************************************************************************)
(* Proofs about Downloads, for any number of jobs that compete for any     *)
(* names: DownloadsInv is inductive, because there is always a free path   *)
(* for a job that starts; that no file is overwritten follows from it.     *)
(***************************************************************************)
EXTENDS Downloads, FiniteSetTheorems, TLAPS

USE DownloadsAssumption

(* What the paths hold: a user's file has no high number, and a job's is   *)
(* where that job's destination says.                                      *)
FilesInv ==
  /\ \A p \in Paths : file[p] = UserFile => p[2] <= 1
  /\ \A p \in Paths, d \in Downloads :
       file[p] = d => dest[d] = p /\ status[d] \notin {"none", "pending"}

(* What holds of each job.                                                 *)
JobInv(d) ==
  /\ status[d] \in {"none", "pending"} => moved[d] = 0
  /\ status[d] = "pending" => \E n \in Names : dest[d] = <<n, 0>>
  /\ status[d] = "running" => dest[d] \in Paths /\ file[dest[d]] = d
  /\ status[d] \in {"none", "pending", "running"} => d \notin received /\ d \notin cancelled
  /\ d \in received => status[d] = "succeeded" /\ size[d] \in {-1, moved[d]}
  /\ d \in received /\ d \notin cancelled => dest[d] \in Paths /\ file[dest[d]] = d
  /\ summary[d] = "Download succeeded" => d \in received \/ status[d] = "abandoned"
  /\ summary[d] = "Downloading ..." <=> Unfinished(d)

DownloadsInv == TypeOK /\ FilesInv /\ \A d \in Downloads : JobInv(d)

-----------------------------------------------------------------------------
(* There is always a free path.                                            *)

(* A nonempty set of numbers up to n has a least element: the sets of its  *)
(* members below one of them are finite, and one of these sets is minimal. *)
LEMMA LeastElement ==
  ASSUME NEW n \in Nat, NEW S \in SUBSET (0..n), S # {}
  PROVE  \E i \in S : \A j \in S : i <= j
<1>. DEFINE below(i) == {j \in S : j < i}
            B == {below(i) : i \in S}
<1>1. IsFiniteSet(S)
  BY FS_Interval, FS_Subset, 0 \in Int, n \in Int
<1>2. B \subseteq FiniteSubsetsOf(S) /\ B # {}
  <2>1. ASSUME NEW i \in S PROVE below(i) \in FiniteSubsetsOf(S)
    <3>1. below(i) \in SUBSET S
      OBVIOUS
    <3>2. IsFiniteSet(below(i))
      BY ONLY <1>1, <3>1, FS_Subset
    <3>. QED BY <3>1, <3>2 DEF FiniteSubsetsOf
  <2>. HIDE DEF below
  <2>. QED BY ONLY <2>1, S # {}
<1>3. PICK U \in B : \A V \in B : <<V, U>> \notin StrictSubsetOrdering(S)
  <2>. HIDE DEF B
  <2>. QED BY <1>2, FS_StrictSubsetOrderingWellFounded, WFMin
<1>4. PICK i \in S : U = below(i)
  BY <1>3
<1>5. ASSUME NEW j \in S, j < i PROVE FALSE
  <2>1. \A k \in S : k \in Nat /\ (k < j => k < i)
    BY <1>5
  <2>2. j \in below(i) /\ j \notin below(j) /\ \A k \in below(j) : k \in below(i)
    BY ONLY <1>5, <2>1, S \subseteq 0..n, n \in Nat
  <2>3. <<below(j), below(i)>> \in StrictSubsetOrdering(S)
    BY <2>2 DEF StrictSubsetOrdering
  <2>. QED BY <1>3, <1>4, <2>3
<1>. QED BY <1>5

(* One of a name's paths is free: the user holds only low numbers, each    *)
(* job at most one number, and the job that asks for a path holds none.    *)
LEMMA SomePathIsFree ==
  ASSUME DownloadsInv, NEW d \in Downloads, status[d] = "pending", NEW n \in Names
  PROVE  \E i \in 0..MaxSuffix : file[<<n, i>>] = NoFile
<1>. DEFINE high == 2..MaxSuffix
            others == Downloads \ {d}
            owner == [i \in high |-> file[<<n, i>>]]
<1>1. SUFFICES ASSUME \A i \in 0..MaxSuffix : file[<<n, i>>] # NoFile PROVE FALSE
  OBVIOUS
<1>2. ASSUME NEW i \in high
      PROVE  file[<<n, i>>] \in others /\ dest[file[<<n, i>>]] = <<n, i>>
  <2>1. <<n, i>> \in Paths /\ i \in 0..MaxSuffix /\ ~(i <= 1)
    BY <1>2 DEF Paths
  <2>2. file[<<n, i>>] # UserFile
    BY <2>1 DEF DownloadsInv, FilesInv
  <2>3. file[<<n, i>>] \in Downloads
    BY <1>1, <2>1, <2>2 DEF DownloadsInv, TypeOK
  <2>. QED BY <2>1, <2>3 DEF DownloadsInv, FilesInv
<1>3. Cardinality(others) = Cardinality(Downloads) - 1 /\ IsFiniteSet(others)
  BY FS_RemoveElement
<1>4. Cardinality(Downloads) \in Nat /\ Cardinality(others) \in Nat
  BY <1>3, FS_CardinalityType
<1>5. MaxSuffix >= 2
  BY <1>3, <1>4
<1>6. IsFiniteSet(high) /\ Cardinality(high) = MaxSuffix - 1
  BY <1>5, FS_Interval
<1>7. PICK i \in high, j \in high : i # j /\ owner[i] = owner[j]
  <2>1. owner \in [high -> others]
    BY <1>2
  <2>2. Cardinality(others) < Cardinality(high)
    BY <1>3, <1>4, <1>6
  <2>. HIDE DEF owner, others, high
  <2>. QED BY <1>3, <1>6, <2>1, <2>2, FS_PigeonHole
<1>8. <<n, i>> = <<n, j>>
  BY <1>2, <1>7
<1>. QED BY <1>7, <1>8

(* nonexistingFile() gives a free path of the job's name.                  *)
LEMMA FreePath ==
  ASSUME DownloadsInv, NEW d \in Downloads, status[d] = "pending"
  PROVE  LET p == nonexistingFile(dest[d])
         IN  p \in Paths /\ file[p] = NoFile
<1>1. PICK n \in Names : dest[d] = <<n, 0>>
  BY DEF DownloadsInv, JobInv
<1>. DEFINE free == {i \in 0..MaxSuffix : file[<<n, i>>] = NoFile}
            first == CHOOSE i \in free : \A j \in free : i <= j
<1>2. first \in free
  <2>1. free # {} /\ free \in SUBSET (0..MaxSuffix)
    BY SomePathIsFree
  <2>2. \E i \in free : \A j \in free : i <= j
    <3>. HIDE DEF free
    <3>. QED BY <2>1, LeastElement
  <2>. QED BY <2>2
<1>3. nonexistingFile(dest[d]) = <<n, first>>
  <2>1. dest[d][1] = n
    BY <1>1
  <2>. QED BY <2>1, Zenon DEF nonexistingFile
<1>. HIDE DEF first
<1>. QED BY <1>2, <1>3 DEF Paths

-----------------------------------------------------------------------------
(* The end of a job, as its observers learn of it.                         *)

(* Job d ends with status st, the notification text and the receipts r.    *)
Told(d, st, text, r) ==
  /\ state' \in [Downloads -> {"none", "running", "finished", "canceled"}]
  /\ failed' \in [Downloads -> BOOLEAN]
  /\ status' = [status EXCEPT ![d] = st]
  /\ summary' = [summary EXCEPT ![d] = text]
  /\ received' = r

LEMMA ToldIsTyped ==
  ASSUME TypeOK, NEW d \in Downloads, NEW st \in {"succeeded", "failed"},
         NEW text \in {"Download succeeded", "Download failed"},
         NEW r \in {received, received \cup {d}}, Told(d, st, text, r)
  PROVE  /\ status' \in [Downloads -> {"none", "pending", "running", "succeeded", "failed",
                                       "abandoned"}]
         /\ summary' \in [Downloads -> {"none", "Downloading ...", "Download aborted",
                                        "Download succeeded", "Download failed"}]
         /\ state' \in [Downloads -> {"none", "running", "finished", "canceled"}]
         /\ failed' \in [Downloads -> BOOLEAN]
         /\ received' \in SUBSET Downloads
BY DEF Told, TypeOK

LEMMA SuccessIsTold ==
  ASSUME TypeOK, NEW d \in Downloads, Result(d, 0)
  PROVE  Told(d, "succeeded", "Download succeeded", received \cup {d})
<1>1. InfoState(0) = "finished" /\ Summary(0) = "Download succeeded"
  BY DEF InfoState, Summary
<1>2. status' = [status EXCEPT ![d] = "succeeded"] /\ received' = received \cup {d}
  BY DEF Result
<1>3. failed' \in [Downloads -> BOOLEAN]
  BY DEF Result, Finished, TypeOK
<1>. QED BY <1>1, <1>2, <1>3 DEF Result, Finished, TypeOK, Told

LEMMA FailureIsTold ==
  ASSUME TypeOK, NEW d \in Downloads, Result(d, 2)
  PROVE  Told(d, "failed", "Download failed", received)
<1>1. InfoState(2) = "finished" /\ Summary(2) = "Download failed"
  BY DEF InfoState, Summary
<1>2. status' = [status EXCEPT ![d] = "failed"] /\ received' = received
  BY DEF Result
<1>3. failed' \in [Downloads -> BOOLEAN]
  BY DEF Result, Finished, TypeOK
<1>. QED BY <1>1, <1>2, <1>3 DEF Result, Finished, TypeOK, Told

(* The step of a job leaves the others as they were.                       *)
OthersSame(d) ==
  \A c \in Downloads \ {d} :
    /\ UNCHANGED <<status[c], size[c], moved[c], dest[c], summary[c]>>
    /\ c \in received' <=> c \in received
    /\ c \in cancelled' <=> c \in cancelled

(* So does its end: it is told of that job alone.                          *)
LEMMA ToldOfOne ==
  ASSUME TypeOK, NEW d \in Downloads, NEW st, NEW text, NEW r \in {received, received \cup {d}},
         Told(d, st, text, r)
  PROVE  /\ status'[d] = st /\ summary'[d] = text /\ received' = r
         /\ \A c \in Downloads \ {d} :
              /\ status'[c] = status[c] /\ summary'[c] = summary[c]
              /\ c \in received' <=> c \in received
<1>1. /\ d \in DOMAIN status /\ d \in DOMAIN summary
      /\ DOMAIN status = Downloads /\ DOMAIN summary = Downloads
  BY DEF TypeOK
<1>2. /\ status' = [status EXCEPT ![d] = st] /\ summary' = [summary EXCEPT ![d] = text]
      /\ received' = r
  BY DEF Told
<1>. QED BY ONLY <1>1, <1>2, d \in Downloads, r \in {received, received \cup {d}}

(* What becomes of the files in the step of a job: nothing; a free path is *)
(* given to the job; or the job's own file is removed.                     *)
FilesStep(d) ==
  \/ file' = file
  \/ \E p \in Paths : /\ file[p] = NoFile /\ file' = [file EXCEPT ![p] = d]
                      /\ dest'[d] = p
  \/ /\ dest[d] \in Paths /\ dest'[d] = dest[d] /\ file[dest[d]] = d
     /\ file' = [file EXCEPT ![dest[d]] = NoFile]
     /\ d \in cancelled' \ cancelled

(* A job's destination moves only while the job has no file; a job with a  *)
(* file does not become new again.                                         *)
DestStep(d) ==
  /\ dest'[d] = dest[d] \/ status[d] \in {"none", "pending"}
  /\ status'[d] \in {"none", "pending"} => status[d] \in {"none", "pending"} /\ file' = file

LEMMA FilesInvStep ==
  ASSUME TypeOK, FilesInv, NEW d \in Downloads, OthersSame(d), FilesStep(d), DestStep(d)
  PROVE  FilesInv' /\ \A c \in Downloads \ {d}, p \in Paths : (file[p] = c) = (file'[p] = c)
<1>1. file \in [Paths -> {NoFile, UserFile} \cup Downloads] /\ NoFile # UserFile
  BY DEF TypeOK, NoFile, UserFile
<1>2. d # NoFile /\ d # UserFile /\ \A c \in Downloads : c # NoFile /\ c # UserFile
  OBVIOUS
<1>3. \A p \in Paths : file'[p] # file[p]
        => \/ file[p] = NoFile /\ file'[p] = d /\ dest'[d] = p
           \/ file[p] = d /\ file'[p] = NoFile
  BY <1>1, <1>2 DEF FilesStep
<1>4. ASSUME NEW p \in Paths, file'[p] = UserFile PROVE p[2] <= 1
  BY <1>1, <1>2, <1>3, <1>4 DEF FilesInv
<1>5. ASSUME NEW p \in Paths, NEW c \in Downloads, file'[p] = c
      PROVE  dest'[c] = p /\ status'[c] \notin {"none", "pending"}
  <2>1. CASE c # d
    <3>1. file[p] = c
      BY <1>2, <1>3, <1>5, <2>1
    <3>. QED BY <2>1, <3>1 DEF FilesInv, OthersSame
  <2>2. CASE c = d /\ file[p] = d
    <3>1. dest[d] = p /\ status[d] \notin {"none", "pending"}
      BY <2>2 DEF FilesInv
    <3>. QED BY <2>2, <3>1 DEF DestStep
  <2>3. CASE c = d /\ file[p] # d
    <3>1. file'[p] # file[p] /\ dest'[d] = p
      BY <1>2, <1>3, <1>5, <2>3
    <3>. QED BY <2>3, <3>1 DEF DestStep
  <2>. QED BY <2>1, <2>2, <2>3
<1>6. ASSUME NEW c \in Downloads \ {d}, NEW p \in Paths PROVE (file[p] = c) = (file'[p] = c)
  BY <1>2, <1>3, <1>6
<1>. QED BY <1>4, <1>5, <1>6 DEF FilesInv

(* So only the job that takes the step can lose what holds of it.          *)
LEMMA OthersKeepInv ==
  ASSUME DownloadsInv, NEW d \in Downloads, OthersSame(d), FilesStep(d), DestStep(d)
  PROVE  \A c \in Downloads \ {d} : JobInv(c)'
<1>. SUFFICES ASSUME NEW c \in Downloads \ {d} PROVE JobInv(c)'
  OBVIOUS
<1>1. JobInv(c) /\ dest[c] \in Paths \cup {NoPath}
  BY DEF DownloadsInv, TypeOK
<1>2. \A p \in Paths : (file[p] = c) = (file'[p] = c)
  BY FilesInvStep DEF DownloadsInv
<1>3. /\ UNCHANGED <<status[c], size[c], moved[c], dest[c], summary[c]>>
      /\ c \in received' <=> c \in received
      /\ c \in cancelled' <=> c \in cancelled
  BY DEF OthersSame
<1>. QED BY <1>1, <1>2, <1>3 DEF JobInv, Unfinished

-----------------------------------------------------------------------------
(* The steps of one job.                                                   *)

GoodStep(d) == TypeOK' /\ OthersSame(d) /\ FilesStep(d) /\ DestStep(d) /\ JobInv(d)'

LEMMA ReceivePacketIsGood ==
  ASSUME DownloadsInv, NEW d \in Downloads, NEW n \in Names, NEW s \in -1..MaxBytes,
         ReceivePacket(d, n, s)
  PROVE  GoodStep(d)
<1>1. /\ TypeOK /\ JobInv(d) /\ status[d] = "none"
      /\ status' = [status EXCEPT ![d] = "pending"]
      /\ size' = [size EXCEPT ![d] = s]
      /\ dest' = [dest EXCEPT ![d] = <<n, 0>>]
      /\ state' = [state EXCEPT ![d] = "running"]
      /\ target' = [target EXCEPT ![d] = <<n, 0>>]
      /\ summary' = [summary EXCEPT ![d] = "Downloading ..."]
      /\ UNCHANGED <<plugin, file, moved, failed, received, cancelled>>
  BY DEF DownloadsInv, ReceivePacket, registerJob, JobInfo, getTarget, addJob
<1>2. <<n, 0>> \in Paths
  <2>1. 0 \in 0..MaxSuffix
    BY ONLY DownloadsAssumption
  <2>. QED BY ONLY <2>1, n \in Names DEF Paths
<1>3. TypeOK'
  BY <1>1, <1>2 DEF TypeOK
<1>4. OthersSame(d) /\ FilesStep(d) /\ DestStep(d)
  BY <1>1 DEF OthersSame, FilesStep, DestStep, TypeOK
<1>5. JobInv(d)'
  <2>1. /\ status'[d] = "pending" /\ moved'[d] = moved[d] /\ dest'[d] = <<n, 0>>
        /\ summary'[d] = "Downloading ..."
    BY <1>1 DEF TypeOK
  <2>. QED BY <1>1, <2>1 DEF JobInv, Unfinished
<1>. QED BY <1>3, <1>4, <1>5 DEF GoodStep

(* A start that fails before the file is created.                          *)
LEMMA FailedStartIsGood ==
  ASSUME DownloadsInv, NEW d \in Downloads, DoStartNoFolder(d) \/ DoStartNoFile(d)
  PROVE  GoodStep(d)
<1>1. /\ TypeOK /\ JobInv(d) /\ status[d] = "pending"
      /\ UNCHANGED <<plugin, size, target, cancelled, file, moved>>
  BY DEF DownloadsInv, DoStartNoFolder, DoStartNoFile, requestVars
<1>2. Told(d, "failed", "Download failed", received)
  BY <1>1, FailureIsTold DEF DoStartNoFolder, DoStartNoFile
<1>3. \E p \in Paths \cup {NoPath} : dest' = [dest EXCEPT ![d] = p]
  <2>1. CASE DoStartNoFolder(d)
    <3>1. dest \in [Downloads -> Paths \cup {NoPath}] /\ dest' = dest
      BY <1>1, <2>1 DEF DoStartNoFolder, TypeOK
    <3>2. dest[d] \in Paths \cup {NoPath} /\ dest' = [dest EXCEPT ![d] = dest[d]]
      BY ONLY <3>1, d \in Downloads
    <3>. QED BY <3>2
  <2>2. CASE DoStartNoFile(d)
    BY <1>1, <2>2, FreePath DEF DoStartNoFile
  <2>. QED BY <2>1, <2>2
<1>4. TypeOK'
  <2>1. dest \in [Downloads -> Paths \cup {NoPath}]
    BY <1>1 DEF TypeOK
  <2>2. dest' \in [Downloads -> Paths \cup {NoPath}]
    BY ONLY <1>3, <2>1, d \in Downloads
  <2>. QED BY <1>1, <1>2, <2>2, ToldIsTyped DEF TypeOK
<1>5. /\ status'[d] = "failed" /\ summary'[d] = "Download failed" /\ received' = received
      /\ \A c \in Downloads \ {d} : status'[c] = status[c] /\ summary'[c] = summary[c]
  BY <1>1, <1>2, ToldOfOne
<1>6. OthersSame(d)
  <2>1. \A c \in Downloads \ {d} : dest'[c] = dest[c]
    BY <1>1, <1>3 DEF TypeOK
  <2>. QED BY <1>1, <1>5, <2>1 DEF OthersSame
<1>7. FilesStep(d) /\ DestStep(d)
  BY <1>1, <1>5 DEF FilesStep, DestStep
<1>8. JobInv(d)'
  BY <1>1, <1>5 DEF JobInv, Unfinished
<1>. QED BY <1>4, <1>6, <1>7, <1>8 DEF GoodStep

LEMMA DoStartIsGood ==
  ASSUME DownloadsInv, NEW d \in Downloads, NEW m \in 0..MaxBytes, DoStart(d, m)
  PROVE  GoodStep(d)
<1>. DEFINE p == nonexistingFile(dest[d])
<1>1. /\ TypeOK /\ JobInv(d) /\ status[d] = "pending"
      /\ dest' = [dest EXCEPT ![d] = p] /\ file' = [file EXCEPT ![p] = d]
      /\ moved' = [moved EXCEPT ![d] = m] /\ UNCHANGED <<plugin, size, target, cancelled>>
  BY DEF DownloadsInv, DoStart, requestVars
<1>2. p \in Paths /\ file[p] = NoFile
  BY <1>1, FreePath
<1>. HIDE DEF p
<1>3. \/ /\ status' = [status EXCEPT ![d] = "running"]
         /\ UNCHANGED <<state, failed, summary, received>>
      \/ size[d] \in {-1, m} /\ Told(d, "succeeded", "Download succeeded", received \cup {d})
      \/ Told(d, "failed", "Download failed", received)
  BY <1>1, SuccessIsTold, FailureIsTold DEF DoStart, Ends
<1>4. TypeOK'
  <2>1. /\ dest' \in [Downloads -> Paths \cup {NoPath}]
        /\ file' \in [Paths -> {NoFile, UserFile} \cup Downloads]
        /\ moved' \in [Downloads -> 0..MaxBytes]
    BY <1>1, <1>2 DEF TypeOK
  <2>2. CASE status' = [status EXCEPT ![d] = "running"] /\ UNCHANGED <<state, failed, summary, received>>
    BY <1>1, <2>1, <2>2 DEF TypeOK
  <2>3. CASE Told(d, "succeeded", "Download succeeded", received \cup {d})
    BY <1>1, <2>1, <2>3, ToldIsTyped DEF TypeOK
  <2>4. CASE Told(d, "failed", "Download failed", received)
    BY <1>1, <2>1, <2>4, ToldIsTyped DEF TypeOK
  <2>. QED BY <1>3, <2>2, <2>3, <2>4
<1>5. /\ dest'[d] = p /\ file'[p] = d /\ moved'[d] = m
      /\ \A c \in Downloads \ {d} : dest'[c] = dest[c] /\ moved'[c] = moved[c]
  BY <1>1, <1>2 DEF TypeOK
<1>6. /\ OthersSame(d)
      /\ \/ status'[d] = "running" /\ summary'[d] = summary[d] /\ received' = received
         \/ /\ size[d] \in {-1, m} /\ received' = received \cup {d}
            /\ status'[d] = "succeeded" /\ summary'[d] = "Download succeeded"
         \/ /\ received' = received
            /\ status'[d] = "failed" /\ summary'[d] = "Download failed"
  <2>1. CASE status' = [status EXCEPT ![d] = "running"] /\ UNCHANGED <<state, failed, summary, received>>
    <3>1. status'[d] = "running" /\ \A c \in Downloads \ {d} : status'[c] = status[c]
      BY <1>1, <2>1 DEF TypeOK
    <3>. QED BY <1>1, <1>5, <2>1, <3>1 DEF OthersSame
  <2>2. CASE size[d] \in {-1, m} /\ Told(d, "succeeded", "Download succeeded", received \cup {d})
    <3>1. /\ status'[d] = "succeeded" /\ summary'[d] = "Download succeeded"
          /\ received' = received \cup {d}
          /\ \A c \in Downloads \ {d} : status'[c] = status[c] /\ summary'[c] = summary[c]
      BY <1>1, <2>2, ToldOfOne
    <3>. QED BY <1>1, <1>5, <2>2, <3>1 DEF OthersSame
  <2>3. CASE Told(d, "failed", "Download failed", received)
    <3>1. /\ status'[d] = "failed" /\ summary'[d] = "Download failed" /\ received' = received
          /\ \A c \in Downloads \ {d} : status'[c] = status[c] /\ summary'[c] = summary[c]
      BY <1>1, <2>3, ToldOfOne
    <3>. QED BY <1>1, <1>5, <3>1 DEF OthersSame
  <2>. QED BY <1>3, <2>1, <2>2, <2>3
<1>7. FilesStep(d) /\ DestStep(d)
  BY <1>1, <1>2, <1>5, <1>6 DEF FilesStep, DestStep
<1>8. JobInv(d)'
  BY <1>1, <1>2, <1>5, <1>6 DEF JobInv, Unfinished
<1>. QED BY <1>4, <1>6, <1>7, <1>8 DEF GoodStep

LEMMA CopyIsGood ==
  ASSUME DownloadsInv, NEW d \in Downloads, NEW m \in 0..MaxBytes, Copy(d, m)
  PROVE  GoodStep(d)
<1>1. /\ TypeOK /\ JobInv(d) /\ status[d] = "running"
      /\ moved' = [moved EXCEPT ![d] = m]
      /\ UNCHANGED <<plugin, size, target, cancelled, file, dest>>
  BY DEF DownloadsInv, Copy, requestVars
<1>2. \/ UNCHANGED <<status, state, failed, summary, received>>
      \/ size[d] \in {-1, m} /\ Told(d, "succeeded", "Download succeeded", received \cup {d})
      \/ Told(d, "failed", "Download failed", received)
  BY <1>1, SuccessIsTold, FailureIsTold DEF Copy, Ends
<1>3. TypeOK'
  BY <1>1, <1>2 DEF Told, TypeOK
<1>4. /\ OthersSame(d) /\ moved'[d] = m
      /\ \/ UNCHANGED <<status, summary, received>>
         \/ /\ size[d] \in {-1, m} /\ received' = received \cup {d}
            /\ status'[d] = "succeeded" /\ summary'[d] = "Download succeeded"
         \/ /\ received' = received
            /\ status'[d] = "failed" /\ summary'[d] = "Download failed"
  <2>1. moved'[d] = m /\ \A c \in Downloads \ {d} : moved'[c] = moved[c]
    BY <1>1 DEF TypeOK
  <2>2. CASE UNCHANGED <<status, state, failed, summary, received>>
    BY <1>1, <2>1, <2>2 DEF OthersSame
  <2>3. CASE size[d] \in {-1, m} /\ Told(d, "succeeded", "Download succeeded", received \cup {d})
    BY <1>1, <2>1, <2>3, ToldOfOne DEF OthersSame
  <2>4. CASE Told(d, "failed", "Download failed", received)
    BY <1>1, <2>1, <2>4, ToldOfOne DEF OthersSame
  <2>. QED BY <1>2, <2>2, <2>3, <2>4
<1>5. FilesStep(d) /\ DestStep(d)
  BY <1>1, <1>4 DEF FilesStep, DestStep
<1>6. JobInv(d)'
  BY <1>1, <1>4 DEF JobInv, Unfinished
<1>. QED BY <1>3, <1>4, <1>5, <1>6 DEF GoodStep

LEMMA CopyAfterFailureIsGood ==
  ASSUME DownloadsInv, NEW d \in Downloads, NEW m \in 0..MaxBytes, CopyAfterFailure(d, m)
  PROVE  GoodStep(d)
<1>1. /\ TypeOK /\ JobInv(d) /\ status[d] = "failed"
      /\ moved' = [moved EXCEPT ![d] = m]
      /\ UNCHANGED <<plugin, size, target, cancelled, file, status, dest, state, failed,
                     summary, received>>
  BY DEF DownloadsInv, CopyAfterFailure, requestVars
<1>2. TypeOK' /\ OthersSame(d) /\ FilesStep(d) /\ DestStep(d)
  BY <1>1 DEF TypeOK, OthersSame, FilesStep, DestStep
<1>3. JobInv(d)'
  BY <1>1 DEF JobInv, Unfinished
<1>. QED BY <1>2, <1>3 DEF GoodStep

LEMMA CancelIsGood ==
  ASSUME DownloadsInv, NEW d \in Downloads, NEW m \in 0..MaxBytes, Cancel(d, m)
  PROVE  GoodStep(d)
<1>1. /\ TypeOK /\ JobInv(d) /\ status[d] = "running"
      /\ moved' = [moved EXCEPT ![d] = m]
      /\ file' = [file EXCEPT ![dest[d]] = NoFile]
      /\ cancelled' = cancelled \cup {d}
      /\ UNCHANGED <<plugin, size, target, dest>>
  BY DEF DownloadsInv, Cancel
<1>2. \/ size[d] \in {-1, m} /\ Told(d, "succeeded", "Download succeeded", received \cup {d})
      \/ Told(d, "failed", "Download failed", received)
  BY <1>1, SuccessIsTold, FailureIsTold DEF Cancel, Ends
<1>3. dest[d] \in Paths /\ file[dest[d]] = d /\ d \notin cancelled
  BY <1>1 DEF JobInv
<1>4. TypeOK'
  BY <1>1, <1>2 DEF Told, TypeOK
<1>5. moved'[d] = m /\ \A c \in Downloads \ {d} : moved'[c] = moved[c]
  BY <1>1 DEF TypeOK
<1>6. /\ OthersSame(d)
      /\ \/ /\ size[d] \in {-1, m} /\ received' = received \cup {d}
            /\ status'[d] = "succeeded" /\ summary'[d] = "Download succeeded"
         \/ /\ received' = received
            /\ status'[d] = "failed" /\ summary'[d] = "Download failed"
  <2>1. CASE size[d] \in {-1, m} /\ Told(d, "succeeded", "Download succeeded", received \cup {d})
    BY <1>1, <1>5, <2>1, ToldOfOne DEF OthersSame
  <2>2. CASE Told(d, "failed", "Download failed", received)
    BY <1>1, <1>5, <2>2, ToldOfOne DEF OthersSame
  <2>. QED BY <1>2, <2>1, <2>2
<1>7. FilesStep(d) /\ DestStep(d)
  BY <1>1, <1>3, <1>5, <1>6 DEF FilesStep, DestStep
<1>8. JobInv(d)'
  BY <1>1, <1>5, <1>6 DEF JobInv, Unfinished
<1>. QED BY <1>4, <1>6, <1>7, <1>8 DEF GoodStep

-----------------------------------------------------------------------------
(* The comings and goings of the plugin.                                   *)

LEMMA PluginDeletedKeepsInv == ASSUME DownloadsInv, PluginDeleted PROVE DownloadsInv'
<1>1. InfoState(0) = "finished" /\ Summary(0) = "Download succeeded"
  BY DEF InfoState, Summary
<1>2. /\ TypeOK /\ FilesInv
      /\ UNCHANGED <<file, size, moved, dest, target, received, cancelled>>
  BY DEF DownloadsInv, PluginDeleted
<1>3. /\ plugin' = FALSE
      /\ status' = [d \in Downloads |-> IF Unfinished(d) THEN "abandoned" ELSE status[d]]
      /\ state' = [d \in Downloads |-> IF Unfinished(d) THEN "finished" ELSE state[d]]
      /\ summary' = [d \in Downloads |-> IF Unfinished(d) THEN "Download succeeded" ELSE summary[d]]
  BY <1>1 DEF PluginDeleted, Finished
<1>4. failed' \in [Downloads -> BOOLEAN]
  BY <1>2 DEF PluginDeleted, Finished, TypeOK
<1>5. TypeOK'
  BY <1>2, <1>3, <1>4 DEF TypeOK
<1>6. \A d \in Downloads :
        /\ Unfinished(d) => status'[d] = "abandoned" /\ summary'[d] = "Download succeeded"
        /\ ~Unfinished(d) => status'[d] = status[d] /\ summary'[d] = summary[d]
  BY <1>2, <1>3 DEF TypeOK
<1>7. FilesInv'
  BY <1>2, <1>6 DEF FilesInv, Unfinished
<1>8. ASSUME NEW d \in Downloads PROVE JobInv(d)'
  <2>1. JobInv(d)
    BY DEF DownloadsInv
  <2>. QED BY <1>2, <1>6, <2>1 DEF JobInv, Unfinished
<1>. QED BY <1>5, <1>7, <1>8 DEF DownloadsInv

LEMMA SameJobsKeepInv ==
  ASSUME DownloadsInv, plugin' \in BOOLEAN,
         UNCHANGED <<file, status, size, moved, dest, state, failed, target, summary, received,
                     cancelled>>
  PROVE  DownloadsInv'
<1>1. TypeOK' /\ FilesInv'
  BY DEF DownloadsInv, TypeOK, FilesInv
<1>2. ASSUME NEW d \in Downloads PROVE JobInv(d)'
  BY DEF DownloadsInv, JobInv, Unfinished
<1>. QED BY <1>1, <1>2 DEF DownloadsInv

-----------------------------------------------------------------------------
(* The inductive invariant.                                                *)

(* A step of some job, and no other.                                       *)
JobStep(d) ==
  \/ \E n \in Names, s \in -1..MaxBytes : ReceivePacket(d, n, s)
  \/ DoStartNoFolder(d) \/ DoStartNoFile(d)
  \/ \E m \in 0..MaxBytes : DoStart(d, m) \/ Copy(d, m) \/ CopyAfterFailure(d, m) \/ Cancel(d, m)

LEMMA JobStepIsGood == ASSUME DownloadsInv, NEW d \in Downloads, JobStep(d) PROVE GoodStep(d)
BY ReceivePacketIsGood, FailedStartIsGood, DoStartIsGood, CopyIsGood, CopyAfterFailureIsGood,
   CancelIsGood DEF JobStep

LEMMA NextIsStep ==
  ASSUME [Next]_vars
  PROVE  \/ \E d \in Downloads : JobStep(d)
         \/ PluginDeleted \/ PluginLoaded \/ UNCHANGED vars
BY DEF Next, JobStep

LEMMA InitInv == Init => DownloadsInv
<1>. SUFFICES ASSUME Init PROVE DownloadsInv
  OBVIOUS
<1>1. TypeOK
  BY DEF Init, TypeOK
<1>2. FilesInv
  <2>1. file \in [Paths -> {NoFile, UserFile}] /\ \A p \in Paths : file[p] = UserFile => p[2] <= 1
    BY DEF Init
  <2>. QED BY <2>1 DEF FilesInv
<1>3. ASSUME NEW d \in Downloads PROVE JobInv(d)
  BY DEF Init, JobInv, Unfinished
<1>. QED BY <1>1, <1>2, <1>3 DEF DownloadsInv

LEMMA NextInv == ASSUME DownloadsInv, [Next]_vars PROVE DownloadsInv'
<1>1. ASSUME NEW d \in Downloads, JobStep(d) PROVE DownloadsInv'
  <2>1. GoodStep(d)
    BY <1>1, JobStepIsGood
  <2>2. FilesInv'
    BY <2>1, FilesInvStep DEF GoodStep, DownloadsInv
  <2>3. \A c \in Downloads : JobInv(c)'
    BY <2>1, OthersKeepInv DEF GoodStep
  <2>. QED BY <2>1, <2>2, <2>3 DEF GoodStep, DownloadsInv
<1>2. CASE PluginDeleted
  BY <1>2, PluginDeletedKeepsInv
<1>3. CASE PluginLoaded \/ UNCHANGED vars
  <2>1. plugin' \in BOOLEAN
    BY <1>3 DEF PluginLoaded, vars, DownloadsInv, TypeOK
  <2>. QED BY <1>3, <2>1, SameJobsKeepInv DEF PluginLoaded, vars
<1>. QED BY <1>1, <1>2, <1>3, NextIsStep

THEOREM Invariance == Spec => []DownloadsInv
BY InitInv, NextInv, PTL DEF Spec

-----------------------------------------------------------------------------
(* The theorems.                                                           *)

(* The state keeps its types: whatever the names, nonexistingFile() gives  *)
(* a path, and every file belongs to the user or to a job.                 *)
THEOREM TypeCorrectness == Spec => []TypeOK
BY Invariance, PTL DEF DownloadsInv

(* A path announced with shareReceived holds that download, whole if its   *)
(* size was announced, and stays so (SharePlugin::finished).               *)
THEOREM ReceivedStay == Spec => []ReceivedFilesStay
<1>1. DownloadsInv => ReceivedFilesStay
  <2>. SUFFICES ASSUME DownloadsInv, NEW d \in Downloads, d \in received
                PROVE  /\ size[d] >= 0 => moved[d] = size[d]
                       /\ d \notin cancelled => file[dest[d]] = d
    BY DEF ReceivedFilesStay, DownloadsInv, TypeOK
  <2>1. size[d] \in {-1, moved[d]} /\ (d \notin cancelled => file[dest[d]] = d)
    BY DEF DownloadsInv, JobInv
  <2>. QED BY <2>1
<1>. QED BY <1>1, Invariance, PTL

(* A note of success is about a received download, or about one that its   *)
(* plugin left behind; a job that is over has no note of progress          *)
(* (JobsNotificator::jobChanged).                                          *)
THEOREM NotesTrue == Spec => []NotesAreTrue
<1>1. DownloadsInv => NotesAreTrue
  BY DEF DownloadsInv, JobInv, NotesAreTrue
<1>. QED BY <1>1, Invariance, PTL

(* No file is overwritten, and only a cancellation removes one, its own    *)
(* (nonexistingFile, DownloadJob::doStart and doKill).                     *)
THEOREM FilesAreKept == Spec => FilesKept
<1>1. ASSUME DownloadsInv, [Next]_vars, NEW p \in Paths, file[p] # NoFile, file'[p] # file[p]
      PROVE  file'[p] = NoFile /\ file[p] \in cancelled' \ cancelled
  <2>1. ~(PluginDeleted \/ PluginLoaded \/ UNCHANGED vars)
    BY <1>1 DEF PluginDeleted, PluginLoaded, vars
  <2>2. PICK d \in Downloads : JobStep(d)
    BY <1>1, <2>1, NextIsStep
  <2>3. FilesStep(d) /\ TypeOK
    BY <1>1, <2>2, JobStepIsGood DEF GoodStep, DownloadsInv
  <2>4. file \in [Paths -> {NoFile, UserFile} \cup Downloads]
    BY <2>3 DEF TypeOK
  <2>. QED BY <1>1, <2>3, <2>4 DEF FilesStep
<1>2. DownloadsInv /\ [Next]_vars
        => [\A p \in Paths : file[p] # NoFile /\ file'[p] # file[p]
              => file'[p] = NoFile /\ file[p] \in cancelled' \ cancelled]_vars
  BY <1>1
<1>. QED BY <1>2, Invariance, PTL DEF Spec, FilesKept

=============================================================================
