-------------------------- MODULE SftpServer_proofs --------------------------
(***************************************************************************)
(* Proofs about SftpServer.tla and the file operations of SftpFiles.tla,   *)
(* for any number of channels, paths, addresses and handles: a handle      *)
(* stands for what was opened under it, a listing is complete, at most one *)
(* acknowledged write is unsaved, and a refused request does next to       *)
(* nothing.                                                                *)
(***************************************************************************)
EXTENDS SftpServer, SequenceTheorems, FiniteSetTheorems, TLAPS

(* A handle that is in use names a live object of its own session, which   *)
(* no other handle of that session names.                                  *)
HandlesOwn ==
  \A c \in Channel, h \in Slot :
    /\ slots[c][h] = None <=> meant[c][h] = None
    /\ slots[c][h] # None =>
         /\ objects[slots[c][h]].of = c /\ objects[slots[c][h]].kind # "free"
         /\ objects[slots[c][h]].name = meant[c][h]
         /\ \A s \in Slot : slots[c][s] = slots[c][h] => s = h

(* What the files' tables keep between two requests.                       *)
FilesInv == FilesTypeOK /\ HandlesOwn /\ ListingComplete /\ OneUnsavedWrite

(* The rest of the connection: a client that may try again has tries left. *)
TriesLeft == m_connected => m_leftTries # 0

IInv == FilesInv /\ TypeOK /\ TriesLeft

-----------------------------------------------------------------------------
(* The operators of SftpFiles.                                             *)

LEMMA NamesAreNames ==
  ASSUME NEW raw \in RawName
  PROVE  getFilename(raw) \in Name /\ getFilename(raw) # None
BY SftpAssumption DEF RawName, Name, getFilename

(* An address that a handle of a session leads to is one of the session's. *)
LEMMA FindsOwn ==
  ASSUME FilesTypeOK, NEW c \in Channel, NEW h \in Slot, NEW kind \in {"file", "dir"},
         findHandle(c, h, kind) # None
  PROVE  /\ findHandle(c, h, kind) = slots[c][h] /\ slots[c][h] \in Addr
         /\ objects[slots[c][h]].of = c /\ objects[slots[c][h]].kind = kind
BY DEF FilesTypeOK, findHandle

LEMMA AnswerType ==
  ASSUME NEW status, Answer(status)
  PROVE  reply' \in [renamed: Name \cup {None}, refused: BOOLEAN]
<1>1. (status \in Refusals) \in BOOLEAN
  OBVIOUS
<1> QED
  BY <1>1 DEF Answer

(* Where nothing is open, closed, read or written, only the reply and the  *)
(* file system have to be of their types.                                  *)
LEMMA TablesKept ==
  ASSUME FilesInv, UNCHANGED tables, fs' \in [Name -> Entry],
         reply' \in [renamed: Name \cup {None}, refused: BOOLEAN]
  PROVE  FilesInv'
BY DEF FilesInv, FilesTypeOK, HandlesOwn, ListingComplete, OneUnsavedWrite, tables

LEMMA TellKeeps ==
  ASSUME FilesInv, NEW status, Tell(status)
  PROVE  FilesInv'
<1>1. fs' \in [Name -> Entry]
  BY DEF FilesInv, FilesTypeOK, Tell
<1>2. UNCHANGED tables
  BY DEF Tell
<1>3. reply' \in [renamed: Name \cup {None}, refused: BOOLEAN]
  BY AnswerType DEF Tell
<1> QED
  BY <1>1, <1>2, <1>3, TablesKept


(* A file or directory that stays what it is keeps its handle.             *)
LEMMA ObjectChanges ==
  ASSUME FilesInv, NEW a \in Addr, NEW o \in Object,
         o.of = objects[a].of, o.kind = objects[a].kind, o.name = objects[a].name,
         o.done => o.left = {}, o.unsaved <= 1,
         objects' = [objects EXCEPT ![a] = o], UNCHANGED <<fs, slots, meant>>,
         reply' \in [renamed: Name \cup {None}, refused: BOOLEAN]
  PROVE  FilesInv'
<1> USE DEF FilesInv, FilesTypeOK
<1>1. FilesTypeOK'
  OBVIOUS
<1>2. HandlesOwn'
  BY DEF HandlesOwn
<1>3. ListingComplete' /\ OneUnsavedWrite'
  BY DEF ListingComplete, OneUnsavedWrite
<1> QED
  BY <1>1, <1>2, <1>3

(* A new object is given a free address and a free handle, or no handle.   *)
LEMMA NewHandleKeeps ==
  ASSUME FilesInv, NEW c \in Channel, NEW o \in Object,
         o.of = c, o.kind # "free", o.name # None, ~o.done, o.unsaved = 0,
         NewHandle(c, o), fs' \in [Name -> Entry]
  PROVE  FilesInv'
<1>1. PICK a \in Addr :
        /\ objects[a].kind = "free" /\ objects' = [objects EXCEPT ![a] = o]
        /\ \/ UNCHANGED <<slots, meant>>
           \/ \E h \in Slot :
                /\ slots[c][h] = None
                /\ slots' = [slots EXCEPT ![c][h] = a]
                /\ meant' = [meant EXCEPT ![c][h] = o.name]
        /\ reply' \in [renamed: Name \cup {None}, refused: BOOLEAN]
  BY AnswerType DEF NewHandle
<1>2. objects' \in [Addr -> Object]
  BY <1>1 DEF FilesInv, FilesTypeOK
<1>3. o.name \in Name
  BY DEF Object
<1>4. a # None
  BY SftpAssumption
<1>5. CASE UNCHANGED <<slots, meant>>
  <2>1. FilesTypeOK'
    BY <1>1, <1>2, <1>5 DEF FilesInv, FilesTypeOK
  <2>2. HandlesOwn'
    BY <1>1, <1>5 DEF FilesInv, FilesTypeOK, HandlesOwn
  <2> QED
    BY <1>1, <2>1, <2>2 DEF FilesInv, FilesTypeOK, ListingComplete, OneUnsavedWrite
<1>6. CASE \E h \in Slot :
             /\ slots[c][h] = None
             /\ slots' = [slots EXCEPT ![c][h] = a]
             /\ meant' = [meant EXCEPT ![c][h] = o.name]
  <2>1. PICK h \in Slot :
          /\ slots[c][h] = None
          /\ slots' = [slots EXCEPT ![c][h] = a]
          /\ meant' = [meant EXCEPT ![c][h] = o.name]
    BY <1>6
  <2>2. FilesTypeOK'
    BY <1>1, <1>2, <1>3, <2>1 DEF FilesInv, FilesTypeOK
  <2>3. HandlesOwn'
    <3> SUFFICES ASSUME NEW d \in Channel, NEW s \in Slot
                 PROVE  /\ slots'[d][s] = None <=> meant'[d][s] = None
                        /\ slots'[d][s] # None =>
                             /\ objects'[slots'[d][s]].of = d /\ objects'[slots'[d][s]].kind # "free"
                             /\ objects'[slots'[d][s]].name = meant'[d][s]
                             /\ \A t \in Slot : slots'[d][t] = slots'[d][s] => t = s
      BY DEF HandlesOwn
    <3>1. CASE d = c /\ s = h
      BY <1>1, <1>4, <2>1, <3>1 DEF FilesInv, FilesTypeOK, HandlesOwn
    <3>2. CASE ~(d = c /\ s = h)
      <4>1. slots'[d][s] = slots[d][s] /\ meant'[d][s] = meant[d][s]
        BY <2>1, <3>2 DEF FilesInv, FilesTypeOK
      <4>2. slots[d][s] # a
        BY <1>1, <1>4 DEF FilesInv, HandlesOwn
      <4>3. slots[d][s] # None => objects'[slots[d][s]] = objects[slots[d][s]]
        BY <1>1, <4>2 DEF FilesInv, FilesTypeOK
      <4>4. \A t \in Slot : slots'[d][t] = slots[d][t] \/ (d = c /\ t = h /\ slots'[d][t] = a)
        BY <2>1 DEF FilesInv, FilesTypeOK
      <4> QED
        BY <4>1, <4>2, <4>3, <4>4 DEF FilesInv, HandlesOwn
    <3> QED
      BY <3>1, <3>2
  <2> QED
    BY <1>1, <2>2, <2>3 DEF FilesInv, FilesTypeOK, ListingComplete, OneUnsavedWrite
<1> QED
  BY <1>1, <1>5, <1>6

(* A handle that is closed takes its object along, and no other handle's.  *)
LEMMA CloseKeeps ==
  ASSUME FilesInv, NEW c \in Channel, NEW h \in Slot, replyClose(c, h)
  PROVE  FilesInv'
<1>1. CASE \E status : Tell(status)
  BY <1>1, TellKeeps
<1>2. CASE ~\E status : Tell(status)
  <2> DEFINE a == slots[c][h]
  <2>1. /\ a # None /\ objects' = [objects EXCEPT ![a] = Free]
        /\ slots' = [slots EXCEPT ![c][h] = None]
        /\ meant' = [meant EXCEPT ![c][h] = None]
        /\ Answer("OK") /\ UNCHANGED fs
    BY <1>2 DEF replyClose
  <2>2. a \in Addr
    BY <2>1 DEF FilesInv, FilesTypeOK
  <2>3. Free \in Object
    BY DEF Free, Opened, Object
  <2>4. FilesTypeOK'
    BY <2>1, <2>2, <2>3, AnswerType DEF FilesInv, FilesTypeOK
  <2>5. HandlesOwn'
    <3> SUFFICES ASSUME NEW d \in Channel, NEW s \in Slot
                 PROVE  /\ slots'[d][s] = None <=> meant'[d][s] = None
                        /\ slots'[d][s] # None =>
                             /\ objects'[slots'[d][s]].of = d /\ objects'[slots'[d][s]].kind # "free"
                             /\ objects'[slots'[d][s]].name = meant'[d][s]
                             /\ \A t \in Slot : slots'[d][t] = slots'[d][s] => t = s
      BY DEF HandlesOwn
    <3>1. CASE d = c /\ s = h
      BY <2>1, <3>1 DEF FilesInv, FilesTypeOK
    <3>2. CASE ~(d = c /\ s = h)
      <4>1. slots'[d][s] = slots[d][s] /\ meant'[d][s] = meant[d][s]
        BY <2>1, <3>2 DEF FilesInv, FilesTypeOK
      <4>2. slots[d][s] # None => slots[d][s] # a
        BY <2>1, <3>2 DEF FilesInv, HandlesOwn
      <4>3. slots[d][s] # None => objects'[slots[d][s]] = objects[slots[d][s]]
        BY <2>1, <4>2 DEF FilesInv, FilesTypeOK
      <4>4. \A t \in Slot : slots'[d][t] \in {slots[d][t], None}
        BY <2>1 DEF FilesInv, FilesTypeOK
      <4> QED
        BY <4>1, <4>3, <4>4 DEF FilesInv, HandlesOwn
    <3> QED
      BY <3>1, <3>2
  <2>6. ListingComplete' /\ OneUnsavedWrite'
    BY <2>1, <2>2 DEF FilesInv, FilesTypeOK, ListingComplete, OneUnsavedWrite, Free, Opened
  <2> QED
    BY <2>4, <2>5, <2>6 DEF FilesInv
<1> QED
  BY <1>1, <1>2

(* A session that goes takes all that is its own, and nothing else.        *)
LEMMA ReleaseKeeps ==
  ASSUME FilesInv, NEW c \in Channel, Release(c)
  PROVE  FilesInv'
<1> USE DEF FilesInv, FilesTypeOK, Release
<1>1. Free \in Object
  BY DEF Free, Opened, Object
<1>2. FilesTypeOK'
  BY <1>1
<1>3. HandlesOwn'
  BY DEF HandlesOwn
<1>4. ListingComplete' /\ OneUnsavedWrite'
  BY DEF ListingComplete, OneUnsavedWrite, Free, Opened
<1> QED
  BY <1>2, <1>3, <1>4

(* The requests that read and write open files and directories.            *)
LEMMA ReadDirKeeps ==
  ASSUME FilesInv, NEW c \in Channel, NEW h \in Slot, replyReadDir(c, h)
  PROVE  FilesInv'
<1> DEFINE a == findHandle(c, h, "dir")
           left == objects[a].left
<1>1. CASE Tell("INVALID_HANDLE")
  BY <1>1, TellKeeps
<1>2. CASE /\ a # None /\ left = {}
           /\ objects' = [objects EXCEPT ![a].done = TRUE]
           /\ Answer("EOF") /\ UNCHANGED <<fs, slots, meant>>
  <2> DEFINE o == [objects[a] EXCEPT !.done = TRUE]
  <2>1. a \in Addr /\ objects[a] \in Object
    BY <1>2, FindsOwn DEF FilesInv, FilesTypeOK
  <2>2. /\ o \in Object /\ o.of = objects[a].of /\ o.kind = objects[a].kind
        /\ o.name = objects[a].name /\ o.left = {} /\ o.unsaved <= 1
    BY <1>2, <2>1 DEF Object, FilesInv, OneUnsavedWrite
  <2>3. objects' = [objects EXCEPT ![a] = o]
    BY <1>2
  <2> QED
    BY <1>2, <2>1, <2>2, <2>3, AnswerType, ObjectChanges
<1>3. CASE /\ a # None /\ left # {}
           /\ \E told \in SUBSET left : objects' = [objects EXCEPT ![a].left = left \ told]
           /\ Answer("NAMES") /\ UNCHANGED <<fs, slots, meant>>
  <2>1. PICK told \in SUBSET left : objects' = [objects EXCEPT ![a].left = left \ told]
    BY <1>3
  <2> DEFINE o == [objects[a] EXCEPT !.left = left \ told]
  <2>2. a \in Addr /\ objects[a] \in Object
    BY <1>3, FindsOwn DEF FilesInv, FilesTypeOK
  <2>3. /\ o \in Object /\ o.of = objects[a].of /\ o.kind = objects[a].kind
        /\ o.name = objects[a].name /\ (o.done => o.left = {}) /\ o.unsaved <= 1
    BY <2>2 DEF Object, FilesInv, ListingComplete, OneUnsavedWrite
  <2>4. objects' = [objects EXCEPT ![a] = o]
    BY <2>1
  <2> QED
    BY <1>3, <2>2, <2>3, <2>4, AnswerType, ObjectChanges
<1> QED
  BY <1>1, <1>2, <1>3 DEF replyReadDir

(* What is buffered of a file changes, to none or one write.               *)
LEMMA UnsavedKeeps ==
  ASSUME FilesInv, NEW c \in Channel, NEW h \in Slot, NEW n \in {0, 1}, NEW status, Answer(status),
         findHandle(c, h, "file") # None,
         objects' = [objects EXCEPT ![findHandle(c, h, "file")].unsaved = n],
         UNCHANGED <<fs, slots, meant>>
  PROVE  FilesInv'
<1> DEFINE a == findHandle(c, h, "file")
           o == [objects[a] EXCEPT !.unsaved = n]
<1>1. a \in Addr /\ objects[a] \in Object
  BY FindsOwn DEF FilesInv, FilesTypeOK
<1>2. /\ o \in Object /\ o.of = objects[a].of /\ o.kind = objects[a].kind
      /\ o.name = objects[a].name /\ (o.done => o.left = {}) /\ o.unsaved <= 1
  BY <1>1 DEF Object, FilesInv, ListingComplete
<1>3. objects' = [objects EXCEPT ![a] = o]
  OBVIOUS
<1> QED
  BY <1>1, <1>2, <1>3, AnswerType, ObjectChanges

LEMMA ReadWriteKeeps ==
  ASSUME FilesInv, NEW c \in Channel, NEW h \in Slot, replyReadFile(c, h) \/ replyWriteFile(c, h)
  PROVE  FilesInv'
<1> DEFINE a == findHandle(c, h, "file")
<1>1. CASE \E status : Tell(status)
  BY <1>1, TellKeeps
<1>2. CASE ~\E status : Tell(status)
  <2>1. \E n \in {0, 1} :
          /\ a # None /\ objects' = [objects EXCEPT ![a].unsaved = n]
          /\ \E status : Answer(status)
          /\ UNCHANGED <<fs, slots, meant>>
    BY <1>2 DEF replyReadFile, replyWriteFile
  <2> QED
    BY <2>1, UnsavedKeeps
<1> QED
  BY <1>1, <1>2

(* Opening a directory or a file.                                          *)
LEMMA OpenedType ==
  ASSUME NEW c \in Channel, NEW kind \in {"file", "dir"}, NEW p \in Name, NEW listed \in SUBSET Path
  PROVE  /\ Opened(c, kind, p, listed) \in Object
         /\ Opened(c, kind, p, listed).of = c /\ Opened(c, kind, p, listed).kind # "free"
         /\ Opened(c, kind, p, listed).name # None
         /\ ~Opened(c, kind, p, listed).done /\ Opened(c, kind, p, listed).unsaved = 0
BY SftpAssumption DEF Object, Opened, Name

LEMMA OpenDirKeeps ==
  ASSUME FilesInv, NEW c \in Channel, NEW raw \in RawName, replyOpenDir(c, raw)
  PROVE  FilesInv'
<1> DEFINE p == getFilename(raw)
           listed == IF Resolved(p) = Root THEN {q \in Path : KindOf(q) # "none"} ELSE {}
           o == Opened(c, "dir", p, listed)
<1>1. CASE \E status : Tell(status)
  BY <1>1, TellKeeps
<1>2. CASE NewHandle(c, o) /\ UNCHANGED fs
  <2>0. listed \in SUBSET Path
    OBVIOUS
  <2>1. /\ o \in Object /\ o.of = c /\ o.kind # "free" /\ o.name # None /\ ~o.done /\ o.unsaved = 0
    BY <2>0, NamesAreNames, OpenedType
  <2>2. fs' \in [Name -> Entry]
    BY <1>2 DEF FilesInv, FilesTypeOK
  <2> QED
    BY <1>2, <2>1, <2>2, NewHandleKeeps
<1> QED
  BY <1>1, <1>2 DEF replyOpenDir

LEMMA OpenFileKeeps ==
  ASSUME FilesInv, NEW c \in Channel, NEW raw \in RawName, NEW flags, replyOpenFile(c, raw, flags)
  PROVE  FilesInv'
<1> DEFINE p == getFilename(raw)
           o == Opened(c, "file", p, {})
<1>1. CASE Tell("FAILURE")
  BY <1>1, TellKeeps
<1>2. CASE /\ CanOpen(p, flags)
           /\ fs' = [fs EXCEPT ![Resolved(p)].kind = "file"]
           /\ NewHandle(c, o)
  <2>1. /\ o \in Object /\ o.of = c /\ o.kind # "free" /\ o.name # None /\ ~o.done /\ o.unsaved = 0
    BY NamesAreNames, OpenedType
  <2>2. Resolved(p) \in Name /\ fs[Resolved(p)].kind # "link"
    BY <1>2, NamesAreNames DEF CanOpen, Resolved, IsLink, KindOf, FilesInv, FilesTypeOK, Entry
  <2>3. [fs[Resolved(p)] EXCEPT !.kind = "file"] \in Entry
    BY <2>2 DEF FilesInv, FilesTypeOK, Entry
  <2>4. fs' \in [Name -> Entry]
    BY <1>2, <2>2, <2>3 DEF FilesInv, FilesTypeOK
  <2> QED
    BY <1>2, <2>1, <2>4, NewHandleKeeps
<1> QED
  BY <1>1, <1>2 DEF replyOpenFile

(* The operations on names change the file system alone.                   *)
LEMMA EntriesOfNames ==
  ASSUME FilesInv, NEW p \in Name
  PROVE  Without(p) \in [Name -> Entry]
<1>1. Nothing \in Entry
  BY DEF Nothing, Entry
<1> QED
  BY <1>1 DEF Without, FilesInv, FilesTypeOK

LEMMA RemoveKeeps ==
  ASSUME FilesInv, NEW raw \in RawName, replyRemove(raw) \/ replyRemoveDir(raw)
  PROVE  FilesInv'
<1>1. CASE Tell("FAILURE")
  BY <1>1, TellKeeps
<1>2. CASE fs' = Without(getFilename(raw)) /\ Answer("OK") /\ UNCHANGED tables
  BY <1>2, NamesAreNames, EntriesOfNames, AnswerType, TablesKept
<1> QED
  BY <1>1, <1>2 DEF replyRemove, replyRemoveDir

LEMMA MakeDirKeeps ==
  ASSUME FilesInv, NEW raw \in RawName, replyMakeDir(raw)
  PROVE  FilesInv'
<1> DEFINE p == getFilename(raw)
<1>1. CASE \E status : Tell(status)
  BY <1>1, TellKeeps
<1>2. CASE KindOf(p) = "none" /\ fs' = [fs EXCEPT ![p].kind = "dir"] /\ Answer("OK") /\ UNCHANGED tables
  <2>1. p \in Name /\ fs[p] \in Entry
    BY NamesAreNames DEF FilesInv, FilesTypeOK
  <2>2. [fs[p] EXCEPT !.kind = "dir"] \in Entry
    BY <1>2, <2>1 DEF KindOf, Entry
  <2>3. fs' \in [Name -> Entry]
    BY <1>2, <2>1, <2>2 DEF FilesInv, FilesTypeOK
  <2> QED
    BY <1>2, <2>3, AnswerType, TablesKept
<1> QED
  BY <1>1, <1>2 DEF replyMakeDir

LEMMA RenameKeeps ==
  ASSUME FilesInv, NEW from \in RawName, NEW to \in RawName, replyRename(from, to)
  PROVE  FilesInv'
<1> DEFINE source == getFilename(from)
           target == getFilename(to)
           left == IF Exists(target) THEN Without(target) ELSE fs
<1>1. source \in Name /\ target \in Name
  BY NamesAreNames
<1>2. left \in [Name -> Entry]
  BY <1>1, EntriesOfNames DEF FilesInv, FilesTypeOK
<1>3. Nothing \in Entry
  BY DEF Nothing, Entry
<1>4. fs' \in [Name -> Entry] /\ UNCHANGED tables
      /\ reply' \in [renamed: Name \cup {None}, refused: BOOLEAN]
  <2>1. UNCHANGED tables /\ \E status : reply' = [renamed |-> source, refused |-> status \in Refusals]
    BY DEF replyRename
  <2>2. \A status : (status \in Refusals) \in BOOLEAN
    OBVIOUS
  <2>3. fs' \in {fs, left, [left EXCEPT ![target] = left[source], ![source] = Nothing]}
    BY DEF replyRename
  <2>4. [left EXCEPT ![target] = left[source], ![source] = Nothing] \in [Name -> Entry]
    <3> HIDE DEF left
    <3> QED
      BY <1>1, <1>2, <1>3
  <2>5. fs' \in [Name -> Entry]
    BY <1>2, <2>3, <2>4 DEF FilesInv, FilesTypeOK
  <2> QED
    BY <1>1, <2>1, <2>2, <2>5
<1> QED
  BY <1>4, TablesKept

LEMMA SymlinkKeeps ==
  ASSUME FilesInv, NEW to \in RawName, NEW raw \in RawName, replySymlink(to, raw)
  PROVE  FilesInv'
<1> DEFINE entry == [kind |-> "link", to |-> getFilename(to)]
<1>1. CASE Tell("FAILURE")
  BY <1>1, TellKeeps
<1>2. CASE fs' = [fs EXCEPT ![getFilename(raw)] = entry] /\ Answer("OK") /\ UNCHANGED tables
  <2>1. entry \in Entry
    BY NamesAreNames DEF Entry
  <2>2. fs' \in [Name -> Entry]
    BY <1>2, <2>1, NamesAreNames DEF FilesInv, FilesTypeOK
  <2> QED
    BY <1>2, <2>2, AnswerType, TablesKept
<1> QED
  BY <1>1, <1>2 DEF replySymlink

(* Whatever a client asks for.                                             *)
LEMMA MessageKeeps ==
  ASSUME FilesInv, NEW c \in Channel, readMessage(c)
  PROVE  FilesInv'
<1>1. CASE \E status : Tell(status)
  BY <1>1, TellKeeps
<1>2. CASE \E p \in RawName : replyOpenDir(c, p)
  BY <1>2, OpenDirKeeps
<1>3. CASE \E h \in Slot : replyReadDir(c, h)
  BY <1>3, ReadDirKeeps
<1>4. CASE \E p \in RawName, flags \in OpenFlags : replyOpenFile(c, p, flags)
  BY <1>4, OpenFileKeeps
<1>5. CASE \E h \in Slot : replyReadFile(c, h) \/ replyWriteFile(c, h)
  BY <1>5, ReadWriteKeeps
<1>6. CASE \E h \in Slot : replyClose(c, h)
  BY <1>6, CloseKeeps
<1>7. CASE \E p \in RawName : replyRemove(p) \/ replyRemoveDir(p)
  BY <1>7, RemoveKeeps
<1>8. CASE \E p \in RawName : replyMakeDir(p)
  BY <1>8, MakeDirKeeps
<1>9. CASE \E p, q \in RawName : replyRename(p, q)
  BY <1>9, RenameKeeps
<1>10. CASE \E p, q \in RawName : replySymlink(p, q)
  BY <1>10, SymlinkKeeps
<1>11. replyUnsupported => \E status : Tell(status)
  BY DEF replyUnsupported
<1>12. \A p \in RawName : replyReadLink(p) \/ replyRealPath(p) \/ replyStat(p, FALSE) \/ replyStat(p, TRUE)
         => \E status : Tell(status)
  BY DEF replyReadLink, replyRealPath, replyStat
<1> QED
  BY <1>1, <1>2, <1>3, <1>4, <1>5, <1>6, <1>7, <1>8, <1>9, <1>10, <1>11, <1>12 DEF readMessage

-----------------------------------------------------------------------------
(* The connection.                                                         *)

LEMMA InitInv == Init => IInv
<1> SUFFICES ASSUME Init PROVE IInv
  OBVIOUS
<1>1. FilesTypeOK
  <2>1. fs \in [Name -> Entry]
    <3>1. [kind: {"none", "file", "dir"}, to: {None}] \subseteq Entry
      BY DEF Entry
    <3> QED
      BY <3>1 DEF Init, FilesInit
  <2>2. Free \in Object
    BY DEF Free, Opened, Object
  <2> QED
    BY <2>1, <2>2 DEF Init, FilesInit, FilesTypeOK
<1>2. HandlesOwn
  BY DEF Init, FilesInit, HandlesOwn
<1>3. ListingComplete /\ OneUnsavedWrite
  BY DEF Init, FilesInit, ListingComplete, OneUnsavedWrite, Free, Opened
<1>4. TypeOK
  <2>1. m_channels \in Seq([channel: Channel, sftp: BOOLEAN])
    BY DEF Init
  <2>2. m_leftTries \in 0..PasswordTries /\ requests \in 0..MaxRequests /\ at \in Nat \ {0} /\ end \in Nat
    BY ServerAssumption DEF Init
  <2> QED
    BY <1>1, <2>1, <2>2 DEF Init, TypeOK, Threads
<1>5. TriesLeft
  BY ServerAssumption DEF Init, TriesLeft
<1> QED
  BY <1>1, <1>2, <1>3, <1>4, <1>5 DEF IInv, FilesInv

LEMMA FilesRest ==
  ASSUME FilesInv, UNCHANGED filesVars
  PROVE  FilesInv'
BY TablesKept DEF filesVars, tables, FilesInv, FilesTypeOK

(* What takes a channel off the list.                                      *)
LEMMA RemoveAtType ==
  ASSUME NEW S, NEW s \in Seq(S), NEW i \in DOMAIN s
  PROVE  RemoveAt(s, i) \in Seq(S)
<1>1. /\ Len(s) \in Nat /\ DOMAIN s = 1 .. Len(s) /\ i \in Int
      /\ \A j \in 1 .. Len(s) : s[j] \in S
  OBVIOUS
<1>2. SubSeq(s, 1, i - 1) \in Seq(S)
  <2>1. \A j \in 1 .. i - 1 : s[j] \in S
    BY <1>1
  <2> QED
    BY <1>1, <2>1, SubSeqProperties
<1>3. SubSeq(s, i + 1, Len(s)) \in Seq(S)
  <2>1. \A j \in i + 1 .. Len(s) : s[j] \in S
    BY <1>1
  <2> QED
    BY <1>1, <2>1, SubSeqProperties
<1> QED
  BY <1>2, <1>3, ConcatProperties DEF RemoveAt

(* The loop reads a channel of the list.                                   *)
LEMMA ServedChannel ==
  ASSUME TypeOK, thread = "serving"
  PROVE  m_channels[at].channel \in Channel
<1> DEFINE Elem == [channel: Channel, sftp: BOOLEAN]
<1>1. m_channels \in Seq(Elem)
  BY DEF TypeOK
<1> HIDE DEF Elem
<1>2. Len(m_channels) \in Nat
  BY <1>1
<1>3. at \in 1 .. Len(m_channels)
  BY <1>2 DEF TypeOK
<1>4. m_channels[at] \in Elem
  BY <1>1, <1>3
<1> QED
  BY <1>4 DEF Elem

LEMMA NextInv == IInv /\ [Next]_vars => IInv'
<1> SUFFICES ASSUME IInv, [Next]_vars PROVE IInv'
  OBVIOUS
<1> DEFINE Elem == [channel: Channel, sftp: BOOLEAN]
<1>0. FilesInv /\ TypeOK /\ TriesLeft /\ m_channels \in Seq(Elem)
  BY DEF IInv, TypeOK
<1>1. CASE UNCHANGED vars
  BY <1>0, <1>1, FilesRest DEF vars, position, login, IInv, TypeOK, FilesInv, TriesLeft
<1>2. CASE KeyExchange
  BY <1>0, <1>2, FilesRest DEF KeyExchange, position, login, IInv, TypeOK, FilesInv, TriesLeft, Threads
<1>3. ASSUME NEW correct \in BOOLEAN, authorizeWithPassword(correct) PROVE IInv'
  <2>1. m_leftTries' \in 0..PasswordTries
    BY <1>0, <1>3, ServerAssumption DEF authorizeWithPassword, TypeOK, TriesLeft
  <2>2. m_connected' \in BOOLEAN /\ TriesLeft'
    BY <1>0, <1>3 DEF authorizeWithPassword, TriesLeft
  <2> QED
    BY <1>0, <1>3, <2>1, <2>2, FilesRest DEF authorizeWithPassword, position, IInv, TypeOK, FilesInv, Threads
<1>4. ASSUME NEW c \in Channel, createChannel(c) PROVE IInv'
  <2>1. m_channels' \in Seq(Elem) /\ Len(m_channels') = Len(m_channels) + 1
    BY <1>0, <1>4 DEF createChannel
  <2>2. Len(m_channels) \in Nat
    BY <1>0
  <2>3. end <= Len(m_channels) => end <= Len(m_channels')
    BY <1>0, <2>1, <2>2 DEF TypeOK
  <2>4. m_authenticated /\ thread' \in {thread, "broken"}
    BY <1>4 DEF createChannel
  <2> QED
    BY <1>0, <1>4, <2>1, <2>3, <2>4, FilesRest
      DEF createChannel, position, login, IInv, TypeOK, FilesInv, TriesLeft, Threads, Polling
<1>5. ASSUME NEW c \in Channel, startSftpSession(c) PROVE IInv'
  <2>1. CASE thread' = "aborted" /\ UNCHANGED <<filesVars, m_channels>>
    BY <1>0, <1>5, <2>1, FilesRest
      DEF startSftpSession, Polling, position, login, IInv, TypeOK, FilesInv, TriesLeft, Threads
  <2>2. CASE \E i \in getChannelIndex(c) :
               /\ m_channels' = [m_channels EXCEPT ![i].sftp = TRUE]
               /\ IF m_channels[i].sftp THEN Release(c) ELSE UNCHANGED filesVars
               /\ thread' = thread
    <3>1. PICK i \in getChannelIndex(c) :
               /\ m_channels' = [m_channels EXCEPT ![i].sftp = TRUE]
               /\ IF m_channels[i].sftp THEN Release(c) ELSE UNCHANGED filesVars
               /\ thread' = thread
      BY <2>2
    <3>2. FilesInv'
      BY <1>0, <3>1, FilesRest, ReleaseKeeps
    <3>3. i \in 1..Len(m_channels) /\ m_channels[i] \in Elem
      <4>1. i \in DOMAIN m_channels
        BY DEF getChannelIndex
      <4> HIDE DEF Elem
      <4> QED
        BY <1>0, <4>1
    <3>4. [m_channels[i] EXCEPT !.sftp = TRUE] \in Elem
      BY <3>3
    <3>5. m_channels' = [m_channels EXCEPT ![i] = [m_channels[i] EXCEPT !.sftp = TRUE]]
      BY <3>1
    <3>6. m_channels' \in Seq(Elem) /\ Len(m_channels') = Len(m_channels)
      BY <1>0, <3>3, <3>4, <3>5
    <3> QED
      BY <1>0, <1>5, <3>1, <3>2, <3>6
        DEF startSftpSession, position, login, IInv, TypeOK, FilesInv, TriesLeft
  <2> QED
    BY <1>5, <2>1, <2>2 DEF startSftpSession
<1>6. ASSUME NEW c \in Channel, otherSubsystem(c) PROVE IInv'
  BY <1>1, <1>6 DEF otherSubsystem
<1>7. ASSUME NEW c \in Channel, closeChannel(c) PROVE IInv'
  <2>1. FilesInv' /\ m_channels' \in Seq(Elem) /\ thread' \in Threads \ {"serving"}
    <3>1. CASE thread' = "aborted" /\ UNCHANGED <<filesVars, m_channels>>
      BY <1>0, <3>1, FilesRest DEF Threads
    <3>2. CASE \E i \in getChannelIndex(c) :
                 /\ m_channels' = RemoveAt(m_channels, i)
                 /\ Release(c)
                 /\ thread' = IF thread = "serving" THEN "broken" ELSE thread
      BY <1>0, <3>2, RemoveAtType, ReleaseKeeps DEF getChannelIndex, TypeOK, Threads
    <3> QED
      BY <1>7, <3>1, <3>2 DEF closeChannel
  <2> QED
    BY <1>0, <1>7, <2>1 DEF closeChannel, position, login, IInv, TypeOK, FilesInv, TriesLeft
<1>8. ASSUME NEW c \in Channel, ClientAsks(c) PROVE IInv'
  BY <1>0, <1>8, ServerAssumption, FilesRest DEF ClientAsks, position, login, IInv, TypeOK, FilesInv, TriesLeft
<1>9. CASE StartServing
  <2>1. Len(m_channels) \in Nat /\ 1 <= Len(m_channels)
    BY <1>0, <1>9 DEF StartServing, hasSftpChannel
  <2> QED
    BY <1>0, <2>1, <1>9, FilesRest DEF StartServing, position, login, IInv, TypeOK, FilesInv, TriesLeft, Threads
<1>10. CASE Serve
  <2>1. m_channels[at].channel \in Channel
    BY <1>0, <1>10, ServedChannel DEF Serve
  <2>2. FilesInv'
    BY <1>0, <1>10, <2>1, MessageKeeps DEF Serve
  <2>3. waited' \in [Channel -> Nat]
    BY <1>0, <1>10 DEF Serve, TypeOK
  <2>4. /\ at' \in Nat \ {0} /\ end' \in Nat
        /\ at' <= end' /\ end' <= Len(m_channels)
    <3>1. Len(m_channels) \in Nat /\ at \in Nat \ {0} /\ end \in Nat
      BY <1>0 DEF TypeOK
    <3>2. at <= end /\ end <= Len(m_channels)
      BY <1>0, <1>10 DEF Serve, TypeOK
    <3>3. at' = IF at = end THEN 1 ELSE at + 1
      BY <1>10 DEF Serve, NextAt
    <3>4. end' = IF at' = 1 THEN Len(m_channels) ELSE end
      BY <1>10 DEF Serve
    <3> QED
      BY <3>1, <3>2, <3>3, <3>4
  <2> QED
    BY <1>0, <1>10, <2>2, <2>3, <2>4 DEF Serve, position, login, IInv, TypeOK, FilesInv, TriesLeft
<1>11. CASE ReadUnready \/ ConnectionLost
  BY <1>0, <1>11, FilesRest
    DEF ReadUnready, ConnectionLost, position, login, IInv, TypeOK, FilesInv, TriesLeft, Threads
<1>12. CASE GoOnBroken
  <2>1. CASE thread' \in {"aborted", "ended"} /\ UNCHANGED <<position, waited>>
    BY <1>0, <1>12, <2>1, FilesRest
      DEF GoOnBroken, position, login, IInv, TypeOK, FilesInv, TriesLeft, Threads
  <2>2. CASE /\ m_channels # <<>> /\ thread' = "serving"
             /\ at' = 1 /\ end' = Len(m_channels)
             /\ waited' = [c \in Channel |-> 0]
    <3>1. Len(m_channels) \in Nat /\ 1 <= Len(m_channels)
      BY <1>0, <2>2
    <3> QED
      BY <1>0, <1>12, <2>2, <3>1, FilesRest
        DEF GoOnBroken, position, login, IInv, TypeOK, FilesInv, TriesLeft, Threads
  <2> QED
    BY <1>12, <2>1, <2>2 DEF GoOnBroken
<1> QED
  BY <1>1, <1>2, <1>3, <1>4, <1>5, <1>6, <1>7, <1>8, <1>9, <1>10, <1>11, <1>12 DEF Next

LEMMA Invariance == Spec => []IInv
BY InitInv, NextInv, PTL DEF Spec

(* Every variable keeps its type; in particular the loop of run() reads a  *)
(* channel that is in the list.                                            *)
THEOREM TypeCorrectness == Spec => []TypeOK
<1>1. IInv => TypeOK
  BY DEF IInv
<1> QED
  BY <1>1, Invariance, PTL

(* Whatever is opened, closed and ended, and however addresses and handles *)
(* are used again: a handle that the client was given and has not closed   *)
(* stands for what it opened.                                              *)
THEOREM HandlesKeepFiles == Spec => []HandleKeepsFile
<1>1. IInv => HandleKeepsFile
  BY DEF IInv, FilesInv, HandlesOwn, HandleKeepsFile
<1> QED
  BY <1>1, Invariance, PTL

(* replyReadDir tells the end of a listing after all of its entries.       *)
THEOREM ListingsComplete == Spec => []ListingComplete
<1>1. IInv => ListingComplete
  BY DEF IInv, FilesInv
<1> QED
  BY <1>1, Invariance, PTL

(* replyWriteFile leaves at most the last write of a file in its buffer.   *)
THEOREM WritesReachFile == Spec => []OneUnsavedWrite
<1>1. IInv => OneUnsavedWrite
  BY DEF IInv, FilesInv
<1> QED
  BY <1>1, Invariance, PTL

-----------------------------------------------------------------------------
(* Refused requests.                                                       *)

MayChange ==
  reply'.refused /\ fs' # fs =>
    /\ reply'.renamed # None /\ fs[reply'.renamed] # Nothing
    /\ \E p \in Name : fs' = Without(p)

(* Only a rename may fail halfway.                                         *)
LEMMA RenameChanges ==
  ASSUME NEW from \in RawName, NEW to \in RawName, replyRename(from, to)
  PROVE  MayChange
<1> DEFINE source == getFilename(from)
           target == getFilename(to)
<1>1. source # None /\ target \in Name
  BY NamesAreNames
<1>2. reply'.renamed = source
  BY DEF replyRename
<1>3. Exists(source) \/ IsLink(source) => fs[source] # Nothing
  BY DEF Exists, Resolved, IsLink, KindOf, Nothing
<1>4. fs' = fs \/ fs' = Without(target) \/ ~reply'.refused
  <2>1. \/ fs' = fs \/ fs' = Without(target)
        \/ reply' = [renamed |-> source, refused |-> "OK" \in Refusals]
    BY Zenon DEF replyRename
  <2>2. reply' = [renamed |-> source, refused |-> "OK" \in Refusals]
          => reply'.refused = ("OK" \in Refusals)
    OBVIOUS
  <2>3. "OK" \notin Refusals
    BY DEF Refusals
  <2> QED
    BY <2>1, <2>2, <2>3
<1>5. fs' = fs \/ Exists(source) \/ IsLink(source)
  BY DEF replyRename
<1> QED
  BY <1>1, <1>2, <1>3, <1>4, <1>5 DEF MayChange

(* All others do what they are asked, or nothing.                          *)
LEMMA MessageChanges ==
  ASSUME NEW c \in Channel, readMessage(c)
  PROVE  MayChange
<1>1. \A status : Answer(status) => reply'.refused = (status \in Refusals)
  BY DEF Answer
<1>2. {"OK", "HANDLE", "silent"} \cap Refusals = {}
  BY DEF Refusals
<1>3. CASE fs' = fs
  BY <1>3 DEF MayChange
<1>4. CASE Answer("OK") \/ Answer("HANDLE") \/ Answer("silent")
  BY <1>1, <1>2, <1>4 DEF MayChange
<1>5. CASE \E p, q \in RawName : replyRename(p, q)
  BY <1>5, RenameChanges
<1>6. \A p \in RawName :
        /\ replyOpenDir(c, p) => fs' = fs
        /\ replyReadLink(p) \/ replyRealPath(p) \/ replyStat(p, FALSE) \/ replyStat(p, TRUE) => fs' = fs
        /\ replyRemove(p) \/ replyMakeDir(p) \/ replyRemoveDir(p) => fs' = fs \/ Answer("OK")
        /\ \A q \in RawName : replySymlink(p, q) => fs' = fs \/ Answer("OK")
        /\ \A flags \in OpenFlags :
             replyOpenFile(c, p, flags) => fs' = fs \/ Answer("HANDLE") \/ Answer("silent")
  BY DEF replyOpenDir, replyReadLink, replyRealPath, replyStat, replyRemove, replyMakeDir,
         replyRemoveDir, replySymlink, replyOpenFile, NewHandle, Tell
<1>7. \A h \in Slot :
        replyReadDir(c, h) \/ replyReadFile(c, h) \/ replyWriteFile(c, h) \/ replyClose(c, h) => fs' = fs
  BY DEF replyReadDir, replyReadFile, replyWriteFile, replyClose, Tell
<1>8. replyUnsupported => fs' = fs
  BY DEF replyUnsupported, Tell
<1> QED
  BY <1>3, <1>4, <1>5, <1>6, <1>7, <1>8 DEF readMessage

(* A refused request has changed nothing, but for a rename, which may have *)
(* removed its target, and never if there was nothing to rename.           *)
THEOREM RefusalsChangeLittle == Spec => RefusedChangesLittle
<1>1. TypeOK /\ [Next]_vars => [MayChange]_filesVars
  <2> SUFFICES ASSUME TypeOK, [Next]_vars PROVE MayChange \/ UNCHANGED filesVars
    OBVIOUS
  <2>1. ASSUME NEW c \in Channel, startSftpSession(c) \/ closeChannel(c) PROVE MayChange
    BY <2>1 DEF startSftpSession, closeChannel, Release, filesVars, MayChange
  <2>2. CASE Serve
    <3>1. m_channels[at].channel \in Channel
      BY <2>2, ServedChannel DEF Serve
    <3> QED
      BY <2>2, <3>1, MessageChanges DEF Serve
  <2> QED
    BY <2>1, <2>2 DEF Next, vars, KeyExchange, authorizeWithPassword, createChannel, otherSubsystem,
                      ClientAsks, StartServing, ReadUnready, GoOnBroken, ConnectionLost
<1>2. RefusedChangesLittle <=> [][MayChange]_filesVars
  BY DEF RefusedChangesLittle, MayChange
<1> QED
  BY <1>1, <1>2, TypeCorrectness, PTL DEF Spec

-----------------------------------------------------------------------------
(* The turns of the channels.                                              *)

(* The requests of others that the loop serves before it comes to place i: *)
(* in this sweep, or after the rest of it in the next.                     *)
TurnsOf(a, e, i) == IF a <= i /\ i <= e THEN i - a ELSE e - a + i
Turns(i) == TurnsOf(at, end, i)

MostWaits == 2 * (Cardinality(Channel) - 1)

(* The list names each channel that asks, and none twice.                  *)
ListInv ==
  /\ \A i, j \in DOMAIN m_channels : m_channels[i].channel = m_channels[j].channel => i = j
  /\ \A i \in DOMAIN m_channels : m_channels[i].channel \in used
  /\ \A c \in asked : \E i \in DOMAIN m_channels : m_channels[i].channel = c

(* Who waits has waited for fewer than the loop will still put before him. *)
TurnsInv ==
  /\ thread \in {"keys", "waiting"} => \A c \in Channel : waited[c] = 0
  /\ \A c \in Channel : waited[c] <= MostWaits
  /\ thread = "serving" =>
       \A i \in DOMAIN m_channels :
         m_channels[i].channel \in asked => waited[m_channels[i].channel] + Turns(i) <= MostWaits

LEMMA Sequence ==
  ASSUME TypeOK
  PROVE  /\ Len(m_channels) \in Nat /\ DOMAIN m_channels = 1..Len(m_channels)
         /\ \A i \in DOMAIN m_channels : m_channels[i].channel \in Channel
<1>. DEFINE Elem == [channel: Channel, sftp: BOOLEAN]
<1>1. m_channels \in Seq(Elem)
  BY DEF TypeOK
<1>. HIDE DEF Elem
<1>2. Len(m_channels) \in Nat /\ DOMAIN m_channels = 1..Len(m_channels)
  BY <1>1
<1>3. \A i \in DOMAIN m_channels : m_channels[i] \in Elem
  BY <1>1, <1>2
<1>. QED BY <1>2, <1>3 DEF Elem

(* The list is no longer than there are channels.                          *)
LEMMA ListFits ==
  ASSUME TypeOK, ListInv
  PROVE  Len(m_channels) <= Cardinality(Channel) /\ Cardinality(Channel) \in Nat
<1>. DEFINE n == Len(m_channels)
            f == [i \in 1..n |-> m_channels[i].channel]
<1>1. n \in Nat /\ DOMAIN m_channels = 1..n
  BY Sequence
<1>2. f \in Injection(1..n, Channel)
  BY <1>1, Sequence DEF ListInv, Injection, IsInjective
<1>3. Cardinality(1..n) = n
  <2>. HIDE DEF n
  <2>1. 1 \in Int /\ n \in Int
    BY <1>1
  <2>2. Cardinality(1..n) = IF 1 > n THEN 0 ELSE n - 1 + 1
    BY <2>1, FS_Interval
  <2>. QED BY <1>1, <2>2
<1>. HIDE DEF f, n
<1>4. Cardinality(1..n) <= Cardinality(Channel)
  BY <1>2, ServerAssumption, FS_Injection
<1>. QED BY <1>3, <1>4, ServerAssumption, FS_CardinalityType DEF n

(* However the loop stands, no place is more than two sweeps away.         *)
LEMMA TurnsBound ==
  ASSUME TypeOK, ListInv, NEW i \in DOMAIN m_channels, NEW a \in Nat, NEW e \in Nat,
         1 <= a, a <= e, e <= Len(m_channels)
  PROVE  TurnsOf(a, e, i) <= MostWaits
<1>1. /\ i \in Nat /\ 1 <= i /\ i <= Len(m_channels) /\ Len(m_channels) \in Nat
      /\ Len(m_channels) <= Cardinality(Channel) /\ Cardinality(Channel) \in Nat
  BY Sequence, ListFits
<1>. QED BY <1>1 DEF TurnsOf, MostWaits

(* RemoveAt leaves the other elements, in their order.                     *)
LEMMA RemoveAtElements ==
  ASSUME NEW S, NEW s \in Seq(S), NEW i \in DOMAIN s
  PROVE  /\ DOMAIN RemoveAt(s, i) = 1 .. Len(s) - 1
         /\ \A j \in 1 .. Len(s) - 1 : RemoveAt(s, i)[j] = IF j < i THEN s[j] ELSE s[j + 1]
<1>1. /\ Len(s) \in Nat /\ DOMAIN s = 1 .. Len(s) /\ i \in 1 .. Len(s)
      /\ \A j \in 1 .. Len(s) : s[j] \in S
  OBVIOUS
<1>. DEFINE a == SubSeq(s, 1, i - 1)
            b == SubSeq(s, i + 1, Len(s))
<1>2. a \in Seq(S) /\ Len(a) = i - 1 /\ \A j \in 1 .. i - 1 : a[j] = s[j]
  <2>1. \A j \in 1 .. i - 1 : s[j] \in S
    BY <1>1
  <2>. QED BY <1>1, <2>1, SubSeqProperties
<1>3. b \in Seq(S) /\ Len(b) = Len(s) - i /\ \A j \in 1 .. Len(s) - i : b[j] = s[i + j]
  <2>1. \A j \in i + 1 .. Len(s) : s[j] \in S
    BY <1>1
  <2>. QED BY <1>1, <2>1, SubSeqProperties
<1>. HIDE DEF a, b
<1>4. /\ a \o b \in Seq(S) /\ Len(a \o b) = Len(s) - 1
      /\ \A j \in 1 .. Len(s) - 1 : (a \o b)[j] = IF j < i THEN a[j] ELSE b[j - (i - 1)]
  <2>1. /\ a \o b \in Seq(S) /\ Len(a \o b) = Len(a) + Len(b)
        /\ \A j \in 1 .. Len(a) + Len(b) :
             (a \o b)[j] = IF j <= Len(a) THEN a[j] ELSE b[j - Len(a)]
    BY <1>2, <1>3, ConcatProperties
  <2>2. /\ Len(a) = i - 1 /\ Len(a) + Len(b) = Len(s) - 1
        /\ \A j \in 1 .. Len(s) - 1 : j <= Len(a) <=> j < i
    BY <1>1, <1>2, <1>3
  <2>. QED BY <2>1, <2>2
<1>5. RemoveAt(s, i) = a \o b
  BY DEF RemoveAt, a, b
<1>6. ASSUME NEW j \in 1 .. Len(s) - 1, ~(j < i) PROVE b[j - (i - 1)] = s[j + 1]
  <2>1. j - (i - 1) \in 1 .. Len(s) - i /\ i + (j - (i - 1)) = j + 1
    BY <1>1, <1>6
  <2>. QED BY <1>3, <2>1
<1>7. \A j \in 1 .. Len(s) - 1 : j < i => a[j] = s[j]
  BY <1>1, <1>2
<1>8. DOMAIN (a \o b) = 1 .. Len(s) - 1
  BY <1>4
<1>. QED BY <1>4, <1>5, <1>6, <1>7, <1>8

(* The list as it was, and nobody who asks anew.                           *)
LEMMA SameList ==
  ASSUME ListInv, m_channels' = m_channels, used \subseteq used', asked' \subseteq asked
  PROVE  ListInv'
BY DEF ListInv

LEMMA NextListInv == ASSUME IInv, ListInv, [Next]_vars PROVE ListInv'
<1>1. /\ TypeOK /\ Len(m_channels) \in Nat /\ DOMAIN m_channels = 1..Len(m_channels)
      /\ m_channels \in Seq([channel: Channel, sftp: BOOLEAN])
  BY Sequence DEF IInv, TypeOK
<1>2. ASSUME NEW c \in Channel, createChannel(c) PROVE ListInv'
  <2>. DEFINE new == [channel |-> c, sftp |-> FALSE]
  <2>1. /\ m_channels' = Append(m_channels, new) /\ new.channel = c
        /\ c \notin used /\ used' = used \cup {c} /\ asked' = asked
    BY <1>2 DEF createChannel
  <2>. HIDE DEF new
  <2>2. /\ DOMAIN m_channels' = 1..Len(m_channels) + 1
        /\ \A i \in 1..Len(m_channels) : m_channels'[i] = m_channels[i]
        /\ m_channels'[Len(m_channels) + 1] = new
    BY <1>1, <2>1
  <2>. QED BY <1>1, <2>1, <2>2 DEF ListInv
<1>3. ASSUME NEW c \in Channel, startSftpSession(c) PROVE ListInv'
  <2>1. CASE m_channels' = m_channels
    BY <1>3, <2>1, SameList DEF startSftpSession
  <2>2. ASSUME NEW i \in getChannelIndex(c), m_channels' = [m_channels EXCEPT ![i].sftp = TRUE]
        PROVE  ListInv'
    <3>1. DOMAIN m_channels' = DOMAIN m_channels
      BY <2>2
    <3>2. \A j \in DOMAIN m_channels : m_channels'[j].channel = m_channels[j].channel
      BY <1>1, <2>2 DEF getChannelIndex
    <3>. QED BY <1>3, <3>1, <3>2 DEF startSftpSession, ListInv
  <2>. QED BY <1>3, <2>1, <2>2 DEF startSftpSession
<1>4. ASSUME NEW c \in Channel, closeChannel(c) PROVE ListInv'
  <2>1. CASE m_channels' = m_channels
    BY <1>4, <2>1, SameList DEF closeChannel
  <2>2. ASSUME NEW i \in getChannelIndex(c), m_channels' = RemoveAt(m_channels, i)
        PROVE  ListInv'
    <3>1. /\ i \in 1..Len(m_channels) /\ m_channels[i].channel = c
          /\ asked' = asked \ {c} /\ used' = used
      BY <1>1, <1>4 DEF closeChannel, getChannelIndex
    <3>. DEFINE from(j) == IF j < i THEN j ELSE j + 1
    <3>2. /\ DOMAIN m_channels' = 1..Len(m_channels) - 1
          /\ \A j \in DOMAIN m_channels' : m_channels'[j] = m_channels[from(j)]
      BY <1>1, <2>2, <3>1, RemoveAtElements
    <3>3. \A j \in DOMAIN m_channels' : from(j) \in DOMAIN m_channels
      BY <1>1, <3>1, <3>2
    <3>4. \A j, k \in DOMAIN m_channels' : from(j) = from(k) => j = k
      BY <1>1, <3>1, <3>2
    <3>5. ASSUME NEW k \in DOMAIN m_channels, k # i
          PROVE  \E j \in DOMAIN m_channels' : from(j) = k
      <4>1. CASE k < i
        BY <1>1, <3>1, <3>2, <3>5, <4>1
      <4>2. CASE k > i
        <5>1. k - 1 \in DOMAIN m_channels' /\ from(k - 1) = k
          BY <1>1, <3>1, <3>2, <3>5, <4>2
        <5>. QED BY <5>1
      <4>. QED BY <1>1, <3>1, <3>5, <4>1, <4>2
    <3>. HIDE DEF from
    <3>6. \A j, k \in DOMAIN m_channels' : m_channels'[j].channel = m_channels'[k].channel => j = k
      BY <3>2, <3>3, <3>4 DEF ListInv
    <3>7. \A j \in DOMAIN m_channels' : m_channels'[j].channel \in used'
      BY <3>1, <3>2, <3>3 DEF ListInv
    <3>8. ASSUME NEW a \in asked' PROVE \E j \in DOMAIN m_channels' : m_channels'[j].channel = a
      <4>1. PICK k \in DOMAIN m_channels : m_channels[k].channel = a
        BY <3>1 DEF ListInv
      <4>2. k # i
        BY <3>1, <4>1
      <4>. QED BY <3>2, <3>5, <4>1, <4>2
    <3>. QED BY <3>6, <3>7, <3>8 DEF ListInv
  <2>. QED BY <1>4, <2>1, <2>2 DEF closeChannel
<1>5. ASSUME NEW c \in Channel, ClientAsks(c) PROVE ListInv'
  BY <1>5 DEF ClientAsks, getChannelIndex, ListInv
<1>6. CASE \/ KeyExchange \/ \E correct \in BOOLEAN : authorizeWithPassword(correct)
           \/ \E c \in Channel : otherSubsystem(c)
           \/ StartServing \/ Serve \/ ReadUnready \/ GoOnBroken \/ ConnectionLost
           \/ UNCHANGED vars
  BY <1>6, SameList
  DEF KeyExchange, authorizeWithPassword, otherSubsystem, StartServing, Serve, ReadUnready,
      GoOnBroken, ConnectionLost, vars
<1>. QED BY <1>2, <1>3, <1>4, <1>5, <1>6 DEF Next

(* Where the loop is not serving afterwards, nobody has waited longer.     *)
LEMMA NotServing ==
  ASSUME TurnsInv, thread' # "serving", waited' = waited,
         thread' \in {"keys", "waiting"} => thread \in {"keys", "waiting"}
  PROVE  TurnsInv'
BY DEF TurnsInv

(* The loop at the beginning of a sweep, and nobody has waited yet.        *)
LEMMA NewSweep ==
  ASSUME TypeOK, ListInv, thread' = "serving", m_channels' = m_channels, asked' = asked,
         \A c \in Channel : waited'[c] = 0, m_channels # <<>>,
         at' = 1, end' = Len(m_channels)
  PROVE  TurnsInv'
<1>1. /\ Len(m_channels) \in Nat /\ 1 <= Len(m_channels)
      /\ \A i \in DOMAIN m_channels : m_channels[i].channel \in Channel
      /\ Cardinality(Channel) \in Nat /\ Len(m_channels) <= Cardinality(Channel)
  BY Sequence, ListFits DEF TypeOK
<1>2. 0 <= MostWaits /\ MostWaits \in Int
  BY <1>1 DEF MostWaits
<1>3. \A i \in DOMAIN m_channels : TurnsOf(1, Len(m_channels), i) \in Int
                                   /\ TurnsOf(1, Len(m_channels), i) <= MostWaits
  <2>1. ASSUME NEW i \in DOMAIN m_channels PROVE TurnsOf(1, Len(m_channels), i) \in Int
    BY <1>1, Sequence DEF TurnsOf
  <2>. QED BY <1>1, <2>1, TurnsBound
<1>. QED BY <1>1, <1>2, <1>3 DEF TurnsInv, Turns

(* The loop serves on where it is, and the list may grow behind it.        *)
LEMMA SameTurns ==
  ASSUME TypeOK, ListInv, TurnsInv, thread' = "serving", thread = "serving",
         UNCHANGED position, waited' = waited,
         DOMAIN m_channels \subseteq DOMAIN m_channels', asked' = asked,
         \A i \in DOMAIN m_channels : m_channels'[i].channel = m_channels[i].channel,
         \A i \in DOMAIN m_channels' \ DOMAIN m_channels : m_channels'[i].channel \notin asked
  PROVE  TurnsInv'
BY DEF TurnsInv, Turns, position

LEMMA ServeTurns ==
  ASSUME TypeOK, ListInv, ListInv', TurnsInv, Serve
  PROVE  TurnsInv'
<1>1. /\ thread = "serving" /\ thread' = "serving" /\ m_channels' = m_channels
      /\ asked' = asked \ {m_channels[at].channel}
      /\ waited' = [d \in Channel |-> IF d \in asked' THEN waited[d] + 1 ELSE 0]
      /\ at' = IF at = end THEN 1 ELSE at + 1
      /\ end' = IF at' = 1 THEN Len(m_channels) ELSE end
  BY DEF Serve, NextAt
<1>2. /\ at \in Nat /\ 1 <= at /\ end \in Nat /\ at <= end /\ end <= Len(m_channels)
      /\ Len(m_channels) \in Nat /\ DOMAIN m_channels = 1..Len(m_channels)
      /\ \A i \in DOMAIN m_channels : m_channels[i].channel \in Channel
      /\ waited \in [Channel -> Nat] /\ asked \subseteq Channel
      /\ Cardinality(Channel) \in Nat /\ Len(m_channels) <= Cardinality(Channel)
  BY <1>1, Sequence, ListFits DEF TypeOK
<1>3. MostWaits \in Int /\ 0 <= MostWaits
  BY <1>2 DEF MostWaits
<1>4. ASSUME NEW i \in DOMAIN m_channels, i # at
      PROVE  Turns(i)' = Turns(i) - 1 /\ Turns(i) \in Int /\ Turns(i)' \in Nat
  <2>1. i \in Nat /\ 1 <= i /\ i <= Len(m_channels)
    BY <1>2
  <2>2. CASE at = end
    <3>1. at' = 1 /\ end' = Len(m_channels)
      BY <1>1, <2>2
    <3>. QED BY <1>2, <1>4, <2>1, <2>2, <3>1 DEF Turns, TurnsOf
  <2>3. CASE at # end
    <3>1. at' = at + 1 /\ end' = end
      <4>1. at + 1 # 1
        BY ONLY <1>2
      <4>. QED BY <1>1, <2>3, <4>1
    <3>. QED BY <1>2, <1>4, <2>1, <2>3, <3>1 DEF Turns, TurnsOf
  <2>. QED BY <2>2, <2>3
<1>5. ASSUME NEW i \in DOMAIN m_channels, m_channels[i].channel \in asked'
      PROVE  /\ waited'[m_channels[i].channel] + Turns(i)' <= MostWaits
             /\ Turns(i)' \in Nat
  <2>1. i # at /\ m_channels[i].channel \in asked
    BY <1>1, <1>5
  <2>2. /\ waited[m_channels[i].channel] + Turns(i) <= MostWaits
        /\ waited[m_channels[i].channel] \in Nat
    BY <1>1, <1>2, <2>1 DEF TurnsInv
  <2>3. waited'[m_channels[i].channel] = waited[m_channels[i].channel] + 1
    BY <1>1, <1>2, <1>5
  <2>. QED BY <1>3, <1>4, <2>1, <2>2, <2>3
<1>6. ASSUME NEW c \in Channel PROVE waited'[c] <= MostWaits
  <2>1. CASE c \in asked'
    <3>1. PICK i \in DOMAIN m_channels : m_channels[i].channel = c
      BY <1>1, <2>1 DEF ListInv
    <3>2. waited'[c] \in Nat
      BY <1>1, <1>2
    <3>. QED BY <1>3, <1>5, <2>1, <3>1, <3>2
  <2>2. CASE c \notin asked'
    BY <1>1, <1>3, <2>2
  <2>. QED BY <2>1, <2>2
<1>. QED BY <1>1, <1>5, <1>6 DEF TurnsInv

LEMMA NextTurnsInv == ASSUME IInv, ListInv, ListInv', TurnsInv, [Next]_vars PROVE TurnsInv'
<1>1. TypeOK /\ DOMAIN m_channels = 1..Len(m_channels) /\ Len(m_channels) \in Nat
      /\ \A i \in DOMAIN m_channels : m_channels[i].channel \in Channel
  BY Sequence DEF IInv
<1>2. ASSUME NEW c \in Channel, createChannel(c) PROVE TurnsInv'
  <2>1. /\ thread \in Polling /\ thread' \in {thread, "broken"} /\ waited' = waited
        /\ UNCHANGED position /\ asked' = asked /\ c \notin used
        /\ m_channels' = Append(m_channels, [channel |-> c, sftp |-> FALSE])
    BY <1>2 DEF createChannel
  <2>2. /\ DOMAIN m_channels' = 1..Len(m_channels) + 1
        /\ \A i \in 1..Len(m_channels) : m_channels'[i] = m_channels[i]
        /\ m_channels'[Len(m_channels) + 1].channel = c
    BY <1>1, <2>1 DEF TypeOK
  <2>3. c \notin asked
    BY <2>1 DEF ListInv
  <2>4. CASE thread' # "serving"
    BY <2>1, <2>4, NotServing DEF Polling
  <2>5. CASE thread' = "serving"
    <3>1. \A i \in DOMAIN m_channels' \ DOMAIN m_channels : m_channels'[i].channel \notin asked
      BY <1>1, <2>2, <2>3
    <3>. QED BY <1>1, <2>1, <2>2, <2>5, <3>1, SameTurns
  <2>. QED BY <2>4, <2>5
<1>3. ASSUME NEW c \in Channel, startSftpSession(c) PROVE TurnsInv'
  <2>1. /\ thread \in Polling /\ thread' \in {thread, "aborted"} /\ waited' = waited
        /\ UNCHANGED position /\ asked' = asked
        /\ \/ m_channels' = m_channels
           \/ \E i \in DOMAIN m_channels : m_channels' = [m_channels EXCEPT ![i].sftp = TRUE]
    BY <1>3 DEF startSftpSession, getChannelIndex
  <2>2. CASE thread' # "serving"
    BY <2>1, <2>2, NotServing DEF Polling
  <2>3. CASE thread' = "serving"
    <3>1. /\ DOMAIN m_channels' = DOMAIN m_channels
          /\ \A i \in DOMAIN m_channels : m_channels'[i].channel = m_channels[i].channel
      <4>1. CASE m_channels' = m_channels
        BY <4>1
      <4>2. ASSUME NEW i \in DOMAIN m_channels, m_channels' = [m_channels EXCEPT ![i].sftp = TRUE]
            PROVE  /\ DOMAIN m_channels' = DOMAIN m_channels
                   /\ \A j \in DOMAIN m_channels : m_channels'[j].channel = m_channels[j].channel
        BY <1>1, <4>2
      <4>. QED BY <2>1, <4>1, <4>2
    <3>. QED BY <1>1, <2>1, <2>3, <3>1, SameTurns
  <2>. QED BY <2>2, <2>3
<1>4. ASSUME NEW c \in Channel, closeChannel(c) PROVE TurnsInv'
  BY <1>4, NotServing DEF closeChannel, Polling
<1>5. ASSUME NEW c \in Channel, ClientAsks(c) PROVE TurnsInv'
  <2>1. /\ thread' = thread /\ UNCHANGED position /\ m_channels' = m_channels
        /\ asked' = asked \cup {c} /\ waited' = [waited EXCEPT ![c] = 0]
    BY <1>5 DEF ClientAsks
  <2>2. MostWaits \in Int /\ 0 <= MostWaits
    <3>1. getChannelIndex(c) # {}
      BY <1>5 DEF ClientAsks
    <3>. QED BY <1>1, <3>1, ListFits DEF MostWaits, getChannelIndex
  <2>3. /\ waited'[c] = 0
        /\ \A d \in Channel \ {c} : waited'[d] = waited[d]
    BY <1>1, <2>1 DEF TypeOK
  <2>4. \A d \in Channel : waited'[d] <= MostWaits
    BY <2>2, <2>3 DEF TurnsInv
  <2>5. ASSUME thread = "serving", NEW i \in DOMAIN m_channels, m_channels[i].channel \in asked'
        PROVE  waited'[m_channels[i].channel] + Turns(i) <= MostWaits
    <3>1. CASE m_channels[i].channel = c
      <4>1. at \in Nat /\ end \in Nat /\ 1 <= at /\ at <= end /\ end <= Len(m_channels)
        BY <1>1, <2>5 DEF TypeOK
      <4>2. Turns(i) <= MostWaits /\ Turns(i) \in Int
        BY <1>1, <4>1, TurnsBound DEF Turns, TurnsOf
      <4>. QED BY <2>3, <3>1, <4>2
    <3>2. CASE m_channels[i].channel # c
      BY <1>1, <2>1, <2>3, <2>5, <3>2 DEF TurnsInv
    <3>. QED BY <3>1, <3>2
  <2>6. thread' \in {"keys", "waiting"} => \A d \in Channel : waited'[d] = 0
    BY <2>1, <2>3 DEF TurnsInv
  <2>7. \A i \in DOMAIN m_channels : Turns(i)' = Turns(i)
    BY <2>1 DEF Turns, position
  <2>. QED BY <2>1, <2>4, <2>5, <2>6, <2>7 DEF TurnsInv
<1>6. CASE StartServing
  <2>1. CASE thread' = "serving"
    <3>1. m_channels # <<>>
      BY <1>6 DEF StartServing, hasSftpChannel
    <3>2. \A c \in Channel : waited'[c] = 0
      BY <1>6 DEF StartServing, TurnsInv
    <3>. QED BY <1>1, <1>6, <2>1, <3>1, <3>2, NewSweep DEF StartServing
  <2>2. CASE thread' # "serving"
    BY <1>6, <2>2, NotServing DEF StartServing
  <2>. QED BY <2>1, <2>2
<1>7. CASE Serve
  BY <1>1, <1>7, ServeTurns
<1>8. CASE GoOnBroken
  <2>1. CASE thread' = "serving"
    BY <1>1, <1>8, <2>1, NewSweep DEF GoOnBroken
  <2>2. CASE thread' # "serving"
    BY <1>8, <2>2, NotServing DEF GoOnBroken
  <2>. QED BY <2>1, <2>2
<1>9. CASE \/ KeyExchange \/ \E correct \in BOOLEAN : authorizeWithPassword(correct)
           \/ ReadUnready \/ ConnectionLost
  BY <1>9, NotServing
  DEF KeyExchange, authorizeWithPassword, ReadUnready, ConnectionLost
<1>10. CASE UNCHANGED vars \/ \E c \in Channel : otherSubsystem(c)
  BY <1>10 DEF otherSubsystem, vars, position, TurnsInv, Turns
<1>. QED BY <1>2, <1>3, <1>4, <1>5, <1>6, <1>7, <1>8, <1>9, <1>10 DEF Next

(* While a channel's request waits, the others are served twice each at    *)
(* most, however channels come and go (the loop of run() over m_channels). *)
THEOREM TurnsAreTaken == Spec => []ChannelsTakeTurns
<1>1. Init => ListInv /\ TurnsInv
  <2>. SUFFICES ASSUME Init PROVE ListInv /\ TurnsInv
    OBVIOUS
  <2>1. m_channels = <<>> /\ DOMAIN m_channels = {} /\ asked = {} /\ thread = "keys"
    BY DEF Init
  <2>2. \A c \in Channel : waited[c] = 0 /\ 0 <= MostWaits
    <3>. SUFFICES ASSUME NEW c \in Channel PROVE 0 <= MostWaits
      BY DEF Init
    <3>1. Cardinality(Channel) \in Nat /\ Cardinality(Channel) # 0
      BY ServerAssumption, FS_CardinalityType, FS_EmptySet
    <3>. QED BY <3>1 DEF MostWaits
  <2>. QED BY <2>1, <2>2 DEF ListInv, TurnsInv
<1>2. IInv /\ ListInv /\ [Next]_vars => ListInv'
  BY NextListInv
<1>3. IInv /\ ListInv /\ ListInv' /\ TurnsInv /\ [Next]_vars => TurnsInv'
  BY NextTurnsInv
<1>4. TurnsInv => ChannelsTakeTurns
  BY DEF TurnsInv, ChannelsTakeTurns, MostWaits
<1>. QED BY <1>1, <1>2, <1>3, <1>4, Invariance, PTL DEF Spec

=============================================================================
