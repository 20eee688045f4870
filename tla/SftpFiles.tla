------------------------------ MODULE SftpFiles ------------------------------
(***************************************************************************)
(* The file operations of SftpServerSession (sftpservercommands.cpp): one  *)
(* operator for each request, with the tables of open files and            *)
(* directories of every channel's session, and libssh's table of handles.  *)
(* A request is served in one step: the session's thread does nothing      *)
(* else meanwhile.  Any operation of the file system may be refused.       *)
(***************************************************************************)
EXTENDS Naturals, FiniteSetsExt

CONSTANTS
  Channel,    \* the channels of the connection, each with its own session
  Path,       \* names below the shared directory
  Root,       \* the shared directory, the user's home
  Empty,      \* the empty file name
  None,       \* no path, no object, no handle
  Addr,       \* addresses of objects; their number bounds the objects leaked
  Slot,       \* libssh's handles, 0 .. 255 in the library
  OpenFlags,  \* the sets of flags that clients open files with
  ModernQt,   \* whether Qt is 5.11 or newer: Sailfish OS has 5.6
  ReadDirChunkSize

ASSUME SftpAssumption ==
  /\ Root \notin Path /\ Empty \notin Path \cup {Root}
  /\ None \notin Path \cup {Root, Empty} \cup Channel \cup Addr
  /\ Slot \subseteq Nat /\ ReadDirChunkSize \in Nat \ {0} /\ ModernQt \in BOOLEAN

VARIABLES
  fs,       \* for each path what is there, and where a link points to
  objects,  \* m_openFileHandles and m_openDirHandles of all sessions, by address
  slots,    \* libssh: the object that a handle stands for
  meant,    \* history: the path a client has opened under a handle
  reply     \* history: whether the last request was refused, and what a rename
            \* was to rename

filesVars == <<fs, objects, slots, meant, reply>>
tables == <<objects, slots, meant>>

Name == Path \cup {Root}
RawName == Path \cup {Empty}
Nothing == [kind |-> "none", to |-> None]
Entry == [kind: {"none", "file", "dir"}, to: {None}] \cup [kind: {"link"}, to: Name]
Opened(c, kind, p, listed) ==
  [of |-> c, kind |-> kind, name |-> p, left |-> listed, done |-> FALSE, unsaved |-> 0]
Free == Opened(None, "free", None, {})

\* of: whose session it belongs to; left: what a listing has not told yet;
\* done: the client was told its end; unsaved: acknowledged writes in QFile's buffer.
Object == [of: Channel \cup {None}, kind: {"free", "file", "dir"}, name: Name \cup {None},
           left: SUBSET Path, done: BOOLEAN, unsaved: 0..2]
Refusals == {"FAILURE", "NO_SUCH_FILE", "NOT_A_DIRECTORY", "PERMISSION_DENIED",
             "INVALID_HANDLE", "OP_UNSUPPORTED", "FILE_ALREADY_EXISTS"}

FilesTypeOK ==
  /\ fs \in [Name -> Entry]
  /\ objects \in [Addr -> Object]
  /\ slots \in [Channel -> [Slot -> Addr \cup {None}]]
  /\ meant \in [Channel -> [Slot -> Name \cup {None}]]
  /\ reply \in [renamed: Name \cup {None}, refused: BOOLEAN]

FilesInit ==
  /\ fs \in [Name -> [kind: {"none", "file", "dir"}, to: {None}]]
  /\ \A p \in Name : fs[p].kind = "dir" <=> p = Root
  /\ objects = [a \in Addr |-> Free]
  /\ slots = [c \in Channel |-> [s \in Slot |-> None]]
  /\ meant = [c \in Channel |-> [s \in Slot |-> None]]
  /\ reply = [renamed |-> None, refused |-> FALSE]

-----------------------------------------------------------------------------
(* What QFileInfo says of a path.  Links are followed once: a link to a    *)
(* link is taken for one that leads nowhere.                               *)

getFilename(raw) == IF raw = Empty THEN Root ELSE raw
KindOf(p) == fs[p].kind
IsLink(p) == KindOf(p) = "link"
Resolved(p) ==
  IF ~IsLink(p) THEN p ELSE IF IsLink(fs[p].to) THEN None ELSE fs[p].to
Exists(p) == Resolved(p) # None /\ KindOf(Resolved(p)) # "none"
IsDir(p) == Exists(p) /\ KindOf(Resolved(p)) = "dir"

Answer(status) == reply' = [renamed |-> None, refused |-> status \in Refusals]
Tell(status) == Answer(status) /\ UNCHANGED <<fs, tables>>

replyUnsupported == Tell("OP_UNSUPPORTED")

replyReadLink(raw) ==
  Tell(IF IsLink(getFilename(raw)) THEN "NAMES" ELSE "NO_SUCH_FILE")

replyRealPath(raw) ==
  Tell(IF Exists(getFilename(raw)) THEN "NAMES" ELSE "NO_SUCH_FILE")

\* The attributes tell the kind of the entry itself.
getFileAttrs(p) ==
  [none |-> "S_NONE", file |-> "S_IFREG", dir |-> "S_IFDIR", link |-> "S_IFLNK"][KindOf(p)]

replyStat(raw, follow) ==
  LET p == getFilename(raw) IN
  Tell(IF KindOf(p) = "none" THEN "NO_SUCH_FILE"
       ELSE IF ~IsLink(p) THEN getFileAttrs(p)
       ELSE IF follow THEN getFileAttrs(fs[p].to) ELSE "OP_UNSUPPORTED")

-----------------------------------------------------------------------------
(* Handles.  A new object may get the address of one that was deleted.     *)

findHandle(c, h, kind) ==
  LET a == slots[c][h] IN
  IF a # None /\ objects[a].of = c /\ objects[a].kind = kind THEN a ELSE None

NewHandle(c, object) ==
  \E a \in Addr :
    /\ objects[a].kind = "free"
    /\ objects' = [objects EXCEPT ![a] = object]
    /\ LET free == {s \in Slot : slots[c][s] = None} IN
       IF free = {}
       THEN Answer("silent") /\ UNCHANGED <<slots, meant>>
       ELSE \E h \in free :
              /\ \A s \in free : h <= s
              /\ slots' = [slots EXCEPT ![c][h] = a]
              /\ meant' = [meant EXCEPT ![c][h] = object.name]
              /\ Answer("HANDLE")

\* The listing is that of the moment: QDirIterator's constructor reads ahead.
replyOpenDir(c, raw) ==
  LET p == getFilename(raw) IN
  \/ /\ ~IsDir(p)
     /\ Tell(IF ~Exists(p) THEN "NO_SUCH_FILE" ELSE "NOT_A_DIRECTORY")
  \/ IsDir(p) /\ Tell("PERMISSION_DENIED")
  \/ /\ IsDir(p)
     /\ NewHandle(c, Opened(c, "dir", p,
                            IF Resolved(p) = Root THEN {q \in Path : KindOf(q) # "none"} ELSE {}))
     /\ UNCHANGED fs

(* (Names with an underscore are faulty variants, the mutants that show     *)
(* that the properties notice: each stands before what it is a fault of.)  *)
replyReadDir_OneChunk(c, h) ==
  LET a == findHandle(c, h, "dir") IN
  \/ a = None /\ Tell("INVALID_HANDLE")
  \/ /\ a # None
     /\ \E told \in SUBSET objects[a].left :
          /\ Cardinality(told) <= ReadDirChunkSize
          /\ objects' = [objects EXCEPT ![a].left = @ \ told, ![a].done = TRUE]
     /\ Answer("NAMES") /\ UNCHANGED <<fs, slots, meant>>

replyReadDir(c, h) ==
  LET a == findHandle(c, h, "dir")
      left == objects[a].left IN
  \/ a = None /\ Tell("INVALID_HANDLE")
  \/ /\ a # None /\ left = {}
     /\ objects' = [objects EXCEPT ![a].done = TRUE]
     /\ Answer("EOF") /\ UNCHANGED <<fs, slots, meant>>
  \/ /\ a # None /\ left # {}
     /\ \E told \in SUBSET left :
          /\ Cardinality(told) = Min({ReadDirChunkSize, Cardinality(left)})
          /\ objects' = [objects EXCEPT ![a].left = left \ told]
     /\ Answer("NAMES") /\ UNCHANGED <<fs, slots, meant>>

replyClose_KeepsHandle(c, h) ==
  LET a == slots[c][h]
      live == a # None /\ objects[a].of = c IN
  \/ ~live /\ Tell("INVALID_HANDLE")
  \/ /\ live
     /\ objects' = [objects EXCEPT ![a] = Free]
     /\ meant' = [meant EXCEPT ![c][h] = None]
     /\ Answer("OK") /\ UNCHANGED <<fs, slots>>

\* Deleting a QFile flushes it; nobody hears of it when that fails.
replyClose(c, h) ==
  LET a == slots[c][h]
      live == a # None /\ objects[a].of = c IN
  \/ ~live /\ Tell("INVALID_HANDLE")
  \/ /\ live
     /\ objects' = [objects EXCEPT ![a] = Free]
     /\ slots' = [slots EXCEPT ![c][h] = None]
     /\ meant' = [meant EXCEPT ![c][h] = None]
     /\ Answer("OK") /\ UNCHANGED fs

\* QFile::open with the flags as Qt of the build understands them: without
\* NewOnly and ExistingOnly, CREAT and EXCL count for nothing.
CanOpen(p, flags) ==
  LET writes == flags \cap {"WRITE", "APPEND"} # {} IN
  /\ writes \/ "READ" \in flags
  /\ Resolved(p) # None /\ ~IsDir(p)
  /\ ~Exists(p) => writes /\ (ModernQt => "CREAT" \in flags)
  /\ Exists(p) /\ ModernQt => ~({"CREAT", "EXCL"} \subseteq flags)

replyOpenFile(c, raw, flags) ==
  LET p == getFilename(raw) IN
  \/ Tell("FAILURE")
  \/ /\ CanOpen(p, flags)
     /\ fs' = [fs EXCEPT ![Resolved(p)].kind = "file"]
     /\ NewHandle(c, Opened(c, "file", p, {}))

\* QFile::seek writes out what is buffered, or fails and keeps it.
replyReadFile(c, h) ==
  LET a == findHandle(c, h, "file") IN
  \/ a = None /\ Tell("INVALID_HANDLE")
  \/ a # None /\ Tell("FAILURE")
  \/ /\ a # None
     /\ objects' = [objects EXCEPT ![a].unsaved = 0]
     /\ UNCHANGED <<fs, slots, meant>>
     /\ \E status \in {"DATA", "EOF", "FAILURE"} : Answer(status)

replyWriteFile_NoSeek(c, h) ==
  LET a == findHandle(c, h, "file") IN
  \/ a = None /\ Tell("INVALID_HANDLE")
  \/ /\ a # None
     /\ objects' = [objects EXCEPT ![a].unsaved = @ + 1] /\ Answer("OK")
     /\ UNCHANGED <<fs, slots, meant>>

\* A small write stays in the buffer; a large one goes to the disk, or fails.
replyWriteFile(c, h) ==
  LET a == findHandle(c, h, "file") IN
  \/ a = None /\ Tell("INVALID_HANDLE")
  \/ a # None /\ Tell("FAILURE")
  \/ /\ a # None
     /\ \/ objects' = [objects EXCEPT ![a].unsaved = 1] /\ Answer("OK")
        \/ /\ objects' = [objects EXCEPT ![a].unsaved = 0]
           /\ \E status \in {"OK", "FAILURE"} : Answer(status)
     /\ UNCHANGED <<fs, slots, meant>>

-----------------------------------------------------------------------------
(* Operations on names.                                                    *)

Removable(p) == KindOf(p) \in {"file", "link"}
Without(p) == [fs EXCEPT ![p] = Nothing]

replyRemove(raw) ==
  LET p == getFilename(raw) IN
  \/ Tell("FAILURE")
  \/ Removable(p) /\ fs' = Without(p) /\ Answer("OK") /\ UNCHANGED tables

replyMakeDir(raw) ==
  LET p == getFilename(raw) IN
  \/ Tell(IF IsDir(p) THEN "FILE_ALREADY_EXISTS" ELSE "FAILURE")
  \/ /\ KindOf(p) = "none"
     /\ fs' = [fs EXCEPT ![p].kind = "dir"]
     /\ Answer("OK") /\ UNCHANGED tables

replyRemoveDir(raw) ==
  LET p == getFilename(raw) IN
  \/ Tell("FAILURE")
  \/ /\ KindOf(p) = "dir" /\ p # Root
     /\ fs' = Without(p) /\ Answer("OK") /\ UNCHANGED tables

replyRename_TargetFirst(rawSource, rawTarget) ==
  LET source == getFilename(rawSource)
      target == getFilename(rawTarget)
      left == IF Exists(target) THEN Without(target) ELSE fs
      Told(status) ==
        /\ reply' = [renamed |-> source, refused |-> status \in Refusals]
        /\ UNCHANGED tables IN
  /\ Exists(target) => Removable(target)
  /\ \/ fs' = left /\ Told("FAILURE")
     \/ /\ left[source] # Nothing /\ source # Root
        /\ fs' = [left EXCEPT ![target] = left[source], ![source] = Nothing]
        /\ Told("OK")

\* An existing target is removed first; then the renaming itself may fail.
\* (A file renamed to itself is gone by then.)
replyRename(rawSource, rawTarget) ==
  LET source == getFilename(rawSource)
      target == getFilename(rawTarget)
      left == IF Exists(target) THEN Without(target) ELSE fs
      Told(status) ==
        /\ reply' = [renamed |-> source, refused |-> status \in Refusals]
        /\ UNCHANGED tables IN
  \/ ~Exists(source) /\ ~IsLink(source) /\ fs' = fs /\ Told("NO_SUCH_FILE")
  \/ /\ Exists(source) \/ IsLink(source)
     /\ \/ Exists(target) /\ fs' = fs /\ Told("FAILURE")
        \/ /\ Exists(target) => Removable(target)
           /\ \/ fs' = left /\ Told("FAILURE")
              \/ /\ left[source] # Nothing /\ source # Root
                 /\ fs' = [left EXCEPT ![target] = left[source], ![source] = Nothing]
                 /\ Told("OK")

replySymlink(rawTarget, rawLink) ==
  LET link == getFilename(rawLink) IN
  \/ Tell("FAILURE")
  \/ /\ KindOf(link) = "none"
     /\ fs' = [fs EXCEPT ![link] = [kind |-> "link", to |-> getFilename(rawTarget)]]
     /\ Answer("OK") /\ UNCHANGED tables

\* readMessage with a message of channel c: the client chooses what to ask.
readMessage(c) ==
  \/ replyUnsupported
  \/ \E p \in RawName : replyReadLink(p) \/ replyRealPath(p)
  \/ \E p \in RawName : replyStat(p, FALSE) \/ replyStat(p, TRUE)
  \/ \E p \in RawName : replyOpenDir(c, p)
  \/ \E h \in Slot : replyReadDir(c, h)
  \/ \E p \in RawName, flags \in OpenFlags : replyOpenFile(c, p, flags)
  \/ \E h \in Slot : replyReadFile(c, h)
  \/ \E h \in Slot : replyWriteFile(c, h)
  \/ \E h \in Slot : replyClose(c, h)
  \/ \E p \in RawName : replyRemove(p)
  \/ \E p \in RawName : replyMakeDir(p)
  \/ \E p \in RawName : replyRemoveDir(p)
  \/ \E p, q \in RawName : replyRename(p, q)
  \/ \E p, q \in RawName : replySymlink(p, q)

\* The session of channel c goes: its files and directories are deleted.
Release(c) ==
  /\ objects' = [a \in Addr |-> IF objects[a].of = c THEN Free ELSE objects[a]]
  /\ slots' = [slots EXCEPT ![c] = [s \in Slot |-> None]]
  /\ meant' = [meant EXCEPT ![c] = [s \in Slot |-> None]]
  /\ UNCHANGED <<fs, reply>>

-----------------------------------------------------------------------------
(* Properties.                                                             *)

\* A handle that a client was given and has not closed stands for the file or
\* directory that was opened, in spite of addresses and handles being used
\* again (replyClose, sftp_handle_alloc, the two maps by address).
HandleKeepsFile ==
  \A c \in Channel, s \in Slot :
    meant[c][s] # None =>
      slots[c][s] # None /\ objects[slots[c][s]].name = meant[c][s]

\* The end of a listing is told only after all its entries, also when the last
\* chunk of names was not full (replyReadDir).
ListingComplete ==
  \A a \in Addr : objects[a].done => objects[a].left = {}

\* Of the writes acknowledged to a handle, at most the last one is not in the
\* file yet, and so may still be lost without a word (replyWriteFile, replyClose).
OneUnsavedWrite ==
  \A a \in Addr : objects[a].unsaved <= 1

\* A refused request has changed nothing, but for a rename, which may have
\* removed its target, and never if there was nothing to rename (replyRename).
RefusedChangesLittle ==
  [][reply'.refused /\ fs' # fs =>
       /\ reply'.renamed # None /\ fs[reply'.renamed] # Nothing
       /\ \E p \in Name : fs' = Without(p)]_filesVars
=============================================================================
