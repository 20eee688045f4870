--------------------------- MODULE Migration_proofs --------------------------
(***************************************************************************)
(* The migration loses nothing that it lists: for any number of starts,    *)
(* files and directories, and with every fault, a file of the old          *)
(* installation that is neither hidden nor in a hidden directory is in its *)
(* old place or its copy is in the new one.                                *)
(***************************************************************************)
EXTENDS Migration, TLAPS

(* The initial state satisfies the invariant: no start is under way.       *)
LEMMA InitInv == Init => IndInv
<1> SUFFICES ASSUME Init PROVE IndInv
  OBVIOUS
<1>1. TypeOK
  BY TreeAssumption DEF Init, TypeOK, Steps
<1>2. \A p \in Processes : CopiedBehind(p)
  BY DEF Init, CopiedBehind, Copying, Behind
<1>3. Intact /\ ~\E p \in Processes : pc[p] = "remove"
  BY DEF Init, Intact
<1> QED
  BY <1>1, <1>2, <1>3 DEF IndInv

(* Every step is the step of one start p, from which the others notice     *)
(* only what it copies and removes.  It keeps the invariant if it takes    *)
(* back no copy, removes nothing before all is copied, and accounts for    *)
(* what it has behind it itself.                                           *)
LEMMA StepKeepsInv ==
  ASSUME IndInv, TypeOK', NEW p \in Processes,
         old' \subseteq old, oldDirs' \subseteq oldDirs,
         old' # old \/ oldDirs' # oldDirs => AllNew,
         \A f \in Files : new[f] = "old" => new'[f] = "old",
         \A q \in Processes \ {p} :
           /\ pc'[q] = pc[q] /\ subdirs'[q] = subdirs[q]
           /\ at'[q] = at[q] /\ todo'[q] = todo[q],
         pc'[p] = "remove" => AllNew',
         Intact' => CopiedBehind(p)'
  PROVE  IndInv'
<1>1. AllNew => AllNew'
  BY DEF AllNew, Listed
<1>2. Intact' => Intact
  BY DEF IndInv, TypeOK, Intact
<1>3. (\E q \in Processes : pc'[q] = "remove") => AllNew'
  <2> SUFFICES ASSUME NEW q \in Processes, pc'[q] = "remove" PROVE AllNew'
    OBVIOUS
  <2>1. CASE q = p
    BY <2>1
  <2>2. CASE q # p
    <3>1. pc[q] = "remove"
      BY <2>2
    <3> QED
      BY <3>1, <1>1 DEF IndInv
  <2> QED
    BY <2>1, <2>2
<1>4. ~Intact' => AllNew'
  <2>1. CASE Intact
    BY <2>1, <1>1 DEF Intact
  <2>2. CASE ~Intact
    BY <2>2, <1>1 DEF IndInv
  <2> QED
    BY <2>1, <2>2
<1>5. Intact' => \A q \in Processes : CopiedBehind(q)'
  <2> SUFFICES ASSUME Intact', NEW q \in Processes PROVE CopiedBehind(q)'
    OBVIOUS
  <2>1. CASE q = p
    BY <2>1
  <2>2. CASE q # p
    <3>1. CopiedBehind(q)
      BY <1>2 DEF IndInv
    <3>2. pc'[q] = pc[q] /\ subdirs'[q] = subdirs[q] /\ at'[q] = at[q] /\ todo'[q] = todo[q]
      BY <2>2
    <3> QED
      BY <3>1, <3>2 DEF CopiedBehind, Copying, Behind, Listed
  <2> QED
    BY <2>1, <2>2
<1> QED
  BY <1>3, <1>4, <1>5 DEF IndInv

(* Steps that leave p with no directory in work, and nothing to remove.    *)
LEMMA IdleKeepsInv ==
  ASSUME IndInv, TypeOK', NEW p \in Processes, NEW step \in Steps,
         step \notin {"next", "copy", "opened", "remove"},
         pc' = [pc EXCEPT ![p] = step],
         \A f \in Files : new[f] = "old" => new'[f] = "old",
         UNCHANGED <<old, oldDirs, subdirs, at, todo>>
  PROVE  IndInv'
<1>1. pc'[p] = step /\ \A q \in Processes \ {p} : pc'[q] = pc[q]
  BY DEF IndInv, TypeOK
<1>2. CopiedBehind(p)'
  BY <1>1 DEF CopiedBehind, Copying, Behind
<1> QED
  BY <1>1, <1>2, StepKeepsInv

(* The steps a start takes before and after the copying, and the giving up.*)
LEMMA IdleSteps ==
  ASSUME IndInv, NEW p \in Processes,
         \/ Start(p) \/ NoTop(p) \/ Removed(p) \/ OtherDaemonExists(p) \/ Quit(p) \/ Crash(p)
         \/ \E d \in Dirs : NoDir(p, d)
         \/ \E f \in Files : CannotOpen(p, f) \/ CannotRename(p, f)
  PROVE  IndInv'
<1>1. \E step \in {"off", "check", "config"} :
        /\ pc' = [pc EXCEPT ![p] = step]
        /\ UNCHANGED <<old, oldDirs, new, subdirs, at, todo>>
        /\ owner' \in {owner, Nobody} /\ disturbed' \in BOOLEAN
  BY DEF IndInv, TypeOK, Start, NoTop, Removed, OtherDaemonExists, Quit, Crash, NoDir,
         CannotOpen, CannotRename, GiveUp, Goto
<1>2. PICK step \in {"off", "check", "config"} :
        /\ pc' = [pc EXCEPT ![p] = step]
        /\ UNCHANGED <<old, oldDirs, new, subdirs, at, todo>>
        /\ owner' \in {owner, Nobody} /\ disturbed' \in BOOLEAN
  BY <1>1
<1>3. TypeOK'
  BY <1>2 DEF IndInv, TypeOK, Steps
<1> QED
  BY <1>2, <1>3, IdleKeepsInv DEF Steps

LEMMA CheckInv == ASSUME IndInv, NEW p \in Processes, Check(p) PROVE IndInv'
<1>1. PICK step \in {"list", "config"} : pc' = [pc EXCEPT ![p] = step]
  BY DEF Check, Goto
<1>2. UNCHANGED <<old, oldDirs, new, subdirs, at, todo, owner, disturbed>>
  BY DEF Check
<1>3. TypeOK'
  BY <1>1, <1>2 DEF IndInv, TypeOK, Steps
<1> QED
  BY <1>1, <1>2, <1>3, IdleKeepsInv DEF Steps

LEMMA ConfigureInv == ASSUME IndInv, NEW p \in Processes, Configure(p) PROVE IndInv'
<1>1. TypeOK'
  BY DEF IndInv, TypeOK, Steps, Configure, Goto
<1>2. \A f \in Files : new[f] = "old" => new'[f] = "old"
  BY DEF Configure
<1> QED
  BY <1>1, <1>2, IdleKeepsInv DEF Configure, Goto, Steps

LEMMA AppWritesInv ==
  ASSUME IndInv, NEW p \in Processes, NEW f \in Files, AppWrites(p, f)
  PROVE  IndInv'
<1>1. TypeOK'
  BY DEF IndInv, TypeOK, AppWrites, processVars
<1>2. \A g \in Files : new[g] = "old" => new'[g] = "old"
  BY DEF IndInv, TypeOK, AppWrites
<1>3. CopiedBehind(p)'
  BY DEF AppWrites, processVars, CopiedBehind, Copying, Behind
<1>4. pc'[p] # "remove"
  BY DEF AppWrites, processVars
<1> QED
  BY <1>1, <1>2, <1>3, <1>4, StepKeepsInv DEF AppWrites, processVars

-----------------------------------------------------------------------------
(* The copying.                                                            *)

LEMMA ListDirsInv == ASSUME IndInv, NEW p \in Processes, ListDirs(p) PROVE IndInv'
<1>1. TypeOK'
  BY DEF IndInv, TypeOK, Steps, ListDirs, Goto
<1>2. pc'[p] = "next" /\ subdirs'[p] = oldDirs \ (HiddenDirs \cup {Top})
  BY DEF IndInv, TypeOK, ListDirs, Goto
<1>3. Intact' => CopiedBehind(p)'
  BY <1>2 DEF ListDirs, Intact, CopiedBehind, Copying, Behind, Listed
<1>4. \A q \in Processes \ {p} : pc'[q] = pc[q] /\ subdirs'[q] = subdirs[q]
  BY DEF IndInv, TypeOK, ListDirs, Goto
<1> QED
  BY <1>1, <1>2, <1>3, <1>4, StepKeepsInv DEF ListDirs

LEMMA EnterDirInv ==
  ASSUME IndInv, NEW p \in Processes, NEW d \in Dirs, EnterDir(p, d)
  PROVE  IndInv'
<1>1. TypeOK'
  BY DEF IndInv, TypeOK, Steps, EnterDir, Goto, entryList, FilesOf
<1>2. /\ pc'[p] = "copy" /\ subdirs'[p] = subdirs[p] \ {d}
      /\ at'[p] = d /\ todo'[p] = entryList(d)
  BY DEF IndInv, TypeOK, EnterDir, Goto
<1>3. d # Top
  BY DEF IndInv, TypeOK, EnterDir
<1>4. ASSUME Intact' PROVE CopiedBehind(p)'
  <2>1. CopiedBehind(p) /\ Intact
    BY <1>4 DEF IndInv, EnterDir, Intact
  <2>2. Behind(p)' = Behind(p) \cup {d}
    BY <1>2, <1>3 DEF EnterDir, Behind, Copying
  <2>3. todo'[p] = FilesOf(d) \ HiddenFiles
    BY <1>2, <2>1 DEF Intact, entryList, FilesOf
  <2>4. ASSUME NEW f \in Listed, Dir[f] \in Behind(p)', f \notin todo'[p] PROVE new'[f] = "old"
    BY <2>1, <2>2, <2>3, <2>4 DEF EnterDir, CopiedBehind, Copying, FilesOf, Listed
  <2> QED
    BY <1>2, <1>3, <2>4 DEF CopiedBehind, Copying
<1>5. \A q \in Processes \ {p} :
        pc'[q] = pc[q] /\ subdirs'[q] = subdirs[q] /\ at'[q] = at[q] /\ todo'[q] = todo[q]
  BY DEF IndInv, TypeOK, EnterDir, Goto
<1> QED
  BY <1>1, <1>2, <1>4, <1>5, StepKeepsInv DEF EnterDir

LEMMA EnterTopInv == ASSUME IndInv, NEW p \in Processes, EnterTop(p) PROVE IndInv'
<1>1. TypeOK'
  BY TreeAssumption DEF IndInv, TypeOK, Steps, EnterTop, Goto, entryList, FilesOf
<1>2. /\ pc'[p] = "copy" /\ subdirs'[p] = {}
      /\ at'[p] = Top /\ todo'[p] = entryList(Top)
  BY DEF IndInv, TypeOK, EnterTop, Goto
<1>3. ASSUME Intact' PROVE CopiedBehind(p)'
  <2>1. CopiedBehind(p) /\ Intact
    BY <1>3 DEF IndInv, EnterTop, Intact
  <2>2. Behind(p)' = Behind(p) \cup {Top}
    BY <1>2 DEF EnterTop, Behind, Copying
  <2>3. todo'[p] = FilesOf(Top) \ HiddenFiles
    BY <1>2, <2>1 DEF Intact, entryList, FilesOf
  <2>4. ASSUME NEW f \in Listed, Dir[f] \in Behind(p)', f \notin todo'[p] PROVE new'[f] = "old"
    BY <2>1, <2>2, <2>3, <2>4 DEF EnterTop, CopiedBehind, Copying, FilesOf, Listed
  <2> QED
    BY <1>2, <2>4 DEF CopiedBehind, Copying
<1>4. \A q \in Processes \ {p} :
        pc'[q] = pc[q] /\ subdirs'[q] = subdirs[q] /\ at'[q] = at[q] /\ todo'[q] = todo[q]
  BY DEF IndInv, TypeOK, EnterTop, Goto
<1> QED
  BY <1>1, <1>2, <1>3, <1>4, StepKeepsInv DEF EnterTop

LEMMA OpenInv ==
  ASSUME IndInv, NEW p \in Processes, NEW f \in Files, Open(p, f)
  PROVE  IndInv'
<1>1. TypeOK'
  BY DEF IndInv, TypeOK, Steps, Open, Goto
<1>2. pc'[p] = "opened" /\ \A q \in Processes \ {p} : pc'[q] = pc[q]
  BY DEF IndInv, TypeOK, Open, Goto
<1>3. Intact' => CopiedBehind(p)'
  BY <1>2 DEF IndInv, Open, Intact, CopiedBehind, Copying, Behind
<1> QED
  BY <1>1, <1>2, <1>3, StepKeepsInv DEF Open

LEMMA RenameInv ==
  ASSUME IndInv, NEW p \in Processes, NEW f \in Files, Rename(p, f)
  PROVE  IndInv'
<1>1. TypeOK'
  BY DEF IndInv, TypeOK, Steps, Rename, Goto
<1>2. /\ pc'[p] = "copy" /\ todo'[p] = todo[p] \ {f}
      /\ \A q \in Processes \ {p} : pc'[q] = pc[q] /\ todo'[q] = todo[q]
  BY DEF IndInv, TypeOK, Rename, Goto
<1>3. new'[f] = "old" /\ \A g \in Files \ {f} : new'[g] = new[g]
  BY DEF IndInv, TypeOK, Rename
<1>4. Intact' => CopiedBehind(p)'
  BY <1>2, <1>3 DEF IndInv, Rename, Intact, CopiedBehind, Copying, Behind
<1> QED
  BY <1>1, <1>2, <1>3, <1>4, StepKeepsInv DEF Rename

(* Where the removal is decided: behind the top directory nothing is left. *)
LEMMA CopiedInv == ASSUME IndInv, NEW p \in Processes, Copied(p) PROVE IndInv'
<1>1. TypeOK'
  BY DEF IndInv, TypeOK, Steps, Copied, Goto
<1>2. /\ pc'[p] = IF at[p] = Top THEN "remove" ELSE "next"
      /\ \A q \in Processes \ {p} : pc'[q] = pc[q]
  BY DEF IndInv, TypeOK, Copied, Goto
<1>3. ASSUME at[p] = Top PROVE AllNew
  <2>1. CASE ~Intact
    BY <2>1 DEF IndInv
  <2>2. CASE Intact
    <3>1. CopiedBehind(p) /\ Copying(p) /\ todo[p] = {}
      BY <2>2 DEF IndInv, Copied, Copying
    <3>2. Behind(p) = Dirs
      BY <1>3, <3>1, TreeAssumption DEF CopiedBehind, Behind
    <3>3. \A f \in Listed : Dir[f] \in Dirs
      BY TreeAssumption DEF Listed
    <3> QED
      BY <3>1, <3>2, <3>3 DEF CopiedBehind, AllNew
  <2> QED
    BY <2>1, <2>2
<1>4. Intact' => CopiedBehind(p)'
  BY <1>2 DEF IndInv, Copied, Intact, CopiedBehind, Copying, Behind
<1>5. AllNew => AllNew'
  BY DEF AllNew, Copied
<1> QED
  BY <1>1, <1>2, <1>3, <1>4, <1>5, StepKeepsInv DEF Copied

LEMMA RemoveInv ==
  ASSUME IndInv, NEW p \in Processes,
         (\E f \in Files : RemoveFile(p, f)) \/ (\E d \in Dirs : RemoveDir(p, d))
  PROVE  IndInv'
<1>1. /\ pc[p] = "remove" /\ old' \subseteq old /\ oldDirs' \subseteq oldDirs
      /\ UNCHANGED <<new, pc, subdirs, at, todo, owner, disturbed>>
  BY DEF RemoveFile, RemoveDir, processVars
<1>2. TypeOK'
  BY <1>1 DEF IndInv, TypeOK
<1>3. AllNew
  BY <1>1 DEF IndInv
<1>4. CopiedBehind(p)' /\ AllNew'
  BY <1>1, <1>3 DEF CopiedBehind, Copying, Behind, AllNew
<1> QED
  BY <1>1, <1>2, <1>3, <1>4, StepKeepsInv

LEMMA NextInv == IndInv /\ [Next]_vars => IndInv'
<1> SUFFICES ASSUME IndInv, [Next]_vars PROVE IndInv'
  OBVIOUS
<1>1. CASE UNCHANGED vars
  BY <1>1 DEF vars, processVars, IndInv, TypeOK, AllNew, Intact, CopiedBehind, Copying, Behind
<1>2. CASE Next
  <2> PICK p \in Processes :
        \/ Start(p) \/ Check(p) \/ ListDirs(p) \/ NoTop(p) \/ EnterTop(p) \/ Copied(p)
        \/ \E d \in Dirs : EnterDir(p, d) \/ NoDir(p, d) \/ RemoveDir(p, d)
        \/ \E f \in Files :
             \/ Open(p, f) \/ CannotOpen(p, f) \/ Rename(p, f) \/ CannotRename(p, f)
             \/ RemoveFile(p, f) \/ AppWrites(p, f)
        \/ Removed(p) \/ Configure(p) \/ OtherDaemonExists(p) \/ Quit(p) \/ Crash(p)
    BY <1>2 DEF Next
  <2>1. CASE \/ Start(p) \/ NoTop(p) \/ Removed(p) \/ OtherDaemonExists(p) \/ Quit(p) \/ Crash(p)
             \/ \E d \in Dirs : NoDir(p, d)
             \/ \E f \in Files : CannotOpen(p, f) \/ CannotRename(p, f)
    BY <2>1, IdleSteps
  <2>2. CASE Check(p) \/ Configure(p) \/ \E f \in Files : AppWrites(p, f)
    BY <2>2, CheckInv, ConfigureInv, AppWritesInv
  <2>3. CASE ListDirs(p) \/ EnterTop(p) \/ \E d \in Dirs : EnterDir(p, d)
    BY <2>3, ListDirsInv, EnterTopInv, EnterDirInv
  <2>4. CASE Copied(p) \/ \E f \in Files : Open(p, f) \/ Rename(p, f)
    BY <2>4, CopiedInv, OpenInv, RenameInv
  <2>5. CASE (\E f \in Files : RemoveFile(p, f)) \/ (\E d \in Dirs : RemoveDir(p, d))
    BY <2>5, RemoveInv
  <2> QED
    BY <2>1, <2>2, <2>3, <2>4, <2>5
<1> QED
  BY <1>1, <1>2

(* The inductive invariant holds: nobody removes anything before all that  *)
(* copyDirectory lists is copied.                                          *)
THEOREM Invariance == Spec => []IndInv
<1> QED
  BY InitInv, NextInv, PTL DEF Spec

(* Every variable keeps its type.                                          *)
THEOREM TypeCorrectness == Spec => []TypeOK
<1>1. IndInv => TypeOK
  BY DEF IndInv
<1> QED
  BY <1>1, Invariance, PTL

(* copyDirectory and removeRecursively together never lose a file that     *)
(* entryList lists, whatever else starts, fails or is killed meanwhile.    *)
THEOREM NoFileLost == Spec => []NothingLost
<1>1. IndInv => NothingLost
  BY DEF IndInv, Intact, AllNew, NothingLost, Listed
<1> QED
  BY <1>1, Invariance, PTL

-----------------------------------------------------------------------------
(* The identity.  Undisturbed, the first start copies all listed old files *)
(* before an application runs; from then on nothing takes them back.       *)

IdentityNew == new[Cert] = "old" /\ new[Key] = "old"

(* The files that a start with no company has still before it.             *)
Ahead(p) ==
  {f \in Files : \/ pc[p] \in {"check", "list"} \/ Dir[f] \in subdirs[p]
                 \/ Dir[f] = Top /\ ~(Copying(p) /\ at[p] = Top)
                 \/ Copying(p) /\ f \in todo[p]}

(* The first start: no other is under way, and what is ahead is not there. *)
FirstStart(p) ==
  /\ pc[p] \in {"check", "list", "next", "copy", "opened"}
  /\ \A q \in Processes \ {p} : pc[q] = "off"
  /\ \A f \in Ahead(p) : new[f] = "nothing"
  /\ Copying(p) => at[p] \notin subdirs[p] /\ todo[p] \subseteq FilesOf(at[p])

(* No start has been through the migration yet.                            *)
Unmigrated ==
  /\ Intact /\ owner = Nobody
  /\ \/ (\A p \in Processes : pc[p] = "off") /\ \A f \in Files : new[f] = "nothing"
     \/ \E p \in Processes : FirstStart(p)

QuietInv == disturbed \/ IdentityNew \/ Unmigrated

(* Copies stay, so an identity that has arrived stays.                     *)
LEMMA IdentityStays == ASSUME IndInv, IdentityNew, [Next]_vars PROVE IdentityNew'
<1>1. Cert \in Files /\ Key \in Files
  BY TreeAssumption
<1>2. CASE new' = new
  BY <1>2 DEF IdentityNew
<1>3. ASSUME NEW p \in Processes, Configure(p) PROVE IdentityNew'
  BY <1>1, <1>3 DEF Configure, IdentityNew
<1>4. ASSUME NEW p \in Processes, NEW f \in Files, AppWrites(p, f) PROVE IdentityNew'
  BY <1>1, <1>4 DEF AppWrites, IdentityNew, IndInv, TypeOK
<1>5. ASSUME NEW p \in Processes, NEW f \in Files, Rename(p, f) PROVE IdentityNew'
  BY <1>1, <1>5 DEF Rename, IdentityNew, IndInv, TypeOK
<1>6. CASE UNCHANGED vars
  BY <1>6, <1>2 DEF vars
<1>7. CASE Next
  BY <1>2, <1>3, <1>4, <1>5, <1>7
  DEF Next, Start, Check, ListDirs, NoTop, EnterTop, Copied, EnterDir, NoDir, RemoveDir, Open,
      CannotOpen, CannotRename, RemoveFile, Removed, OtherDaemonExists, Quit, Crash, GiveUp
<1>. QED BY <1>6, <1>7

(* The first start goes on undisturbed.                                    *)
LEMMA FirstStartGoesOn ==
  ASSUME IndInv, Intact, owner = Nobody, NEW p \in Processes, FirstStart(p), IndInv', ~disturbed',
         \/ Check(p) \/ ListDirs(p) \/ EnterTop(p) \/ Copied(p)
         \/ \E d \in Dirs : EnterDir(p, d)
         \/ \E f \in Files : Open(p, f) \/ Rename(p, f)
  PROVE  QuietInv'
<1>. USE TreeAssumption
<1>1. TypeOK /\ old = Files /\ oldDirs = Dirs /\ Cert \in Files /\ Key \in Files
  BY DEF IndInv, Intact
<1>2. SUFFICES \/ pc'[p] = "remove"
               \/ /\ UNCHANGED <<old, oldDirs, owner>> /\ FirstStart(p)'
  <2>1. CASE pc'[p] = "remove"
    <3>1. AllNew'
      BY <2>1 DEF IndInv
    <3>2. Cert \in Listed /\ Key \in Listed
      BY <1>1 DEF Listed
    <3>. QED BY <3>1, <3>2 DEF AllNew, IdentityNew, QuietInv
  <2>2. CASE UNCHANGED <<old, oldDirs, owner>> /\ FirstStart(p)'
    BY <2>2 DEF Intact, Unmigrated, QuietInv
  <2>. QED BY <2>1, <2>2
<1>3. \A q \in Processes \ {p} : pc'[q] = "off"
  BY <1>1 DEF FirstStart, Check, ListDirs, EnterTop, Copied, EnterDir, Open, Rename, Goto, TypeOK
<1>4. CASE Check(p)
  <2>1. new[Cert] = "nothing" /\ pc[p] = "check"
    BY <1>1, <1>4 DEF Check, FirstStart, Ahead
  <2>2. pc'[p] = "list"
    BY <1>1, <1>4, <2>1 DEF Check, Goto, TypeOK
  <2>. QED BY <1>3, <1>4, <2>1, <2>2 DEF Check, FirstStart, Ahead, Copying
<1>5. CASE ListDirs(p)
  <2>1. pc'[p] = "next" /\ pc[p] = "list"
    BY <1>1, <1>5 DEF ListDirs, Goto, TypeOK
  <2>. QED BY <1>3, <1>5, <2>1 DEF ListDirs, FirstStart, Ahead, Copying
<1>6. CASE EnterTop(p)
  <2>1. /\ pc'[p] = "copy" /\ pc[p] = "next" /\ at'[p] = Top
        /\ todo'[p] = FilesOf(Top) \ HiddenFiles
        /\ subdirs[p] = {}
    BY <1>1, <1>6 DEF EnterTop, Goto, TypeOK, entryList, FilesOf
  <2>2. Ahead(p)' \subseteq Ahead(p)
    BY <1>6, <2>1 DEF EnterTop, Ahead, Copying, FilesOf
  <2>. QED BY <1>3, <1>6, <2>1, <2>2 DEF EnterTop, FirstStart, Copying
<1>7. ASSUME NEW d \in Dirs, EnterDir(p, d) PROVE FirstStart(p)'
  <2>1. /\ pc'[p] = "copy" /\ pc[p] = "next" /\ at'[p] = d
        /\ todo'[p] = FilesOf(d) \ HiddenFiles
        /\ d \in subdirs[p] /\ subdirs'[p] = subdirs[p] \ {d} /\ d # Top
    BY <1>1, <1>7 DEF EnterDir, Goto, TypeOK, entryList, FilesOf
  <2>2. Ahead(p)' \subseteq Ahead(p)
    BY <1>7, <2>1 DEF EnterDir, Ahead, Copying, FilesOf
  <2>. QED BY <1>3, <1>7, <2>1, <2>2 DEF EnterDir, FirstStart, Copying
<1>8. ASSUME NEW f \in Files, Open(p, f) PROVE FirstStart(p)'
  <2>1. pc'[p] = "opened" /\ pc[p] = "copy"
    BY <1>1, <1>8 DEF Open, Goto, TypeOK
  <2>2. Ahead(p)' = Ahead(p)
    BY <1>8, <2>1 DEF Open, Ahead, Copying
  <2>. QED BY <1>3, <1>8, <2>1, <2>2 DEF Open, FirstStart, Copying
<1>9. ASSUME NEW f \in Files, Rename(p, f) PROVE FirstStart(p)'
  <2>1. /\ pc'[p] = "copy" /\ pc[p] = "opened" /\ f \in todo[p] /\ todo'[p] = todo[p] \ {f}
        /\ \A g \in Files \ {f} : new'[g] = new[g]
    BY <1>1, <1>9 DEF Rename, Goto, TypeOK, IsFirst
  <2>2. Dir[f] = at[p] /\ at[p] \notin subdirs[p]
    BY <2>1 DEF FirstStart, Copying, FilesOf
  <2>3. Ahead(p)' \subseteq Ahead(p) \ {f}
    BY <1>9, <2>1, <2>2 DEF Rename, Ahead, Copying
  <2>4. Ahead(p)' \subseteq Files
    BY DEF Ahead
  <2>. QED BY <1>3, <1>9, <2>1, <2>2, <2>3, <2>4 DEF Rename, FirstStart, Copying
<1>10. CASE Copied(p)
  <2>1. /\ pc'[p] = IF at[p] = Top THEN "remove" ELSE "next"
        /\ pc[p] = "copy" /\ todo[p] = {}
    BY <1>1, <1>10 DEF Copied, Goto, TypeOK
  <2>2. CASE at[p] # Top
    <3>1. Ahead(p)' = Ahead(p)
      BY <1>10, <2>1, <2>2 DEF Copied, Ahead, Copying
    <3>. QED BY <1>3, <1>10, <2>1, <2>2, <3>1 DEF Copied, FirstStart, Copying
  <2>. QED BY <2>1, <2>2
<1>. QED
  BY <1>4, <1>5, <1>6, <1>7, <1>8, <1>9, <1>10
  DEF Check, ListDirs, EnterTop, Copied, EnterDir, Open, Rename

(* The steps of a start that is under way.                                 *)
OtherStep(p) ==
  \/ Check(p) \/ ListDirs(p) \/ NoTop(p) \/ EnterTop(p) \/ Copied(p)
  \/ \E d \in Dirs : EnterDir(p, d) \/ NoDir(p, d) \/ RemoveDir(p, d)
  \/ \E f \in Files :
       \/ Open(p, f) \/ CannotOpen(p, f) \/ Rename(p, f) \/ CannotRename(p, f)
       \/ RemoveFile(p, f) \/ AppWrites(p, f)
  \/ Removed(p) \/ Configure(p) \/ OtherDaemonExists(p) \/ Quit(p) \/ Crash(p)

LEMMA OthersAreUp ==
  /\ \A p \in Processes : OtherStep(p) => pc[p] # "off"
  /\ Next => \E p \in Processes : Start(p) \/ OtherStep(p)
<1>1. ASSUME NEW p \in Processes, OtherStep(p) PROVE pc[p] # "off"
  <2>1. CASE \E d \in Dirs : EnterDir(p, d) \/ NoDir(p, d) \/ RemoveDir(p, d)
    BY <2>1 DEF EnterDir, NoDir, RemoveDir
  <2>2. CASE \E f \in Files : \/ Open(p, f) \/ CannotOpen(p, f) \/ Rename(p, f)
                              \/ CannotRename(p, f) \/ RemoveFile(p, f) \/ AppWrites(p, f)
    BY <2>2 DEF Open, CannotOpen, Rename, CannotRename, RemoveFile, AppWrites
  <2>3. CASE \/ Check(p) \/ ListDirs(p) \/ NoTop(p) \/ EnterTop(p) \/ Copied(p) \/ Removed(p)
             \/ Configure(p) \/ OtherDaemonExists(p) \/ Quit(p) \/ Crash(p)
    BY <2>3 DEF Check, ListDirs, NoTop, EnterTop, Copied, Removed, Configure, OtherDaemonExists,
                Quit, Crash
  <2>. QED BY <1>1, <2>1, <2>2, <2>3 DEF OtherStep
<1>2. Next => \E p \in Processes : Start(p) \/ OtherStep(p)
  BY DEF Next, OtherStep
<1>. QED BY <1>1, <1>2

(* Whatever else the first start or its company could do disturbs it.      *)
LEMMA FirstStartIsAlone ==
  ASSUME IndInv, Intact, owner = Nobody, NEW r \in Processes, FirstStart(r), Next, ~disturbed',
         disturbed' \in BOOLEAN
  PROVE  \/ Check(r) \/ ListDirs(r) \/ EnterTop(r) \/ Copied(r)
         \/ \E d \in Dirs : EnterDir(r, d)
         \/ \E f \in Files : Open(r, f) \/ Rename(r, f)
<1>. USE TreeAssumption
<1>1. /\ TypeOK /\ old = Files /\ oldDirs = Dirs /\ Top \in Dirs
      /\ pc[r] \in {"check", "list", "next", "copy", "opened"}
      /\ \A q \in Processes \ {r} : pc[q] = "off"
  BY DEF IndInv, Intact, FirstStart
<1>2. PICK p \in Processes : Start(p) \/ OtherStep(p)
  BY DEF Next, OtherStep
<1>3. ~Start(p)
  BY <1>1 DEF Start
<1>4. p = r
  BY <1>1, <1>2, <1>3, OthersAreUp
<1>5. ~NoTop(p) /\ ~Crash(p)
  BY <1>1 DEF NoTop, Crash
<1>6. ASSUME NEW d \in Dirs PROVE ~NoDir(p, d)
  BY <1>1 DEF NoDir, GiveUp
<1>7. ASSUME NEW f \in Files PROVE ~CannotOpen(p, f) /\ ~CannotRename(p, f)
  <2>1. ASSUME IsFirst(f, todo[p]), Copying(p) PROVE new[f] = "nothing"
    BY <1>4, <2>1 DEF IsFirst, FirstStart, Ahead
  <2>. QED BY <1>1, <2>1 DEF CannotOpen, CannotRename, GiveUp, Copying
<1>8. pc[p] \notin {"remove", "app", "config"}
  BY <1>1, <1>4
<1>. QED
  BY <1>2, <1>3, <1>4, <1>5, <1>6, <1>7, <1>8
  DEF OtherStep, RemoveDir, RemoveFile, AppWrites, Removed, Configure, OtherDaemonExists, Quit

LEMMA NextQuietInv == ASSUME IndInv, IndInv', QuietInv, [Next]_vars PROVE QuietInv'
<1>1. CASE UNCHANGED vars
  BY <1>1 DEF vars, processVars, QuietInv, IdentityNew, Unmigrated, Intact, FirstStart, Ahead,
              Copying
<1>2. CASE disturbed'
  BY <1>2 DEF QuietInv
<1>3. CASE IdentityNew
  BY <1>3, IdentityStays DEF QuietInv
<1>4. ASSUME Next, ~disturbed', Unmigrated PROVE QuietInv'
  <2>1. CASE \E r \in Processes : FirstStart(r)
    <3>1. PICK r \in Processes : FirstStart(r)
      BY <2>1
    <3>2. disturbed' \in BOOLEAN
      BY DEF IndInv, TypeOK
    <3>. QED BY <1>4, <3>1, <3>2, FirstStartIsAlone, FirstStartGoesOn DEF Unmigrated
  <2>2. CASE (\A p \in Processes : pc[p] = "off") /\ \A f \in Files : new[f] = "nothing"
    <3>1. PICK p \in Processes : Start(p)
      BY <1>4, <2>2, OthersAreUp
    <3>2. pc'[p] = "check" /\ \A q \in Processes \ {p} : pc'[q] = "off"
      BY <2>2, <3>1 DEF Start, Goto, IndInv, TypeOK
    <3>3. FirstStart(p)'
      BY <2>2, <3>1, <3>2 DEF Start, FirstStart, Ahead, Copying
    <3>. QED BY <1>4, <3>1, <3>3 DEF Start, Unmigrated, Intact, QuietInv
  <2>. QED BY <1>4, <2>1, <2>2 DEF Unmigrated
<1>5. disturbed => disturbed'
  <2>1. ASSUME NEW p \in Processes, Start(p) \/ OtherStep(p), disturbed PROVE disturbed'
    <3>1. CASE \E d \in Dirs : EnterDir(p, d) \/ NoDir(p, d) \/ RemoveDir(p, d)
      BY <2>1, <3>1 DEF EnterDir, NoDir, RemoveDir, GiveUp
    <3>2. CASE \E f \in Files : \/ Open(p, f) \/ CannotOpen(p, f) \/ Rename(p, f)
                                \/ CannotRename(p, f) \/ RemoveFile(p, f) \/ AppWrites(p, f)
      BY <2>1, <3>2 DEF Open, CannotOpen, Rename, CannotRename, RemoveFile, AppWrites, GiveUp
    <3>3. CASE \/ Start(p) \/ Check(p) \/ ListDirs(p) \/ NoTop(p) \/ EnterTop(p) \/ Copied(p)
               \/ Removed(p) \/ Configure(p) \/ OtherDaemonExists(p) \/ Quit(p) \/ Crash(p)
      BY <2>1, <3>3 DEF Start, Check, ListDirs, NoTop, EnterTop, Copied, Removed, Configure,
                        OtherDaemonExists, Quit, Crash, GiveUp
    <3>. QED BY <2>1, <3>1, <3>2, <3>3 DEF OtherStep
  <2>2. CASE UNCHANGED vars
    BY <2>2 DEF vars
  <2>. QED BY <2>1, <2>2, OthersAreUp
<1>. QED BY <1>1, <1>2, <1>3, <1>4, <1>5 DEF QuietInv

(* A start that nothing disturbs leaves the application the identity it    *)
(* had: certificate and key together (migrateOldInstallation, main).       *)
THEOREM IdentityIsKept == Spec => []IdentityKept
<1>1. Init => QuietInv
  BY DEF Init, QuietInv, Unmigrated, Intact
<1>2. IndInv /\ IndInv' /\ QuietInv /\ [Next]_vars => QuietInv'
  BY NextQuietInv
<1>3. QuietInv => IdentityKept
  BY DEF QuietInv, IdentityNew, Unmigrated, IdentityKept
<1>. QED BY <1>1, <1>2, <1>3, Invariance, PTL DEF Spec

=============================================================================
