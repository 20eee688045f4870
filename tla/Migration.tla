------------------------------ MODULE Migration -----------------------------
(***************************************************************************)
(* migrateOldInstallation (app/src/sailfishconnect.cpp): at each start, an *)
(* old configuration directory is copied to its new place, file by file,   *)
(* and removed when all of it has been copied.  It runs before the D-Bus   *)
(* name is taken, so that several starts (by the user, by systemd) may be  *)
(* at it together, and each may be killed between any two of its steps.    *)
(*                                                                         *)
(* QFile::copy writes a temporary file and renames it: a copy is there as  *)
(* a whole or not at all, and never in the place of an existing file.      *)
(* What is copied is what entryList lists; what is removed is everything.  *)
(* What the application then does with the new directory (KdeConnectConfig *)
(* and the plugins' settings) is external: it creates what it misses.      *)
(***************************************************************************)
EXTENDS Integers

CONSTANTS
  Processes,  \* starts of the application that may run at the same time
  Files,      \* the files of the old installation
  Dirs,       \* its directories, numbered in the order they are listed
  Top,        \* the old directory itself; the others are directly below it
  Dir,        \* the directory each file is in
  Rank,       \* the place of each file in its directory's listing, by name
  Cert, Key,  \* certificate.pem and privateKey.pem, in the top directory
  HiddenFiles, HiddenDirs,  \* those that entryList leaves out, asked neither
              \* for hidden nor for system entries: names that begin with a
              \* dot, links that lead nowhere, links to directories
  Faults      \* what may go wrong: "crash", "io", "parallel" starts

ASSUME TreeAssumption ==
  /\ Dirs \subseteq Nat /\ Top \in Dirs
  /\ Dir \in [Files -> Dirs] /\ Rank \in [Files -> Nat]
  /\ Cert \in Files /\ Key \in Files /\ Dir[Cert] = Top /\ Dir[Key] = Top
  /\ HiddenFiles \subseteq Files \ {Cert, Key} /\ HiddenDirs \subseteq Dirs \ {Top}
ASSUME FaultsAssumption == Faults \subseteq {"crash", "io", "parallel"}

VARIABLES
  old,       \* the files that are in the old place
  oldDirs,   \* the directories that are in the old place
  new,       \* at the new place: nothing, the "old" file, or a "fresh" one
  pc,        \* what each start is doing
  subdirs,   \* listed directories it has not copied yet
  at,        \* the directory it is copying
  todo,      \* the listed files of it that are not copied yet
  owner,     \* who holds the D-Bus name
  disturbed  \* a start was cut short, failed to copy or had company (history)

processVars == <<pc, subdirs, at, todo>>
vars == <<old, oldDirs, new, processVars, owner, disturbed>>

Nobody == "nobody"

FilesOf(d) == {f \in Files : Dir[f] = d}

(* What entryList(QDir::Files) tells of a directory.                       *)
entryList(d) == (old \cap FilesOf(d)) \ HiddenFiles

(* The files that copyDirectory comes to list, if nothing happens to it.   *)
Listed == {f \in Files \ HiddenFiles : Dir[f] \notin HiddenDirs}

(* The first of some listed files.                                         *)
IsFirst(f, S) == f \in S /\ \A g \in S : Rank[f] <= Rank[g]

Init ==
  /\ old = Files /\ oldDirs = Dirs
  /\ new = [f \in Files |-> "nothing"]
  /\ pc = [p \in Processes |-> "off"]
  /\ subdirs = [p \in Processes |-> {}]
  /\ at = [p \in Processes |-> Top]
  /\ todo = [p \in Processes |-> {}]
  /\ owner = Nobody
  /\ disturbed = FALSE

(* p goes on to another step.                                              *)
Goto(p, step) == pc' = [pc EXCEPT ![p] = step]

(* copyDirectory returns false, for a disturbance or for what it found: the *)
(* start goes on with what there is.                                       *)
GiveUp(p, disturbance) ==
  /\ Goto(p, "config")
  /\ disturbed' = (disturbed \/ disturbance)
  /\ UNCHANGED <<old, oldDirs, new, subdirs, at, todo, owner>>

-----------------------------------------------------------------------------

Start(p) ==
  /\ pc[p] = "off"
  /\ "parallel" \in Faults \/ \A q \in Processes : pc[q] \in {"off", "app"}
  /\ Goto(p, "check")
  /\ disturbed' = (disturbed \/ \E q \in Processes : pc[q] \notin {"off", "app"})
  /\ UNCHANGED <<old, oldDirs, new, subdirs, at, todo, owner>>

(* (Names with an underscore are faulty variants, the mutants that show    *)
(* that the properties notice: each stands before what it is a fault of.)  *)

(* Fault: the test for the new certificate is turned round.                *)
Check_Swapped(p) ==
  /\ pc[p] = "check"
  /\ Goto(p, IF Cert \in old /\ new[Cert] # "nothing" THEN "list" ELSE "config")
  /\ UNCHANGED <<old, oldDirs, new, subdirs, at, todo, owner, disturbed>>

(* The two certificates decide whether there is something to migrate.      *)
Check(p) ==
  /\ pc[p] = "check"
  /\ Goto(p, IF Cert \in old /\ new[Cert] = "nothing" THEN "list" ELSE "config")
  /\ UNCHANGED <<old, oldDirs, new, subdirs, at, todo, owner, disturbed>>

(* copyDirectory of the top directory: its directories are listed first.   *)
ListDirs(p) ==
  /\ pc[p] = "list" /\ Top \in oldDirs
  /\ Goto(p, "next")
  /\ subdirs' = [subdirs EXCEPT ![p] = oldDirs \ (HiddenDirs \cup {Top})]
  /\ UNCHANGED <<old, oldDirs, new, at, todo, owner, disturbed>>

NoTop(p) == pc[p] = "list" /\ Top \notin oldDirs /\ GiveUp(p, FALSE)

(* copyDirectory of a directory: its files are listed.                     *)
EnterDir(p, d) ==
  /\ pc[p] = "next"
  /\ d \in subdirs[p] /\ \A c \in subdirs[p] : d <= c
  /\ d \in oldDirs
  /\ Goto(p, "copy")
  /\ subdirs' = [subdirs EXCEPT ![p] = @ \ {d}]
  /\ at' = [at EXCEPT ![p] = d]
  /\ todo' = [todo EXCEPT ![p] = entryList(d)]
  /\ UNCHANGED <<old, oldDirs, new, owner, disturbed>>

(* It is gone, or its place cannot be made.                                *)
NoDir(p, d) ==
  /\ pc[p] = "next"
  /\ d \in subdirs[p] /\ \A c \in subdirs[p] : d <= c
  /\ \/ d \notin oldDirs /\ GiveUp(p, FALSE)
     \/ "io" \in Faults /\ GiveUp(p, TRUE)

(* At last the files of the top directory; one that is gone has none.      *)
EnterTop(p) ==
  /\ pc[p] = "next" /\ subdirs[p] = {}
  /\ Goto(p, "copy")
  /\ at' = [at EXCEPT ![p] = Top]
  /\ todo' = [todo EXCEPT ![p] = entryList(Top)]
  /\ UNCHANGED <<old, oldDirs, new, subdirs, owner, disturbed>>

(* QFile::copy: it fails at once if the target exists, or opens the source.*)
Open(p, f) ==
  /\ pc[p] = "copy" /\ IsFirst(f, todo[p])
  /\ new[f] = "nothing" /\ f \in old
  /\ Goto(p, "opened")
  /\ UNCHANGED <<old, oldDirs, new, subdirs, at, todo, owner, disturbed>>

(* Fault: what exists already counts as copied.                            *)
CannotOpen_Skips(p, f) ==
  /\ pc[p] = "copy" /\ IsFirst(f, todo[p])
  /\ new[f] # "nothing"
  /\ todo' = [todo EXCEPT ![p] = @ \ {f}]
  /\ UNCHANGED <<old, oldDirs, new, pc, subdirs, at, owner, disturbed>>

CannotOpen(p, f) ==
  /\ pc[p] = "copy" /\ IsFirst(f, todo[p])
  /\ \/ (new[f] # "nothing" \/ f \notin old) /\ GiveUp(p, FALSE)
     \/ "io" \in Faults /\ GiveUp(p, TRUE)

(* QFile::copy renames what it has copied, unless the target is there now. *)
Rename(p, f) ==
  /\ pc[p] = "opened" /\ IsFirst(f, todo[p])
  /\ new[f] = "nothing"
  /\ new' = [new EXCEPT ![f] = "old"]
  /\ todo' = [todo EXCEPT ![p] = @ \ {f}]
  /\ Goto(p, "copy")
  /\ UNCHANGED <<old, oldDirs, subdirs, at, owner, disturbed>>

CannotRename(p, f) ==
  /\ pc[p] = "opened" /\ IsFirst(f, todo[p])
  /\ \/ new[f] # "nothing" /\ GiveUp(p, FALSE)
     \/ "io" \in Faults /\ GiveUp(p, TRUE)

(* A directory is copied: the next one, or all is done.                    *)
Copied(p) ==
  /\ pc[p] = "copy" /\ todo[p] = {}
  /\ Goto(p, IF at[p] = Top THEN "remove" ELSE "next")
  /\ UNCHANGED <<old, oldDirs, new, subdirs, at, todo, owner, disturbed>>

(* QDir::removeRecursively, in the order the file system lists: it removes *)
(* hidden entries and links, too.                                          *)
RemoveFile(p, f) ==
  /\ pc[p] = "remove" /\ f \in old
  /\ old' = old \ {f}
  /\ UNCHANGED <<oldDirs, new, processVars, owner, disturbed>>

RemoveDir(p, d) ==
  /\ pc[p] = "remove" /\ d \in oldDirs
  /\ old \cap FilesOf(d) = {}
  /\ d = Top => oldDirs = {Top}
  /\ oldDirs' = oldDirs \ {d}
  /\ UNCHANGED <<old, new, processVars, owner, disturbed>>

Removed(p) ==
  /\ pc[p] = "remove"
  /\ oldDirs = {} \/ "io" \in Faults
  /\ Goto(p, "config")
  /\ UNCHANGED <<old, oldDirs, new, subdirs, at, todo, owner, disturbed>>

(* The rest of main(): who takes the name loads the configuration, and     *)
(* makes a certificate and a key if there are none.  Others end here.      *)
Configure(p) ==
  /\ pc[p] = "config" /\ owner = Nobody
  /\ owner' = p
  /\ new' = [f \in Files |-> IF f \in {Cert, Key} /\ new[f] = "nothing" THEN "fresh" ELSE new[f]]
  /\ Goto(p, "app")
  /\ UNCHANGED <<old, oldDirs, subdirs, at, todo, disturbed>>

OtherDaemonExists(p) ==
  /\ pc[p] = "config" /\ owner # Nobody
  /\ Goto(p, "off")
  /\ UNCHANGED <<old, oldDirs, new, subdirs, at, todo, owner, disturbed>>

(* The application writes a file of its configuration.                     *)
AppWrites(p, f) ==
  /\ pc[p] = "app" /\ new[f] = "nothing"
  /\ new' = [new EXCEPT ![f] = "fresh"]
  /\ UNCHANGED <<old, oldDirs, processVars, owner, disturbed>>

Quit(p) ==
  /\ pc[p] = "app"
  /\ owner' = Nobody
  /\ Goto(p, "off")
  /\ UNCHANGED <<old, oldDirs, new, subdirs, at, todo, disturbed>>

(* A start is killed; what it has written stays.                           *)
Crash(p) ==
  /\ "crash" \in Faults /\ pc[p] \notin {"off", "app"}
  /\ Goto(p, "off")
  /\ disturbed' = TRUE
  /\ UNCHANGED <<old, oldDirs, new, subdirs, at, todo, owner>>

Next ==
  \E p \in Processes :
    \/ Start(p) \/ Check(p) \/ ListDirs(p) \/ NoTop(p) \/ EnterTop(p) \/ Copied(p)
    \/ \E d \in Dirs : EnterDir(p, d) \/ NoDir(p, d) \/ RemoveDir(p, d)
    \/ \E f \in Files :
         \/ Open(p, f) \/ CannotOpen(p, f) \/ Rename(p, f) \/ CannotRename(p, f)
         \/ RemoveFile(p, f) \/ AppWrites(p, f)
    \/ Removed(p) \/ Configure(p) \/ OtherDaemonExists(p) \/ Quit(p) \/ Crash(p)

Spec == Init /\ [][Next]_vars

-----------------------------------------------------------------------------
(* Properties.                                                             *)

Steps == {"off", "check", "list", "next", "copy", "opened", "remove", "config", "app"}

TypeOK ==
  /\ old \subseteq Files /\ oldDirs \subseteq Dirs
  /\ new \in [Files -> {"nothing", "old", "fresh"}]
  /\ pc \in [Processes -> Steps]
  /\ subdirs \in [Processes -> SUBSET (Dirs \ {Top})]
  /\ at \in [Processes -> Dirs]
  /\ todo \in [Processes -> SUBSET Files]
  /\ owner \in Processes \cup {Nobody}
  /\ disturbed \in BOOLEAN

(* No file that copyDirectory lists is ever lost, whenever starts are cut  *)
(* short and however many run at once: it is in its old place, or its copy *)
(* is in the new one.  (What it does not list, hidden files and all below  *)
(* hidden directories, is removed uncopied by the first start that gets    *)
(* through: the properties of the old installation end at its listing.)    *)
NothingLost == \A f \in Listed : f \in old \/ new[f] = "old"

(* A certificate and a key that belong together: starts that were neither  *)
(* cut short nor disturbed give the application the old ones, both.        *)
IdentityKept == ~disturbed /\ owner # Nobody => new[Cert] = "old" /\ new[Key] = "old"

(* All that copyDirectory lists has its copy.                              *)
AllNew == \A f \in Listed : new[f] = "old"

(* Nothing has been removed yet.                                           *)
Intact == old = Files /\ oldDirs = Dirs

Copying(p) == pc[p] \in {"copy", "opened"}

(* The directories a start has behind it, or is in.                        *)
Behind(p) ==
  {d \in Dirs \ {Top} : d \notin subdirs[p] /\ (pc[p] = "next" \/ Copying(p))}
    \cup (IF Copying(p) THEN {at[p]} ELSE {})

(* Their listed files have copies, but for those that are still to do.     *)
CopiedBehind(p) ==
  /\ Copying(p) /\ at[p] = Top => subdirs[p] = {}
  /\ \A f \in Listed :
       Dir[f] \in Behind(p) /\ ~(Copying(p) /\ f \in todo[p]) => new[f] = "old"

(* The inductive invariant of the proof: nobody begins to remove, and      *)
(* nothing is removed, before all that is listed is copied.                *)
IndInv ==
  /\ TypeOK
  /\ (\E p \in Processes : pc[p] = "remove") => AllNew
  /\ ~Intact => AllNew
  /\ Intact => \A p \in Processes : CopiedBehind(p)

=============================================================================
