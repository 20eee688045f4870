------------------------------- MODULE AppStart ------------------------------
(***************************************************************************)
(* Starts of the application after the migration (main() and ui.cpp): the  *)
(* first to get the D-Bus name shows the window and runs on, a later one   *)
(* asks the first to show its window and ends.  Closing the window ends    *)
(* the application or, in background mode, hides it; background mode is a  *)
(* setting on disk, and a systemd service that systemctl enables and       *)
(* disables beside the running application.                                *)
(*                                                                         *)
(* The bus and systemd are external.  The bus delivers a call once the     *)
(* receiver's event loop runs, and answers for a receiver that is gone.    *)
(***************************************************************************)
EXTENDS Integers, Sequences, SequencesExt

CONSTANTS
  Processes,  \* starts that may be under way at the same time
  MaxCalls,   \* bound: while so many systemctl run the user does nothing
  Faults      \* "reorder": a later systemctl may be done before an earlier;
              \* "kill": it may be killed with the application's end

ASSUME AppStartAssumption ==
  MaxCalls \in Nat /\ Faults \subseteq {"reorder", "kill"}

VARIABLES
  pc,          \* what each start is doing
  daemonMode,  \* it was started with --daemon
  owner,       \* who holds the D-Bus name
  view,        \* its window: "none", "shown" or "hidden"
  m_runInBackground,
  setting,     \* runInBackground on disk
  enabled,     \* systemd starts the service with the session
  calls        \* the running systemctl processes, with what they are to set

vars == <<pc, daemonMode, owner, view, m_runInBackground, setting, enabled, calls>>
diskVars == <<m_runInBackground, setting, enabled, calls>>

Nobody == "nobody"
ASSUME NobodyAssumption == Nobody \notin Processes

Init ==
  /\ pc = [p \in Processes |-> "off"]
  /\ daemonMode = [p \in Processes |-> FALSE]
  /\ owner = Nobody
  /\ view = [p \in Processes |-> "none"]
  /\ m_runInBackground = FALSE
  /\ setting \in BOOLEAN /\ enabled = setting
  /\ calls = <<>>

Launch(p, daemon) ==
  /\ pc[p] = "off" /\ Len(calls) < MaxCalls
  /\ pc' = [pc EXCEPT ![p] = "starting"]
  /\ daemonMode' = [daemonMode EXCEPT ![p] = daemon]
  /\ UNCHANGED <<owner, view, diskVars>>

(* (Names with an underscore are faulty variants, the mutants that show    *)
(* that the properties notice: each stands before what it is a fault of.)  *)

(* Fault: without the name the start goes on all the same.                 *)
OtherDaemonExists_GoesOn(p) ==
  /\ pc[p] = "starting" /\ owner # Nobody
  /\ pc' = [pc EXCEPT ![p] = IF daemonMode[p] THEN "registered" ELSE "raising"]
  /\ UNCHANGED <<daemonMode, owner, view, diskVars>>

(* Fault: a plain start ends like a daemon's.                              *)
OtherDaemonExists_NoRaise(p) ==
  /\ pc[p] = "starting" /\ owner # Nobody
  /\ pc' = [pc EXCEPT ![p] = "off"]
  /\ UNCHANGED <<daemonMode, owner, view, diskVars>>

RegisterService(p) ==
  /\ pc[p] = "starting" /\ owner = Nobody
  /\ owner' = p
  /\ pc' = [pc EXCEPT ![p] = "registered"]
  /\ UNCHANGED <<daemonMode, view, diskVars>>

OtherDaemonExists(p) ==
  /\ pc[p] = "starting" /\ owner # Nobody
  /\ pc' = [pc EXCEPT ![p] = IF daemonMode[p] THEN "off" ELSE "raising"]
  /\ UNCHANGED <<daemonMode, owner, view, diskVars>>

(* UI::setRunInBackground: a change is stored and given to a systemctl.    *)
setRunInBackground(value) ==
  IF value = m_runInBackground
  THEN UNCHANGED diskVars
  ELSE /\ m_runInBackground' = value /\ setting' = value
       /\ calls' = Append(calls, value)
       /\ UNCHANGED enabled

(* The rest of main(): the UI, its window (whatever the mode), the loop.   *)
ShowFirstWindow(p) ==
  /\ pc[p] = "registered"
  /\ pc' = [pc EXCEPT ![p] = "running"]
  /\ view' = [view EXCEPT ![p] = "shown"]
  /\ setRunInBackground(setting)
  /\ UNCHANGED <<daemonMode, owner>>

(* UI::raise, and showMainWindow in the process that holds the name.       *)
Raise(p) ==
  /\ pc[p] = "raising" /\ owner # Nobody /\ pc[owner] = "running"
  /\ pc' = [pc EXCEPT ![p] = "off"]
  /\ view' = [view EXCEPT ![owner] = "shown"]
  /\ UNCHANGED <<daemonMode, owner, diskVars>>

(* The call fails: the other is ending, or gone.                           *)
RaiseFails(p) ==
  /\ pc[p] = "raising" /\ ~(owner # Nobody /\ pc[owner] # "quitting")
  /\ pc' = [pc EXCEPT ![p] = "off"]
  /\ UNCHANGED <<daemonMode, owner, view, diskVars>>

(* Fault: closing never ends the application.                              *)
Close_Hides(p) ==
  /\ pc[p] = "running" /\ view[p] = "shown"
  /\ view' = [view EXCEPT ![p] = "hidden"]
  /\ UNCHANGED <<pc, daemonMode, owner, diskVars>>

(* The window is closed.                                                   *)
Close(p) ==
  /\ pc[p] = "running" /\ view[p] = "shown"
  /\ view' = [view EXCEPT ![p] = "hidden"]
  /\ pc' = [pc EXCEPT ![p] = IF m_runInBackground THEN "running" ELSE "quitting"]
  /\ UNCHANGED <<daemonMode, owner, diskVars>>

(* UI::quit over D-Bus or from the pulley menu.                            *)
quit(p) ==
  /\ pc[p] = "running"
  /\ pc' = [pc EXCEPT ![p] = "quitting"]
  /\ UNCHANGED <<daemonMode, owner, view, diskVars>>

(* The process ends: the bus frees the name, and ~QProcess kills every     *)
(* systemctl that still runs, unless that has done its work already.       *)
Exit(p) ==
  /\ pc[p] = "quitting"
  /\ pc' = [pc EXCEPT ![p] = "off"]
  /\ owner' = Nobody
  /\ view' = [view EXCEPT ![p] = "none"]
  /\ m_runInBackground' = FALSE
  /\ calls' = IF "kill" \in Faults THEN <<>> ELSE calls
  /\ UNCHANGED <<daemonMode, setting, enabled>>

(* The settings page.                                                      *)
UserSets(p) ==
  /\ pc[p] = "running" /\ view[p] = "shown" /\ Len(calls) < MaxCalls
  /\ setRunInBackground(~m_runInBackground)
  /\ UNCHANGED <<pc, daemonMode, owner, view>>

(* A systemctl has done its work.                                          *)
SystemctlDone(i) ==
  /\ i \in DOMAIN calls
  /\ i = 1 \/ "reorder" \in Faults
  /\ enabled' = calls[i]
  /\ calls' = RemoveAt(calls, i)
  /\ UNCHANGED <<pc, daemonMode, owner, view, m_runInBackground, setting>>

Next ==
  \/ \E p \in Processes :
       \/ Launch(p, TRUE) \/ Launch(p, FALSE)
       \/ RegisterService(p) \/ OtherDaemonExists(p) \/ ShowFirstWindow(p)
       \/ Raise(p) \/ RaiseFails(p)
       \/ Close(p) \/ quit(p) \/ Exit(p) \/ UserSets(p)
  \/ \E i \in DOMAIN calls : SystemctlDone(i)

(* A process that runs goes on; a process that quits ends.  Nobody need    *)
(* start, close or change anything.                                        *)
Fairness ==
  /\ \A p \in Processes :
       WF_vars(RegisterService(p) \/ OtherDaemonExists(p) \/ ShowFirstWindow(p)
               \/ Raise(p) \/ RaiseFails(p) \/ Exit(p))
  /\ WF_vars(\E i \in DOMAIN calls : SystemctlDone(i))

Spec == Init /\ [][Next]_vars /\ Fairness

-----------------------------------------------------------------------------
(* Properties.                                                             *)

TypeOK ==
  /\ pc \in [Processes -> {"off", "starting", "registered", "raising", "running", "quitting"}]
  /\ daemonMode \in [Processes -> BOOLEAN]
  /\ owner \in Processes \cup {Nobody}
  /\ view \in [Processes -> {"none", "shown", "hidden"}]
  /\ m_runInBackground \in BOOLEAN
  /\ setting \in BOOLEAN /\ enabled \in BOOLEAN
  /\ calls \in Seq(BOOLEAN)

(* At most one process has a user interface, and it holds the name until   *)
(* it has ended: there is never a second daemon, and none out of reach.    *)
SingleInstance ==
  \A p \in Processes : pc[p] \in {"registered", "running", "quitting"} <=> owner = p

(* A process without a window is one that background mode keeps alive, and *)
(* that a later start can find: no process is left behind by a close.      *)
HiddenInBackground ==
  \A p \in Processes : pc[p] = "running" /\ view[p] = "hidden" => m_runInBackground

(* The changes of 0.5-1: "Starts now at system start as systemd user       *)
(* service when in background mode": when no systemctl runs, the service   *)
(* is enabled if and only if the setting is on.                            *)
ServiceFollowsSetting == calls = <<>> => enabled = setting

(* A plain start brings up a window, its own or that of the process which  *)
(* holds the name, unless that process is ending.                          *)
StartShowsWindow ==
  \A p \in Processes :
    pc[p] = "starting" /\ ~daemonMode[p]
      ~> (\E q \in Processes : view[q] = "shown" \/ pc[q] = "quitting")

=============================================================================
