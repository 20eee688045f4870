---------------------------- MODULE Notifications ----------------------------
(***************************************************************************)
(* The SendNotifications plugin of one device (notificationslistener.cpp): *)
(* a thread that monitors the session bus for calls of Notify, and the     *)
(* listener in the GUI thread, which keeps the list of applications,       *)
(* writes it back when it meets a new one, and forwards to the device what *)
(* its filters let through.  The plugin comes and goes with the device's   *)
(* connection; the thread is told to quit, but nobody waits for it.        *)
(***************************************************************************)
EXTENDS Naturals, Sequences

CONSTANTS
  Apps,           \* names of applications
  Notices,        \* the notifications that are shown: see Notice
  Threads,        \* identities of monitor threads
  InitialSettings, \* sets of settings that may be on: see Settings
  MaxNotices,     \* bounds the notifications shown
  MaxChanges,     \* bounds the user's changes of the list
  None

(* A notification: its application, whether it replaces an earlier one,    *)
(* the icon it has (a name, picture data, or none), and marks: "malformed" *)
(* for a call with another signature, "own", "timed", "low", "empty",      *)
(* "hidden", and "matches" when the application's blacklist matches it.    *)
Marks == {"malformed", "own", "timed", "low", "empty", "hidden", "matches"}
Notice == [app: Apps, replaces: BOOLEAN, icon: {"none", "name", "data"}, marks: SUBSET Marks]

(* What the list says of an application: send, do not, or "filtered" with  *)
(* a blacklist expression.                                                 *)
Choices == {"on", "off", "filtered"}
Lists == [Apps -> Choices \cup {"absent"}]

Settings == {"generalPersistent", "generalUrgency", "generalSynchronizeIcons"}

ASSUME NotificationsAssumption ==
  /\ InitialSettings \subseteq SUBSET Settings
  /\ Notices \subseteq Notice /\ None \notin Threads \cup Apps
  /\ MaxNotices \in Nat /\ MaxChanges \in Nat

VARIABLES
  listener,        \* the thread of the plugin's listener, or None without plugin
  thread,          \* for each thread how far run() is
  early,           \* history: threads told to quit before they had a connection
  inbox,           \* Notify signals that wait for the listener
  m_applications,
  config,          \* the stored list of applications
  settings,        \* the plugin's other settings
  configChanged,   \* configChanged signals on their way to the listener
  choice,          \* history: what the user has chosen last for an application
  unread,          \* history: choices made since the list was last loaded
  sent,            \* history: what the stored list said of the application when
                   \* the last packet was sent, and whether a change was on its way
  shown, changes,  \* counters
  process          \* "up" or "crashed"

listVars == <<m_applications, config, configChanged>>
userVars == <<choice, unread, changes>>
vars == <<listener, thread, early, inbox, listVars, settings, userVars, sent, shown, process>>

Running == {"starting", "asking", "deaf", "monitoring", "closed"}

TypeOK ==
  /\ listener \in Threads \cup {None}
  /\ thread \in [Threads -> Running \cup {"new", "ended"}]
  /\ early \subseteq Threads
  /\ inbox \in Seq(Notice) /\ (listener = None => inbox = <<>>)
  /\ m_applications \in Lists /\ config \in Lists
  /\ settings \subseteq Settings
  /\ configChanged \in Nat
  /\ choice \in Lists /\ unread \subseteq Apps
  /\ sent \in [stored: Choices \cup {"absent"}, pending: BOOLEAN]
  /\ shown \in 0..MaxNotices /\ changes \in 0..MaxChanges
  /\ process \in {"up", "crashed"}

Nobody == [a \in Apps |-> "absent"]

Init ==
  /\ listener = None
  /\ thread = [t \in Threads |-> "new"] /\ early = {}
  /\ inbox = <<>>
  /\ m_applications = Nobody /\ config = Nobody /\ configChanged = 0
  /\ settings \in InitialSettings
  /\ choice = Nobody /\ unread = {}
  /\ sent = [stored |-> "absent", pending |-> FALSE]
  /\ shown = 0 /\ changes = 0
  /\ process = "up"

-----------------------------------------------------------------------------
(* The listener and its thread.                                            *)

(* (Names with an underscore are faulty variants, the mutants that show     *)
(* that the properties notice: each stands before what it is a fault of.)  *)
loadApplications_NotCleared ==
  /\ m_applications' = [a \in Apps |-> IF m_applications[a] = "absent" THEN config[a]
                                       ELSE m_applications[a]]
  /\ unread' = {}

loadApplications ==
  /\ m_applications' = config
  /\ unread' = {}

PluginLoaded ==
  /\ listener = None
  /\ \E t \in Threads :
       /\ thread[t] = "new"
       /\ thread' = [thread EXCEPT ![t] = "starting"]
       /\ listener' = t
  /\ loadApplications
  /\ UNCHANGED <<early, inbox, config, configChanged, settings, choice, changes, sent, shown,
                 process>>

quit_Never(t) == thread' = thread /\ early' = early

\* NotificationsListenerThread::quit() closes a connection that is there.
quit(t) ==
  /\ thread' = IF thread[t] \in {"asking", "deaf", "monitoring"}
               THEN [thread EXCEPT ![t] = "closed"] ELSE thread
  /\ early' = IF thread[t] = "starting" THEN early \cup {t} ELSE early

\* The device disconnects; signals on their way to the listener are dropped.
PluginDeleted ==
  /\ listener # None
  /\ quit(listener)
  /\ listener' = None
  /\ inbox' = <<>> /\ configChanged' = 0
  /\ m_applications' = Nobody
  /\ UNCHANGED <<config, settings, userVars, sent, shown, process>>

\* run(): a connection of its own, then the request to be a monitor, whose
\* answer nobody looks at.
GetConnection(t) ==
  /\ thread[t] = "starting"
  /\ \E next \in {"asking", "ended"} : thread' = [thread EXCEPT ![t] = next]
  /\ UNCHANGED <<listener, early, inbox, listVars, settings, userVars, sent, shown, process>>

BecomeMonitorAnswered(t) ==
  /\ thread[t] = "asking"
  /\ \E next \in {"monitoring", "deaf"} : thread' = [thread EXCEPT ![t] = next]
  /\ UNCHANGED <<listener, early, inbox, listVars, settings, userVars, sent, shown, process>>

RunEnds(t) ==
  /\ thread[t] = "closed"
  /\ thread' = [thread EXCEPT ![t] = "ended"]
  /\ UNCHANGED <<listener, early, inbox, listVars, settings, userVars, sent, shown, process>>

\* handleMessage and handleNotifyCall in the thread, for every monitor; the
\* signal of a thread reaches its listener if that still exists.
Notify(n) ==
  /\ shown < MaxNotices
  /\ shown' = shown + 1
  /\ inbox' = IF listener # None /\ "malformed" \notin n.marks
              THEN IF thread[listener] = "monitoring" THEN Append(inbox, n) ELSE inbox
              ELSE inbox
  /\ UNCHANGED <<listener, thread, early, listVars, settings, userVars, sent, process>>

-----------------------------------------------------------------------------
(* The list of applications.                                               *)

\* Another object for the same settings writes the list.
UserChooses(a, c) ==
  /\ changes < MaxChanges /\ config[a] # c
  /\ changes' = changes + 1
  /\ config' = [config EXCEPT ![a] = c]
  /\ choice' = [choice EXCEPT ![a] = c]
  /\ unread' = unread \cup {a}
  /\ configChanged' = IF listener = None THEN 0 ELSE configChanged + 1
  /\ UNCHANGED <<listener, thread, early, inbox, m_applications, settings, sent, shown, process>>

ConfigChanged ==
  /\ listener # None /\ configChanged > 0
  /\ configChanged' = configChanged - 1
  /\ loadApplications
  /\ UNCHANGED <<listener, thread, early, inbox, config, settings, choice, changes, sent, shown,
                 process>>

-----------------------------------------------------------------------------
(* Forwarding.                                                             *)

nextVariant_Structures(icon) == icon

\* Only basic types are decoded: picture data, a structure, become an invalid
\* value, though the hint is there.
nextVariant(icon) == IF icon = "data" THEN "invalid" ELSE icon

\* No picture from an invalid value; a valid one is saved through a null pointer.
iconForImageData(value) == IF value = "invalid" THEN "none" ELSE "crash"

\* A name that leads to no picture gives a payload without bytes.
iconForIconName == {"icon", "empty"}

\* The icon goes with a first notification only.
Payloads(n) ==
  IF "generalSynchronizeIcons" \notin settings \/ n.replaces \/ n.icon = "none" THEN {"none"}
  ELSE IF n.icon = "name" THEN iconForIconName
  ELSE {iconForImageData(nextVariant(n.icon))}

Wanted_AnyChoice(n, c) ==
  /\ "timed" \in n.marks => "generalPersistent" \notin settings
  /\ "low" \in n.marks => "generalUrgency" \notin settings
  /\ {"empty", "hidden"} \cap n.marks = {}

Wanted(n, c) ==
  /\ c # "off"
  /\ "timed" \in n.marks => "generalPersistent" \notin settings
  /\ "low" \in n.marks => "generalUrgency" \notin settings
  /\ {"empty", "hidden"} \cap n.marks = {}
  /\ c = "filtered" => "matches" \notin n.marks

Meet_NotStored(a) ==
  /\ m_applications' = IF m_applications[a] # "absent" THEN m_applications
                       ELSE [m_applications EXCEPT ![a] = "on"]
  /\ UNCHANGED <<config, configChanged>>

\* A new application is added, and the whole list written back.
Meet(a) ==
  IF m_applications[a] # "absent" THEN UNCHANGED listVars
  ELSE /\ m_applications' = [m_applications EXCEPT ![a] = "on"]
       /\ config' = m_applications'
       /\ configChanged' = configChanged + 1

onNotify ==
  /\ inbox # <<>>
  /\ inbox' = Tail(inbox)
  /\ LET n == Head(inbox)
         c == IF m_applications[n.app] = "absent" THEN "on" ELSE m_applications[n.app] IN
     IF "own" \in n.marks THEN UNCHANGED <<listVars, sent, process>>
     ELSE /\ Meet(n.app)
          /\ IF ~Wanted(n, c) THEN UNCHANGED <<sent, process>>
             ELSE \E p \in Payloads(n) :
                    IF p = "crash" THEN process' = "crashed" /\ sent' = sent
                    ELSE /\ sent' = [stored |-> config'[n.app], pending |-> configChanged > 0]
                         /\ process' = process
  /\ UNCHANGED <<listener, thread, early, settings, userVars, shown>>

-----------------------------------------------------------------------------

Next ==
  /\ process = "up"
  /\ \/ PluginLoaded
     \/ PluginDeleted
     \/ \E t \in Threads : GetConnection(t) \/ BecomeMonitorAnswered(t) \/ RunEnds(t)
     \/ \E n \in Notices : Notify(n)
     \/ \E a \in Apps, c \in Choices : UserChooses(a, c)
     \/ ConfigChanged
     \/ onNotify

\* Threads go on, and the bus answers them.
Spec ==
  /\ Init /\ [][Next]_vars
  /\ \A t \in Threads : WF_vars(GetConnection(t)) /\ WF_vars(BecomeMonitorAnswered(t))
                          /\ WF_vars(RunEnds(t))

-----------------------------------------------------------------------------
(* Properties.                                                             *)

\* Once no change is on its way, the listener goes by the list that is stored
\* (loadApplications, the constructor, the writing back in onNotify).
ListIsStored ==
  listener # None /\ configChanged = 0 => m_applications = config

\* What the user has chosen for an application is overwritten only if the
\* listener has not read it yet: by the list that it writes back for a new
\* application met in the meantime (onNotify, loadApplications).
ChoiceIsKept ==
  [][\A a \in Apps :
       choice[a] # "absent" /\ config[a] = choice[a] /\ config'[a] # choice'[a]
         => a \in unread]_vars

\* Nothing is sent for an application that is switched off, unless that change
\* is still on its way (onNotify, which works on its own copy of the list).
OffIsSilent == sent.stored = "off" => sent.pending

\* No notification brings the process down: a picture never reaches the code
\* that would save it (nextVariant, iconForImageData, imageToPngBuffer).
PicturesDoNoHarm == process = "up"

\* A thread whose listener is gone ends, unless it was told to quit before it
\* had a connection to close (~NotificationsListener, quit, run).
OrphansEnd ==
  \A t \in Threads :
    (listener # t /\ thread[t] \in Running /\ t \notin early) ~> (thread[t] = "ended")
=============================================================================
