------------------------------ MODULE Telephony ------------------------------
(***************************************************************************)
(* TelephonyPlugin (plugins/telephony/telephonyplugin.cpp): it follows the *)
(* voice calls of oFono over D-Bus and tells the paired device which of    *)
(* them ring, are talked on, or have ended.                                *)
(*                                                                         *)
(* The plugin lives in one event loop; `events` holds what QtDBus has      *)
(* posted to it.  A signal reaches only the objects that are connected     *)
(* when oFono emits it.  GetModems and GetCalls block the loop: oFono goes *)
(* on while the plugin waits for the answer and while it works on it.      *)
(* oFono itself is external and known from the signals in ofono.h only.    *)
(* There is one modem; the plugin treats several independently.            *)
(***************************************************************************)
EXTENDS Integers, Sequences, FiniteSets, Functions

CONSTANTS
  Paths,        \* D-Bus paths of calls; oFono uses them again
  MaxEvents,    \* bound: oFono emits nothing while so many events wait
  MaxObjects,   \* bound: no call comes to a path with so many objects
  Faults        \* what else oFono may do: "outrun" the plugin with signals,
                \* answer with a "refusal", let calls "vanish" with a modem

ASSUME TelephonyAssumption ==
  MaxEvents \in Nat /\ MaxObjects \in Nat /\ IsFiniteSet(Paths)
  /\ Faults \subseteq {"outrun", "refusal", "vanish"}

VARIABLES
  modem,     \* oFono: the modem exists
  call,      \* oFono: the State of the call at each path, or "none"
  events,    \* what is posted to the plugin's event loop
  pc,        \* what the plugin does: "GetModems", "GetCalls", "answered",
             \* "connect", "running", "unusable", "crashed"
  starting,  \* it is still in its constructor
  answer,    \* what GetCalls answered
  refused,   \* the last GetCalls was answered with an error (history)
  managers,  \* the VoiceCallManager objects; one not removed in time stays
  m_voice_call_manager,   \* the one of the modem, 0 for none
  objects,   \* the TelephonyCall objects of each path: their States by number
  m_calls,   \* the number of the one that is known at each path, 0 for none
  m_send_call_state,  \* what was last told of each path, "none" for nothing
  packets    \* the packets of the last step

ofonoVars == <<modem, call>>
managerVars == <<managers, m_voice_call_manager>>
pluginVars == <<pc, starting, answer, refused, managerVars, objects, m_calls, m_send_call_state>>
telephonyVars == <<modem, call, events, pc, starting, answer, refused, managers, m_voice_call_manager,
          objects, m_calls, m_send_call_state, packets>>

NoCalls == [p \in Paths |-> "none"]

TelephonyInit ==
  /\ modem \in BOOLEAN
  /\ call = NoCalls
  /\ events = <<>>
  /\ pc = "GetModems" /\ starting = TRUE /\ answer = NoCalls /\ refused = FALSE
  /\ managers = {} /\ m_voice_call_manager = 0
  /\ objects = [p \in Paths |-> <<>>]
  /\ m_calls = [p \in Paths |-> 0]
  /\ m_send_call_state = NoCalls
  /\ packets = {}

-----------------------------------------------------------------------------
(* oFono.                                                                  *)

(* The States a call may come up in, and go to.                            *)
FirstStates == {"incoming", "waiting", "dialing"}
NextStates(s) ==
  CASE s = "incoming" -> {"active"}
    [] s = "waiting"  -> {"incoming", "active"}
    [] s = "dialing"  -> {"alerting", "active"}
    [] s = "alerting" -> {"active"}
    [] s = "active"   -> {"held"}
    [] s = "held"     -> {"active"}

(* A signal reaches what is connected to it in any order.                  *)
Orders(S) == Bijection(1..Cardinality(S), S)

(* PropertyChanged of the call at p, to the objects connected to p.        *)
Changed(p, s, to) ==
  [k \in DOMAIN to |-> [type |-> "PropertyChanged", path |-> p, object |-> to[k], state |-> s]]

(* CallAdded and CallRemoved, to the managers.                             *)
FromManagers(type, p, s, to) ==
  [k \in DOMAIN to |-> [type |-> type, path |-> p, state |-> s, manager |-> to[k]]]

Posted(type) == \E k \in DOMAIN events : events[k].type = type

(* If it does not outrun the plugin, oFono leaves a call alone until the   *)
(* plugin has seen it, and while the plugin has not heard of the modem yet *)
(* or is asking for its calls.  Nothing in the plugin sees to that: it is  *)
(* an assumption on the pace of oFono, that what a call does takes longer  *)
(* than a blocking D-Bus call and the events behind it.                    *)
Seen(p) ==
  /\ \A k \in DOMAIN events : events[k].type = "CallAdded" => events[k].path # p
  /\ pc \in {"GetCalls", "answered"} \/ Posted("ModemAdded") => call[p] = "none"

MayEmit(p) == modem /\ Len(events) < MaxEvents /\ ("outrun" \in Faults \/ Seen(p))

CallComes(p, s) ==
  /\ MayEmit(p) /\ call[p] = "none"
  /\ Cardinality(DOMAIN objects[p]) < MaxObjects
  /\ call' = [call EXCEPT ![p] = s]
  /\ \E to \in Orders(managers) :
       events' = events \o FromManagers("CallAdded", p, s, to)
  /\ packets' = {}
  /\ UNCHANGED <<modem, pluginVars>>

CallChanges(p, s) ==
  /\ MayEmit(p) /\ call[p] # "none" /\ s \in NextStates(call[p])
  /\ call' = [call EXCEPT ![p] = s]
  /\ \E to \in Orders(DOMAIN objects[p]) : events' = events \o Changed(p, s, to)
  /\ packets' = {}
  /\ UNCHANGED <<modem, pluginVars>>

(* A call ends: its State becomes "disconnected", and it is removed.       *)
CallEnds(p) ==
  /\ MayEmit(p) /\ call[p] # "none"
  /\ call' = [call EXCEPT ![p] = "none"]
  /\ \E to \in Orders(DOMAIN objects[p]), from \in Orders(managers) :
       events' = events \o Changed(p, "disconnected", to)
                        \o FromManagers("CallRemoved", p, "none", from)
  /\ packets' = {}
  /\ UNCHANGED <<modem, pluginVars>>

ModemComes ==
  /\ ~modem /\ Len(events) < MaxEvents
  /\ modem' = TRUE
  /\ events' = IF pc \in {"GetModems", "unusable", "crashed"} \/ starting THEN events
               ELSE Append(events, [type |-> "ModemAdded"])
  /\ packets' = {}
  /\ UNCHANGED <<call, pluginVars>>

(* A modem goes.  Only at fault does it take calls with it unannounced.    *)
ModemGoes ==
  /\ modem /\ Len(events) < MaxEvents /\ ("vanish" \in Faults \/ call = NoCalls)
  /\ modem' = FALSE
  /\ call' = NoCalls
  /\ events' = IF pc \in {"GetModems", "unusable", "crashed"} \/ starting THEN events
               ELSE Append(events, [type |-> "ModemRemoved"])
  /\ packets' = {}
  /\ UNCHANGED pluginVars

-----------------------------------------------------------------------------
(* What the plugin makes of the State of a call.                           *)

(* (Names with an underscore are faulty variants, the mutants that show    *)
(* that the properties notice: each stands before what it is a fault of.)  *)

(* Faults: an outgoing call that rings, an incoming call is not told.      *)
Event_NoAlerting(s) ==
  CASE s = "incoming" -> "ringing" [] s = "active" -> "talking" [] OTHER -> "none"

Event_NoIncoming(s) ==
  IF s \in {"active", "alerting"} THEN "talking" ELSE "none"

(* The event onCallStateChanged tells for a State.  (The code has "dealing" *)
(* where oFono says "dialing".)                                            *)
Event(s) ==
  CASE s = "incoming" -> "ringing"
    [] s \in {"active", "dealing", "alerting"} -> "talking"
    [] OTHER -> "none"

(* Fault: the end of a call is told and not remembered.                    *)
Told_Kept(last, s) ==
  IF s = "disconnected" \/ Event(s) = "none" THEN last ELSE Event(s)

(* m_send_call_state of a path at `last`, after its call came to State s.  *)
Told(last, s) ==
  IF s = "disconnected" THEN "none" ELSE IF Event(s) = "none" THEN last ELSE Event(s)

(* The packet this takes: an event that is new, or a cancel of the last.   *)
Packets(p, last, s) ==
  IF s = "disconnected"
  THEN {[path |-> p, event |-> IF last = "none" THEN "talking" ELSE last, isCancel |-> TRUE]}
  ELSE IF Event(s) \in {"none", last} THEN {}
  ELSE {[path |-> p, event |-> Event(s), isCancel |-> FALSE]}

onCallStateChanged(p, s) ==
  /\ m_send_call_state' = [m_send_call_state EXCEPT ![p] = Told(@, s)]
  /\ packets' = Packets(p, m_send_call_state[p], s)

(* A number that none of those in S has.                                   *)
Fresh(S) == CHOOSE n \in 1..Cardinality(S) + 1 : n \notin S

(* The number of the next object at p, and the objects there with it.      *)
NewCall(p) == Fresh(DOMAIN objects[p])

WithCall(p, s) ==
  [i \in DOMAIN objects[p] \cup {NewCall(p)} |-> IF i = NewCall(p) THEN s ELSE objects[p][i]]

(* What Qt leaves in the queue of an event for an object that is deleted.  *)
Dropped == [type |-> "dropped"]

-----------------------------------------------------------------------------
(* The plugin.                                                             *)

(* A new VoiceCallManager takes the place of the one the modem had.        *)
NewManager ==
  /\ managers' = managers \cup {Fresh(managers)}
  /\ m_voice_call_manager' = Fresh(managers)

(* The constructor: GetModems answers, or fails for good.                  *)
GetModems ==
  /\ pc = "GetModems"
  /\ \/ modem /\ pc' = "GetCalls" /\ NewManager
     \/ ~modem /\ pc' = "connect" /\ UNCHANGED managerVars
     \/ "refusal" \in Faults /\ pc' = "unusable" /\ UNCHANGED managerVars
  /\ packets' = {}
  /\ UNCHANGED <<ofonoVars, events, starting, answer, refused, objects, m_calls, m_send_call_state>>

(* onModemAdded: the manager's signals are connected, then GetCalls asked. *)
onModemAdded ==
  /\ pc = "running" /\ events # <<>> /\ Head(events).type = "ModemAdded"
  /\ events' = Tail(events)
  /\ NewManager
  /\ pc' = "GetCalls"
  /\ packets' = {}
  /\ UNCHANGED <<ofonoVars, starting, answer, refused, objects, m_calls, m_send_call_state>>

(* oFono answers GetCalls; a modem that is gone, or a fault, is an error.  *)
GetCallsAnswered ==
  /\ pc = "GetCalls"
  /\ pc' = "answered"
  /\ \/ modem /\ answer' = call /\ refused' = FALSE
     \/ ("refusal" \in Faults \/ ~modem) /\ answer' = NoCalls /\ refused' = TRUE
  /\ packets' = {}
  /\ UNCHANGED <<ofonoVars, events, starting, managerVars, objects, m_calls, m_send_call_state>>

(* onModemAdded goes on: onCallAdded for each call of the answer.          *)
CallsFetched ==
  LET P == {p \in Paths : answer[p] # "none"} IN
  /\ pc = "answered"
  /\ pc' = IF starting THEN "connect" ELSE "running"
  /\ objects' = [p \in Paths |-> IF p \in P THEN WithCall(p, answer[p]) ELSE objects[p]]
  /\ m_calls' = [p \in Paths |-> IF p \in P THEN NewCall(p) ELSE m_calls[p]]
  /\ m_send_call_state' =
       [p \in Paths |-> IF p \in P THEN Told(m_send_call_state[p], answer[p])
                        ELSE m_send_call_state[p]]
  /\ packets' = UNION {Packets(p, m_send_call_state[p], answer[p]) : p \in P}
  /\ answer' = NoCalls
  /\ UNCHANGED <<ofonoVars, events, starting, refused, managerVars>>

(* The end of the constructor: only now are the modems watched.            *)
ConnectModems ==
  /\ pc = "connect"
  /\ pc' = "running" /\ starting' = FALSE
  /\ packets' = {}
  /\ UNCHANGED <<ofonoVars, events, answer, refused, managerVars, objects, m_calls, m_send_call_state>>

(* onModemRemoved: the manager is deleted behind what is posted already;   *)
(* take() of an unknown modem is a null pointer.                           *)
onModemRemoved ==
  /\ pc = "running" /\ events # <<>> /\ Head(events).type = "ModemRemoved"
  /\ m_voice_call_manager' = 0
  /\ IF m_voice_call_manager # 0
     THEN /\ events' = Append(Tail(events),
                         [type |-> "ManagerDeleted", manager |-> m_voice_call_manager])
          /\ UNCHANGED pc
     ELSE pc' = "crashed" /\ events' = <<>>
  /\ packets' = {}
  /\ UNCHANGED <<ofonoVars, starting, answer, refused, managers, objects, m_calls, m_send_call_state>>

(* A VoiceCallManager is deleted, and what is posted to it dropped.        *)
ManagerDeleted ==
  LET e == Head(events)
      rest == Tail(events)
  IN
  /\ pc = "running" /\ events # <<>> /\ e.type = "ManagerDeleted"
  /\ managers' = managers \ {e.manager}
  /\ events' = [k \in DOMAIN rest |->
                  IF rest[k].type \in {"CallAdded", "CallRemoved"} /\ rest[k].manager = e.manager
                  THEN Dropped ELSE rest[k]]
  /\ packets' = {}
  /\ UNCHANGED <<ofonoVars, pc, starting, answer, refused, m_voice_call_manager,
                 objects, m_calls, m_send_call_state>>

onCallAdded ==
  LET e == Head(events) IN
  /\ pc = "running" /\ events # <<>> /\ e.type = "CallAdded"
  /\ events' = Tail(events)
  /\ objects' = [objects EXCEPT ![e.path] = WithCall(e.path, e.state)]
  /\ m_calls' = [m_calls EXCEPT ![e.path] = NewCall(e.path)]
  /\ onCallStateChanged(e.path, e.state)
  /\ UNCHANGED <<ofonoVars, pc, starting, answer, refused, managerVars>>

(* Fault: the call is looked up and left in m_calls.                       *)
onCallRemoved_NotTaken ==
  LET e == Head(events) IN
  /\ pc = "running" /\ events # <<>> /\ e.type = "CallRemoved"
  /\ events' = Append(Tail(events),
                      [type |-> "DeferredDelete", path |-> e.path, object |-> m_calls[e.path]])
  /\ packets' = {}
  /\ UNCHANGED <<ofonoVars, pc, starting, answer, refused, managerVars, objects, m_calls, m_send_call_state>>

(* onCallRemoved: the object in m_calls is deleted behind what is posted.  *)
onCallRemoved ==
  LET e == Head(events) IN
  /\ pc = "running" /\ events # <<>> /\ e.type = "CallRemoved"
  /\ m_calls' = [m_calls EXCEPT ![e.path] = 0]
  /\ events' = IF m_calls[e.path] = 0 THEN Tail(events)
               ELSE Append(Tail(events),
                           [type |-> "DeferredDelete", path |-> e.path, object |-> m_calls[e.path]])
  /\ packets' = {}
  /\ UNCHANGED <<ofonoVars, pc, starting, answer, refused, managerVars, objects, m_send_call_state>>

(* TelephonyCall::onPropertiesChanged, and the plugin's slot behind it.    *)
onPropertiesChanged ==
  LET e == Head(events) IN
  /\ pc = "running" /\ events # <<>> /\ e.type = "PropertyChanged"
  /\ events' = Tail(events)
  /\ objects' = [objects EXCEPT ![e.path][e.object] = e.state]
  /\ onCallStateChanged(e.path, e.state)
  /\ UNCHANGED <<ofonoVars, pc, starting, answer, refused, managerVars, m_calls>>

(* A TelephonyCall is deleted, and what is posted to it dropped.           *)
DeferredDelete ==
  LET e == Head(events)
      rest == Tail(events)
  IN
  /\ pc = "running" /\ events # <<>> /\ e.type = "DeferredDelete"
  /\ objects' = [objects EXCEPT ![e.path] =
                   [i \in DOMAIN objects[e.path] \ {e.object} |-> objects[e.path][i]]]
  /\ events' = [k \in DOMAIN rest |->
                  IF rest[k].type = "PropertyChanged"
                       /\ rest[k].path = e.path /\ rest[k].object = e.object
                  THEN Dropped ELSE rest[k]]
  /\ packets' = {}
  /\ UNCHANGED <<ofonoVars, pc, starting, answer, refused, managerVars, m_calls, m_send_call_state>>

DroppedEvent ==
  /\ pc = "running" /\ events # <<>> /\ Head(events).type = "dropped"
  /\ events' = Tail(events)
  /\ packets' = {}
  /\ UNCHANGED <<ofonoVars, pc, starting, answer, refused, managerVars, objects, m_calls,
                 m_send_call_state>>

TelephonyNext ==
  \/ \E p \in Paths :
       \/ \E s \in FirstStates : CallComes(p, s)
       \/ \E s \in {"incoming", "alerting", "active", "held"} : CallChanges(p, s)
       \/ CallEnds(p)
  \/ ModemComes \/ ModemGoes
  \/ GetModems \/ onModemAdded \/ GetCallsAnswered \/ CallsFetched \/ ConnectModems
  \/ onModemRemoved \/ ManagerDeleted \/ onCallAdded \/ onCallRemoved \/ onPropertiesChanged
  \/ DeferredDelete \/ DroppedEvent

TelephonySpec == TelephonyInit /\ [][TelephonyNext]_telephonyVars

-----------------------------------------------------------------------------
(* Properties.                                                             *)

TelephonyTypeOK ==
  /\ modem \in BOOLEAN /\ starting \in BOOLEAN
  /\ pc \in {"GetModems", "GetCalls", "answered", "connect", "running", "unusable", "crashed"}
  /\ managers \subseteq Nat \ {0} /\ m_voice_call_manager \in managers \cup {0}
  /\ \A p \in Paths :
       /\ call[p] \in FirstStates \cup {"none", "alerting", "active", "held"}
       /\ m_send_call_state[p] \in {"none", "ringing", "talking"}
       /\ DOMAIN objects[p] \subseteq Nat \ {0}
       /\ m_calls[p] \in DOMAIN objects[p] \cup {0}

Quiet == pc = "running" /\ events = <<>> /\ m_voice_call_manager # 0

(* README.md: "Share call status (incoming or active)".  When all is said, *)
(* and oFono has not refused to list its calls, the device has been told   *)
(* that an incoming call rings and an active one is talked on, and         *)
(* believes in no call that is over.                                       *)
CallStatusShared ==
  Quiet /\ modem /\ ~refused =>
    \A p \in Paths :
      /\ call[p] = "incoming" => m_send_call_state[p] = "ringing"
      /\ call[p] \in {"alerting", "active"} => m_send_call_state[p] = "talking"
      /\ call[p] = "none" => m_send_call_state[p] = "none"

(* A call that was talked on does not ring again before it was cancelled,  *)
(* if oFono does not outrun the plugin (Seen): late words of the objects   *)
(* and managers of earlier calls at the path do not bring it back.  (If it *)
(* does, the call rings again: its CallAdded, "incoming", waits while      *)
(* GetCalls answers "active" already, and is told after it.)               *)
NoStepBack ==
  [][\A p \in Paths :
       ~(m_send_call_state[p] = "talking" /\ m_send_call_state'[p] = "ringing")]_telephonyVars

(* A cancel for a call the device was never told of is sent only when a    *)
(* call ends while dialing, waiting or first seen on hold, or at the word  *)
(* of an object that m_calls has forgotten: calls found in an answer and   *)
(* in a signal, or by two managers, leave one behind.                      *)
UntoldCancels ==
  [][\A k \in packets' :
       k.isCancel /\ m_send_call_state[k.path] = "none" =>
         \E i \in DOMAIN objects[k.path] :
           \/ objects[k.path][i] \in {"dialing", "waiting", "held"}
           \/ i # m_calls[k.path]]_telephonyVars

=============================================================================
