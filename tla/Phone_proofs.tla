----------------------------- MODULE Phone_proofs -----------------------------
(***************************************************************************)
(* Proofs about what the phone tells the paired device: Notifications.tla, *)
(* for any applications, notifications and numbers of changes, and         *)
(* Telephony.tla, for any number of calls, objects and waiting events.     *)
(* Nothing connects the two but this module.                               *)
(***************************************************************************)
EXTENDS Notifications, Telephony, FiniteSetTheorems, SequenceTheorems, TLAPS

(* Notifications: the listener goes by the stored list, an application     *)
(* that is off stays silent, a choice that was read is kept, and no        *)
(* picture does harm.                                                      *)

(* What the listener has read, it knows.                                   *)
ReadIsKnown ==
  listener # None => \A a \in Apps : a \notin unread => m_applications[a] = config[a]

IInv == TypeOK /\ ListIsStored /\ ReadIsKnown /\ OffIsSilent /\ PicturesDoNoHarm

LEMMA InitInv == Init => IInv
<1> SUFFICES ASSUME Init PROVE IInv
  OBVIOUS
<1>1. Nobody \in Lists
  BY DEF Nobody, Lists
<1>2. inbox \in Seq(Notice)
  BY DEF Init
<1>3. "absent" \in Choices \cup {"absent"}
  OBVIOUS
<1> QED
  BY <1>1, <1>2, <1>3, NotificationsAssumption
    DEF Init, IInv, TypeOK, ListIsStored, ReadIsKnown, OffIsSilent, PicturesDoNoHarm, Running

(* The first notification of the queue.                                    *)
LEMMA HeadOfInbox ==
  ASSUME TypeOK, inbox # <<>>
  PROVE  /\ Head(inbox) \in Notice /\ Tail(inbox) \in Seq(Notice)
         /\ listener # None
BY DEF TypeOK

(* A new application joins both lists; any other leaves them alone.        *)
LEMMA MeetKeeps ==
  ASSUME TypeOK, NEW a \in Apps, Meet(a)
  PROVE  /\ m_applications' \in Lists /\ config' \in Lists /\ configChanged' \in Nat
         /\ \/ UNCHANGED listVars /\ m_applications[a] # "absent"
            \/ /\ m_applications[a] = "absent"
               /\ m_applications' = [m_applications EXCEPT ![a] = "on"]
               /\ config' = m_applications' /\ configChanged' > 0
<1>1. CASE m_applications[a] # "absent"
  BY <1>1 DEF Meet, TypeOK, listVars
<1>2. CASE m_applications[a] = "absent"
  <2>1. m_applications' = [m_applications EXCEPT ![a] = "on"] /\ config' = m_applications'
        /\ configChanged' = configChanged + 1
    BY <1>2 DEF Meet
  <2>2. m_applications' \in Lists
    BY <2>1 DEF TypeOK, Lists, Choices
  <2> QED
    BY <1>2, <2>1, <2>2 DEF TypeOK
<1> QED
  BY <1>1, <1>2

(* Picture data are not decoded, and a name leads to bytes or to none.     *)
LEMMA NoCrash ==
  ASSUME NEW n \in Notice
  PROVE  "crash" \notin Payloads(n)
<1>1. n.icon \in {"none", "name", "data"}
  BY DEF Notice
<1> QED
  BY <1>1 DEF Payloads, iconForIconName, iconForImageData, nextVariant

(* A packet that is sent for an application that the list does not switch  *)
(* off.                                                                    *)
LEMMA OnNotifyKeeps ==
  ASSUME IInv, onNotify
  PROVE  IInv'
<1> DEFINE n == Head(inbox)
           c == IF m_applications[n.app] = "absent" THEN "on" ELSE m_applications[n.app]
<1>1. n \in Notice /\ n.app \in Apps /\ inbox' \in Seq(Notice) /\ listener # None
  BY HeadOfInbox DEF IInv, onNotify, Notice
<1>2. UNCHANGED <<listener, thread, early, settings, userVars, shown>>
  BY DEF onNotify
<1>3. CASE "own" \in n.marks
  <2>1. UNCHANGED <<listVars, sent, process>>
    BY <1>3 DEF onNotify
  <2> QED
    BY <1>1, <1>2, <2>1
      DEF IInv, TypeOK, ListIsStored, ReadIsKnown, OffIsSilent, PicturesDoNoHarm, listVars, userVars
<1>4. CASE "own" \notin n.marks
  <2>1. Meet(n.app)
    BY <1>4 DEF onNotify
  <2>2. /\ m_applications' \in Lists /\ config' \in Lists /\ configChanged' \in Nat
        /\ \/ UNCHANGED listVars /\ m_applications[n.app] # "absent"
           \/ /\ m_applications[n.app] = "absent"
              /\ m_applications' = [m_applications EXCEPT ![n.app] = "on"]
              /\ config' = m_applications' /\ configChanged' > 0
    BY <1>1, <2>1, MeetKeeps DEF IInv
  <2>3. process' = process
    BY <1>1, <1>4, NoCrash DEF onNotify
  <2>4. \/ sent' = sent
        \/ c # "off" /\ sent' = [stored |-> config'[n.app], pending |-> configChanged > 0]
    BY <1>4 DEF onNotify, Wanted
  <2>5. ListIsStored' /\ ReadIsKnown'
    BY <1>1, <1>2, <2>2 DEF IInv, ListIsStored, ReadIsKnown, userVars, listVars
  <2>6. CASE sent' = sent
    BY <1>1, <1>2, <2>2, <2>3, <2>5, <2>6 DEF IInv, TypeOK, OffIsSilent, PicturesDoNoHarm, userVars
  <2>7. CASE c # "off" /\ sent' = [stored |-> config'[n.app], pending |-> configChanged > 0]
    <3>1. config'[n.app] \in Choices \cup {"absent"} /\ (configChanged > 0) \in BOOLEAN
      BY <1>1, <2>2 DEF Lists
    <3>2. configChanged = 0 => config'[n.app] # "off"
      BY <1>1, <2>2, <2>7 DEF IInv, TypeOK, Lists, ListIsStored, listVars
    <3>3. configChanged \in Nat
      BY DEF IInv, TypeOK
    <3>4. OffIsSilent'
      <4>1. CASE configChanged = 0
        <5>1. sent'.stored = config'[n.app]
          BY <2>7
        <5> QED
          BY <3>2, <4>1, <5>1 DEF OffIsSilent
      <4>2. CASE configChanged > 0
        <5>1. sent' = [stored |-> config'[n.app], pending |-> TRUE]
          BY <2>7, <4>2
        <5> QED
          BY <5>1 DEF OffIsSilent
      <4> QED
        BY <3>3, <4>1, <4>2
    <3>5. sent' \in [stored: Choices \cup {"absent"}, pending: BOOLEAN]
      BY <2>7, <3>1
    <3> QED
      BY <1>1, <1>2, <2>2, <2>3, <2>5, <3>4, <3>5 DEF IInv, TypeOK, PicturesDoNoHarm, userVars
  <2> QED
    BY <2>4, <2>6, <2>7
<1> QED
  BY <1>3, <1>4

LEMMA NextInv == IInv /\ [Next]_vars => IInv'
<1> SUFFICES ASSUME IInv, [Next]_vars PROVE IInv'
  OBVIOUS
<1> USE DEF IInv, ListIsStored, ReadIsKnown, OffIsSilent, PicturesDoNoHarm, listVars, userVars
<1>1. CASE UNCHANGED vars
  BY <1>1 DEF vars, TypeOK
<1>2. CASE PluginLoaded
  BY <1>2 DEF PluginLoaded, loadApplications, TypeOK, Running
<1>3. CASE PluginDeleted
  <2>1. Nobody \in Lists /\ <<>> \in Seq(Notice)
    BY DEF Nobody, Lists
  <2>2. listener \in Threads
    BY <1>3 DEF PluginDeleted, TypeOK
  <2>3. thread' \in [Threads -> Running \cup {"new", "ended"}] /\ early' \subseteq Threads
    BY <1>3, <2>2 DEF PluginDeleted, quit, TypeOK, Running
  <2> QED
    BY <1>3, <2>1, <2>3 DEF PluginDeleted, TypeOK
<1>4. ASSUME NEW t \in Threads, GetConnection(t) \/ BecomeMonitorAnswered(t) \/ RunEnds(t) PROVE IInv'
  BY <1>4 DEF GetConnection, BecomeMonitorAnswered, RunEnds, TypeOK, Running
<1>5. ASSUME NEW n \in Notices, Notify(n) PROVE IInv'
  <2>1. n \in Notice
    BY NotificationsAssumption
  <2>2. inbox' \in Seq(Notice) /\ (listener' = None => inbox' = <<>>)
    BY <1>5, <2>1 DEF Notify, TypeOK
  <2>3. shown' \in 0..MaxNotices
    BY <1>5, NotificationsAssumption DEF Notify, TypeOK
  <2> QED
    BY <1>5, <2>2, <2>3 DEF Notify, TypeOK
<1>6. ASSUME NEW a \in Apps, NEW c \in Choices, UserChooses(a, c) PROVE IInv'
  <2>1. config' \in Lists /\ choice' \in Lists /\ changes' \in 0..MaxChanges
    BY <1>6, NotificationsAssumption DEF UserChooses, TypeOK, Lists
  <2> QED
    BY <1>6, <2>1 DEF UserChooses, TypeOK, Lists
<1>7. CASE ConfigChanged
  BY <1>7 DEF ConfigChanged, loadApplications, TypeOK
<1>8. CASE onNotify
  BY <1>8, OnNotifyKeeps
<1> QED
  BY <1>1, <1>2, <1>3, <1>4, <1>5, <1>6, <1>7, <1>8 DEF Next

LEMMA Invariance == Spec => []IInv
BY InitInv, NextInv, PTL DEF Spec

(* Every variable keeps its type.                                          *)
THEOREM TypeCorrectness == Spec => []TypeOK
<1>1. IInv => TypeOK
  BY DEF IInv
<1> QED
  BY <1>1, Invariance, PTL

(* loadApplications, the constructor and the writing back in onNotify: a   *)
(* listener that no change is on its way to goes by the stored list.       *)
THEOREM ListFollowsStore == Spec => []ListIsStored
<1>1. IInv => ListIsStored
  BY DEF IInv
<1> QED
  BY <1>1, Invariance, PTL

(* onNotify sends nothing for an application that is switched off, unless  *)
(* the change is on its way.                                               *)
THEOREM OffStaysSilent == Spec => []OffIsSilent
<1>1. IInv => OffIsSilent
  BY DEF IInv
<1> QED
  BY <1>1, Invariance, PTL

(* nextVariant decodes no picture, so none reaches imageToPngBuffer, which *)
(* would write to a null pointer.                                          *)
THEOREM NoPictureHarms == Spec => []PicturesDoNoHarm
<1>1. IInv => PicturesDoNoHarm
  BY DEF IInv
<1> QED
  BY <1>1, Invariance, PTL

(* What the user has chosen and the listener has read is not overwritten   *)
(* by the list that is written back for a new application.                 *)
ChoiceKept ==
  \A a \in Apps :
    choice[a] # "absent" /\ config[a] = choice[a] /\ config'[a] # choice'[a] => a \in unread

THEOREM ChoicesKept == Spec => ChoiceIsKept
<1>1. IInv /\ [Next]_vars => [ChoiceKept]_vars
  <2> SUFFICES ASSUME IInv, Next PROVE ChoiceKept
    OBVIOUS
  <2>1. ASSUME NEW a \in Apps, NEW c \in Choices, UserChooses(a, c) PROVE ChoiceKept
    BY <2>1 DEF UserChooses, ChoiceKept, IInv, TypeOK, Lists
  <2>2. CASE onNotify
    <3>1. CASE UNCHANGED <<config, choice>>
      BY <3>1 DEF ChoiceKept
    <3>2. CASE ~UNCHANGED <<config, choice>>
      <4>1. Head(inbox).app \in Apps /\ listener # None
        BY <2>2, HeadOfInbox DEF onNotify, IInv, Notice
      <4>2. choice' = choice /\ Meet(Head(inbox).app)
        BY <2>2, <3>2 DEF onNotify, userVars, listVars
      <4> QED
        BY <4>1, <4>2, MeetKeeps DEF ChoiceKept, IInv, ReadIsKnown, TypeOK, Lists, listVars
    <3> QED
      BY <3>1, <3>2
  <2>3. CASE UNCHANGED <<config, choice>>
    BY <2>3 DEF ChoiceKept
  <2> QED
    BY <2>1, <2>2, <2>3 DEF Next, PluginLoaded, PluginDeleted, GetConnection, BecomeMonitorAnswered,
      RunEnds, Notify, ConfigChanged, listVars, userVars
<1>2. ChoiceIsKept <=> [][ChoiceKept]_vars
  BY DEF ChoiceIsKept, ChoiceKept
<1> QED
  BY <1>1, <1>2, Invariance, PTL DEF Spec

-----------------------------------------------------------------------------
(* Telephony: its types hold whatever oFono does.  What it tells is right  *)
(* where oFono lets the plugin see each call and takes no call along with  *)
(* a modem; it may refuse answers, and modems may come and go.             *)

(* The messages in the queue.                                              *)
CallStates == FirstStates \cup {"alerting", "active", "held"}
States == CallStates \cup {"disconnected"}

Word(p, o, s) == [type |-> "PropertyChanged", path |-> p, object |-> o, state |-> s]
Added(p, s, m) == [type |-> "CallAdded", path |-> p, state |-> s, manager |-> m]
Removed(p, m) == [type |-> "CallRemoved", path |-> p, state |-> "none", manager |-> m]
ObjectGoes(p, o) == [type |-> "DeferredDelete", path |-> p, object |-> o]
ManagerGoes(m) == [type |-> "ManagerDeleted", manager |-> m]
ModemAdded == [type |-> "ModemAdded"]
ModemRemoved == [type |-> "ModemRemoved"]

Message ==
  {ModemAdded, ModemRemoved, Dropped}
    \cup [type : {"ManagerDeleted"}, manager : Nat]
    \cup [type : {"CallAdded"}, path : Paths, state : FirstStates, manager : Nat]
    \cup [type : {"CallRemoved"}, path : Paths, state : {"none"}, manager : Nat]
    \cup [type : {"PropertyChanged"}, path : Paths, object : Nat, state : States]
    \cup [type : {"DeferredDelete"}, path : Paths, object : Nat]

LEMMA Fields ==
  /\ \A p, o, s : /\ Word(p, o, s).type = "PropertyChanged" /\ Word(p, o, s).path = p
                  /\ Word(p, o, s).object = o /\ Word(p, o, s).state = s
  /\ \A p, s, m : /\ Added(p, s, m).type = "CallAdded" /\ Added(p, s, m).path = p
                  /\ Added(p, s, m).state = s /\ Added(p, s, m).manager = m
  /\ \A p, m : /\ Removed(p, m).type = "CallRemoved" /\ Removed(p, m).path = p
               /\ Removed(p, m).manager = m
  /\ \A p, o : /\ ObjectGoes(p, o).type = "DeferredDelete" /\ ObjectGoes(p, o).path = p
               /\ ObjectGoes(p, o).object = o
  /\ \A m : ManagerGoes(m).type = "ManagerDeleted" /\ ManagerGoes(m).manager = m
  /\ ModemAdded.type = "ModemAdded" /\ ModemRemoved.type = "ModemRemoved" /\ Dropped.type = "dropped"
BY DEF Word, Added, Removed, ObjectGoes, ManagerGoes, ModemAdded, ModemRemoved, Dropped

LEMMA Messages ==
  /\ \A p \in Paths, o \in Nat, s \in States : Word(p, o, s) \in Message
  /\ \A p \in Paths, s \in FirstStates, m \in Nat : Added(p, s, m) \in Message
  /\ \A p \in Paths, m \in Nat : Removed(p, m) \in Message
  /\ \A p \in Paths, o \in Nat : ObjectGoes(p, o) \in Message
  /\ \A m \in Nat : ManagerGoes(m) \in Message
  /\ {ModemAdded, ModemRemoved, Dropped} \subseteq Message
BY DEF Word, Added, Removed, ObjectGoes, ManagerGoes, Message

LEMMA Kinds ==
  ASSUME NEW x \in Message
  PROVE  /\ x.type = "PropertyChanged" =>
              /\ x = Word(x.path, x.object, x.state)
              /\ x.path \in Paths /\ x.object \in Nat /\ x.state \in States
         /\ x.type = "CallAdded" =>
              /\ x = Added(x.path, x.state, x.manager)
              /\ x.path \in Paths /\ x.state \in FirstStates /\ x.manager \in Nat
         /\ x.type = "CallRemoved" =>
              /\ x = Removed(x.path, x.manager) /\ x.path \in Paths /\ x.manager \in Nat
         /\ x.type = "DeferredDelete" =>
              /\ x = ObjectGoes(x.path, x.object) /\ x.path \in Paths /\ x.object \in Nat
         /\ x.type = "ManagerDeleted" => x = ManagerGoes(x.manager) /\ x.manager \in Nat
         /\ x.type = "ModemAdded" <=> x = ModemAdded
         /\ x.type = "ModemRemoved" <=> x = ModemRemoved
         /\ x.type = "dropped" <=> x = Dropped
         /\ x.type \in {"ModemAdded", "ModemRemoved", "dropped", "ManagerDeleted", "CallAdded",
                        "CallRemoved", "PropertyChanged", "DeferredDelete"}
<1>1. CASE x \in [type : {"PropertyChanged"}, path : Paths, object : Nat, state : States]
  BY <1>1 DEF Word, ModemAdded, ModemRemoved, Dropped
<1>2. CASE x \in [type : {"CallAdded"}, path : Paths, state : FirstStates, manager : Nat]
  BY <1>2 DEF Added, ModemAdded, ModemRemoved, Dropped
<1>3. CASE x \in [type : {"CallRemoved"}, path : Paths, state : {"none"}, manager : Nat]
  BY <1>3 DEF Removed, ModemAdded, ModemRemoved, Dropped
<1>4. CASE x \in [type : {"DeferredDelete"}, path : Paths, object : Nat]
  BY <1>4 DEF ObjectGoes, ModemAdded, ModemRemoved, Dropped
<1>5. CASE x \in [type : {"ManagerDeleted"}, manager : Nat]
  BY <1>5 DEF ManagerGoes, ModemAdded, ModemRemoved, Dropped
<1>6. CASE x \in {ModemAdded, ModemRemoved, Dropped}
  BY <1>6 DEF ModemAdded, ModemRemoved, Dropped
<1>. QED BY <1>1, <1>2, <1>3, <1>4, <1>5, <1>6 DEF Message

-----------------------------------------------------------------------------
(* How the queue moves: h messages leave at its head (none or one), those  *)
(* of D are dropped where they stand, and those of N come to its end.      *)
Moves(q, r, h, D, N) ==
  /\ \A k \in DOMAIN q : k > h /\ q[k] \notin D => k - h \in DOMAIN r /\ r[k - h] = q[k]
  /\ \A k \in DOMAIN r : r[k] # Dropped =>
       \/ k + h \in DOMAIN q /\ r[k] = q[k + h] /\ q[k + h] \notin D
       \/ r[k] \in N /\ \A j \in DOMAIN q : j - h < k
  /\ \A x \in N : \E k \in DOMAIN r : r[k] = x /\ \A j \in DOMAIN q : j - h < k

LEMMA Positions ==
  ASSUME NEW q \in Seq(Message)
  PROVE  Len(q) \in Nat /\ DOMAIN q = 1..Len(q) /\ \A k \in DOMAIN q : q[k] \in Message /\ k \in Nat \ {0}
OBVIOUS

LEMMA Stays ==
  ASSUME NEW q \in Seq(Message)
  PROVE  Moves(q, q, 0, {}, {})
BY Positions DEF Moves

LEMMA Posts ==
  ASSUME NEW q \in Seq(Message), NEW s \in Seq(Message), NEW N,
         \A k \in DOMAIN s : s[k] \in N,
         \A x \in N : \E k \in DOMAIN s : s[k] = x
  PROVE  q \o s \in Seq(Message) /\ Moves(q, q \o s, 0, {}, N)
<1> DEFINE r == q \o s
<1>1. /\ r \in Seq(Message) /\ Len(r) = Len(q) + Len(s)
      /\ \A k \in 1..Len(q) : r[k] = q[k]
      /\ \A k \in 1..Len(s) : r[Len(q) + k] = s[k]
  BY ConcatProperties
<1>2. /\ Len(q) \in Nat /\ Len(s) \in Nat /\ DOMAIN q = 1..Len(q) /\ DOMAIN s = 1..Len(s)
      /\ DOMAIN r = 1..Len(r)
  BY <1>1
<1>. HIDE DEF r
<1>3. ASSUME NEW k \in DOMAIN q PROVE k \in DOMAIN r /\ r[k] = q[k] /\ k - 0 = k
  BY <1>1, <1>2
<1>4. ASSUME NEW k \in DOMAIN r, k \notin DOMAIN q
      PROVE  r[k] \in N /\ \A j \in DOMAIN q : j - 0 < k
  <2>1. k - Len(q) \in DOMAIN s /\ Len(q) + (k - Len(q)) = k
    BY <1>1, <1>2, <1>4
  <2>2. r[k] = s[k - Len(q)]
    BY <1>1, <1>2, <2>1
  <2>. QED BY <1>2, <1>4, <2>1, <2>2
<1>5. ASSUME NEW x \in N PROVE \E k \in DOMAIN r : r[k] = x /\ \A j \in DOMAIN q : j - 0 < k
  <2>1. PICK k \in DOMAIN s : s[k] = x
    OBVIOUS
  <2>2. Len(q) + k \in DOMAIN r /\ r[Len(q) + k] = x
    BY <1>1, <1>2, <2>1
  <2>. QED BY <1>2, <2>2
<1>6. \A k \in DOMAIN r : k + 0 = k
  BY <1>2
<1>7. Moves(q, r, 0, {}, N)
  BY <1>3, <1>4, <1>5, <1>6 DEF Moves
<1>. QED BY <1>1, <1>7 DEF r

LEMMA Serves ==
  ASSUME NEW q \in Seq(Message), q # <<>>
  PROVE  /\ Tail(q) \in Seq(Message) /\ Moves(q, Tail(q), 1, {}, {})
         /\ 1 \in DOMAIN q /\ Head(q) = q[1] /\ q[1] \in Message
         /\ Len(Tail(q)) = Len(q) - 1 /\ \A k \in 1..Len(q) - 1 : Tail(q)[k] = q[k + 1]
<1>1. /\ Len(q) \in Nat /\ Len(q) >= 1 /\ DOMAIN q = 1..Len(q)
      /\ Tail(q) \in Seq(Message) /\ Len(Tail(q)) = Len(q) - 1
      /\ Head(q) = q[1] /\ q[1] \in Message
      /\ \A k \in 1..Len(q) - 1 : Tail(q)[k] = q[k + 1]
  OBVIOUS
<1> DEFINE r == Tail(q)
<1>2. DOMAIN r = 1..Len(q) - 1
  BY <1>1
<1>. HIDE DEF r
<1>3. \A k \in DOMAIN q : k > 1 => k - 1 \in DOMAIN r /\ r[k - 1] = q[k]
  BY <1>1, <1>2 DEF r
<1>4. \A k \in DOMAIN r : k + 1 \in DOMAIN q /\ r[k] = q[k + 1]
  BY <1>1, <1>2 DEF r
<1>5. Moves(q, r, 1, {}, {})
  BY <1>3, <1>4 DEF Moves
<1>. QED BY <1>1, <1>5 DEF r

LEMMA ServesDropping ==
  ASSUME NEW q \in Seq(Message), q # <<>>, NEW D, NEW r,
         r = [k \in DOMAIN Tail(q) |-> IF Tail(q)[k] \in D THEN Dropped ELSE Tail(q)[k]]
  PROVE  r \in Seq(Message) /\ Moves(q, r, 1, D, {})
<1>1. /\ Len(q) \in Nat /\ Len(q) >= 1 /\ DOMAIN q = 1..Len(q)
      /\ Tail(q) \in Seq(Message) /\ Len(Tail(q)) = Len(q) - 1
      /\ \A k \in 1..Len(q) - 1 : Tail(q)[k] = q[k + 1] /\ q[k + 1] \in Message
  OBVIOUS
<1>2. DOMAIN Tail(q) = 1..Len(q) - 1
  BY <1>1
<1>3. Dropped \in Message
  BY Messages
<1>4. /\ DOMAIN r = 1..Len(q) - 1
      /\ \A k \in 1..Len(q) - 1 : r[k] = IF q[k + 1] \in D THEN Dropped ELSE q[k + 1]
  BY <1>1, <1>2
<1>5. r \in Seq(Message)
  <2>1. \A k \in 1..Len(q) - 1 : r[k] \in Message
    BY <1>1, <1>3, <1>4
  <2>2. r = [k \in 1..Len(q) - 1 |-> r[k]] /\ Len(q) - 1 \in Nat
    BY <1>1, <1>4
  <2>. QED BY <2>1, <2>2, IsASeq
<1>6. \A k \in DOMAIN q : k > 1 /\ q[k] \notin D => k - 1 \in DOMAIN r /\ r[k - 1] = q[k]
  BY <1>1, <1>4
<1>7. \A k \in DOMAIN r : r[k] # Dropped => k + 1 \in DOMAIN q /\ r[k] = q[k + 1] /\ q[k + 1] \notin D
  BY <1>1, <1>3, <1>4
<1>8. Moves(q, r, 1, D, {})
  BY <1>6, <1>7 DEF Moves
<1>. QED BY <1>5, <1>8

LEMMA ServesPosting ==
  ASSUME NEW q \in Seq(Message), q # <<>>, NEW x \in Message
  PROVE  LET r == Append(Tail(q), x) IN
         /\ r \in Seq(Message) /\ Moves(q, r, 1, {}, {x})
         /\ DOMAIN r = DOMAIN q
<1> DEFINE r == Append(Tail(q), x)
<1>1. /\ Len(q) \in Nat /\ Len(q) >= 1 /\ DOMAIN q = 1..Len(q)
      /\ Tail(q) \in Seq(Message) /\ Len(Tail(q)) = Len(q) - 1
      /\ \A k \in 1..Len(q) - 1 : Tail(q)[k] = q[k + 1]
  OBVIOUS
<1>2. /\ r \in Seq(Message) /\ Len(r) = Len(q)
      /\ \A k \in 1..Len(q) - 1 : r[k] = q[k + 1]
      /\ r[Len(q)] = x
  BY <1>1, AppendProperties
<1>3. DOMAIN r = 1..Len(q)
  BY <1>2
<1>. HIDE DEF r
<1>4. \A k \in DOMAIN q : k > 1 => k - 1 \in DOMAIN r /\ r[k - 1] = q[k]
  BY <1>1, <1>2, <1>3
<1>5. ASSUME NEW k \in DOMAIN r
      PROVE  \/ k + 1 \in DOMAIN q /\ r[k] = q[k + 1]
             \/ r[k] = x /\ \A j \in DOMAIN q : j - 1 < k
  <2>1. CASE k = Len(q)
    BY <1>1, <1>2, <2>1
  <2>2. CASE k # Len(q)
    BY <1>1, <1>2, <1>3, <2>2
  <2>. QED BY <2>1, <2>2
<1>6. Len(q) \in DOMAIN r /\ r[Len(q)] = x /\ \A j \in DOMAIN q : j - 1 < Len(q)
  BY <1>1, <1>2, <1>3
<1>7. Moves(q, r, 1, {}, {x})
  BY <1>4, <1>5, <1>6 DEF Moves
<1>. QED BY <1>1, <1>2, <1>3, <1>7 DEF r

-----------------------------------------------------------------------------
(* What a move of the queue means for its messages.                        *)

Before(q, x, y) == \E j, k \in DOMAIN q : j < k /\ q[j] = x /\ q[k] = y

(* The last messages of q that are in H: one, or none.                     *)
Last(q, H) == {q[k] : k \in {k \in DOMAIN q : q[k] \in H /\ \A j \in DOMAIN q : j > k => q[j] \notin H}}

(* After each x comes a y.                                                 *)
Followed(q, x, y) == \A k \in DOMAIN q : q[k] = x => \E j \in DOMAIN q : j > k /\ q[j] = y

LEMMA Queues ==
  ASSUME NEW q \in Seq(Message), NEW h \in {0, 1}
  PROVE  /\ \A k \in DOMAIN q : k \in Nat /\ k >= 1 /\ q[k] \in Message /\ q[k] \in Range(q)
         /\ \A x \in Range(q) : \E k \in DOMAIN q : q[k] = x
         /\ Range(q) \subseteq Message
BY DEF Range

LEMMA MovesQueued ==
  ASSUME NEW q \in Seq(Message), NEW r \in Seq(Message), NEW h \in {0, 1}, NEW D, NEW N,
         Moves(q, r, h, D, N)
  PROVE  /\ \A x \in Range(r) : x # Dropped => x \in Range(q) \ D \/ x \in N
         /\ N \subseteq Range(r)
         /\ \A x \in Range(q) \ D : h = 0 \/ x # q[1] => x \in Range(r)
         /\ \A x, y : x # Dropped /\ y # Dropped /\ Before(r, x, y) =>
              Before(q, x, y) \/ (y \in N /\ x \in Range(q) \cup N)
         /\ h = 1 => \A x \in Range(r) : x \in {Dropped} \cup N \/ Before(q, q[1], x)
<1>1. ASSUME NEW k \in DOMAIN r, r[k] # Dropped
      PROVE  \/ k + h \in DOMAIN q /\ r[k] = q[k + h] /\ q[k + h] \notin D
             \/ r[k] \in N /\ \A j \in DOMAIN q : j - h < k
  BY <1>1 DEF Moves
<1>2. \A k \in DOMAIN q : k \in Nat /\ k >= 1 /\ q[k] \in Range(q)
  BY Queues
<1>3. \A k \in DOMAIN r : k \in Nat /\ k >= 1 /\ r[k] \in Range(r)
  BY Queues
<1>4. \A x \in Range(r) : x # Dropped => x \in Range(q) \ D \/ x \in N
  BY <1>1, <1>2, Queues
<1>5. N \subseteq Range(r)
  BY <1>3 DEF Moves
<1>6. ASSUME NEW x \in Range(q) \ D, h = 0 \/ x # q[1] PROVE x \in Range(r)
  <2>1. PICK k \in DOMAIN q : q[k] = x
    BY Queues
  <2>2. k > h
    BY <1>2, <1>6, <2>1
  <2>. QED BY <1>3, <1>6, <2>1, <2>2 DEF Moves
<1>7. ASSUME NEW x, NEW y, x # Dropped, y # Dropped, Before(r, x, y)
      PROVE  Before(q, x, y) \/ (y \in N /\ x \in Range(q) \cup N)
  <2>1. PICK j \in DOMAIN r, k \in DOMAIN r : j < k /\ r[j] = x /\ r[k] = y
    BY <1>7 DEF Before
  <2>2. CASE k + h \in DOMAIN q /\ y = q[k + h]
    <3>1. j + h \in DOMAIN q /\ x = q[j + h]
      BY <1>1, <1>2, <1>3, <1>7, <2>1, <2>2
    <3>2. j + h < k + h
      BY <1>3, <2>1
    <3>. QED BY <2>2, <3>1, <3>2 DEF Before
  <2>3. CASE y \in N
    BY <1>1, <1>2, <1>7, <2>1, <2>3
  <2>. QED BY <1>1, <1>7, <2>1, <2>2, <2>3
<1>8. ASSUME h = 1, NEW x \in Range(r), x # Dropped, x \notin N PROVE Before(q, q[1], x)
  <2>1. PICK k \in DOMAIN r : r[k] = x
    BY Queues
  <2>2. k + 1 \in DOMAIN q /\ q[k + 1] = x
    BY <1>1, <1>8, <2>1
  <2>3. 1 \in DOMAIN q /\ 1 < k + 1
    BY <1>3, <2>2, Positions
  <2>. QED BY <2>2, <2>3 DEF Before
<1>. QED BY <1>4, <1>5, <1>6, <1>7, <1>8

LEMMA MovesFollowed ==
  ASSUME NEW q \in Seq(Message), NEW r \in Seq(Message), NEW h \in {0, 1}, NEW D, NEW N,
         Moves(q, r, h, D, N),
         NEW x, NEW y, x # Dropped, y \notin D,
         y \in N \/ (x \notin N /\ Followed(q, x, y)),
         x \notin N
  PROVE  Followed(r, x, y)
<1>1. SUFFICES ASSUME NEW k \in DOMAIN r, r[k] = x
               PROVE  \E j \in DOMAIN r : j > k /\ r[j] = y
  BY DEF Followed
<1>2. /\ \A j \in DOMAIN q : j \in Nat /\ j >= 1
      /\ \A j \in DOMAIN r : j \in Nat /\ j >= 1
  BY Queues
<1>3. k + h \in DOMAIN q /\ q[k + h] = x
  BY <1>1 DEF Moves
<1>4. CASE y \in N
  <2>1. PICK j \in DOMAIN r : r[j] = y /\ \A i \in DOMAIN q : i - h < j
    BY <1>4 DEF Moves
  <2>2. k + h - h < j
    BY <1>3, <2>1
  <2>. QED BY <1>2, <2>1, <2>2
<1>5. CASE Followed(q, x, y)
  <2>1. PICK j \in DOMAIN q : j > k + h /\ q[j] = y
    BY <1>3, <1>5 DEF Followed
  <2>2. j > h /\ j - h > k
    BY <1>2, <2>1
  <2>3. j - h \in DOMAIN r /\ r[j - h] = y
    BY <2>1, <2>2 DEF Moves
  <2>. QED BY <2>2, <2>3
<1>. QED BY <1>4, <1>5

(* With nothing of H dropped and nothing new, the last of H stays; the     *)
(* head, if it was in H, was the last only if none is left.                *)
LEMMA MovesLast ==
  ASSUME NEW q \in Seq(Message), NEW r \in Seq(Message), NEW h \in {0, 1}, NEW D, NEW N,
         Moves(q, r, h, D, N), h = 1 => q # <<>>,
         NEW H, H \cap D = {}, H \cap N = {}, Dropped \notin H
  PROVE  /\ Last(r, H) \subseteq Last(q, H)
         /\ h = 0 \/ q[1] \notin H => (H \cap Range(r) = {} => H \cap Range(q) = {})
         /\ h = 1 /\ q[1] \in H /\ H \cap Range(r) = {} => q[1] \in Last(q, H)
<1>1. /\ \A j \in DOMAIN q : j \in Nat /\ j >= 1
      /\ \A j \in DOMAIN r : j \in Nat /\ j >= 1 /\ r[j] \in Range(r)
  BY Queues
<1>2. ASSUME NEW j \in DOMAIN q, j > h, q[j] \in H PROVE j - h \in DOMAIN r /\ r[j - h] = q[j]
  BY <1>2 DEF Moves
<1>3. ASSUME NEW x \in Last(r, H) PROVE x \in Last(q, H)
  <2>1. PICK k \in DOMAIN r : r[k] = x /\ x \in H /\ \A j \in DOMAIN r : j > k => r[j] \notin H
    BY DEF Last
  <2>2. k + h \in DOMAIN q /\ q[k + h] = x
    BY <2>1 DEF Moves
  <2>3. ASSUME NEW j \in DOMAIN q, j > k + h PROVE q[j] \notin H
    <3>1. j > h /\ j - h > k
      BY <1>1, <2>1, <2>3
    <3>. QED BY <1>2, <2>1, <3>1
  <2>. QED BY <2>1, <2>2, <2>3 DEF Last
<1>4. ASSUME h = 0 \/ q[1] \notin H, H \cap Range(r) = {} PROVE H \cap Range(q) = {}
  <2>1. SUFFICES ASSUME NEW x \in Range(q), x \in H PROVE FALSE
    OBVIOUS
  <2>2. PICK k \in DOMAIN q : q[k] = x
    BY Queues
  <2>3. k > h
    BY <1>1, <1>4, <2>1, <2>2
  <2>. QED BY <1>1, <1>2, <1>4, <2>1, <2>2, <2>3
<1>5. ASSUME h = 1, q[1] \in H, H \cap Range(r) = {} PROVE q[1] \in Last(q, H)
  <2>1. 1 \in DOMAIN q
    BY <1>5, Positions
  <2>2. ASSUME NEW j \in DOMAIN q, j > 1 PROVE q[j] \notin H
    BY <1>1, <1>2, <1>5, <2>2
  <2>. QED BY <1>5, <2>1, <2>2 DEF Last
<1>. QED BY <1>3, <1>4, <1>5

(* If something new is in H, the last of H is new.                         *)
LEMMA MovesNewLast ==
  ASSUME NEW q \in Seq(Message), NEW r \in Seq(Message), NEW h \in {0, 1}, NEW D, NEW N,
         Moves(q, r, h, D, N),
         NEW H, H \cap N # {}, Dropped \notin H
  PROVE  Last(r, H) \subseteq N \cap H /\ H \cap Range(r) # {}
<1>1. /\ \A j \in DOMAIN q : j \in Nat /\ j >= 1
      /\ \A j \in DOMAIN r : j \in Nat /\ j >= 1 /\ r[j] \in Range(r)
  BY Queues
<1>2. PICK y \in H \cap N : TRUE
  OBVIOUS
<1>3. PICK i \in DOMAIN r : r[i] = y /\ \A j \in DOMAIN q : j - h < i
  BY <1>2 DEF Moves
<1>4. ASSUME NEW x \in Last(r, H) PROVE x \in N \cap H
  <2>1. PICK k \in DOMAIN r : r[k] = x /\ x \in H /\ \A j \in DOMAIN r : j > k => r[j] \notin H
    BY DEF Last
  <2>2. CASE k + h \in DOMAIN q
    <3>1. k + h - h < i
      BY <1>3, <2>2
    <3>. QED BY <1>1, <1>2, <1>3, <2>1, <3>1
  <2>3. CASE k + h \notin DOMAIN q
    BY <2>1, <2>3 DEF Moves
  <2>. QED BY <2>2, <2>3
<1>. QED BY <1>1, <1>2, <1>3, <1>4

LEMMA PostedOnce ==
  ASSUME NEW q \in Seq(Message), q # <<>>, NEW x \in Message, x \notin Range(q)
  PROVE  ~Before(Append(Tail(q), x), x, x)
<1> DEFINE r == Append(Tail(q), x)
<1>1. /\ Len(q) \in Nat /\ DOMAIN r = 1..Len(q) /\ DOMAIN q = 1..Len(q)
      /\ \A k \in 1..Len(q) - 1 : r[k] = q[k + 1] /\ k + 1 \in DOMAIN q
  BY AppendProperties
<1>. HIDE DEF r
<1>2. \A k \in DOMAIN r : r[k] = x => k = Len(q)
  <2>1. ASSUME NEW k \in DOMAIN r, r[k] = x, k # Len(q) PROVE FALSE
    <3>1. k \in 1..Len(q) - 1
      BY <1>1, <2>1
    <3>. QED BY <1>1, <2>1, <3>1 DEF Range
  <2>. QED BY <2>1
<1>3. ~Before(r, x, x)
  BY <1>1, <1>2 DEF Before
<1>. QED BY <1>3 DEF r

-----------------------------------------------------------------------------
(* The types, and how queue, objects and managers fit together, whatever   *)
(* oFono does.                                                             *)

Queued == Range(events)

(* The objects at p that are not to be deleted, and what they have to say. *)
Live(p) == {o \in DOMAIN objects[p] : ObjectGoes(p, o) \notin Queued}
Voice(p) == {x \in Message : x.type = "PropertyChanged" /\ x.path = p /\ x.object \in Live(p)}

TypesInv ==
  /\ modem \in BOOLEAN /\ starting \in BOOLEAN /\ refused \in BOOLEAN
  /\ pc \in {"GetModems", "GetCalls", "answered", "connect", "running", "unusable", "crashed"}
  /\ events \in Seq(Message)
  /\ call \in [Paths -> CallStates \cup {"none"}]
  /\ answer \in [Paths -> CallStates \cup {"none"}]
  /\ m_send_call_state \in [Paths -> {"none", "ringing", "talking"}]
  /\ DOMAIN objects = Paths
  /\ \A p \in Paths :
       /\ objects[p] \in [DOMAIN objects[p] -> States]
       /\ DOMAIN objects[p] \subseteq Nat \ {0} /\ IsFiniteSet(DOMAIN objects[p])
  /\ m_calls \in [Paths -> Nat]
  /\ managers \subseteq Nat \ {0} /\ IsFiniteSet(managers)
  /\ m_voice_call_manager \in managers \cup {0}

(* Events are about objects that there are, and deletions are posted once. *)
ObjectsInv ==
  \A p \in Paths :
    /\ m_calls[p] # 0 => m_calls[p] \in Live(p)
    /\ \A o, s : Word(p, o, s) \in Queued => o \in DOMAIN objects[p]
    /\ \A o : ObjectGoes(p, o) \in Queued =>
         o \in DOMAIN objects[p] /\ ~Before(events, ObjectGoes(p, o), ObjectGoes(p, o))

ManagersInv ==
  /\ \A p \in Paths : \A s, m : Added(p, s, m) \in Queued => m \in managers
  /\ \A p \in Paths : \A m : Removed(p, m) \in Queued => m \in managers
  /\ \A m : ManagerGoes(m) \in Queued =>
       m \in managers \ {m_voice_call_manager} /\ ~Before(events, ManagerGoes(m), ManagerGoes(m))

LinksInv == TypesInv /\ ObjectsInv /\ ManagersInv

LEMMA LinksAreTyped == LinksInv => TelephonyTypeOK
<1>1. ASSUME LinksInv, NEW p \in Paths
      PROVE  /\ call[p] \in FirstStates \cup {"none", "alerting", "active", "held"}
             /\ m_send_call_state[p] \in {"none", "ringing", "talking"}
             /\ DOMAIN objects[p] \subseteq Nat \ {0}
             /\ m_calls[p] \in DOMAIN objects[p] \cup {0}
  BY <1>1 DEF LinksInv, TypesInv, ObjectsInv, Live, CallStates
<1>. QED BY <1>1 DEF LinksInv, TypesInv, TelephonyTypeOK

(* One of the numbers up to one more than there are in S is free.          *)
LEMMA FreshIsNew ==
  ASSUME NEW S, IsFiniteSet(S)
  PROVE  Fresh(S) \in Nat \ {0} /\ Fresh(S) \notin S
<1>. DEFINE n == Cardinality(S)
<1>1. n \in Nat
  BY FS_CardinalityType
<1>. HIDE DEF n
<1>2. ASSUME \A i \in 1..n + 1 : i \in S PROVE FALSE
  <2>1. (1..n + 1) \in SUBSET S
    BY <1>2
  <2>2. Cardinality(1..n + 1) <= n
    BY <2>1, FS_Subset DEF n
  <2>3. Cardinality(1..n + 1) = IF 1 > n + 1 THEN 0 ELSE (n + 1) - 1 + 1
    BY <1>1, 1 \in Int, n + 1 \in Int, FS_Interval
  <2>. QED BY <1>1, <2>2, <2>3
<1>3. Fresh(S) \in 1..n + 1 /\ Fresh(S) \notin S
  BY <1>2 DEF Fresh, n
<1>. QED BY <1>1, <1>3

(* An order of a finite set names each of its members once.                *)
LEMMA OrderOfSet ==
  ASSUME NEW S, IsFiniteSet(S), NEW to \in Orders(S)
  PROVE  /\ DOMAIN to = 1..Cardinality(S) /\ Cardinality(S) \in Nat
         /\ \A k \in DOMAIN to : to[k] \in S
         /\ \A x \in S : \E k \in DOMAIN to : to[k] = x
         /\ \A j, k \in DOMAIN to : to[j] = to[k] => j = k
BY FS_CardinalityType DEF Orders, Bijection, Injection, Surjection, IsInjective

-----------------------------------------------------------------------------
(* How each action moves the queue.                                        *)

Words(p, s) == {Word(p, o, s) : o \in DOMAIN objects[p]}
AddedToAll(p, s) == {Added(p, s, m) : m \in managers}
RemovedToAll(p) == {Removed(p, m) : m \in managers}

LEMMA ChangedPosted ==
  ASSUME TypesInv, NEW p \in Paths, NEW s \in States, NEW to \in Orders(DOMAIN objects[p])
  PROVE  LET c == Changed(p, s, to) IN
         /\ c \in Seq(Message)
         /\ \A k \in DOMAIN c : c[k] \in Words(p, s)
         /\ \A x \in Words(p, s) : \E k \in DOMAIN c : c[k] = x
         /\ \A j, k \in DOMAIN c : c[j] = c[k] => j = k
<1>. DEFINE c == Changed(p, s, to)
            n == Cardinality(DOMAIN objects[p])
<1>1. /\ DOMAIN to = 1..n /\ n \in Nat
      /\ \A k \in DOMAIN to : to[k] \in DOMAIN objects[p]
      /\ \A x \in DOMAIN objects[p] : \E k \in DOMAIN to : to[k] = x
      /\ \A j, k \in DOMAIN to : to[j] = to[k] => j = k
  BY OrderOfSet DEF TypesInv
<1>2. DOMAIN c = 1..n /\ \A k \in 1..n : c[k] = Word(p, to[k], s)
  BY <1>1 DEF Changed, Word
<1>3. \A o \in DOMAIN objects[p] : Word(p, o, s) \in Message
  BY Messages DEF TypesInv
<1>4. c \in Seq(Message)
  <2>1. c = [k \in 1..n |-> Word(p, to[k], s)]
    BY <1>1 DEF Changed, Word
  <2>2. \A k \in 1..n : Word(p, to[k], s) \in Message
    BY <1>1, <1>3
  <2>. QED BY <1>1, <2>1, <2>2, IsASeq
<1>. HIDE DEF c, n
<1>5. \A k \in DOMAIN c : c[k] \in Words(p, s)
  BY <1>1, <1>2 DEF Words
<1>6. \A x \in Words(p, s) : \E k \in DOMAIN c : c[k] = x
  BY <1>1, <1>2 DEF Words
<1>7. \A j, k \in DOMAIN c : c[j] = c[k] => j = k
  BY <1>1, <1>2, Fields
<1>. QED BY <1>4, <1>5, <1>6, <1>7 DEF c

LEMMA FromManagersPosted ==
  ASSUME TypesInv, NEW p \in Paths, NEW s \in FirstStates, NEW to \in Orders(managers)
  PROVE  LET a == FromManagers("CallAdded", p, s, to)
             r == FromManagers("CallRemoved", p, "none", to)
         IN
         /\ a \in Seq(Message)
         /\ \A k \in DOMAIN a : a[k] \in AddedToAll(p, s)
         /\ \A x \in AddedToAll(p, s) : \E k \in DOMAIN a : a[k] = x
         /\ r \in Seq(Message)
         /\ \A k \in DOMAIN r : r[k] \in RemovedToAll(p)
         /\ \A x \in RemovedToAll(p) : \E k \in DOMAIN r : r[k] = x
<1>. DEFINE a == FromManagers("CallAdded", p, s, to)
            r == FromManagers("CallRemoved", p, "none", to)
            n == Cardinality(managers)
<1>1. /\ DOMAIN to = 1..n /\ n \in Nat
      /\ \A k \in DOMAIN to : to[k] \in managers
      /\ \A x \in managers : \E k \in DOMAIN to : to[k] = x
  BY OrderOfSet DEF TypesInv
<1>2. /\ a = [k \in 1..n |-> Added(p, s, to[k])]
      /\ r = [k \in 1..n |-> Removed(p, to[k])]
  BY <1>1 DEF FromManagers, Added, Removed
<1>3. \A m \in managers : Added(p, s, m) \in Message /\ Removed(p, m) \in Message
  BY Messages DEF TypesInv
<1>. HIDE DEF a, r, n
<1>4. a \in Seq(Message) /\ r \in Seq(Message)
  <2>1. \A k \in 1..n : Added(p, s, to[k]) \in Message /\ Removed(p, to[k]) \in Message
    BY <1>1, <1>3
  <2>. QED BY <1>1, <1>2, <2>1, IsASeq
<1>5. \A k \in DOMAIN a : a[k] \in AddedToAll(p, s)
  BY <1>1, <1>2 DEF AddedToAll
<1>6. \A x \in AddedToAll(p, s) : \E k \in DOMAIN a : a[k] = x
  BY <1>1, <1>2 DEF AddedToAll
<1>7. \A k \in DOMAIN r : r[k] \in RemovedToAll(p)
  BY <1>1, <1>2 DEF RemovedToAll
<1>8. \A x \in RemovedToAll(p) : \E k \in DOMAIN r : r[k] = x
  BY <1>1, <1>2 DEF RemovedToAll
<1>. QED BY <1>4, <1>5, <1>6, <1>7, <1>8 DEF a, r

LEMMA CallComesMoves ==
  ASSUME TypesInv, NEW p \in Paths, NEW s \in FirstStates, CallComes(p, s)
  PROVE  events' \in Seq(Message) /\ Moves(events, events', 0, {}, AddedToAll(p, s))
<1>1. PICK to \in Orders(managers) : events' = events \o FromManagers("CallAdded", p, s, to)
  BY DEF CallComes
<1>. DEFINE a == FromManagers("CallAdded", p, s, to)
<1>2. /\ a \in Seq(Message)
      /\ \A k \in DOMAIN a : a[k] \in AddedToAll(p, s)
      /\ \A x \in AddedToAll(p, s) : \E k \in DOMAIN a : a[k] = x
  BY FromManagersPosted
<1>. HIDE DEF a
<1>. QED BY <1>1, <1>2, Posts DEF TypesInv, a

LEMMA CallChangesMoves ==
  ASSUME TypesInv, NEW p \in Paths, NEW s \in States, CallChanges(p, s)
  PROVE  events' \in Seq(Message) /\ Moves(events, events', 0, {}, Words(p, s))
<1>1. PICK to \in Orders(DOMAIN objects[p]) : events' = events \o Changed(p, s, to)
  BY DEF CallChanges
<1>. DEFINE c == Changed(p, s, to)
<1>2. /\ c \in Seq(Message)
      /\ \A k \in DOMAIN c : c[k] \in Words(p, s)
      /\ \A x \in Words(p, s) : \E k \in DOMAIN c : c[k] = x
  BY ChangedPosted
<1>. HIDE DEF c
<1>. QED BY <1>1, <1>2, Posts DEF TypesInv, c

(* Before the managers hear that a call was removed, its objects hear that *)
(* it is disconnected, each once.                                          *)
LEMMA CallEndsMoves ==
  ASSUME TypesInv, NEW p \in Paths, CallEnds(p)
  PROVE  LET W == Words(p, "disconnected")
             R == RemovedToAll(p)
         IN
         /\ events' \in Seq(Message)
         /\ Moves(events, events', 0, {}, W \cup R)
         /\ \A x \in R, y \in W : Before(events', x, y) => x \in Queued
         /\ \A x \in W : Before(events', x, x) => x \in Queued
<1>1. PICK to \in Orders(DOMAIN objects[p]), from \in Orders(managers) :
        events' = events \o Changed(p, "disconnected", to)
                         \o FromManagers("CallRemoved", p, "none", from)
  BY DEF CallEnds
<1>. DEFINE W == Words(p, "disconnected")
            R == RemovedToAll(p)
            c == Changed(p, "disconnected", to)
            r == FromManagers("CallRemoved", p, "none", from)
            q == events \o c
<1>2. /\ c \in Seq(Message)
      /\ \A k \in DOMAIN c : c[k] \in W
      /\ \A x \in W : \E k \in DOMAIN c : c[k] = x
      /\ \A j, k \in DOMAIN c : c[j] = c[k] => j = k
  BY ChangedPosted DEF States
<1>3. /\ r \in Seq(Message)
      /\ \A k \in DOMAIN r : r[k] \in R
      /\ \A x \in R : \E k \in DOMAIN r : r[k] = x
  <2>1. "incoming" \in FirstStates
    BY DEF FirstStates
  <2>. QED BY <2>1, FromManagersPosted
<1>4. R \cap W = {}
  BY Fields DEF Words, RemovedToAll
<1>. HIDE DEF W, R, c, r
<1>5. q \in Seq(Message) /\ Moves(events, q, 0, {}, W)
  BY <1>2, Posts DEF TypesInv
<1>6. events' = q \o r
  BY <1>1 DEF c, r
<1>7. q \o r \in Seq(Message) /\ Moves(q, q \o r, 0, {}, R)
  <2>. HIDE DEF q
  <2>. QED BY <1>3, <1>5, Posts
<1>8. events' \in Seq(Message) /\ Moves(q, events', 0, {}, R)
  BY <1>6, <1>7
<1>9. events' \in Seq(Message) /\ Moves(events, events', 0, {}, W \cup R)
  <2>1. c \o r \in Seq(Message) /\ Len(c \o r) = Len(c) + Len(r)
        /\ (\A k \in 1..Len(c) : (c \o r)[k] = c[k])
        /\ (\A k \in 1..Len(r) : (c \o r)[Len(c) + k] = r[k])
    BY <1>2, <1>3, ConcatProperties
  <2>2. /\ Len(c) \in Nat /\ Len(r) \in Nat /\ DOMAIN c = 1..Len(c) /\ DOMAIN r = 1..Len(r)
        /\ DOMAIN (c \o r) = 1..Len(c) + Len(r)
    BY <1>2, <1>3, <2>1
  <2>3. ASSUME NEW k \in DOMAIN (c \o r) PROVE (c \o r)[k] \in W \cup R
    <3>1. CASE k \in 1..Len(c)
      BY <1>2, <2>1, <2>2, <3>1
    <3>2. CASE k \notin 1..Len(c)
      <4>1. k - Len(c) \in 1..Len(r) /\ k = Len(c) + (k - Len(c))
        BY <2>2, <2>3, <3>2
      <4>2. (c \o r)[k] = r[k - Len(c)]
        BY <2>1, <4>1
      <4>. QED BY <1>3, <2>2, <4>1, <4>2
    <3>. QED BY <3>1, <3>2
  <2>4. ASSUME NEW x \in W \cup R PROVE \E k \in DOMAIN (c \o r) : (c \o r)[k] = x
    <3>1. CASE x \in W
      <4>1. PICK k \in DOMAIN c : c[k] = x
        BY <1>2, <3>1
      <4>. QED BY <2>1, <2>2, <4>1
    <3>2. CASE x \in R
      <4>1. PICK k \in DOMAIN r : r[k] = x
        BY <1>3, <3>2
      <4>2. Len(c) + k \in DOMAIN (c \o r) /\ (c \o r)[Len(c) + k] = x
        BY <2>1, <2>2, <4>1
      <4>. QED BY <4>2
    <3>. QED BY <2>4, <3>1, <3>2
  <2>5. events' = events \o (c \o r)
    <3>1. events \in Seq(Message)
      BY DEF TypesInv
    <3>. QED BY <1>2, <1>3, <1>6, <3>1
  <2>. HIDE DEF q
  <2>6. LET s == c \o r IN
        events \o s \in Seq(Message) /\ Moves(events, events \o s, 0, {}, W \cup R)
    <3>. DEFINE s == c \o r
    <3>1. s \in Seq(Message)
      BY <2>1
    <3>2. /\ \A k \in DOMAIN s : s[k] \in W \cup R
          /\ \A x \in W \cup R : \E k \in DOMAIN s : s[k] = x
      BY <2>3, <2>4
    <3>. HIDE DEF s
    <3>3. events \o s \in Seq(Message) /\ Moves(events, events \o s, 0, {}, W \cup R)
      BY <3>1, <3>2, Posts DEF TypesInv
    <3>. QED BY <3>3 DEF s
  <2>. QED BY <2>5, <2>6
<1>10. Dropped \notin W \cup R
  BY Fields DEF Words, RemovedToAll, W, R
<1>11. ASSUME NEW x \in R, NEW y \in W, Before(events', x, y) PROVE x \in Queued
  <2>. HIDE DEF q
  <2>1. Before(q, x, y)
    BY <1>4, <1>5, <1>8, <1>10, <1>11, MovesQueued
  <2>2. Before(events, x, y) \/ x \in Range(events) \cup W
    BY <1>5, <1>10, <2>1, MovesQueued DEF TypesInv
  <2>3. Before(events, x, y) => x \in Range(events)
    BY DEF Before, Range
  <2>. QED BY <1>4, <2>2, <2>3 DEF Queued
<1>12. ASSUME NEW x \in W, Before(events', x, x) PROVE x \in Queued
  <2>1. Before(q, x, x)
    <3>. HIDE DEF q
    <3>. QED BY <1>4, <1>5, <1>8, <1>10, <1>12, MovesQueued
  <2>2. PICK j \in DOMAIN q, k \in DOMAIN q : j < k /\ q[j] = x /\ q[k] = x
    BY <2>1 DEF Before
  <2>3. /\ Len(q) = Len(events) + Len(c) /\ DOMAIN q = 1..Len(q)
        /\ \A i \in 1..Len(events) : q[i] = events[i]
        /\ \A i \in 1..Len(c) : q[Len(events) + i] = c[i]
    BY <1>2, <1>5, ConcatProperties DEF TypesInv
  <2>4. /\ Len(events) \in Nat /\ Len(c) \in Nat /\ DOMAIN events = 1..Len(events)
        /\ DOMAIN c = 1..Len(c)
    BY <1>2 DEF TypesInv
  <2>. HIDE DEF q
  <2>5. CASE j \in DOMAIN events
    BY <2>2, <2>3, <2>4, <2>5 DEF Queued, Range
  <2>6. CASE j \notin DOMAIN events
    <3>. DEFINE n == Len(events)
    <3>0. j \in Nat /\ k \in Nat /\ 1 <= j /\ j < k /\ k <= n + Len(c) /\ ~(j <= n)
      BY <2>2, <2>3, <2>4, <2>6
    <3>. DEFINE l == Len(c)
    <3>0a. n \in Nat /\ l \in Nat
      BY <2>4
    <3>. HIDE DEF n, l
    <3>0b. /\ j - n \in 1..l /\ j = n + (j - n)
           /\ k - n \in 1..l /\ k = n + (k - n)
      BY <3>0, <3>0a DEF l
    <3>1. /\ j - n \in 1..Len(c) /\ j = n + (j - n)
          /\ k - n \in 1..Len(c) /\ k = n + (k - n)
      BY <3>0b DEF l
    <3>. USE DEF n
    <3>2. c[j - Len(events)] = x /\ c[k - Len(events)] = x
      BY <2>2, <2>3, <3>1
    <3>3. j - Len(events) = k - Len(events)
      BY <1>2, <2>4, <3>1, <3>2
    <3>. QED BY <2>2, <2>3, <2>4, <3>3
  <2>. QED BY <2>5, <2>6
<1>13. /\ \A x \in R, y \in W : Before(events', x, y) => x \in Queued
       /\ \A x \in W : Before(events', x, x) => x \in Queued
  BY <1>11, <1>12
<1>. QED BY <1>9, <1>13 DEF W, R

(* The plugin takes the event at the head of the queue.                    *)
Serving == pc = "running" /\ events # <<>>

LEMMA HeadServed ==
  ASSUME TypesInv, Serving
  PROVE  /\ Head(events) = events[1] /\ events[1] \in Message /\ events[1] \in Queued
         /\ Tail(events) \in Seq(Message) /\ Moves(events, Tail(events), 1, {}, {})
BY Serves DEF TypesInv, Serving, Queued, Range

OfManager(m) == {x \in Message : x.type \in {"CallAdded", "CallRemoved"} /\ x.manager = m}
OfObject(p, o) == {x \in Message : x.type = "PropertyChanged" /\ x.path = p /\ x.object = o}

LEMMA onModemAddedMoves ==
  ASSUME TypesInv, onModemAdded
  PROVE  /\ Serving /\ events[1] = ModemAdded
         /\ events' \in Seq(Message) /\ Moves(events, events', 1, {}, {})
BY HeadServed, Kinds DEF onModemAdded, Serving

LEMMA onModemRemovedMoves ==
  ASSUME TypesInv, onModemRemoved
  PROVE  LET x == ManagerGoes(m_voice_call_manager) IN
         /\ Serving /\ events[1] = ModemRemoved
         /\ events' \in Seq(Message)
         /\ \/ /\ m_voice_call_manager # 0 /\ Moves(events, events', 1, {}, {x})
               /\ x \notin Queued => ~Before(events', x, x)
               /\ pc' = "running"
            \/ events' = <<>> /\ pc' = "crashed"
<1>. DEFINE x == ManagerGoes(m_voice_call_manager)
<1>1. Serving /\ Head(events).type = "ModemRemoved" /\ events[1] = ModemRemoved
  BY HeadServed, Kinds DEF onModemRemoved, Serving
<1>2. CASE m_voice_call_manager = 0
  BY <1>1, <1>2 DEF onModemRemoved
<1>3. CASE m_voice_call_manager # 0
  <2>1. events' = Append(Tail(events), x) /\ pc' = "running"
    BY <1>3 DEF onModemRemoved, ManagerGoes
  <2>2. x \in Message
    BY <1>3, Messages DEF TypesInv
  <2>. HIDE DEF x
  <2>. QED BY <1>1, <1>3, <2>1, <2>2, ServesPosting, PostedOnce DEF TypesInv, Serving, Queued, x
<1>. QED BY <1>2, <1>3

LEMMA ManagerDeletedMoves ==
  ASSUME TypesInv, ManagerDeleted
  PROVE  \E m \in Nat :
           /\ Serving /\ events[1] = ManagerGoes(m)
           /\ managers' = managers \ {m}
           /\ events' \in Seq(Message) /\ Moves(events, events', 1, OfManager(m), {})
<1>. DEFINE rest == Tail(events)
            m == Head(events).manager
<1>1. Serving /\ Head(events) = events[1] /\ Head(events).type = "ManagerDeleted" /\ Head(events) \in Message
      /\ rest \in Seq(Message)
  BY HeadServed DEF ManagerDeleted, Serving
<1>2. m \in Nat /\ events[1] = ManagerGoes(m)
  BY <1>1, Kinds
<1>3. \A k \in DOMAIN rest : rest[k] \in Message
  BY <1>1, Positions
<1>4. events' = [k \in DOMAIN rest |-> IF rest[k] \in OfManager(m) THEN Dropped ELSE rest[k]]
  BY <1>3 DEF ManagerDeleted, OfManager
<1>5. managers' = managers \ {m}
  BY DEF ManagerDeleted
<1>6. events' \in Seq(Message) /\ Moves(events, events', 1, OfManager(m), {})
  BY <1>1, <1>4, ServesDropping DEF TypesInv, Serving
<1>. QED BY <1>1, <1>2, <1>5, <1>6

LEMMA onCallAddedMoves ==
  ASSUME TypesInv, onCallAdded
  PROVE  \E p \in Paths, s \in FirstStates, m \in Nat :
           /\ Serving /\ events[1] = Added(p, s, m)
           /\ events' \in Seq(Message) /\ Moves(events, events', 1, {}, {})
           /\ objects' = [objects EXCEPT ![p] = WithCall(p, s)]
           /\ m_calls' = [m_calls EXCEPT ![p] = NewCall(p)]
           /\ onCallStateChanged(p, s)
<1>1. Serving /\ Head(events) = events[1] /\ Head(events).type = "CallAdded" /\ Head(events) \in Message
  BY HeadServed DEF onCallAdded, Serving
<1>2. PICK p \in Paths, s \in FirstStates, m \in Nat :
        events[1] = Added(p, s, m) /\ Head(events).path = p /\ Head(events).state = s
  BY <1>1, Kinds
<1>3. /\ objects' = [objects EXCEPT ![p] = WithCall(p, s)]
      /\ m_calls' = [m_calls EXCEPT ![p] = NewCall(p)]
      /\ onCallStateChanged(p, s)
      /\ events' = Tail(events)
  BY <1>2 DEF onCallAdded
<1>4. events' \in Seq(Message) /\ Moves(events, events', 1, {}, {})
  BY <1>1, <1>3, HeadServed
<1>. QED BY <1>1, <1>2, <1>3, <1>4

LEMMA onCallRemovedMoves ==
  ASSUME TypesInv, onCallRemoved
  PROVE  \E p \in Paths, m \in Nat :
           LET x == ObjectGoes(p, m_calls[p]) IN
           /\ Serving /\ events[1] = Removed(p, m)
           /\ m_calls' = [m_calls EXCEPT ![p] = 0]
           /\ events' \in Seq(Message)
           /\ \/ m_calls[p] = 0 /\ Moves(events, events', 1, {}, {})
              \/ /\ m_calls[p] # 0 /\ Moves(events, events', 1, {}, {x})
                 /\ x \notin Queued => ~Before(events', x, x)
<1>1. Serving /\ Head(events) = events[1] /\ Head(events).type = "CallRemoved" /\ Head(events) \in Message
  BY HeadServed DEF onCallRemoved, Serving
<1>2. PICK p \in Paths, m \in Nat : events[1] = Removed(p, m) /\ Head(events).path = p
  BY <1>1, Kinds
<1>. DEFINE x == ObjectGoes(p, m_calls[p])
<1>3. m_calls' = [m_calls EXCEPT ![p] = 0]
  BY <1>2 DEF onCallRemoved
<1>4. CASE m_calls[p] = 0
  <2>1. events' = Tail(events)
    BY <1>2, <1>4 DEF onCallRemoved
  <2>. QED BY <1>1, <1>2, <1>3, <1>4, <2>1, HeadServed
<1>5. CASE m_calls[p] # 0
  <2>1. events' = Append(Tail(events), x)
    BY <1>2, <1>5 DEF onCallRemoved, ObjectGoes
  <2>2. x \in Message
    BY Messages DEF TypesInv
  <2>. HIDE DEF x
  <2>3. /\ events' \in Seq(Message) /\ Moves(events, events', 1, {}, {x})
        /\ x \notin Queued => ~Before(events', x, x)
    BY <1>1, <2>1, <2>2, ServesPosting, PostedOnce DEF TypesInv, Serving, Queued
  <2>. QED BY <1>1, <1>2, <1>3, <1>5, <2>3 DEF x
<1>. QED BY <1>4, <1>5

LEMMA onPropertiesChangedMoves ==
  ASSUME TypesInv, onPropertiesChanged
  PROVE  \E p \in Paths, o \in Nat, s \in States :
           /\ Serving /\ events[1] = Word(p, o, s)
           /\ events' \in Seq(Message) /\ Moves(events, events', 1, {}, {})
           /\ objects' = [objects EXCEPT ![p][o] = s]
           /\ onCallStateChanged(p, s)
<1>1. Serving /\ Head(events) = events[1] /\ Head(events).type = "PropertyChanged" /\ Head(events) \in Message
  BY HeadServed DEF onPropertiesChanged, Serving
<1>2. PICK p \in Paths, o \in Nat, s \in States :
        /\ events[1] = Word(p, o, s)
        /\ Head(events).path = p /\ Head(events).object = o /\ Head(events).state = s
  BY <1>1, Kinds
<1>3. /\ objects' = [objects EXCEPT ![p][o] = s]
      /\ onCallStateChanged(p, s)
      /\ events' = Tail(events)
  BY <1>2 DEF onPropertiesChanged
<1>. QED BY <1>1, <1>2, <1>3, HeadServed

LEMMA DeferredDeleteMoves ==
  ASSUME TypesInv, DeferredDelete
  PROVE  \E p \in Paths, o \in Nat :
           /\ Serving /\ events[1] = ObjectGoes(p, o)
           /\ objects' = [objects EXCEPT ![p] = [i \in DOMAIN objects[p] \ {o} |-> objects[p][i]]]
           /\ events' \in Seq(Message) /\ Moves(events, events', 1, OfObject(p, o), {})
<1>. DEFINE rest == Tail(events)
            p == Head(events).path
            o == Head(events).object
<1>1. Serving /\ Head(events) = events[1] /\ Head(events).type = "DeferredDelete" /\ Head(events) \in Message
      /\ rest \in Seq(Message)
  BY HeadServed DEF DeferredDelete, Serving
<1>2. p \in Paths /\ o \in Nat /\ events[1] = ObjectGoes(p, o)
  BY <1>1, Kinds
<1>3. \A k \in DOMAIN rest : rest[k] \in Message
  BY <1>1, Positions
<1>4. events' = [k \in DOMAIN rest |-> IF rest[k] \in OfObject(p, o) THEN Dropped ELSE rest[k]]
  BY <1>3 DEF DeferredDelete, OfObject
<1>5. objects' = [objects EXCEPT ![p] = [i \in DOMAIN objects[p] \ {o} |-> objects[p][i]]]
  BY DEF DeferredDelete
<1>6. events' \in Seq(Message) /\ Moves(events, events', 1, OfObject(p, o), {})
  BY <1>1, <1>4, ServesDropping DEF TypesInv, Serving
<1>. QED BY <1>1, <1>2, <1>5, <1>6

LEMMA DroppedEventMoves ==
  ASSUME TypesInv, DroppedEvent
  PROVE  /\ Serving /\ events[1] = Dropped
         /\ events' \in Seq(Message) /\ Moves(events, events', 1, {}, {})
BY HeadServed, Kinds DEF DroppedEvent, Serving

LEMMA ModemSignalsMove ==
  ASSUME TypesInv, ModemComes \/ ModemGoes
  PROVE  /\ events' \in Seq(Message)
         /\ \/ events' = events /\ Moves(events, events', 0, {}, {})
                 /\ (pc \in {"GetModems", "unusable", "crashed"} \/ starting)
            \/ /\ ~(pc \in {"GetModems", "unusable", "crashed"} \/ starting)
               /\ Moves(events, events', 0, {}, {IF modem THEN ModemRemoved ELSE ModemAdded})
<1>. DEFINE x == IF modem THEN ModemRemoved ELSE ModemAdded
<1>1. CASE pc \in {"GetModems", "unusable", "crashed"} \/ starting
  BY <1>1, Stays DEF ModemComes, ModemGoes, TypesInv
<1>2. CASE ~(pc \in {"GetModems", "unusable", "crashed"} \/ starting)
  <2>1. events' = Append(events, x)
    BY <1>2 DEF ModemComes, ModemGoes, ModemAdded, ModemRemoved
  <2>2. x \in Message
    BY Messages
  <2>. HIDE DEF x
  <2>3. events' = events \o <<x>> /\ <<x>> \in Seq(Message)
    BY <2>1, <2>2 DEF TypesInv
  <2>4. /\ \A k \in DOMAIN <<x>> : <<x>>[k] \in {x}
        /\ \A y \in {x} : \E k \in DOMAIN <<x>> : <<x>>[k] = y
    OBVIOUS
  <2>5. events' \in Seq(Message) /\ Moves(events, events', 0, {}, {x})
    <3>. DEFINE s == <<x>>
    <3>1. /\ \A k \in DOMAIN s : s[k] \in {x}
          /\ \A y \in {x} : \E k \in DOMAIN s : s[k] = y
          /\ s \in Seq(Message)
      BY <2>3, <2>4
    <3>. HIDE DEF s
    <3>2. events \o s \in Seq(Message) /\ Moves(events, events \o s, 0, {}, {x})
      BY <3>1, Posts DEF TypesInv
    <3>. QED BY <2>3, <3>2 DEF s
  <2>. QED BY <1>2, <2>5 DEF x
<1>. QED BY <1>1, <1>2

-----------------------------------------------------------------------------
(* The links are kept.                                                     *)

(* They are when nothing goes but the head of the queue, and what comes    *)
(* to it is about what there is.                                           *)
LEMMA LinksKept ==
  ASSUME LinksInv, events' \in Seq(Message),
         NEW h \in {0, 1}, NEW D, NEW N, Moves(events, events', h, D, N),
         managers \subseteq managers',
         m_voice_call_manager' = m_voice_call_manager \/ m_voice_call_manager' \notin managers,
         \A p \in Paths :
           /\ DOMAIN objects[p] \subseteq DOMAIN objects'[p]
           /\ m_calls'[p] \in {0, m_calls[p]} \cup (DOMAIN objects'[p] \ DOMAIN objects[p]),
         \A p \in Paths : \A o, s : Word(p, o, s) \in N => o \in DOMAIN objects[p],
         \A p \in Paths : \A s, m : Added(p, s, m) \in N => m \in managers,
         \A p \in Paths : \A m : Removed(p, m) \in N => m \in managers,
         \A p \in Paths : \A o : ObjectGoes(p, o) \in N =>
           /\ o \in DOMAIN objects[p] /\ o # m_calls'[p]
           /\ ObjectGoes(p, o) \notin Queued /\ ~Before(events', ObjectGoes(p, o), ObjectGoes(p, o)),
         \A m : ManagerGoes(m) \in N =>
           /\ m \in managers /\ m # m_voice_call_manager'
           /\ ManagerGoes(m) \notin Queued /\ ~Before(events', ManagerGoes(m), ManagerGoes(m))
  PROVE  ObjectsInv' /\ ManagersInv'
<1>1. /\ \A x \in Range(events') : x # Dropped => x \in Queued \/ x \in N
      /\ \A x : x # Dropped /\ Before(events', x, x) => Before(events, x, x) \/ x \in N
  BY MovesQueued DEF LinksInv, TypesInv, Queued
<1>2. /\ \A p, o, s : Word(p, o, s) # Dropped
      /\ \A p, s, m : Added(p, s, m) # Dropped
      /\ \A p, m : Removed(p, m) # Dropped
      /\ \A p, o : ObjectGoes(p, o) # Dropped
      /\ \A m : ManagerGoes(m) # Dropped
  BY DEF Word, Added, Removed, ObjectGoes, ManagerGoes, Dropped
<1>3. /\ Queued' = Range(events')
      /\ \A p : Live(p)' = {o \in DOMAIN objects'[p] : ObjectGoes(p, o) \notin Range(events')}
  BY DEF Queued, Live
<1>4. ASSUME NEW p \in Paths
      PROVE  /\ m_calls'[p] # 0 => m_calls'[p] \in Live(p)'
             /\ \A o, s : Word(p, o, s) \in Queued' => o \in DOMAIN objects'[p]
             /\ \A o : ObjectGoes(p, o) \in Queued' =>
                  /\ o \in DOMAIN objects'[p]
                  /\ ~Before(events', ObjectGoes(p, o), ObjectGoes(p, o))
  <2>1. \A o : ObjectGoes(p, o) \in Queued => o \in DOMAIN objects[p]
    BY DEF LinksInv, ObjectsInv
  <2>2. m_calls[p] # 0 => m_calls[p] \in DOMAIN objects[p] /\ ObjectGoes(p, m_calls[p]) \notin Queued
    BY DEF LinksInv, ObjectsInv, Live
  <2>3. ASSUME m_calls'[p] # 0 PROVE m_calls'[p] \in Live(p)'
    <3>1. ObjectGoes(p, m_calls'[p]) \notin Range(events')
      BY <1>1, <1>2, <2>1, <2>2, <2>3
    <3>2. m_calls'[p] \in DOMAIN objects'[p]
      BY <2>2, <2>3
    <3>. QED BY <1>3, <3>1, <3>2
  <2>4. ASSUME NEW o, NEW s, Word(p, o, s) \in Queued' PROVE o \in DOMAIN objects'[p]
    BY <1>1, <1>2, <1>3, <2>4 DEF LinksInv, ObjectsInv
  <2>5. ASSUME NEW o, ObjectGoes(p, o) \in Queued'
        PROVE  /\ o \in DOMAIN objects'[p]
               /\ ~Before(events', ObjectGoes(p, o), ObjectGoes(p, o))
    BY <1>1, <1>2, <1>3, <2>5 DEF LinksInv, ObjectsInv
  <2>. QED BY <2>3, <2>4, <2>5
<1>5. ObjectsInv'
  BY <1>4 DEF ObjectsInv
<1>6. /\ \A p \in Paths : \A s, m : Added(p, s, m) \in Queued' => m \in managers'
      /\ \A p \in Paths : \A m : Removed(p, m) \in Queued' => m \in managers'
  BY <1>1, <1>2, <1>3 DEF LinksInv, ManagersInv
<1>7. ASSUME NEW m, ManagerGoes(m) \in Queued'
      PROVE  /\ m \in managers' \ {m_voice_call_manager'}
             /\ ~Before(events', ManagerGoes(m), ManagerGoes(m))
  BY <1>1, <1>2, <1>3, <1>7 DEF LinksInv, ManagersInv
<1>8. ManagersInv'
  BY <1>6, <1>7 DEF ManagersInv
<1>. QED BY <1>5, <1>8

LEMMA ManagerGone ==
  ASSUME LinksInv, ManagerDeleted
  PROVE  ObjectsInv' /\ ManagersInv'
<1>1. PICK n \in Nat :
        /\ Serving /\ events[1] = ManagerGoes(n)
        /\ managers' = managers \ {n}
        /\ events' \in Seq(Message) /\ Moves(events, events', 1, OfManager(n), {})
  BY ManagerDeletedMoves DEF LinksInv
<1>2. /\ \A x \in Range(events') : x # Dropped => x \in Queued \ OfManager(n)
      /\ \A x : x # Dropped /\ Before(events', x, x) => Before(events, x, x)
      /\ \A x \in Range(events') : x = Dropped \/ Before(events, events[1], x)
  <2>. DEFINE D == OfManager(n)
  <2>1. events \in Seq(Message) /\ events' \in Seq(Message) /\ Moves(events, events', 1, D, {})
    BY <1>1 DEF LinksInv, TypesInv
  <2>. HIDE DEF D
  <2>2. /\ \A x \in Range(events') : x # Dropped => x \in Queued \ D
        /\ \A x : x # Dropped /\ Before(events', x, x) => Before(events, x, x)
        /\ \A x \in Range(events') : x = Dropped \/ Before(events, events[1], x)
    BY <2>1, MovesQueued DEF Queued
  <2>. QED BY <2>2 DEF D
<1>3. UNCHANGED <<objects, m_calls, m_voice_call_manager>>
  BY DEF ManagerDeleted
<1>4. /\ \A p, o, s : Word(p, o, s) # Dropped
      /\ \A p, s, m : Added(p, s, m) # Dropped
      /\ \A p, m : Removed(p, m) # Dropped
      /\ \A p, o : ObjectGoes(p, o) # Dropped
      /\ \A m : ManagerGoes(m) # Dropped
  BY DEF Word, Added, Removed, ObjectGoes, ManagerGoes, Dropped
<1>5. Queued' = Range(events') /\ Queued \subseteq Message
  BY Queues DEF Queued, LinksInv, TypesInv
<1>6. ObjectsInv'
  BY <1>2, <1>3, <1>4, <1>5 DEF LinksInv, ObjectsInv, Live
<1>7. ASSUME NEW p \in Paths, NEW s, NEW m, Added(p, s, m) \in Queued' PROVE m \in managers'
  <2>1. Added(p, s, m) \in Queued \ OfManager(n)
    BY <1>2, <1>4, <1>5, <1>7
  <2>2. m # n
    BY <1>5, <2>1, Fields DEF OfManager
  <2>. QED BY <1>1, <2>1, <2>2 DEF LinksInv, ManagersInv
<1>8. ASSUME NEW p \in Paths, NEW m, Removed(p, m) \in Queued' PROVE m \in managers'
  <2>1. Removed(p, m) \in Queued \ OfManager(n)
    BY <1>2, <1>4, <1>5, <1>8
  <2>2. m # n
    BY <1>5, <2>1, Fields DEF OfManager
  <2>. QED BY <1>1, <2>1, <2>2 DEF LinksInv, ManagersInv
<1>9. ASSUME NEW m, ManagerGoes(m) \in Queued'
      PROVE  /\ m \in managers' \ {m_voice_call_manager'}
             /\ ~Before(events', ManagerGoes(m), ManagerGoes(m))
  <2>1. /\ ManagerGoes(m) \in Queued /\ Before(events, ManagerGoes(n), ManagerGoes(m))
        /\ Before(events', ManagerGoes(m), ManagerGoes(m)) => Before(events, ManagerGoes(m), ManagerGoes(m))
    BY <1>1, <1>2, <1>4, <1>5, <1>9
  <2>2. m \in managers \ {m_voice_call_manager} /\ ~Before(events, ManagerGoes(m), ManagerGoes(m))
    BY <2>1 DEF LinksInv, ManagersInv
  <2>. QED BY <1>1, <1>3, <2>1, <2>2
<1>10. ManagersInv'
  BY <1>7, <1>8, <1>9 DEF ManagersInv
<1>. QED BY <1>6, <1>10

LEMMA ObjectGone ==
  ASSUME LinksInv, DeferredDelete
  PROVE  ObjectsInv' /\ ManagersInv'
<1>1. PICK u \in Paths, n \in Nat :
        /\ Serving /\ events[1] = ObjectGoes(u, n)
        /\ objects' = [objects EXCEPT ![u] = [i \in DOMAIN objects[u] \ {n} |-> objects[u][i]]]
        /\ events' \in Seq(Message) /\ Moves(events, events', 1, OfObject(u, n), {})
  BY DeferredDeleteMoves DEF LinksInv
<1>2. /\ \A x \in Range(events') : x # Dropped => x \in Queued \ OfObject(u, n)
      /\ \A x : x # Dropped /\ Before(events', x, x) => Before(events, x, x)
      /\ \A x \in Range(events') : x = Dropped \/ Before(events, events[1], x)
  BY <1>1, MovesQueued DEF LinksInv, TypesInv, Queued
<1>3. UNCHANGED <<managers, m_calls, m_voice_call_manager>>
  BY DEF DeferredDelete, managerVars
<1>4. /\ \A p, o, s : Word(p, o, s) # Dropped
      /\ \A p, s, m : Added(p, s, m) # Dropped
      /\ \A p, m : Removed(p, m) # Dropped
      /\ \A p, o : ObjectGoes(p, o) # Dropped
      /\ \A m : ManagerGoes(m) # Dropped
  BY DEF Word, Added, Removed, ObjectGoes, ManagerGoes, Dropped
<1>5. Queued' = Range(events') /\ Queued \subseteq Message
  BY Queues DEF Queued, LinksInv, TypesInv
<1>6. ManagersInv'
  BY <1>2, <1>3, <1>4, <1>5 DEF LinksInv, ManagersInv
<1>7. \A p \in Paths : DOMAIN objects'[p] = IF p = u THEN DOMAIN objects[p] \ {n} ELSE DOMAIN objects[p]
  BY <1>1 DEF LinksInv, TypesInv
<1>8. ObjectGoes(u, n) \in Queued
  BY <1>1, HeadServed DEF LinksInv
<1>9. ASSUME NEW p \in Paths, m_calls'[p] # 0 PROVE m_calls'[p] \in Live(p)'
  <2>1. m_calls[p] \in DOMAIN objects[p] /\ ObjectGoes(p, m_calls[p]) \notin Queued
    BY <1>3, <1>9 DEF LinksInv, ObjectsInv, Live
  <2>2. m_calls[p] \in DOMAIN objects'[p]
    BY <1>7, <1>8, <2>1
  <2>3. ObjectGoes(p, m_calls[p]) \notin Queued'
    BY <1>2, <1>4, <1>5, <2>1
  <2>. QED BY <1>3, <2>2, <2>3 DEF Live
<1>10. ASSUME NEW p \in Paths, NEW o, NEW s, Word(p, o, s) \in Queued' PROVE o \in DOMAIN objects'[p]
  <2>1. Word(p, o, s) \in Queued \ OfObject(u, n)
    BY <1>2, <1>4, <1>5, <1>10
  <2>2. ~(p = u /\ o = n)
    BY <1>5, <2>1, Fields DEF OfObject
  <2>3. o \in DOMAIN objects[p]
    BY <2>1 DEF LinksInv, ObjectsInv
  <2>. QED BY <1>7, <2>2, <2>3
<1>11. ASSUME NEW p \in Paths, NEW o, ObjectGoes(p, o) \in Queued'
       PROVE  /\ o \in DOMAIN objects'[p]
              /\ ~Before(events', ObjectGoes(p, o), ObjectGoes(p, o))
  <2>1. /\ ObjectGoes(p, o) \in Queued /\ Before(events, ObjectGoes(u, n), ObjectGoes(p, o))
        /\ Before(events', ObjectGoes(p, o), ObjectGoes(p, o)) =>
             Before(events, ObjectGoes(p, o), ObjectGoes(p, o))
    BY <1>1, <1>2, <1>4, <1>5, <1>11
  <2>2. o \in DOMAIN objects[p] /\ ~Before(events, ObjectGoes(p, o), ObjectGoes(p, o))
    BY <2>1 DEF LinksInv, ObjectsInv
  <2>3. ~(p = u /\ o = n)
    BY <2>1, <2>2
  <2>. QED BY <1>7, <2>1, <2>2, <2>3
<1>12. ObjectsInv'
  BY <1>9, <1>10, <1>11 DEF ObjectsInv
<1>. QED BY <1>6, <1>12

LEMMA WithCallTyped ==
  ASSUME TypesInv, NEW p \in Paths, NEW s \in States
  PROVE  /\ NewCall(p) \in Nat \ {0} /\ NewCall(p) \notin DOMAIN objects[p]
         /\ DOMAIN WithCall(p, s) = DOMAIN objects[p] \cup {NewCall(p)}
         /\ IsFiniteSet(DOMAIN WithCall(p, s))
         /\ WithCall(p, s) \in [DOMAIN WithCall(p, s) -> States]
         /\ DOMAIN WithCall(p, s) \subseteq Nat \ {0}
         /\ WithCall(p, s)[NewCall(p)] = s
         /\ \A o \in DOMAIN objects[p] : WithCall(p, s)[o] = objects[p][o]
<1>1. IsFiniteSet(DOMAIN objects[p]) /\ objects[p] \in [DOMAIN objects[p] -> States]
  BY DEF TypesInv
<1>2. NewCall(p) \in Nat \ {0} /\ NewCall(p) \notin DOMAIN objects[p]
  BY <1>1, FreshIsNew DEF NewCall
<1>3. DOMAIN WithCall(p, s) = DOMAIN objects[p] \cup {NewCall(p)}
  BY DEF WithCall
<1>4. IsFiniteSet(DOMAIN WithCall(p, s))
  BY <1>1, <1>3, FS_AddElement
<1>5. DOMAIN objects[p] \subseteq Nat \ {0}
  BY DEF TypesInv
<1>. QED BY <1>1, <1>2, <1>3, <1>4, <1>5 DEF WithCall

LEMMA ToldTyped ==
  ASSUME NEW last \in {"none", "ringing", "talking"}, NEW s
  PROVE  Told(last, s) \in {"none", "ringing", "talking"}
BY DEF Told, Event

(* Types are kept, whatever becomes of the queue.                          *)
LEMMA TypesKept ==
  ASSUME LinksInv, events' \in Seq(Message), [TelephonyNext]_telephonyVars
  PROVE  TypesInv'
<1>0. TypesInv
  BY DEF LinksInv
<1>. USE <1>0 DEF TypesInv
<1>1. ASSUME NEW p \in Paths, NEW s \in FirstStates, CallComes(p, s) PROVE TypesInv'
  BY <1>1 DEF CallComes, pluginVars, managerVars, CallStates
<1>2. ASSUME NEW p \in Paths, NEW s \in {"incoming", "alerting", "active", "held"}, CallChanges(p, s)
      PROVE  TypesInv'
  BY <1>2 DEF CallChanges, pluginVars, managerVars, CallStates, FirstStates
<1>3. ASSUME NEW p \in Paths, CallEnds(p) PROVE TypesInv'
  BY <1>3 DEF CallEnds, pluginVars, managerVars
<1>4. CASE ModemComes \/ ModemGoes
  BY <1>4 DEF ModemComes, ModemGoes, pluginVars, managerVars, NoCalls
<1>5. ASSUME NewManager
      PROVE  /\ managers' \subseteq Nat \ {0} /\ IsFiniteSet(managers')
             /\ m_voice_call_manager' \in managers' \cup {0}
  <2>. DEFINE n == Fresh(managers)
  <2>1. n \in Nat \ {0} /\ managers' = managers \cup {n} /\ m_voice_call_manager' = n
    BY <1>5, FreshIsNew DEF NewManager
  <2>. HIDE DEF n
  <2>2. IsFiniteSet(managers \cup {n})
    BY FS_AddElement
  <2>. QED BY <2>1, <2>2
<1>6. CASE GetModems
  BY <1>5, <1>6 DEF GetModems, ofonoVars, managerVars
<1>7. CASE onModemAdded
  BY <1>5, <1>7 DEF onModemAdded, ofonoVars
<1>8. CASE GetCallsAnswered
  BY <1>8 DEF GetCallsAnswered, ofonoVars, managerVars, NoCalls
<1>9. CASE CallsFetched
  <2>. DEFINE P == {p \in Paths : answer[p] # "none"}
  <2>1. \A p \in P : p \in Paths /\ answer[p] \in States
    BY DEF States
  <2>2. /\ pc' \in {"connect", "running"} /\ answer' \in [Paths -> CallStates \cup {"none"}]
        /\ objects' = [p \in Paths |-> IF p \in P THEN WithCall(p, answer[p]) ELSE objects[p]]
        /\ m_calls' = [p \in Paths |-> IF p \in P THEN NewCall(p) ELSE m_calls[p]]
        /\ m_send_call_state' =
             [p \in Paths |-> IF p \in P THEN Told(m_send_call_state[p], answer[p])
                              ELSE m_send_call_state[p]]
        /\ UNCHANGED <<modem, call, events, starting, refused, managers, m_voice_call_manager>>
    BY <1>9 DEF CallsFetched, ofonoVars, managerVars, NoCalls
  <2>. HIDE DEF P
  <2>3. m_calls' \in [Paths -> Nat]
    <3>1. ASSUME NEW p \in P PROVE NewCall(p) \in Nat
      BY <2>1, WithCallTyped
    <3>2. m_calls \in [Paths -> Nat]
      OBVIOUS
    <3>. QED BY <2>2, <3>1, <3>2 DEF NewCall
  <2>4. m_send_call_state' \in [Paths -> {"none", "ringing", "talking"}]
    BY <2>1, <2>2, ToldTyped
  <2>5. ASSUME NEW p \in Paths
        PROVE  /\ objects'[p] \in [DOMAIN objects'[p] -> States]
               /\ DOMAIN objects'[p] \subseteq Nat \ {0} /\ IsFiniteSet(DOMAIN objects'[p])
    <3>1. CASE p \in P
      <4>1. objects'[p] = WithCall(p, answer[p])
        BY <2>2, <3>1
      <4>. DEFINE w == WithCall(p, answer[p])
      <4>2. w \in [DOMAIN w -> States] /\ DOMAIN w \subseteq Nat \ {0} /\ IsFiniteSet(DOMAIN w)
        BY <2>1, <3>1, WithCallTyped
      <4>. HIDE DEF w
      <4>3. objects'[p] = w
        BY <4>1 DEF w
      <4>. QED BY <4>2, <4>3
    <3>2. CASE p \notin P
      BY <2>2, <3>2
    <3>. QED BY <3>1, <3>2
  <2>. QED BY <2>2, <2>3, <2>4, <2>5
<1>10. CASE ConnectModems
  BY <1>10 DEF ConnectModems, ofonoVars, managerVars
<1>11. CASE onModemRemoved
  BY <1>11 DEF onModemRemoved, ofonoVars
<1>12. CASE ManagerDeleted
  <2>1. PICK m \in Nat : managers' = managers \ {m} /\ Serving /\ events[1] = ManagerGoes(m)
    BY <1>12, ManagerDeletedMoves
  <2>2. m # m_voice_call_manager
    BY <2>1, HeadServed DEF LinksInv, ManagersInv
  <2>3. IsFiniteSet(managers') /\ managers' \subseteq Nat \ {0}
    BY <2>1, FS_RemoveElement
  <2>4. UNCHANGED <<modem, call, pc, starting, answer, refused, m_voice_call_manager, objects,
                    m_calls, m_send_call_state>>
    BY <1>12 DEF ManagerDeleted, ofonoVars
  <2>. QED BY <2>1, <2>2, <2>3, <2>4
<1>13. CASE onCallAdded
  <2>1. PICK p \in Paths, s \in FirstStates :
          /\ objects' = [objects EXCEPT ![p] = WithCall(p, s)]
          /\ m_calls' = [m_calls EXCEPT ![p] = NewCall(p)]
          /\ onCallStateChanged(p, s)
    BY <1>13, onCallAddedMoves
  <2>2. m_send_call_state' \in [Paths -> {"none", "ringing", "talking"}]
    BY <2>1, ToldTyped DEF onCallStateChanged
  <2>3. s \in States
    BY DEF States, CallStates
  <2>4. m_calls' \in [Paths -> Nat] /\ DOMAIN objects' = Paths
    BY <2>1, <2>3, WithCallTyped
  <2>5. ASSUME NEW q \in Paths
        PROVE  /\ objects'[q] \in [DOMAIN objects'[q] -> States]
               /\ DOMAIN objects'[q] \subseteq Nat \ {0} /\ IsFiniteSet(DOMAIN objects'[q])
    <3>1. CASE q = p
      <4>1. objects'[q] = WithCall(p, s)
        BY <2>1, <3>1
      <4>. DEFINE w == WithCall(p, s)
      <4>2. w \in [DOMAIN w -> States] /\ DOMAIN w \subseteq Nat \ {0} /\ IsFiniteSet(DOMAIN w)
        BY <2>3, WithCallTyped
      <4>. HIDE DEF w
      <4>3. objects'[q] = w
        BY <4>1 DEF w
      <4>. QED BY <4>2, <4>3
    <3>2. CASE q # p
      BY <2>1, <3>2
    <3>. QED BY <3>1, <3>2
  <2>6. UNCHANGED <<modem, call, pc, starting, answer, refused, managers, m_voice_call_manager>>
    BY <1>13 DEF onCallAdded, ofonoVars, managerVars
  <2>. QED BY <2>2, <2>4, <2>5, <2>6
<1>14. CASE onCallRemoved
  BY <1>14, onCallRemovedMoves DEF onCallRemoved, ofonoVars, managerVars
<1>15. CASE onPropertiesChanged
  <2>1. PICK p \in Paths, o \in Nat, s \in States :
          /\ objects' = [objects EXCEPT ![p][o] = s]
          /\ onCallStateChanged(p, s)
    BY <1>15, onPropertiesChangedMoves
  <2>2. m_send_call_state' \in [Paths -> {"none", "ringing", "talking"}]
    BY <2>1, ToldTyped DEF onCallStateChanged
  <2>3. DOMAIN objects' = Paths
    BY <2>1
  <2>4. ASSUME NEW q \in Paths
        PROVE  /\ objects'[q] \in [DOMAIN objects'[q] -> States]
               /\ DOMAIN objects'[q] \subseteq Nat \ {0} /\ IsFiniteSet(DOMAIN objects'[q])
    BY <2>1
  <2>5. UNCHANGED <<modem, call, pc, starting, answer, refused, managers, m_voice_call_manager, m_calls>>
    BY <1>15 DEF onPropertiesChanged, ofonoVars, managerVars
  <2>. QED BY <2>2, <2>3, <2>4, <2>5
<1>16. CASE DeferredDelete
  <2>1. PICK p \in Paths, o \in Nat :
          objects' = [objects EXCEPT ![p] = [i \in DOMAIN objects[p] \ {o} |-> objects[p][i]]]
    BY <1>16, DeferredDeleteMoves
  <2>2. ASSUME NEW q \in Paths
        PROVE  /\ objects'[q] \in [DOMAIN objects'[q] -> States]
               /\ DOMAIN objects'[q] \subseteq Nat \ {0} /\ IsFiniteSet(DOMAIN objects'[q])
    <3>1. CASE q = p
      <4>1. objects'[q] = [i \in DOMAIN objects[p] \ {o} |-> objects[p][i]]
        BY <2>1, <3>1
      <4>2. IsFiniteSet(DOMAIN objects[p] \ {o})
        BY FS_RemoveElement
      <4>. QED BY <4>1, <4>2
    <3>2. CASE q # p
      BY <2>1, <3>2
    <3>. QED BY <3>1, <3>2
  <2>3. DOMAIN objects' = Paths
    BY <2>1
  <2>4. UNCHANGED <<modem, call, pc, starting, answer, refused, managers, m_voice_call_manager,
                    m_calls, m_send_call_state>>
    BY <1>16 DEF DeferredDelete, ofonoVars, managerVars
  <2>. QED BY <2>2, <2>3, <2>4
<1>17. CASE DroppedEvent
  BY <1>17 DEF DroppedEvent, ofonoVars, managerVars
<1>18. CASE UNCHANGED telephonyVars
  BY <1>18 DEF telephonyVars
<1>. QED BY <1>1, <1>2, <1>3, <1>4, <1>6, <1>7, <1>8, <1>9, <1>10, <1>11, <1>12, <1>13, <1>14,
            <1>15, <1>16, <1>17, <1>18 DEF TelephonyNext

LEMMA LinksFit ==
  ASSUME LinksInv, [TelephonyNext]_telephonyVars
  PROVE  events' \in Seq(Message) /\ ObjectsInv' /\ ManagersInv'
<1>. DEFINE Fits == events' \in Seq(Message) /\ ObjectsInv' /\ ManagersInv'
<1>0. TypesInv /\ Moves(events, events, 0, {}, {})
  BY Stays DEF LinksInv, TypesInv
(* A step that moves the queue, and nothing posts.                         *)
<1>1. ASSUME NEW h \in {0, 1}, events' \in Seq(Message), Moves(events, events', h, {}, {}),
             UNCHANGED <<managers, m_voice_call_manager, objects, m_calls>>
      PROVE  Fits
  BY <1>1, LinksKept
<1>2. ASSUME NEW p \in Paths, NEW s \in FirstStates, CallComes(p, s) PROVE Fits
  <2>. DEFINE N == AddedToAll(p, s)
  <2>1. events' \in Seq(Message) /\ Moves(events, events', 0, {}, N)
    BY <1>0, <1>2, CallComesMoves
  <2>2. UNCHANGED <<managers, m_voice_call_manager, objects, m_calls>>
    BY <1>2 DEF CallComes, pluginVars, managerVars
  <2>3. /\ \A q, m, r : Added(q, r, m) \in N => m \in managers
        /\ \A q, m : Removed(q, m) \notin N
        /\ \A q, o, r : Word(q, o, r) \notin N
        /\ \A q, o : ObjectGoes(q, o) \notin N
        /\ \A m : ManagerGoes(m) \notin N
    BY Fields DEF AddedToAll
  <2>. HIDE DEF N
  <2>. QED BY <2>1, <2>2, <2>3, LinksKept
<1>3. ASSUME NEW p \in Paths, NEW s \in {"incoming", "alerting", "active", "held"}, CallChanges(p, s)
      PROVE  Fits
  <2>. DEFINE N == Words(p, s)
  <2>1. events' \in Seq(Message) /\ Moves(events, events', 0, {}, N)
    BY <1>0, <1>3, CallChangesMoves DEF States, CallStates, FirstStates
  <2>2. UNCHANGED <<managers, m_voice_call_manager, objects, m_calls>>
    BY <1>3 DEF CallChanges, pluginVars, managerVars
  <2>3. /\ \A q, m, r : Added(q, r, m) \notin N
        /\ \A q, m : Removed(q, m) \notin N
        /\ \A q, o, r : Word(q, o, r) \in N => o \in DOMAIN objects[q]
        /\ \A q, o : ObjectGoes(q, o) \notin N
        /\ \A m : ManagerGoes(m) \notin N
    BY Fields DEF Words
  <2>. HIDE DEF N
  <2>. QED BY <2>1, <2>2, <2>3, LinksKept
<1>4. ASSUME NEW p \in Paths, CallEnds(p) PROVE Fits
  <2>. DEFINE N == Words(p, "disconnected") \cup RemovedToAll(p)
  <2>1. events' \in Seq(Message) /\ Moves(events, events', 0, {}, N)
    BY <1>0, <1>4, CallEndsMoves
  <2>2. UNCHANGED <<managers, m_voice_call_manager, objects, m_calls>>
    BY <1>4 DEF CallEnds, pluginVars, managerVars
  <2>3. /\ \A q, m, r : Added(q, r, m) \notin N
        /\ \A q, m : Removed(q, m) \in N => m \in managers
        /\ \A q, o, r : Word(q, o, r) \in N => o \in DOMAIN objects[q]
        /\ \A q, o : ObjectGoes(q, o) \notin N
        /\ \A m : ManagerGoes(m) \notin N
    BY Fields DEF Words, RemovedToAll
  <2>. HIDE DEF N
  <2>. QED BY <2>1, <2>2, <2>3, LinksKept
<1>5. CASE ModemComes \/ ModemGoes
  <2>1. UNCHANGED <<managers, m_voice_call_manager, objects, m_calls>>
    BY <1>5 DEF ModemComes, ModemGoes, pluginVars, managerVars
  <2>2. PICK N \in {{}, {ModemAdded}, {ModemRemoved}} :
          events' \in Seq(Message) /\ Moves(events, events', 0, {}, N)
    BY <1>0, <1>5, ModemSignalsMove
  <2>3. /\ \A q, m, r : Added(q, r, m) \notin N
        /\ \A q, m : Removed(q, m) \notin N
        /\ \A q, o, r : Word(q, o, r) \notin N
        /\ \A q, o : ObjectGoes(q, o) \notin N
        /\ \A m : ManagerGoes(m) \notin N
    BY Fields
  <2>. QED BY <2>1, <2>2, <2>3, LinksKept
<1>6. ASSUME NewManager
      PROVE  managers \subseteq managers' /\ m_voice_call_manager' \notin managers
  BY <1>0, <1>6, FreshIsNew DEF NewManager, TypesInv
<1>7. ASSUME NEW h \in {0, 1}, events' \in Seq(Message), Moves(events, events', h, {}, {}),
             NewManager, UNCHANGED <<objects, m_calls>>
      PROVE  Fits
  BY <1>6, <1>7, LinksKept
<1>8. CASE GetModems
  <2>1. UNCHANGED <<objects, m_calls, events>>
    BY <1>8 DEF GetModems
  <2>2. events' \in Seq(Message) /\ Moves(events, events', 0, {}, {})
    BY <1>0, <2>1 DEF TypesInv
  <2>3. NewManager \/ UNCHANGED <<managers, m_voice_call_manager>>
    BY <1>8 DEF GetModems, managerVars
  <2>. QED BY <1>1, <1>7, <2>1, <2>2, <2>3
<1>9. CASE onModemAdded
  BY <1>0, <1>7, <1>9, onModemAddedMoves DEF onModemAdded
<1>10. CASE GetCallsAnswered \/ ConnectModems \/ UNCHANGED telephonyVars
  <2>1. UNCHANGED <<managers, m_voice_call_manager, objects, m_calls, events>>
    BY <1>10 DEF GetCallsAnswered, ConnectModems, telephonyVars, managerVars
  <2>2. events' \in Seq(Message) /\ Moves(events, events', 0, {}, {})
    BY <1>0, <2>1 DEF TypesInv
  <2>. QED BY <1>1, <2>1, <2>2
<1>11. CASE CallsFetched
  <2>1. events' \in Seq(Message) /\ Moves(events, events', 0, {}, {})
        /\ UNCHANGED <<managers, m_voice_call_manager>>
    BY <1>0, <1>11 DEF CallsFetched, TypesInv, managerVars
  <2>2. ASSUME NEW p \in Paths
        PROVE  /\ DOMAIN objects[p] \subseteq DOMAIN objects'[p]
               /\ m_calls'[p] \in {0, m_calls[p]} \cup (DOMAIN objects'[p] \ DOMAIN objects[p])
    <3>1. CASE answer[p] # "none"
      <4>1. objects'[p] = WithCall(p, answer[p]) /\ m_calls'[p] = NewCall(p)
        BY <1>11, <3>1 DEF CallsFetched
      <4>2. answer[p] \in States
        BY <1>0, <3>1 DEF TypesInv, States
      <4>3. NewCall(p) \notin DOMAIN objects[p]
            /\ DOMAIN WithCall(p, answer[p]) = DOMAIN objects[p] \cup {NewCall(p)}
        BY <1>0, <4>2, WithCallTyped
      <4>. QED BY <4>1, <4>3
    <3>2. CASE answer[p] = "none"
      BY <1>11, <3>2 DEF CallsFetched
    <3>. QED BY <3>1, <3>2
  <2>. QED BY <2>1, <2>2, LinksKept
<1>12. CASE onModemRemoved
  <2>. DEFINE x == ManagerGoes(m_voice_call_manager)
  <2>1. UNCHANGED <<managers, objects, m_calls>> /\ m_voice_call_manager' = 0
    BY <1>12 DEF onModemRemoved
  <2>2. CASE events' = <<>>
    BY <1>0, <2>1, <2>2 DEF ObjectsInv, ManagersInv, LinksInv, Live, Queued, Range, TypesInv
  <2>3. CASE events' # <<>>
    <3>1. /\ events' \in Seq(Message)
          /\ m_voice_call_manager # 0 /\ Moves(events, events', 1, {}, {x})
          /\ x \notin Queued => ~Before(events', x, x)
      BY <1>0, <1>12, <2>3, onModemRemovedMoves
    <3>2. x \notin Queued
      BY DEF LinksInv, ManagersInv
    <3>3. /\ \A q, m, r : Added(q, r, m) \notin {x}
          /\ \A q, m : Removed(q, m) \notin {x}
          /\ \A q, o, r : Word(q, o, r) \notin {x}
          /\ \A q, o : ObjectGoes(q, o) \notin {x}
          /\ \A m : ManagerGoes(m) \in {x} => m = m_voice_call_manager
      BY Fields
    <3>4. m_voice_call_manager \in managers /\ m_voice_call_manager' \notin managers
      BY <1>0, <2>1, <3>1 DEF TypesInv
    <3>. HIDE DEF x
    <3>5. \A m : ManagerGoes(m) \in {x} =>
            /\ m \in managers /\ m # m_voice_call_manager'
            /\ ManagerGoes(m) \notin Queued /\ ~Before(events', ManagerGoes(m), ManagerGoes(m))
      BY <3>1, <3>2, <3>3, <3>4
    <3>. QED BY <2>1, <3>1, <3>3, <3>4, <3>5, LinksKept
  <2>. QED BY <2>2, <2>3
<1>13. CASE ManagerDeleted
  BY <1>0, <1>13, ManagerDeletedMoves, ManagerGone
<1>14. CASE onCallAdded
  <2>1. PICK p \in Paths, s \in FirstStates :
          /\ events' \in Seq(Message) /\ Moves(events, events', 1, {}, {})
          /\ objects' = [objects EXCEPT ![p] = WithCall(p, s)]
          /\ m_calls' = [m_calls EXCEPT ![p] = NewCall(p)]
    BY <1>0, <1>14, onCallAddedMoves
  <2>2. UNCHANGED <<managers, m_voice_call_manager>>
    BY <1>14 DEF onCallAdded, managerVars
  <2>3. s \in States
    BY DEF States, CallStates
  <2>4. ASSUME NEW q \in Paths
        PROVE  /\ DOMAIN objects[q] \subseteq DOMAIN objects'[q]
               /\ m_calls'[q] \in {0, m_calls[q]} \cup (DOMAIN objects'[q] \ DOMAIN objects[q])
    <3>1. CASE q = p
      <4>1. objects'[p] = WithCall(p, s) /\ m_calls'[p] = NewCall(p)
        BY <1>0, <2>1 DEF TypesInv
      <4>2. NewCall(p) \notin DOMAIN objects[p]
            /\ DOMAIN WithCall(p, s) = DOMAIN objects[p] \cup {NewCall(p)}
        BY <1>0, <2>3, WithCallTyped
      <4>. QED BY <3>1, <4>1, <4>2
    <3>2. CASE q # p
      BY <1>0, <2>1, <3>2 DEF TypesInv
    <3>. QED BY <3>1, <3>2
  <2>. QED BY <2>1, <2>2, <2>4, LinksKept
<1>15. CASE onCallRemoved
  <2>1. PICK p \in Paths :
           LET x == ObjectGoes(p, m_calls[p]) IN
           /\ m_calls' = [m_calls EXCEPT ![p] = 0]
           /\ events' \in Seq(Message)
           /\ \/ m_calls[p] = 0 /\ Moves(events, events', 1, {}, {})
              \/ /\ m_calls[p] # 0 /\ Moves(events, events', 1, {}, {x})
                 /\ x \notin Queued => ~Before(events', x, x)
    BY <1>0, <1>15, onCallRemovedMoves
  <2>2. UNCHANGED <<managers, m_voice_call_manager, objects>>
    BY <1>15 DEF onCallRemoved, managerVars
  <2>3. \A q \in Paths : m_calls'[q] \in {0, m_calls[q]} /\ (q = p => m_calls'[q] = 0)
    BY <1>0, <2>1 DEF TypesInv
  <2>. DEFINE x == ObjectGoes(p, m_calls[p])
  <2>4. CASE m_calls[p] # 0
    <3>1. /\ events' \in Seq(Message) /\ Moves(events, events', 1, {}, {x})
          /\ x \notin Queued => ~Before(events', x, x)
      BY <2>1, <2>4
    <3>2. m_calls[p] \in DOMAIN objects[p] /\ x \notin Queued
      BY <2>4 DEF LinksInv, ObjectsInv, Live
    <3>3. /\ \A q, m, r : Added(q, r, m) \notin {x}
          /\ \A q, m : Removed(q, m) \notin {x}
          /\ \A q, o, r : Word(q, o, r) \notin {x}
          /\ \A q, o : ObjectGoes(q, o) \in {x} => q = p /\ o = m_calls[p]
          /\ \A m : ManagerGoes(m) \notin {x}
      BY Fields
    <3>. HIDE DEF x
    <3>4. \A q \in Paths : \A o : ObjectGoes(q, o) \in {x} =>
            /\ o \in DOMAIN objects[q] /\ o # m_calls'[q]
            /\ ObjectGoes(q, o) \notin Queued /\ ~Before(events', ObjectGoes(q, o), ObjectGoes(q, o))
      BY <2>3, <2>4, <3>1, <3>2, <3>3
    <3>. QED BY <2>2, <2>3, <3>1, <3>3, <3>4, LinksKept
  <2>5. CASE m_calls[p] = 0
    <3>1. events' \in Seq(Message) /\ Moves(events, events', 1, {}, {})
      BY <2>1, <2>5
    <3>. QED BY <2>2, <2>3, <3>1, LinksKept
  <2>. QED BY <2>4, <2>5
<1>16. CASE onPropertiesChanged
  <2>1. PICK p \in Paths, o \in Nat, s \in States :
          /\ events' \in Seq(Message) /\ Moves(events, events', 1, {}, {})
          /\ objects' = [objects EXCEPT ![p][o] = s]
    BY <1>0, <1>16, onPropertiesChangedMoves
  <2>2. UNCHANGED <<managers, m_voice_call_manager, m_calls>>
    BY <1>16 DEF onPropertiesChanged, managerVars
  <2>3. \A q \in Paths : DOMAIN objects'[q] = DOMAIN objects[q]
    BY <1>0, <2>1 DEF TypesInv
  <2>. QED BY <2>1, <2>2, <2>3, LinksKept
<1>17. CASE DeferredDelete
  BY <1>0, <1>17, DeferredDeleteMoves, ObjectGone
<1>18. CASE DroppedEvent
  <2>1. UNCHANGED <<managers, m_voice_call_manager, objects, m_calls>>
    BY <1>18 DEF DroppedEvent, managerVars
  <2>2. events' \in Seq(Message) /\ Moves(events, events', 1, {}, {})
    BY <1>0, <1>18, DroppedEventMoves
  <2>. QED BY <1>1, <2>1, <2>2
<1>. QED BY <1>2, <1>3, <1>4, <1>5, <1>8, <1>9, <1>10, <1>11, <1>12, <1>13, <1>14, <1>15, <1>16,
            <1>17, <1>18 DEF TelephonyNext

LEMMA LinksInductive == LinksInv /\ [TelephonyNext]_telephonyVars => LinksInv'
BY LinksFit, TypesKept DEF LinksInv

LEMMA LinksInitially == TelephonyInit => LinksInv
<1>. SUFFICES ASSUME TelephonyInit PROVE LinksInv
  OBVIOUS
<1>1. TypesInv
  <2>1. \A p \in Paths : objects[p] = <<>> /\ DOMAIN objects[p] = {}
    BY DEF TelephonyInit
  <2>2. \A p \in Paths : objects[p] \in [DOMAIN objects[p] -> States]
    <3>1. <<>> \in Seq(States) /\ Len(<<>>) = 0
      OBVIOUS
    <3>2. <<>> \in [1..Len(<<>>) -> States] /\ 1..Len(<<>>) = DOMAIN <<>>
      BY <3>1, LenProperties
    <3>. QED BY <2>1, <3>2
  <2>3. <<>> \in Seq(Message) /\ IsFiniteSet({})
    BY FS_EmptySet
  <2>. QED BY <2>1, <2>2, <2>3 DEF TelephonyInit, TypesInv, NoCalls
<1>2. Queued = {}
  BY DEF TelephonyInit, Queued, Range
<1>. QED BY <1>1, <1>2 DEF LinksInv, ObjectsInv, ManagersInv, TelephonyInit

(* The types are right, whatever oFono does.                               *)
THEOREM TelephonyTypes == TelephonySpec => []TelephonyTypeOK
BY LinksInitially, LinksInductive, LinksAreTyped, PTL DEF TelephonySpec

-----------------------------------------------------------------------------
(* From here on oFono neither outruns the plugin nor lets calls vanish.    *)
(* How the queue, the calls of oFono and what the plugin does fit together *)
(* then.                                                                   *)
Polite == Faults \subseteq {"refusal"}

Up == pc # "crashed"
Asking == pc \in {"GetCalls", "answered"}
Unmanaged == managers = {} /\ \A p \in Paths : DOMAIN objects[p] = {}

Awaited(type, p) == \E x \in Queued : x.type = type /\ x.path = p

Control ==
  /\ ~modem => call = NoCalls
  /\ modem => Followed(events, ModemRemoved, ModemAdded)
  /\ starting => ModemAdded \notin Queued /\ ModemRemoved \notin Queued
  /\ pc = "running" => ~starting
  /\ pc \in {"GetModems", "unusable"} => starting /\ m_voice_call_manager = 0
  /\ starting /\ m_voice_call_manager = 0 => Unmanaged
  /\ m_voice_call_manager = 0 => ModemAdded \in Queued \/ ~modem \/ Unmanaged
  /\ Asking => m_voice_call_manager # 0

(* While calls are asked for, and with no modem, nothing else is said.     *)
Still ==
  Asking \/ m_voice_call_manager = 0 =>
    \A x \in Queued : x.type \notin {"PropertyChanged", "CallRemoved"}

(* x never stands before y: after a modem comes or goes, and after a call  *)
(* comes, oFono waits to be heard; a call ends last; a TelephonyCall is    *)
(* deleted behind all it is told.                                          *)
Bad(x, y) ==
  \/ x.type \in {"ModemAdded", "ModemRemoved"} /\ y.type \in {"PropertyChanged", "CallRemoved"}
  \/ /\ x.type = "CallAdded" /\ y.type \in {"PropertyChanged", "CallRemoved"}
     /\ x.path = y.path
  \/ x.type = "CallRemoved" /\ y.type = "PropertyChanged" /\ x.path = y.path
  \/ /\ x.type = "PropertyChanged" /\ y.type = "DeferredDelete"
     /\ x.path = y.path /\ x.object = y.object

InOrder == \A x, y \in Queued : Before(events, x, y) => ~Bad(x, y)

AddedInv == \A x \in Queued : x.type = "CallAdded" => x.state = call[x.path]

RemovedInv ==
  \A x \in Queued : x.type = "CallRemoved" /\ call[x.path] # "none" =>
    Added(x.path, call[x.path], x.manager) \in Queued

OutgoingInv ==
  \A x \in Queued : x.type = "PropertyChanged" /\ call[x.path] \in {"waiting", "dialing"} =>
    Added(x.path, call[x.path], m_voice_call_manager) \in Queued

AnswerInv ==
  pc = "answered" =>
    \A p \in Paths :
      /\ answer[p] \in {"none", call[p]}
      /\ ~refused /\ answer[p] = "none" /\ call[p] # "none" =>
           Added(p, call[p], m_voice_call_manager) \in Queued

OrderInv ==
  Up => Control /\ Still /\ InOrder /\ AddedInv /\ RemovedInv /\ OutgoingInv /\ AnswerInv

-----------------------------------------------------------------------------
(* What oFono may do, and when.                                            *)

LEMMA Postings ==
  ASSUME TypesInv
  PROVE  /\ Posted("ModemAdded") <=> ModemAdded \in Queued
         /\ \A p : (\A k \in DOMAIN events : events[k].type = "CallAdded" => events[k].path # p)
                     <=> ~Awaited("CallAdded", p)
<1>1. \A k \in DOMAIN events : events[k] \in Message /\ events[k] \in Queued
  BY Queues DEF TypesInv, Queued
<1>2. \A x \in Queued : \E k \in DOMAIN events : events[k] = x
  BY Queues DEF TypesInv, Queued
<1>3. Posted("ModemAdded") <=> ModemAdded \in Queued
  BY <1>1, <1>2, Kinds, Fields DEF Posted
<1>. QED BY <1>1, <1>2, <1>3 DEF Awaited

(* A call is left alone unless the plugin has seen it.                     *)
LEMMA Heeded ==
  ASSUME LinksInv, OrderInv, Polite, Up, NEW p \in Paths, MayEmit(p)
  PROVE  /\ modem /\ ~Awaited("CallAdded", p)
         /\ call[p] # "none" =>
              /\ ModemAdded \notin Queued /\ ModemRemoved \notin Queued
              /\ ~Awaited("CallRemoved", p)
              /\ ~Asking
              /\ m_voice_call_manager # 0 \/ Unmanaged
<1>1. TypesInv
  BY DEF LinksInv
<1>2. modem /\ Seen(p)
  BY DEF MayEmit, Polite
<1>3. ~Awaited("CallAdded", p)
  BY <1>1, <1>2, Postings DEF Seen
<1>4. ASSUME call[p] # "none"
      PROVE  /\ ModemAdded \notin Queued /\ ~Asking
  BY <1>1, <1>2, <1>4, Postings DEF Seen, Asking
<1>5. ASSUME call[p] # "none"
      PROVE  ModemRemoved \notin Queued
  <2>1. Followed(events, ModemRemoved, ModemAdded)
    BY <1>2 DEF OrderInv, Control
  <2>2. ModemRemoved \in Queued => ModemAdded \in Queued
    BY <1>1, <2>1, Queues DEF Followed, Queued, TypesInv
  <2>. QED BY <1>4, <1>5, <2>2
<1>6. ASSUME call[p] # "none", NEW x \in Queued, x.type = "CallRemoved", x.path = p PROVE FALSE
  <2>1. Added(p, call[p], x.manager) \in Queued
    BY <1>6 DEF OrderInv, RemovedInv
  <2>. QED BY <1>3, <2>1, Fields DEF Awaited
<1>7. ASSUME call[p] # "none" PROVE m_voice_call_manager # 0 \/ Unmanaged
  BY <1>2, <1>4, <1>7 DEF OrderInv, Control
<1>. QED BY <1>2, <1>3, <1>4, <1>5, <1>6, <1>7 DEF Awaited

-----------------------------------------------------------------------------
(* What the plugin does to the queue.                                      *)
PluginNext ==
  \/ GetModems \/ onModemAdded \/ GetCallsAnswered \/ CallsFetched \/ ConnectModems
  \/ onModemRemoved \/ ManagerDeleted \/ onCallAdded \/ onCallRemoved \/ onPropertiesChanged
  \/ DeferredDelete \/ DroppedEvent \/ UNCHANGED telephonyVars

Goings ==
  {ObjectGoes(p, o) : p \in Paths, o \in Nat} \cup {ManagerGoes(m) : m \in Nat}

(* It takes the head away, drops what is about what the head deletes, and  *)
(* posts deletions.                                                        *)
PluginMove(h, D, N) ==
  /\ events' \in Seq(Message) /\ Moves(events, events', h, D, N)
  /\ h = 0 => events' = events
  /\ h = 1 => Serving
  /\ h = 1 /\ events[1] = ModemAdded => onModemAdded
  /\ N \subseteq Goings
  /\ \A p, o : ObjectGoes(p, o) \in N =>
       h = 1 /\ events[1].type = "CallRemoved" /\ events[1].path = p
  /\ \/ UNCHANGED m_voice_call_manager
     \/ pc = "GetModems"
     \/ h = 1 /\ events[1] \in {ModemAdded, ModemRemoved}
  /\ \/ Asking' \/ m_voice_call_manager' = 0 => Asking \/ m_voice_call_manager = 0
     \/ pc = "GetModems"
     \/ h = 1 /\ events[1] \in {ModemAdded, ModemRemoved}
  /\ \/ D = {}
     \/ h = 1 /\ \E n \in Nat : D = OfManager(n) /\ events[1] = ManagerGoes(n)
     \/ h = 1 /\ \E u \in Paths, n \in Nat : D = OfObject(u, n) /\ events[1] = ObjectGoes(u, n)

LEMMA PluginMoves ==
  ASSUME TypesInv, PluginNext, pc' # "crashed"
  PROVE  UNCHANGED ofonoVars /\ \E h \in {0, 1} : \E D, N : PluginMove(h, D, N)
<1>1. UNCHANGED ofonoVars
  BY DEF PluginNext, ofonoVars, telephonyVars, GetModems, onModemAdded, GetCallsAnswered, CallsFetched,
         ConnectModems, onModemRemoved, ManagerDeleted, onCallAdded, onCallRemoved,
         onPropertiesChanged, DeferredDelete, DroppedEvent
<1>2. CASE GetModems \/ GetCallsAnswered \/ CallsFetched \/ ConnectModems \/ UNCHANGED telephonyVars
  <2>1. events' = events
    BY <1>2 DEF GetModems, GetCallsAnswered, CallsFetched, ConnectModems, telephonyVars
  <2>2. \/ pc = "GetModems"
        \/ UNCHANGED m_voice_call_manager /\ (Asking' => Asking)
    BY <1>2 DEF GetModems, GetCallsAnswered, CallsFetched, ConnectModems, telephonyVars, managerVars,
                Asking
  <2>3. PluginMove(0, {}, {})
    BY <2>1, <2>2, Stays DEF PluginMove, TypesInv
  <2>. QED BY <1>1, <2>3
<1>3. CASE onCallAdded \/ onPropertiesChanged \/ DroppedEvent
  <2>1. UNCHANGED <<m_voice_call_manager, pc>>
    BY <1>3 DEF onCallAdded, onPropertiesChanged, DroppedEvent, managerVars
  <2>2. PluginMove(1, {}, {})
    BY <1>3, <2>1, onCallAddedMoves, onPropertiesChangedMoves, DroppedEventMoves, Fields
    DEF PluginMove, Asking
  <2>. QED BY <1>1, <2>2
<1>4. CASE onModemAdded
  <2>1. PluginMove(1, {}, {})
    BY <1>4, onModemAddedMoves DEF PluginMove
  <2>. QED BY <1>1, <2>1
<1>5. CASE onModemRemoved
  <2>. DEFINE x == ManagerGoes(m_voice_call_manager)
  <2>0a. managers \subseteq Nat \ {0} /\ m_voice_call_manager \in managers \cup {0}
    BY DEF TypesInv
  <2>0. m_voice_call_manager \in Nat
    BY <2>0a
  <2>1. /\ {x} \subseteq Goings
        /\ \A p, o : ObjectGoes(p, o) # x
    BY <2>0, Fields DEF Goings
  <2>2. PluginMove(1, {}, {x})
    BY <1>5, <2>1, onModemRemovedMoves, Fields DEF PluginMove
  <2>. QED BY <1>1, <2>2
<1>6. CASE onCallRemoved
  <2>1. PICK p \in Paths, m \in Nat :
           LET x == ObjectGoes(p, m_calls[p]) IN
           /\ Serving /\ events[1] = Removed(p, m)
           /\ events' \in Seq(Message)
           /\ Moves(events, events', 1, {}, {}) \/ Moves(events, events', 1, {}, {x})
    BY <1>6, onCallRemovedMoves
  <2>. DEFINE x == ObjectGoes(p, m_calls[p])
  <2>0. m_calls[p] \in Nat
    BY DEF TypesInv
  <2>2. /\ {x} \subseteq Goings
        /\ \A q, o : ObjectGoes(q, o) = x => q = p
        /\ events[1].type = "CallRemoved" /\ events[1].path = p
    BY <2>0, <2>1, Fields DEF Goings
  <2>3. UNCHANGED <<m_voice_call_manager, pc>>
    BY <1>6 DEF onCallRemoved, managerVars
  <2>4. PluginMove(1, {}, {}) \/ PluginMove(1, {}, {x})
    BY <2>1, <2>2, <2>3, Fields DEF PluginMove, Asking
  <2>. QED BY <1>1, <2>4
<1>7. CASE ManagerDeleted
  <2>1. PICK n \in Nat :
           /\ Serving /\ events[1] = ManagerGoes(n)
           /\ events' \in Seq(Message) /\ Moves(events, events', 1, OfManager(n), {})
    BY <1>7, ManagerDeletedMoves
  <2>2. UNCHANGED <<m_voice_call_manager, pc>>
    BY <1>7 DEF ManagerDeleted
  <2>3. PluginMove(1, OfManager(n), {})
    BY <2>1, <2>2, Fields DEF PluginMove, Asking
  <2>. QED BY <1>1, <2>3
<1>8. CASE DeferredDelete
  <2>1. PICK p \in Paths, n \in Nat :
           /\ Serving /\ events[1] = ObjectGoes(p, n)
           /\ events' \in Seq(Message) /\ Moves(events, events', 1, OfObject(p, n), {})
    BY <1>8, DeferredDeleteMoves
  <2>2. UNCHANGED <<m_voice_call_manager, pc>>
    BY <1>8 DEF DeferredDelete, managerVars
  <2>3. PluginMove(1, OfObject(p, n), {})
    BY <2>1, <2>2, Fields DEF PluginMove, Asking
  <2>. QED BY <1>1, <2>3
<1>. QED BY <1>2, <1>3, <1>4, <1>5, <1>6, <1>7, <1>8 DEF PluginNext

LEMMA NextIsSplit ==
  ASSUME [TelephonyNext]_telephonyVars
  PROVE  \/ \E p \in Paths, s \in FirstStates : CallComes(p, s)
         \/ \E p \in Paths, s \in {"incoming", "alerting", "active", "held"} : CallChanges(p, s)
         \/ \E p \in Paths : CallEnds(p)
         \/ ModemComes
         \/ ModemGoes
         \/ PluginNext
BY DEF TelephonyNext, PluginNext

Signals == {"ModemAdded", "ModemRemoved", "CallAdded", "CallRemoved", "PropertyChanged"}

(* The plugin posts no signal, and of what waits it takes the head, or     *)
(* with a manager or an object what was posted to it.                      *)
LEMMA PluginKeeps ==
  ASSUME TypesInv, NEW h \in {0, 1}, NEW D, NEW N, PluginMove(h, D, N)
  PROVE  /\ \A x \in Queued' : x.type \in Signals =>
              x \in Queued /\ x \notin D /\ (h = 1 => Before(events, events[1], x))
         /\ \A x \in Queued : x \in Queued' \/ (h = 1 /\ (x = events[1] \/ x \in D))
         /\ \A x, y : x \in Queued' /\ x.type \in Signals /\ y.type \in Signals /\ Before(events', x, y) =>
              Before(events, x, y)
<1>1. /\ \A x \in Range(events') : x # Dropped => x \in Range(events) \ D \/ x \in N
      /\ \A x \in Range(events) \ D : h = 0 \/ x # events[1] => x \in Range(events')
      /\ \A x, y : x # Dropped /\ y # Dropped /\ Before(events', x, y) =>
              Before(events, x, y) \/ (y \in N /\ x \in Range(events) \cup N)
      /\ h = 1 => \A x \in Range(events') : x \in {Dropped} \cup N \/ Before(events, events[1], x)
  BY MovesQueued DEF PluginMove, TypesInv
<1>2. Queued' = Range(events') /\ Queued = Range(events)
  BY DEF Queued
<1>3. \A x : x.type \in Signals => x # Dropped /\ x \notin N
  BY Fields DEF Signals, PluginMove, Goings
<1>4. h = 0 => D = {}
  BY DEF PluginMove
<1>. QED BY <1>1, <1>2, <1>3, <1>4

(* What waits behind the head does so in order.                            *)
LEMMA BehindHead ==
  ASSUME TypesInv, InOrder, Serving, NEW x \in Queued, Before(events, events[1], x)
  PROVE  ~Bad(events[1], x)
BY HeadServed DEF InOrder

LEMMA PluginInOrder ==
  ASSUME LinksInv, OrderInv, Up, NEW h \in {0, 1}, NEW D, NEW N, PluginMove(h, D, N),
         UNCHANGED ofonoVars
  PROVE  Still' /\ InOrder' /\ AddedInv' /\ RemovedInv' /\ OutgoingInv'
<1>1. TypesInv /\ InOrder /\ Still /\ AddedInv /\ RemovedInv /\ OutgoingInv /\ ManagersInv
      /\ (h = 1 => Serving) /\ UNCHANGED call /\ Queued \subseteq Message
  BY Queues DEF LinksInv, OrderInv, PluginMove, ofonoVars, TypesInv, Queued
<1>2. /\ \A x \in Queued' : x.type \in Signals =>
              x \in Queued /\ x \notin D /\ (h = 1 => ~Bad(events[1], x))
      /\ \A x \in Queued : x \in Queued' \/ (h = 1 /\ (x = events[1] \/ x \in D))
      /\ \A x, y : x \in Queued' /\ x.type \in Signals /\ y.type \in Signals /\ Before(events', x, y) =>
              Before(events, x, y)
  BY <1>1, PluginKeeps, BehindHead
<1>3. pc = "GetModems" => \A x \in Queued : x.type \notin {"PropertyChanged", "CallRemoved"}
  BY <1>1 DEF OrderInv, Control, Still
<1>4. ASSUME h = 1, events[1] \in {ModemAdded, ModemRemoved}, NEW x \in Queued'
      PROVE  x.type \notin {"PropertyChanged", "CallRemoved"}
  BY <1>2, <1>4, Fields DEF Bad, Signals
<1>5. Still'
  <2>1. SUFFICES ASSUME (Asking \/ m_voice_call_manager = 0)', NEW x \in Queued',
                        x.type \in {"PropertyChanged", "CallRemoved"}
                 PROVE  FALSE
    BY DEF Still
  <2>2. x \in Queued
    BY <1>2, <2>1 DEF Signals
  <2>3. \/ Asking \/ m_voice_call_manager = 0
        \/ pc = "GetModems"
        \/ h = 1 /\ events[1] \in {ModemAdded, ModemRemoved}
    BY <2>1 DEF PluginMove
  <2>. QED BY <1>1, <1>3, <1>4, <2>1, <2>2, <2>3 DEF Still
<1>6. InOrder'
  <2>1. SUFFICES ASSUME NEW x \in Queued', NEW y \in Queued', Before(events', x, y), Bad(x, y)
                 PROVE  FALSE
    BY DEF InOrder
  <2>2. x.type \in Signals /\ x \in Queued
    BY <1>2, <2>1 DEF Bad, Signals
  <2>3. CASE y.type \in Signals
    BY <1>1, <1>2, <2>1, <2>2, <2>3 DEF InOrder
  <2>4. CASE y.type \notin Signals
    <3>1. x.type = "PropertyChanged" /\ y.type = "DeferredDelete" /\ x.path = y.path /\ x.object = y.object
      BY <2>1, <2>4 DEF Bad, Signals
    <3>2. y # Dropped /\ x # Dropped
      BY <3>1, Fields
    <3>3. Before(events, x, y) \/ y \in N
      BY <1>1, <2>1, <3>2, MovesQueued DEF PluginMove, TypesInv
    <3>4. CASE y \in N
      <4>1. PICK p, o : y = ObjectGoes(p, o)
        BY <3>1, <3>4, Fields DEF PluginMove, Goings
      <4>2. h = 1 /\ events[1].type = "CallRemoved" /\ events[1].path = y.path
        BY <3>4, <4>1, Fields DEF PluginMove
      <4>. QED BY <1>2, <2>1, <2>2, <3>1, <4>2 DEF Bad
    <3>5. CASE Before(events, x, y)
      <4>1. y \in Queued
        BY <3>5 DEF Before, Queued, Range
      <4>. QED BY <1>1, <2>1, <2>2, <3>5, <4>1 DEF InOrder
    <3>. QED BY <3>3, <3>4, <3>5
  <2>. QED BY <2>3, <2>4
<1>7. AddedInv'
  BY <1>1, <1>2 DEF AddedInv, Signals
<1>8. RemovedInv'
  <2>1. SUFFICES ASSUME NEW x \in Queued', x.type = "CallRemoved", call[x.path] # "none"
                 PROVE  Added(x.path, call[x.path], x.manager) \in Queued'
    BY <1>1 DEF RemovedInv
  <2>2. x \in Queued /\ x \notin D /\ (h = 1 => ~Bad(events[1], x))
    BY <1>2, <2>1 DEF Signals
  <2>. DEFINE y == Added(x.path, call[x.path], x.manager)
  <2>3. y \in Queued /\ y.type = "CallAdded" /\ y.path = x.path /\ y.manager = x.manager
    BY <1>1, <2>1, <2>2, Fields DEF RemovedInv
  <2>. HIDE DEF y
  <2>4. ~(h = 1 /\ y = events[1])
    BY <2>1, <2>2, <2>3 DEF Bad
  <2>5. y \in D => x \in D
    BY <1>1, <2>1, <2>2, <2>3 DEF PluginMove, OfManager, OfObject
  <2>6. y \in Queued'
    BY <1>2, <2>2, <2>3, <2>4, <2>5
  <2>. QED BY <2>6 DEF y
<1>9. OutgoingInv'
  <2>1. SUFFICES ASSUME NEW x \in Queued', x.type = "PropertyChanged",
                        call[x.path] \in {"waiting", "dialing"}
                 PROVE  Added(x.path, call[x.path], m_voice_call_manager') \in Queued'
    BY <1>1 DEF OutgoingInv
  <2>2. x \in Queued /\ x \notin D /\ (h = 1 => ~Bad(events[1], x))
    BY <1>2, <2>1 DEF Signals
  <2>3. UNCHANGED m_voice_call_manager
    BY <1>3, <1>4, <2>1, <2>2 DEF PluginMove
  <2>. DEFINE y == Added(x.path, call[x.path], m_voice_call_manager)
  <2>4. y \in Queued /\ y.type = "CallAdded" /\ y.path = x.path /\ y.manager = m_voice_call_manager
    BY <1>1, <2>1, <2>2, Fields DEF OutgoingInv
  <2>. HIDE DEF y
  <2>5. ~(h = 1 /\ y = events[1])
    BY <2>1, <2>2, <2>4 DEF Bad
  <2>6. y \notin D
    <3>1. SUFFICES ASSUME NEW n \in Nat, h = 1, D = OfManager(n), events[1] = ManagerGoes(n), y \in D
                   PROVE FALSE
      BY <2>4 DEF PluginMove, OfObject
    <3>2. n = m_voice_call_manager
      BY <2>4, <3>1 DEF OfManager
    <3>3. ManagerGoes(n) \in Queued
      BY <1>1, <3>1, HeadServed
    <3>. QED BY <1>1, <3>2, <3>3 DEF ManagersInv
  <2>7. y \in Queued'
    BY <1>2, <2>4, <2>5, <2>6
  <2>. QED BY <2>3, <2>7 DEF y
<1>. QED BY <1>5, <1>6, <1>7, <1>8, <1>9

LEMMA PluginControl ==
  ASSUME LinksInv, OrderInv, Up, PluginNext, Up', UNCHANGED ofonoVars,
         NEW h \in {0, 1}, NEW D, NEW N, PluginMove(h, D, N)
  PROVE  Control' /\ AnswerInv'
<1>1. TypesInv /\ Control /\ AnswerInv /\ UNCHANGED <<modem, call>>
  BY DEF LinksInv, OrderInv, ofonoVars
<1>2. /\ \A x \in {ModemAdded, ModemRemoved} :
           /\ x \in Queued' => x \in Queued
           /\ x \in Queued => x \in Queued' \/ (h = 1 /\ x = events[1])
      /\ Followed(events, ModemRemoved, ModemAdded) => Followed(events', ModemRemoved, ModemAdded)
  <2>1. \A x \in {ModemAdded, ModemRemoved} :
           /\ x.type \in Signals /\ x \notin D /\ x \notin N /\ x # Dropped
    BY Fields DEF PluginMove, OfManager, OfObject, Goings, Signals
  <2>2. Followed(events, ModemRemoved, ModemAdded) => Followed(events', ModemRemoved, ModemAdded)
    BY <1>1, <2>1, MovesFollowed DEF PluginMove, TypesInv
  <2>. QED BY <1>1, <2>1, <2>2, PluginKeeps
<1>3. NewManager => m_voice_call_manager' # 0
  BY <1>1, FreshIsNew DEF NewManager, TypesInv
<1>4. Asking => m_voice_call_manager # 0
  BY <1>1 DEF Control
<1>5. /\ starting' => starting
      /\ pc' = "running" => ~starting'
      /\ pc' \in {"GetModems", "unusable"} => starting' /\ m_voice_call_manager' = 0
      /\ Asking' => m_voice_call_manager' # 0
  <2>1. CASE GetModems \/ onModemAdded
    BY <1>1, <1>3, <2>1 DEF GetModems, onModemAdded, managerVars, Control, Asking
  <2>2. CASE GetCallsAnswered \/ CallsFetched \/ ConnectModems \/ UNCHANGED telephonyVars
    BY <1>1, <2>2 DEF GetCallsAnswered, CallsFetched, ConnectModems, telephonyVars, managerVars, Control, Asking
  <2>3. CASE \/ onModemRemoved \/ ManagerDeleted \/ onCallAdded \/ onCallRemoved \/ onPropertiesChanged
             \/ DeferredDelete \/ DroppedEvent
    <3>1. pc = "running" /\ pc' \in {"running", "crashed"} /\ UNCHANGED starting
      BY <2>3 DEF onModemRemoved, ManagerDeleted, onCallAdded, onCallRemoved, onPropertiesChanged,
         DeferredDelete, DroppedEvent
    <3>. QED BY <1>1, <3>1 DEF Control, Asking
  <2>. QED BY <2>1, <2>2, <2>3 DEF PluginNext
<1>6. ASSUME m_voice_call_manager' = 0
      PROVE  \/ onModemRemoved
             \/ m_voice_call_manager = 0 /\ ~onModemAdded /\ (Unmanaged => Unmanaged')
  <2>1. CASE UNCHANGED <<managers, m_voice_call_manager, objects>>
    <3>1. ~onModemAdded
      BY <1>3, <1>6 DEF onModemAdded
    <3>. QED BY <1>6, <2>1, <3>1 DEF Unmanaged
  <2>2. CASE GetModems \/ onModemAdded \/ CallsFetched
    <3>1. GetModems /\ UNCHANGED managerVars
      BY <1>3, <1>4, <1>6, <2>2 DEF GetModems, onModemAdded, CallsFetched, managerVars, Asking
    <3>. QED BY <2>1, <3>1 DEF GetModems, managerVars
  <2>3. CASE onModemRemoved
    BY <2>3
  <2>4. CASE ManagerDeleted
    <3>1. UNCHANGED <<objects, m_voice_call_manager, pc>> /\ managers' \subseteq managers /\ pc = "running"
      BY <2>4 DEF ManagerDeleted
    <3>2. ~onModemAdded
      BY <3>1 DEF onModemAdded
    <3>. QED BY <1>6, <3>1, <3>2 DEF Unmanaged
  <2>5. CASE onCallAdded
    <3>1. UNCHANGED <<managers, m_voice_call_manager, pc>> /\ pc = "running"
      BY <2>5 DEF onCallAdded, managerVars
    <3>2. PICK p \in Paths, s \in FirstStates, m \in Nat : Serving /\ events[1] = Added(p, s, m)
      BY <1>1, <2>5, onCallAddedMoves
    <3>3. m \in managers
      BY <1>1, <3>2, HeadServed DEF LinksInv, ManagersInv
    <3>4. ~onModemAdded
      BY <3>1 DEF onModemAdded
    <3>. QED BY <1>6, <3>1, <3>3, <3>4 DEF Unmanaged
  <2>6. CASE onPropertiesChanged
    <3>1. UNCHANGED <<managers, m_voice_call_manager, pc>> /\ pc = "running"
      BY <2>6 DEF onPropertiesChanged, managerVars
    <3>2. \A q \in Paths : DOMAIN objects'[q] = DOMAIN objects[q]
      BY <1>1, <2>6, onPropertiesChangedMoves DEF TypesInv
    <3>3. ~onModemAdded
      BY <3>1 DEF onModemAdded
    <3>. QED BY <1>6, <3>1, <3>2, <3>3 DEF Unmanaged
  <2>7. CASE DeferredDelete
    <3>1. UNCHANGED <<managers, m_voice_call_manager, pc>> /\ pc = "running"
      BY <2>7 DEF DeferredDelete, managerVars
    <3>2. PICK p \in Paths, o \in Nat :
            objects' = [objects EXCEPT ![p] = [i \in DOMAIN objects[p] \ {o} |-> objects[p][i]]]
      BY <1>1, <2>7, DeferredDeleteMoves
    <3>4. \A q \in Paths : DOMAIN objects[q] = {} => DOMAIN objects'[q] = {}
      BY <1>1, <3>2 DEF TypesInv
    <3>3. ~onModemAdded
      BY <3>1 DEF onModemAdded
    <3>. QED BY <1>6, <3>1, <3>3, <3>4 DEF Unmanaged
  <2>8. CASE GetCallsAnswered \/ ConnectModems \/ onCallRemoved \/ DroppedEvent \/ UNCHANGED telephonyVars
    BY <2>1, <2>8 DEF GetCallsAnswered, ConnectModems, onCallRemoved, DroppedEvent, telephonyVars, managerVars
  <2>. QED BY <2>2, <2>3, <2>4, <2>5, <2>6, <2>7, <2>8 DEF PluginNext
<1>7. starting' /\ m_voice_call_manager' = 0 => Unmanaged'
  <2>1. SUFFICES ASSUME starting', m_voice_call_manager' = 0 PROVE Unmanaged'
    OBVIOUS
  <2>2. ~onModemRemoved
    BY <1>1, <1>5, <2>1 DEF onModemRemoved, Control
  <2>. QED BY <1>1, <1>5, <1>6, <2>1, <2>2 DEF Control
<1>8. m_voice_call_manager' = 0 /\ modem => ModemAdded \in Queued' \/ Unmanaged'
  <2>1. SUFFICES ASSUME m_voice_call_manager' = 0, modem, ~Unmanaged' PROVE ModemAdded \in Queued'
    OBVIOUS
  <2>2. CASE onModemRemoved
    <3>1. Serving /\ events[1] = ModemRemoved /\ 1 \in DOMAIN events
      BY <1>1, <2>2, onModemRemovedMoves, Positions DEF TypesInv, Serving
    <3>2. ModemAdded \in Queued
      BY <1>1, <2>1, <3>1, Queues DEF Control, Followed, Queued, TypesInv
    <3>3. ModemRemoved # ModemAdded
      BY Fields
    <3>. QED BY <1>2, <3>1, <3>2, <3>3
  <2>3. CASE ~onModemRemoved
    <3>1. ModemAdded \in Queued /\ ~onModemAdded
      BY <1>1, <1>6, <2>1, <2>3 DEF Control
    <3>2. h = 1 => ~(events[1] = ModemAdded)
      BY <3>1 DEF PluginMove
    <3>. QED BY <1>2, <3>1, <3>2
  <2>. QED BY <2>2, <2>3
<1>9. Control'
  BY <1>1, <1>2, <1>5, <1>7, <1>8 DEF Control
<1>10. AnswerInv'
  <2>1. CASE GetCallsAnswered
    BY <1>1, <2>1 DEF GetCallsAnswered, AnswerInv, NoCalls, TypesInv
  <2>2. CASE UNCHANGED telephonyVars
    BY <1>1, <2>2 DEF AnswerInv, telephonyVars, Queued
  <2>3. CASE ~GetCallsAnswered /\ ~UNCHANGED telephonyVars
    <3>1. pc' # "answered"
      BY <2>3 DEF PluginNext, GetModems, onModemAdded, CallsFetched, ConnectModems,
     onModemRemoved, ManagerDeleted, onCallAdded, onCallRemoved, onPropertiesChanged, DeferredDelete,
     DroppedEvent
    <3>. QED BY <3>1 DEF AnswerInv
  <2>. QED BY <2>1, <2>2, <2>3
<1>. QED BY <1>9, <1>10

-----------------------------------------------------------------------------
(* What oFono does to it.                                                  *)

LEMMA OfonoPosts ==
  ASSUME TypesInv, events' \in Seq(Message), NEW N, Moves(events, events', 0, {}, N)
  PROVE  /\ \A x \in Queued' : x # Dropped => x \in Queued \cup N
         /\ Queued \subseteq Queued' /\ N \subseteq Queued'
         /\ \A x, y : x # Dropped /\ y # Dropped /\ Before(events', x, y) =>
              Before(events, x, y) \/ (y \in N /\ x \in Queued \cup N)
BY MovesQueued DEF TypesInv, Queued

LEMMA CallComesInOrder ==
  ASSUME LinksInv, OrderInv, Polite, Up, NEW p \in Paths, NEW s \in FirstStates, CallComes(p, s)
  PROVE  OrderInv'
<1>. DEFINE N == AddedToAll(p, s)
<1>1. TypesInv /\ Control /\ Still /\ InOrder /\ AddedInv /\ RemovedInv /\ OutgoingInv /\ AnswerInv
      /\ ManagersInv /\ Queued \subseteq Message
  BY Queues DEF LinksInv, OrderInv, TypesInv, Queued
<1>2. /\ modem /\ call[p] = "none" /\ ~Awaited("CallAdded", p) /\ MayEmit(p)
      /\ call' = [call EXCEPT ![p] = s]
      /\ UNCHANGED <<modem, pc, starting, answer, refused, managers, m_voice_call_manager, objects>>
  <2>1. MayEmit(p)
    BY DEF CallComes
  <2>. QED BY <2>1, Heeded DEF CallComes, pluginVars, managerVars
<1>3. call'[p] = s /\ \A q \in Paths : q # p => call'[q] = call[q]
  BY <1>1, <1>2 DEF TypesInv
<1>4. events' \in Seq(Message) /\ Moves(events, events', 0, {}, N)
  BY <1>1, CallComesMoves
<1>5. \A x \in N : x.type = "CallAdded" /\ x.path = p /\ x.state = s
  BY Fields DEF AddedToAll
<1>5a. \A m \in managers : Added(p, s, m) \in N
  BY DEF AddedToAll
<1>. HIDE DEF N
<1>6. /\ \A x \in Queued' : x # Dropped => x \in Queued \cup N
      /\ Queued \subseteq Queued' /\ N \subseteq Queued'
      /\ \A x, y : x # Dropped /\ y # Dropped /\ Before(events', x, y) =>
           Before(events, x, y) \/ (y \in N /\ x \in Queued \cup N)
  BY <1>1, <1>4, OfonoPosts
<1>7. \A x : x.type \in Signals \/ x.type = "DeferredDelete" => x # Dropped
  BY Fields DEF Signals
<1>8. ModemAdded \notin N /\ ModemRemoved \notin N /\ ModemRemoved # Dropped /\ ModemAdded # Dropped
  BY <1>5, Fields
<1>9. Followed(events, ModemRemoved, ModemAdded) => Followed(events', ModemRemoved, ModemAdded)
  BY <1>1, <1>4, <1>8, MovesFollowed DEF TypesInv
<1>10. Control'
  BY <1>1, <1>2, <1>6, <1>8, <1>9 DEF Control, Asking, Unmanaged
<1>11. Still'
  BY <1>1, <1>2, <1>5, <1>6, <1>7 DEF Still, Asking, Signals
<1>12. InOrder'
  <2>1. SUFFICES ASSUME NEW x \in Queued', NEW y \in Queued', Before(events', x, y), Bad(x, y)
                 PROVE  FALSE
    BY DEF InOrder
  <2>2. x # Dropped /\ y # Dropped /\ y.type # "CallAdded"
    BY <1>7, <2>1 DEF Bad, Signals
  <2>3. Before(events, x, y) /\ x \in Queued /\ y \in Queued
    <3>1. Before(events, x, y)
      BY <1>5, <1>6, <2>1, <2>2
    <3>. QED BY <3>1 DEF Before, Queued, Range
  <2>. QED BY <1>1, <2>1, <2>3 DEF InOrder
<1>13. AddedInv'
  <2>1. SUFFICES ASSUME NEW x \in Queued', x.type = "CallAdded" PROVE x.state = call'[x.path]
    BY DEF AddedInv
  <2>2. CASE x \in N
    BY <1>3, <1>5, <2>2
  <2>3. CASE x \in Queued
    BY <1>1, <1>2, <1>3, <2>1, <2>3, Kinds DEF AddedInv, Awaited
  <2>. QED BY <1>6, <1>7, <2>1, <2>2, <2>3 DEF Signals
<1>14. ASSUME NEW x \in Queued', x.type \in {"CallRemoved", "PropertyChanged"}
       PROVE  x \in Queued /\ x.path \in Paths
  <2>1. x \in Queued
    BY <1>5, <1>6, <1>7, <1>14 DEF Signals
  <2>. QED BY <1>1, <1>14, <2>1, Kinds
<1>15. RemovedInv'
  <2>1. SUFFICES ASSUME NEW x \in Queued', x.type = "CallRemoved", call'[x.path] # "none"
                 PROVE  Added(x.path, call'[x.path], x.manager) \in Queued'
    BY DEF RemovedInv
  <2>2. CASE x.path = p
    <3>1. x.manager \in managers
      BY <1>1, <1>14, <2>1, Kinds DEF ManagersInv
    <3>. QED BY <1>3, <1>5a, <1>6, <2>2, <3>1
  <2>3. CASE x.path # p
    BY <1>1, <1>3, <1>6, <1>14, <2>1, <2>3 DEF RemovedInv
  <2>. QED BY <2>2, <2>3
<1>16. OutgoingInv'
  <2>1. SUFFICES ASSUME NEW x \in Queued', x.type = "PropertyChanged",
                        call'[x.path] \in {"waiting", "dialing"}
                 PROVE  Added(x.path, call'[x.path], m_voice_call_manager) \in Queued'
    BY <1>2 DEF OutgoingInv
  <2>2. CASE x.path = p
    <3>1. m_voice_call_manager \in managers
      BY <1>1, <1>14, <2>1 DEF Still, TypesInv
    <3>. QED BY <1>3, <1>5a, <1>6, <2>2, <3>1
  <2>3. CASE x.path # p
    BY <1>1, <1>3, <1>6, <1>14, <2>1, <2>3 DEF OutgoingInv
  <2>. QED BY <2>2, <2>3
<1>17. AnswerInv'
  <2>1. SUFFICES ASSUME pc = "answered", NEW q \in Paths
                 PROVE  /\ answer[q] \in {"none", call'[q]}
                        /\ ~refused /\ answer[q] = "none" /\ call'[q] # "none" =>
                             Added(q, call'[q], m_voice_call_manager) \in Queued'
    BY <1>2 DEF AnswerInv
  <2>2. CASE q = p
    <3>1. m_voice_call_manager \in managers
      BY <1>1, <2>1 DEF Control, Asking, TypesInv
    <3>. QED BY <1>1, <1>2, <1>3, <1>5a, <1>6, <2>1, <2>2, <3>1 DEF AnswerInv
  <2>3. CASE q # p
    BY <1>1, <1>3, <1>6, <2>1, <2>3 DEF AnswerInv
  <2>. QED BY <2>2, <2>3
<1>. QED BY <1>10, <1>11, <1>12, <1>13, <1>15, <1>16, <1>17 DEF OrderInv

(* A call changes or ends: N is what is said of it.                        *)
LEMMA CallSpoken ==
  ASSUME LinksInv, OrderInv, Polite, Up, NEW p \in Paths, MayEmit(p), call[p] # "none",
         NEW c, c \notin {"waiting", "dialing"}, call' = [call EXCEPT ![p] = c],
         UNCHANGED <<modem, pluginVars>>,
         NEW N, events' \in Seq(Message), Moves(events, events', 0, {}, N),
         \A x \in N : x.path = p /\ (x.type = "PropertyChanged" \/ (x.type = "CallRemoved" /\ c = "none")),
         Unmanaged => N = {},
         \A x, y \in N : x.type = "CallRemoved" /\ y.type = "PropertyChanged" /\ Before(events', x, y) =>
           x \in Queued
  PROVE  OrderInv'
<1>1. TypesInv /\ Control /\ Still /\ InOrder /\ AddedInv /\ RemovedInv /\ OutgoingInv /\ AnswerInv
      /\ ManagersInv /\ Queued \subseteq Message
  BY Queues DEF LinksInv, OrderInv, TypesInv, Queued
<1>2. /\ modem /\ ~Awaited("CallAdded", p) /\ ~Awaited("CallRemoved", p)
      /\ ModemAdded \notin Queued /\ ModemRemoved \notin Queued
      /\ ~Asking /\ (m_voice_call_manager # 0 \/ N = {})
      /\ UNCHANGED <<modem, pc, starting, answer, refused, managers, m_voice_call_manager, objects>>
  BY Heeded DEF pluginVars, managerVars
<1>3. call'[p] = c /\ \A q \in Paths : q # p => call'[q] = call[q]
  BY <1>1 DEF TypesInv
<1>6. /\ \A x \in Queued' : x # Dropped => x \in Queued \cup N
      /\ Queued \subseteq Queued' /\ N \subseteq Queued'
      /\ \A x, y : x # Dropped /\ y # Dropped /\ Before(events', x, y) =>
           Before(events, x, y) \/ (y \in N /\ x \in Queued \cup N)
  BY <1>1, OfonoPosts
<1>7. \A x : x.type \in Signals \/ x.type = "DeferredDelete" => x # Dropped
  BY Fields DEF Signals
<1>8. /\ ModemAdded.type = "ModemAdded" /\ ModemRemoved.type = "ModemRemoved"
      /\ ModemAdded \notin N /\ ModemRemoved \notin N /\ ModemRemoved # Dropped /\ ModemAdded # Dropped
  BY Fields
<1>9. Followed(events, ModemRemoved, ModemAdded) => Followed(events', ModemRemoved, ModemAdded)
  BY <1>1, <1>8, MovesFollowed DEF TypesInv
<1>10. Control'
  BY <1>1, <1>2, <1>6, <1>8, <1>9 DEF Control, Asking, Unmanaged
<1>11. Still'
  BY <1>1, <1>2, <1>6, <1>7 DEF Still, Asking, Signals
<1>12. InOrder'
  <2>1. SUFFICES ASSUME NEW x \in Queued', NEW y \in Queued', Before(events', x, y), Bad(x, y)
                 PROVE  FALSE
    BY DEF InOrder
  <2>2. x # Dropped /\ y # Dropped
    BY <1>7, <2>1 DEF Bad, Signals
  <2>3. CASE Before(events, x, y)
    BY <1>1, <2>1, <2>3 DEF InOrder, Before, Queued, Range
  <2>4. CASE y \in N /\ x \in Queued
    <3>1. x.type \notin {"ModemAdded", "ModemRemoved"}
      BY <1>1, <1>2, <2>4, Kinds
    <3>. QED BY <1>2, <2>1, <2>4, <3>1 DEF Bad, Awaited
  <2>5. CASE y \in N /\ x \in N
    <3>1. x \in Queued
      BY <2>1, <2>5 DEF Bad
    <3>. QED BY <2>4, <2>5, <3>1
  <2>. QED BY <1>6, <2>1, <2>2, <2>3, <2>4, <2>5
<1>13. AddedInv'
  <2>1. SUFFICES ASSUME NEW x \in Queued', x.type = "CallAdded" PROVE x.state = call'[x.path]
    BY DEF AddedInv
  <2>2. x \in Queued
    BY <1>6, <1>7, <2>1 DEF Signals
  <2>. QED BY <1>1, <1>2, <1>3, <2>1, <2>2, Kinds DEF AddedInv, Awaited
<1>14. RemovedInv'
  <2>1. SUFFICES ASSUME NEW x \in Queued', x.type = "CallRemoved", call'[x.path] # "none"
                 PROVE  Added(x.path, call'[x.path], x.manager) \in Queued'
    BY DEF RemovedInv
  <2>2. x \in Queued
    BY <1>3, <1>6, <1>7, <2>1 DEF Signals
  <2>3. x.path # p /\ x.path \in Paths
    BY <1>1, <1>2, <2>1, <2>2, Kinds DEF Awaited
  <2>. QED BY <1>1, <1>3, <1>6, <2>1, <2>2, <2>3 DEF RemovedInv
<1>15. OutgoingInv'
  <2>1. SUFFICES ASSUME NEW x \in Queued', x.type = "PropertyChanged",
                        call'[x.path] \in {"waiting", "dialing"}
                 PROVE  Added(x.path, call'[x.path], m_voice_call_manager) \in Queued'
    BY <1>2 DEF OutgoingInv
  <2>2. x \in Queued /\ x.path # p
    BY <1>3, <1>6, <1>7, <2>1 DEF Signals
  <2>3. x.path \in Paths
    BY <1>1, <2>1, <2>2, Kinds
  <2>. QED BY <1>1, <1>3, <1>6, <2>1, <2>2, <2>3 DEF OutgoingInv
<1>16. AnswerInv'
  BY <1>2 DEF AnswerInv, Asking
<1>. QED BY <1>10, <1>11, <1>12, <1>13, <1>14, <1>15, <1>16 DEF OrderInv

LEMMA CallChangesInOrder ==
  ASSUME LinksInv, OrderInv, Polite, Up, NEW p \in Paths,
         NEW s \in {"incoming", "alerting", "active", "held"}, CallChanges(p, s)
  PROVE  OrderInv'
<1>1. s \in States /\ s \notin {"waiting", "dialing"}
  BY DEF States, CallStates, FirstStates
<1>2. events' \in Seq(Message) /\ Moves(events, events', 0, {}, Words(p, s))
  BY <1>1, CallChangesMoves DEF LinksInv
<1>3. \A x \in Words(p, s) : x.path = p /\ x.type = "PropertyChanged"
  BY Fields DEF Words
<1>4. Unmanaged => Words(p, s) = {}
  BY DEF Words, Unmanaged
<1>5. MayEmit(p) /\ call[p] # "none" /\ call' = [call EXCEPT ![p] = s] /\ UNCHANGED <<modem, pluginVars>>
  BY DEF CallChanges
<1>6. \A x \in Words(p, s) : x.type # "CallRemoved"
  BY <1>3
<1>. QED BY <1>1, <1>2, <1>3, <1>4, <1>5, <1>6, CallSpoken

LEMMA CallEndsInOrder ==
  ASSUME LinksInv, OrderInv, Polite, Up, NEW p \in Paths, CallEnds(p)
  PROVE  OrderInv'
<1>. DEFINE W == Words(p, "disconnected")
            R == RemovedToAll(p)
            N == W \cup R
<1>1. /\ events' \in Seq(Message) /\ Moves(events, events', 0, {}, N)
      /\ \A x \in R, y \in W : Before(events', x, y) => x \in Queued
  BY CallEndsMoves DEF LinksInv
<1>2. /\ \A x \in W : x.path = p /\ x.type = "PropertyChanged"
      /\ \A x \in R : x.path = p /\ x.type = "CallRemoved"
  BY Fields DEF Words, RemovedToAll
<1>3. Unmanaged => N = {}
  BY DEF Words, RemovedToAll, Unmanaged
<1>4. MayEmit(p) /\ call[p] # "none" /\ call' = [call EXCEPT ![p] = "none"] /\ UNCHANGED <<modem, pluginVars>>
  BY DEF CallEnds
<1>. HIDE DEF W, R
<1>5. \A x \in N : x.path = p /\ (x.type = "PropertyChanged" \/ (x.type = "CallRemoved" /\ "none" = "none"))
  BY <1>2
<1>6. \A x, y \in N : x.type = "CallRemoved" /\ y.type = "PropertyChanged" /\ Before(events', x, y) =>
           x \in Queued
  BY <1>1, <1>2
<1>. HIDE DEF N
<1>. QED BY <1>1, <1>3, <1>4, <1>5, <1>6, CallSpoken

LEMMA ModemInOrder ==
  ASSUME LinksInv, OrderInv, Polite, Up, ModemComes \/ ModemGoes
  PROVE  OrderInv'
<1>. DEFINE silent == pc \in {"GetModems", "unusable", "crashed"} \/ starting
            x0 == IF modem THEN ModemRemoved ELSE ModemAdded
            N == IF silent THEN {} ELSE {x0}
<1>1. TypesInv /\ Control /\ Still /\ InOrder /\ AddedInv /\ RemovedInv /\ OutgoingInv /\ AnswerInv
  BY DEF LinksInv, OrderInv
<1>2. /\ modem' = ~modem /\ UNCHANGED call
      /\ modem => call = NoCalls
      /\ UNCHANGED <<pc, starting, answer, refused, managers, m_voice_call_manager, objects>>
  BY <1>1 DEF ModemComes, ModemGoes, pluginVars, managerVars, Polite, TypesInv
<1>3. silent => starting
  BY <1>1 DEF Up, Control
<1>4. events' \in Seq(Message) /\ Moves(events, events', 0, {}, N) /\ (silent => events' = events)
  BY <1>1, ModemSignalsMove
<1>5. \A x \in N : x.type \in {"ModemAdded", "ModemRemoved"}
  BY Fields
<1>6. /\ ~silent => x0 \in N
      /\ silent => N = {}
      /\ N \subseteq {x0}
      /\ x0 = IF modem THEN ModemRemoved ELSE ModemAdded
      /\ ModemAdded # ModemRemoved /\ ModemAdded # Dropped /\ ModemRemoved # Dropped
  BY Fields
<1>. HIDE DEF N, silent, x0
<1>7. /\ \A x \in Queued' : x # Dropped => x \in Queued \cup N
      /\ Queued \subseteq Queued' /\ N \subseteq Queued'
      /\ \A x, y : x # Dropped /\ y # Dropped /\ Before(events', x, y) =>
           Before(events, x, y) \/ (y \in N /\ x \in Queued \cup N)
  BY <1>1, <1>4, OfonoPosts
<1>8. \A x : x.type \in Signals \/ x.type = "DeferredDelete" => x # Dropped
  BY Fields DEF Signals
<1>9. modem' => Followed(events', ModemRemoved, ModemAdded)
  <2>1. SUFFICES ASSUME ~modem PROVE Followed(events', ModemRemoved, ModemAdded)
    BY <1>1, <1>2 DEF TypesInv
  <2>2. CASE silent
    <3>1. ModemRemoved \notin Queued'
      BY <1>1, <1>3, <1>6, <1>7, <2>2 DEF Control
    <3>. QED BY <3>1 DEF Followed, Queued, Range
  <2>3. CASE ~silent
    BY <1>1, <1>4, <1>6, <2>1, <2>3, MovesFollowed DEF TypesInv
  <2>. QED BY <2>2, <2>3
<1>10. starting => ModemAdded \notin Queued' /\ ModemRemoved \notin Queued'
  <2>1. starting => silent
    BY DEF silent
  <2>. QED BY <1>1, <1>6, <1>7, <2>1 DEF Control
<1>11. m_voice_call_manager = 0 => ModemAdded \in Queued' \/ ~modem' \/ Unmanaged
  BY <1>1, <1>2, <1>3, <1>6, <1>7 DEF Control
<1>12. Control'
  BY <1>1, <1>2, <1>9, <1>10, <1>11 DEF Control, Asking, Unmanaged
<1>13. Still'
  BY <1>1, <1>2, <1>5, <1>7, <1>8 DEF Still, Asking, Signals
<1>14. InOrder'
  <2>1. SUFFICES ASSUME NEW x \in Queued', NEW y \in Queued', Before(events', x, y), Bad(x, y)
                 PROVE  FALSE
    BY DEF InOrder
  <2>2. x # Dropped /\ y # Dropped /\ y.type \notin {"ModemAdded", "ModemRemoved"}
    BY <1>8, <2>1 DEF Bad, Signals
  <2>3. Before(events, x, y) /\ x \in Queued /\ y \in Queued
    <3>1. Before(events, x, y)
      BY <1>5, <1>7, <2>1, <2>2
    <3>. QED BY <3>1 DEF Before, Queued, Range
  <2>. QED BY <1>1, <2>1, <2>3 DEF InOrder
<1>15. \A x \in Queued' : x.type \in {"CallAdded", "CallRemoved", "PropertyChanged"} => x \in Queued
  BY <1>5, <1>7, <1>8 DEF Signals
<1>16. AddedInv' /\ RemovedInv' /\ OutgoingInv'
  BY <1>1, <1>2, <1>7, <1>15 DEF AddedInv, RemovedInv, OutgoingInv
<1>17. AnswerInv'
  BY <1>1, <1>2, <1>7 DEF AnswerInv
<1>. QED BY <1>12, <1>13, <1>14, <1>16, <1>17 DEF OrderInv

LEMMA OrderInductive ==
  ASSUME LinksInv, OrderInv, Polite, [TelephonyNext]_telephonyVars
  PROVE  OrderInv'
<1>1. SUFFICES ASSUME Up' PROVE OrderInv'
  BY DEF OrderInv
<1>2. Up
  <2>1. SUFFICES ASSUME pc = "crashed" PROVE FALSE
    BY DEF Up
  <2>2. pc' = "crashed"
    BY <2>1 DEF TelephonyNext, CallComes, CallChanges, CallEnds, ModemComes, ModemGoes, GetModems, onModemAdded,
       GetCallsAnswered, CallsFetched, ConnectModems, onModemRemoved, ManagerDeleted, onCallAdded, onCallRemoved,
       onPropertiesChanged, DeferredDelete, DroppedEvent, telephonyVars, pluginVars
  <2>. QED BY <1>1, <2>2 DEF Up
<1>3. CASE PluginNext
  <2>1. UNCHANGED ofonoVars /\ \E h \in {0, 1} : \E D, N : PluginMove(h, D, N)
    BY <1>1, <1>3, PluginMoves DEF LinksInv, Up
  <2>2a. PICK h \in {0, 1} : \E D, N : PluginMove(h, D, N)
    BY <2>1
  <2>2. PICK D, N : PluginMove(h, D, N)
    BY <2>2a
  <2>. QED BY <1>1, <1>2, <1>3, <2>1, <2>2, PluginInOrder, PluginControl DEF OrderInv
<1>. QED BY <1>2, <1>3, NextIsSplit, CallComesInOrder, CallChangesInOrder, CallEndsInOrder, ModemInOrder

LEMMA OrderInitially == TelephonyInit => OrderInv
<1>. SUFFICES ASSUME TelephonyInit PROVE OrderInv
  OBVIOUS
<1>1. Queued = {} /\ DOMAIN events = {}
  BY DEF TelephonyInit, Queued, Range
<1>2. Unmanaged
  BY DEF TelephonyInit, Unmanaged
<1>. QED BY <1>1, <1>2 DEF OrderInv, TelephonyInit, Control, Still, InOrder, AddedInv, RemovedInv, OutgoingInv,
            AnswerInv, Asking, Followed

-----------------------------------------------------------------------------
(* What the plugin knows of a call and what it has told.                   *)

(* With q in the queue, of which H is what is still to be told, and m told *)
(* last: what is told in the end is in M, or the last State that is heard  *)
(* is in X.                                                                *)
Tale(q, H, m, M, X) ==
  /\ (\A x \in Range(q) : x \notin H) => m \in M
  /\ \A x \in Last(q, H) : x.state \in X

(* What is to be told last of a call in State s.                           *)
Agree(s) ==
  IF s = "incoming" THEN {"ringing"}
  ELSE IF s \in {"alerting", "active"} THEN {"talking"} ELSE {"none", "ringing", "talking"}

(* A call that is over, or does not ring yet, is told of no more.          *)
OverInv ==
  \A p \in Paths :
    call[p] \in {"none", "waiting", "dialing"} \/ Awaited("CallRemoved", p) \/ Live(p) = {} =>
      Tale(events, Voice(p), m_send_call_state[p], {"none"}, {"disconnected"})

(* Before a call is seen, no more than its State has been told.            *)
UnseenInv ==
  \A p \in Paths :
    Asking \/ ModemAdded \in Queued \/ Awaited("CallAdded", p) =>
      Tale(events, Voice(p), m_send_call_state[p], {"none", Event(call[p])}, {"disconnected"})

Settled ==
  /\ pc \in {"connect", "running"} /\ ~refused /\ m_voice_call_manager # 0
  /\ ModemAdded \notin Queued /\ ModemRemoved \notin Queued

(* A call is announced, or the plugin knows it and agrees in the end.      *)
SettledInv ==
  Settled =>
    \A p \in Paths : call[p] # "none" =>
      \/ Added(p, call[p], m_voice_call_manager) \in Queued
      \/ /\ ~Awaited("CallRemoved", p) /\ m_calls[p] # 0
         /\ Tale(events, Voice(p), m_send_call_state[p], Agree(call[p]), {call[p]})

(* Nothing but ringing comes before a word of ringing.                     *)
RingingInv ==
  \A p \in Paths, x \in Queued : x \in Voice(p) /\ x.state = "incoming" =>
    /\ m_send_call_state[p] # "talking"
    /\ \A y \in Queued : y \in Voice(p) /\ Before(events, y, x) => y.state = "incoming"

(* A known call goes on, unless its removal is announced.                  *)
KnownInv ==
  \A p \in Paths : m_calls[p] # 0 /\ Removed(p, m_voice_call_manager) \notin Queued =>
    /\ call[p] # "none"
    /\ objects[p][m_calls[p]] # "disconnected"
    /\ Word(p, m_calls[p], "disconnected") \notin Queued

(* Nothing is said to a known call after it has heard of its end.          *)
LastWordInv ==
  \A p \in Paths, s \in States : m_calls[p] # 0 /\ Word(p, m_calls[p], s) \in Queued =>
    /\ objects[p][m_calls[p]] # "disconnected"
    /\ ~Before(events, Word(p, m_calls[p], "disconnected"), Word(p, m_calls[p], s))

(* What there is to tell of the only call at a path has been told.         *)
OnlyCallInv ==
  \A p \in Paths : m_calls[p] # 0 /\ Live(p) = {m_calls[p]} =>
    Event(objects[p][m_calls[p]]) \in {"none", m_send_call_state[p]}

TaleInv ==
  Up =>
    /\ OverInv /\ UnseenInv /\ SettledInv /\ RingingInv
    /\ KnownInv /\ LastWordInv /\ OnlyCallInv

-----------------------------------------------------------------------------
(* What a step of the plugin does to a path: it makes a TelephonyCall,     *)
(* forgets the known one, makes one hear a word, or leaves them alone.     *)

Kept(p) ==
  /\ m_calls'[p] = m_calls[p]
  /\ Live(p)' = Live(p)
  /\ \A x \in {Removed(p, m_voice_call_manager), Added(p, call[p], m_voice_call_manager)} :
       x \in Queued => x \in Queued'

LeftAlone(p) ==
  /\ Kept(p)
  /\ m_send_call_state'[p] = m_send_call_state[p]
  /\ \A o \in Live(p) : objects'[p][o] = objects[p][o]
  /\ Last(events', Voice(p)) \subseteq Last(events, Voice(p))
  /\ (\A x \in Queued' : x \notin Voice(p)) => (\A x \in Queued : x \notin Voice(p))

Hears(p, o, s) ==
  /\ Kept(p)
  /\ o \in Live(p) /\ Serving /\ events[1] = Word(p, o, s) /\ Moves(events, events', 1, {}, {})
  /\ m_send_call_state'[p] = Told(m_send_call_state[p], s)
  /\ objects'[p][o] = s
  /\ \A i \in Live(p) \ {o} : objects'[p][i] = objects[p][i]

Gets(p) ==
  /\ call[p] \in CallStates /\ (Asking \/ Awaited("CallAdded", p))
  /\ ~Awaited("PropertyChanged", p) /\ ~Awaited("CallRemoved", p)
  /\ objects'[p] = WithCall(p, call[p])
  /\ m_calls'[p] = NewCall(p)
  /\ m_send_call_state'[p] = Told(m_send_call_state[p], call[p])

Forgets(p) ==
  /\ Awaited("CallRemoved", p) /\ ~Awaited("PropertyChanged", p)
  /\ m_calls'[p] = 0
  /\ m_send_call_state'[p] = m_send_call_state[p]
  /\ \A x \in Queued : x.type = "CallAdded" => x \in Queued'

(* Everything in the queue is its head, or stands behind it.               *)
LEMMA HeadOrBehind ==
  ASSUME TypesInv, InOrder, Serving, NEW x \in Queued
  PROVE  x = events[1] \/ (Before(events, events[1], x) /\ ~Bad(events[1], x))
<1>1. PICK k \in DOMAIN events : events[k] = x
  BY Queues DEF TypesInv, Queued
<1>2. k = 1 \/ 1 < k
  BY <1>1, Queues DEF TypesInv
<1>3. 1 \in DOMAIN events
  BY Positions DEF TypesInv, Serving
<1>4. CASE 1 < k
  <2>1. Before(events, events[1], x)
    BY <1>1, <1>3, <1>4 DEF Before
  <2>. QED BY <2>1, BehindHead
<1>. QED BY <1>1, <1>2, <1>4

LEMMA KeptByQueue ==
  ASSUME LinksInv, NEW h \in {0, 1}, NEW D, NEW N, PluginMove(h, D, N), NEW p \in Paths,
         h = 1 => ~(events[1].type \in {"CallAdded", "CallRemoved"} /\ events[1].path = p),
         NEW x \in {Removed(p, m_voice_call_manager), Added(p, call[p], m_voice_call_manager)},
         x \in Queued
  PROVE  x \in Queued'
<1>1. x.type \in {"CallAdded", "CallRemoved"} /\ x.path = p /\ x.manager = m_voice_call_manager
  BY Fields
<1>2. x \notin D
  <2>1. SUFFICES ASSUME NEW n \in Nat, h = 1, D = OfManager(n), events[1] = ManagerGoes(n), x \in D
                 PROVE FALSE
    BY <1>1 DEF PluginMove, OfObject
  <2>2. n = m_voice_call_manager
    BY <1>1, <2>1 DEF OfManager
  <2>3. ManagerGoes(n) \in Queued
    BY <2>1, HeadServed DEF PluginMove, LinksInv
  <2>. QED BY <2>2, <2>3 DEF LinksInv, ManagersInv
<1>. QED BY <1>1, <1>2, PluginKeeps DEF LinksInv

LEMMA LiveByQueue ==
  ASSUME LinksInv, NEW h \in {0, 1}, NEW D, NEW N, PluginMove(h, D, N), NEW p \in Paths,
         h = 1 => ~(events[1].type \in {"CallRemoved", "DeferredDelete"} /\ events[1].path = p),
         DOMAIN objects'[p] = DOMAIN objects[p]
  PROVE  Live(p)' = Live(p)
<1>1. ASSUME NEW o
      PROVE  ObjectGoes(p, o) \in Queued <=> ObjectGoes(p, o) \in Queued'
  <2>1. ObjectGoes(p, o).type = "DeferredDelete" /\ ObjectGoes(p, o).path = p /\ ObjectGoes(p, o) # Dropped
    BY Fields
  <2>2. ObjectGoes(p, o) \notin D /\ ObjectGoes(p, o) \notin N
    BY <2>1 DEF PluginMove, OfManager, OfObject
  <2>3. ObjectGoes(p, o) \in Queued => ObjectGoes(p, o) \in Queued'
    BY <2>1, <2>2, PluginKeeps DEF LinksInv
  <2>4. ObjectGoes(p, o) \in Queued' => ObjectGoes(p, o) \in Queued
    BY <2>1, <2>2, MovesQueued DEF LinksInv, TypesInv, PluginMove, Queued
  <2>. QED BY <2>3, <2>4
<1>. QED BY <1>1 DEF Live

LEMMA LeftAloneByQueue ==
  ASSUME LinksInv, NEW h \in {0, 1}, NEW D, NEW N, PluginMove(h, D, N), NEW p \in Paths,
         h = 1 => ~(events[1].type \in {"PropertyChanged", "CallAdded", "CallRemoved"}
                      /\ events[1].path = p),
         Live(p)' = Live(p),
         \A o \in Live(p) : objects'[p][o] = objects[p][o],
         m_calls'[p] = m_calls[p], m_send_call_state'[p] = m_send_call_state[p]
  PROVE  LeftAlone(p)
<1>. DEFINE H == Voice(p)
<1>1. /\ H \cap D = {} /\ H \cap N = {} /\ Dropped \notin H
      /\ h = 1 => events[1] \notin H
  <2>1. \A x \in H : x.type = "PropertyChanged" /\ x.path = p /\ x.object \in Live(p)
    BY DEF Voice
  <2>2. Dropped \notin H /\ H \cap N = {}
    BY <2>1, Fields DEF PluginMove, Goings
  <2>3. ASSUME NEW x \in H, x \in D PROVE FALSE
    <3>1. PICK u \in Paths, n \in Nat : h = 1 /\ D = OfObject(u, n) /\ events[1] = ObjectGoes(u, n)
      BY <2>1, <2>3 DEF PluginMove, OfManager
    <3>2. u = p /\ n \in Live(p)
      BY <2>1, <2>3, <3>1 DEF OfObject
    <3>3. ObjectGoes(u, n) \in Queued
      BY <3>1, HeadServed DEF PluginMove, LinksInv
    <3>. QED BY <3>2, <3>3 DEF Live
  <2>. QED BY <2>1, <2>2, <2>3
<1>. HIDE DEF H
<1>2. /\ Last(events', H) \subseteq Last(events, H)
      /\ H \cap Range(events') = {} => H \cap Range(events) = {}
  <2>1. h = 1 => events # <<>>
    BY DEF PluginMove, Serving
  <2>2. events \in Seq(Message) /\ events' \in Seq(Message) /\ Moves(events, events', h, D, N)
    BY DEF PluginMove, LinksInv, TypesInv
  <2>3. h = 0 \/ events[1] \notin H
    BY <1>1
  <2>. QED BY <1>1, <2>1, <2>2, <2>3, MovesLast
<1>3. /\ Last(events', Voice(p)) \subseteq Last(events, Voice(p))
      /\ (\A x \in Queued' : x \notin Voice(p)) => (\A x \in Queued : x \notin Voice(p))
  BY <1>2 DEF Queued, H
<1>. QED BY <1>3, KeptByQueue DEF LeftAlone, Kept

LEMMA CallGot ==
  ASSUME LinksInv, OrderInv, Up, onCallAdded,
         NEW p \in Paths, NEW s, NEW m, Serving, events[1] = Added(p, s, m),
         objects' = [objects EXCEPT ![p] = WithCall(p, s)],
         m_calls' = [m_calls EXCEPT ![p] = NewCall(p)],
         onCallStateChanged(p, s)
  PROVE  Gets(p)
<1>1. TypesInv /\ InOrder /\ AddedInv
  BY DEF LinksInv, OrderInv
<1>2. events[1] \in Queued /\ events[1] \in Message
  BY <1>1, HeadServed
<1>3. events[1].type = "CallAdded" /\ events[1].path = p /\ events[1].state = s
  BY Fields
<1>4. s = call[p] /\ s \in CallStates
  BY <1>1, <1>2, <1>3, Kinds DEF AddedInv, CallStates
<1>5. ~Awaited("PropertyChanged", p) /\ ~Awaited("CallRemoved", p)
  BY <1>1, <1>3, HeadOrBehind DEF Awaited, Bad
<1>6. Awaited("CallAdded", p)
  BY <1>2, <1>3 DEF Awaited
<1>7. /\ objects'[p] = WithCall(p, s) /\ m_calls'[p] = NewCall(p)
      /\ m_send_call_state'[p] = Told(m_send_call_state[p], s)
  BY <1>1 DEF TypesInv, onCallStateChanged
<1>. QED BY <1>4, <1>5, <1>6, <1>7 DEF Gets

LEMMA CallsGot ==
  ASSUME LinksInv, OrderInv, Up, CallsFetched, NEW p \in Paths
  PROVE  \/ answer[p] # "none" /\ Gets(p)
         \/ /\ answer[p] = "none"
            /\ objects'[p] = objects[p] /\ m_calls'[p] = m_calls[p]
            /\ m_send_call_state'[p] = m_send_call_state[p]
<1>1. TypesInv /\ Still /\ AnswerInv /\ pc = "answered"
  BY DEF LinksInv, OrderInv, CallsFetched
<1>2. CASE answer[p] # "none"
  <2>1. answer[p] = call[p] /\ call[p] \in CallStates
    BY <1>1, <1>2 DEF AnswerInv, TypesInv
  <2>2. ~Awaited("PropertyChanged", p) /\ ~Awaited("CallRemoved", p) /\ Asking
    BY <1>1 DEF Still, Asking, Awaited
  <2>3. /\ objects'[p] = WithCall(p, answer[p]) /\ m_calls'[p] = NewCall(p)
        /\ m_send_call_state'[p] = Told(m_send_call_state[p], answer[p])
    BY <1>2 DEF CallsFetched
  <2>. QED BY <1>2, <2>1, <2>2, <2>3 DEF Gets
<1>3. CASE answer[p] = "none"
  BY <1>3 DEF CallsFetched
<1>. QED BY <1>2, <1>3

(* The step of the plugin, as each path sees it.                           *)
LEMMA Touched ==
  ASSUME LinksInv, OrderInv, Up, PluginNext, Up', NEW p \in Paths,
         NEW h \in {0, 1}, NEW D, NEW N, PluginMove(h, D, N)
  PROVE  \/ LeftAlone(p)
         \/ Gets(p) /\ (onCallAdded \/ CallsFetched)
         \/ Forgets(p) /\ onCallRemoved
         \/ \E o \in Nat, s \in States : Hears(p, o, s)
<1>1. TypesInv /\ ObjectsInv /\ InOrder
  BY DEF LinksInv, OrderInv
<1>2. ASSUME h = 1 => ~(events[1].type \in {"PropertyChanged", "CallAdded", "CallRemoved", "DeferredDelete"}
                          /\ events[1].path = p),
             objects'[p] = objects[p], m_calls'[p] = m_calls[p],
             m_send_call_state'[p] = m_send_call_state[p]
      PROVE  LeftAlone(p)
  BY <1>2, LiveByQueue, LeftAloneByQueue
<1>3. CASE GetModems \/ GetCallsAnswered \/ ConnectModems \/ onModemAdded \/ onModemRemoved
             \/ ManagerDeleted \/ DroppedEvent
  <2>1. UNCHANGED <<objects, m_calls, m_send_call_state>>
    BY <1>3 DEF GetModems, GetCallsAnswered, ConnectModems, onModemAdded,
       onModemRemoved, ManagerDeleted, DroppedEvent
  <2>2. h = 1 => events[1].type \notin {"PropertyChanged", "CallAdded", "CallRemoved", "DeferredDelete"}
    <3>1. CASE GetModems \/ GetCallsAnswered \/ ConnectModems
      BY <3>1 DEF GetModems, GetCallsAnswered, ConnectModems, PluginMove, Serving
    <3>2. CASE onModemAdded \/ onModemRemoved \/ ManagerDeleted \/ DroppedEvent
      BY <1>1, <3>2, onModemAddedMoves, onModemRemovedMoves, ManagerDeletedMoves, DroppedEventMoves, Fields
    <3>. QED BY <1>3, <3>1, <3>2
  <2>. QED BY <1>2, <2>1, <2>2
<1>4. CASE CallsFetched
  <2>1. h = 0
    BY <1>4 DEF CallsFetched, PluginMove, Serving
  <2>. QED BY <1>2, <1>4, <2>1, CallsGot
<1>5. CASE onCallAdded
  <2>1. PICK u \in Paths, s \in FirstStates, m \in Nat :
          /\ Serving /\ events[1] = Added(u, s, m)
          /\ objects' = [objects EXCEPT ![u] = WithCall(u, s)]
          /\ m_calls' = [m_calls EXCEPT ![u] = NewCall(u)]
          /\ onCallStateChanged(u, s)
    BY <1>1, <1>5, onCallAddedMoves
  <2>2. CASE u = p
    BY <1>5, <2>1, <2>2, CallGot
  <2>3. CASE u # p
    <3>1. objects'[p] = objects[p] /\ m_calls'[p] = m_calls[p] /\ m_send_call_state'[p] = m_send_call_state[p]
      BY <1>1, <2>1, <2>3 DEF TypesInv, onCallStateChanged
    <3>2. events[1].path # p
      BY <2>1, <2>3, Fields
    <3>. QED BY <1>2, <3>1, <3>2
  <2>. QED BY <2>2, <2>3
<1>6. CASE onCallRemoved
  <2>1. PICK u \in Paths, m \in Nat :
          /\ Serving /\ events[1] = Removed(u, m)
          /\ m_calls' = [m_calls EXCEPT ![u] = 0]
    BY <1>1, <1>6, onCallRemovedMoves
  <2>2. UNCHANGED <<objects, m_send_call_state>> /\ events[1].path = u /\ events[1].type = "CallRemoved"
    BY <1>6, <2>1, Fields DEF onCallRemoved
  <2>3. CASE u = p
    <3>1. events[1] \in Queued
      BY <1>1, <2>1, HeadServed
    <3>2. Awaited("CallRemoved", p)
      BY <2>2, <2>3, <3>1 DEF Awaited
    <3>3. ~Awaited("PropertyChanged", p)
      BY <1>1, <2>1, <2>2, <2>3, HeadOrBehind DEF Awaited, Bad
    <3>4. ASSUME NEW x \in Queued, x.type = "CallAdded" PROVE x \in Queued'
      <4>1. x # events[1]
        BY <2>2, <3>4
      <4>2. h = 1 => x \notin D
        BY <2>2, Fields DEF PluginMove
      <4>. QED BY <1>1, <4>1, <4>2, PluginKeeps
    <3>. QED BY <1>1, <1>6, <2>1, <2>2, <2>3, <3>2, <3>3, <3>4 DEF Forgets, TypesInv
  <2>4. CASE u # p
    <3>1. m_calls'[p] = m_calls[p]
      BY <1>1, <2>1, <2>4 DEF TypesInv
    <3>. QED BY <1>2, <2>2, <2>4, <3>1
  <2>. QED BY <2>3, <2>4
<1>7. CASE onPropertiesChanged
  <2>1. PICK u \in Paths, o \in Nat, s \in States :
          /\ Serving /\ events[1] = Word(u, o, s)
          /\ Moves(events, events', 1, {}, {})
          /\ objects' = [objects EXCEPT ![u][o] = s]
          /\ onCallStateChanged(u, s)
    BY <1>1, <1>7, onPropertiesChangedMoves
  <2>2. UNCHANGED m_calls /\ events[1].path = u /\ events[1].type = "PropertyChanged" /\ events[1].object = o
        /\ events[1] \in Queued
    BY <1>1, <1>7, <2>1, Fields, HeadServed DEF onPropertiesChanged
  <2>3. CASE u = p
    <3>1. o \in DOMAIN objects[p]
      BY <1>1, <2>1, <2>2, <2>3 DEF ObjectsInv
    <3>2. ObjectGoes(p, o) \notin Queued
      <4>1. ObjectGoes(p, o) # events[1] /\ Bad(events[1], ObjectGoes(p, o))
        BY <2>2, <2>3, Fields DEF Bad
      <4>. QED BY <1>1, <2>1, <4>1, HeadOrBehind
    <3>3. DOMAIN objects'[p] = DOMAIN objects[p]
      BY <1>1, <2>1, <2>3 DEF TypesInv
    <3>4. Kept(p)
      <4>1. Live(p)' = Live(p)
        BY <2>2, <3>3, LiveByQueue
      <4>. QED BY <2>2, <4>1, KeptByQueue DEF Kept
    <3>5. /\ objects'[p][o] = s /\ \A i \in Live(p) \ {o} : objects'[p][i] = objects[p][i]
          /\ m_send_call_state'[p] = Told(m_send_call_state[p], s)
      BY <1>1, <2>1, <2>3, <3>1 DEF TypesInv, Live, onCallStateChanged
    <3>. QED BY <2>1, <2>3, <3>1, <3>2, <3>4, <3>5 DEF Hears, Live
  <2>4. CASE u # p
    <3>1. objects'[p] = objects[p] /\ m_calls'[p] = m_calls[p] /\ m_send_call_state'[p] = m_send_call_state[p]
      BY <1>1, <2>1, <2>2, <2>4 DEF TypesInv, onCallStateChanged
    <3>. QED BY <1>2, <2>2, <2>4, <3>1
  <2>. QED BY <2>3, <2>4
<1>8. CASE DeferredDelete
  <2>1. PICK u \in Paths, n \in Nat :
          /\ Serving /\ events[1] = ObjectGoes(u, n)
          /\ objects' = [objects EXCEPT ![u] = [i \in DOMAIN objects[u] \ {n} |-> objects[u][i]]]
          /\ events' \in Seq(Message) /\ Moves(events, events', 1, OfObject(u, n), {})
    BY <1>1, <1>8, DeferredDeleteMoves
  <2>2. UNCHANGED <<m_calls, m_send_call_state>>
    BY <1>8 DEF DeferredDelete
  <2>3. events[1].path = u /\ events[1].type = "DeferredDelete" /\ events[1] \in Queued
    BY <1>1, <2>1, Fields, HeadServed
  <2>4. CASE u = p
    <3>1. objects'[p] = [i \in DOMAIN objects[p] \ {n} |-> objects[p][i]]
      BY <1>1, <2>1, <2>4 DEF TypesInv
    <3>2. n \notin Live(p)
      BY <2>1, <2>3, <2>4 DEF Live
    <3>3. \A o \in Live(p) : objects'[p][o] = objects[p][o]
      BY <3>1, <3>2 DEF Live
    <3>4. ASSUME NEW o, o # n
          PROVE  ObjectGoes(p, o) \in Queued <=> ObjectGoes(p, o) \in Queued'
      <4>1. /\ ObjectGoes(p, o) # events[1] /\ ObjectGoes(p, o) \notin OfObject(u, n)
            /\ ObjectGoes(p, o) # Dropped
        BY <2>1, <3>4, Fields DEF OfObject
      <4>. DEFINE x == ObjectGoes(p, o)
                  D1 == OfObject(u, n)
      <4>2. x # events[1] /\ x \notin D1 /\ x # Dropped /\ Moves(events, events', 1, D1, {})
        BY <2>1, <4>1
      <4>. HIDE DEF x, D1
      <4>3. x \in Range(events) <=> x \in Range(events')
        BY <1>1, <2>1, <4>2, MovesQueued DEF TypesInv
      <4>. QED BY <4>3 DEF x, Queued
    <3>5. Live(p)' = Live(p)
      BY <3>1, <3>2, <3>4 DEF Live
    <3>. QED BY <2>2, <2>3, <3>3, <3>5, LeftAloneByQueue
  <2>5. CASE u # p
    <3>1. objects'[p] = objects[p]
      BY <1>1, <2>1, <2>5 DEF TypesInv
    <3>. QED BY <1>2, <2>2, <2>3, <2>5, <3>1
  <2>. QED BY <2>4, <2>5
<1>9. CASE UNCHANGED telephonyVars
  BY <1>9 DEF telephonyVars, LeftAlone, Kept, Live, Queued
<1>. QED BY <1>3, <1>4, <1>5, <1>6, <1>7, <1>8, <1>9 DEF PluginNext

-----------------------------------------------------------------------------
(* How a tale goes on.                                                     *)

LEMMA TaleWeakened ==
  ASSUME NEW q, NEW H, NEW m, NEW M, NEW X, Tale(q, H, m, M, X), NEW M2, M \subseteq M2
  PROVE  Tale(q, H, m, M2, X)
BY DEF Tale

LEMMA LeftAloneTale ==
  ASSUME NEW p, LeftAlone(p), NEW M, NEW X, Tale(events, Voice(p), m_send_call_state[p], M, X)
  PROVE  Tale(events', Voice(p)', m_send_call_state'[p], M, X)
<1>1. Voice(p)' = Voice(p)
  BY DEF LeftAlone, Kept, Voice
<1>. QED BY <1>1 DEF LeftAlone, Tale, Queued

LEMMA HearsTale ==
  ASSUME TypesInv, events' \in Seq(Message), NEW p \in Paths, NEW o \in Nat, NEW s \in States,
         Hears(p, o, s),
         NEW M, NEW X, Tale(events, Voice(p), m_send_call_state[p], M, X),
         NEW M2, \A x \in X : Told(m_send_call_state[p], x) \in M2
  PROVE  Tale(events', Voice(p)', m_send_call_state'[p], M2, X)
<1>. DEFINE H == Voice(p)
<1>1. Voice(p)' = H
  BY DEF Hears, Kept, Voice
<1>2. H \cap {} = {} /\ Dropped \notin H
  BY Fields DEF Voice
<1>3. events[1] \in H /\ events[1].state = s
  BY Messages, Fields DEF Hears, Voice
<1>. HIDE DEF H
<1>4. /\ Last(events', H) \subseteq Last(events, H)
      /\ H \cap Range(events') = {} => events[1] \in Last(events, H)
  BY <1>2, <1>3, MovesLast DEF Hears, Serving, TypesInv
<1>5. \A x \in Last(events, H) : x.state \in X
  BY DEF Tale, H
<1>6. ASSUME \A x \in Range(events') : x \notin H PROVE m_send_call_state'[p] \in M2
  BY <1>3, <1>4, <1>5, <1>6 DEF Hears
<1>7. Tale(events', H, m_send_call_state'[p], M2, X)
  BY <1>4, <1>5, <1>6 DEF Tale
<1>. QED BY <1>1, <1>7

LEMMA SilentTale ==
  ASSUME NEW p, ~Awaited("PropertyChanged", p), NEW m, NEW M, NEW X
  PROVE  m \in M <=> Tale(events, Voice(p), m, M, X)
<1>1. \A x \in Range(events) : x \notin Voice(p)
  BY DEF Awaited, Voice, Queued
<1>2. Last(events, Voice(p)) = {}
  BY <1>1 DEF Last, Range
<1>. QED BY <1>1, <1>2 DEF Tale

LEMMA SilentTaleNext ==
  ASSUME NEW p, ~Awaited("PropertyChanged", p)', NEW m, NEW M, m \in M, NEW X
  PROVE  Tale(events', Voice(p)', m, M, X)
<1>1. \A x \in Range(events') : x \notin Voice(p)'
  BY DEF Awaited, Voice, Queued
<1>2. Last(events', Voice(p)') = {}
  BY <1>1 DEF Last, Range
<1>. QED BY <1>1, <1>2 DEF Tale

LEMMA EndTold == \A m : Told(m, "disconnected") = "none"
BY DEF Told

(* What Told makes of the State of a call.                                 *)
LEMMA StateTold ==
  ASSUME NEW s \in CallStates, NEW m \in {"none", "ringing", "talking"}
  PROVE  /\ m \in {"none", Event(s)} => Told(m, s) \in {"none", Event(s)}
         /\ Told(m, s) \in Agree(s)
         /\ s \in {"waiting", "dialing"} => Told(m, s) = m
         /\ Event(s) \in {"none", Told(m, s)}
         /\ s # "disconnected"
BY DEF CallStates, FirstStates, Told, Event, Agree

-----------------------------------------------------------------------------
(* The tales are kept by the plugin.                                       *)

(* The settings of a step of the plugin.                                   *)
PluginStep(h, D, N) ==
  /\ LinksInv /\ OrderInv /\ TaleInv /\ Up
  /\ PluginNext /\ UNCHANGED ofonoVars /\ PluginMove(h, D, N)
  /\ LinksInv' /\ OrderInv' /\ Up'

LEMMA PluginFacts ==
  ASSUME NEW h \in {0, 1}, NEW D, NEW N, PluginStep(h, D, N)
  PROVE  /\ TypesInv /\ ObjectsInv /\ ManagersInv /\ TypesInv' /\ ObjectsInv'
         /\ Control /\ Still /\ InOrder /\ AddedInv /\ RemovedInv /\ AnswerInv /\ Control'
         /\ OverInv /\ UnseenInv /\ SettledInv /\ RingingInv /\ KnownInv /\ LastWordInv /\ OnlyCallInv
         /\ UNCHANGED <<modem, call>>
         /\ \A p \in Paths : \/ LeftAlone(p)
                             \/ Gets(p) /\ (onCallAdded \/ CallsFetched)
                             \/ Forgets(p) /\ onCallRemoved
                             \/ \E o \in Nat, s \in States : Hears(p, o, s)
         /\ \A x \in Queued' : x.type \in Signals => x \in Queued
<1>1. /\ TypesInv /\ ObjectsInv /\ ManagersInv /\ TypesInv' /\ ObjectsInv'
      /\ Control /\ Still /\ InOrder /\ AddedInv /\ RemovedInv /\ AnswerInv /\ Control'
      /\ OverInv /\ UnseenInv /\ SettledInv /\ RingingInv /\ KnownInv /\ LastWordInv /\ OnlyCallInv
      /\ UNCHANGED <<modem, call>>
  BY DEF PluginStep, LinksInv, OrderInv, TaleInv, ofonoVars
<1>2. ASSUME NEW p \in Paths
      PROVE  \/ LeftAlone(p)
             \/ Gets(p) /\ (onCallAdded \/ CallsFetched)
             \/ Forgets(p) /\ onCallRemoved
             \/ \E o \in Nat, s \in States : Hears(p, o, s)
  BY Touched DEF PluginStep
<1>3. \A x \in Queued' : x.type \in Signals => x \in Queued
  BY <1>1, PluginKeeps DEF PluginStep
<1>. QED BY <1>1, <1>2, <1>3

(* What is in the queue of a path that gets a call or forgets one.         *)
LEMMA SilentNext ==
  ASSUME NEW h \in {0, 1}, NEW D, NEW N, PluginStep(h, D, N), NEW p \in Paths, Gets(p) \/ Forgets(p)
  PROVE  ~Awaited("PropertyChanged", p) /\ ~Awaited("PropertyChanged", p)'
<1>1. ~Awaited("PropertyChanged", p)
  BY DEF Gets, Forgets
<1>. QED BY <1>1, PluginFacts DEF Signals, Awaited

LEMMA OverByPlugin ==
  ASSUME NEW h \in {0, 1}, NEW D, NEW N, PluginStep(h, D, N)
  PROVE  OverInv'
<1>. DEFINE M == {"none"}
            X == {"disconnected"}
<1>1. SUFFICES ASSUME NEW p \in Paths,
                      call[p] \in {"none", "waiting", "dialing"} \/ Awaited("CallRemoved", p)' \/ Live(p)' = {}
               PROVE  Tale(events', Voice(p)', m_send_call_state'[p], M, X)
  BY PluginFacts DEF OverInv
<1>2. Awaited("CallRemoved", p)' => Awaited("CallRemoved", p)
  BY PluginFacts DEF Signals, Awaited
<1>3. ASSUME Live(p)' = Live(p)
      PROVE  Tale(events, Voice(p), m_send_call_state[p], M, X)
  BY <1>1, <1>2, <1>3, PluginFacts DEF OverInv
<1>4. CASE LeftAlone(p)
  <2>1. Tale(events, Voice(p), m_send_call_state[p], M, X)
    BY <1>3, <1>4 DEF LeftAlone, Kept
  <2>. HIDE DEF M, X
  <2>. QED BY <1>4, <2>1, LeftAloneTale
<1>5. ASSUME NEW o \in Nat, NEW s \in States, Hears(p, o, s)
      PROVE  Tale(events', Voice(p)', m_send_call_state'[p], M, X)
  <2>1. Tale(events, Voice(p), m_send_call_state[p], M, X)
    BY <1>3, <1>5 DEF Hears, Kept
  <2>2. \A x \in X : Told(m_send_call_state[p], x) \in M
    BY EndTold
  <2>3. TypesInv /\ events' \in Seq(Message)
    BY PluginFacts DEF TypesInv
  <2>. HIDE DEF M, X
  <2>. QED BY <1>5, <2>1, <2>2, <2>3, HearsTale
<1>6. CASE Gets(p)
  <2>1. call[p] \in {"none", "waiting", "dialing"}
    <3>1. ~Awaited("CallRemoved", p)'
      BY <1>2, <1>6 DEF Gets
    <3>2. m_calls'[p] # 0
      BY <1>6, WithCallTyped, PluginFacts DEF Gets, States
    <3>3. Live(p)' # {}
      BY <3>2, PluginFacts DEF ObjectsInv
    <3>. QED BY <1>1, <3>1, <3>3
  <2>2. Tale(events, Voice(p), m_send_call_state[p], M, X)
    BY <2>1, PluginFacts DEF OverInv
  <2>3. m_send_call_state[p] \in M
    BY <1>6, <2>2, SilentTale DEF Gets
  <2>4. call[p] \in {"waiting", "dialing"} /\ call[p] \in CallStates
    BY <1>6, <2>1 DEF Gets, CallStates, FirstStates
  <2>5. m_send_call_state'[p] \in M
    BY <1>6, <2>3, <2>4, StateTold DEF Gets
  <2>. QED BY <1>6, <2>5, SilentNext, SilentTaleNext
<1>7. CASE Forgets(p)
  <2>1. Tale(events, Voice(p), m_send_call_state[p], M, X)
    BY <1>7, PluginFacts DEF OverInv, Forgets
  <2>2. m_send_call_state'[p] \in M
    BY <1>7, <2>1, SilentTale DEF Forgets
  <2>. QED BY <1>7, <2>2, SilentNext, SilentTaleNext
<1>. QED BY <1>4, <1>5, <1>6, <1>7, PluginFacts

LEMMA UnseenByPlugin ==
  ASSUME NEW h \in {0, 1}, NEW D, NEW N, PluginStep(h, D, N)
  PROVE  UnseenInv'
<1>1. SUFFICES ASSUME NEW p \in Paths, (Asking \/ ModemAdded \in Queued \/ Awaited("CallAdded", p))'
               PROVE  Tale(events', Voice(p)', m_send_call_state'[p], {"none", Event(call[p])}, {"disconnected"})
  BY PluginFacts DEF UnseenInv
<1>. DEFINE M == {"none", Event(call[p])}
            X == {"disconnected"}
<1>2. /\ ModemAdded \in Queued' => ModemAdded \in Queued
      /\ Awaited("CallAdded", p)' => Awaited("CallAdded", p)
  BY PluginFacts, Fields DEF Signals, Awaited
<1>3. Asking' => Asking \/ pc = "GetModems" \/ ModemAdded \in Queued
  <2>1. CASE onModemAdded
    <3>1. Serving /\ events[1] = ModemAdded
      BY <2>1, onModemAddedMoves, PluginFacts
    <3>. QED BY <3>1, HeadServed, PluginFacts
  <2>2. CASE ~onModemAdded
    BY <2>2 DEF PluginStep, PluginNext, GetModems, GetCallsAnswered, CallsFetched, ConnectModems,
       onModemRemoved, ManagerDeleted, onCallAdded, onCallRemoved, onPropertiesChanged, DeferredDelete,
       DroppedEvent, telephonyVars, Asking
  <2>. QED BY <2>1, <2>2
<1>4. Tale(events, Voice(p), m_send_call_state[p], M, X)
  <2>1. CASE pc = "GetModems"
    <3>1. Live(p) = {}
      BY <2>1, PluginFacts DEF Control, Unmanaged, Live
    <3>2. Tale(events, Voice(p), m_send_call_state[p], {"none"}, X)
      BY <3>1, PluginFacts DEF OverInv
    <3>. QED BY <3>2, TaleWeakened
  <2>2. CASE pc # "GetModems"
    BY <1>1, <1>2, <1>3, <2>2, PluginFacts DEF UnseenInv
  <2>. QED BY <2>1, <2>2
<1>5. CASE LeftAlone(p)
  <2>. HIDE DEF M, X
  <2>1. Tale(events', Voice(p)', m_send_call_state'[p], M, X)
    BY <1>4, <1>5, LeftAloneTale
  <2>. QED BY <2>1 DEF M, X
<1>6. ASSUME NEW o \in Nat, NEW s \in States, Hears(p, o, s)
      PROVE  Tale(events', Voice(p)', m_send_call_state'[p], M, X)
  <2>2. \A x \in X : Told(m_send_call_state[p], x) \in M
    BY EndTold
  <2>3. TypesInv /\ events' \in Seq(Message)
    BY PluginFacts DEF TypesInv
  <2>. HIDE DEF M, X
  <2>. QED BY <1>4, <1>6, <2>2, <2>3, HearsTale
<1>7. CASE Gets(p)
  <2>1. m_send_call_state[p] \in M
    BY <1>4, <1>7, SilentTale DEF Gets
  <2>2. call[p] \in CallStates /\ m_send_call_state[p] \in {"none", "ringing", "talking"}
    BY <1>7, PluginFacts DEF Gets, TypesInv
  <2>3. m_send_call_state'[p] \in M
    BY <1>7, <2>1, <2>2, StateTold DEF Gets
  <2>. HIDE DEF M, X
  <2>4. Tale(events', Voice(p)', m_send_call_state'[p], M, X)
    BY <1>7, <2>3, SilentNext, SilentTaleNext
  <2>. QED BY <2>4 DEF M, X
<1>8. CASE Forgets(p)
  <2>1. m_send_call_state'[p] \in M
    BY <1>4, <1>8, SilentTale DEF Forgets
  <2>. HIDE DEF M, X
  <2>2. Tale(events', Voice(p)', m_send_call_state'[p], M, X)
    BY <1>8, <2>1, SilentNext, SilentTaleNext
  <2>. QED BY <2>2 DEF M, X
<1>. QED BY <1>5, <1>6, <1>7, <1>8, PluginFacts

LEMMA SettledByPlugin ==
  ASSUME NEW h \in {0, 1}, NEW D, NEW N, PluginStep(h, D, N)
  PROVE  SettledInv'
<1>. DEFINE mm == m_voice_call_manager'
<1>1. SUFFICES ASSUME Settled', NEW p \in Paths, call[p] # "none"
               PROVE  \/ Added(p, call[p], mm) \in Queued'
                      \/ /\ ~Awaited("CallRemoved", p)' /\ m_calls'[p] # 0
                         /\ Tale(events', Voice(p)', m_send_call_state'[p], Agree(call[p]), {call[p]})
  BY PluginFacts DEF SettledInv
<1>. DEFINE M == Agree(call[p])
            X == {call[p]}
            Goal == /\ ~Awaited("CallRemoved", p)' /\ m_calls'[p] # 0
                    /\ Tale(events', Voice(p)', m_send_call_state'[p], M, X)
<1>2. call[p] \in CallStates /\ m_send_call_state[p] \in {"none", "ringing", "talking"}
  BY <1>1, PluginFacts DEF TypesInv
<1>3. Awaited("CallRemoved", p)' => Awaited("CallRemoved", p)
  BY PluginFacts DEF Signals, Awaited
<1>4. ASSUME Gets(p) PROVE Goal
  <2>1. m_calls'[p] # 0
    BY <1>4, WithCallTyped, PluginFacts DEF Gets, States
  <2>2. m_send_call_state'[p] \in M
    BY <1>2, <1>4, StateTold DEF Gets
  <2>. HIDE DEF M, X
  <2>. QED BY <1>3, <1>4, <2>1, <2>2, SilentNext, SilentTaleNext DEF Gets
<1>5. CASE CallsFetched
  <2>1. CASE answer[p] # "none"
    <3>1. Gets(p)
      BY <1>5, <2>1, CallsGot DEF PluginStep
    <3>. QED BY <1>4, <3>1
  <2>2. CASE answer[p] = "none"
    <3>1. pc = "answered" /\ UNCHANGED <<events, m_voice_call_manager, refused>>
      BY <1>5 DEF CallsFetched, managerVars
    <3>2. Added(p, call[p], m_voice_call_manager) \in Queued
      BY <1>1, <2>2, <3>1, PluginFacts DEF AnswerInv, Settled
    <3>. QED BY <3>1, <3>2 DEF Queued
  <2>. QED BY <2>1, <2>2
<1>6. CASE ~CallsFetched
  <2>1. UNCHANGED <<m_voice_call_manager, refused>> /\ pc \in {"connect", "running"}
    BY <1>1, <1>6, PluginFacts DEF PluginStep, PluginNext, GetModems, onModemAdded, GetCallsAnswered, ConnectModems,
       onModemRemoved, ManagerDeleted, onCallAdded, onCallRemoved, onPropertiesChanged, DeferredDelete,
       DroppedEvent, telephonyVars, managerVars, Settled, Control
  <2>2. ModemAdded \notin Queued /\ ModemRemoved \notin Queued
    <3>1. ASSUME h = 1, events[1] \in {ModemAdded, ModemRemoved} PROVE FALSE
      <4>1. Head(events).type = events[1].type /\ Serving
        BY <3>1, HeadServed, PluginFacts DEF PluginStep, PluginMove
      <4>2. events[1].type \in {"ModemAdded", "ModemRemoved"}
        BY <3>1, Fields
      <4>3. ~GetModems /\ ~GetCallsAnswered /\ ~ConnectModems
        BY <4>1 DEF Serving, GetModems, GetCallsAnswered, ConnectModems
      <4>4. ~onModemAdded /\ ~onModemRemoved
        BY <1>1, <2>1 DEF onModemAdded, onModemRemoved, Settled
      <4>5. UNCHANGED telephonyVars
        BY <1>6, <4>1, <4>2, <4>3, <4>4 DEF PluginStep, PluginNext, ManagerDeleted, onCallAdded,
           onCallRemoved, onPropertiesChanged, DeferredDelete, DroppedEvent
      <4>6. events' = events /\ events[1] \in Queued
        BY <4>1, <4>5, HeadServed, PluginFacts DEF telephonyVars
      <4>. QED BY <1>1, <3>1, <4>6 DEF Settled, Queued
    <3>2. \A x \in {ModemAdded, ModemRemoved} : x \in Queued => x \in Queued'
      <4>1. \A x \in {ModemAdded, ModemRemoved} : x \notin D
        BY Fields DEF PluginStep, PluginMove, OfManager, OfObject
      <4>. QED BY <3>1, <4>1, PluginKeeps, PluginFacts DEF PluginStep
    <3>. QED BY <1>1, <3>2 DEF Settled
  <2>3. Settled
    BY <1>1, <2>1, <2>2 DEF Settled
  <2>4. \/ Added(p, call[p], m_voice_call_manager) \in Queued
        \/ /\ ~Awaited("CallRemoved", p) /\ m_calls[p] # 0
           /\ Tale(events, Voice(p), m_send_call_state[p], M, X)
    BY <1>1, <2>3, PluginFacts DEF SettledInv
  <2>5. CASE LeftAlone(p)
    <3>1. CASE Added(p, call[p], m_voice_call_manager) \in Queued
      BY <2>1, <2>5, <3>1 DEF LeftAlone, Kept
    <3>2. CASE Added(p, call[p], m_voice_call_manager) \notin Queued
      <4>. HIDE DEF M, X
      <4>1. Tale(events', Voice(p)', m_send_call_state'[p], M, X)
        BY <2>4, <2>5, <3>2, LeftAloneTale
      <4>. QED BY <1>3, <2>4, <2>5, <3>2, <4>1 DEF LeftAlone, Kept, M, X
    <3>. QED BY <3>1, <3>2
  <2>6. ASSUME NEW o \in Nat, NEW s \in States, Hears(p, o, s)
        PROVE  Added(p, call[p], mm) \in Queued' \/ Goal
    <3>1. CASE Added(p, call[p], m_voice_call_manager) \in Queued
      BY <2>1, <2>6, <3>1 DEF Hears, Kept
    <3>2. CASE Added(p, call[p], m_voice_call_manager) \notin Queued
      <4>1. \A x \in X : Told(m_send_call_state[p], x) \in M
        BY <1>2, StateTold
      <4>2. TypesInv /\ events' \in Seq(Message)
        BY PluginFacts DEF TypesInv
      <4>. HIDE DEF M, X
      <4>3. Tale(events', Voice(p)', m_send_call_state'[p], M, X)
        BY <2>4, <2>6, <3>2, <4>1, <4>2, HearsTale
      <4>. QED BY <1>3, <2>4, <2>6, <3>2, <4>3 DEF Hears, Kept
    <3>. QED BY <3>1, <3>2
  <2>7. CASE Forgets(p)
    <3>1. Added(p, call[p], m_voice_call_manager) \in Queued
      BY <2>4, <2>7 DEF Forgets
    <3>. QED BY <2>1, <2>7, <3>1, Fields DEF Forgets
  <2>. QED BY <1>4, <2>5, <2>6, <2>7, PluginFacts
<1>. QED BY <1>5, <1>6

LEMMA BeforeByPlugin ==
  ASSUME NEW h \in {0, 1}, NEW D, NEW N, PluginStep(h, D, N),
         NEW x \in Queued', x.type = "PropertyChanged", NEW y, y.type = "PropertyChanged",
         Before(events', x, y)
  PROVE  Before(events, x, y)
BY PluginFacts, PluginKeeps DEF PluginStep, Signals

(* What is left when a path hears a word stands behind that word.          *)
LEMMA HeardBefore ==
  ASSUME NEW h \in {0, 1}, NEW D, NEW N, PluginStep(h, D, N),
         NEW p \in Paths, NEW o \in Nat, NEW s \in States, Hears(p, o, s),
         NEW x \in Queued', x.type = "PropertyChanged"
  PROVE  Before(events, Word(p, o, s), x)
<1>1. events \in Seq(Message) /\ events' \in Seq(Message)
  BY PluginFacts DEF TypesInv
<1>2. x # Dropped
  BY Fields
<1>. QED BY <1>1, <1>2, MovesQueued DEF Hears, Queued

LEMMA RingingByPlugin ==
  ASSUME NEW h \in {0, 1}, NEW D, NEW N, PluginStep(h, D, N)
  PROVE  RingingInv'
<1>1. SUFFICES ASSUME NEW p \in Paths, NEW x \in Queued', x \in Voice(p)', x.state = "incoming"
               PROVE  /\ m_send_call_state'[p] # "talking"
                      /\ \A y \in Queued' : y \in Voice(p)' /\ Before(events', y, x) => y.state = "incoming"
  BY DEF RingingInv
<1>2. /\ x.type = "PropertyChanged" /\ x.path = p /\ x \in Queued
  BY <1>1, PluginFacts DEF Voice, Signals
<1>3. ~Gets(p) /\ ~Forgets(p)
  BY <1>1, <1>2, SilentNext DEF Awaited
<1>4. ASSUME Live(p)' = Live(p)
      PROVE  /\ m_send_call_state[p] # "talking"
             /\ \A y \in Queued : y \in Voice(p) /\ Before(events, y, x) => y.state = "incoming"
  BY <1>1, <1>2, <1>4, PluginFacts DEF RingingInv, Voice
<1>5. ASSUME Live(p)' = Live(p), NEW y \in Queued', y \in Voice(p)', Before(events', y, x)
      PROVE  y.state = "incoming"
  <2>1. y.type = "PropertyChanged" /\ y \in Queued /\ y \in Voice(p)
    BY <1>5, PluginFacts DEF Voice, Signals
  <2>2. Before(events, y, x)
    BY <1>2, <1>5, <2>1, BeforeByPlugin
  <2>. QED BY <1>4, <1>5, <2>1, <2>2
<1>6. CASE LeftAlone(p)
  BY <1>4, <1>5, <1>6 DEF LeftAlone, Kept
<1>7. ASSUME NEW o \in Nat, NEW s \in States, Hears(p, o, s)
      PROVE  /\ m_send_call_state'[p] # "talking"
             /\ \A y \in Queued' : y \in Voice(p)' /\ Before(events', y, x) => y.state = "incoming"
  <2>1. Live(p)' = Live(p)
    BY <1>7 DEF Hears, Kept
  <2>2. Before(events, Word(p, o, s), x)
    BY <1>2, <1>7, HeardBefore
  <2>3. Word(p, o, s) \in Queued /\ Word(p, o, s) \in Voice(p) /\ Word(p, o, s).state = s
    BY <1>7, HeadServed, Messages, Fields, PluginFacts DEF Hears, Voice
  <2>4. s = "incoming"
    BY <1>4, <2>1, <2>2, <2>3
  <2>5. m_send_call_state'[p] # "talking"
    BY <1>7, <2>4 DEF Hears, Told, Event
  <2>. QED BY <1>5, <2>1, <2>5
<1>. QED BY <1>3, <1>6, <1>7, PluginFacts

LEMMA KnownByPlugin ==
  ASSUME NEW h \in {0, 1}, NEW D, NEW N, PluginStep(h, D, N)
  PROVE  KnownInv'
<1>1. SUFFICES ASSUME NEW p \in Paths, m_calls'[p] # 0, Removed(p, m_voice_call_manager') \notin Queued'
               PROVE  /\ call[p] # "none"
                      /\ objects'[p][m_calls'[p]] # "disconnected"
                      /\ Word(p, m_calls'[p], "disconnected") \notin Queued'
  BY PluginFacts DEF KnownInv
<1>2. ASSUME Kept(p)
      PROVE  /\ call[p] # "none"
             /\ objects[p][m_calls[p]] # "disconnected"
             /\ Word(p, m_calls[p], "disconnected") \notin Queued
             /\ m_calls[p] \in Live(p) /\ m_calls'[p] = m_calls[p]
  <2>1. m_calls'[p] = m_calls[p] /\ m_calls[p] \in Live(p)
    BY <1>1, <1>2, PluginFacts DEF Kept, ObjectsInv
  <2>2. Removed(p, m_voice_call_manager) \notin Queued
    <3>1. CASE UNCHANGED m_voice_call_manager
      BY <1>1, <1>2, <3>1 DEF Kept
    <3>2. CASE pc = "GetModems"
      BY <2>1, <3>2, PluginFacts DEF Control, Unmanaged, Live
    <3>3. CASE h = 1 /\ events[1] \in {ModemAdded, ModemRemoved}
      BY <3>3, HeadOrBehind, PluginFacts, Fields DEF PluginStep, PluginMove, Bad
    <3>. QED BY <3>1, <3>2, <3>3 DEF PluginStep, PluginMove
  <2>. QED BY <1>1, <2>1, <2>2, PluginFacts DEF KnownInv
<1>3. \A o : Word(p, o, "disconnected") \in Queued' => Word(p, o, "disconnected") \in Queued
  BY PluginFacts, Fields DEF Signals
<1>4. CASE LeftAlone(p)
  BY <1>2, <1>3, <1>4 DEF LeftAlone
<1>5. ASSUME NEW o \in Nat, NEW s \in States, Hears(p, o, s)
      PROVE  /\ call[p] # "none"
             /\ objects'[p][m_calls'[p]] # "disconnected"
             /\ Word(p, m_calls'[p], "disconnected") \notin Queued'
  <2>1. Word(p, o, s) \in Queued
    BY <1>5, HeadServed, PluginFacts DEF Hears
  <2>2. o = m_calls[p] => s # "disconnected"
    BY <1>2, <1>5, <2>1 DEF Hears
  <2>. QED BY <1>2, <1>3, <1>5, <2>2 DEF Hears
<1>6. CASE Gets(p)
  <2>1. call[p] \in CallStates
    BY <1>6 DEF Gets
  <2>2. objects'[p][m_calls'[p]] = call[p]
    <3>1. TypesInv /\ call[p] \in States
      BY <2>1, PluginFacts DEF States
    <3>2. WithCall(p, call[p])[NewCall(p)] = call[p]
      BY <3>1, WithCallTyped
    <3>. QED BY <1>6, <3>2 DEF Gets
  <2>3. Word(p, m_calls'[p], "disconnected") \notin Queued
    BY <1>6, Fields DEF Gets, Awaited
  <2>. QED BY <1>3, <2>1, <2>2, <2>3 DEF CallStates, FirstStates
<1>7. ~Forgets(p)
  BY <1>1 DEF Forgets
<1>. QED BY <1>4, <1>5, <1>6, <1>7, PluginFacts

LEMMA LastWordByPlugin ==
  ASSUME NEW h \in {0, 1}, NEW D, NEW N, PluginStep(h, D, N)
  PROVE  LastWordInv'
<1>1. SUFFICES ASSUME NEW p \in Paths, NEW r \in States, m_calls'[p] # 0,
                      Word(p, m_calls'[p], r) \in Queued'
               PROVE  /\ objects'[p][m_calls'[p]] # "disconnected"
                      /\ ~Before(events', Word(p, m_calls'[p], "disconnected"), Word(p, m_calls'[p], r))
  BY DEF LastWordInv
<1>2. /\ \A i, t : Word(p, i, t).type = "PropertyChanged" /\ Word(p, i, t).path = p
      /\ \A i, t : Word(p, i, t) \in Queued' => Word(p, i, t) \in Queued
  BY PluginFacts, Fields DEF Signals
<1>3. ~Gets(p) /\ ~Forgets(p)
  BY <1>1, <1>2, SilentNext DEF Awaited
<1>4. ASSUME Kept(p)
      PROVE  /\ objects[p][m_calls[p]] # "disconnected"
             /\ ~Before(events, Word(p, m_calls[p], "disconnected"), Word(p, m_calls[p], r))
             /\ m_calls[p] \in Live(p) /\ m_calls'[p] = m_calls[p]
  BY <1>1, <1>2, <1>4, PluginFacts DEF Kept, ObjectsInv, LastWordInv
<1>5. ASSUME Kept(p)
      PROVE  ~Before(events', Word(p, m_calls'[p], "disconnected"), Word(p, m_calls'[p], r))
  <2>1. SUFFICES ASSUME Before(events', Word(p, m_calls'[p], "disconnected"), Word(p, m_calls'[p], r))
                 PROVE FALSE
    OBVIOUS
  <2>2. Word(p, m_calls'[p], "disconnected") \in Queued'
    BY <2>1 DEF Before, Queued, Range
  <2>3. Before(events, Word(p, m_calls'[p], "disconnected"), Word(p, m_calls'[p], r))
    BY <1>2, <2>1, <2>2, BeforeByPlugin
  <2>. QED BY <1>4, <1>5, <2>3
<1>6. CASE LeftAlone(p)
  BY <1>4, <1>5, <1>6 DEF LeftAlone
<1>7. ASSUME NEW o \in Nat, NEW s \in States, Hears(p, o, s)
      PROVE  /\ objects'[p][m_calls'[p]] # "disconnected"
             /\ ~Before(events', Word(p, m_calls'[p], "disconnected"), Word(p, m_calls'[p], r))
  <2>1. Kept(p)
    BY <1>7 DEF Hears
  <2>2. Before(events, Word(p, o, s), Word(p, m_calls'[p], r))
    BY <1>1, <1>2, <1>7, HeardBefore
  <2>3. o = m_calls[p] => s # "disconnected"
    BY <1>4, <2>1, <2>2
  <2>. QED BY <1>4, <1>5, <1>7, <2>1, <2>3 DEF Hears
<1>. QED BY <1>3, <1>6, <1>7, PluginFacts

LEMMA OnlyCallByPlugin ==
  ASSUME NEW h \in {0, 1}, NEW D, NEW N, PluginStep(h, D, N)
  PROVE  OnlyCallInv'
<1>1. SUFFICES ASSUME NEW p \in Paths, m_calls'[p] # 0, Live(p)' = {m_calls'[p]}
               PROVE  Event(objects'[p][m_calls'[p]]) \in {"none", m_send_call_state'[p]}
  BY DEF OnlyCallInv
<1>2. CASE LeftAlone(p)
  BY <1>1, <1>2, PluginFacts DEF LeftAlone, Kept, OnlyCallInv
<1>3. ASSUME NEW o \in Nat, NEW s \in States, Hears(p, o, s)
      PROVE  Event(objects'[p][m_calls'[p]]) \in {"none", m_send_call_state'[p]}
  <2>1. o = m_calls'[p]
    BY <1>1, <1>3 DEF Hears, Kept
  <2>2. Event(s) \in {"none", Told(m_send_call_state[p], s)}
    BY DEF Event, Told
  <2>. QED BY <1>3, <2>1, <2>2 DEF Hears
<1>4. CASE Gets(p)
  <2>1. call[p] \in CallStates /\ m_send_call_state[p] \in {"none", "ringing", "talking"}
    BY <1>4, PluginFacts DEF Gets, TypesInv
  <2>2. objects'[p][m_calls'[p]] = call[p]
    <3>1. TypesInv /\ call[p] \in States
      BY <2>1, PluginFacts DEF States
    <3>2. WithCall(p, call[p])[NewCall(p)] = call[p]
      BY <3>1, WithCallTyped
    <3>. QED BY <1>4, <3>2 DEF Gets
  <2>. QED BY <1>4, <2>1, <2>2, StateTold DEF Gets
<1>5. ~Forgets(p)
  BY <1>1 DEF Forgets
<1>. QED BY <1>2, <1>3, <1>4, <1>5, PluginFacts

-----------------------------------------------------------------------------
(* The tales are kept by oFono.                                            *)

LEMMA OfonoLive ==
  ASSUME TypesInv, UNCHANGED objects, events' \in Seq(Message), NEW N, Moves(events, events', 0, {}, N),
         \A x \in N : x.type \in Signals, NEW p
  PROVE  Live(p)' = Live(p) /\ Voice(p)' = Voice(p)
<1>1. \A o : ObjectGoes(p, o) # Dropped /\ ObjectGoes(p, o) \notin N
  BY Fields DEF Signals
<1>2. \A o : ObjectGoes(p, o) \in Queued <=> ObjectGoes(p, o) \in Queued'
  BY <1>1, OfonoPosts
<1>. QED BY <1>2 DEF Live, Voice

(* What is not about p leaves its tale as it is; what is said to p becomes *)
(* its end.                                                                *)
LEMMA OfonoTale ==
  ASSUME TypesInv, UNCHANGED objects, events' \in Seq(Message), NEW N, Moves(events, events', 0, {}, N),
         \A x \in N : x.type \in Signals, NEW p, NEW m, NEW M, NEW X
  PROVE  /\ (\A x \in N : x \notin Voice(p)) /\ Tale(events, Voice(p), m, M, X) =>
              Tale(events', Voice(p)', m, M, X)
         /\ (\E x \in N : x \in Voice(p)) /\ (\A x \in N : x \in Voice(p) => x.state \in X) =>
              Tale(events', Voice(p)', m, M, X)
<1>. DEFINE H == Voice(p)
<1>1. Voice(p)' = H
  BY OfonoLive
<1>2. Dropped \notin H /\ H \cap {} = {}
  BY Fields DEF Voice
<1>. HIDE DEF H
<1>3. ASSUME \A x \in N : x \notin H, Tale(events, H, m, M, X) PROVE Tale(events', H, m, M, X)
  <2>1. /\ Last(events', H) \subseteq Last(events, H)
        /\ H \cap Range(events') = {} => H \cap Range(events) = {}
    <3>1. H \cap N = {} /\ events \in Seq(Message) /\ ~(0 = 1)
      BY <1>3 DEF TypesInv
    <3>2. 0 \in {0, 1} /\ (0 = 1 => events # <<>>)
      BY <3>1
    <3>. QED BY <1>2, <3>1, <3>2, MovesLast
  <2>. QED BY <1>3, <2>1 DEF Tale
<1>4. ASSUME NEW y \in N, y \in H, \A x \in N : x \in H => x.state \in X PROVE Tale(events', H, m, M, X)
  <2>1. Last(events', H) \subseteq N \cap H /\ H \cap Range(events') # {}
    <3>1. H \cap N # {}
      BY <1>4
    <3>. QED BY <1>2, <3>1, MovesNewLast DEF TypesInv
  <2>. QED BY <1>4, <2>1 DEF Tale
<1>. QED BY <1>1, <1>3, <1>4 DEF H

(* A step of oFono that says nothing to a TelephonyCall.                   *)
LEMMA Unspoken ==
  ASSUME TypesInv, RingingInv, LastWordInv, OnlyCallInv,
         UNCHANGED <<objects, m_calls, m_send_call_state>>,
         events' \in Seq(Message), NEW N, Moves(events, events', 0, {}, N),
         \A x \in N : x.type \in {"ModemAdded", "ModemRemoved", "CallAdded"}
  PROVE  /\ RingingInv' /\ LastWordInv' /\ OnlyCallInv'
         /\ \A p : Live(p)' = Live(p)
         /\ \A p, M, X : Tale(events, Voice(p), m_send_call_state[p], M, X) =>
              Tale(events', Voice(p)', m_send_call_state[p], M, X)
<1>1. \A x \in N : x.type \in Signals /\ x.type # "PropertyChanged"
  BY DEF Signals
<1>2. \A p : Live(p)' = Live(p) /\ Voice(p)' = Voice(p)
  BY <1>1, OfonoLive
<1>3. \A x : x.type = "PropertyChanged" => x \notin N /\ x # Dropped
  BY <1>1, Fields
<1>4. /\ \A x \in Queued' : x.type = "PropertyChanged" => x \in Queued
      /\ \A x, y : x.type = "PropertyChanged" /\ y.type = "PropertyChanged" /\ Before(events', x, y) =>
           Before(events, x, y)
  BY <1>3, OfonoPosts
<1>5. \A p : \A x \in Voice(p) : x.type = "PropertyChanged"
  BY DEF Voice
<1>6. RingingInv'
  <2>1. SUFFICES ASSUME NEW p \in Paths, NEW x \in Queued', x \in Voice(p), x.state = "incoming"
                 PROVE  /\ m_send_call_state[p] # "talking"
                        /\ \A y \in Queued' : y \in Voice(p) /\ Before(events', y, x) => y.state = "incoming"
    BY <1>2 DEF RingingInv
  <2>. QED BY <1>4, <1>5, <2>1 DEF RingingInv
<1>7. LastWordInv'
  <2>1. \A p, o, s : Word(p, o, s).type = "PropertyChanged"
    BY Fields
  <2>. QED BY <1>4, <2>1 DEF LastWordInv
<1>8. OnlyCallInv'
  BY <1>2 DEF OnlyCallInv
<1>9. ASSUME NEW p, NEW M, NEW X, Tale(events, Voice(p), m_send_call_state[p], M, X)
      PROVE  Tale(events', Voice(p)', m_send_call_state[p], M, X)
  BY <1>1, <1>5, <1>9, OfonoTale
<1>. QED BY <1>2, <1>6, <1>7, <1>8, <1>9

LEMMA CallComesTales ==
  ASSUME LinksInv, OrderInv, TaleInv, Polite, Up, NEW p \in Paths, NEW s \in FirstStates, CallComes(p, s)
  PROVE  TaleInv'
<1>. DEFINE N == AddedToAll(p, s)
            m(q) == m_send_call_state[q]
<1>1. /\ TypesInv /\ OverInv /\ UnseenInv /\ SettledInv /\ RingingInv /\ KnownInv /\ LastWordInv /\ OnlyCallInv
      /\ call[p] = "none" /\ call' = [call EXCEPT ![p] = s]
      /\ UNCHANGED <<modem, pc, starting, answer, refused, managers, m_voice_call_manager, objects,
                     m_calls, m_send_call_state>>
  BY DEF CallComes, LinksInv, TaleInv, pluginVars, managerVars
<1>2. events' \in Seq(Message) /\ Moves(events, events', 0, {}, N)
  BY <1>1, CallComesMoves
<1>3. \A x \in N : x.type = "CallAdded" /\ x.path = p
  BY Fields DEF AddedToAll
<1>4. \A x \in managers : Added(p, s, x) \in N
  BY DEF AddedToAll
<1>5. call'[p] = s /\ \A q \in Paths : q # p => call'[q] = call[q]
  BY <1>1 DEF TypesInv
<1>. HIDE DEF N
<1>6. /\ RingingInv' /\ LastWordInv' /\ OnlyCallInv'
      /\ \A q : Live(q)' = Live(q)
      /\ \A q, M, X : Tale(events, Voice(q), m(q), M, X) => Tale(events', Voice(q)', m(q), M, X)
  BY <1>1, <1>2, <1>3, Unspoken
<1>7. /\ \A x \in Queued' : x # Dropped => x \in Queued \cup N
      /\ Queued \subseteq Queued' /\ N \subseteq Queued'
  BY <1>1, <1>2, OfonoPosts
<1>8. /\ \A q : Awaited("CallRemoved", q)' <=> Awaited("CallRemoved", q)
      /\ \A q : q # p => (Awaited("CallAdded", q)' <=> Awaited("CallAdded", q))
      /\ ModemAdded \in Queued' <=> ModemAdded \in Queued
      /\ ModemRemoved \in Queued' <=> ModemRemoved \in Queued
      /\ \A q, o, r : Word(q, o, r) \in Queued' => Word(q, o, r) \in Queued
  BY <1>3, <1>7, Fields DEF Awaited
<1>9. Tale(events, Voice(p), m(p), {"none"}, {"disconnected"})
  BY <1>1 DEF OverInv
<1>10. OverInv'
  <2>1. SUFFICES ASSUME NEW q \in Paths,
                        call'[q] \in {"none", "waiting", "dialing"} \/ Awaited("CallRemoved", q)' \/ Live(q)' = {}
                 PROVE  Tale(events', Voice(q)', m(q), {"none"}, {"disconnected"})
    BY <1>1 DEF OverInv
  <2>2. Tale(events, Voice(q), m(q), {"none"}, {"disconnected"})
    BY <1>1, <1>5, <1>6, <1>8, <1>9, <2>1 DEF OverInv
  <2>. QED BY <1>6, <2>2
<1>11. UnseenInv'
  <2>1. SUFFICES ASSUME NEW q \in Paths, Asking \/ ModemAdded \in Queued' \/ Awaited("CallAdded", q)'
                 PROVE  Tale(events', Voice(q)', m(q), {"none", Event(call'[q])}, {"disconnected"})
    BY <1>1 DEF UnseenInv, Asking
  <2>. DEFINE M == {"none", Event(call'[q])}
              X == {"disconnected"}
  <2>2. Tale(events, Voice(q), m(q), M, X)
    <3>1. CASE q = p
      BY <1>9, <3>1, TaleWeakened
    <3>2. CASE q # p
      BY <1>1, <1>5, <1>8, <2>1, <3>2 DEF UnseenInv
    <3>. QED BY <3>1, <3>2
  <2>. HIDE DEF M, X
  <2>3. Tale(events', Voice(q)', m(q), M, X)
    BY <1>6, <2>2
  <2>. QED BY <2>3 DEF M, X
<1>12. SettledInv'
  <2>1. SUFFICES ASSUME Settled, NEW q \in Paths, call'[q] # "none"
                 PROVE  \/ Added(q, call'[q], m_voice_call_manager) \in Queued'
                        \/ /\ ~Awaited("CallRemoved", q)' /\ m_calls[q] # 0
                           /\ Tale(events', Voice(q)', m(q), Agree(call'[q]), {call'[q]})
    BY <1>1, <1>8 DEF SettledInv, Settled
  <2>2. CASE q = p
    <3>1. m_voice_call_manager \in managers
      BY <1>1, <2>1 DEF Settled, TypesInv
    <3>. QED BY <1>4, <1>5, <1>7, <2>2, <3>1
  <2>3. CASE q # p
    <3>. DEFINE M == Agree(call[q])
                X == {call[q]}
    <3>1. \/ Added(q, call[q], m_voice_call_manager) \in Queued
          \/ ~Awaited("CallRemoved", q) /\ m_calls[q] # 0 /\ Tale(events, Voice(q), m(q), M, X)
      BY <1>1, <1>5, <2>1, <2>3 DEF SettledInv
    <3>. HIDE DEF M, X
    <3>2. \/ Added(q, call[q], m_voice_call_manager) \in Queued'
          \/ ~Awaited("CallRemoved", q)' /\ m_calls[q] # 0 /\ Tale(events', Voice(q)', m(q), M, X)
      BY <1>6, <1>7, <1>8, <3>1
    <3>. QED BY <1>5, <2>3, <3>2 DEF M, X
  <2>. QED BY <2>2, <2>3
<1>13. KnownInv'
  <2>1. SUFFICES ASSUME NEW q \in Paths, m_calls[q] # 0, Removed(q, m_voice_call_manager) \notin Queued'
                 PROVE  /\ call'[q] # "none"
                        /\ objects[q][m_calls[q]] # "disconnected"
                        /\ Word(q, m_calls[q], "disconnected") \notin Queued'
    BY <1>1 DEF KnownInv
  <2>. QED BY <1>1, <1>5, <1>7, <1>8, <2>1 DEF KnownInv
<1>. QED BY <1>6, <1>10, <1>11, <1>12, <1>13 DEF TaleInv

LEMMA ModemTales ==
  ASSUME LinksInv, OrderInv, TaleInv, Polite, Up, ModemComes \/ ModemGoes
  PROVE  TaleInv'
<1>. DEFINE m(q) == m_send_call_state[q]
<1>1. /\ TypesInv /\ OverInv /\ UnseenInv /\ SettledInv /\ RingingInv /\ KnownInv /\ LastWordInv /\ OnlyCallInv
      /\ Control
      /\ UNCHANGED <<pc, starting, answer, refused, managers, m_voice_call_manager, objects,
                     m_calls, m_send_call_state>>
  BY DEF ModemComes, ModemGoes, LinksInv, OrderInv, TaleInv, pluginVars, managerVars
<1>2. UNCHANGED call /\ (~modem => call = NoCalls)
  BY <1>1 DEF ModemComes, ModemGoes, Polite, pluginVars, Control
<1>3. PICK N \in {{}, {IF modem THEN ModemRemoved ELSE ModemAdded}} :
        events' \in Seq(Message) /\ Moves(events, events', 0, {}, N)
  BY <1>1, ModemSignalsMove
<1>4. /\ \A x \in N : x.type \in {"ModemAdded", "ModemRemoved"}
      /\ ModemAdded \in N => ~modem
  BY <1>3, Fields
<1>6. /\ RingingInv' /\ LastWordInv' /\ OnlyCallInv'
      /\ \A q : Live(q)' = Live(q)
      /\ \A q, M, X : Tale(events, Voice(q), m(q), M, X) => Tale(events', Voice(q)', m(q), M, X)
  BY <1>1, <1>3, <1>4, Unspoken
<1>7. /\ \A x \in Queued' : x # Dropped => x \in Queued \cup N
      /\ Queued \subseteq Queued' /\ N \subseteq Queued'
  BY <1>1, <1>3, OfonoPosts
<1>8. /\ \A q : Awaited("CallRemoved", q)' <=> Awaited("CallRemoved", q)
      /\ \A q : Awaited("CallAdded", q)' <=> Awaited("CallAdded", q)
      /\ ModemAdded \in Queued' => ModemAdded \in Queued \/ ~modem
      /\ \A q, o, r : Word(q, o, r) \in Queued' => Word(q, o, r) \in Queued
  BY <1>4, <1>7, Fields DEF Awaited
<1>10. OverInv'
  <2>1. SUFFICES ASSUME NEW q \in Paths,
                        call[q] \in {"none", "waiting", "dialing"} \/ Awaited("CallRemoved", q)' \/ Live(q)' = {}
                 PROVE  Tale(events', Voice(q)', m(q), {"none"}, {"disconnected"})
    BY <1>1, <1>2 DEF OverInv
  <2>2. Tale(events, Voice(q), m(q), {"none"}, {"disconnected"})
    BY <1>1, <1>6, <1>8, <2>1 DEF OverInv
  <2>. QED BY <1>6, <2>2
<1>11. UnseenInv'
  <2>1. SUFFICES ASSUME NEW q \in Paths, Asking \/ ModemAdded \in Queued' \/ Awaited("CallAdded", q)'
                 PROVE  Tale(events', Voice(q)', m(q), {"none", Event(call[q])}, {"disconnected"})
    BY <1>1, <1>2 DEF UnseenInv, Asking
  <2>. DEFINE M == {"none", Event(call[q])}
              X == {"disconnected"}
  <2>2. Tale(events, Voice(q), m(q), M, X)
    <3>1. CASE modem
      BY <1>1, <1>8, <2>1, <3>1 DEF UnseenInv
    <3>2. CASE ~modem
      <4>1. call[q] = "none"
        BY <1>2, <3>2 DEF NoCalls
      <4>2. Tale(events, Voice(q), m(q), {"none"}, X)
        BY <1>1, <4>1 DEF OverInv
      <4>. QED BY <4>2, TaleWeakened
    <3>. QED BY <3>1, <3>2
  <2>. HIDE DEF M, X
  <2>3. Tale(events', Voice(q)', m(q), M, X)
    BY <1>6, <2>2
  <2>. QED BY <2>3 DEF M, X
<1>12. SettledInv'
  <2>1. SUFFICES ASSUME Settled, NEW q \in Paths, call[q] # "none"
                 PROVE  \/ Added(q, call[q], m_voice_call_manager) \in Queued'
                        \/ /\ ~Awaited("CallRemoved", q)' /\ m_calls[q] # 0
                           /\ Tale(events', Voice(q)', m(q), Agree(call[q]), {call[q]})
    BY <1>1, <1>2, <1>7 DEF SettledInv, Settled
  <2>. DEFINE M == Agree(call[q])
              X == {call[q]}
  <2>2. \/ Added(q, call[q], m_voice_call_manager) \in Queued
        \/ ~Awaited("CallRemoved", q) /\ m_calls[q] # 0 /\ Tale(events, Voice(q), m(q), M, X)
    BY <1>1, <2>1 DEF SettledInv
  <2>. HIDE DEF M, X
  <2>3. \/ Added(q, call[q], m_voice_call_manager) \in Queued'
        \/ ~Awaited("CallRemoved", q)' /\ m_calls[q] # 0 /\ Tale(events', Voice(q)', m(q), M, X)
    BY <1>6, <1>7, <1>8, <2>2
  <2>. QED BY <2>3 DEF M, X
<1>13. KnownInv'
  <2>1. SUFFICES ASSUME NEW q \in Paths, m_calls[q] # 0, Removed(q, m_voice_call_manager) \notin Queued'
                 PROVE  /\ call[q] # "none"
                        /\ objects[q][m_calls[q]] # "disconnected"
                        /\ Word(q, m_calls[q], "disconnected") \notin Queued'
    BY <1>1, <1>2 DEF KnownInv
  <2>. QED BY <1>1, <1>7, <1>8, <2>1 DEF KnownInv
<1>. QED BY <1>6, <1>10, <1>11, <1>12, <1>13 DEF TaleInv

(* oFono says of a call that it is in State s now, or, at its end, that it *)
(* is removed too; call[p] becomes c.                                      *)
Speaks(p, s, c, R) ==
  /\ MayEmit(p) /\ call[p] # "none" /\ call' = [call EXCEPT ![p] = c]
  /\ UNCHANGED <<modem, pluginVars>>
  /\ events' \in Seq(Message) /\ Moves(events, events', 0, {}, Words(p, s) \cup R)
  /\ \/ /\ s = c /\ R = {} /\ c \in {"incoming", "alerting", "active", "held"}
        /\ c = "incoming" => call[p] = "waiting"
     \/ /\ s = "disconnected" /\ c = "none" /\ R = RemovedToAll(p)
        /\ \A x \in Words(p, s) : Before(events', x, x) => x \in Queued

LEMMA CallChangesSpeaks ==
  ASSUME TypesInv, NEW p \in Paths,
         NEW s \in {"incoming", "alerting", "active", "held"}, CallChanges(p, s)
  PROVE  Speaks(p, s, s, {})
<1>1. s \in States
  BY DEF States, CallStates, FirstStates
<1>2. events' \in Seq(Message) /\ Moves(events, events', 0, {}, Words(p, s) \cup {})
  <2>1. Words(p, s) \cup {} = Words(p, s)
    OBVIOUS
  <2>. QED BY <1>1, <2>1, CallChangesMoves
<1>3. s = "incoming" => call[p] = "waiting"
  <2>1. call[p] \in {"incoming", "waiting", "dialing", "alerting", "active", "held"} /\ s \in NextStates(call[p])
    BY DEF CallChanges, TypesInv, CallStates, FirstStates
  <2>. QED BY <2>1 DEF NextStates
<1>. QED BY <1>2, <1>3 DEF CallChanges, Speaks

LEMMA CallEndsSpeaks ==
  ASSUME TypesInv, NEW p \in Paths, CallEnds(p)
  PROVE  Speaks(p, "disconnected", "none", RemovedToAll(p))
BY CallEndsMoves DEF CallEnds, Speaks

(* What of it concerns whom.                                               *)
LEMMA SpokenFacts ==
  ASSUME LinksInv, OrderInv, TaleInv, Polite, Up, NEW p \in Paths, NEW s \in States, NEW c, NEW R,
         Speaks(p, s, c, R)
  PROVE  LET N == Words(p, s) \cup R IN
         /\ TypesInv /\ ObjectsInv /\ OutgoingInv
         /\ OverInv /\ UnseenInv /\ SettledInv /\ RingingInv /\ KnownInv /\ LastWordInv /\ OnlyCallInv
         /\ UNCHANGED <<modem, pc, starting, answer, refused, managers, m_voice_call_manager, objects,
                        m_calls, m_send_call_state>>
         /\ call'[p] = c /\ \A q \in Paths : q # p => call'[q] = call[q]
         /\ ~Asking /\ ModemAdded \notin Queued' /\ ~Awaited("CallAdded", p)'
         /\ ~Awaited("CallAdded", p) /\ ~Awaited("CallRemoved", p)
         /\ m_voice_call_manager # 0 \/ Unmanaged
         /\ \A x \in N : x.path = p /\ x.type \in {"PropertyChanged", "CallRemoved"}
         /\ \A x \in N : x.type = "PropertyChanged" => x.state = s
         /\ \A x \in N : x.type = "CallRemoved" => x \in R
         /\ \A x \in Queued' : x # Dropped => x \in Queued \cup N
         /\ Queued \subseteq Queued' /\ N \subseteq Queued'
         /\ \A x, y : x.type = "PropertyChanged" /\ y.type = "PropertyChanged" /\ Before(events', x, y) =>
              Before(events, x, y) \/ (y \in N /\ x \in Queued \cup N)
         /\ \A q : Live(q)' = Live(q) /\ Voice(q)' = Voice(q)
<1>. DEFINE N == Words(p, s) \cup R
<1>1. /\ TypesInv /\ ObjectsInv /\ OutgoingInv
      /\ OverInv /\ UnseenInv /\ SettledInv /\ RingingInv /\ KnownInv /\ LastWordInv /\ OnlyCallInv
  BY DEF LinksInv, OrderInv, TaleInv
<1>2. /\ MayEmit(p) /\ call[p] # "none" /\ call' = [call EXCEPT ![p] = c]
      /\ events' \in Seq(Message) /\ Moves(events, events', 0, {}, N)
      /\ UNCHANGED <<modem, pc, starting, answer, refused, managers, m_voice_call_manager, objects,
                     m_calls, m_send_call_state>>
      /\ R = {} \/ R = RemovedToAll(p)
  BY DEF Speaks, pluginVars, managerVars
<1>3. /\ ~Awaited("CallAdded", p) /\ ModemAdded \notin Queued /\ ~Awaited("CallRemoved", p)
      /\ ~Asking /\ (m_voice_call_manager # 0 \/ Unmanaged)
  BY <1>2, Heeded
<1>4. /\ \A x \in Words(p, s) : x.path = p /\ x.type = "PropertyChanged" /\ x.state = s
      /\ \A x \in R : x.path = p /\ x.type = "CallRemoved"
  BY <1>2, Fields DEF Words, RemovedToAll
<1>5. /\ \A x \in N : x.path = p /\ x.type \in {"PropertyChanged", "CallRemoved"}
      /\ \A x \in N : x.type = "PropertyChanged" => x.state = s
      /\ \A x \in N : x.type = "CallRemoved" => x \in R
      /\ \A x \in N : x.type \in Signals
  BY <1>4 DEF Signals
<1>. HIDE DEF N
<1>6. /\ \A x \in Queued' : x # Dropped => x \in Queued \cup N
      /\ Queued \subseteq Queued' /\ N \subseteq Queued'
      /\ \A x, y : x # Dropped /\ y # Dropped /\ Before(events', x, y) =>
           Before(events, x, y) \/ (y \in N /\ x \in Queued \cup N)
  BY <1>1, <1>2, OfonoPosts
<1>7. Dropped.type \notin {"ModemAdded", "CallAdded", "PropertyChanged"} /\ ModemAdded.type = "ModemAdded"
  BY Fields
<1>8. ModemAdded \notin Queued' /\ ~Awaited("CallAdded", p)'
  BY <1>3, <1>5, <1>6, <1>7 DEF Awaited
<1>9. \A q : Live(q)' = Live(q) /\ Voice(q)' = Voice(q)
  BY <1>1, <1>2, <1>5, OfonoLive
<1>10. call'[p] = c /\ \A q \in Paths : q # p => call'[q] = call[q]
  BY <1>1, <1>2 DEF TypesInv
<1>11. \A x, y : x.type = "PropertyChanged" /\ y.type = "PropertyChanged" /\ Before(events', x, y) =>
         Before(events, x, y) \/ (y \in N /\ x \in Queued \cup N)
  BY <1>6, <1>7
<1>. QED BY <1>1, <1>2, <1>3, <1>5, <1>6, <1>8, <1>9, <1>10, <1>11 DEF N

(* The tale of another call goes on as it is; this one's ends with s.      *)
LEMMA SpokenTale ==
  ASSUME LinksInv, OrderInv, TaleInv, Polite, Up, NEW p \in Paths, NEW s \in States, NEW c, NEW R,
         Speaks(p, s, c, R), NEW q \in Paths, NEW m, NEW M, NEW X
  PROVE  /\ q # p \/ Live(q) = {} => (Tale(events, Voice(q), m, M, X) => Tale(events', Voice(q)', m, M, X))
         /\ q = p /\ Live(q) # {} /\ s \in X => Tale(events', Voice(q)', m, M, X)
<1>. DEFINE N == Words(p, s) \cup R
<1>1. /\ TypesInv /\ UNCHANGED objects
      /\ \A x \in N : x.path = p /\ x.type \in {"PropertyChanged", "CallRemoved"}
      /\ \A x \in N : x.type = "PropertyChanged" => x.state = s
  BY SpokenFacts
<1>2. events' \in Seq(Message) /\ Moves(events, events', 0, {}, N)
  BY DEF Speaks
<1>3. \A x \in N : x.type \in Signals
  BY <1>1 DEF Signals
<1>4. \A o \in Live(p) : Word(p, o, s) \in N
  BY DEF Words, Live
<1>5. \A o \in Live(p) : Word(p, o, s) \in Voice(p)
  <2>1. ASSUME NEW o \in Live(p) PROVE Word(p, o, s) \in Message
    BY <1>1, Messages DEF Live, TypesInv
  <2>. QED BY <2>1, Fields DEF Voice
<1>. HIDE DEF N
<1>6. \A x \in Voice(q) : x.path = q /\ x.type = "PropertyChanged" /\ Live(q) # {}
  BY DEF Voice
<1>7. ASSUME q # p \/ Live(q) = {} PROVE \A x \in N : x \notin Voice(q)
  BY <1>1, <1>6, <1>7
<1>8. ASSUME q = p, Live(q) # {}
      PROVE  (\E x \in N : x \in Voice(q)) /\ (\A x \in N : x \in Voice(q) => x.state = s)
  BY <1>1, <1>4, <1>5, <1>6, <1>8
<1>. QED BY <1>1, <1>2, <1>3, <1>7, <1>8, OfonoTale

(* What is said of a call keeps all tales.                                 *)
LEMMA OverBySpeech ==
  ASSUME LinksInv, OrderInv, TaleInv, Polite, Up, NEW p \in Paths, NEW s \in States, NEW c, NEW R,
         Speaks(p, s, c, R)
  PROVE  OverInv' /\ UnseenInv'
<1>1. /\ OverInv /\ UnseenInv /\ UNCHANGED m_send_call_state
      /\ call'[p] = c /\ \A q \in Paths : q # p => call'[q] = call[q]
      /\ ~Asking /\ ModemAdded \notin Queued' /\ UNCHANGED pc
      /\ \A q : Live(q)' = Live(q)
      /\ ~Awaited("CallAdded", p)' /\ ~Awaited("CallRemoved", p)
  BY SpokenFacts
<1>2. /\ \A x \in Words(p, s) \cup R : x.path = p
      /\ \A x \in Words(p, s) \cup R : x.type = "CallRemoved" => x \in R
      /\ \A x \in Queued' : x # Dropped => x \in Queued \cup (Words(p, s) \cup R)
  BY SpokenFacts
<1>3. \A x \in Queued' : x.type \in {"CallAdded", "CallRemoved"} /\ x.path # p => x \in Queued
  BY <1>2, Fields
<1>4. \A x \in Queued' : x.type = "CallRemoved" /\ x.path = p => R # {}
  BY <1>1, <1>2, Fields DEF Awaited
<1>5. OverInv'
  <2>1. SUFFICES ASSUME NEW q \in Paths,
                        call'[q] \in {"none", "waiting", "dialing"} \/ Awaited("CallRemoved", q)' \/ Live(q) = {}
                 PROVE  Tale(events', Voice(q)', m_send_call_state[q], {"none"}, {"disconnected"})
    BY <1>1 DEF OverInv
  <2>2. CASE q # p \/ Live(q) = {}
    <3>1. Tale(events, Voice(q), m_send_call_state[q], {"none"}, {"disconnected"})
      BY <1>1, <1>3, <2>1, <2>2 DEF OverInv, Awaited
    <3>. QED BY <2>2, <3>1, SpokenTale
  <2>3. CASE q = p /\ Live(q) # {}
    <3>1. c \in {"none", "waiting", "dialing"} \/ R # {}
      BY <1>1, <1>4, <2>1, <2>3 DEF Awaited
    <3>2. s \in {"disconnected"}
      BY <3>1 DEF Speaks
    <3>. QED BY <2>3, <3>2, SpokenTale
  <2>. QED BY <2>2, <2>3
<1>6. UnseenInv'
  <2>1. SUFFICES ASSUME NEW q \in Paths, Asking' \/ ModemAdded \in Queued' \/ Awaited("CallAdded", q)'
                 PROVE  Tale(events', Voice(q)', m_send_call_state[q], {"none", Event(call'[q])}, {"disconnected"})
    BY <1>1 DEF UnseenInv
  <2>2. q # p /\ Awaited("CallAdded", q)
    BY <1>1, <1>3, <2>1 DEF Awaited, Asking
  <2>3. call'[q] = call[q] /\ Tale(events, Voice(q), m_send_call_state[q], {"none", Event(call[q])}, {"disconnected"})
    BY <1>1, <2>2 DEF UnseenInv
  <2>. DEFINE M == {"none", Event(call[q])}
              X == {"disconnected"}
  <2>4. Tale(events, Voice(q), m_send_call_state[q], M, X)
    BY <2>3
  <2>. HIDE DEF M, X
  <2>5. Tale(events', Voice(q)', m_send_call_state[q], M, X)
    BY <2>2, <2>4, SpokenTale
  <2>. QED BY <2>3, <2>5 DEF M, X
<1>. QED BY <1>5, <1>6

LEMMA SettledBySpeech ==
  ASSUME LinksInv, OrderInv, TaleInv, Polite, Up, NEW p \in Paths, NEW s \in States, NEW c, NEW R,
         Speaks(p, s, c, R)
  PROVE  SettledInv'
<1>1. /\ TypesInv /\ ObjectsInv /\ SettledInv
      /\ UNCHANGED <<pc, refused, m_voice_call_manager, m_calls, m_send_call_state>>
      /\ call'[p] = c /\ \A q \in Paths : q # p => call'[q] = call[q]
      /\ ~Awaited("CallAdded", p) /\ ~Awaited("CallRemoved", p)
  BY SpokenFacts
<1>2. /\ \A x \in Words(p, s) \cup R : x.path = p
      /\ \A x \in Words(p, s) \cup R : x.type = "CallRemoved" => x \in R
      /\ \A x \in Queued' : x # Dropped => x \in Queued \cup (Words(p, s) \cup R)
      /\ Queued \subseteq Queued'
  BY SpokenFacts
<1>3. \A x \in Queued' : x.type = "CallRemoved" /\ x.path # p => x \in Queued
  BY <1>2, Fields
<1>4. \A x \in Queued' : x.type = "CallRemoved" /\ x.path = p => R # {}
  BY <1>1, <1>2, Fields DEF Awaited
<1>5. SUFFICES ASSUME Settled, NEW q \in Paths, call'[q] # "none"
               PROVE  \/ Added(q, call'[q], m_voice_call_manager) \in Queued'
                      \/ /\ ~Awaited("CallRemoved", q)' /\ m_calls[q] # 0
                         /\ Tale(events', Voice(q)', m_send_call_state[q], Agree(call'[q]), {call'[q]})
  BY <1>1, <1>2 DEF SettledInv, Settled
<1>6. CASE q # p
  <2>. DEFINE M == Agree(call[q])
              X == {call[q]}
  <2>1. \/ Added(q, call[q], m_voice_call_manager) \in Queued
        \/ ~Awaited("CallRemoved", q) /\ m_calls[q] # 0 /\ Tale(events, Voice(q), m_send_call_state[q], M, X)
    BY <1>1, <1>5, <1>6 DEF SettledInv
  <2>2. ~Awaited("CallRemoved", q) => ~Awaited("CallRemoved", q)'
    BY <1>3, <1>6 DEF Awaited
  <2>. HIDE DEF M, X
  <2>3. Tale(events, Voice(q), m_send_call_state[q], M, X) => Tale(events', Voice(q)', m_send_call_state[q], M, X)
    BY <1>6, SpokenTale
  <2>4. \/ Added(q, call[q], m_voice_call_manager) \in Queued'
        \/ ~Awaited("CallRemoved", q)' /\ m_calls[q] # 0 /\ Tale(events', Voice(q)', m_send_call_state[q], M, X)
    BY <1>2, <2>1, <2>2, <2>3
  <2>. QED BY <1>1, <1>6, <2>4 DEF M, X
<1>7. CASE q = p
  <2>1. call[p] # "none" /\ s = c /\ R = {}
    BY <1>1, <1>5, <1>7 DEF Speaks
  <2>2. Added(p, call[p], m_voice_call_manager) \notin Queued
    BY <1>1, Fields DEF Awaited
  <2>3. m_calls[p] # 0 /\ Live(p) # {}
    BY <1>1, <1>5, <2>1, <2>2 DEF SettledInv, ObjectsInv
  <2>4. ~Awaited("CallRemoved", p)'
    BY <1>4, <2>1 DEF Awaited
  <2>. DEFINE M == Agree(c)
              X == {c}
  <2>5. s \in X
    BY <2>1
  <2>. HIDE DEF M, X
  <2>6. Tale(events', Voice(p)', m_send_call_state[p], M, X)
    BY <2>3, <2>5, SpokenTale
  <2>. QED BY <1>1, <1>7, <2>3, <2>4, <2>6 DEF M, X
<1>. QED BY <1>6, <1>7

LEMMA RingingBySpeech ==
  ASSUME LinksInv, OrderInv, TaleInv, Polite, Up, NEW p \in Paths, NEW s \in States, NEW c, NEW R,
         Speaks(p, s, c, R)
  PROVE  RingingInv' /\ OnlyCallInv'
<1>1. /\ OutgoingInv /\ OverInv /\ RingingInv /\ OnlyCallInv
      /\ UNCHANGED <<objects, m_calls, m_send_call_state>>
      /\ ~Awaited("CallAdded", p)
      /\ \A q : Live(q)' = Live(q) /\ Voice(q)' = Voice(q)
  BY SpokenFacts
<1>2. /\ \A x \in Words(p, s) \cup R : x.path = p
      /\ \A x \in Words(p, s) \cup R : x.type = "PropertyChanged" => x.state = s
      /\ \A x \in Queued' : x # Dropped => x \in Queued \cup (Words(p, s) \cup R)
  BY SpokenFacts
<1>3. \A x, y : x.type = "PropertyChanged" /\ y.type = "PropertyChanged" /\ Before(events', x, y) =>
        Before(events, x, y) \/ y \in Words(p, s) \cup R
  BY SpokenFacts
<1>4. \A x, y : Before(events, x, y) => x \in Queued /\ y \in Queued
  BY DEF Before, Queued, Range
<1>5. \A q : \A x \in Voice(q) : x.type = "PropertyChanged" /\ x.path = q /\ x # Dropped
  BY Fields DEF Voice
<1>6. OnlyCallInv'
  BY <1>1 DEF OnlyCallInv
<1>7. RingingInv'
  <2>1. SUFFICES ASSUME NEW q \in Paths, NEW x \in Queued', x \in Voice(q), x.state = "incoming"
                 PROVE  /\ m_send_call_state[q] # "talking"
                        /\ \A y \in Queued' : y \in Voice(q) /\ Before(events', y, x) => y.state = "incoming"
    BY <1>1 DEF RingingInv
  <2>2. CASE x \notin Words(p, s) \cup R
    BY <1>1, <1>2, <1>3, <1>4, <1>5, <2>1, <2>2 DEF RingingInv
  <2>3. CASE x \in Words(p, s) \cup R
    <3>1. q = p /\ s = "incoming"
      BY <1>2, <1>5, <2>1, <2>3
    <3>2. call[p] = "waiting"
      BY <3>1 DEF Speaks
    <3>3. ~Awaited("PropertyChanged", p)
      <4>1. \A y \in Queued : y.type = "PropertyChanged" /\ y.path = p =>
              Added(p, call[p], m_voice_call_manager) \in Queued
        BY <1>1, <3>2 DEF OutgoingInv
      <4>. QED BY <1>1, <4>1, Fields DEF Awaited
    <3>4. m_send_call_state[p] \in {"none"}
      <4>1. Tale(events, Voice(p), m_send_call_state[p], {"none"}, {"disconnected"})
        BY <1>1, <3>2 DEF OverInv
      <4>. QED BY <3>3, <4>1, SilentTale
    <3>5. \A y \in Queued' : y \in Voice(p) => y \in Words(p, s) \cup R
      BY <1>2, <1>5, <3>3 DEF Awaited
    <3>. QED BY <1>2, <1>5, <3>1, <3>4, <3>5
  <2>. QED BY <2>2, <2>3
<1>. QED BY <1>6, <1>7

LEMMA KnownBySpeech ==
  ASSUME LinksInv, OrderInv, TaleInv, Polite, Up, NEW p \in Paths, NEW s \in States, NEW c, NEW R,
         Speaks(p, s, c, R)
  PROVE  KnownInv' /\ LastWordInv'
<1>1. /\ TypesInv /\ ObjectsInv /\ KnownInv /\ LastWordInv
      /\ UNCHANGED <<objects, m_calls, m_voice_call_manager, managers>>
      /\ call'[p] = c /\ \A q \in Paths : q # p => call'[q] = call[q]
      /\ ~Awaited("CallRemoved", p) /\ (m_voice_call_manager # 0 \/ Unmanaged)
  BY SpokenFacts
<1>2. /\ \A x \in Words(p, s) \cup R : x.path = p
      /\ \A x \in Words(p, s) \cup R : x.type = "PropertyChanged" => x.state = s
      /\ \A x \in Queued' : x # Dropped => x \in Queued \cup (Words(p, s) \cup R)
      /\ Queued \subseteq Queued' /\ Words(p, s) \cup R \subseteq Queued'
  BY SpokenFacts
<1>3. \A x, y : x.type = "PropertyChanged" /\ y.type = "PropertyChanged" /\ Before(events', x, y) =>
        Before(events, x, y) \/ (y \in Words(p, s) \cup R /\ x \in Queued \cup (Words(p, s) \cup R))
  BY SpokenFacts
<1>4. \A x, y : Before(events, x, y) => x \in Queued /\ y \in Queued
  BY DEF Before, Queued, Range
<1>5. \A q, o, r : /\ Word(q, o, r).type = "PropertyChanged" /\ Word(q, o, r).path = q
                   /\ Word(q, o, r).state = r /\ Word(q, o, r) # Dropped
  BY Fields
<1>6. m_calls[p] # 0 =>
        /\ objects[p][m_calls[p]] # "disconnected"
        /\ Word(p, m_calls[p], "disconnected") \notin Queued
  <2>1. Removed(p, m_voice_call_manager) \notin Queued
    BY <1>1, Fields DEF Awaited
  <2>. QED BY <1>1, <2>1 DEF KnownInv
<1>7. KnownInv'
  <2>1. SUFFICES ASSUME NEW q \in Paths, m_calls[q] # 0, Removed(q, m_voice_call_manager) \notin Queued'
                 PROVE  /\ call'[q] # "none"
                        /\ objects[q][m_calls[q]] # "disconnected"
                        /\ Word(q, m_calls[q], "disconnected") \notin Queued'
    BY <1>1 DEF KnownInv
  <2>2. CASE q # p
    BY <1>1, <1>2, <1>5, <2>1, <2>2 DEF KnownInv
  <2>3. CASE q = p
    <3>1. c # "none"
      <4>1. m_voice_call_manager \in managers
        BY <1>1, <2>1, <2>3 DEF ObjectsInv, Live, Unmanaged, TypesInv
      <4>2. c = "none" => Removed(p, m_voice_call_manager) \in R
        BY <4>1 DEF Speaks, RemovedToAll
      <4>. QED BY <1>2, <2>1, <2>3, <4>2
    <3>2. s # "disconnected"
      BY <3>1 DEF Speaks
    <3>. QED BY <1>1, <1>2, <1>5, <1>6, <2>1, <2>3, <3>1, <3>2
  <2>. QED BY <2>2, <2>3
<1>8. LastWordInv'
  <2>1. SUFFICES ASSUME NEW q \in Paths, NEW r \in States, m_calls[q] # 0,
                        Word(q, m_calls[q], r) \in Queued'
                 PROVE  /\ objects[q][m_calls[q]] # "disconnected"
                        /\ ~Before(events', Word(q, m_calls[q], "disconnected"), Word(q, m_calls[q], r))
    BY <1>1 DEF LastWordInv
  <2>2. CASE q # p
    BY <1>1, <1>2, <1>3, <1>5, <2>1, <2>2 DEF LastWordInv
  <2>3. CASE q = p
    <3>. DEFINE x == Word(p, m_calls[p], "disconnected")
                y == Word(p, m_calls[p], r)
    <3>1. SUFFICES ASSUME Before(events', x, y) PROVE FALSE
      BY <1>6, <2>1, <2>3
    <3>2. x \notin Queued /\ y \in Words(p, s) \cup R /\ x \in Words(p, s) \cup R
      BY <1>3, <1>4, <1>5, <1>6, <2>1, <2>3, <3>1
    <3>3. s = "disconnected" /\ r = "disconnected"
      BY <1>2, <1>5, <3>2
    <3>4. x \in Words(p, s)
      BY <1>1, <2>1, <2>3, <3>3 DEF Words, ObjectsInv, Live
    <3>5. Before(events', x, x) => x \in Queued
      BY <3>3, <3>4 DEF Speaks
    <3>. QED BY <3>1, <3>2, <3>3, <3>5
  <2>. QED BY <2>2, <2>3
<1>. QED BY <1>7, <1>8

LEMMA SpokenTales ==
  ASSUME LinksInv, OrderInv, TaleInv, Polite, Up, NEW p \in Paths, NEW s \in States, NEW c, NEW R,
         Speaks(p, s, c, R)
  PROVE  TaleInv'
BY OverBySpeech, SettledBySpeech, RingingBySpeech, KnownBySpeech DEF TaleInv

-----------------------------------------------------------------------------
(* What the plugin tells, then.                                            *)
PhoneInv == LinksInv /\ OrderInv /\ TaleInv

LEMMA UpBefore == ASSUME [TelephonyNext]_telephonyVars, Up' PROVE Up
<1>1. SUFFICES ASSUME pc = "crashed" PROVE pc' = "crashed"
  BY DEF Up
<1>. QED BY <1>1 DEF TelephonyNext, CallComes, CallChanges, CallEnds, ModemComes, ModemGoes, GetModems, onModemAdded,
     GetCallsAnswered, CallsFetched, ConnectModems, onModemRemoved, ManagerDeleted, onCallAdded, onCallRemoved,
     onPropertiesChanged, DeferredDelete, DroppedEvent, telephonyVars, pluginVars

LEMMA PluginSteps ==
  ASSUME PhoneInv, Polite, PluginNext, Up', Up, [TelephonyNext]_telephonyVars
  PROVE  \E h \in {0, 1} : \E D, N : PluginStep(h, D, N)
<1>1. LinksInv' /\ OrderInv'
  BY LinksInductive, OrderInductive DEF PhoneInv
<1>2. UNCHANGED ofonoVars /\ \E h \in {0, 1} : \E D, N : PluginMove(h, D, N)
  BY PluginMoves DEF PhoneInv, LinksInv, Up
<1>3a. PICK h \in {0, 1} : \E D, N : PluginMove(h, D, N)
  BY <1>2
<1>3. PICK D, N : PluginMove(h, D, N)
  BY <1>3a
<1>4. PluginStep(h, D, N)
  BY <1>1, <1>2, <1>3 DEF PluginStep, PhoneInv
<1>. QED BY <1>4

LEMMA PhoneInductive ==
  ASSUME PhoneInv, Polite, [TelephonyNext]_telephonyVars
  PROVE  PhoneInv'
<1>1. LinksInv' /\ OrderInv' /\ LinksInv /\ OrderInv /\ TaleInv
  BY LinksInductive, OrderInductive DEF PhoneInv
<1>2. SUFFICES ASSUME Up' PROVE TaleInv'
  BY <1>1 DEF PhoneInv, TaleInv
<1>3. Up
  BY <1>2, UpBefore
<1>4. CASE PluginNext
  <2>1a. PICK h \in {0, 1} : \E D, N : PluginStep(h, D, N)
    BY <1>2, <1>3, <1>4, PluginSteps
  <2>1. PICK D, N : PluginStep(h, D, N)
    BY <2>1a
  <2>. QED BY <2>1, OverByPlugin, UnseenByPlugin, SettledByPlugin, RingingByPlugin, KnownByPlugin,
              LastWordByPlugin, OnlyCallByPlugin DEF TaleInv
<1>5. CASE \E p \in Paths, s \in FirstStates : CallComes(p, s)
  BY <1>1, <1>3, <1>5, CallComesTales
<1>6. ASSUME NEW p \in Paths, NEW s \in {"incoming", "alerting", "active", "held"}, CallChanges(p, s)
      PROVE  TaleInv'
  <2>1. s \in States /\ Speaks(p, s, s, {})
    BY <1>1, <1>6, CallChangesSpeaks DEF LinksInv, States, CallStates, FirstStates
  <2>. QED BY <1>1, <1>3, <2>1, SpokenTales
<1>7. ASSUME NEW p \in Paths, CallEnds(p) PROVE TaleInv'
  <2>1. "disconnected" \in States /\ Speaks(p, "disconnected", "none", RemovedToAll(p))
    BY <1>1, <1>7, CallEndsSpeaks DEF LinksInv, States
  <2>. QED BY <1>1, <1>3, <2>1, SpokenTales
<1>8. CASE ModemComes \/ ModemGoes
  BY <1>1, <1>3, <1>8, ModemTales
<1>. QED BY <1>4, <1>5, <1>6, <1>7, <1>8, NextIsSplit

LEMMA PhoneInitially == TelephonyInit => PhoneInv
<1>. SUFFICES ASSUME TelephonyInit PROVE PhoneInv
  OBVIOUS
<1>1. LinksInv /\ OrderInv
  BY LinksInitially, OrderInitially
<1>2. /\ Queued = {} /\ DOMAIN events = {}
      /\ \A p \in Paths : call[p] = "none" /\ m_send_call_state[p] = "none" /\ m_calls[p] = 0
      /\ m_voice_call_manager = 0 /\ pc = "GetModems"
  BY DEF TelephonyInit, Queued, Range, NoCalls
<1>3. \A p \in Paths : \A M, X : "none" \in M => Tale(events, Voice(p), m_send_call_state[p], M, X)
  BY <1>2 DEF Tale, Last, Queued
<1>4. OverInv
  BY <1>3 DEF OverInv
<1>5. UnseenInv
  <2>1. \A p \in Paths : "none" \in {"none", Event(call[p])}
    OBVIOUS
  <2>. QED BY <1>3, <2>1 DEF UnseenInv
<1>6. SettledInv /\ RingingInv /\ KnownInv /\ LastWordInv /\ OnlyCallInv
  BY <1>2 DEF SettledInv, Settled, RingingInv, KnownInv, LastWordInv, OnlyCallInv
<1>. QED BY <1>1, <1>4, <1>5, <1>6 DEF PhoneInv, TaleInv

LEMMA PhoneSafe == ASSUME Polite PROVE TelephonySpec => []PhoneInv
<1>1. PhoneInv /\ [TelephonyNext]_telephonyVars => PhoneInv'
  BY PhoneInductive
<1>. QED BY <1>1, PhoneInitially, PTL DEF TelephonySpec

LEMMA SharedWhenQuiet == PhoneInv => CallStatusShared
<1>. SUFFICES ASSUME PhoneInv, Quiet, modem, ~refused, NEW p \in Paths
              PROVE  /\ call[p] = "incoming" => m_send_call_state[p] = "ringing"
                     /\ call[p] \in {"alerting", "active"} => m_send_call_state[p] = "talking"
                     /\ call[p] = "none" => m_send_call_state[p] = "none"
  BY DEF CallStatusShared
<1>1. Queued = {} /\ OverInv /\ SettledInv
  BY DEF Quiet, Queued, Range, PhoneInv, TaleInv, Up
<1>2. ~Awaited("PropertyChanged", p) /\ Settled
  BY <1>1 DEF Awaited, Settled, Quiet
<1>3. ASSUME call[p] = "none" PROVE m_send_call_state[p] \in {"none"}
  <2>1. Tale(events, Voice(p), m_send_call_state[p], {"none"}, {"disconnected"})
    BY <1>1, <1>3 DEF OverInv
  <2>. QED BY <1>2, <2>1, SilentTale
<1>4. ASSUME call[p] # "none" PROVE m_send_call_state[p] \in Agree(call[p])
  <2>. DEFINE M == Agree(call[p])
              X == {call[p]}
  <2>1. Tale(events, Voice(p), m_send_call_state[p], M, X)
    BY <1>1, <1>2, <1>4 DEF SettledInv
  <2>. HIDE DEF M, X
  <2>2. m_send_call_state[p] \in M
    BY <1>2, <2>1, SilentTale
  <2>. QED BY <2>2 DEF M
<1>. QED BY <1>3, <1>4 DEF Agree

(* README.md: "Share call status (incoming or active)".  Where oFono lets  *)
(* the plugin see each call and takes none along with a modem, the device  *)
(* has been told of every ringing, active and ended call once all is said, *)
(* for any number of calls, objects and events that wait.                  *)
THEOREM StatusIsShared ==
  ASSUME Faults \subseteq {"refusal"} PROVE TelephonySpec => []CallStatusShared
<1>1. Polite
  BY DEF Polite
<1>. QED BY <1>1, PhoneSafe, SharedWhenQuiet, PTL

(* A word in the queue for a TelephonyCall is heard by it.                 *)
LEMMA WordIsVoice ==
  ASSUME TypesInv, NEW p \in Paths, NEW o \in Live(p), NEW s \in States
  PROVE  Word(p, o, s) \in Voice(p)
<1>1. Word(p, o, s) \in Message
  BY Messages DEF Live, TypesInv
<1>. QED BY <1>1, Fields DEF Voice

(* Nothing a step tells of a call goes back from talking to ringing.       *)
LEMMA StepBack ==
  ASSUME PhoneInv, Polite, [TelephonyNext]_telephonyVars, NEW p \in Paths,
         m_send_call_state[p] = "talking", m_send_call_state'[p] = "ringing"
  PROVE  FALSE
<1>1. Up /\ Up' /\ PluginNext
  BY NextIsSplit DEF CallComes, CallChanges, CallEnds, ModemComes, ModemGoes, Up, PluginNext, GetModems,
     onModemAdded, GetCallsAnswered, CallsFetched, ConnectModems, onModemRemoved, ManagerDeleted, onCallAdded,
     onCallRemoved, onPropertiesChanged, DeferredDelete, DroppedEvent, telephonyVars, pluginVars
<1>2a. PICK h \in {0, 1} : \E D, N : PluginStep(h, D, N)
  BY <1>1, PluginSteps
<1>2. PICK D, N : PluginStep(h, D, N)
  BY <1>2a
<1>3. TypesInv /\ UnseenInv /\ RingingInv
  BY <1>2, PluginFacts
<1>4. CASE LeftAlone(p) \/ Forgets(p)
  BY <1>4 DEF LeftAlone, Forgets
<1>5. CASE Gets(p)
  <2>1. call[p] = "incoming"
    BY <1>5 DEF Gets, Told, Event
  <2>. DEFINE M == {"none", Event(call[p])}
              X == {"disconnected"}
  <2>2. Tale(events, Voice(p), m_send_call_state[p], M, X) /\ ~Awaited("PropertyChanged", p)
    BY <1>3, <1>5 DEF UnseenInv, Gets
  <2>. HIDE DEF M, X
  <2>3. m_send_call_state[p] \in M
    BY <2>2, SilentTale
  <2>. QED BY <2>1, <2>3 DEF M, Event
<1>6. ASSUME NEW o \in Nat, NEW s \in States, Hears(p, o, s) PROVE FALSE
  <2>1. s = "incoming"
    BY <1>6 DEF Hears, Told, Event
  <2>2. Word(p, o, s) \in Queued
    BY <1>3, <1>6, HeadServed DEF Hears
  <2>3. Word(p, o, s) \in Voice(p) /\ Word(p, o, s).state = s
    BY <1>3, <1>6, WordIsVoice, Fields DEF Hears
  <2>. QED BY <1>3, <2>1, <2>2, <2>3 DEF RingingInv
<1>. QED BY <1>2, <1>4, <1>5, <1>6, PluginFacts

(* A call that was talked on does not ring again before it was cancelled,  *)
(* if oFono takes no calls along with a modem and does not outrun the      *)
(* plugin.  The code does not enforce the latter, and the statement is     *)
(* false without: a CallAdded that waits while GetCalls answers with a     *)
(* later State of its call takes the device back.                          *)
THEOREM TalkedOnIsNotRinging ==
  ASSUME Faults \subseteq {"refusal"} PROVE TelephonySpec => NoStepBack
<1>1. Polite
  BY DEF Polite
<1>2. PhoneInv /\ [TelephonyNext]_telephonyVars =>
        [\A p \in Paths : ~(m_send_call_state[p] = "talking" /\ m_send_call_state'[p] = "ringing")]_telephonyVars
  BY <1>1, StepBack
<1>. QED BY <1>1, <1>2, PhoneSafe, PTL DEF TelephonySpec, NoStepBack

LEMMA UntoldCancel ==
  ASSUME PhoneInv, TelephonyNext, NEW k \in packets', k.isCancel, m_send_call_state[k.path] = "none"
  PROVE  \E i \in DOMAIN objects[k.path] :
           objects[k.path][i] \in {"dialing", "waiting", "held"} \/ i # m_calls[k.path]
<1>1. TypesInv /\ ObjectsInv /\ (Up => LastWordInv /\ OnlyCallInv)
  BY DEF PhoneInv, LinksInv, TaleInv
<1>2. \A p, m, s : k \in Packets(p, m, s) => k.path = p /\ s = "disconnected"
  BY DEF Packets
<1>3. ~CallsFetched
  <2>1. SUFFICES ASSUME CallsFetched PROVE FALSE
    OBVIOUS
  <2>2. PICK p \in Paths : k \in Packets(p, m_send_call_state[p], answer[p])
    BY <2>1 DEF CallsFetched
  <2>. QED BY <1>1, <1>2, <2>2 DEF TypesInv, CallStates, FirstStates
<1>4. ~onCallAdded
  <2>1. SUFFICES ASSUME onCallAdded PROVE FALSE
    OBVIOUS
  <2>2. PICK p \in Paths, s \in FirstStates : onCallStateChanged(p, s)
    BY <1>1, <2>1, onCallAddedMoves
  <2>. QED BY <1>2, <2>2 DEF onCallStateChanged, FirstStates
<1>5. onPropertiesChanged
  BY <1>3, <1>4 DEF TelephonyNext, CallComes, CallChanges, CallEnds, ModemComes, ModemGoes, GetModems,
     onModemAdded, GetCallsAnswered, ConnectModems, onModemRemoved, ManagerDeleted,
     onCallRemoved, DeferredDelete, DroppedEvent
<1>6. PICK p \in Paths, o \in Nat, s \in States :
        Serving /\ events[1] = Word(p, o, s) /\ onCallStateChanged(p, s)
  BY <1>1, <1>5, onPropertiesChangedMoves
<1>7. k.path = p /\ s = "disconnected" /\ m_send_call_state[p] = "none"
  BY <1>2, <1>6 DEF onCallStateChanged
<1>8. Word(p, o, s) \in Queued /\ o \in DOMAIN objects[p] /\ o # 0
  BY <1>1, <1>6, HeadServed DEF ObjectsInv, TypesInv
<1>9. CASE o # m_calls[p]
  BY <1>7, <1>8, <1>9
<1>10. CASE o = m_calls[p] /\ \E i \in DOMAIN objects[p] : i # o
  BY <1>7, <1>10
<1>11. CASE o = m_calls[p] /\ DOMAIN objects[p] = {o}
  <2>1. LastWordInv /\ OnlyCallInv
    BY <1>1, <1>5 DEF onPropertiesChanged, Up
  <2>2. Live(p) = {m_calls[p]}
    BY <1>1, <1>8, <1>11 DEF ObjectsInv, Live
  <2>3. Event(objects[p][o]) = "none"
    BY <1>7, <1>8, <1>11, <2>1, <2>2 DEF OnlyCallInv
  <2>4. objects[p][o] # "disconnected"
    BY <1>8, <1>11, <2>1 DEF LastWordInv
  <2>5. objects[p][o] \in States
    BY <1>1, <1>8 DEF TypesInv
  <2>6. objects[p][o] \in {"dialing", "waiting", "held"}
    BY <2>3, <2>4, <2>5 DEF Event, States, CallStates, FirstStates
  <2>. QED BY <1>7, <1>8, <2>6
<1>. QED BY <1>8, <1>9, <1>10, <1>11

(* A cancel for a call the device was never told of is sent only when a    *)
(* call ends while dialing, waiting or on hold, or at the word of a        *)
(* TelephonyCall that m_calls has forgotten; oFono as above.               *)
THEOREM CancelsAreOfTold ==
  ASSUME Faults \subseteq {"refusal"} PROVE TelephonySpec => UntoldCancels
<1>1. Polite
  BY DEF Polite
<1>2. PhoneInv /\ [TelephonyNext]_telephonyVars =>
        [\A k \in packets' :
           k.isCancel /\ m_send_call_state[k.path] = "none" =>
             \E i \in DOMAIN objects[k.path] :
               \/ objects[k.path][i] \in {"dialing", "waiting", "held"}
               \/ i # m_calls[k.path]]_telephonyVars
  BY UntoldCancel
<1>. QED BY <1>1, <1>2, PhoneSafe, PTL DEF TelephonySpec, UntoldCancels

=============================================================================
