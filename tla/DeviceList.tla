----------------------------- MODULE DeviceList -----------------------------
(***************************************************************************)
(* DeviceListModel (devicelistmodel.cpp) between the daemon's devices and  *)
(* the page that lists them: paired devices, and nearby ones as a view of  *)
(* a view (DeviceListPage.qml), and the reachable ones of the cover.       *)
(*                                                                         *)
(* The model keeps plain pointers to the daemon's devices.  A device that  *)
(* the daemon removes lives on until the event loop deletes it, and its    *)
(* address may then be that of another device.  All of it is one thread,   *)
(* and a signal reaches the model and the views at once.                   *)
(***************************************************************************)
EXTENDS SortFilter, FiniteSets

CONSTANTS
  Id,         \* the devices of the network
  Address,    \* where Device objects are: an address is used again
  Name,       \* what devices are called
  PairState,  \* "no", "requested", "byPeer", "yes", or some of them
  Type,       \* phone, computer, ...: it decides on the icon
  FirstType,  \* the types that a device comes with
  MaxChanges, \* bounds the settings of the cover's view, and the types, that
              \* change later
  None

\* All roles of a row but its id, which never changes, and its icon.
Role == {"name", "paired", "reachable", "isPairRequested", "isPairRequestedByPeer"}

ASSUME DeviceListAssumption ==
  MaxChanges \in Nat /\ FirstType \subseteq Type /\ None \notin Address \cup View(Address, Role)

VARIABLES
  daemon,     \* Daemon::m_devices
  object,     \* the Device objects
  m_devices,  \* the rows of the model
  watched,    \* how often the model is connected to an object
  views,      \* the three views of the page and the one of the cover
  painted,    \* what a delegate shows that the object's row has had from
              \* its beginning
  changes

vars == <<daemon, object, m_devices, watched, views, painted, changes>>

Views == {"paired", "nonpaired", "near", "cover"}
Dead == [life |-> "dead", id |-> None, name |-> None, pair |-> "no", reachable |-> FALSE, type |-> None]
Doomed(id) == [Dead EXCEPT !.life = "doomed", !.id = id]
Device ==
  [life: {"alive"}, id: Id, name: Name, pair: PairState, reachable: BOOLEAN, type: Type]
    \cup {Doomed(id) : id \in Id} \cup {Dead}

\* DeviceListModel::data
Data(o) ==
  [name |-> o.name, paired |-> Flag(o.pair = "yes"), reachable |-> Flag(o.reachable),
   isPairRequested |-> Flag(o.pair = "requested"), isPairRequestedByPeer |-> Flag(o.pair = "byPeer"),
   iconUrl |-> o.type, display |-> Unset]

AllData(objects) == [d \in Address |-> Data(objects[d])]
Rows(list) == {list[i] : i \in DOMAIN list}
indexOf(d) == SelectInSeq(m_devices, LAMBDA e : e = d)
indexOfDevice(objects, id) == SelectInSeq(m_devices, LAMBDA d : objects[d].id = id)

\* The property assignments of the QML files.
Settings(v) ==
  CASE v = "paired" -> <<[name |-> "sortRole", value |-> "name"], [name |-> "filterRole", value |-> "paired"],
                         [name |-> "filterValue", value |-> "true"], [name |-> "sourceModel", value |-> None]>>
    [] v = "nonpaired" -> <<[name |-> "filterRole", value |-> "paired"], [name |-> "filterValue", value |-> "false"],
                            [name |-> "sourceModel", value |-> None]>>
    [] v \in {"near", "cover"} ->
         <<[name |-> "sortRole", value |-> "name"], [name |-> "filterRole", value |-> "reachable"],
           [name |-> "filterValue", value |-> "true"], [name |-> "sourceModel", value |-> None]>>

TypeOK ==
  /\ daemon \in [Id -> Address \cup {None}]
  /\ object \in [Address -> Device]
  /\ m_devices \in Seq(Address)
  /\ watched \in [Address -> 0..2]
  /\ \A v \in Views : views[v] \in View(Address, Role) \cup {None}
  /\ \A d \in Address : DOMAIN painted[d] \subseteq DOMAIN Data(Dead)
  /\ changes \in 0..MaxChanges

Init ==
  /\ daemon = [i \in Id |-> None]
  /\ object = [d \in Address |-> Dead]
  /\ m_devices = <<>>
  /\ watched = [d \in Address |-> 0]
  /\ views = [v \in Views |-> None]
  /\ painted = [d \in Address |-> Data(Dead)]
  /\ changes = 0

-----------------------------------------------------------------------------
(* The views hear of what happens to the rows of the model.                *)

Source(v, vs, rows) ==
  IF v # "near" THEN rows ELSE IF vs["nonpaired"] = None THEN {} ELSE vs["nonpaired"].rows

\* The rows go from before to after, and those of changed have new data.
Heard(before, after, changed, data) ==
  LET first == [v \in Views |->
        IF v = "near" \/ views[v] = None THEN views[v] ELSE RowsTold(views[v], before, after, changed, data)]
  IN [first EXCEPT !["near"] =
        IF @ = None THEN None
        ELSE RowsTold(@, Source("near", views, before), Source("near", first, after), changed, data)]

endInsertRows(d, objects) ==
  /\ m_devices' = Append(m_devices, d)
  /\ views' = Heard(Rows(m_devices), Rows(m_devices) \cup {d}, {}, AllData(objects))
  /\ painted' = [painted EXCEPT ![d] = Data(objects[d])]

endRemoveRows(i, objects) ==
  /\ m_devices' = RemoveAt(m_devices, i)
  /\ views' = Heard(Rows(m_devices), Rows(RemoveAt(m_devices, i)), {}, AllData(objects))
  /\ painted' = [painted EXCEPT ![m_devices[i]] = Data(Dead)]

\* Delegates read again what the signal names.
dataChanged(d, roles, objects) ==
  /\ views' = Heard(Rows(m_devices), Rows(m_devices), {d}, AllData(objects))
  /\ painted' = [painted EXCEPT ![d] = [r \in DOMAIN @ |-> IF r \in roles THEN Data(objects[d])[r] ELSE @[r]]]

NoSignal == UNCHANGED <<m_devices, watched, views, painted>>

-----------------------------------------------------------------------------
(* DeviceListModel.                                                        *)

deviceIdAdded(id, objects) ==
  LET d == daemon'[id] IN
  IF d = None \/ d \in Rows(m_devices) THEN NoSignal
  ELSE /\ IF indexOfDevice(objects, id) = 0
          THEN endInsertRows(d, objects)
          ELSE UNCHANGED <<m_devices, views, painted>>
       /\ watched' = [watched EXCEPT ![d] = @ + 1]

\* Fault: the signals of a removed device stay connected.
deviceRemoved_StaysConnected(d, objects) ==
  IF indexOf(d) = 0 THEN NoSignal
  ELSE endRemoveRows(indexOf(d), objects) /\ UNCHANGED watched

deviceRemoved(d, objects) ==
  IF indexOf(d) = 0 THEN NoSignal
  ELSE endRemoveRows(indexOf(d), objects) /\ watched' = [watched EXCEPT ![d] = 0]

deviceIdRemoved(id, objects) ==
  LET i == indexOfDevice(objects, id) IN
  IF i = 0 THEN NoSignal ELSE deviceRemoved(m_devices[i], objects)

\* Fault: the change of the pairing is said to concern the flag alone.
connectDevice_PairedOnly(signal) ==
  CASE signal = "nameChanged" -> {"name"} [] signal = "pairStateChanged" -> {"paired"}
    [] signal = "reachableChanged" -> {"reachable"}

\* The roles that connectDevice connects with a signal of the device.  None is
\* connected with that of the icon.
connectDevice(signal) ==
  CASE signal = "nameChanged"      -> {Display, "name"}
    [] signal = "pairStateChanged" -> {"paired", "isPairRequested", "isPairRequestedByPeer"}
    [] signal = "reachableChanged" -> {"reachable"}

deviceDataChanged(d, signal, objects) ==
  /\ IF watched[d] = 0 \/ d \notin Rows(m_devices)
     THEN UNCHANGED <<views, painted>>
     ELSE dataChanged(d, connectDevice(signal), objects)
  /\ UNCHANGED <<m_devices, watched>>

-----------------------------------------------------------------------------
(* The daemon and its devices.                                             *)

DeviceAdded(id, d, name, pair, reachable, type) ==
  /\ daemon[id] = None /\ object[d] = Dead
  /\ daemon' = [daemon EXCEPT ![id] = d]
  /\ object' = [object EXCEPT ![d] =
       [life |-> "alive", id |-> id, name |-> name, pair |-> pair, reachable |-> reachable,
        type |-> type]]
  /\ deviceIdAdded(id, object')
  /\ UNCHANGED changes

\* The daemon forgets the device, has it deleted later, and says so.  Of what
\* the object holds from then on the id alone is asked for.
DeviceRemoved(id) ==
  /\ daemon[id] # None
  /\ daemon' = [daemon EXCEPT ![id] = None]
  /\ object' = [object EXCEPT ![daemon[id]] = Doomed(id)]
  /\ deviceIdRemoved(id, object')
  /\ UNCHANGED changes

\* ~QObject() disconnects all, after the signal destroyed.
Destroyed(d) ==
  /\ object' = [object EXCEPT ![d] = Dead]
  /\ IF watched[d] = 0 THEN NoSignal ELSE deviceRemoved(d, object')
  /\ UNCHANGED changes

DeferredDelete(d) ==
  /\ object[d].life = "doomed"
  /\ Destroyed(d) /\ UNCHANGED daemon

\* The daemon itself goes, with every device of it.
DaemonDeletes(id) ==
  /\ daemon[id] # None
  /\ daemon' = [daemon EXCEPT ![id] = None]
  /\ Destroyed(daemon[id])

DeviceChanges(d) ==
  /\ object[d].life = "alive"
  /\ \/ \E n \in Name \ {object[d].name} :
          /\ object' = [object EXCEPT ![d].name = n]
          /\ deviceDataChanged(d, "nameChanged", object')
     \/ \E p \in PairState \ {object[d].pair} :
          /\ object' = [object EXCEPT ![d].pair = p]
          /\ deviceDataChanged(d, "pairStateChanged", object')
     \/ /\ object' = [object EXCEPT ![d].reachable = ~@]
        /\ deviceDataChanged(d, "reachableChanged", object')
  /\ UNCHANGED <<daemon, changes>>

\* A device comes to be of another type: the model is not told.
TypeChanges(d) ==
  /\ object[d].life = "alive" /\ changes < MaxChanges
  /\ \E t \in Type \ {object[d].type} : object' = [object EXCEPT ![d].type = t]
  /\ changes' = changes + 1
  /\ NoSignal /\ UNCHANGED daemon

-----------------------------------------------------------------------------
(* QML.                                                                    *)

\* A view that changes tells the view of it of rows that come and go.
Reviewed(v, w) ==
  LET vs == [views EXCEPT ![v] = w] IN
  IF v # "nonpaired" \/ views["near"] = None THEN vs
  ELSE [vs EXCEPT !["near"] =
          RowsTold(@, Source("near", views, Rows(m_devices)), w.rows, {}, AllData(object))]

\* The properties are assigned in an order that QML chooses.
ViewCreated(v) ==
  /\ views[v] = None
  /\ v = "near" => views["nonpaired"] # None
  /\ \E order \in Bijection(DOMAIN Settings(v), DOMAIN Settings(v)) :
       views' = Reviewed(v, SetUp([i \in DOMAIN order |-> Settings(v)[order[i]]],
                                  Source(v, views, Rows(m_devices)), AllData(object)))
  /\ UNCHANGED <<daemon, object, m_devices, watched, painted, changes>>

ViewComplete(v) ==
  /\ views[v] # None /\ ~views[v].m_complete
  /\ views' = Reviewed(v, componentComplete(views[v], Source(v, views, Rows(m_devices)), AllData(object)))
  /\ UNCHANGED <<daemon, object, m_devices, watched, painted, changes>>

ViewChanges(p) ==
  /\ views["cover"] # None /\ views["cover"].m_complete /\ changes < MaxChanges
  /\ views' = Reviewed("cover", Assign(views["cover"], p, Rows(m_devices), AllData(object)))
  /\ changes' = changes + 1
  /\ UNCHANGED <<daemon, object, m_devices, watched, painted>>

LaterSettings ==
  [name: {"filterMode"}, value: Modes] \cup [name: {"filterValue"}, value: Flags \cup {Unset}]
    \cup [name: {"filterRole"}, value: {"", "paired", "reachable"}]
    \cup [name: {"sortRole"}, value: {"", "name"}] \cup [name: {"sortAscending"}, value: BOOLEAN]

Next ==
  \/ \E id \in Id, d \in Address, n \in Name, p \in PairState, r \in BOOLEAN, t \in FirstType :
       DeviceAdded(id, d, n, p, r, t)
  \/ \E id \in Id : DeviceRemoved(id) \/ DaemonDeletes(id)
  \/ \E d \in Address : DeferredDelete(d) \/ DeviceChanges(d) \/ TypeChanges(d)
  \/ \E v \in Views : ViewCreated(v) \/ ViewComplete(v)
  \/ \E p \in LaterSettings : ViewChanges(p)

Spec == Init /\ [][Next]_vars

-----------------------------------------------------------------------------
(* Properties.                                                             *)

\* The rows are the daemon's devices, each once, and none points to an object
\* that is gone; each is listened to once, and nothing else is (the pointers
\* of m_devices and the connections of connectDevice).
RowsAreTheDaemons ==
  /\ Rows(m_devices) = {daemon[id] : id \in Id} \ {None}
  /\ Len(m_devices) = Cardinality(Rows(m_devices))
  /\ \A d \in Address : watched[d] = IF d \in Rows(m_devices) THEN 1 ELSE 0

\* Once the page is complete a paired device is on its first list, one that is
\* not paired but reachable on its second, and no other on either, and the
\* delegates show the name, pairing and reachability that the devices have:
\* whatever changed before or after (the two filters of DeviceListPage, the
\* second a filter of a filter, and the roles that deviceDataChanged passes on
\* for each signal).  It says nothing of the icon, iconUrl: a delegate keeps
\* that of the type its device had when it was made.
PageIsCurrent ==
  /\ \A d \in Rows(m_devices), r \in Role : painted[d][r] = Data(object[d])[r]
  /\ (\A v \in {"paired", "nonpaired", "near"} : views[v] # None /\ views[v].m_complete) =>
       /\ views["paired"].rows = {d \in Rows(m_devices) : object[d].pair = "yes"}
       /\ views["near"].rows = {d \in Rows(m_devices) : object[d].pair # "yes" /\ object[d].reachable}

\* A complete view shows what its present settings ask for, ordered by the
\* role they name, in whatever order they were assigned, and the lists of the
\* page upwards (SortFilterModel's setters before and after componentComplete;
\* setSortRole does not sort, so that a view takes up no direction that it was
\* given while its sort role was empty).
ViewsObeySettings ==
  \A v \in Views : views[v] # None /\ views[v].m_complete =>
    /\ views[v].rows = Wanted(views[v], Source(v, views, Rows(m_devices)), AllData(object))
    /\ views[v].baseSort = RoleKey(views[v].sortRole)
    /\ v \in {"paired", "near"} => views[v].sorted = "up"
=============================================================================
