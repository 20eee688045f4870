-------------------------- MODULE DeviceList_proofs --------------------------
(***************************************************************************)
(* Proofs about DeviceList.tla and the views of SortFilter.tla, for any    *)
(* devices, addresses and names and any number of later settings: the rows *)
(* are the daemon's devices, what is shown of them is current, and every   *)
(* view obeys its settings.                                                *)
(*                                                                         *)
(* A step disturbs the rows of the model or their data, and each view is   *)
(* told of these alone; so the invariant says of a view that its rows are  *)
(* what its settings ask for of its source, whatever the source is, and    *)
(* that what the base class filters by is what the settings name.          *)
(***************************************************************************)
EXTENDS DeviceList, FiniteSetTheorems, SequenceTheorems, TLAPS

-----------------------------------------------------------------------------
(* The invariant.                                                          *)

(* The rows are the daemon's devices, whose objects live.                  *)
DaemonInv ==
  /\ daemon \in [Id -> Address \cup {None}]
  /\ object \in [Address -> Device]
  /\ Rows(m_devices) = {daemon[id] : id \in Id} \ {None}
  /\ \A id \in Id : daemon[id] # None => object[daemon[id]].life = "alive" /\ object[daemon[id]].id = id

(* What the delegates of the rows show.                                    *)
PaintInv ==
  /\ DOMAIN painted = Address
  /\ \A d \in Address : DOMAIN painted[d] = DOMAIN Data(Dead)
  /\ \A d \in Rows(m_devices), r \in Role : painted[d][r] = Data(object[d])[r]

(* The settings of the page's views, which nothing changes later.          *)
AsWritten(v, w) ==
  /\ v \in {"paired", "nonpaired"} => w.filterRole = "paired"
  /\ v = "near" => w.filterRole = "reachable"
  /\ v \in {"paired", "near"} => w.filterValue = "true"
  /\ v = "nonpaired" => w.filterValue = "false"
  /\ v # "cover" => w.mode = "value" /\ w.ascending
  /\ v \in {"paired", "near"} =>
       w.sortRole = "name" /\ (w.m_complete => w.sorted = "up")

(* What the base class goes by is what the settings name.                  *)
Agrees(w) ==
  /\ w.baseFilter = RoleKey(w.filterRole) /\ w.baseSort = RoleKey(w.sortRole)
  /\ w.mode = "regex" => w.regExp = w.filterValue

(* A view that exists, given the rows of its source.                       *)
ViewOK(v, w, src, data) ==
  /\ w \in View(Address, Role) /\ AsWritten(v, w) /\ w.rows \subseteq src
  /\ w.m_complete => Agrees(w) /\ w.rows = Wanted(w, src, data)

ViewsOK(vs, rows, data) ==
  /\ DOMAIN vs = Views
  /\ \A v \in Views : vs[v] # None => ViewOK(v, vs[v], Source(v, vs, rows), data)
  /\ vs["near"] # None => vs["nonpaired"] # None

ViewsInv == ViewsOK(views, Rows(m_devices), AllData(object))

(* Each row is there once and listened to, and shown as it is.             *)
ShownInv ==
  /\ m_devices \in Seq(Address) /\ IsInjective(m_devices)
  /\ watched = [d \in Address |-> IF d \in Rows(m_devices) THEN 1 ELSE 0]
  /\ PaintInv /\ ViewsInv

IInv == DaemonInv /\ ShownInv /\ changes \in 0..MaxChanges

-----------------------------------------------------------------------------
(* The views: each operation leaves a view that obeys its settings.        *)

LEMMA KeyIsARole ==
  ASSUME NEW n \in Role \cup {""}
  PROVE  RoleKey(n) \in Role \cup {Display}
BY DEF RoleKey

LEMMA AcceptsWanted ==
  ASSUME NEW w \in View(Address, Role), w.m_complete, Agrees(w), NEW r, NEW data
  PROVE  filterAcceptsRow(w, r, data) <=>
           w.mode = "none" \/ w.filterValue = Unset \/ data[r][RoleKey(w.filterRole)] = w.filterValue
<1>1. w.mode \in {"none", "value", "regex"}
  BY DEF View, Modes
<1>. QED BY <1>1 DEF filterAcceptsRow, Agrees

LEMMA RefilteredFields ==
  ASSUME NEW w \in View(Address, Role), NEW src \in SUBSET Address, NEW data
  PROVE  LET x == Refiltered(w, src, data) IN
         /\ x \in View(Address, Role) /\ x = [w EXCEPT !.rows = x.rows]
         /\ x.rows = {r \in src : filterAcceptsRow(w, r, data)}
BY DEF Refiltered, View

(* Asked about all rows, a view that agrees with its settings obeys them.  *)
LEMMA RefilteredObeys ==
  ASSUME NEW w \in View(Address, Role), NEW src \in SUBSET Address, NEW data,
         w.m_complete, Agrees(w)
  PROVE  LET x == Refiltered(w, src, data) IN
         /\ Agrees(x) /\ x.rows = Wanted(x, src, data)
<1> DEFINE x == Refiltered(w, src, data)
<1>1. x \in View(Address, Role) /\ x = [w EXCEPT !.rows = x.rows]
      /\ x.rows = {r \in src : filterAcceptsRow(w, r, data)}
  BY RefilteredFields
<1>2. /\ x.filterRole = w.filterRole /\ x.filterValue = w.filterValue /\ x.mode = w.mode
      /\ x.baseFilter = w.baseFilter /\ x.baseSort = w.baseSort /\ x.sortRole = w.sortRole
      /\ x.regExp = w.regExp
  BY <1>1 DEF View
<1>3. x.rows = {r \in src : w.mode = "none" \/ w.filterValue = Unset
                            \/ data[r][RoleKey(w.filterRole)] = w.filterValue}
  BY <1>1, AcceptsWanted
<1>. HIDE DEF x
<1>4. Agrees(x) /\ x.rows = Wanted(x, src, data)
  BY <1>2, <1>3 DEF Agrees, Wanted
<1>. QED BY <1>4 DEF x

(* Rows that the source inserts, removes or says to have changed.          *)
LEMMA ToldKeepsView ==
  ASSUME NEW v, NEW w, NEW before \in SUBSET Address, NEW after \in SUBSET Address,
         NEW changed, NEW data, NEW next,
         ViewOK(v, w, before, data),
         \A r \in (before \cap after) \ changed : next[r] = data[r]
  PROVE  ViewOK(v, RowsTold(w, before, after, changed, next), after, next)
<1> DEFINE x == RowsTold(w, before, after, changed, next)
<1>1. w \in View(Address, Role)
  BY DEF ViewOK
<1>2. /\ x \in View(Address, Role) /\ x = [w EXCEPT !.rows = x.rows]
      /\ x.rows = {r \in after : IF r \in before \ changed THEN r \in w.rows
                                 ELSE filterAcceptsRow(w, r, next)}
  BY <1>1 DEF RowsTold, View
<1>3. /\ x.filterRole = w.filterRole /\ x.filterValue = w.filterValue /\ x.mode = w.mode
      /\ x.baseFilter = w.baseFilter /\ x.baseSort = w.baseSort /\ x.sortRole = w.sortRole
      /\ x.regExp = w.regExp /\ x.ascending = w.ascending /\ x.sorted = w.sorted
      /\ x.m_complete = w.m_complete
  BY <1>1, <1>2 DEF View
<1>. HIDE DEF x
<1>4. AsWritten(v, x)
  BY <1>3 DEF ViewOK, AsWritten
<1>5. ASSUME w.m_complete
      PROVE  Agrees(x) /\ x.rows = Wanted(x, after, next)
  <2>1. Agrees(w) /\ w.rows = {r \in before : w.mode = "none" \/ w.filterValue = Unset
                                 \/ data[r][RoleKey(w.filterRole)] = w.filterValue}
    BY <1>5 DEF ViewOK, Wanted
  <2>2. \A r : filterAcceptsRow(w, r, next) <=>
           w.mode = "none" \/ w.filterValue = Unset \/ next[r][RoleKey(w.filterRole)] = w.filterValue
    BY <1>1, <1>5, <2>1, AcceptsWanted
  <2>3. x.rows = {r \in after : w.mode = "none" \/ w.filterValue = Unset
                                 \/ next[r][RoleKey(w.filterRole)] = w.filterValue}
    BY <1>2, <2>1, <2>2
  <2>. QED BY <1>3, <2>1, <2>3 DEF Agrees, Wanted
<1>6. ViewOK(v, x, after, next)
  BY <1>2, <1>3, <1>4, <1>5 DEF ViewOK
<1>. QED BY <1>6 DEF x


(* The setters of a complete view.                                         *)
LEMMA AssignKeepsView ==
  ASSUME NEW w, NEW src \in SUBSET Address, NEW data, NEW p \in LaterSettings,
         ViewOK("cover", w, src, data), w.m_complete
  PROVE  ViewOK("cover", Assign(w, p, src, data), src, data)
<1>1. /\ w \in View(Address, Role) /\ Agrees(w) /\ w.rows \subseteq src
      /\ w.rows = Wanted(w, src, data)
  BY DEF ViewOK
<1>2. ASSUME NEW x \in View(Address, Role), x.m_complete, Agrees(x)
      PROVE  ViewOK("cover", Refiltered(x, src, data), src, data)
  <2> DEFINE y == Refiltered(x, src, data)
  <2>1. y \in View(Address, Role) /\ y.rows \subseteq src
    <3>1. y \in View(Address, Role) /\ y.rows = {r \in src : filterAcceptsRow(x, r, data)}
      BY <1>2, RefilteredFields
    <3>. QED BY <3>1
  <2>2. Agrees(y) /\ y.rows = Wanted(y, src, data)
    BY <1>2, RefilteredObeys
  <2>. QED BY <2>1, <2>2 DEF ViewOK, AsWritten
<1>3. ASSUME NEW x \in View(Address, Role), x.m_complete, x.baseFilter = RoleKey(x.filterRole),
             x.baseSort = RoleKey(x.sortRole)
      PROVE  ViewOK("cover", invalidateFilter(x, src, data), src, data)
  <2> DEFINE y == [x EXCEPT !.regExp = IF x.mode = "regex" THEN x.filterValue ELSE @]
  <2>1. y \in View(Address, Role) /\ y.m_complete /\ Agrees(y)
    BY <1>3 DEF View, Agrees
  <2>2. invalidateFilter(x, src, data) = Refiltered(y, src, data)
    BY <1>3 DEF invalidateFilter
  <2>. QED BY <2>1, <2>2, <1>2
<1>4. CASE p.name = "filterMode"
  <2>1. Assign(w, p, src, data) = setFilterMode(w, p.value, src, data) /\ p.value \in Modes
    BY <1>4 DEF Assign, LaterSettings
  <2>2. CASE p.value = w.mode
    BY <2>1, <2>2 DEF setFilterMode
  <2>3. CASE p.value # w.mode
    <3>1. LET x == [w EXCEPT !.mode = p.value] IN
          /\ x \in View(Address, Role) /\ x.m_complete
          /\ x.baseFilter = RoleKey(x.filterRole) /\ x.baseSort = RoleKey(x.sortRole)
      BY <1>1, <2>1 DEF View, Agrees
    <3>. QED BY <1>3, <2>1, <2>3, <3>1 DEF setFilterMode
  <2>. QED BY <2>2, <2>3
<1>5. CASE p.name = "filterValue"
  <2>1. Assign(w, p, src, data) = setFilterValue(w, p.value, src, data) /\ p.value \in Flags \cup {Unset}
    BY <1>5 DEF Assign, LaterSettings
  <2>2. CASE p.value = w.filterValue
    BY <2>1, <2>2 DEF setFilterValue
  <2>3. CASE p.value # w.filterValue
    <3> DEFINE x == [w EXCEPT !.filterValue = p.value, !.mode = IF @ = "none" THEN "value" ELSE @]
    <3>1. /\ x \in View(Address, Role) /\ x.m_complete
          /\ x.baseFilter = RoleKey(x.filterRole) /\ x.baseSort = RoleKey(x.sortRole)
      BY <1>1, <2>1 DEF View, Agrees, Modes
    <3>. QED BY <1>3, <2>1, <2>3, <3>1 DEF setFilterValue
  <2>. QED BY <2>2, <2>3
<1>6. CASE p.name = "filterRole"
  <2>1. Assign(w, p, src, data) = setFilterRole(w, p.value, src, data) /\ p.value \in Role \cup {""}
    BY <1>6 DEF Assign, LaterSettings, Role
  <2> DEFINE x == [w EXCEPT !.filterRole = p.value]
  <2>2. CASE p.value = w.filterRole
    <3>1. x = w
      BY <1>1, <2>2 DEF View
    <3>. QED BY <2>1, <2>2, <3>1 DEF setFilterRole
  <2>3. CASE p.value # w.filterRole
    <3> DEFINE y == [x EXCEPT !.baseFilter = RoleKey(p.value)]
    <3>1. y \in View(Address, Role) /\ y.m_complete /\ Agrees(y)
      BY <1>1, <2>1, KeyIsARole DEF View, Agrees
    <3>. QED BY <1>2, <2>1, <2>3, <3>1 DEF setFilterRole
  <2>. QED BY <2>2, <2>3
<1>7. CASE p.name = "sortRole"
  <2>1. Assign(w, p, src, data) = setSortRole(w, p.value) /\ p.value \in Role \cup {""}
    BY <1>7 DEF Assign, LaterSettings, Role
  <2> DEFINE x == [w EXCEPT !.sortRole = p.value, !.baseSort = RoleKey(p.value)]
  <2>2. setSortRole(w, p.value) = x
    BY <1>1 DEF setSortRole
  <2>3. x \in View(Address, Role) /\ Agrees(x) /\ x.rows = Wanted(x, src, data) /\ x.rows \subseteq src
    BY <1>1, <2>1, KeyIsARole DEF View, Agrees, Wanted
  <2>. QED BY <2>1, <2>2, <2>3 DEF ViewOK, AsWritten
<1>8. CASE p.name = "sortAscending"
  <2>1. Assign(w, p, src, data) = setSortAscending(w, p.value) /\ p.value \in BOOLEAN
    BY <1>8 DEF Assign, LaterSettings
  <2> DEFINE x == Assign(w, p, src, data)
  <2>2. /\ x \in View(Address, Role)
        /\ x = [w EXCEPT !.ascending = x.ascending, !.sorted = x.sorted]
    <3> DEFINE asked == [w EXCEPT !.ascending = p.value]
    <3>1. asked \in View(Address, Role) /\ asked = [w EXCEPT !.ascending = asked.ascending, !.sorted = asked.sorted]
      BY <1>1, <2>1 DEF View
    <3>2. CASE x = asked
      BY <3>1, <3>2
    <3>3. CASE x = Sorted(asked)
      BY <1>1, <2>1, <3>3 DEF Sorted, View
    <3>. QED BY <2>1, <3>2, <3>3 DEF setSortAscending
  <2>3. /\ x.filterRole = w.filterRole /\ x.filterValue = w.filterValue /\ x.mode = w.mode
        /\ x.baseFilter = w.baseFilter /\ x.baseSort = w.baseSort /\ x.sortRole = w.sortRole
        /\ x.regExp = w.regExp /\ x.rows = w.rows
    BY <1>1, <2>2 DEF View
  <2>. HIDE DEF x
  <2>4. Agrees(x) /\ x.rows = Wanted(x, src, data) /\ x.rows \subseteq src
    BY <1>1, <2>3 DEF Agrees, Wanted
  <2>5. ViewOK("cover", x, src, data)
    BY <2>2, <2>4 DEF ViewOK, AsWritten
  <2>. QED BY <2>5 DEF x
<1>. QED BY <1>4, <1>5, <1>6, <1>7, <1>8 DEF LaterSettings

(* From the completion on a view goes by its settings.                     *)
LEMMA CompleteKeepsView ==
  ASSUME NEW v, NEW w, NEW src \in SUBSET Address, NEW data, ViewOK(v, w, src, data), ~w.m_complete
  PROVE  ViewOK(v, componentComplete(w, src, data), src, data)
<1>1. w \in View(Address, Role) /\ AsWritten(v, w)
  BY DEF ViewOK
<1> DEFINE x == [w EXCEPT !.m_complete = TRUE]
<1> DEFINE y == [x EXCEPT !.baseSort = RoleKey(x.sortRole), !.baseFilter = RoleKey(x.filterRole)]
<1> DEFINE named == Refiltered(y, src, data)
<1>2. x \in View(Address, Role) /\ x.m_complete /\ x = [w EXCEPT !.m_complete = TRUE]
  BY <1>1 DEF View
<1>3. /\ y \in View(Address, Role) /\ y.m_complete
      /\ y.baseFilter = RoleKey(y.filterRole) /\ y.baseSort = RoleKey(y.sortRole)
      /\ AsWritten(v, [y EXCEPT !.sorted = "up"])
  BY <1>1, <1>2, KeyIsARole DEF View, AsWritten
<1>4. onRoleNamesChanged(x, src, data) = named
  BY <1>2 DEF onRoleNamesChanged
<1>. HIDE DEF y
<1>5. named \in View(Address, Role) /\ named = [y EXCEPT !.rows = named.rows]
  BY <1>3, RefilteredFields
<1>. HIDE DEF named
<1> DEFINE z == [named EXCEPT !.regExp = IF named.mode = "regex" THEN named.filterValue ELSE @]
<1>6. /\ z \in View(Address, Role) /\ z.m_complete /\ Agrees(z)
      /\ z.mode = y.mode /\ z.filterRole = y.filterRole /\ z.filterValue = y.filterValue
      /\ z.sortRole = y.sortRole /\ z.ascending = y.ascending
  <2>1. /\ named.mode = y.mode /\ named.filterRole = y.filterRole /\ named.filterValue = y.filterValue
        /\ named.sortRole = y.sortRole /\ named.ascending = y.ascending /\ named.m_complete
        /\ named.baseFilter = y.baseFilter /\ named.baseSort = y.baseSort
    BY <1>3, <1>5 DEF View
  <2>2. z \in View(Address, Role) /\ z = [named EXCEPT !.regExp = z.regExp]
        /\ (named.mode = "regex" => z.regExp = named.filterValue)
    BY <1>5 DEF View
  <2>. HIDE DEF z
  <2>3. /\ z.mode = named.mode /\ z.filterRole = named.filterRole /\ z.filterValue = named.filterValue
        /\ z.sortRole = named.sortRole /\ z.ascending = named.ascending /\ z.m_complete = named.m_complete
        /\ z.baseFilter = named.baseFilter /\ z.baseSort = named.baseSort
    BY <1>5, <2>2 DEF View
  <2>. QED BY <1>3, <2>1, <2>2, <2>3 DEF Agrees
<1>. HIDE DEF z
<1> DEFINE told == Refiltered(z, src, data)
<1>7. invalidateFilter(named, src, data) = told
  BY <1>3, <1>5 DEF invalidateFilter, View, z
<1>8. /\ told \in View(Address, Role) /\ told = [z EXCEPT !.rows = told.rows]
      /\ Agrees(told) /\ told.rows = Wanted(told, src, data) /\ told.rows \subseteq src
  <2>1. /\ told \in View(Address, Role) /\ told = [z EXCEPT !.rows = told.rows]
        /\ told.rows = {r \in src : filterAcceptsRow(z, r, data)}
    BY <1>6, RefilteredFields
  <2>2. Agrees(told) /\ told.rows = Wanted(told, src, data)
    BY <1>6, RefilteredObeys
  <2>. QED BY <2>1, <2>2
<1>. HIDE DEF told
<1>9. /\ told.mode = y.mode /\ told.filterRole = y.filterRole /\ told.filterValue = y.filterValue
      /\ told.sortRole = y.sortRole /\ told.ascending = y.ascending
  BY <1>6, <1>8 DEF View
<1> DEFINE u == IF told.sortRole # "" THEN Sorted(told) ELSE told
<1>10. componentComplete(w, src, data) = u
  BY <1>4, <1>7 DEF componentComplete
<1>11. /\ u \in View(Address, Role) /\ u = [told EXCEPT !.sorted = u.sorted]
       /\ told.sortRole # "" => u.sorted = IF told.ascending THEN "up" ELSE "down"
  BY <1>8 DEF Sorted, View
<1>. HIDE DEF u
<1>12. /\ u.filterRole = told.filterRole /\ u.filterValue = told.filterValue /\ u.mode = told.mode
       /\ u.baseFilter = told.baseFilter /\ u.baseSort = told.baseSort /\ u.sortRole = told.sortRole
       /\ u.regExp = told.regExp /\ u.rows = told.rows /\ u.ascending = told.ascending
  BY <1>8, <1>11 DEF View
<1>13. Agrees(u) /\ u.rows = Wanted(u, src, data) /\ u.rows \subseteq src
  BY <1>8, <1>12 DEF Agrees, Wanted
<1>14. AsWritten(v, u)
  <2>1. /\ y.mode = w.mode /\ y.filterRole = w.filterRole /\ y.filterValue = w.filterValue
        /\ y.sortRole = w.sortRole /\ y.ascending = w.ascending
    BY <1>1, <1>2 DEF View, y
  <2>. QED BY <1>1, <1>9, <1>11, <1>12, <2>1 DEF AsWritten
<1>. QED BY <1>10, <1>11, <1>13, <1>14 DEF ViewOK


(* A view that is being set up, with the properties named in done assigned. *)
Begun(v, w, done, src) ==
  /\ w \in View(Address, Role) /\ ~w.m_complete /\ w.ascending /\ w.rows \subseteq src
  /\ "filterRole" \in done => w.filterRole = IF v \in {"near", "cover"} THEN "reachable" ELSE "paired"
  /\ "sortRole" \in done => w.sortRole = "name"
  /\ IF "filterValue" \in done
     THEN w.mode = "value" /\ w.filterValue = IF v = "nonpaired" THEN "false" ELSE "true"
     ELSE w.mode = "none" /\ w.filterValue = Unset

LEMMA AssignWhileBegun ==
  ASSUME NEW v \in Views, NEW i \in DOMAIN Settings(v), NEW w, NEW done, NEW src \in SUBSET Address,
         NEW data, Begun(v, w, done, src)
  PROVE  Begun(v, Assign(w, Settings(v)[i], src, data), done \cup {Settings(v)[i].name}, src)
<1> DEFINE p == Settings(v)[i]
<1>1. /\ w \in View(Address, Role) /\ ~w.m_complete /\ w.ascending /\ w.rows \subseteq src
  BY DEF Begun
<1>2. \/ p = [name |-> "sortRole", value |-> "name"]
      \/ p = [name |-> "filterRole", value |-> IF v \in {"near", "cover"} THEN "reachable" ELSE "paired"]
      \/ p = [name |-> "filterValue", value |-> IF v = "nonpaired" THEN "false" ELSE "true"]
      \/ p = [name |-> "sourceModel", value |-> None]
  BY DEF Settings, Views
<1>. SUFFICES Begun(v, Assign(w, p, src, data), done \cup {p.name}, src)
  OBVIOUS
<1>. HIDE DEF p
<1>3. CASE p = [name |-> "sortRole", value |-> "name"]
  <2>1. Assign(w, p, src, data) = [w EXCEPT !.sortRole = "name"]
    BY <1>1, <1>3 DEF Assign, setSortRole, View
  <2>. QED BY <1>1, <1>3, <2>1 DEF Begun, View, Role
<1>4. CASE p = [name |-> "filterRole", value |-> IF v \in {"near", "cover"} THEN "reachable" ELSE "paired"]
  <2> DEFINE x == [w EXCEPT !.filterRole = p.value]
  <2>1. Assign(w, p, src, data) = x
    BY <1>1, <1>4 DEF Assign, setFilterRole
  <2>2. x \in View(Address, Role) /\ x.filterRole = p.value /\ x.filterValue = w.filterValue
        /\ x.mode = w.mode /\ x.sortRole = w.sortRole /\ x.rows = w.rows
        /\ x.ascending = w.ascending /\ x.m_complete = w.m_complete
    BY <1>1, <1>4 DEF View, Role
  <2>. HIDE DEF x
  <2>3. Begun(v, x, done \cup {p.name}, src)
    BY <1>1, <1>4, <2>2 DEF Begun
  <2>. QED BY <2>1, <2>3
<1>5. CASE p = [name |-> "filterValue", value |-> IF v = "nonpaired" THEN "false" ELSE "true"]
  <2>1. Assign(w, p, src, data) = setFilterValue(w, p.value, src, data) /\ p.value \in {"true", "false"}
    BY <1>5 DEF Assign
  <2>2. CASE "filterValue" \in done
    <3>1. Assign(w, p, src, data) = w
      BY <1>5, <2>1, <2>2 DEF setFilterValue, Begun
    <3>. QED BY <1>5, <2>2, <3>1 DEF Begun
  <2>3. CASE "filterValue" \notin done
    <3>1. w.filterValue = Unset /\ w.mode = "none"
      BY <2>3 DEF Begun
    <3> DEFINE x == [w EXCEPT !.filterValue = p.value, !.mode = "value"]
    <3>2. Assign(w, p, src, data) = x
      BY <1>1, <2>1, <3>1 DEF setFilterValue, invalidateFilter, View, Unset
    <3>3. x \in View(Address, Role) /\ x.mode = "value" /\ x.filterValue = p.value
          /\ x.filterRole = w.filterRole /\ x.sortRole = w.sortRole /\ x.rows = w.rows
          /\ x.ascending = w.ascending /\ x.m_complete = w.m_complete
      BY <1>1, <2>1 DEF View, Modes, Flags
    <3>. HIDE DEF x
    <3>4. Begun(v, x, done \cup {p.name}, src)
      BY <1>1, <1>5, <3>3 DEF Begun
    <3>. QED BY <3>2, <3>4
  <2>. QED BY <2>2, <2>3
<1>6. CASE p = [name |-> "sourceModel", value |-> None]
  <2>1. Assign(w, p, src, data) = Refiltered(w, src, data)
    BY <1>1, <1>6 DEF Assign, setSourceModel, onRoleNamesChanged, Refiltered, View
  <2> DEFINE x == Refiltered(w, src, data)
  <2>2. /\ x \in View(Address, Role) /\ x = [w EXCEPT !.rows = x.rows]
        /\ x.rows = {r \in src : filterAcceptsRow(w, r, data)}
    BY <1>1, RefilteredFields
  <2>3. x.rows \subseteq src
    BY <2>2
  <2>. HIDE DEF x
  <2>4. /\ x.filterRole = w.filterRole /\ x.filterValue = w.filterValue /\ x.mode = w.mode
        /\ x.sortRole = w.sortRole /\ x.ascending = w.ascending /\ x.m_complete = w.m_complete
    BY <1>1, <2>2 DEF View
  <2>5. Begun(v, x, done \cup {p.name}, src)
    BY <1>6, <2>2, <2>3, <2>4 DEF Begun
  <2>. QED BY <2>1, <2>5 DEF x
<1>. QED BY <1>2, <1>3, <1>4, <1>5, <1>6

LEMMA NothingAssigned ==
  ASSUME NEW v, NEW src
  PROVE  Begun(v, SortFilterModel, {}, src)
BY DEF Begun, SortFilterModel, View, Modes

(* The four views have three or four assignments: the recursion of SetUp   *)
(* is that many steps.                                                     *)
SetUpBy(after, s, src, data) ==
  /\ after[0] = SortFilterModel
  /\ \A i \in 1..Len(s) : after[i] = Assign(after[i - 1], s[i], src, data)
  /\ SetUp(s, src, data) = after[Len(s)]

LEMMA SetUpSteps ==
  ASSUME NEW s, Len(s) \in 0..4, NEW src, NEW data
  PROVE  \E after : SetUpBy(after, s, src, data)
<1> DEFINE n == Len(s)
<1>. n \in 0..4
  OBVIOUS
<1> DEFINE A(w, i) == Assign(w, s[i], src, data)
<1> DEFINE Steps(f) == f = [i \in 0..n |-> IF i = 0 THEN SortFilterModel ELSE A(f[i - 1], i)]
<1> DEFINE a1 == A(SortFilterModel, 1)
<1> DEFINE a2 == A(a1, 2)
<1> DEFINE a3 == A(a2, 3)
<1> DEFINE a4 == A(a3, 4)
<1> DEFINE g == [i \in 0..n |-> CASE i = 0 -> SortFilterModel [] i = 1 -> a1 [] i = 2 -> a2
                                       [] i = 3 -> a3 [] i = 4 -> a4]
<1> DEFINE f == CHOOSE h : Steps(h)
<1>1. SetUp(s, src, data) = f[n]
  BY DEF SetUp
<1>. HIDE DEF A, n
<1>2. Steps(g)
  <2>. HIDE DEF a1, a2, a3, a4
  <2>1. ASSUME NEW i \in 0..n
        PROVE  g[i] = IF i = 0 THEN SortFilterModel ELSE A(g[i - 1], i)
    <3>1. CASE i = 0
      BY <3>1
    <3>2. CASE i = 1
      BY <3>2 DEF a1
    <3>3. CASE i = 2
      BY <3>3 DEF a2
    <3>4. CASE i = 3
      BY <3>4 DEF a3
    <3>5. CASE i = 4
      BY <3>5 DEF a4
    <3>6. i = 0 \/ i = 1 \/ i = 2 \/ i = 3 \/ i = 4
      OBVIOUS
    <3>. HIDE DEF g
    <3>. QED BY <3>1, <3>2, <3>3, <3>4, <3>5, <3>6
  <2>. QED BY <2>1
<1>3. Steps(f)
  BY <1>2
<1>. HIDE DEF f
<1>4. /\ f[0] = SortFilterModel
      /\ \A i \in 1..n : f[i] = A(f[i - 1], i)
  BY <1>3
<1>5. SetUpBy(f, s, src, data)
  BY <1>1, <1>4 DEF A, n, SetUpBy
<1>. QED BY <1>5


LEMMA SetUpKeepsView ==
  ASSUME NEW v \in Views, NEW order \in Bijection(DOMAIN Settings(v), DOMAIN Settings(v)),
         NEW src \in SUBSET Address, NEW data
  PROVE  LET s == [i \in DOMAIN order |-> Settings(v)[order[i]]] IN
         ViewOK(v, SetUp(s, src, data), src, data) /\ ~SetUp(s, src, data).m_complete
<1> DEFINE D == DOMAIN Settings(v)
<1> DEFINE s == [i \in DOMAIN order |-> Settings(v)[order[i]]]
<1>2. DOMAIN order = D /\ (\A i \in D : order[i] \in D) /\ (\A j \in D : \E i \in D : order[i] = j)
  BY DEF Bijection, Injection, Surjection, IsInjective
<1>1. \/ v # "nonpaired" /\ D = 1..4 /\ Len(s) = 4
      \/ v = "nonpaired" /\ D = 1..3 /\ Len(s) = 3
  <2>1. CASE v = "nonpaired"
    <3>1. D = 1..3
      BY <2>1 DEF Settings
    <3>. QED BY <1>2, <2>1, <3>1
  <2>2. CASE v # "nonpaired"
    <3>1. D = 1..4
      BY <2>2 DEF Settings, Views
    <3>. QED BY <1>2, <2>2, <3>1
  <2>. QED BY <2>1, <2>2
<1>. HIDE DEF s
<1>3. PICK after : SetUpBy(after, s, src, data)
  <2>1. Len(s) \in 0..4
    BY <1>1
  <2>. QED BY <2>1, SetUpSteps
<1> DEFINE named(i) == {s[j].name : j \in 1..i}
<1>4. ASSUME NEW i \in 1..Len(s), Begun(v, after[i - 1], named(i - 1), src)
      PROVE  Begun(v, after[i], named(i), src)
  <2>1. s[i] = Settings(v)[order[i]] /\ order[i] \in D
    BY <1>1, <1>2 DEF s
  <2>2. Begun(v, Assign(after[i - 1], s[i], src, data), named(i - 1) \cup {s[i].name}, src)
    BY <1>4, <2>1, AssignWhileBegun
  <2>3. named(i - 1) \cup {s[i].name} = named(i)
    <3>1. 1..i = (1..i - 1) \cup {i}
      OBVIOUS
    <3>. QED BY <3>1
  <2>. QED BY <1>3, <2>2, <2>3 DEF SetUpBy
<1>5. Begun(v, after[0], named(0), src)
  <2>1. named(0) = {}
    OBVIOUS
  <2>. QED BY <1>3, <2>1, NothingAssigned DEF SetUpBy
<1>. HIDE DEF D
<1>6. Begun(v, after[3], named(3), src)
  <2>1. 1 \in 1..Len(s) /\ 2 \in 1..Len(s) /\ 3 \in 1..Len(s) /\ 1 - 1 = 0 /\ 2 - 1 = 1 /\ 3 - 1 = 2
    BY <1>1
  <2>. HIDE DEF named
  <2>2. Begun(v, after[1], named(1), src)
    BY <1>4, <1>5, <2>1
  <2>3. Begun(v, after[2], named(2), src)
    BY <1>4, <2>1, <2>2
  <2>. QED BY <1>4, <2>1, <2>3
<1>7. Begun(v, after[Len(s)], named(Len(s)), src)
  <2>1. CASE Len(s) = 3
    BY <1>6, <2>1
  <2>2. CASE Len(s) = 4
    <3>1. 4 \in 1..Len(s) /\ 4 - 1 = 3
      BY <2>2
    <3>. HIDE DEF named
    <3>. QED BY <1>4, <1>6, <2>2, <3>1
  <2>. QED BY <1>1, <2>1, <2>2
<1>8. /\ {"filterRole", "filterValue"} \subseteq named(Len(s))
      /\ v # "nonpaired" => "sortRole" \in named(Len(s))
  <2>1. \A i \in D : \E j \in 1..Len(s) : s[j].name = Settings(v)[i].name
    BY <1>1, <1>2 DEF s
  <2>2. ASSUME NEW i \in D
        PROVE  Settings(v)[i].name \in named(Len(s))
    BY <2>1
  <2>3. /\ \E i \in D : Settings(v)[i].name = "filterRole"
        /\ \E i \in D : Settings(v)[i].name = "filterValue"
        /\ v # "nonpaired" => \E i \in D : Settings(v)[i].name = "sortRole"
    BY <1>1 DEF Settings, Views
  <2>. QED BY <2>2, <2>3
<1>. HIDE DEF named
<1>9. ViewOK(v, after[Len(s)], src, data) /\ ~after[Len(s)].m_complete
  BY <1>7, <1>8 DEF ViewOK, AsWritten, Begun, Views
<1>. QED BY <1>3, <1>9 DEF s, SetUpBy


-----------------------------------------------------------------------------
(* The views together.                                                     *)

LEMMA SourceIsRows ==
  ASSUME NEW vs, NEW rows, NEW data, ViewsOK(vs, rows, data), NEW v \in Views
  PROVE  Source(v, vs, rows) \subseteq rows
BY DEF ViewsOK, ViewOK, Source, Views

LEMMA ViewIsSome ==
  ASSUME NEW v, NEW w, NEW src, NEW data, ViewOK(v, w, src, data)
  PROVE  w # None
BY DeviceListAssumption DEF ViewOK

(* What the rows of the model go through reaches each view.                *)
LEMMA HeardKeepsViews ==
  ASSUME NEW before \in SUBSET Address, NEW after \in SUBSET Address, NEW changed,
         NEW data, NEW next, ViewsOK(views, before, data),
         \A r \in (before \cap after) \ changed : next[r] = data[r]
  PROVE  ViewsOK(Heard(before, after, changed, next), after, next)
<1> DEFINE first == [v \in Views |->
        IF v = "near" \/ views[v] = None THEN views[v] ELSE RowsTold(views[v], before, after, changed, next)]
<1> DEFINE told == Heard(before, after, changed, next)
<1> DEFINE was == Source("near", views, before)
<1> DEFINE is == Source("near", first, after)
<1>1. DOMAIN told = Views /\ \A v \in Views \ {"near"} : told[v] = first[v]
  BY DEF Heard, Views
<1>2. told["near"] = IF views["near"] = None THEN None ELSE RowsTold(views["near"], was, is, changed, next)
  BY DEF Heard, Views
<1>3. ASSUME NEW v \in Views \ {"near"}, views[v] # None
      PROVE  ViewOK(v, first[v], after, next)
  <2>1. ViewOK(v, views[v], before, data)
    BY <1>3 DEF ViewsOK, Source
  <2>2. first[v] = RowsTold(views[v], before, after, changed, next)
    BY <1>3
  <2>. QED BY <2>1, <2>2, ToldKeepsView
<1>4. \A v \in Views \ {"near"} : views[v] = None => first[v] = None
  OBVIOUS
<1>5. "nonpaired" \in Views \ {"near"} /\ "near" \in Views
  BY DEF Views
<1>6. ASSUME views["near"] # None
      PROVE  ViewOK("near", told["near"], is, next) /\ first["nonpaired"] # None
  <2>1. views["nonpaired"] # None
    BY <1>6 DEF ViewsOK
  <2>2. ViewOK("nonpaired", first["nonpaired"], after, next)
    BY <1>3, <1>5, <2>1
  <2>3. is = first["nonpaired"].rows /\ is \subseteq after
    BY <2>2, ViewIsSome DEF Source, ViewOK
  <2>4. was \subseteq before
    BY <1>5, SourceIsRows
  <2>5. ViewOK("near", views["near"], was, data)
    BY <1>5, <1>6 DEF ViewsOK
  <2>. HIDE DEF first, was, is
  <2>6. ViewOK("near", RowsTold(views["near"], was, is, changed, next), is, next)
    BY <2>3, <2>4, <2>5, ToldKeepsView
  <2>. QED BY <1>2, <1>6, <2>2, <2>6, ViewIsSome
<1>7. Source("near", told, after) = is /\ \A v \in Views \ {"near"} : Source(v, told, after) = after
  BY <1>1, <1>5 DEF Source
<1>. HIDE DEF told, first, is, was
<1>8. ASSUME NEW v \in Views, told[v] # None
      PROVE  ViewOK(v, told[v], Source(v, told, after), next)
  <2>1. CASE v = "near"
    BY <1>2, <1>6, <1>7, <1>8, <2>1
  <2>2. CASE v # "near"
    BY <1>1, <1>3, <1>4, <1>7, <1>8, <2>2
  <2>. QED BY <2>1, <2>2
<1>9. told["near"] # None => told["nonpaired"] # None
  BY <1>1, <1>2, <1>5, <1>6
<1>10. ViewsOK(told, after, next)
  BY <1>1, <1>8, <1>9 DEF ViewsOK
<1>. QED BY <1>10 DEF told

(* A view that changes is heard by the view of it.                         *)
LEMMA ReviewedKeepsViews ==
  ASSUME NEW v \in Views, NEW w, ViewsInv, m_devices \in Seq(Address),
         v = "near" => views["nonpaired"] # None,
         ViewOK(v, w, Source(v, views, Rows(m_devices)), AllData(object))
  PROVE  ViewsOK(Reviewed(v, w), Rows(m_devices), AllData(object))
<1> DEFINE rows == Rows(m_devices)
<1> DEFINE data == AllData(object)
<1> DEFINE vs == Reviewed(v, w)
<1>1. ViewsOK(views, rows, data) /\ rows \in SUBSET Address /\ w # None
  BY ViewIsSome DEF ViewsInv, Rows
<1>. HIDE DEF rows, data
<1>2. "nonpaired" \in Views /\ "near" \in Views
  BY DEF Views
<1>3. CASE v # "nonpaired" \/ views["near"] = None
  <2>1. vs = [views EXCEPT ![v] = w]
    BY <1>3 DEF Reviewed
  <2>. HIDE DEF vs
  <2>2. vs[v] = w /\ (\A u \in Views \ {v} : vs[u] = views[u]) /\ DOMAIN vs = Views
    BY <1>1, <2>1 DEF ViewsOK
  <2>3. ASSUME NEW u \in Views, vs[u] # None
        PROVE  Source(u, vs, rows) = Source(u, views, rows)
    <3>1. CASE u # "near"
      BY <3>1 DEF Source
    <3>2. CASE u = "near"
      <4>1. v # "nonpaired"
        BY <1>3, <2>2, <2>3, <3>2
      <4>. QED BY <1>2, <2>2, <4>1 DEF Source
    <3>. QED BY <3>1, <3>2
  <2>4. ViewOK(v, w, Source(v, views, rows), data)
    BY DEF rows, data
  <2>5. \A u \in Views : vs[u] # None => ViewOK(u, vs[u], Source(u, vs, rows), data)
    BY <1>1, <2>2, <2>3, <2>4 DEF ViewsOK
  <2>6. vs["near"] # None => vs["nonpaired"] # None
    BY <1>1, <1>2, <2>2 DEF ViewsOK
  <2>7. ViewsOK(vs, rows, data)
    BY <2>2, <2>5, <2>6 DEF ViewsOK
  <2>. QED BY <2>7 DEF vs, rows, data
<1>4. CASE v = "nonpaired" /\ views["near"] # None
  <2> DEFINE was == Source("near", views, rows)
  <2> DEFINE x == RowsTold(views["near"], was, w.rows, {}, data)
  <2>1. vs = [[views EXCEPT ![v] = w] EXCEPT !["near"] = x]
    BY <1>1, <1>2, <1>4 DEF Reviewed, rows, data, ViewsOK
  <2>2. w.rows \subseteq rows
    BY <1>4 DEF ViewOK, Source, rows
  <2>3. was \subseteq rows
    BY <1>1, <1>2, SourceIsRows
  <2>4. ViewOK("near", views["near"], was, data)
    BY <1>1, <1>2, <1>4 DEF ViewsOK
  <2>. HIDE DEF was
  <2>5. ViewOK("near", x, w.rows, data)
    BY <1>1, <2>2, <2>3, <2>4, ToldKeepsView
  <2>. HIDE DEF x, vs
  <2>6. vs["near"] = x /\ vs["nonpaired"] = w /\ DOMAIN vs = Views
        /\ \A u \in Views \ {"near", "nonpaired"} : vs[u] = views[u]
    BY <1>1, <1>2, <1>4, <2>1 DEF ViewsOK
  <2>7. Source("near", vs, rows) = w.rows /\ \A u \in Views \ {"near"} : Source(u, vs, rows) = rows
    BY <1>1, <2>6 DEF Source
  <2>8. ViewOK("nonpaired", w, rows, data)
    BY <1>4 DEF rows, data, Source
  <2>9. ASSUME NEW u \in Views, vs[u] # None
        PROVE  ViewOK(u, vs[u], Source(u, vs, rows), data)
    <3>1. CASE u = "near"
      BY <2>5, <2>6, <2>7, <3>1
    <3>2. CASE u = "nonpaired"
      BY <2>6, <2>7, <2>8, <3>2
    <3>3. CASE u \notin {"near", "nonpaired"}
      BY <1>1, <2>6, <2>7, <2>9, <3>3 DEF ViewsOK, Source
    <3>. QED BY <3>1, <3>2, <3>3
  <2>10. ViewsOK(vs, rows, data)
    BY <1>1, <2>6, <2>9 DEF ViewsOK
  <2>. QED BY <2>10 DEF vs, rows, data
<1>. QED BY <1>3, <1>4


-----------------------------------------------------------------------------
(* The rows of the model.                                                  *)

Distinct(s) == \A i \in 1..Len(s), j \in 1..Len(s) : s[i] = s[j] => i = j

LEMMA DistinctIsInjective ==
  ASSUME NEW S, NEW s \in Seq(S)
  PROVE  IsInjective(s) <=> Distinct(s)
BY DEF IsInjective, Distinct

LEMMA RowsByIndex ==
  ASSUME NEW S, NEW s \in Seq(S)
  PROVE  Rows(s) = {s[i] : i \in 1..Len(s)} /\ Rows(s) \in SUBSET S
BY DEF Rows

LEMMA AppendedRow ==
  ASSUME NEW S, NEW s \in Seq(S), IsInjective(s), NEW d \in S, d \notin Rows(s)
  PROVE  LET t == Append(s, d) IN
         t \in Seq(S) /\ IsInjective(t) /\ Rows(t) = Rows(s) \cup {d}
<1> DEFINE t == Append(s, d)
<1>1. /\ t \in Seq(S) /\ Len(t) = Len(s) + 1 /\ t[Len(t)] = d
      /\ \A i \in 1..Len(s) : t[i] = s[i]
  OBVIOUS
<1>2. Rows(s) = {s[i] : i \in 1..Len(s)} /\ Rows(t) = {t[i] : i \in 1..Len(t)}
  BY <1>1, RowsByIndex
<1>3. Distinct(s)
  BY DistinctIsInjective
<1>. HIDE DEF t
<1>4. Distinct(t)
  BY <1>1, <1>2, <1>3 DEF Distinct
<1>5. 1..Len(t) = (1..Len(s)) \cup {Len(t)}
  BY <1>1
<1>6. Rows(t) = Rows(s) \cup {d}
  BY <1>1, <1>2, <1>5
<1>. QED BY <1>1, <1>4, <1>6, DistinctIsInjective DEF t

LEMMA RemovedRow ==
  ASSUME NEW S, NEW s \in Seq(S), IsInjective(s), NEW k \in 1..Len(s)
  PROVE  LET t == RemoveAt(s, k) IN
         t \in Seq(S) /\ IsInjective(t) /\ Rows(t) = Rows(s) \ {s[k]}
<1> DEFINE t == RemoveAt(s, k)
<1> DEFINE at(i) == IF i < k THEN i ELSE i + 1
<1>1. /\ t \in Seq(S) /\ Len(t) = Len(s) - 1
      /\ \A i \in 1..Len(t) : t[i] = s[at(i)]
  <2> DEFINE a == SubSeq(s, 1, k - 1)
  <2> DEFINE b == SubSeq(s, k + 1, Len(s))
  <2>1. Len(s) \in Nat /\ \A i \in 1..Len(s) : s[i] \in S
    OBVIOUS
  <2>2. a \in Seq(S) /\ Len(a) = k - 1 /\ \A i \in 1..k - 1 : a[i] = s[i]
    BY <2>1, SubSeqProperties
  <2>3. b \in Seq(S) /\ Len(b) = Len(s) - k /\ \A i \in 1..Len(s) - k : b[i] = s[k + i]
    BY <2>1, SubSeqProperties
  <2>4. t = a \o b
    BY DEF RemoveAt
  <2>. HIDE DEF a, b, t
  <2>5. t \in Seq(S) /\ Len(t) = Len(s) - 1
    BY <2>1, <2>2, <2>3, <2>4
  <2>6. \A i \in 1..Len(t) : t[i] = IF i < k THEN a[i] ELSE b[i - (k - 1)]
    BY <2>1, <2>2, <2>3, <2>4, <2>5
  <2>7. ASSUME NEW i \in 1..Len(t), i < k PROVE t[i] = s[at(i)]
    <3>1. t[i] = a[i] /\ i \in 1..k - 1
      BY <2>5, <2>6, <2>7
    <3>. QED BY <2>2, <2>7, <3>1
  <2>8. ASSUME NEW i \in 1..Len(t), ~(i < k) PROVE t[i] = s[at(i)]
    <3>1. t[i] = b[i - (k - 1)] /\ i - (k - 1) \in 1..Len(s) - k
      BY <2>1, <2>5, <2>6, <2>8
    <3>2. b[i - (k - 1)] = s[k + (i - (k - 1))] /\ k + (i - (k - 1)) = i + 1
      BY <2>3, <2>5, <3>1
    <3>. QED BY <2>8, <3>1, <3>2
  <2>. QED BY <2>5, <2>7, <2>8
<1>2. Rows(s) = {s[i] : i \in 1..Len(s)} /\ Rows(t) = {t[i] : i \in 1..Len(t)}
  BY <1>1, RowsByIndex
<1>3. Distinct(s)
  BY DistinctIsInjective
<1>. HIDE DEF t
<1>4. \A i \in 1..Len(t) : at(i) \in (1..Len(s)) \ {k}
  BY <1>1
<1>5. \A j \in (1..Len(s)) \ {k} : \E i \in 1..Len(t) : at(i) = j
  <2>1. ASSUME NEW j \in (1..Len(s)) \ {k}
        PROVE  LET i == IF j < k THEN j ELSE j - 1 IN i \in 1..Len(t) /\ at(i) = j
    BY <1>1
  <2>. QED BY <2>1
<1>6. Distinct(t)
  <2>1. \A i \in 1..Len(t), j \in 1..Len(t) : at(i) = at(j) => i = j
    OBVIOUS
  <2>. HIDE DEF at
  <2>. QED BY <1>1, <1>3, <1>4, <2>1 DEF Distinct
<1>7. Rows(t) = Rows(s) \ {s[k]}
  <2>. HIDE DEF at
  <2>1. ASSUME NEW d \in Rows(t)
        PROVE  d \in Rows(s) \ {s[k]}
    BY <1>1, <1>2, <1>3, <1>4, <2>1 DEF Distinct
  <2>2. ASSUME NEW d \in Rows(s) \ {s[k]}
        PROVE  d \in Rows(t)
    <3>1. PICK j \in 1..Len(s) : d = s[j]
      BY <1>2, <2>2
    <3>2. PICK i \in 1..Len(t) : at(i) = j
      BY <1>5, <2>2, <3>1
    <3>. QED BY <1>1, <1>2, <3>1, <3>2
  <2>. QED BY <2>1, <2>2
<1>. QED BY <1>1, <1>6, <1>7, DistinctIsInjective DEF t

(* Where a row is found: nowhere, or at the one place where it is.         *)
LEMMA IndexOfRow ==
  ASSUME NEW d, m_devices \in Seq(Address), IsInjective(m_devices)
  PROVE  /\ d \notin Rows(m_devices) => indexOf(d) = 0
         /\ d \in Rows(m_devices) => indexOf(d) \in 1..Len(m_devices) /\ m_devices[indexOf(d)] = d
<1> DEFINE I == {i \in 1..Len(m_devices) : m_devices[i] = d}
<1>1. indexOf(d) = IF I # {} THEN Min(I) ELSE 0
  BY DEF indexOf, SelectInSeq
<1>2. Rows(m_devices) = {m_devices[i] : i \in 1..Len(m_devices)}
  BY RowsByIndex
<1>3. CASE d \notin Rows(m_devices)
  BY <1>1, <1>2, <1>3
<1>4. CASE d \in Rows(m_devices)
  <2>1. PICK k \in 1..Len(m_devices) : m_devices[k] = d
    BY <1>2, <1>4
  <2>2. I = {k}
    BY <2>1, DistinctIsInjective DEF Distinct
  <2>3. Min({k}) = k
    BY DEF Min
  <2>. QED BY <1>1, <1>4, <2>1, <2>2, <2>3
<1>. QED BY <1>3, <1>4

LEMMA IndexOfId ==
  ASSUME NEW id, NEW objects, m_devices \in Seq(Address), IsInjective(m_devices),
         \A d \in Rows(m_devices), e \in Rows(m_devices) : objects[d].id = objects[e].id => d = e
  PROVE  LET k == indexOfDevice(objects, id) IN
         /\ (\A d \in Rows(m_devices) : objects[d].id # id) => k = 0
         /\ \A d \in Rows(m_devices) : objects[d].id = id =>
              k \in 1..Len(m_devices) /\ m_devices[k] = d
<1> DEFINE I == {i \in 1..Len(m_devices) : objects[m_devices[i]].id = id}
<1> DEFINE k == indexOfDevice(objects, id)
<1>1. k = IF I # {} THEN Min(I) ELSE 0
  BY DEF indexOfDevice, SelectInSeq
<1>2. Rows(m_devices) = {m_devices[i] : i \in 1..Len(m_devices)}
  BY RowsByIndex
<1>3. (\A d \in Rows(m_devices) : objects[d].id # id) => k = 0
  BY <1>1, <1>2
<1>4. ASSUME NEW d \in Rows(m_devices), objects[d].id = id
      PROVE  k \in 1..Len(m_devices) /\ m_devices[k] = d
  <2>1. PICK j \in 1..Len(m_devices) : m_devices[j] = d
    BY <1>2
  <2>2. I = {j}
    BY <1>2, <1>4, <2>1, DistinctIsInjective DEF Distinct
  <2>3. Min({j}) = j
    BY DEF Min
  <2>. HIDE DEF k, I
  <2>. QED BY <1>1, <2>1, <2>2, <2>3
<1>. QED BY <1>3, <1>4


-----------------------------------------------------------------------------
(* What a step does to the rows, and to all that shows them.               *)

LEMMA DataFields ==
  ASSUME NEW o
  PROVE  DOMAIN Data(o) = DOMAIN Data(Dead) /\ Role \subseteq DOMAIN Data(o)
BY DEF Data, Role

LEMMA AllDataOf ==
  ASSUME NEW objects, NEW d \in Address
  PROVE  AllData(objects)[d] = Data(objects[d])
BY DEF AllData

LEMMA RowComes ==
  ASSUME ShownInv, NEW d \in Address, d \notin Rows(m_devices),
         endInsertRows(d, object'), watched' = [watched EXCEPT ![d] = @ + 1],
         \A e \in Address \ {d} : object'[e] = object[e]
  PROVE  ShownInv' /\ Rows(m_devices)' = Rows(m_devices) \cup {d}
<1>1. /\ m_devices' \in Seq(Address) /\ IsInjective(m_devices')
      /\ Rows(m_devices)' = Rows(m_devices) \cup {d}
  BY AppendedRow DEF ShownInv, endInsertRows
<1>2. watched' = [e \in Address |-> IF e \in Rows(m_devices)' THEN 1 ELSE 0]
  BY <1>1 DEF ShownInv
<1>3. PaintInv'
  <2>1. painted' = [painted EXCEPT ![d] = Data(object'[d])]
    BY DEF endInsertRows
  <2>2. DOMAIN painted' = Address /\ painted'[d] = Data(object'[d])
        /\ \A e \in Address \ {d} : painted'[e] = painted[e]
    BY <2>1 DEF ShownInv, PaintInv
  <2>3. \A e \in Rows(m_devices)' \ {d} : e \in Rows(m_devices) /\ e \in Address \ {d}
    BY <1>1, RowsByIndex
  <2>. QED BY <1>1, <2>2, <2>3, DataFields DEF ShownInv, PaintInv
<1>4. ViewsInv'
  <2> DEFINE before == Rows(m_devices)
  <2> DEFINE next == AllData(object')
  <2>1. before \in SUBSET Address /\ ViewsOK(views, before, AllData(object))
    BY RowsByIndex DEF ShownInv, ViewsInv
  <2>2. \A r \in before : next[r] = AllData(object)[r]
    BY <2>1, AllDataOf
  <2>3. views' = Heard(before, before \cup {d}, {}, next)
    BY DEF endInsertRows
  <2>. HIDE DEF before, next
  <2>4. ViewsOK(views', before \cup {d}, next)
    BY <2>1, <2>2, <2>3, HeardKeepsViews
  <2>. QED BY <1>1, <2>4 DEF ViewsInv, before, next, AllData
<1>. QED BY <1>1, <1>2, <1>3, <1>4 DEF ShownInv

LEMMA RowGoes ==
  ASSUME ShownInv, NEW d \in Rows(m_devices), deviceRemoved(d, object'),
         \A e \in Address \ {d} : object'[e] = object[e]
  PROVE  ShownInv' /\ Rows(m_devices)' = Rows(m_devices) \ {d}
<1> DEFINE i == indexOf(d)
<1>1. i \in 1..Len(m_devices) /\ m_devices[i] = d /\ d \in Address
  BY IndexOfRow, RowsByIndex DEF ShownInv
<1>2. endRemoveRows(i, object') /\ watched' = [watched EXCEPT ![d] = 0]
  BY <1>1 DEF deviceRemoved
<1>. HIDE DEF i
<1>3. /\ m_devices' \in Seq(Address) /\ IsInjective(m_devices')
      /\ Rows(m_devices)' = Rows(m_devices) \ {d}
  BY <1>1, <1>2, RemovedRow DEF ShownInv, endRemoveRows
<1>4. watched' = [e \in Address |-> IF e \in Rows(m_devices)' THEN 1 ELSE 0]
  BY <1>1, <1>2, <1>3 DEF ShownInv
<1>5. PaintInv'
  <2>1. painted' = [painted EXCEPT ![d] = Data(Dead)]
    BY <1>1, <1>2 DEF endRemoveRows
  <2>2. \A e \in Rows(m_devices)' : e \in Rows(m_devices) /\ e \in Address \ {d}
    BY <1>3, RowsByIndex DEF ShownInv
  <2>. QED BY <2>1, <2>2, DataFields DEF ShownInv, PaintInv
<1>6. ViewsInv'
  <2> DEFINE before == Rows(m_devices)
  <2> DEFINE next == AllData(object')
  <2>1. before \in SUBSET Address /\ ViewsOK(views, before, AllData(object))
    BY RowsByIndex DEF ShownInv, ViewsInv
  <2>2. \A r \in before \cap (before \ {d}) : next[r] = AllData(object)[r]
    BY <2>1, AllDataOf
  <2>3. views' = Heard(before, before \ {d}, {}, next)
    BY <1>2, <1>3 DEF endRemoveRows
  <2>. HIDE DEF before, next
  <2>4. ViewsOK(views', before \ {d}, next)
    BY <2>1, <2>2, <2>3, HeardKeepsViews
  <2>. QED BY <1>3, <2>4 DEF ViewsInv, before, next, AllData
<1>. QED BY <1>3, <1>4, <1>5, <1>6 DEF ShownInv

(* Two objects that a view or a delegate cannot tell apart.                *)
Alike(o, x) ==
  o.name = x.name /\ o.pair = x.pair /\ o.reachable = x.reachable

LEMMA AlikeData ==
  ASSUME NEW o, NEW x, Alike(o, x), NEW n \in Role \cup {Display}
  PROVE  Data(o)[n] = Data(x)[n]
BY DEF Alike, Data, Role, Display

(* Without a signal, nothing but the icons of the rows may have changed.   *)
LEMMA RowsStay ==
  ASSUME ShownInv, NoSignal, \A e \in Rows(m_devices) : Alike(object'[e], object[e])
  PROVE  ShownInv' /\ Rows(m_devices)' = Rows(m_devices)
<1>1. m_devices' = m_devices /\ watched' = watched /\ painted' = painted /\ views' = views
  BY DEF NoSignal
<1> DEFINE rows == Rows(m_devices)
<1> DEFINE data == AllData(object)
<1> DEFINE next == AllData(object')
<1>2. rows \in SUBSET Address /\ ViewsOK(views, rows, data)
  BY RowsByIndex DEF ShownInv, ViewsInv
<1>3. \A r \in rows : \A n \in Role \cup {Display} : next[r][n] = data[r][n]
  BY <1>2, AllDataOf, AlikeData
<1>. HIDE DEF rows, data, next
<1>4. ASSUME NEW v \in Views, views[v] # None
      PROVE  ViewOK(v, views[v], Source(v, views, rows), next)
  <2> DEFINE src == Source(v, views, rows)
  <2>1. ViewOK(v, views[v], src, data) /\ src \subseteq rows
    BY <1>2, <1>4, SourceIsRows DEF ViewsOK
  <2>. HIDE DEF src
  <2>2. Wanted(views[v], src, next) = Wanted(views[v], src, data)
    <3>1. views[v].filterRole \in Role \cup {""}
      BY <2>1 DEF ViewOK, View
    <3>2. RoleKey(views[v].filterRole) \in Role \cup {Display}
      BY <3>1, KeyIsARole
    <3>. QED BY <1>3, <2>1, <3>2 DEF Wanted
  <2>3. ViewOK(v, views[v], src, next)
    BY <2>1, <2>2 DEF ViewOK
  <2>. QED BY <2>3 DEF src
<1>5. ViewsOK(views, rows, next)
  BY <1>2, <1>4 DEF ViewsOK
<1>6. ViewsInv'
  BY <1>1, <1>5 DEF ViewsInv, rows, next, AllData
<1>7. PaintInv'
  <2>1. \A d \in Rows(m_devices), n \in Role : Data(object'[d])[n] = Data(object[d])[n]
    BY AlikeData
  <2>2. Rows(m_devices') = Rows(m_devices)
    BY <1>1
  <2>. QED BY <1>1, <2>1, <2>2 DEF ShownInv, PaintInv
<1>. QED BY <1>1, <1>6, <1>7 DEF ShownInv

(* A change of a row's data, if the roles named are those that change.     *)
LEMMA RowChanges ==
  ASSUME ShownInv, NEW d \in Rows(m_devices), NEW roles, dataChanged(d, roles, object'),
         UNCHANGED <<m_devices, watched>>,
         \A e \in Address \ {d} : object'[e] = object[e],
         \A r \in Role \ roles : Data(object'[d])[r] = Data(object[d])[r]
  PROVE  ShownInv' /\ Rows(m_devices)' = Rows(m_devices)
<1> DEFINE rows == Rows(m_devices)
<1> DEFINE data == AllData(object)
<1> DEFINE next == AllData(object')
<1>1. rows \in SUBSET Address /\ ViewsOK(views, rows, data) /\ d \in Address
  BY RowsByIndex DEF ShownInv, ViewsInv
<1>2. \A r \in (rows \cap rows) \ {d} : next[r] = data[r]
  BY <1>1, AllDataOf
<1>3. views' = Heard(rows, rows, {d}, next)
  BY DEF dataChanged
<1>4. PaintInv'
  <2>1. painted' = [painted EXCEPT ![d] =
          [r \in DOMAIN painted[d] |-> IF r \in roles THEN Data(object'[d])[r] ELSE painted[d][r]]]
    BY DEF dataChanged
  <2>2. /\ DOMAIN painted[d] = DOMAIN Data(Dead) /\ DOMAIN painted = Address
        /\ \A r \in Role : r \in DOMAIN painted[d] /\ painted[d][r] = Data(object[d])[r]
    BY <1>1, DataFields DEF ShownInv, PaintInv
  <2>3. DOMAIN painted'[d] = DOMAIN Data(Dead)
    BY <1>1, <2>1, <2>2
  <2>4. \A r \in Role : painted'[d][r] = Data(object'[d])[r]
    BY <1>1, <2>1, <2>2
  <2>5. DOMAIN painted' = Address /\ \A e \in Address \ {d} : painted'[e] = painted[e]
    BY <2>1, <2>2
  <2>6. \A e \in Address : DOMAIN painted'[e] = DOMAIN Data(Dead)
    BY <2>3, <2>5 DEF ShownInv, PaintInv
  <2>7. \A e \in rows, r \in Role : painted'[e][r] = Data(object'[e])[r]
    BY <1>1, <2>4, <2>5 DEF ShownInv, PaintInv
  <2>. QED BY <2>5, <2>6, <2>7 DEF PaintInv
<1>. HIDE DEF rows, data, next
<1>5. ViewsOK(views', rows, next)
  BY <1>1, <1>2, <1>3, HeardKeepsViews
<1>6. ViewsInv'
  BY <1>5 DEF ViewsInv, rows, next, AllData
<1>. QED BY <1>4, <1>6 DEF ShownInv


-----------------------------------------------------------------------------
(* The steps.                                                              *)

Living ==
  [life: {"alive"}, id: Id, name: Name, pair: PairState, reachable: BOOLEAN, type: Type]

(* The daemon's devices are at addresses of their own.                     *)
LEMMA DevicesApart ==
  ASSUME DaemonInv
  PROVE  /\ \A i \in Id, j \in Id : daemon[i] # None /\ daemon[i] = daemon[j] => i = j
         /\ \A d \in Rows(m_devices) : \E id \in Id : daemon[id] = d /\ object[d].id = id
                                                      /\ object[d].life = "alive"
         /\ \A id \in Id : daemon[id] # None => daemon[id] \in Rows(m_devices) /\ daemon[id] \in Address
BY DEF DaemonInv

LEMMA DeviceAddedKeepsInv ==
  ASSUME IInv, NEW id \in Id, NEW d \in Address, NEW n \in Name, NEW p \in PairState, NEW r \in BOOLEAN,
         NEW t \in FirstType, DeviceAdded(id, d, n, p, r, t)
  PROVE  IInv'
<1> DEFINE x == [life |-> "alive", id |-> id, name |-> n, pair |-> p, reachable |-> r, type |-> t]
<1>1. /\ daemon[id] = None /\ object[d] = Dead
      /\ daemon' = [daemon EXCEPT ![id] = d] /\ object' = [object EXCEPT ![d] = x]
      /\ deviceIdAdded(id, object') /\ UNCHANGED changes
  BY DEF DeviceAdded
<1>2. d \notin Rows(m_devices)
  BY <1>1, DevicesApart DEF IInv, Dead
<1>3. daemon'[id] = d /\ d # None /\ x \in Device
  BY <1>1, DeviceListAssumption DEF IInv, DaemonInv, Device
<1>. HIDE DEF x
<1>4. object' \in [Address -> Device] /\ object'[d] = x /\ \A e \in Address \ {d} : object'[e] = object[e]
  BY <1>1, <1>3 DEF IInv, DaemonInv
<1>5. \A e \in Rows(m_devices) : e \in Address \ {d} /\ object'[e].id = object[e].id /\ object'[e].id # id
  <2>1. \A e \in Rows(m_devices) : e \in Address \ {d} /\ object'[e] = object[e]
    BY <1>2, <1>4, RowsByIndex DEF IInv, ShownInv
  <2>2. ASSUME NEW e \in Rows(m_devices)
        PROVE  object[e].id # id
    <3>1. PICK i \in Id : daemon[i] = e /\ object[e].id = i
      BY DevicesApart DEF IInv
    <3>2. e # None
      BY DEF IInv, DaemonInv
    <3>. QED BY <1>1, <3>1, <3>2
  <2>. QED BY <2>1, <2>2
<1>6. indexOfDevice(object', id) = 0
  <2>1. \A e \in Rows(m_devices), f \in Rows(m_devices) : object'[e].id = object'[f].id => e = f
    BY <1>5, DevicesApart DEF IInv
  <2>. QED BY <1>5, <2>1, IndexOfId DEF IInv, ShownInv
<1>7. endInsertRows(d, object') /\ watched' = [watched EXCEPT ![d] = @ + 1]
  BY <1>1, <1>2, <1>3, <1>6 DEF deviceIdAdded
<1>8. ShownInv' /\ Rows(m_devices)' = Rows(m_devices) \cup {d}
  BY <1>2, <1>4, <1>7, RowComes DEF IInv
<1>9. DaemonInv'
  <2>1. daemon' \in [Id -> Address \cup {None}] /\ \A i \in Id \ {id} : daemon'[i] = daemon[i]
    BY <1>1 DEF IInv, DaemonInv
  <2>2. {daemon'[i] : i \in Id} \ {None} = ({daemon[i] : i \in Id} \ {None}) \cup {d}
    BY <1>1, <1>3, <2>1
  <2>3. \A i \in Id \ {id} : daemon'[i] # None =>
          daemon'[i] \in Rows(m_devices) /\ object'[daemon'[i]] = object[daemon[i]]
    BY <1>2, <1>4, <2>1, DevicesApart DEF IInv
  <2>4. \A i \in Id : daemon'[i] # None => object'[daemon'[i]].life = "alive" /\ object'[daemon'[i]].id = i
    BY <1>3, <1>4, <2>1, <2>3 DEF IInv, DaemonInv, x
  <2>. QED BY <1>4, <1>8, <2>1, <2>2, <2>4 DEF IInv, DaemonInv
<1>. QED BY <1>1, <1>8, <1>9 DEF IInv

(* A device that the daemon forgets loses its row.                         *)
LEMMA ForgottenKeepsInv ==
  ASSUME IInv, NEW id \in Id, NEW x \in Device, daemon[id] # None,
         daemon' = [daemon EXCEPT ![id] = None], object' = [object EXCEPT ![daemon[id]] = x],
         deviceRemoved(daemon[id], object'), UNCHANGED changes
  PROVE  IInv'
<1> DEFINE d == daemon[id]
<1>1. d \in Rows(m_devices) /\ d \in Address /\ \A i \in Id \ {id} : daemon[i] # d
  BY DevicesApart DEF IInv
<1>. HIDE DEF d
<1>2. /\ object' \in [Address -> Device] /\ \A e \in Address \ {d} : object'[e] = object[e]
      /\ daemon' \in [Id -> Address \cup {None}] /\ daemon'[id] = None
      /\ \A i \in Id \ {id} : daemon'[i] = daemon[i]
  BY DEF IInv, DaemonInv, d
<1>3. deviceRemoved(d, object')
  BY DEF d
<1>4. ShownInv' /\ Rows(m_devices)' = Rows(m_devices) \ {d}
  BY <1>1, <1>2, <1>3, RowGoes DEF IInv
<1>5. {daemon'[i] : i \in Id} \ {None} = ({daemon[i] : i \in Id} \ {None}) \ {d}
  BY <1>1, <1>2 DEF d
<1>6. \A i \in Id : daemon'[i] # None => object'[daemon'[i]].life = "alive" /\ object'[daemon'[i]].id = i
  <2>1. \A i \in Id : daemon'[i] # None => daemon'[i] = daemon[i] /\ daemon[i] # d /\ daemon[i] \in Address
    BY <1>1, <1>2, DevicesApart DEF IInv
  <2>. QED BY <1>2, <2>1 DEF IInv, DaemonInv
<1>. QED BY <1>2, <1>4, <1>5, <1>6 DEF IInv, DaemonInv

LEMMA DeviceRemovedKeepsInv ==
  ASSUME IInv, NEW id \in Id, DeviceRemoved(id)
  PROVE  IInv'
<1> DEFINE d == daemon[id]
<1>1. /\ d # None /\ daemon' = [daemon EXCEPT ![id] = None]
      /\ object' = [object EXCEPT ![d] = Doomed(id)]
      /\ deviceIdRemoved(id, object') /\ UNCHANGED changes
  BY DEF DeviceRemoved
<1>2. d \in Rows(m_devices) /\ d \in Address
  BY <1>1, DevicesApart DEF IInv
<1>3. /\ object'[d] = Doomed(id) /\ object'[d].id = id /\ Doomed(id) \in Device
      /\ \A e \in Address \ {d} : object'[e] = object[e]
  BY <1>1, <1>2 DEF IInv, DaemonInv, Device, Doomed, Dead
<1>. HIDE DEF d
<1>4. \A e \in Rows(m_devices) : e \in Address /\ object'[e].id = object[e].id
  <2>1. \A e \in Rows(m_devices) : e \in Address
    BY RowsByIndex DEF IInv, ShownInv
  <2>2. object[d].id = id
    BY <1>1 DEF IInv, DaemonInv, d
  <2>. QED BY <1>3, <2>1, <2>2
<1>5. LET i == indexOfDevice(object', id) IN i \in 1..Len(m_devices) /\ m_devices[i] = d
  <2>1. \A e \in Rows(m_devices), f \in Rows(m_devices) : object'[e].id = object'[f].id => e = f
    BY <1>4, DevicesApart DEF IInv
  <2>. QED BY <1>2, <1>3, <2>1, IndexOfId DEF IInv, ShownInv
<1>6. deviceRemoved(d, object')
  BY <1>1, <1>5 DEF deviceIdRemoved
<1>. QED BY <1>1, <1>3, <1>6, ForgottenKeepsInv DEF d

LEMMA DaemonDeletesKeepsInv ==
  ASSUME IInv, NEW id \in Id, DaemonDeletes(id)
  PROVE  IInv'
<1>1. /\ daemon[id] # None /\ daemon' = [daemon EXCEPT ![id] = None]
      /\ object' = [object EXCEPT ![daemon[id]] = Dead] /\ UNCHANGED changes
  BY DEF DaemonDeletes, Destroyed
<1>2. daemon[id] \in Rows(m_devices) /\ daemon[id] \in Address
  BY <1>1, DevicesApart DEF IInv
<1>3. deviceRemoved(daemon[id], object')
  BY <1>2 DEF DaemonDeletes, Destroyed, IInv, ShownInv
<1>4. Dead \in Device
  BY DEF Device
<1>. QED BY <1>1, <1>3, <1>4, ForgottenKeepsInv

(* What happens to an object that has no row is not heard of.              *)
LEMMA UnseenKeepsInv ==
  ASSUME IInv, NEW d \in Address, d \notin Rows(m_devices), NEW x \in Device,
         object' = [object EXCEPT ![d] = x], NoSignal, UNCHANGED <<daemon, changes>>
  PROVE  IInv'
<1>1. /\ object' \in [Address -> Device] /\ \A e \in Rows(m_devices) : object'[e] = object[e]
  BY RowsByIndex DEF IInv, DaemonInv, ShownInv
<1>2. ShownInv' /\ Rows(m_devices)' = Rows(m_devices)
  <2>1. \A e \in Rows(m_devices) : Alike(object'[e], object[e])
    BY <1>1 DEF Alike
  <2>. QED BY <2>1, RowsStay DEF IInv
<1>3. \A id \in Id : daemon'[id] # None => object'[daemon'[id]] = object[daemon[id]]
  BY <1>1, DevicesApart DEF IInv
<1>. QED BY <1>1, <1>2, <1>3 DEF IInv, DaemonInv

LEMMA DeferredDeleteKeepsInv ==
  ASSUME IInv, NEW d \in Address, DeferredDelete(d)
  PROVE  IInv'
<1>1. d \notin Rows(m_devices)
  BY DevicesApart DEF IInv, DeferredDelete
<1>2. /\ object' = [object EXCEPT ![d] = Dead] /\ NoSignal /\ UNCHANGED <<daemon, changes>>
  BY <1>1 DEF DeferredDelete, Destroyed, IInv, ShownInv
<1>3. Dead \in Device
  BY DEF Device
<1>. QED BY <1>1, <1>2, <1>3, UnseenKeepsInv

LEMMA DeviceChangesKeepsInv ==
  ASSUME IInv, NEW d \in Address, DeviceChanges(d)
  PROVE  IInv'
<1>1. /\ object[d].life = "alive" /\ UNCHANGED <<daemon, changes, m_devices, watched>>
      /\ object[d] \in Living
  <2>1. object[d].life = "alive" /\ object[d] \in Device
    BY DEF DeviceChanges, IInv, DaemonInv
  <2>2. UNCHANGED <<daemon, changes, m_devices, watched>>
    <3>1. \A s : deviceDataChanged(d, s, object') => UNCHANGED <<m_devices, watched>>
      BY DEF deviceDataChanged
    <3>. QED BY <3>1 DEF DeviceChanges
  <2>3. CASE object[d] \in {Doomed(id) : id \in Id} \cup {Dead}
    <3>1. Dead.life = "dead" /\ \A id \in Id : Doomed(id).life = "doomed"
      BY DEF Doomed, Dead
    <3>. QED BY <2>1, <2>3, <3>1
  <2>4. CASE object[d] \in Living
    BY <2>1, <2>2, <2>4
  <2> DEFINE live == Living
  <2> DEFINE gone == {Doomed(id) : id \in Id} \cup {Dead}
  <2>5. object[d] \in live \/ object[d] \in gone
    <3>1. Device = live \cup gone
      BY DEF Device, Living
    <3>. HIDE DEF live, gone
    <3>. QED BY <2>1, <3>1
  <2>. QED BY <2>3, <2>4, <2>5
<1>2. PICK signal \in {"nameChanged", "pairStateChanged", "reachableChanged"} :
        /\ deviceDataChanged(d, signal, object')
        /\ \E x : /\ x \in Living
                  /\ object' = [object EXCEPT ![d] = x] /\ x.id = object[d].id
                  /\ signal # "nameChanged" => x.name = object[d].name
                  /\ signal # "pairStateChanged" => x.pair = object[d].pair
                  /\ signal # "reachableChanged" => x.reachable = object[d].reachable
  <2>1. CASE \E n \in Name \ {object[d].name} :
               /\ object' = [object EXCEPT ![d].name = n]
               /\ deviceDataChanged(d, "nameChanged", object')
    <3>1. PICK n \in Name : /\ object' = [object EXCEPT ![d].name = n]
                            /\ deviceDataChanged(d, "nameChanged", object')
      BY <2>1
    <3> DEFINE x == [object[d] EXCEPT !.name = n]
    <3>2. /\ x \in Living
          /\ object' = [object EXCEPT ![d] = x] /\ x.id = object[d].id
          /\ x.pair = object[d].pair /\ x.reachable = object[d].reachable
      BY <1>1, <3>1 DEF Living
    <3>. QED BY <3>1, <3>2
  <2>2. CASE \E p \in PairState \ {object[d].pair} :
               /\ object' = [object EXCEPT ![d].pair = p]
               /\ deviceDataChanged(d, "pairStateChanged", object')
    <3>1. PICK p \in PairState : /\ object' = [object EXCEPT ![d].pair = p]
                                 /\ deviceDataChanged(d, "pairStateChanged", object')
      BY <2>2
    <3> DEFINE x == [object[d] EXCEPT !.pair = p]
    <3>2. /\ x \in Living
          /\ object' = [object EXCEPT ![d] = x] /\ x.id = object[d].id
          /\ x.name = object[d].name /\ x.reachable = object[d].reachable
      BY <1>1, <3>1 DEF Living
    <3>. QED BY <3>1, <3>2
  <2>3. CASE /\ object' = [object EXCEPT ![d].reachable = ~@]
             /\ deviceDataChanged(d, "reachableChanged", object')
    <3> DEFINE x == [object[d] EXCEPT !.reachable = ~@]
    <3>1. /\ x \in Living
          /\ object' = [object EXCEPT ![d] = x] /\ x.id = object[d].id
          /\ x.name = object[d].name /\ x.pair = object[d].pair
      BY <1>1, <2>3 DEF Living
    <3>. QED BY <2>3, <3>1
  <2>. QED BY <2>1, <2>2, <2>3 DEF DeviceChanges
<1>3. PICK x : /\ x \in Living
               /\ object' = [object EXCEPT ![d] = x] /\ x.id = object[d].id
               /\ signal # "nameChanged" => x.name = object[d].name
               /\ signal # "pairStateChanged" => x.pair = object[d].pair
               /\ signal # "reachableChanged" => x.reachable = object[d].reachable
  BY <1>2
<1>4. x \in Device
  BY <1>3 DEF Device, Living
<1>5. object' \in [Address -> Device] /\ object'[d] = x /\ \A e \in Address \ {d} : object'[e] = object[e]
  BY <1>3, <1>4 DEF IInv, DaemonInv
<1>6. CASE d \notin Rows(m_devices)
  <2>1. NoSignal
    BY <1>1, <1>2, <1>6 DEF deviceDataChanged, NoSignal
  <2>. QED BY <1>1, <1>3, <1>4, <1>6, <2>1, UnseenKeepsInv
<1>7. CASE d \in Rows(m_devices)
  <2> DEFINE roles == connectDevice(signal)
  <2>1. watched[d] = 1
    BY <1>7 DEF IInv, ShownInv
  <2>2. dataChanged(d, roles, object')
    BY <1>2, <1>7, <2>1 DEF deviceDataChanged
  <2>3. \A r \in Role \ roles : Data(object'[d])[r] = Data(object[d])[r]
    <3>1. CASE signal = "nameChanged"
      BY <1>3, <1>5, <3>1 DEF Data, Role, connectDevice
    <3>2. CASE signal = "pairStateChanged"
      BY <1>3, <1>5, <3>2 DEF Data, Role, connectDevice
    <3>3. CASE signal = "reachableChanged"
      BY <1>3, <1>5, <3>3 DEF Data, Role, connectDevice
    <3>. QED BY <3>1, <3>2, <3>3
  <2>. HIDE DEF roles
  <2>4. ShownInv' /\ Rows(m_devices)' = Rows(m_devices)
    BY <1>1, <1>5, <1>7, <2>2, <2>3, RowChanges DEF IInv
  <2>5. \A id \in Id : daemon'[id] # None => object'[daemon'[id]].life = "alive" /\ object'[daemon'[id]].id = id
    <3>1. ASSUME NEW id \in Id, daemon[id] # None
          PROVE  object'[daemon[id]].life = "alive" /\ object'[daemon[id]].id = id
      <4>1. daemon[id] \in Address /\ object[daemon[id]].life = "alive" /\ object[daemon[id]].id = id
        BY <3>1 DEF IInv, DaemonInv
      <4>2. CASE daemon[id] = d
        BY <1>3, <1>5, <4>1, <4>2 DEF Living
      <4>3. CASE daemon[id] # d
        BY <1>5, <4>1, <4>3
      <4>. QED BY <4>2, <4>3
    <3>. QED BY <1>1, <3>1
  <2>. QED BY <1>1, <1>5, <2>4, <2>5 DEF IInv, DaemonInv
<1>. QED BY <1>6, <1>7

(* The type shows in nothing but the icon, of which nobody hears.          *)
LEMMA TypeChangesKeepsInv ==
  ASSUME IInv, NEW d \in Address, TypeChanges(d)
  PROVE  IInv'
<1>1. /\ object[d].life = "alive" /\ object[d] \in Device /\ NoSignal /\ daemon' = daemon
      /\ changes' = changes + 1 /\ changes < MaxChanges
  BY DEF TypeChanges, IInv, DaemonInv
<1>2. PICK t \in Type : object' = [object EXCEPT ![d].type = t]
  BY DEF TypeChanges
<1>3. object[d] \in Living
  <2>1. Dead.life = "dead" /\ \A id \in Id : Doomed(id).life = "doomed"
    BY DEF Doomed, Dead
  <2>2. Device = Living \cup {Doomed(id) : id \in Id} \cup {Dead}
    BY DEF Device, Living
  <2>. QED BY <1>1, <2>1, <2>2
<1> DEFINE x == [object[d] EXCEPT !.type = t]
<1>4. x \in Living /\ Alike(x, object[d]) /\ x.life = "alive" /\ x.id = object[d].id
  BY <1>3 DEF Living, Alike
<1>5. x \in Device /\ object' = [object EXCEPT ![d] = x]
  BY <1>2, <1>4 DEF Device, Living
<1>. HIDE DEF x
<1>6. /\ object' \in [Address -> Device]
      /\ \A e \in Address : /\ Alike(object'[e], object[e]) /\ object'[e].id = object[e].id
                            /\ object'[e].life = object[e].life
  <2>1. object \in [Address -> Device]
    BY DEF IInv, DaemonInv
  <2>2. object'[d] = x /\ \A e \in Address \ {d} : object'[e] = object[e]
    BY <1>5, <2>1
  <2>3. \A o : Alike(o, o)
    BY DEF Alike
  <2>. QED BY <1>1, <1>4, <1>5, <2>1, <2>2, <2>3
<1>7. ShownInv' /\ Rows(m_devices)' = Rows(m_devices)
  <2>1. \A e \in Rows(m_devices) : e \in Address
    BY RowsByIndex DEF IInv, ShownInv
  <2>. QED BY <1>1, <1>6, <2>1, RowsStay DEF IInv
<1>8. DaemonInv'
  <2>1. \A id \in Id : daemon[id] # None => daemon[id] \in Address
    BY DEF IInv, DaemonInv
  <2>. QED BY <1>1, <1>6, <1>7, <2>1 DEF IInv, DaemonInv
<1>9. changes' \in 0..MaxChanges
  BY <1>1, DeviceListAssumption DEF IInv
<1>. QED BY <1>7, <1>8, <1>9 DEF IInv

(* A step of a view, heard by the view of it.                              *)
LEMMA ViewStepKeepsInv ==
  ASSUME IInv, NEW v \in Views, NEW w, views' = Reviewed(v, w),
         v = "near" => views["nonpaired"] # None,
         ViewOK(v, w, Source(v, views, Rows(m_devices)), AllData(object)),
         UNCHANGED <<daemon, object, m_devices, watched, painted>>, changes' \in 0..MaxChanges
  PROVE  IInv'
<1>1. ViewsOK(Reviewed(v, w), Rows(m_devices), AllData(object))
  BY ReviewedKeepsViews DEF IInv, ShownInv
<1>2. ViewsInv'
  BY <1>1 DEF ViewsInv, Rows, AllData
<1>6. Rows(m_devices)' = Rows(m_devices)
  BY DEF Rows
<1>3. PaintInv'
  BY <1>6 DEF IInv, ShownInv, PaintInv
<1>4. DaemonInv'
  BY <1>6 DEF IInv, DaemonInv
<1>5. ShownInv'
  BY <1>2, <1>6, <1>3 DEF IInv, ShownInv
<1>. QED BY <1>4, <1>5 DEF IInv

LEMMA ViewCreatedKeepsInv ==
  ASSUME IInv, NEW v \in Views, ViewCreated(v)
  PROVE  IInv'
<1> DEFINE src == Source(v, views, Rows(m_devices))
<1> DEFINE built(order) == SetUp([i \in DOMAIN order |-> Settings(v)[order[i]]], src, AllData(object))
<1>1. PICK order \in Bijection(DOMAIN Settings(v), DOMAIN Settings(v)) :
        views' = Reviewed(v, built(order))
  BY DEF ViewCreated
<1>2. /\ v = "near" => views["nonpaired"] # None
      /\ UNCHANGED <<daemon, object, m_devices, watched, painted, changes>>
  <2>. HIDE DEF built, src
  <2>. QED BY DEF ViewCreated
<1>3. src \in SUBSET Address
  BY SourceIsRows, RowsByIndex DEF IInv, ShownInv, ViewsInv
<1>4. ViewOK(v, built(order), src, AllData(object))
  <2>. HIDE DEF src
  <2>. QED BY <1>3, SetUpKeepsView
<1>5. changes' \in 0..MaxChanges
  BY <1>2 DEF IInv
<1>. HIDE DEF built
<1>. QED BY <1>1, <1>2, <1>4, <1>5, ViewStepKeepsInv

LEMMA ViewCompleteKeepsInv ==
  ASSUME IInv, NEW v \in Views, ViewComplete(v)
  PROVE  IInv'
<1> DEFINE src == Source(v, views, Rows(m_devices))
<1> DEFINE w == componentComplete(views[v], src, AllData(object))
<1>1. /\ views[v] # None /\ ~views[v].m_complete /\ views' = Reviewed(v, w)
      /\ UNCHANGED <<daemon, object, m_devices, watched, painted, changes>>
  BY DEF ViewComplete
<1>2. ViewOK(v, views[v], src, AllData(object)) /\ (v = "near" => views["nonpaired"] # None)
  BY <1>1 DEF IInv, ShownInv, ViewsInv, ViewsOK
<1>3. src \in SUBSET Address
  BY SourceIsRows, RowsByIndex DEF IInv, ShownInv, ViewsInv
<1>4. ViewOK(v, w, src, AllData(object))
  <2>. HIDE DEF src
  <2>. QED BY <1>1, <1>2, <1>3, CompleteKeepsView
<1>5. changes' \in 0..MaxChanges
  BY <1>1 DEF IInv
<1>. HIDE DEF w
<1>. QED BY <1>1, <1>2, <1>4, <1>5, ViewStepKeepsInv

LEMMA ViewChangesKeepsInv ==
  ASSUME IInv, NEW p \in LaterSettings, ViewChanges(p)
  PROVE  IInv'
<1> DEFINE w == Assign(views["cover"], p, Rows(m_devices), AllData(object))
<1>1. /\ views["cover"] # None /\ views["cover"].m_complete /\ views' = Reviewed("cover", w)
      /\ changes < MaxChanges /\ changes' = changes + 1
      /\ UNCHANGED <<daemon, object, m_devices, watched, painted>>
  BY DEF ViewChanges
<1>2. "cover" \in Views /\ Source("cover", views, Rows(m_devices)) = Rows(m_devices)
  BY DEF Views, Source
<1>3. ViewOK("cover", views["cover"], Rows(m_devices), AllData(object))
  BY <1>1, <1>2 DEF IInv, ShownInv, ViewsInv, ViewsOK
<1>4. Rows(m_devices) \in SUBSET Address
  BY RowsByIndex DEF IInv, ShownInv
<1>5. ViewOK("cover", w, Rows(m_devices), AllData(object))
  BY <1>1, <1>3, <1>4, AssignKeepsView
<1>6. changes' \in 0..MaxChanges
  BY <1>1, DeviceListAssumption DEF IInv
<1>. HIDE DEF w
<1>. QED BY <1>1, <1>2, <1>5, <1>6, ViewStepKeepsInv


LEMMA InitInv ==
  ASSUME Init
  PROVE  IInv
<1>1. m_devices = <<>> /\ Rows(m_devices) = {}
  BY DEF Init, Rows
<1>2. DaemonInv
  BY <1>1 DEF Init, DaemonInv, Device
<1>3. PaintInv
  BY <1>1 DEF Init, PaintInv
<1>4. ViewsInv
  <2>1. DOMAIN views = Views /\ \A v \in Views : views[v] = None
    BY DEF Init
  <2>. QED BY <2>1 DEF ViewsInv, ViewsOK, Views
<1>5. m_devices \in Seq(Address) /\ IsInjective(m_devices)
  BY <1>1 DEF IsInjective
<1>6. watched = [d \in Address |-> IF d \in Rows(m_devices) THEN 1 ELSE 0]
  BY <1>1 DEF Init
<1>7. changes \in 0..MaxChanges
  BY DeviceListAssumption DEF Init
<1>. QED BY <1>2, <1>3, <1>4, <1>5, <1>6, <1>7 DEF IInv, ShownInv

LEMMA StepInv ==
  ASSUME IInv, [Next]_vars
  PROVE  IInv'
<1>1. CASE UNCHANGED vars
  <2>1. UNCHANGED <<daemon, object, m_devices, watched, views, painted, changes>>
    BY <1>1 DEF vars
  <2>2. Rows(m_devices)' = Rows(m_devices) /\ AllData(object)' = AllData(object)
    BY <2>1 DEF Rows, AllData
  <2>3. ViewsInv'
    BY <2>1, <2>2 DEF IInv, ShownInv, ViewsInv
  <2>. QED BY <2>1, <2>2, <2>3 DEF IInv, DaemonInv, ShownInv, PaintInv
<1>2. ASSUME NEW id \in Id, NEW d \in Address, NEW n \in Name, NEW p \in PairState, NEW r \in BOOLEAN,
             NEW t \in FirstType, DeviceAdded(id, d, n, p, r, t)
      PROVE  IInv'
  BY <1>2, DeviceAddedKeepsInv
<1>3. ASSUME NEW id \in Id, DeviceRemoved(id) \/ DaemonDeletes(id)
      PROVE  IInv'
  BY <1>3, DeviceRemovedKeepsInv, DaemonDeletesKeepsInv
<1>4. ASSUME NEW d \in Address, DeferredDelete(d) \/ DeviceChanges(d) \/ TypeChanges(d)
      PROVE  IInv'
  BY <1>4, DeferredDeleteKeepsInv, DeviceChangesKeepsInv, TypeChangesKeepsInv
<1>5. ASSUME NEW v \in Views, ViewCreated(v) \/ ViewComplete(v)
      PROVE  IInv'
  BY <1>5, ViewCreatedKeepsInv, ViewCompleteKeepsInv
<1>6. ASSUME NEW p \in LaterSettings, ViewChanges(p)
      PROVE  IInv'
  BY <1>6, ViewChangesKeepsInv
<1>. QED BY <1>1, <1>2, <1>3, <1>4, <1>5, <1>6 DEF Next

(* The invariant holds in every reachable state.                           *)
THEOREM Invariance == Spec => []IInv
<1>1. Init => IInv
  BY InitInv
<1>2. IInv /\ [Next]_vars => IInv'
  BY StepInv
<1>. QED BY <1>1, <1>2, PTL DEF Spec

-----------------------------------------------------------------------------
(* The properties.                                                         *)

LEMMA InvHasTypes == IInv => TypeOK
<1>. SUFFICES ASSUME IInv PROVE TypeOK
  OBVIOUS
<1>1. watched \in [Address -> 0..2]
  BY DEF IInv, ShownInv
<1>2. \A v \in Views : views[v] \in View(Address, Role) \cup {None}
  BY DEF IInv, ShownInv, ViewsInv, ViewsOK, ViewOK
<1>. QED BY <1>1, <1>2 DEF IInv, DaemonInv, ShownInv, PaintInv, TypeOK

(* Every variable keeps to its type (the state of DeviceListModel, of the  *)
(* daemon's devices and of the views).                                     *)
THEOREM TypeCorrectness == Spec => []TypeOK
BY Invariance, InvHasTypes, PTL

LEMMA InvHasRows == IInv => RowsAreTheDaemons
<1>. SUFFICES ASSUME IInv PROVE RowsAreTheDaemons
  OBVIOUS
<1>1. Len(m_devices) = Cardinality(Rows(m_devices))
  <2> DEFINE N == 1..Len(m_devices)
  <2>1. m_devices \in Seq(Address) /\ IsInjective(m_devices)
    BY DEF IInv, ShownInv
  <2>2. IsFiniteSet(N) /\ Cardinality(N) = Len(m_devices)
    <3>1. Len(m_devices) \in Nat
      BY <2>1
    <3>. QED BY <3>1, FS_Interval
  <2>3. Rows(m_devices) = {m_devices[i] : i \in N} /\ Distinct(m_devices)
    BY <2>1, RowsByIndex, DistinctIsInjective
  <2>4. DOMAIN m_devices = N /\ m_devices = [i \in N |-> m_devices[i]]
    <3>1. DOMAIN m_devices = N
      BY <2>1
    <3>2. m_devices = [i \in DOMAIN m_devices |-> m_devices[i]]
      BY <2>1
    <3>. QED BY <3>1, <3>2
  <2>. HIDE DEF N
  <2>5. m_devices \in Bijection(N, Rows(m_devices))
    BY <2>1, <2>3, <2>4 DEF Bijection, Injection, Surjection, IsInjective
  <2>6. ExistsBijection(N, Rows(m_devices))
    BY <2>5 DEF ExistsBijection
  <2>. QED BY <2>2, <2>6, FS_Bijection
<1>. QED BY <1>1 DEF IInv, DaemonInv, ShownInv, RowsAreTheDaemons

(* The rows are the daemon's devices, each once, none points to an object  *)
(* that is gone, and each is listened to once (the pointers of m_devices   *)
(* and the connections of connectDevice).                                  *)
THEOREM RowsAreDevices == Spec => []RowsAreTheDaemons
BY Invariance, InvHasRows, PTL

LEMMA InvHasPage == IInv => PageIsCurrent
<1>. SUFFICES ASSUME IInv PROVE PageIsCurrent
  OBVIOUS
<1> DEFINE rows == Rows(m_devices)
<1> DEFINE data == AllData(object)
<1>1. \A d \in rows, r \in Role : painted[d][r] = Data(object[d])[r]
  BY DEF IInv, ShownInv, PaintInv
<1>2. rows \in SUBSET Address
  BY RowsByIndex DEF IInv, ShownInv
<1>3. \A d \in rows : data[d].paired = Flag(object[d].pair = "yes") /\ data[d].reachable = Flag(object[d].reachable)
  <2>1. \A d \in rows : data[d] = Data(object[d])
    BY <1>2, AllDataOf
  <2>2. \A o : Data(o).paired = Flag(o.pair = "yes") /\ Data(o).reachable = Flag(o.reachable)
    BY DEF Data
  <2>. HIDE DEF data, rows
  <2>. QED BY <2>1, <2>2
<1>4. ASSUME \A v \in {"paired", "nonpaired", "near"} : views[v] # None /\ views[v].m_complete
      PROVE  /\ views["paired"].rows = {d \in rows : object[d].pair = "yes"}
             /\ views["near"].rows = {d \in rows : object[d].pair # "yes" /\ object[d].reachable}
  <2>1. \A v \in {"paired", "nonpaired", "near"} :
          AsWritten(v, views[v]) /\ views[v].rows = Wanted(views[v], Source(v, views, rows), data)
    BY <1>4 DEF IInv, ShownInv, ViewsInv, ViewsOK, ViewOK, Views
  <2>. HIDE DEF rows, data
  <2>2. /\ Source("paired", views, rows) = rows /\ Source("nonpaired", views, rows) = rows
        /\ Source("near", views, rows) = views["nonpaired"].rows
    BY <1>4 DEF Source
  <2>3. /\ views["paired"].rows = {d \in rows : data[d].paired = "true"}
        /\ views["nonpaired"].rows = {d \in rows : data[d].paired = "false"}
        /\ views["near"].rows = {d \in views["nonpaired"].rows : data[d].reachable = "true"}
    BY <2>1, <2>2 DEF Wanted, AsWritten, RoleKey, Unset
  <2>4. \A d \in rows : /\ data[d].paired = "true" <=> object[d].pair = "yes"
                        /\ data[d].paired = "false" <=> object[d].pair # "yes"
                        /\ data[d].reachable = "true" <=> object[d].reachable
    BY <1>3 DEF Flag
  <2>. QED BY <2>3, <2>4
<1>. QED BY <1>1, <1>4 DEF PageIsCurrent

(* The page's lists hold the paired devices and the reachable others, and  *)
(* no other, and the delegates show the name, pairing and reachability of  *)
(* their devices, though not always the icon (the two filters of           *)
(* DeviceListPage, and the roles that deviceDataChanged passes on).        *)
THEOREM PageStaysCurrent == Spec => []PageIsCurrent
BY Invariance, InvHasPage, PTL

LEMMA InvHasSettings == IInv => ViewsObeySettings
BY DEF IInv, ShownInv, ViewsInv, ViewsOK, ViewOK, AsWritten, Agrees, ViewsObeySettings

(* A complete view shows what its present settings ask for, by the role    *)
(* that they name, in whatever order they were assigned and however often  *)
(* they change (SortFilterModel's setters before and after                 *)
(* componentComplete).                                                     *)
THEOREM ViewsObey == Spec => []ViewsObeySettings
BY Invariance, InvHasSettings, PTL

=============================================================================
