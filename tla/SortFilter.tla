----------------------------- MODULE SortFilter -----------------------------
(***************************************************************************)
(* SortFilterModel (sortfiltermodel.cpp): a filtered and sorted view of a  *)
(* list model, set up from QML, where the properties are assigned in any   *)
(* order between classBegin() and componentComplete() and may be assigned  *)
(* again later.                                                            *)
(*                                                                         *)
(* A view is a record and every operation a function from record to        *)
(* record.  "rows" is what the base class, QSortFilterProxyModel, keeps of *)
(* the source: it asks filterAcceptsRow about a row when the row is        *)
(* inserted or its data change, and about all rows when told to.           *)
(* Parameters: src, the rows of the source, and data, what they hold.      *)
(***************************************************************************)
EXTENDS Integers, SequencesExt

\* "none", "value" and "regex"; a value that is not set is an invalid QVariant.
Modes == {"none", "value", "regex"}
Unset == "unset"
Flag(b) == IF b THEN "true" ELSE "false"
Flags == {"true", "false"}
Display == "display" \* Qt::DisplayRole, which a list of devices has no data for

View(Row, Role) ==
  [m_complete: BOOLEAN, mode: Modes, filterValue: Flags \cup {Unset}, filterRole: Role \cup {""},
   sortRole: Role \cup {""}, ascending: BOOLEAN,
   baseFilter: Role \cup {Display}, baseSort: Role \cup {Display}, regExp: Flags \cup {Unset},
   sorted: {"no", "up", "down"}, rows: SUBSET Row]

SortFilterModel ==
  [m_complete |-> FALSE, mode |-> "none", filterValue |-> Unset, filterRole |-> "",
   sortRole |-> "", ascending |-> TRUE, baseFilter |-> Display, baseSort |-> Display,
   regExp |-> Unset, sorted |-> "no", rows |-> {}]

filterAcceptsRow(v, r, data) ==
  CASE v.mode = "none"  -> TRUE
    [] v.mode = "value" -> \/ ~v.m_complete \/ v.filterValue = Unset
                           \/ data[r][v.baseFilter] = v.filterValue
    [] v.mode = "regex" -> v.regExp = Unset \/ data[r][v.baseFilter] = v.regExp

Refiltered(v, src, data) == [v EXCEPT !.rows = {r \in src : filterAcceptsRow(v, r, data)}]

invalidateFilter(v, src, data) ==
  IF ~v.m_complete THEN v
  ELSE Refiltered([v EXCEPT !.regExp = IF v.mode = "regex" THEN v.filterValue ELSE @], src, data)

setFilterMode(v, mode, src, data) ==
  IF mode = v.mode THEN v ELSE invalidateFilter([v EXCEPT !.mode = mode], src, data)

setFilterValue(v, value, src, data) ==
  IF value = v.filterValue THEN v
  ELSE invalidateFilter([v EXCEPT !.filterValue = value, !.mode = IF @ = "none" THEN "value" ELSE @], src, data)

\* (Names with an underscore are faulty variants, the mutants that show that
\* the properties notice: each stands before what it is a fault of.)
\* Fault: a role that is not named is looked up all the same.
RoleKey_AsNamed(name) == name

RoleKey(name) == IF name = "" THEN Display ELSE name

setFilterRole(v, name, src, data) ==
  LET w == [v EXCEPT !.filterRole = name] IN
  IF name = v.filterRole \/ ~v.m_complete THEN w
  ELSE Refiltered([w EXCEPT !.baseFilter = RoleKey(name)], src, data)

setSortRole(v, name) ==
  [v EXCEPT !.sortRole = name, !.baseSort = IF v.m_complete THEN RoleKey(name) ELSE @]

Sorted(v) == [v EXCEPT !.sorted = IF v.ascending THEN "up" ELSE "down"]

setSortAscending(v, ascending) ==
  LET w == [v EXCEPT !.ascending = ascending] IN
  IF ascending # v.ascending /\ v.m_complete /\ v.sortRole # "" THEN Sorted(w) ELSE w

onRoleNamesChanged(v, src, data) ==
  IF ~v.m_complete THEN v
  ELSE Refiltered([v EXCEPT !.baseSort = RoleKey(v.sortRole), !.baseFilter = RoleKey(v.filterRole)], src, data)

\* QAbstractProxyModel::setSourceModel signals sourceModelChanged and modelReset.
setSourceModel(v, src, data) ==
  onRoleNamesChanged(Refiltered(v, src, data), src, data)

\* Fault: the roles named before the completion are left as they are.
componentComplete_NoRoles(v, src, data) ==
  LET w == invalidateFilter([v EXCEPT !.m_complete = TRUE], src, data)
  IN IF w.sortRole # "" THEN Sorted(w) ELSE w

componentComplete(v, src, data) ==
  LET w == invalidateFilter(onRoleNamesChanged([v EXCEPT !.m_complete = TRUE], src, data), src, data)
  IN IF w.sortRole # "" THEN Sorted(w) ELSE w

\* QML's assignment of one property.
Assign(v, p, src, data) ==
  CASE p.name = "filterMode"    -> setFilterMode(v, p.value, src, data)
    [] p.name = "filterValue"   -> setFilterValue(v, p.value, src, data)
    [] p.name = "filterRole"    -> setFilterRole(v, p.value, src, data)
    [] p.name = "sortRole"      -> setSortRole(v, p.value)
    [] p.name = "sortAscending" -> setSortAscending(v, p.value)
    [] p.name = "sourceModel"   -> setSourceModel(v, src, data)

SetUp(assignments, src, data) ==
  LET after[i \in 0..Len(assignments)] ==
        IF i = 0 THEN SortFilterModel ELSE Assign(after[i - 1], assignments[i], src, data)
  IN after[Len(assignments)]

\* QSortFilterProxyModel's reaction to the rows its source inserts, removes or
\* changes: it asks about these rows only.
RowsTold(v, before, after, changed, data) ==
  [v EXCEPT !.rows = {r \in after : IF r \in before \ changed THEN r \in v.rows
                                    ELSE filterAcceptsRow(v, r, data)}]

-----------------------------------------------------------------------------
\* What the settings of a completed view ask for, in whatever order they came.
Wanted(v, src, data) ==
  {r \in src : v.mode = "none" \/ v.filterValue = Unset \/ data[r][RoleKey(v.filterRole)] = v.filterValue}
=============================================================================
