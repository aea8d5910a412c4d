----------------------------- MODULE LogFilters -----------------------------
(***************************************************************************)
(* The filters of a log widget: the tree of directories, files and lines   *)
(* of the file filter (filters/file_filter.hpp, models/treemodel.inl,      *)
(* widgets/logs/filters/filter_fileline.cpp), the thread filter, the       *)
(* manager that holds them (filters/filtermgrbase.cpp,                     *)
(* widgets/logs/filters/filtermgr.cpp), the rows the filter proxy lets     *)
(* through, the commands that exclude the selected rows                    *)
(* (widgets/logs/logwidget_actions.cpp) and the presets a user saves and   *)
(* applies.                                                                *)
(*                                                                         *)
(* A path is a sequence of names and the root is the empty path.  A line   *)
(* of a source file is a path too; its prefixes are its file and           *)
(* directories.  All of this runs in the one thread of the user interface, *)
(* but the user, the stream and the loop over a selection take turns in    *)
(* it.  The verdict of the manager does not depend on the order of its     *)
(* filters, since it asks all of them, so they are a set here.             *)
(***************************************************************************)
EXTENDS Integers, Sequences, FiniteSets

CONSTANTS
  Names,      (* the names of directories, files and line numbers           *)
  Lines,      (* the lines messages come from, as paths                     *)
  Tids,       (* the threads messages come from                             *)
  MaxRows,    (* bound: rows of the source table                            *)
  MaxChanges  (* bound: operations of the user                              *)

Root == <<>>
Above(n) == {SubSeq(n, 1, k) : k \in 0 .. Len(n) - 1}
Parent(n) == SubSeq(n, 1, Len(n) - 1)

(* A message names a file and a line, and no line is the file of another.  *)
ASSUME LinesAssumption ==
  /\ \A l \in Lines : l \in Seq(Names) /\ Len(l) > 1
  /\ \A l \in Lines : \A k \in Lines : l \notin Above(k)

ASSUME BoundsAssumption == MaxRows \in Nat /\ MaxChanges \in Nat

VARIABLES
  tree,     (* m_data of the file filter: the check state of every known path *)
  rows,     (* the rows of the source table                                 *)
  shown,    (* the rows m_map_from_src of the filter proxy holds            *)
  fresh,    (* of the rows since the last rebuild, those whose line the     *)
            (* filter did not know when it was asked                        *)
  filters,  (* m_filters of the manager                                     *)
  enabled,  (* those of them with m_enabled                                 *)
  wired,    (* those whose filterChangedSignal reaches the widget           *)
  mgrOn,    (* m_enabled of the manager                                     *)
  proxied,  (* isModelProxy: the view shows the proxy and not the source    *)
  doubled,  (* the manager's own signals are connected more than once       *)
  hidden,   (* the threads the thread filter hides                          *)
  picked,   (* the indices of the view an exclusion still has to visit      *)
  what,     (* what it excludes                                             *)
  chosen,   (* the rows that were selected when it began                    *)
  preset,   (* the configuration on disk                                    *)
  strays,   (* paths whose state their parent need not tell                 *)
  stale,    (* filters have changed in a way that refilters nothing         *)
  changes   (* operations of the user so far                                *)

filterVars == <<filters, enabled, wired, mgrOn, doubled, hidden>>
pickVars == <<picked, what, chosen>>
vars == <<tree, rows, shown, fresh, filters, enabled, wired, mgrOn, proxied, doubled, hidden,
          picked, what, chosen, preset, strays, stale, changes>>

States == {"Unchecked", "Partial", "Checked"}
Filters == {"FileLn", "Tid"}
Kinds == {"line", "file"}
Nodes == {Root} \cup Lines \cup UNION {Above(l) : l \in Lines}

(* Nothing known: the tree a new file filter starts with. *)
Bare == [n \in {Root} |-> "Unchecked"]

NoPreset == [stored |-> FALSE, mgrOn |-> TRUE, filters |-> Filters, enabled |-> Filters,
             tree |-> Bare, hidden |-> {}, strays |-> {}]

-----------------------------------------------------------------------------
(* The tree *)

(* Mutant of SetData: a parent whose other children do not agree is left as it was. *)
SetDataKeepsParents(t, n, s) ==
  [p \in DOMAIN t |->
     IF p = n \/ (n \in Above(p) /\ s # "Partial") THEN s
     ELSE IF p \in Above(n)
          THEN IF \A q \in DOMAIN t \ (Above(n) \cup {n}) :
                    Parent(q) \in Above(n) /\ p \in Above(q) => t[q] = s
               THEN s ELSE t[p]
          ELSE t[p]]

(* TreeModel::setData on a check box: a state goes down to everything      *)
(* below and up as far as everything else agrees with it; the rest of the  *)
(* way up is Partial.                                                      *)
SetData(t, n, s) ==
  [p \in DOMAIN t |->
     IF p = n \/ (n \in Above(p) /\ s # "Partial") THEN s
     ELSE IF p \in Above(n)
          THEN IF \A q \in DOMAIN t \ (Above(n) \cup {n}) :
                    Parent(q) \in Above(n) /\ p \in Above(q) => t[q] = s
               THEN s ELSE "Partial"
          ELSE t[p]]

(* TreeModel::stateToChildren of the root *)
SetAll(t, s) == [p \in DOMAIN t |-> IF p = Root THEN t[p] ELSE s]

(* The paths a message of each line of ls adds *)
NewPaths(t, ls) == (ls \cup UNION {Above(l) : l \in ls}) \ DOMAIN t

(* Mutant of Inserted: the line is added without what is above it. *)
InsertedAlone(t, ls) == [n \in DOMAIN t \cup ls |-> IF n \in DOMAIN t THEN t[n] ELSE "Checked"]

(* TreeModel::insertItem for every line of ls the tree does not have: what  *)
(* is new on the way is Checked, and a line takes the state of the file it  *)
(* is put under when that was there.  The order does not matter.            *)
Inserted(t, ls) ==
  [n \in DOMAIN t \cup NewPaths(t, ls) |->
     IF n \in DOMAIN t THEN t[n]
     ELSE IF n \in ls /\ Parent(n) \in DOMAIN t /\ t[Parent(n)] # "Checked"
          THEN "Unchecked" ELSE "Checked"]

(* FilterFileLine::mergeWithConfig: what the preset knows gets its state;   *)
(* the topmost path it does not know keeps its own and what is below that   *)
(* gets the state of the last path the preset knows, Unchecked for Partial. *)
Known(n, pt) == CHOOSE a \in Above(n) \cap DOMAIN pt :
                  \A b \in Above(n) \cap DOMAIN pt : Len(b) <= Len(a)
Merged(t, pt) ==
  [n \in DOMAIN t \cup DOMAIN pt |->
     IF n \in DOMAIN pt THEN pt[n]
     ELSE IF Parent(n) \in DOMAIN pt THEN t[n]
     ELSE IF pt[Known(n, pt)] = "Checked" THEN "Checked" ELSE "Unchecked"]

-----------------------------------------------------------------------------
(* The proxy *)

Verdict(r, t, fr, en, hid) ==
  /\ "FileLn" \in en => r \in fr \/ t[rows[r].line] # "Unchecked"
  /\ "Tid" \in en => rows[r].tid \notin hid

(* A row is the first of its line. *)
First(r) == \A q \in 1 .. r - 1 : rows[q].line # rows[r].line

(* Paths that become known as Checked under a directory that is Unchecked *)
Orphans(t, ls) == {n \in NewPaths(t, ls) \ ls :
                     Parent(n) \in DOMAIN t /\ t[Parent(n)] = "Unchecked"}

(* Mutant of ForceUpdate: the rows the proxy has are filtered again, not those of its source. *)
ForceUpdateShrinks(t, st, en, hid, twice) ==
  /\ tree' = t
  /\ strays' = st
  /\ fresh' = {}
  /\ shown' = {r \in shown : Verdict(r, t, {}, en, hid)}
  /\ stale' = FALSE

(* BaseProxyModel::force_update: every row is put to the enabled filters,   *)
(* and the file filter adds a line it does not know and lets that row pass. *)
(* A second pass knows every line.                                          *)
ForceUpdate(t, st, en, hid, twice) ==
  LET ls == IF "FileLn" \in en THEN {rows[r].line : r \in DOMAIN rows} ELSE {} IN
  /\ tree' = Inserted(t, ls)
  /\ strays' = st \cup Orphans(t, ls)
  /\ fresh' = IF twice THEN {}
              ELSE {r \in DOMAIN rows : rows[r].line \in ls \ DOMAIN t /\ First(r)}
  /\ shown' = {r \in DOMAIN rows : Verdict(r, tree', fresh', en, hid)}
  /\ stale' = FALSE

(* LogWidget::onInvalidateFilter, with the tree t the caller left *)
Invalidate(t, st, en, hid, twice) ==
  IF proxied THEN ForceUpdate(t, st, en, hid, twice)
             ELSE tree' = t /\ strays' = st /\ UNCHANGED <<shown, fresh, stale>>

(* LogWidget::setFilteringProxy *)
SetFilteringProxy(on, t, st, en, hid, twice) ==
  /\ proxied' = on
  /\ IF on THEN ForceUpdate(t, st, en, hid, twice)
           ELSE tree' = t /\ strays' = st /\ stale' = FALSE /\ UNCHANGED <<shown, fresh>>

(* FilterBase::emitFilterChangedSignal of filter f, after a change of its  *)
(* data: nothing when it is disabled, nothing when nobody listens.         *)
FilterChanged(f, t, st, hid) ==
  IF f \in enabled \cap wired
  THEN Invalidate(t, st, enabled, hid, FALSE)
  ELSE /\ tree' = t
       /\ strays' = st
       /\ stale' = (stale \/ f \in enabled)
       /\ UNCHANGED <<shown, fresh>>

-----------------------------------------------------------------------------
(* Steps of the program.  A user's command is finished before anything else *)
(* happens, except for the rows of a selection, which are visited in turn.  *)

Init ==
  /\ tree = Bare
  /\ rows = <<>>
  /\ shown = {} /\ fresh = {}
  /\ filters = Filters /\ enabled = Filters /\ wired = Filters
  /\ mgrOn = TRUE /\ proxied = TRUE /\ doubled = FALSE
  /\ hidden = {}
  /\ picked = {} /\ what = "line" /\ chosen = {}
  /\ preset = NoPreset
  /\ strays = {} /\ stale = FALSE
  /\ changes = 0

(* What every command of the user but an exclusion has in common *)
Command ==
  /\ picked = {} /\ changes < MaxChanges
  /\ changes' = changes + 1
  /\ chosen' = {}
  /\ UNCHANGED <<picked, what>>

(* LogTableModel::commitCommands and LogFilterProxyModel::commitBatchToModel *)
(* for one row                                                              *)
Message(l, t) ==
  LET r == Len(rows) + 1
      asked == proxied /\ "FileLn" \in enabled
      ls == IF asked THEN {l} ELSE {}
  IN /\ picked = {} /\ Len(rows) < MaxRows
     /\ rows' = Append(rows, [line |-> l, tid |-> t])
     /\ tree' = Inserted(tree, ls)
     /\ strays' = strays \cup Orphans(tree, ls)
     /\ fresh' = IF asked /\ l \notin DOMAIN tree THEN fresh \cup {r} ELSE fresh
     /\ shown' = IF /\ proxied
                    /\ "FileLn" \in enabled => r \in fresh' \/ tree'[l] # "Unchecked"
                    /\ "Tid" \in enabled => t \notin hidden
                 THEN shown \cup {r} ELSE shown
     /\ UNCHANGED <<filterVars, proxied, pickVars, preset, stale, changes>>

(* LogWidget::clearAllData: the tree keeps what it knows. *)
ClearAllData ==
  /\ Command
  /\ rows' = <<>> /\ shown' = {} /\ fresh' = {}
  /\ UNCHANGED <<tree, filterVars, proxied, preset, strays, stale>>

(* Paths that a state put on n settles *)
Settled(t, n, s) ==
  Above(n) \cup {n} \cup (IF s = "Partial" THEN {} ELSE {p \in DOMAIN t : n \in Above(p)})

(* A click on a check box of the tree: TreeModel::setData, onClickedAtFileTree *)
Click(n, s) ==
  /\ Command
  /\ "FileLn" \in filters /\ n \in DOMAIN tree \ {Root} /\ s # tree[n]
  /\ FilterChanged("FileLn", SetData(tree, n, s), strays \ Settled(tree, n, s), hidden)
  /\ UNCHANGED <<rows, filterVars, proxied, preset>>

(* FilterFileLine::onSelectAll and onSelectNone *)
SelectAll(s) ==
  /\ Command
  /\ "FileLn" \in filters
  /\ FilterChanged("FileLn", SetAll(tree, s), {}, hidden)
  /\ UNCHANGED <<rows, filterVars, proxied, preset>>

(* A click on a thread of the thread filter *)
ToggleTid(t) ==
  /\ Command
  /\ "Tid" \in filters
  /\ hidden' = IF t \in hidden THEN hidden \ {t} ELSE hidden \cup {t}
  /\ FilterChanged("Tid", tree, strays, hidden')
  /\ UNCHANGED <<rows, filters, enabled, wired, mgrOn, doubled, proxied, preset>>

(* FilterBase::onTabButton and FilterMgrBase::onFilterEnabledChanged: when   *)
(* the first filter goes on or the last goes off the manager goes with it    *)
(* and the model of the view is exchanged; otherwise the manager tells of a  *)
(* change.                                                                   *)
ToggleFilter(f) ==
  /\ Command
  /\ f \in filters
  /\ enabled' = IF f \in enabled THEN enabled \ {f} ELSE enabled \cup {f}
  /\ mgrOn' = (enabled' # {})
  /\ IF mgrOn' # mgrOn
     THEN SetFilteringProxy(mgrOn', tree, strays, enabled', hidden, doubled)
     ELSE /\ UNCHANGED proxied
          /\ IF mgrOn /\ proxied
             THEN ForceUpdate(tree, strays, enabled', hidden, doubled)
             ELSE stale' = (stale \/ mgrOn) /\ UNCHANGED <<tree, strays, shown, fresh>>
  /\ UNCHANGED <<rows, filters, wired, doubled, hidden, preset>>

(* FilterMgrBase::onCtxCommitButton with the list fs of the manager's menu:  *)
(* FilterMgr::recreateFilters keeps the filters that stay, deletes those     *)
(* that go with their data and creates those that come, enabled.  The        *)
(* widget's onRefillFilters is empty and does not see new filters.           *)
CommitMenu(fs) ==
  /\ Command
  /\ fs # filters
  /\ filters' = fs
  /\ enabled' = (enabled \cap fs) \cup (fs \ filters)
  /\ wired' = wired \cap fs
  /\ tree' = IF "FileLn" \in filters \cap fs THEN tree ELSE Bare
  /\ strays' = IF "FileLn" \in filters \cap fs THEN strays ELSE {}
  /\ hidden' = IF "Tid" \in filters \cap fs THEN hidden ELSE {}
  /\ fresh' = IF "FileLn" \in filters \cap fs THEN fresh ELSE {}
  /\ stale' = TRUE
  /\ UNCHANGED <<rows, shown, mgrOn, doubled, proxied, preset>>

(* LogWidget::saveConfig *)
SavePreset ==
  /\ Command
  /\ preset' = [stored |-> TRUE, mgrOn |-> mgrOn, filters |-> filters, enabled |-> enabled,
                tree |-> tree, hidden |-> hidden, strays |-> strays]
  /\ UNCHANGED <<tree, rows, shown, fresh, filterVars, proxied, strays, stale>>

(* LogWidget::loadConfig and applyConfig.  With nothing on disk the manager  *)
(* and the thread filter keep their switch, and the file filter is merged    *)
(* with an empty one.                                                        *)
ApplyPreset ==
  LET kept == "FileLn" \in filters /\ "FileLn" \in preset.filters
      own == IF kept THEN tree ELSE Bare
      merged == IF "FileLn" \in preset.filters THEN Merged(own, preset.tree) ELSE Bare
      unsure == IF "FileLn" \in preset.filters
                THEN preset.strays \cup (DOMAIN own \ DOMAIN preset.tree) ELSE {}
  IN /\ Command
     /\ filters' = preset.filters
     /\ enabled' = IF preset.stored \/ "Tid" \notin filters \/ "Tid" \in enabled
                   THEN preset.enabled ELSE preset.enabled \ {"Tid"}
     /\ wired' = preset.filters
     /\ mgrOn' = IF preset.stored THEN preset.mgrOn ELSE mgrOn
     /\ hidden' = preset.hidden
     /\ doubled' = TRUE
     /\ SetFilteringProxy(mgrOn' /\ enabled' # {}, merged, unsure, enabled', hidden', FALSE)
     /\ UNCHANGED <<rows, preset>>

-----------------------------------------------------------------------------
(* The commands that exclude the selected rows *)

(* The rows of the view *)
Visible == IF proxied THEN shown ELSE DOMAIN rows

(* mapToSource: the rows at index i of the view, none when it is past the end *)
SourceRows(i) ==
  IF proxied THEN {r \in shown : Cardinality({q \in shown : q <= r}) = i}
             ELSE {i} \cap DOMAIN rows

(* onExcludeFileLine and onExcludeFile: uniqueRowsFromCurrSelection notes the *)
(* indices of the selected rows.                                              *)
Exclude(sel, k) ==
  /\ picked = {} /\ changes < MaxChanges
  /\ changes' = changes + 1
  /\ picked' = sel /\ what' = k
  /\ chosen' = UNION {SourceRows(i) : i \in sel}
  /\ UNCHANGED <<tree, rows, shown, fresh, filterVars, proxied, preset, strays, stale>>

(* The path an exclusion puts to Unchecked for row r *)
Excluded(r) == IF what = "line" THEN rows[r].line ELSE Parent(rows[r].line)

(* One turn of the loop of LogWidget::excludeSelectionRows, with             *)
(* excludeFileLine or excludeFile: the index is looked up in the view as it  *)
(* is now, and the view is refiltered after every row.                       *)
ExcludeNext ==
  \E i \in picked :
    /\ \A j \in picked : i <= j
    /\ picked' = picked \ {i}
    /\ IF "FileLn" \in filters /\ SourceRows(i) # {}
       THEN \E r \in SourceRows(i) :
              LET n == Excluded(r) IN
              IF n \in DOMAIN tree
              THEN Invalidate(SetData(tree, n, "Unchecked"),
                              strays \ Settled(tree, n, "Unchecked"), enabled, hidden, FALSE)
              ELSE Invalidate(tree, strays, enabled, hidden, FALSE)
       ELSE UNCHANGED <<tree, strays, shown, fresh, stale>>
    /\ UNCHANGED <<rows, filterVars, proxied, what, chosen, preset, changes>>

Next ==
  \/ \E l \in Lines, t \in Tids : Message(l, t)
  \/ ClearAllData
  \/ \E n \in Nodes, s \in States : Click(n, s)
  \/ \E s \in {"Checked", "Unchecked"} : SelectAll(s)
  \/ \E t \in Tids : ToggleTid(t)
  \/ \E f \in Filters : ToggleFilter(f)
  \/ \E fs \in SUBSET Filters : CommitMenu(fs)
  \/ SavePreset
  \/ ApplyPreset
  \/ \E sel \in SUBSET (1 .. Cardinality(Visible)) \ {{}}, k \in Kinds : Exclude(sel, k)
  \/ ExcludeNext

Spec == Init /\ [][Next]_vars

-----------------------------------------------------------------------------
(* Properties *)

IsTree(t) ==
  /\ DOMAIN t \subseteq Nodes /\ Root \in DOMAIN t
  /\ \A n \in DOMAIN t : t[n] \in States /\ Above(n) \subseteq DOMAIN t

IsPreset(p) ==
  /\ p.stored \in BOOLEAN /\ p.mgrOn \in BOOLEAN
  /\ p.filters \subseteq Filters /\ p.enabled \subseteq p.filters
  /\ IsTree(p.tree) /\ p.hidden \subseteq Tids /\ p.strays \subseteq Nodes

TreeTypeOK == IsTree(tree) /\ strays \subseteq Nodes

RowsTypeOK ==
  /\ rows \in Seq([line : Lines, tid : Tids])
  /\ shown \subseteq DOMAIN rows /\ fresh \subseteq DOMAIN rows

FilterTypeOK ==
  /\ filters \subseteq Filters /\ enabled \subseteq filters /\ wired \subseteq filters
  /\ hidden \subseteq Tids

FlagsTypeOK ==
  mgrOn \in BOOLEAN /\ proxied \in BOOLEAN /\ doubled \in BOOLEAN /\ stale \in BOOLEAN

PickTypeOK == picked \subseteq Nat /\ what \in Kinds /\ chosen \subseteq Nat

(* Every variable has its type; what is known of the tree reaches the root,  *)
(* and the maps of the proxy name rows of the table.                         *)
TypeOK ==
  /\ TreeTypeOK /\ RowsTypeOK /\ FilterTypeOK /\ FlagsTypeOK /\ PickTypeOK
  /\ IsPreset(preset)
  /\ changes \in 0 .. MaxChanges

(* What a check box shows is true of what is under it: in the tree t, a path  *)
(* that is Checked or Unchecked has the same state all the way down, and one  *)
(* that differs from its parent makes the parent Partial.  The paths in st    *)
(* are left out.                                                              *)
Tells(t, st) ==
  \A n \in DOMAIN t : Parent(n) # Root =>
    t[Parent(n)] = "Partial" \/ t[n] = t[Parent(n)] \/ n \in st

(* The box of a directory or file tells what the filter does with the lines  *)
(* under it (the state of TreeModelItem, config.h), whatever is clicked,     *)
(* excluded, merged and inserted; strays names the paths the code lets       *)
(* differ: a directory or file inserted under an Unchecked directory, and    *)
(* what a preset does not know.                                              *)
TreeTells == Tells(tree, strays)

(* The rows that should be seen: those every enabled filter accepts, where a *)
(* row whose line was not known when the filter was asked is accepted.       *)
Passing == {r \in DOMAIN rows :
              /\ mgrOn => Verdict(r, tree, fresh, enabled, hidden)}

(* The view shows the rows the filters pass and no others, whether the proxy *)
(* is in place or not, through every order of clicks, switches, messages,    *)
(* exclusions and presets, unless the last change was one that the code does *)
(* not refilter for.                                                         *)
ViewMatchesFilters == ~stale => Visible = Passing

(* After an exclusion every row that was selected is excluded ("Excludes     *)
(* File:Line combination from current selection from table",                 *)
(* widgets/logs/logwidget.cpp).                                              *)
SelectionExcluded ==
  picked = {} /\ "FileLn" \in filters =>
    \A r \in chosen : rows[r].line \in DOMAIN tree => tree[rows[r].line] = "Unchecked"
=============================================================================
