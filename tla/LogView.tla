------------------------------- MODULE LogView -------------------------------
(***************************************************************************)
(* What a log widget shows of its table: the filtering proxy model         *)
(* (models/baseproxymodel.cpp, widgets/logs/logfilterproxymodel.cpp), the  *)
(* find-all-references child (widgets/logs/findproxymodel.cpp) and the     *)
(* operations of the user that attach, detach and rebuild them             *)
(* (widgets/logs/logwidget_filtering.cpp, logwidget_find.cpp).             *)
(*                                                                         *)
(* A proxy keeps two maps, from rows of its source to its own rows and     *)
(* back.  A commit extends them by the rows of the batch; a change of the  *)
(* filter rebuilds them.  Rows are numbered from 1.                        *)
(***************************************************************************)
EXTENDS LogTable, SequencesExt

CONSTANTS
  Found,     (* the threads whose messages match the text searched for      *)
  MaxChanges (* bound: operations of the user on filters and proxies        *)

ASSUME LogViewAssumption == Found \subseteq Threads /\ MaxChanges \in Nat

VARIABLES
  hidden,       (* the threads an enabled filter hides                      *)
  scopesShown,  (* m_scopes_enabled                                         *)
  proxies,      (* m_proxy of the table model, in the order they were added *)
  filterSrc,    (* m_map_from_src of the filter proxy                       *)
  filterTgt,    (* m_map_from_tgt of the filter proxy                       *)
  link,         (* the source of the find child: "table", "proxy", or       *)
                (* "none" while it is not open                              *)
  findSrc,      (* m_map_from_src of the find proxy                         *)
  findTgt,      (* m_map_from_tgt of the find proxy                         *)
  changes,      (* how many operations the user made                        *)
  cleared       (* history: the table was cleared under an open find child  *)

filter == << hidden, scopesShown >>
filterMaps == << filterSrc, filterTgt >>
findMaps == << findSrc, findTgt >>
viewVars == << filter, proxies, filterMaps, link, findMaps, changes, cleared >>
vars == << tableVars, viewVars >>

ViewInit ==
  /\ Init
  /\ hidden = {}
  /\ scopesShown = TRUE
  /\ proxies = << >>
  /\ filterSrc = << >>
  /\ filterTgt = << >>
  /\ link = "none"
  /\ findSrc = << >>
  /\ findTgt = << >>
  /\ changes = 0
  /\ cleared = FALSE

\* The filter proxy is the model of the table view.
proxyOn == Contains(proxies, "filter")

-----------------------------------------------------------------------------
(* The maps of a proxy.                                                    *)

\* Where a row stands among rows: tgt_idx counts the rows accepted before it.
Place(r, rows) == Cardinality({q \in rows : q <= r})

\* m_map_from_tgt and m_map_from_src of rows, as force_update builds them.
InOrder(rows) == [i \in 1 .. Cardinality(rows) |-> CHOOSE r \in rows : Place(r, rows) = i]
SrcOf(rows) == [r \in rows |-> Place(r, rows)]

\* Mutant of SrcAfter: numbers the new rows from the beginning.
SrcAfterRestart(src, tgt, rows) ==
  [r \in DOMAIN src \cup rows |-> IF r \in DOMAIN src THEN src[r] ELSE Place(r, rows)]

\* The map from source rows after a batch added rows; a row already there keeps its place.
SrcAfter(src, tgt, rows) ==
  [r \in DOMAIN src \cup rows |->
     IF r \in DOMAIN src THEN src[r] ELSE Len(tgt) + Place(r, rows)]

\* The scope type in the flags of a cell; handleLogCommand sets it in the message column.
ScopeType(r, column) == IF column = "msg" THEN records[r].scope ELSE "none"

\* ExtLogFilterProxyModel::filterAcceptsIndex, asked about the first column of the row.
Accepts(r) ==
  /\ ScopeType(r, "stime") # "none" => scopesShown
  /\ records[r].tid \notin hidden

\* The text searched for is found in a row of the table.
Matches(r) == records[r].tid \in Found

\* FindProxyModel::filterAcceptsIndex: a row number given to the find proxy of a filter
\* proxy is looked up there, and the row of that number is searched in the table.
RowThere(r, tgt) ==
  IF link = "proxy" THEN r \in DOMAIN tgt /\ tgt[r] <= Len(records) ELSE r <= Len(records)

FindAccepts(r, tgt) == RowThere(r, tgt) /\ r <= Len(records) /\ Matches(r)

-----------------------------------------------------------------------------
(* A batch becomes visible.                                                *)

\* Mutant of BatchRows: the last row of every batch is left out.
BatchRowsShort == Len(records) - done + 1 .. Len(records) - 1

\* The rows commitCommands hands to the proxies: all the rows of the batch, or all but
\* the last one if a command was refused.
BatchRows == Len(records) - done + 1 .. (IF result THEN Len(records) ELSE Len(records) - 1)

\* The rows of the batch that the filter and the find child accept.  Proxies are called in
\* the order they were added; tgt is the map of the filter proxy the find child sees.
FilterBatch == {r \in BatchRows : Accepts(r)}
FindBatch(tgt) == {r \in BatchRows : FindAccepts(r, tgt)}

FilterFirst ==
  \E i, j \in DOMAIN proxies : proxies[i] = "filter" /\ proxies[j] = "find" /\ i < j

\* LogFilterProxyModel::commitBatchToModel
CommitToFilter ==
  /\ filterSrc' = SrcAfter(filterSrc, filterTgt, FilterBatch)
  /\ filterTgt' = filterTgt \o InOrder(FilterBatch)

\* FindProxyModel::commitBatchToModel
CommitToFind ==
  LET rows == FindBatch(IF FilterFirst THEN filterTgt' ELSE filterTgt) IN
  /\ findSrc' = SrcAfter(findSrc, findTgt, rows)
  /\ findTgt' = findTgt \o InOrder(rows)

ShowBatch ==
  /\ PostProcessBatch
  /\ IF proxyOn THEN CommitToFilter ELSE UNCHANGED filterMaps
  /\ IF link # "none" THEN CommitToFind ELSE UNCHANGED findMaps
  /\ UNCHANGED << filter, proxies, link, changes, cleared >>

-----------------------------------------------------------------------------
(* The user.                                                               *)

Change ==
  /\ pc = "idle"
  /\ changes < MaxChanges
  /\ changes' = changes + 1

\* force_update of the filter proxy under the filter just set.
Rebuild ==
  LET rows == {r \in DOMAIN records : Accepts(r)}' IN
  /\ filterSrc' = SrcOf(rows)
  /\ filterTgt' = InOrder(rows)

\* Mutant of OnInvalidateFilter: the maps are not rebuilt.
OnInvalidateFilterOnly ==
  /\ Change
  /\ \/ scopesShown' = ~scopesShown /\ UNCHANGED hidden
     \/ hidden' \in SUBSET Threads /\ hidden' # hidden /\ UNCHANGED scopesShown
  /\ UNCHANGED << filterMaps, tableVars, proxies, link, findMaps, cleared >>

\* The filter changes; the proxy is rebuilt if it is the model of the view.
OnInvalidateFilter ==
  /\ Change
  /\ \/ scopesShown' = ~scopesShown /\ UNCHANGED hidden
     \/ hidden' \in SUBSET Threads /\ hidden' # hidden /\ UNCHANGED scopesShown
  /\ UNCHANGED << tableVars, proxies, link, findMaps, cleared >>
  /\ IF proxyOn THEN Rebuild ELSE UNCHANGED filterMaps

\* removeProxy
Without(s, p) ==
  LET kept == InOrder({i \in DOMAIN s : s[i] # p}) IN [i \in DOMAIN kept |-> s[kept[i]]]

\* Mutant of FilteringOn: the proxy is added again without being removed first.
FilteringOnTwice ==
  /\ Change
  /\ proxies' = Append(proxies, "filter")
  /\ UNCHANGED << tableVars, filter, link, findMaps, cleared >>
  /\ Rebuild

\* setFilteringProxy(true)
FilteringOn ==
  /\ Change
  /\ proxies' = Append(Without(proxies, "filter"), "filter")
  /\ UNCHANGED << tableVars, filter, link, findMaps, cleared >>
  /\ Rebuild

\* setFilteringProxy(false)
FilteringOff ==
  /\ Change
  /\ proxyOn
  /\ proxies' = Without(proxies, "filter")
  /\ UNCHANGED << tableVars, filter, filterMaps, link, findMaps, cleared >>

\* mkFindAllRefsLogWidget: the child is linked to the model the view shows.
FindAllRefs ==
  /\ Change
  /\ link = "none"
  /\ link' = IF proxyOn THEN "proxy" ELSE "table"
  /\ proxies' = Append(proxies, "find")
  /\ UNCHANGED << tableVars, filter, filterMaps, cleared >>
  /\ LET n == IF proxyOn THEN Len(filterTgt) ELSE Len(records)
         rows == {r \in 1 .. n : FindAccepts(r, filterTgt)'}
     IN findSrc' = SrcOf(rows) /\ findTgt' = InOrder(rows)

\* clearAllData: the filter proxy and the table; the find child is not told.
ClearView ==
  /\ ClearAllData
  /\ filterSrc' = << >>
  /\ filterTgt' = << >>
  /\ cleared' = (cleared \/ findTgt # << >>)
  /\ UNCHANGED << filter, proxies, link, findMaps, changes >>

ViewNext ==
  \/ \E t \in Threads, scope \in Scopes, size \in Sizes :
       HandleCommand(t, scope, size) /\ UNCHANGED viewVars
  \/ (CommitCommands \/ HandleLogCommand) /\ UNCHANGED viewVars
  \/ OnCtxMenuIndentChanged /\ UNCHANGED viewVars
  \/ ShowBatch
  \/ OnInvalidateFilter
  \/ FilteringOn
  \/ FilteringOff
  \/ FindAllRefs
  \/ ClearView

ViewSpec == ViewInit /\ [][ViewNext]_vars
-----------------------------------------------------------------------------
(* Properties.                                                             *)

\* Type invariant of the view.
ViewTypeOK ==
  /\ hidden \subseteq Threads
  /\ scopesShown \in BOOLEAN
  /\ proxies \in { << >>, << "filter" >>, << "find" >>, << "filter", "find" >>,
                   << "find", "filter" >> }
  /\ filterTgt \in Seq(Nat \ {0})
  /\ \A r \in DOMAIN filterSrc : r \in Nat /\ filterSrc[r] \in Nat
  /\ link \in {"none", "table", "proxy"}
  /\ findTgt \in Seq(Nat \ {0})
  /\ \A r \in DOMAIN findSrc : r \in Nat /\ findSrc[r] \in Nat
  /\ changes \in 0 .. MaxChanges
  /\ cleared \in BOOLEAN

\* The two maps of a proxy are inverse to each other.
InverseMaps(src, tgt) ==
  /\ DOMAIN src = ToSet(tgt)
  /\ \A r \in DOMAIN src : src[r] \in DOMAIN tgt /\ tgt[src[r]] = r

\* The maps of the filter proxy stay inverse to each other, through batches, changes of
\* the filter, clears and while the proxy is detached, so that a selection translated
\* there and back is the same row.
FilterMapsInverse == InverseMaps(filterSrc, filterTgt)

\* So do those of the find child until the table is cleared under it.
FindMapsInverse == ~cleared => InverseMaps(findSrc, findTgt)

\* A row that the proxies were not told about: the last one of a batch that was cut short
\* because the next command found no memory.
CutOff(r) ==
  \E c \in refused : /\ records[r].ctime < c.ctime
                     /\ r < Len(records) => c.ctime < records[r + 1].ctime

\* The view shows rows of the table in its order, only what the filter accepts and all of
\* it, except for rows cut off by a refusal.
ViewShowsAccepted ==
  proxyOn /\ pc = "idle" =>
    /\ \A i, j \in DOMAIN filterTgt : i < j => filterTgt[i] < filterTgt[j]
    /\ \A i \in DOMAIN filterTgt : filterTgt[i] \in DOMAIN records /\ Accepts(filterTgt[i])
    /\ \A r \in DOMAIN records :
         Accepts(r) /\ r \notin ToSet(filterTgt) => CutOff(r)

\* The find child of an unfiltered view lists the matching rows in the order of the table,
\* and misses only rows cut off by a refusal, until the table is cleared under it.
FindListsMatches ==
  link = "table" /\ pc = "idle" /\ ~cleared =>
    /\ \A i, j \in DOMAIN findTgt : i < j => findTgt[i] < findTgt[j]
    /\ \A i \in DOMAIN findTgt : findTgt[i] \in DOMAIN records /\ Matches(findTgt[i])
    /\ \A r \in DOMAIN records :
         Matches(r) /\ r \notin ToSet(findTgt) => CutOff(r)
=============================================================================
