------------------------------ MODULE WidgetSync ------------------------------
(***************************************************************************)
(* The synchronization of widgets by server time: a double click on a row  *)
(* of a log, its buttons "sync" and "Ref ST", or a click into a plot make   *)
(* the other widgets go to that time (syncwidgets.h, LogWidget and          *)
(* PlotWidget::performSynchronization).                                     *)
(*                                                                         *)
(* A log shows the rows of its table, or those its filter proxy accepts.   *)
(* Selection and current index are rows of the view; what they mean        *)
(* changes when the proxy is filtered again.  Everything runs in one       *)
(* thread: a click is one action with all it makes the other widgets do.   *)
(***************************************************************************)
EXTENDS Integers, Sequences, FiniteSets, SequencesExt

CONSTANTS
  Filtered,  (* logs whose view is the filter proxy                         *)
  Plain,     (* logs whose view is the table itself                        *)
  Plots,     (* plots, with one curve each                                 *)
  Groups,    (* sync groups; group 0 does not synchronize, a widget starts  *)
             (* in group 1                                                 *)
  MaxRows,   (* bound: rows of a log, samples of a plot                    *)
  MaxTime,   (* bound: the server's time                                   *)
  MaxClicks, (* bound: what the user does                                  *)
  Width      (* values of a uint64_t; a square, as 2^64 is                  *)

ASSUME WidgetSyncAssumption ==
  /\ Filtered \cap Plain = {} /\ (Filtered \cup Plain) \cap Plots = {}
  /\ IsFiniteSet(Filtered \cup Plain)
  /\ Groups \subseteq Nat /\ 1 \in Groups
  /\ MaxRows \in Nat /\ MaxTime \in Nat \ {0} /\ MaxClicks \in Nat
  /\ Width \in Nat /\ MaxTime < Width
  /\ \E root \in 2 .. Width : Width = root * root

Logs == Filtered \cup Plain
Widgets == Logs \cup Plots

VARIABLES
  times,   (* the server times of a log's rows, of a plot's samples        *)
  shown,   (* the rows of the table a log shows                            *)
  sel,     (* the row of the view that is selected, 0 if none              *)
  cur,     (* the row of currentIndex() of the view, 0 if none             *)
  group,   (* m_config.m_sync_group                                        *)
  refOn,   (* the button "Ref ST" is checked                               *)
  ref,     (* m_stime_ref_value                                            *)
  marker,  (* the sample the sync marker is at, 0 if detached              *)
  clock,   (* the time of the last command decoded                         *)
  clicks,  (* what the user did                                            *)
  chosen,  (* history: the row of the table that was selected last, 0 when *)
           (* it was filtered out or cleared; First after the first batch  *)
  heard    (* history: the time a widget last went to, and how many rows   *)
           (* it had then, until the user, a filter or a first batch moves *)
           (* the selection                                                *)

view == << times, shown >>
picked == << sel, cur, chosen, heard >>
vars == << view, picked, group, refOn, ref, marker, clock, clicks >>

Never == [time |-> 0, rows |-> 0]

\* The line chosen is the first the view shows, or comes to show.
First == -1

Init ==
  /\ times = [w \in Widgets |-> << >>]
  /\ shown = [l \in Logs |-> {}]
  /\ sel = [l \in Logs |-> 0]
  /\ cur = [l \in Logs |-> 0]
  /\ group = [l \in Logs |-> 1]
  /\ refOn = [l \in Logs |-> FALSE]
  /\ ref = [l \in Logs |-> 0]
  /\ marker = [p \in Plots |-> 0]
  /\ clock = 1
  /\ clicks = 0
  /\ chosen = [l \in Logs |-> 0]
  /\ heard = [w \in Widgets |-> Never]

-----------------------------------------------------------------------------
(* Rows of the view and rows of the table.                                 *)

\* mapFromSource, and the row itself where there is no proxy; 0 is no valid index.
ViewRow(rows, r) == IF r \in rows THEN Cardinality({q \in rows : q <= r}) ELSE 0

\* mapToSource.
SourceRow(l, v) ==
  IF v \in 1 .. Cardinality(shown[l])
    THEN CHOOSE r \in shown[l] : ViewRow(shown[l], r) = v
    ELSE 0

\* The row of the table that is to be selected.
Chosen(l) == IF chosen[l] = First THEN SourceRow(l, 1) ELSE chosen[l]

\* The time in a row or sample; an invalid index has none, which reads as 0.
TimeAt(w, i) == IF i \in DOMAIN times[w] THEN times[w][i] ELSE 0

\* currentSourceIndex
CurrentSource(l) == SourceRow(l, cur[l])

Distance(s, t) == IF s >= t THEN s - t ELSE t - s

-----------------------------------------------------------------------------
(* Going to a time.                                                        *)

\* Mutant of NearestRow: does not ask the proxy.
NearestRowHidden(l, t) ==
  IF times[l] = << >> THEN 1
  ELSE CHOOSE r \in DOMAIN times[l] : \A q \in DOMAIN times[l] \ {r} :
         \/ Distance(times[l][r], t) < Distance(times[l][q], t)
         \/ Distance(times[l][r], t) = Distance(times[l][q], t) /\ r < q

\* The first of the rows in view that are nearest; the first row if none is in view.
NearestRow(l, t) ==
  IF shown[l] = {} THEN 1
  ELSE CHOOSE r \in shown[l] : \A q \in shown[l] \ {r} :
         \/ Distance(times[l][r], t) < Distance(times[l][q], t)
         \/ Distance(times[l][r], t) = Distance(times[l][q], t) /\ r < q

\* Mutant of Closer: keeps the square of the distance.
CloserSquared(best, dist, dist2) == dist2

\* What the loop compares the squares of the next distances with: the distance itself.
Closer(best, dist, dist2) == dist

\* One turn of the loop over the samples: the distance is unsigned and its square wraps.
Look(found, i, s, t) ==
  LET dist == (s - t) % Width
      dist2 == (dist * dist) % Width
  IN  IF dist2 < found.best
        THEN [idx |-> i, best |-> Closer(found.best, dist, dist2)]
        ELSE found

\* What the loop has found after each sample.
Search(s, t) ==
  LET found[i \in 0 .. Len(s)] ==
        IF i = 0 THEN [idx |-> 0, best |-> Width - 1] ELSE Look(found[i - 1], i, s[i], t)
  IN  found

\* The sample a plot's marker goes to, 0 if none was found.
ClosestSample(p, t) == Search(times[p], t)[Len(times[p])].idx

\* The markers of the plots in ps move, the marker of the plot that asks is taken off; a
\* plot that finds no sample leaves its marker.
MoveMarkers(ps, t) ==
  marker' = [p \in Plots |->
               IF p \notin ps THEN 0
               ELSE IF ClosestSample(p, t) = 0 THEN marker[p]
               ELSE ClosestSample(p, t)]

\* What a widget heard.
Hear(w, t) == [time |-> t, rows |-> Len(times[w])]

\* performSynchronization with e_SyncServerTime in every widget but w, which has selected
\* its own row v: the group is not looked at, and the current index stays.
SyncServerTime(w, v, t) ==
  /\ sel' = [l \in Logs |-> IF l = w THEN v ELSE ViewRow(shown[l], NearestRow(l, t))]
  /\ chosen' = [l \in Logs |->
                  IF l = w THEN SourceRow(l, v)
                  ELSE IF shown[l] = {} THEN 0 ELSE NearestRow(l, t)]
  /\ MoveMarkers(Plots \ {w}, t)

\* Mutant of Reselected: selects without making the row the current one.
ReselectedOnly(l, s) == cur[l]

\* syncSelection: the row selected becomes the current one, if it is in view.
Reselected(l, s) == IF s # 0 THEN s ELSE cur[l]

\* Mutant of Kept: the selection is not taken from and given back to the view.
KeptUnchecked(l, rows) == sel[l]

\* Mutant of Kept: the row of the view stays selected whatever it shows.
KeptInView(l, rows) == IF sel[l] \in 1 .. Cardinality(rows) THEN sel[l] ELSE 0

\* The row of the view that shows the selected row of the table among rows.
Kept(l, rows) == ViewRow(rows, SourceRow(l, sel[l]))

\* performSynchronization with e_SyncRefSTime in every widget, with the same in the log
\* that asks: the logs filter again, which selects the same row if it is in view, and the
\* plots, which do not look at the mode, move their markers.
SyncRefSTime(t) ==
  /\ ref' = [l \in Logs |-> t]
  /\ sel' = [l \in Logs |-> Kept(l, shown[l])]
  /\ cur' = [l \in Logs |-> Reselected(l, Kept(l, shown[l]))]
  /\ chosen' = [l \in Logs |-> Chosen(l)]
  /\ MoveMarkers(Plots, t)
  /\ heard' = [w \in Widgets |-> IF w \in Plots THEN Hear(w, t) ELSE heard[w]]

-----------------------------------------------------------------------------
(* What the user does.                                                     *)

Clicks == clicks < MaxClicks /\ clicks' = clicks + 1

\* A click selects a row and makes it the current one.
OnTableClicked(l, v) ==
  /\ Clicks
  /\ sel' = [sel EXCEPT ![l] = v]
  /\ cur' = [cur EXCEPT ![l] = v]
  /\ chosen' = [chosen EXCEPT ![l] = SourceRow(l, v)]
  /\ heard' = [heard EXCEPT ![l] = Never]
  /\ UNCHANGED << view, group, refOn, ref, marker, clock >>

\* A double click is a click first.
OnTableDoubleClicked(l, v) ==
  /\ group[l] # 0
  /\ Clicks
  /\ cur' = [cur EXCEPT ![l] = v]
  /\ LET t == TimeAt(l, SourceRow(l, v)) IN
     /\ SyncServerTime(l, v, t)
     /\ heard' = [w \in Widgets |-> IF w = l THEN Never ELSE Hear(w, t)]
  /\ UNCHANGED << view, group, refOn, ref, clock >>

\* The button hands the row of the table to onTableDoubleClicked, which maps it as if it
\* were a row of the proxy.
OnSyncGroupRowButton(l) ==
  /\ CurrentSource(l) # 0
  /\ group[l] # 0
  /\ Clicks
  /\ LET r == IF l \in Filtered THEN SourceRow(l, CurrentSource(l)) ELSE CurrentSource(l)
         t == TimeAt(l, r)
     IN  /\ SyncServerTime(l, sel[l], t)
         /\ heard' = [w \in Widgets |-> IF w = l THEN heard[w] ELSE Hear(w, t)]
  /\ UNCHANGED << view, cur, group, refOn, ref, clock >>

\* "Ref ST" goes down; without a current row it only stays down.
SetRefSTime(l) ==
  /\ ~refOn[l]
  /\ Clicks
  /\ refOn' = [refOn EXCEPT ![l] = TRUE]
  /\ IF CurrentSource(l) # 0
       THEN SyncRefSTime(TimeAt(l, CurrentSource(l)))
       ELSE UNCHANGED << ref, picked, marker >>
  /\ UNCHANGED << view, group, clock >>

\* "Ref ST" comes up.
ClearRefSTime(l) ==
  /\ refOn[l]
  /\ Clicks
  /\ refOn' = [refOn EXCEPT ![l] = FALSE]
  /\ SyncRefSTime(0)
  /\ UNCHANGED << view, group, clock >>

OnSyncGroupValueChanged(l, g) ==
  /\ g # group[l]
  /\ Clicks
  /\ group' = [group EXCEPT ![l] = g]
  /\ UNCHANGED << view, picked, refOn, ref, marker, clock >>

\* A click into a plot: the sample next to it on the screen, or none where there is none;
\* the plot's own marker is taken off.
Selected(p, i) ==
  /\ i = 0 <=> times[p] = << >>
  /\ Clicks
  /\ SyncServerTime(p, 0, TimeAt(p, i))
  /\ heard' = [w \in Widgets |-> IF w = p THEN Never ELSE Hear(w, TimeAt(p, i))]
  /\ UNCHANGED << view, cur, group, refOn, ref, clock >>

\* A filter changes what the proxy accepts: force_update, then syncSelection.
OnInvalidateFilter(l, rows) ==
  /\ l \in Filtered
  /\ Clicks
  /\ shown' = [shown EXCEPT ![l] = rows]
  /\ sel' = [sel EXCEPT ![l] = Kept(l, rows)]
  /\ cur' = [cur EXCEPT ![l] = Reselected(l, Kept(l, rows))]
  /\ chosen' = [chosen EXCEPT ![l] = IF Chosen(l) \in rows THEN Chosen(l) ELSE 0]
  /\ heard' = [heard EXCEPT ![l] = Never]
  /\ UNCHANGED << times, group, refOn, ref, marker, clock >>

\* Both models are reset, which resets selection and current index.
ClearLogData(l) ==
  /\ Clicks
  /\ times' = [times EXCEPT ![l] = << >>]
  /\ shown' = [shown EXCEPT ![l] = {}]
  /\ sel' = [sel EXCEPT ![l] = 0]
  /\ cur' = [cur EXCEPT ![l] = 0]
  /\ chosen' = [chosen EXCEPT ![l] = 0]
  /\ heard' = [heard EXCEPT ![l] = Never]
  /\ UNCHANGED << group, refOn, ref, marker, clock >>

\* The marker stays where it was drawn.
ClearPlotData(p) ==
  /\ Clicks
  /\ times' = [times EXCEPT ![p] = << >>]
  /\ heard' = [heard EXCEPT ![p] = Never]
  /\ UNCHANGED << shown, sel, cur, chosen, group, refOn, ref, marker, clock >>

-----------------------------------------------------------------------------
(* Commands arrive.                                                        *)

\* A command decoded at time t becomes a row, which the filter accepts or not.  With the
\* first row of the table its index is made the current one and selected, before the proxy
\* is told of the row: the view of a proxy takes it for its own first row, in view or not.
CommitLog(l, t) ==
  /\ Len(times[l]) < MaxRows
  /\ clock' = t
  /\ times' = [times EXCEPT ![l] = Append(@, t)]
  /\ \/ shown' = [shown EXCEPT ![l] = @ \cup {Len(times[l]) + 1}]
     \/ l \in Filtered /\ shown' = shown
  /\ IF times[l] = << >>
       THEN /\ sel' = [sel EXCEPT ![l] = 1]
            /\ cur' = [cur EXCEPT ![l] = 1]
            /\ chosen' = [chosen EXCEPT ![l] = First]
            /\ heard' = [heard EXCEPT ![l] = Never]
       ELSE UNCHANGED picked
  /\ UNCHANGED << group, refOn, ref, marker, clicks >>

\* A command decoded at time t becomes a sample.
CommitSample(p, t) ==
  /\ Len(times[p]) < MaxRows
  /\ clock' = t
  /\ times' = [times EXCEPT ![p] = Append(@, t)]
  /\ UNCHANGED << shown, picked, group, refOn, ref, marker, clicks >>

LogClicks(l) ==
  \/ \E v \in 1 .. Cardinality(shown[l]) : OnTableClicked(l, v) \/ OnTableDoubleClicked(l, v)
  \/ OnSyncGroupRowButton(l)
  \/ SetRefSTime(l)
  \/ ClearRefSTime(l)
  \/ \E g \in Groups : OnSyncGroupValueChanged(l, g)
  \/ \E rows \in SUBSET DOMAIN times[l] : OnInvalidateFilter(l, rows)
  \/ ClearLogData(l)

PlotClicks(p) ==
  \/ \E i \in 0 .. Len(times[p]) : Selected(p, i)
  \/ ClearPlotData(p)

Next ==
  \/ \E l \in Logs : LogClicks(l)
  \/ \E p \in Plots : PlotClicks(p)
  \/ \E l \in Logs, t \in clock .. MaxTime : CommitLog(l, t)
  \/ \E p \in Plots, t \in clock .. MaxTime : CommitSample(p, t)

Spec == Init /\ [][Next]_vars

-----------------------------------------------------------------------------
(* Properties.                                                             *)

Rows == 0 .. MaxRows

\* Type invariant.  The row selected is in view, but for the first row that no filter let
\* into view yet.
TypeOK ==
  /\ times \in [Widgets -> BoundedSeq(1 .. MaxTime, MaxRows)]
  /\ shown \in [Logs -> SUBSET (1 .. MaxRows)]
  /\ \A l \in Logs :
       /\ shown[l] \subseteq DOMAIN times[l]
       /\ \/ sel[l] <= Cardinality(shown[l])
          \/ sel[l] = 1 /\ chosen[l] = First /\ shown[l] = {} /\ times[l] # << >>
  /\ sel \in [Logs -> Rows] /\ cur \in [Logs -> Rows] /\ chosen \in [Logs -> Rows \cup {First}]
  /\ group \in [Logs -> Groups]
  /\ refOn \in [Logs -> BOOLEAN]
  /\ ref \in [Logs -> 0 .. MaxTime]
  /\ marker \in [Plots -> Rows]
  /\ clock \in 1 .. MaxTime
  /\ clicks \in 0 .. MaxClicks
  /\ heard \in [Widgets -> [time : 0 .. MaxTime, rows : Rows]]

\* The line selected is the one that was selected by the user, by the last request or by the
\* first batch since the log was empty, over every change of the filter and every batch,
\* until a filter or a clear takes it away.  A first batch selects the first line the view
\* shows, or comes to show: not the row of the table it asks for, if the filter refused that.
SelectionKept == \A l \in Logs : SourceRow(l, sel[l]) = Chosen(l)

\* The buttons act on the line selected, unless a request from another widget moved the
\* selection and nothing has filtered since: they read the current index, which a request
\* leaves where it was.
CurrentFollows ==
  \A l \in Logs : sel[l] # 0 /\ heard[l] = Never => cur[l] = sel[l]

\* A log that went to a time shows a line selected whenever it shows any, and no line that
\* was in view then is nearer to that time.
SelectionNearest ==
  \A l \in Logs : heard[l] # Never =>
    LET then == {r \in shown[l] : r <= heard[l].rows} IN
    IF then = {} THEN sel[l] = 0
    ELSE /\ sel[l] # 0
         /\ \A r \in then : Distance(times[l][SourceRow(l, sel[l])], heard[l].time)
                              <= Distance(times[l][r], heard[l].time)

\* A plot's marker goes to the first sample that is not before the time, or to the last
\* one: its loop mixes distances with their squares, and comes to this as long as samples
\* are in order and no square is too wide.
MarkerNext ==
  \A p \in Plots : heard[p].rows # 0 =>
    LET s == times[p]
        n == heard[p].rows
        t == heard[p].time
        after == {i \in 1 .. n : s[i] >= t}
    IN  (\A i \in 1 .. n : Distance(s[i], t) * Distance(s[i], t) < Width) =>
          IF after = {} THEN marker[p] = n
          ELSE marker[p] \in after /\ \A i \in after : marker[p] <= i
=============================================================================
