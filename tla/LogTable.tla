------------------------------- MODULE LogTable -------------------------------
(***************************************************************************)
(* The table of a log widget: LogTableModel::commitCommands                *)
(* (widgets/logs/logtablemodel.cpp) and LogFile::handleLogCommand          *)
(* (widgets/logs/logfile.h) with its per-thread data (widgets/logs/tls.h)  *)
(* and its two memory limits, records and strings.                         *)
(*                                                                         *)
(* A log command carries the thread that logged it, the client's time, the *)
(* scope it opens or closes and a message.  Commands wait in m_queue until *)
(* the connection commits a batch; the commit appends a row per command    *)
(* and stops at the first one there is no memory for.  It runs in the GUI  *)
(* thread: nothing else happens between its steps.                         *)
(***************************************************************************)
EXTENDS Integers, Sequences, FiniteSets

CONSTANTS
  Threads,     (* the client's threads                                     *)
  Sizes,       (* sizes of messages                                        *)
  RecordCap,   (* rows the record and attribute tables hold                *)
  StringCap,   (* what the string table holds; a file or function name: 1  *)
  Width,       (* values of an unsigned int                                *)
  MaxCommands, (* bound: commands the client sends                         *)
  MaxPending,  (* bound: commands in one batch                             *)
  MaxToggles   (* bound: how often the user switches indentation           *)

ASSUME LogTableAssumption ==
  /\ Sizes \subseteq Nat \ {0}
  /\ RecordCap \in Nat
  /\ StringCap \in Nat
  /\ Width \in Nat /\ Width > 2 * MaxCommands
  /\ MaxCommands \in Nat
  /\ MaxPending \in Nat
  /\ MaxToggles \in Nat

VARIABLES
  clock,    (* the time of the last command the client sent                *)
  open,     (* per thread, the scopes it is in                             *)
  queue,    (* LogWidget::m_queue                                          *)
  records,  (* the rows: LogFile::m_data.m_records and m_attrs             *)
  strings,  (* how much of m_data.m_strings is in use                      *)
  times,    (* m_tls.m_times, 0 for a thread not registered                *)
  indents,  (* m_tls.m_indents, unsigned                                   *)
  indentOn, (* m_config.m_indent                                           *)
  toggles,  (* how often indentOn was switched                             *)
  pc,       (* where commitCommands is; "asserted": Q_ASSERT ended it      *)
  done,     (* r: commands of the batch that have a row                    *)
  result,   (* handler_result                                              *)
  refused   (* history: the commands that found no memory                  *)

client == << clock, open >>
tls == << times, indents >>
table == << records, strings, tls >>
settings == << indentOn, toggles >>
tableVars == << client, queue, table, settings, pc, done, result, refused >>

Scopes == {"none", "entry", "exit"}

Init ==
  /\ clock = 0
  /\ open = [t \in Threads |-> 0]
  /\ queue = << >>
  /\ records = << >>
  /\ strings = 0
  /\ times = [t \in Threads |-> 0]
  /\ indents = [t \in Threads |-> 0]
  /\ indentOn = TRUE
  /\ toggles = 0
  /\ pc = "idle"
  /\ done = 0
  /\ result = FALSE
  /\ refused = {}

-----------------------------------------------------------------------------
\* A scoped log writes an entry when it is made and an exit when it is destroyed, so
\* that a thread leaves only scopes it is in.  The decoded command is queued.
HandleCommand(t, scope, size) ==
  /\ pc = "idle"
  /\ clock < MaxCommands
  /\ Len(queue) < MaxPending
  /\ scope = "exit" => open[t] > 0
  /\ clock' = clock + 1
  /\ open' = [open EXCEPT ![t] = CASE scope = "entry" -> @ + 1
                                   [] scope = "exit" -> @ - 1
                                   [] OTHER -> @]
  /\ queue' = Append(queue, [tid |-> t, scope |-> scope, size |-> size, ctime |-> clock + 1])
  /\ UNCHANGED << table, settings, pc, done, result, refused >>

CommitCommands ==
  /\ pc = "idle"
  /\ queue # << >>
  /\ pc' = "rows"
  /\ done' = 0
  /\ result' = FALSE
  /\ UNCHANGED << client, queue, table, settings, refused >>

cmd == queue[done + 1]

\* An unsigned int read as an int.
AsInt(u) == IF 2 * u >= Width THEN u - Width ELSE u

\* Mutant of Indentation: the exit of a scope stays inside it.
IndentationInside == IF indentOn THEN AsInt(indents[cmd.tid]) ELSE 0

\* The indentation of the row: the exit of a scope stands where its entry does.
Indentation ==
  LET depth == AsInt(indents[cmd.tid]) IN
  IF ~indentOn THEN 0
  ELSE IF depth > 0 /\ cmd.scope = "exit" THEN depth - 1
  ELSE depth

canAddRecord == Len(records) < RecordCap
CanAddNames == strings + 2 <= StringCap
CanAddMessage == strings + 2 + cmd.size + Indentation <= StringCap

\* Mutant of SinceLastTime: the gap to the previous row, whoever logged it.
SinceLastRow ==
  IF records = << >> THEN 0 ELSE cmd.ctime - records[Len(records)].ctime

\* dt: 0 for the first entry of a thread.
SinceLastTime == IF times[cmd.tid] = 0 THEN 0 ELSE cmd.ctime - times[cmd.tid]

\* handleLogCommand returns false and the loop breaks.
Refuse ==
  /\ result' = FALSE
  /\ pc' = "post"
  /\ refused' = refused \cup {cmd}
  /\ UNCHANGED << client, queue, records, indents, settings, done >>

\* No room for a record.
RefuseRecord ==
  /\ pc = "rows"
  /\ ~canAddRecord
  /\ Refuse
  /\ UNCHANGED << strings, times >>

\* No room for the name of the file or of the function; a file name that fits stays.
RefuseName ==
  /\ pc = "rows"
  /\ canAddRecord /\ ~CanAddNames
  /\ strings' = IF strings < StringCap THEN strings + 1 ELSE strings
  /\ Refuse
  /\ UNCHANGED times

\* No room for the message; the names stay and the time of the thread is set.
RefuseMessage ==
  /\ pc = "rows"
  /\ canAddRecord /\ CanAddNames /\ ~CanAddMessage
  /\ strings' = strings + 2
  /\ times' = [times EXCEPT ![cmd.tid] = cmd.ctime]
  /\ Refuse

\* Mutant of IndentAfter: counts entries only.
IndentAfterEntries(u) == IF cmd.scope = "entry" THEN (u + 1) % Width ELSE u

\* incrIndent and decrIndent
IndentAfter(u) ==
  CASE cmd.scope = "entry" -> (u + 1) % Width
    [] cmd.scope = "exit" -> (u - 1) % Width
    [] OTHER -> u

\* The command gets its row.
AddRecord ==
  /\ pc = "rows"
  /\ canAddRecord /\ CanAddNames /\ CanAddMessage
  /\ records' = Append(records,
       [tid |-> cmd.tid, scope |-> cmd.scope, ctime |-> cmd.ctime,
        dt |-> SinceLastTime, indent |-> Indentation])
  /\ strings' = strings + 2 + cmd.size + Indentation
  /\ times' = [times EXCEPT ![cmd.tid] = cmd.ctime]
  /\ indents' = IF indentOn THEN [indents EXCEPT ![cmd.tid] = IndentAfter(@)] ELSE indents
  /\ done' = done + 1
  /\ result' = TRUE
  /\ pc' = IF cmd.scope = "exit" /\ indentOn /\ AsInt(indents'[cmd.tid]) < 0 THEN "asserted"
           ELSE IF done + 1 = Len(queue) THEN "post"
           ELSE "rows"
  /\ UNCHANGED << client, queue, settings, refused >>

HandleLogCommand == RefuseRecord \/ RefuseName \/ RefuseMessage \/ AddRecord

\* Mutant of CloseBatch: the queue is emptied only when every command has a row.
CloseBatchKeeps ==
  /\ pc' = "idle"
  /\ done' = 0
  /\ queue' = IF result THEN << >> ELSE queue

\* commitCommands of the widget empties the queue.
CloseBatch ==
  /\ pc' = "idle"
  /\ done' = 0
  /\ queue' = << >>

\* The rows are shown and the batch is over.
PostProcessBatch ==
  /\ pc = "post"
  /\ CloseBatch
  /\ UNCHANGED << client, table, settings, result, refused >>

-----------------------------------------------------------------------------
\* The user clears the table; the queue and the data per thread stay.
ClearAllData ==
  /\ pc = "idle"
  /\ records' = << >>
  /\ strings' = 0
  /\ UNCHANGED << client, queue, tls, settings, pc, done, result, refused >>

\* The user switches indentation in the context menu.
OnCtxMenuIndentChanged ==
  /\ pc = "idle"
  /\ toggles < MaxToggles
  /\ indentOn' = ~indentOn
  /\ toggles' = toggles + 1
  /\ UNCHANGED << client, queue, table, pc, done, result, refused >>

Commit == CommitCommands \/ HandleLogCommand \/ PostProcessBatch

Next ==
  \/ \E t \in Threads, scope \in Scopes, size \in Sizes : HandleCommand(t, scope, size)
  \/ Commit
  \/ ClearAllData
  \/ OnCtxMenuIndentChanged

Spec == Init /\ [][Next]_tableVars
-----------------------------------------------------------------------------
(* Properties.                                                             *)

Command == [tid : Threads, scope : Scopes, size : Sizes, ctime : Nat]
Row == [tid : Threads, scope : Scopes, ctime : Nat, dt : Nat, indent : Nat]

\* Type invariant: in particular a time difference is never negative, so the unsigned
\* subtraction of the code does not wrap, and no row has a negative indentation.
TypeOK ==
  /\ clock \in Nat
  /\ open \in [Threads -> Nat]
  /\ queue \in Seq(Command)
  /\ records \in Seq(Row)
  /\ Len(records) <= RecordCap
  /\ strings \in 0 .. StringCap
  /\ times \in [Threads -> Nat]
  /\ indents \in [Threads -> 0 .. Width - 1]
  /\ indentOn \in BOOLEAN
  /\ toggles \in Nat
  /\ pc \in {"idle", "rows", "post", "asserted"}
  /\ done \in 0 .. Len(queue)
  /\ result \in BOOLEAN
  /\ refused \subseteq Command

\* The table shows the commands in the order the client sent them, each at most once:
\* refusals, clears and what stays in the queue never duplicate or swap rows.
RowsInOrder ==
  /\ \A i, j \in DOMAIN records : i < j => records[i].ctime < records[j].ctime
  /\ pc = "idle" =>
       \A i \in DOMAIN records, j \in DOMAIN queue : records[i].ctime < queue[j].ctime

\* Between two rows of a thread that have no other row of it between them, dt is the
\* time that passed, unless a command of the thread found no memory in between.
GapToPrevious ==
  \A i, j \in DOMAIN records :
    /\ i < j
    /\ records[i].tid = records[j].tid
    /\ \A k \in i + 1 .. j - 1 : records[k].tid # records[j].tid
    => \/ records[j].dt = records[j].ctime - records[i].ctime
       \/ \E c \in refused : /\ c.tid = records[j].tid
                             /\ records[i].ctime < c.ctime /\ c.ctime < records[j].ctime

\* Nothing upset the depth of the scopes: the user did not switch indentation and every
\* command found memory.
Undisturbed == toggles = 0 /\ refused = {}

\* The scopes a sequence of commands opens in thread t, less those it closes.
Opened(t, s) ==
  Cardinality({i \in DOMAIN s : s[i].tid = t /\ s[i].scope = "entry"})
    - Cardinality({i \in DOMAIN s : s[i].tid = t /\ s[i].scope = "exit"})

\* The depth the server keeps for a thread and the commands still queued add up to the
\* scopes the thread is in, across batches and clears.
DepthAgrees ==
  Undisturbed /\ pc \in {"idle", "rows"} =>
    \A t \in Threads :
      LET rest == IF pc = "idle" THEN queue ELSE SubSeq(queue, done + 1, Len(queue)) IN
      indents[t] + Opened(t, rest) = open[t]

\* The exit of a scope is indented like its entry and what is logged inside the scope is
\* indented more.
ScopesAlign ==
  Undisturbed =>
    \A i, j \in DOMAIN records :
      /\ i < j
      /\ records[i].tid = records[j].tid
      /\ records[i].scope = "entry" /\ records[j].scope = "exit"
      /\ Opened(records[i].tid, SubSeq(records, i, j)) = 0
      /\ \A k \in i .. j - 1 : Opened(records[i].tid, SubSeq(records, i, k)) > 0
      => /\ records[i].indent = records[j].indent
         /\ \A k \in i + 1 .. j - 1 :
              records[k].tid = records[i].tid => records[k].indent > records[i].indent
=============================================================================
