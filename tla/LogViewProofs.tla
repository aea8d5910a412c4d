---------------------------- MODULE LogViewProofs ----------------------------
(***************************************************************************)
(* Proofs about LogTable and LogView.                                      *)
(*                                                                         *)
(* The table: every state is type correct, rows stand in the order of the  *)
(* client's commands, time differences are those between a thread's rows,  *)
(* the depths agree with the scopes a thread is in, and the rows of a      *)
(* scope are indented accordingly.                                         *)
(*                                                                         *)
(* The view: it runs the table, the maps of its proxies stay inverse to    *)
(* each other, and filter and find child show what they should.            *)
(***************************************************************************)
EXTENDS LogView, FiniteSetTheorems, SequenceTheorems, TLAPS

-----------------------------------------------------------------------------
(* The inductive invariant *)

(* The commands of the queue that have no row yet *)
Waiting == {j \in DOMAIN queue : j > done}

BatchOK ==
  /\ clock <= MaxCommands
  /\ pc = "idle" => done = 0
  /\ pc = "rows" => done < Len(queue)

(* No thread is deeper than the commands that were handled allow. *)
Shallow == pc # "asserted" => \A t \in Threads : indents[t] + (Len(queue) - done) <= clock

QueueInOrder ==
  /\ \A i, j \in DOMAIN queue : i < j => queue[i].ctime < queue[j].ctime
  /\ \A j \in DOMAIN queue : 0 < queue[j].ctime /\ queue[j].ctime <= clock

(* What was handled is older than what waits. *)
RowsBehind ==
  /\ \A i, j \in DOMAIN records : i < j => records[i].ctime < records[j].ctime
  /\ \A i \in DOMAIN records : 0 < records[i].ctime /\ records[i].ctime <= clock
  /\ \A i \in DOMAIN records, j \in Waiting : records[i].ctime < queue[j].ctime

TimesBehind ==
  /\ \A t \in Threads : times[t] <= clock
  /\ pc \in {"idle", "rows"} => \A t \in Threads, j \in Waiting : times[t] < queue[j].ctime

RefusedBehind ==
  /\ \A c \in refused : c.ctime <= clock
  /\ pc \in {"idle", "rows"} => \A c \in refused, j \in Waiting : c.ctime < queue[j].ctime

(* Row i is the last one of its thread. *)
IsLast(i) == i \in DOMAIN records /\ \A k \in i + 1 .. Len(records) : records[k].tid # records[i].tid

(* A command of the thread of row i was refused after it. *)
RefusedSince(i) == \E c \in refused : c.tid = records[i].tid /\ records[i].ctime < c.ctime

(* The time kept for a thread is that of its last row, or of a refusal since. *)
LastTimes ==
  \A i \in DOMAIN records :
    IsLast(i) => times[records[i].tid] = records[i].ctime \/ RefusedSince(i)

IInv ==
  /\ TypeOK /\ BatchOK /\ Shallow
  /\ QueueInOrder /\ RowsBehind /\ TimesBehind /\ RefusedBehind
  /\ LastTimes /\ GapToPrevious

-----------------------------------------------------------------------------
(* Arithmetic of the unsigned depth *)

LEMMA Up ==
  ASSUME NEW w \in Nat, NEW u \in Nat, u + 1 < w
  PROVE  (u + 1) % w = u + 1
  OBVIOUS

LEMMA Down ==
  ASSUME NEW w \in Nat, NEW u \in Nat, 0 < u, u < w
  PROVE  (u - 1) % w = u - 1
  OBVIOUS

LEMMA Wrap ==
  ASSUME NEW w \in Nat, 0 < w
  PROVE  (0 - 1) % w = w - 1
  OBVIOUS

-----------------------------------------------------------------------------
(* What the types say about sequences and rows *)

LEMMA Queue_Facts ==
  ASSUME queue \in Seq(Command)
  PROVE  /\ Len(queue) \in Nat /\ DOMAIN queue = 1 .. Len(queue)
         /\ \A j \in DOMAIN queue : /\ queue[j] \in Command
                                    /\ queue[j].tid \in Threads /\ queue[j].scope \in Scopes
                                    /\ queue[j].size \in Nat /\ queue[j].ctime \in Nat
<1>1. Sizes \subseteq Nat
  BY LogTableAssumption
<1>2. Len(queue) \in Nat /\ DOMAIN queue = 1 .. Len(queue)
  OBVIOUS
<1>3. \A j \in DOMAIN queue : queue[j] \in Command
  OBVIOUS
<1>4. \A c \in Command : c.tid \in Threads /\ c.scope \in Scopes /\ c.size \in Nat /\ c.ctime \in Nat
  BY <1>1 DEF Command
<1> QED
  BY <1>2, <1>3, <1>4

LEMMA Records_Facts ==
  ASSUME records \in Seq(Row)
  PROVE  /\ Len(records) \in Nat /\ DOMAIN records = 1 .. Len(records)
         /\ \A i \in DOMAIN records : /\ records[i].tid \in Threads /\ records[i].ctime \in Nat
                                      /\ records[i].dt \in Nat /\ records[i].indent \in Nat
                                      /\ records[i].scope \in Scopes
<1>1. Len(records) \in Nat /\ DOMAIN records = 1 .. Len(records)
  OBVIOUS
<1>2. \A i \in DOMAIN records : records[i] \in Row
  OBVIOUS
<1>3. \A r \in Row : /\ r.tid \in Threads /\ r.ctime \in Nat /\ r.dt \in Nat
                     /\ r.indent \in Nat /\ r.scope \in Scopes
  BY DEF Row
<1> QED
  BY <1>1, <1>2, <1>3

LEMMA Refused_Facts ==
  ASSUME refused \subseteq Command
  PROVE  \A c \in refused : c.tid \in Threads /\ c.ctime \in Nat
  BY DEF Command

(* The command at hand waits, and everything handled is older. *)
LEMMA Cmd_Facts ==
  ASSUME IInv, pc = "rows"
  PROVE  /\ done + 1 \in Waiting /\ done + 1 \in DOMAIN queue /\ cmd = queue[done + 1]
         /\ cmd \in Command /\ cmd.tid \in Threads /\ cmd.scope \in Scopes
         /\ cmd.size \in Nat /\ cmd.ctime \in Nat /\ 0 < cmd.ctime /\ cmd.ctime <= clock
         /\ \A i \in DOMAIN records : records[i].ctime < cmd.ctime
         /\ \A t \in Threads : times[t] < cmd.ctime
         /\ \A c \in refused : c.ctime < cmd.ctime
         /\ \A j \in Waiting : j = done + 1 \/ cmd.ctime < queue[j].ctime
<1>1. /\ Len(queue) \in Nat /\ DOMAIN queue = 1 .. Len(queue)
      /\ \A j \in DOMAIN queue : /\ queue[j] \in Command
                                 /\ queue[j].tid \in Threads /\ queue[j].scope \in Scopes
                                 /\ queue[j].size \in Nat /\ queue[j].ctime \in Nat
  BY Queue_Facts DEF IInv, TypeOK
<1>2. done \in Nat /\ done < Len(queue)
  BY <1>1 DEF IInv, TypeOK, BatchOK
<1>3. done + 1 \in Waiting /\ done + 1 \in DOMAIN queue /\ cmd = queue[done + 1]
  BY <1>1, <1>2 DEF Waiting, cmd
<1>4. \A j \in Waiting : j \in DOMAIN queue /\ j \in Nat /\ j > done
  BY <1>1 DEF Waiting
<1>5. \A j \in Waiting : j = done + 1 \/ cmd.ctime < queue[j].ctime
  <2> SUFFICES ASSUME NEW j \in Waiting, j # done + 1
               PROVE  cmd.ctime < queue[j].ctime
    OBVIOUS
  <2>1. done + 1 < j
    BY <1>2, <1>4
  <2> QED
    BY <1>3, <1>4, <2>1 DEF IInv, QueueInOrder
<1>6. /\ \A i \in DOMAIN records : records[i].ctime < cmd.ctime
      /\ \A t \in Threads : times[t] < cmd.ctime
      /\ \A c \in refused : c.ctime < cmd.ctime
      /\ 0 < cmd.ctime /\ cmd.ctime <= clock
  BY <1>3 DEF IInv, RowsBehind, TimesBehind, RefusedBehind, QueueInOrder
<1> QED
  BY <1>1, <1>3, <1>5, <1>6

(* No depth is so large that it reads as a negative one. *)
LEMMA Depth_Facts ==
  ASSUME IInv, pc # "asserted", NEW t \in Threads
  PROVE  /\ indents[t] \in Nat /\ indents[t] < Width
         /\ indents[t] <= MaxCommands /\ AsInt(indents[t]) = indents[t]
<1>1. Len(queue) \in Nat /\ done \in 0 .. Len(queue)
  BY Queue_Facts DEF IInv, TypeOK
<1>2. indents[t] \in 0 .. Width - 1 /\ clock \in Nat
  BY DEF IInv, TypeOK
<1>3. indents[t] + (Len(queue) - done) <= clock /\ clock <= MaxCommands
  BY DEF IInv, Shallow, BatchOK
<1>4. Width \in Nat /\ Width > 2 * MaxCommands /\ MaxCommands \in Nat
  BY LogTableAssumption
<1>5. indents[t] \in Nat /\ indents[t] < Width /\ indents[t] <= MaxCommands
  BY <1>1, <1>2, <1>3, <1>4
<1>6. 2 * indents[t] < Width
  BY <1>4, <1>5
<1>7. AsInt(indents[t]) = indents[t]
  BY <1>4, <1>5, <1>6 DEF AsInt
<1> QED
  BY <1>5, <1>7

-----------------------------------------------------------------------------
(* The steps *)

LEMMA Init_IInv == Init => IInv
<1> SUFFICES ASSUME Init PROVE IInv
  OBVIOUS
<1>1. /\ queue = << >> /\ records = << >> /\ Len(queue) = 0 /\ Len(records) = 0
      /\ DOMAIN queue = {} /\ DOMAIN records = {}
  BY DEF Init
<1>2. queue \in Seq(Command) /\ records \in Seq(Row)
  BY <1>1
<1>3. Width \in Nat /\ 0 < Width /\ MaxCommands \in Nat /\ RecordCap \in Nat /\ StringCap \in Nat
  BY LogTableAssumption
<1>4. TypeOK
  <2>1. clock \in Nat /\ toggles \in Nat /\ done \in 0 .. Len(queue)
    BY <1>1 DEF Init
  <2>2. Len(records) <= RecordCap /\ strings \in 0 .. StringCap
    BY <1>1, <1>3 DEF Init
  <2>3. open \in [Threads -> Nat] /\ times \in [Threads -> Nat] /\ indents \in [Threads -> 0 .. Width - 1]
    BY <1>3 DEF Init
  <2>4. indentOn \in BOOLEAN /\ result \in BOOLEAN /\ refused \subseteq Command
    BY DEF Init
  <2>5. pc \in {"idle", "rows", "post", "asserted"}
    BY DEF Init
  <2> QED
    BY <1>2, <2>1, <2>2, <2>3, <2>4, <2>5 DEF TypeOK
<1>5. BatchOK /\ Shallow
  BY <1>1, <1>3 DEF Init, BatchOK, Shallow
<1>6. QueueInOrder /\ RowsBehind /\ TimesBehind /\ RefusedBehind /\ LastTimes /\ GapToPrevious
  BY <1>1 DEF Init, QueueInOrder, RowsBehind, TimesBehind, RefusedBehind, LastTimes, GapToPrevious,
              Waiting
<1> QED
  BY <1>4, <1>5, <1>6 DEF IInv

(* Steps that leave rows, times and refusals alone *)
LEMMA SameGaps ==
  ASSUME LastTimes, GapToPrevious, UNCHANGED << records, times, refused >>
  PROVE  LastTimes' /\ GapToPrevious'
  BY DEF LastTimes, GapToPrevious, IsLast, RefusedSince

LEMMA Handle_IInv ==
  ASSUME IInv, NEW t \in Threads, NEW scope \in Scopes, NEW size \in Sizes,
         HandleCommand(t, scope, size)
  PROVE  IInv'
<1> DEFINE c == [tid |-> t, scope |-> scope, size |-> size, ctime |-> clock + 1]
<1>1. clock \in Nat /\ clock' = clock + 1 /\ clock < MaxCommands /\ MaxCommands \in Nat
  BY LogTableAssumption DEF IInv, TypeOK, HandleCommand
<1>2. pc = "idle" /\ pc' = "idle" /\ done = 0 /\ done' = 0
  BY DEF HandleCommand, IInv, BatchOK
<1>3. /\ Len(queue) \in Nat /\ DOMAIN queue = 1 .. Len(queue)
      /\ \A j \in DOMAIN queue : queue[j].ctime \in Nat
  BY Queue_Facts DEF IInv, TypeOK
<1>4. c \in Command /\ c.ctime = clock + 1
  BY <1>1 DEF Command
<1>5. queue \in Seq(Command) /\ queue' = Append(queue, c)
  BY DEF HandleCommand, IInv, TypeOK
<1> HIDE DEF c
<1>6. /\ queue' \in Seq(Command) /\ Len(queue') = Len(queue) + 1
      /\ DOMAIN queue' = 1 .. Len(queue) + 1
      /\ queue'[Len(queue) + 1] = c /\ \A j \in 1 .. Len(queue) : queue'[j] = queue[j]
  BY <1>3, <1>4, <1>5
<1>7. /\ \A j \in DOMAIN queue' : j \in DOMAIN queue \/ j = Len(queue) + 1
      /\ \A j \in DOMAIN queue : j \in DOMAIN queue' /\ j < Len(queue) + 1 /\ queue'[j] = queue[j]
  BY <1>3, <1>6
<1>8. UNCHANGED << records, strings, times, indents, indentOn, toggles, result, refused >>
  BY DEF HandleCommand, table, tls, settings
<1>9. open' \in [Threads -> Nat]
  <2>1. open \in [Threads -> Nat] /\ (scope = "exit" => open[t] > 0)
    BY DEF HandleCommand, IInv, TypeOK
  <2>2. scope = "entry" \/ scope = "exit" \/ scope = "none"
    BY DEF Scopes
  <2>3. open' = [open EXCEPT ![t] = IF scope = "entry" THEN open[t] + 1
                                     ELSE IF scope = "exit" THEN open[t] - 1 ELSE open[t]]
    BY <2>2 DEF HandleCommand
  <2> QED
    BY <2>1, <2>3
<1>10. TypeOK'
  BY <1>1, <1>2, <1>6, <1>8, <1>9 DEF IInv, TypeOK
<1>11. BatchOK' /\ Shallow'
  <2>1. \A u \in Threads : indents[u] \in Nat /\ indents[u] + (Len(queue) - done) <= clock
    BY <1>2 DEF IInv, TypeOK, Shallow
  <2> QED
    BY <1>1, <1>2, <1>3, <1>6, <1>8, <2>1 DEF BatchOK, Shallow
<1>12. QueueInOrder'
  <2>1. \A j \in DOMAIN queue : 0 < queue[j].ctime /\ queue[j].ctime < clock + 1
    BY <1>1, <1>3 DEF IInv, QueueInOrder
  <2>2. \A j \in DOMAIN queue' : 0 < queue'[j].ctime /\ queue'[j].ctime <= clock'
    BY <1>1, <1>3, <1>4, <1>6, <1>7, <2>1
  <2>3. ASSUME NEW i \in DOMAIN queue', NEW j \in DOMAIN queue', i < j
        PROVE  queue'[i].ctime < queue'[j].ctime
    <3>1. i \in DOMAIN queue
      BY <1>3, <1>6, <1>7, <2>3
    <3>2. CASE j \in DOMAIN queue
      BY <1>7, <2>3, <3>1, <3>2 DEF IInv, QueueInOrder
    <3>3. CASE j = Len(queue) + 1
      BY <1>4, <1>6, <1>7, <2>1, <3>1, <3>3
    <3> QED
      BY <1>7, <3>2, <3>3
  <2> QED
    BY <2>2, <2>3 DEF QueueInOrder
<1>13. \A j \in Waiting' : \/ j \in Waiting /\ queue'[j] = queue[j]
                           \/ queue'[j].ctime = clock + 1
  BY <1>2, <1>4, <1>6, <1>7 DEF Waiting
<1>14. RowsBehind'
  <2>1. \A i \in DOMAIN records : records[i].ctime \in Nat
    BY Records_Facts DEF IInv, TypeOK
  <2> QED
    BY <1>1, <1>8, <1>13, <2>1 DEF IInv, RowsBehind
<1>15. TimesBehind'
  <2>1. \A u \in Threads : times[u] \in Nat
    BY DEF IInv, TypeOK
  <2> QED
    BY <1>1, <1>2, <1>8, <1>13, <2>1 DEF IInv, TimesBehind
<1>16. RefusedBehind'
  <2>1. \A d \in refused : d.ctime \in Nat
    BY Refused_Facts DEF IInv, TypeOK
  <2> QED
    BY <1>1, <1>2, <1>8, <1>13, <2>1 DEF IInv, RefusedBehind
<1> QED
  BY <1>8, <1>10, <1>11, <1>12, <1>14, <1>15, <1>16, SameGaps DEF IInv

LEMMA Commit_IInv == ASSUME IInv, CommitCommands PROVE IInv'
<1>1. /\ pc = "idle" /\ pc' = "rows" /\ done' = 0 /\ done = 0 /\ queue # << >>
      /\ result' = FALSE
      /\ UNCHANGED << clock, open, queue, records, strings, times, indents, indentOn, toggles, refused >>
  BY DEF CommitCommands, client, table, tls, settings, IInv, BatchOK
<1>2. Len(queue) \in Nat /\ 0 < Len(queue)
  BY <1>1, Queue_Facts DEF IInv, TypeOK
<1>3. TypeOK'
  BY <1>1, <1>2 DEF IInv, TypeOK
<1>4. BatchOK' /\ Shallow' /\ QueueInOrder'
  BY <1>1, <1>2 DEF IInv, BatchOK, Shallow, QueueInOrder
<1>5. Waiting' = Waiting
  BY <1>1 DEF Waiting
<1>6. RowsBehind' /\ TimesBehind' /\ RefusedBehind'
  BY <1>1, <1>5 DEF IInv, RowsBehind, TimesBehind, RefusedBehind
<1> QED
  BY <1>1, <1>3, <1>4, <1>6, SameGaps DEF IInv

LEMMA Post_IInv == ASSUME IInv, PostProcessBatch PROVE IInv'
<1>1. /\ pc = "post" /\ pc' = "idle" /\ done' = 0 /\ queue' = << >>
      /\ UNCHANGED << clock, open, records, strings, times, indents, indentOn, toggles, result, refused >>
  BY DEF PostProcessBatch, CloseBatch, client, table, tls, settings
<1>2. /\ Len(queue) \in Nat /\ done \in 0 .. Len(queue)
      /\ Len(queue') = 0 /\ DOMAIN queue' = {} /\ queue' \in Seq(Command)
  BY <1>1, Queue_Facts DEF IInv, TypeOK
<1>3. TypeOK'
  BY <1>1, <1>2 DEF IInv, TypeOK
<1>4. BatchOK' /\ QueueInOrder'
  BY <1>1, <1>2 DEF IInv, BatchOK, QueueInOrder
<1>5. Shallow'
  <2>1. \A t \in Threads : indents[t] \in Nat /\ indents[t] + (Len(queue) - done) <= clock
    BY <1>1 DEF IInv, TypeOK, Shallow
  <2>2. clock \in Nat
    BY DEF IInv, TypeOK
  <2> QED
    BY <1>1, <1>2, <2>1, <2>2 DEF Shallow
<1>6. Waiting' = {}
  BY <1>2 DEF Waiting
<1>7. RowsBehind' /\ TimesBehind' /\ RefusedBehind'
  BY <1>1, <1>6 DEF IInv, RowsBehind, TimesBehind, RefusedBehind
<1> QED
  BY <1>1, <1>3, <1>4, <1>5, <1>7, SameGaps DEF IInv

LEMMA Clear_IInv == ASSUME IInv, ClearAllData PROVE IInv'
<1>1. /\ records' = << >> /\ strings' = 0
      /\ UNCHANGED << clock, open, queue, times, indents, indentOn, toggles, pc, done, result, refused >>
  BY DEF ClearAllData, client, tls, settings
<1>2. /\ Len(records') = 0 /\ DOMAIN records' = {} /\ records' \in Seq(Row)
      /\ RecordCap \in Nat /\ StringCap \in Nat
  BY <1>1, LogTableAssumption
<1>3. TypeOK'
  BY <1>1, <1>2 DEF IInv, TypeOK
<1>4. BatchOK' /\ Shallow' /\ QueueInOrder' /\ Waiting' = Waiting
  BY <1>1 DEF IInv, BatchOK, Shallow, QueueInOrder, Waiting
<1>5. RowsBehind' /\ TimesBehind' /\ RefusedBehind' /\ LastTimes' /\ GapToPrevious'
  BY <1>1, <1>2, <1>4
     DEF IInv, RowsBehind, TimesBehind, RefusedBehind, LastTimes, GapToPrevious
<1> QED
  BY <1>3, <1>4, <1>5 DEF IInv

LEMMA Indent_IInv == ASSUME IInv, OnCtxMenuIndentChanged PROVE IInv'
<1>1. /\ indentOn' \in BOOLEAN /\ toggles' = toggles + 1
      /\ UNCHANGED << clock, open, queue, records, strings, times, indents, pc, done, result, refused >>
  BY DEF OnCtxMenuIndentChanged, client, table, tls
<1>2. TypeOK'
  BY <1>1 DEF IInv, TypeOK
<1>3. BatchOK' /\ Shallow' /\ QueueInOrder' /\ Waiting' = Waiting
  BY <1>1 DEF IInv, BatchOK, Shallow, QueueInOrder, Waiting
<1>4. RowsBehind' /\ TimesBehind' /\ RefusedBehind'
  BY <1>1, <1>3 DEF IInv, RowsBehind, TimesBehind, RefusedBehind
<1> QED
  BY <1>1, <1>2, <1>3, <1>4, SameGaps DEF IInv

(* A refusal keeps the rows and remembers the command; the time of its thread may be  *)
(* set to it.                                                                         *)
LEMMA Refuse_IInv ==
  ASSUME IInv, pc = "rows", Refuse, strings' \in 0 .. StringCap,
         times' = times \/ times' = [times EXCEPT ![cmd.tid] = cmd.ctime]
  PROVE  IInv'
<1>1. /\ pc' = "post" /\ result' = FALSE /\ refused' = refused \cup {cmd}
      /\ UNCHANGED << clock, open, queue, records, indents, indentOn, toggles, done >>
  BY DEF Refuse, client, settings
<1>2. /\ cmd \in Command /\ cmd.tid \in Threads /\ cmd.ctime \in Nat /\ cmd.ctime <= clock
      /\ \A i \in DOMAIN records : records[i].ctime < cmd.ctime
  BY Cmd_Facts
<1>3. times' \in [Threads -> Nat] /\ \A t \in Threads : times'[t] = times[t] \/ (t = cmd.tid /\ times'[t] = cmd.ctime)
  BY <1>2 DEF IInv, TypeOK
<1> HIDE DEF cmd
<1>4. TypeOK'
  BY <1>1, <1>2, <1>3 DEF IInv, TypeOK
<1>5. BatchOK' /\ Shallow' /\ QueueInOrder' /\ Waiting' = Waiting
  BY <1>1 DEF IInv, BatchOK, Shallow, QueueInOrder, Waiting
<1>6. RowsBehind'
  BY <1>1, <1>5 DEF IInv, RowsBehind
<1>7. TimesBehind' /\ RefusedBehind'
  BY <1>1, <1>2, <1>3 DEF IInv, TimesBehind, RefusedBehind
<1>8. LastTimes'
  <2> SUFFICES ASSUME NEW i \in DOMAIN records, IsLast(i)
               PROVE  times'[records[i].tid] = records[i].ctime \/ RefusedSince(i)'
    BY <1>1 DEF LastTimes, IsLast
  <2>1. records[i].tid \in Threads
    BY Records_Facts DEF IInv, TypeOK
  <2>2. CASE times'[records[i].tid] = times[records[i].tid]
    BY <1>1, <2>2 DEF IInv, LastTimes, RefusedSince
  <2>3. CASE records[i].tid = cmd.tid
    BY <1>1, <1>2, <2>3 DEF RefusedSince
  <2> QED
    BY <1>3, <2>1, <2>2, <2>3
<1>9. GapToPrevious'
  BY <1>1 DEF IInv, GapToPrevious
<1> QED
  BY <1>4, <1>5, <1>6, <1>7, <1>8, <1>9 DEF IInv

LEMMA Refusals_IInv ==
  ASSUME IInv, RefuseRecord \/ RefuseName \/ RefuseMessage
  PROVE  IInv'
<1>1. strings \in 0 .. StringCap /\ StringCap \in Nat
  BY LogTableAssumption DEF IInv, TypeOK
<1>2. CASE RefuseRecord
  BY <1>1, <1>2, Refuse_IInv DEF RefuseRecord
<1>3. CASE RefuseName
  BY <1>1, <1>3, Refuse_IInv DEF RefuseName
<1>4. CASE RefuseMessage
  BY <1>1, <1>4, Refuse_IInv DEF RefuseMessage, CanAddNames
<1> QED
  BY <1>2, <1>3, <1>4

(* The indentation of a row is not negative, nor is the time since the last one. *)
LEMMA Row_Facts ==
  ASSUME IInv, pc = "rows"
  PROVE  Indentation \in Nat /\ SinceLastTime \in Nat
<1>1. /\ cmd.tid \in Threads /\ cmd.ctime \in Nat /\ times[cmd.tid] < cmd.ctime
  BY Cmd_Facts
<1>2. times[cmd.tid] \in Nat
  BY <1>1 DEF IInv, TypeOK
<1>3. indents[cmd.tid] \in Nat /\ AsInt(indents[cmd.tid]) = indents[cmd.tid]
  BY <1>1, Depth_Facts
<1> HIDE DEF cmd
<1>4. Indentation \in Nat
  BY <1>3 DEF Indentation
<1>5. SinceLastTime \in Nat
  BY <1>1, <1>2 DEF SinceLastTime
<1> QED
  BY <1>4, <1>5

(* What incrIndent and decrIndent make of a depth that is in range *)
LEMMA After_Steps ==
  ASSUME IInv, pc = "rows"
  PROVE  LET u == indents[cmd.tid] IN
         /\ cmd.scope = "entry" => IndentAfter(u) = u + 1
         /\ cmd.scope = "exit" => \/ 0 < u /\ IndentAfter(u) = u - 1
                                  \/ IndentAfter(u) = Width - 1 /\ AsInt(IndentAfter(u)) < 0
         /\ cmd.scope = "none" => IndentAfter(u) = u
<1> DEFINE u == indents[cmd.tid]
<1>1. /\ cmd.tid \in Threads /\ cmd.ctime \in Nat /\ 0 < cmd.ctime /\ cmd.ctime <= clock
  BY Cmd_Facts
<1>2. u \in Nat /\ u < Width /\ u <= MaxCommands
  BY <1>1, Depth_Facts
<1>3. /\ Width \in Nat /\ Width > 2 * MaxCommands /\ MaxCommands \in Nat
      /\ clock \in Nat /\ clock <= MaxCommands
  BY LogTableAssumption DEF IInv, TypeOK, BatchOK
<1>4. u + 1 < Width /\ Width >= 2
  BY <1>1, <1>2, <1>3
<1> HIDE DEF u
<1>5. ASSUME cmd.scope = "entry" PROVE IndentAfter(u) = u + 1
  <2>1. IndentAfter(u) = (u + 1) % Width
    BY <1>5 DEF IndentAfter
  <2> QED
    BY <1>2, <1>3, <1>4, <2>1, Up
<1>6. ASSUME cmd.scope = "exit"
      PROVE  \/ 0 < u /\ IndentAfter(u) = u - 1
             \/ IndentAfter(u) = Width - 1 /\ AsInt(IndentAfter(u)) < 0
  <2>1. IndentAfter(u) = (u - 1) % Width
    BY <1>6 DEF IndentAfter
  <2>2. CASE 0 < u
    BY <1>2, <1>3, <2>1, <2>2, Down
  <2>3. CASE u = 0
    <3>1. IndentAfter(u) = Width - 1
      BY <1>3, <1>4, <2>1, <2>3, Wrap
    <3>2. AsInt(IndentAfter(u)) < 0
      BY <1>3, <1>4, <3>1 DEF AsInt
    <3> QED
      BY <3>1, <3>2
  <2> QED
    BY <1>2, <2>2, <2>3
<1>7. ASSUME cmd.scope = "none" PROVE IndentAfter(u) = u
  BY <1>7 DEF IndentAfter
<1> QED
  BY <1>5, <1>6, <1>7 DEF u

(* The depth a command leaves is in range and at most one more; an exit that goes below *)
(* none reads as negative.                                                              *)
LEMMA After_Facts ==
  ASSUME IInv, pc = "rows"
  PROVE  /\ IndentAfter(indents[cmd.tid]) \in 0 .. Width - 1
         /\ \/ IndentAfter(indents[cmd.tid]) <= indents[cmd.tid] + 1
            \/ cmd.scope = "exit" /\ AsInt(IndentAfter(indents[cmd.tid])) < 0
<1> DEFINE u == indents[cmd.tid]
<1>1. cmd.tid \in Threads /\ cmd.scope \in Scopes /\ 0 < clock
  BY Cmd_Facts DEF IInv, TypeOK
<1>2. u \in Nat /\ u < Width /\ u <= MaxCommands
  BY <1>1, Depth_Facts
<1>3. Width \in Nat /\ Width > 2 * MaxCommands /\ MaxCommands \in Nat /\ 0 < MaxCommands
  BY <1>1, LogTableAssumption DEF IInv, TypeOK, BatchOK
<1>4. /\ cmd.scope = "entry" => IndentAfter(u) = u + 1
      /\ cmd.scope = "exit" => \/ 0 < u /\ IndentAfter(u) = u - 1
                               \/ IndentAfter(u) = Width - 1 /\ AsInt(IndentAfter(u)) < 0
      /\ cmd.scope = "none" => IndentAfter(u) = u
  BY After_Steps
<1> HIDE DEF u
<1>5. /\ IndentAfter(u) \in 0 .. Width - 1
      /\ IndentAfter(u) <= u + 1 \/ (cmd.scope = "exit" /\ AsInt(IndentAfter(u)) < 0)
  BY <1>1, <1>2, <1>3, <1>4 DEF Scopes
<1> QED
  BY <1>5 DEF u

LEMMA Add_IInv == ASSUME IInv, AddRecord PROVE IInv'
<1> DEFINE n == Len(records)
           r == [tid |-> cmd.tid, scope |-> cmd.scope, ctime |-> cmd.ctime,
                 dt |-> SinceLastTime, indent |-> Indentation]
<1>1. /\ pc = "rows" /\ done' = done + 1 /\ result' = TRUE
      /\ records' = Append(records, r)
      /\ strings' = strings + 2 + cmd.size + Indentation
      /\ times' = [times EXCEPT ![cmd.tid] = cmd.ctime]
      /\ n < RecordCap /\ strings + 2 + cmd.size + Indentation <= StringCap
      /\ UNCHANGED << clock, open, queue, indentOn, toggles, refused >>
  BY DEF AddRecord, canAddRecord, CanAddMessage, client, settings
<1>2. /\ done + 1 \in DOMAIN queue /\ cmd \in Command /\ cmd.tid \in Threads /\ cmd.scope \in Scopes
      /\ cmd.size \in Nat /\ cmd.ctime \in Nat /\ 0 < cmd.ctime /\ cmd.ctime <= clock
      /\ \A i \in DOMAIN records : records[i].ctime < cmd.ctime
      /\ \A t \in Threads : times[t] < cmd.ctime
      /\ \A c \in refused : c.ctime < cmd.ctime
      /\ \A j \in Waiting : j = done + 1 \/ cmd.ctime < queue[j].ctime
  BY <1>1, Cmd_Facts
<1>3. Indentation \in Nat /\ SinceLastTime \in Nat
  BY <1>1, Row_Facts
<1>4. /\ Len(queue) \in Nat /\ DOMAIN queue = 1 .. Len(queue)
      /\ \A j \in DOMAIN queue : queue[j].ctime \in Nat
  BY Queue_Facts DEF IInv, TypeOK
<1>5. done \in Nat /\ done < Len(queue) /\ done + 1 <= Len(queue)
  BY <1>1, <1>4 DEF IInv, TypeOK, BatchOK
<1>6. /\ n \in Nat /\ DOMAIN records = 1 .. n
      /\ \A i \in DOMAIN records : records[i].tid \in Threads /\ records[i].ctime \in Nat
  BY Records_Facts DEF IInv, TypeOK
<1>7. /\ r.tid = cmd.tid /\ r.ctime = cmd.ctime /\ r.dt = SinceLastTime /\ r.scope = cmd.scope
      /\ r.indent = Indentation
  OBVIOUS
<1>8. r \in Row
  BY <1>2, <1>3 DEF Row
<1> HIDE DEF r
<1>9. /\ records' \in Seq(Row) /\ Len(records') = n + 1 /\ DOMAIN records' = 1 .. n + 1
      /\ records'[n + 1] = r /\ \A i \in 1 .. n : records'[i] = records[i]
  BY <1>1, <1>6, <1>8 DEF IInv, TypeOK
<1>10. \A i \in DOMAIN records' : \/ i \in DOMAIN records /\ records'[i] = records[i] /\ i < n + 1
                                  \/ i = n + 1 /\ records'[i] = r
  BY <1>6, <1>9
<1>11. /\ pc' \in {"rows", "post", "asserted"}
       /\ pc' = "rows" => done + 1 # Len(queue)
  BY DEF AddRecord
<1>12. times' \in [Threads -> Nat] /\ times'[cmd.tid] = cmd.ctime
       /\ \A t \in Threads : t # cmd.tid => times'[t] = times[t]
  BY <1>1, <1>2 DEF IInv, TypeOK
<1>13. /\ indents' \in [Threads -> 0 .. Width - 1]
       /\ \A t \in Threads : t # cmd.tid => indents'[t] = indents[t]
       /\ indents'[cmd.tid] \in {indents[cmd.tid], IndentAfter(indents[cmd.tid])}
  <2>1. indents \in [Threads -> 0 .. Width - 1]
    BY DEF IInv, TypeOK
  <2>2. IndentAfter(indents[cmd.tid]) \in 0 .. Width - 1
    BY <1>1, After_Facts
  <2>3. \/ indents' = indents
        \/ indents' = [indents EXCEPT ![cmd.tid] = IndentAfter(indents[cmd.tid])]
    BY DEF AddRecord
  <2> QED
    BY <1>2, <2>1, <2>2, <2>3
<1>14. pc' # "asserted" => indents'[cmd.tid] <= indents[cmd.tid] + 1
  <2>1. IndentAfter(indents[cmd.tid]) \in Nat /\ indents[cmd.tid] \in Nat
    BY <1>1, <1>2, After_Facts, Depth_Facts
  <2>2. CASE IndentAfter(indents[cmd.tid]) <= indents[cmd.tid] + 1
    BY <1>13, <2>1, <2>2
  <2>3. CASE cmd.scope = "exit" /\ AsInt(IndentAfter(indents[cmd.tid])) < 0
    <3>1. CASE indentOn
      <4>1. indents' = [indents EXCEPT ![cmd.tid] = IndentAfter(indents[cmd.tid])]
        BY <3>1 DEF AddRecord
      <4>2. indents'[cmd.tid] = IndentAfter(indents[cmd.tid])
        BY <1>2, <4>1 DEF IInv, TypeOK
      <4>3. pc' = "asserted"
        BY <2>3, <3>1, <4>2 DEF AddRecord, AsInt
      <4> QED
        BY <4>3
    <3>2. CASE ~ indentOn
      <4>1. indents' = indents
        BY <3>2 DEF AddRecord
      <4> QED
        BY <2>1, <4>1
    <3> QED
      BY <3>1, <3>2
  <2> QED
    BY <1>1, <2>2, <2>3, After_Facts
<1>15. TypeOK'
  <2>1. clock' \in Nat /\ toggles' \in Nat /\ done' \in 0 .. Len(queue')
    BY <1>1, <1>4, <1>5 DEF IInv, TypeOK
  <2>2. Len(records') <= RecordCap
    BY <1>1, <1>6, <1>9, LogTableAssumption
  <2>3. strings' \in 0 .. StringCap
    <3>1. strings \in Nat /\ StringCap \in Nat
      BY LogTableAssumption DEF IInv, TypeOK
    <3>2. cmd.size \in Nat /\ Indentation \in Nat
      BY <1>2, <1>3
    <3> HIDE DEF cmd
    <3> QED
      BY <1>1, <3>1, <3>2
  <2>4. open' \in [Threads -> Nat] /\ queue' \in Seq(Command)
    BY <1>1 DEF IInv, TypeOK
  <2>5. indentOn' \in BOOLEAN /\ result' \in BOOLEAN /\ refused' \subseteq Command
    BY <1>1 DEF IInv, TypeOK
  <2>6. pc' \in {"idle", "rows", "post", "asserted"}
    BY <1>11
  <2> QED
    BY <1>9, <1>12, <1>13, <2>1, <2>2, <2>3, <2>4, <2>5, <2>6 DEF TypeOK
<1>16. BatchOK'
  <2>1. clock' <= MaxCommands
    BY <1>1 DEF IInv, BatchOK
  <2>2. pc' # "idle"
    BY <1>11
  <2>3. ASSUME pc' = "rows" PROVE done' < Len(queue')
    <3>1. done + 1 # Len(queue)
      BY <1>11, <2>3
    <3>2. Len(queue) \in Nat /\ done \in Nat /\ done + 1 <= Len(queue)
      BY <1>4, <1>5
    <3>3. done + 1 < Len(queue)
      BY ONLY <3>1, <3>2
    <3> QED
      BY <1>1, <3>3
  <2> QED
    BY <2>1, <2>2, <2>3 DEF BatchOK
<1>17. Shallow'
  <2>1. \A t \in Threads : indents[t] \in Nat /\ indents[t] + (Len(queue) - done) <= clock
    BY <1>1, Depth_Facts DEF IInv, Shallow
  <2>2. \A t \in Threads : indents'[t] \in Int
    BY <1>13, LogTableAssumption
  <2>3. clock \in Nat /\ clock' = clock /\ queue' = queue /\ done' = done + 1
    BY <1>1 DEF IInv, TypeOK
  <2>4. pc' # "asserted" => \A t \in Threads : indents'[t] <= indents[t] + 1
    BY <1>13, <1>14, <2>1
  <2> QED
    BY <1>4, <1>5, <2>1, <2>2, <2>3, <2>4 DEF Shallow
<1>18. QueueInOrder'
  BY <1>1 DEF IInv, QueueInOrder
<1>19. \A j \in Waiting' : j \in Waiting /\ queue'[j] = queue[j] /\ cmd.ctime < queue[j].ctime
  <2>1. \A j \in Waiting' : j \in Waiting /\ j # done + 1 /\ queue'[j] = queue[j]
    BY <1>1, <1>4, <1>5 DEF Waiting
  <2> QED
    BY <1>2, <2>1
<1>20. RowsBehind'
  <2>1. \A i \in DOMAIN records' : 0 < records'[i].ctime /\ records'[i].ctime <= clock'
    BY <1>1, <1>2, <1>7, <1>10 DEF IInv, RowsBehind
  <2>2. ASSUME NEW i \in DOMAIN records', NEW j \in DOMAIN records', i < j
        PROVE  records'[i].ctime < records'[j].ctime
    <3>1. i \in DOMAIN records /\ records'[i] = records[i]
      BY <1>6, <1>9, <1>10, <2>2
    <3>2. CASE j \in DOMAIN records /\ records'[j] = records[j]
      BY <2>2, <3>1, <3>2 DEF IInv, RowsBehind
    <3>3. CASE records'[j] = r
      BY <1>2, <1>7, <3>1, <3>3
    <3> QED
      BY <1>10, <3>2, <3>3
  <2>3. \A i \in DOMAIN records', j \in Waiting' : records'[i].ctime < queue'[j].ctime
    BY <1>7, <1>10, <1>19 DEF IInv, RowsBehind
  <2> QED
    BY <2>1, <2>2, <2>3 DEF RowsBehind
<1>21. TimesBehind'
  <2>1. \A t \in Threads : times'[t] = times[t] \/ times'[t] = cmd.ctime
    BY <1>12
  <2>2. \A t \in Threads : times'[t] <= clock'
    BY <1>1, <1>2, <2>1 DEF IInv, TimesBehind
  <2>3. \A t \in Threads, j \in Waiting' : times'[t] < queue'[j].ctime
    BY <1>1, <1>19, <2>1 DEF IInv, TimesBehind
  <2> QED
    BY <2>2, <2>3 DEF TimesBehind
<1>22. RefusedBehind'
  BY <1>1, <1>19 DEF IInv, RefusedBehind
<1>23. ASSUME NEW i \in DOMAIN records, records[i].tid = cmd.tid,
              \A k \in i + 1 .. n : records[k].tid # cmd.tid
       PROVE  \/ SinceLastTime = cmd.ctime - records[i].ctime
              \/ RefusedSince(i)
  <2>1. times[cmd.tid] = records[i].ctime \/ RefusedSince(i)
    BY <1>23 DEF IInv, LastTimes, IsLast
  <2>2. 0 < records[i].ctime /\ records[i].ctime \in Nat
    BY <1>6 DEF IInv, RowsBehind
  <2> QED
    BY <2>1, <2>2 DEF SinceLastTime
<1>24. LastTimes'
  <2> SUFFICES ASSUME NEW i \in DOMAIN records', IsLast(i)'
               PROVE  times'[records'[i].tid] = records'[i].ctime \/ RefusedSince(i)'
    BY DEF LastTimes
  <2>1. CASE i = n + 1 /\ records'[i] = r
    BY <1>7, <1>12, <2>1
  <2>2. CASE i \in DOMAIN records /\ records'[i] = records[i] /\ i < n + 1
    <3>1. n + 1 \in i + 1 .. Len(records') /\ records'[n + 1].tid = cmd.tid
      BY <1>6, <1>7, <1>9, <2>2
    <3>2. records[i].tid # cmd.tid
      BY <2>2, <3>1 DEF IsLast
    <3>3. \A k \in i + 1 .. n : k \in i + 1 .. Len(records') /\ records'[k] = records[k]
      BY <1>6, <1>9, <2>2
    <3>4. IsLast(i)
      BY <2>2, <3>3 DEF IsLast
    <3>5. times[records[i].tid] = records[i].ctime \/ RefusedSince(i)
      BY <2>2, <3>4 DEF IInv, LastTimes
    <3>6. times'[records[i].tid] = times[records[i].tid]
      BY <1>6, <1>12, <2>2, <3>2
    <3>7. RefusedSince(i) => RefusedSince(i)'
      BY <1>1, <2>2 DEF RefusedSince
    <3> QED
      BY <2>2, <3>5, <3>6, <3>7
  <2> QED
    BY <1>10, <2>1, <2>2
<1>25. GapToPrevious'
  <2> SUFFICES ASSUME NEW i \in DOMAIN records', NEW j \in DOMAIN records',
                      i < j, records'[i].tid = records'[j].tid,
                      \A k \in i + 1 .. j - 1 : records'[k].tid # records'[j].tid
               PROVE  \/ records'[j].dt = records'[j].ctime - records'[i].ctime
                      \/ \E c \in refused : /\ c.tid = records'[j].tid
                                            /\ records'[i].ctime < c.ctime
                                            /\ c.ctime < records'[j].ctime
    BY <1>1 DEF GapToPrevious
  <2>1. i \in DOMAIN records /\ records'[i] = records[i] /\ i \in Nat /\ j \in Nat
    BY <1>6, <1>9, <1>10
  <2>2. CASE j \in DOMAIN records /\ records'[j] = records[j] /\ j < n + 1
    <3>1. \A k \in i + 1 .. j - 1 : records'[k] = records[k]
      BY <1>6, <1>9, <2>1, <2>2
    <3> QED
      BY <2>1, <2>2, <3>1 DEF IInv, GapToPrevious
  <2>3. CASE j = n + 1 /\ records'[j] = r
    <3>1. \A k \in i + 1 .. n : k \in i + 1 .. j - 1 /\ records'[k] = records[k]
      BY <1>6, <1>9, <2>1, <2>3
    <3>2. \/ SinceLastTime = cmd.ctime - records[i].ctime
          \/ RefusedSince(i)
      BY <1>7, <1>23, <2>1, <2>3, <3>1
    <3> QED
      BY <1>2, <1>7, <2>1, <2>3, <3>2 DEF RefusedSince
  <2> QED
    BY <1>10, <2>2, <2>3
<1> QED
  BY <1>15, <1>16, <1>17, <1>18, <1>20, <1>21, <1>22, <1>24, <1>25 DEF IInv

(* The table after any commands, batches, refusals and clears: rows and times are behind  *)
(* what waits in the queue, and no depth is more than the commands handled.               *)
THEOREM Invariance == Spec => []IInv
<1>1. ASSUME IInv, [Next]_tableVars PROVE IInv'
  <2>1. CASE \E t \in Threads, scope \in Scopes, size \in Sizes : HandleCommand(t, scope, size)
    BY <1>1, <2>1, Handle_IInv
  <2>2. CASE CommitCommands
    BY <1>1, <2>2, Commit_IInv
  <2>3. CASE RefuseRecord \/ RefuseName \/ RefuseMessage
    BY <1>1, <2>3, Refusals_IInv
  <2>4. CASE AddRecord
    BY <1>1, <2>4, Add_IInv
  <2>5. CASE PostProcessBatch
    BY <1>1, <2>5, Post_IInv
  <2>6. CASE ClearAllData
    BY <1>1, <2>6, Clear_IInv
  <2>7. CASE OnCtxMenuIndentChanged
    BY <1>1, <2>7, Indent_IInv
  <2>8. CASE UNCHANGED tableVars
    <3>1. UNCHANGED << clock, open, queue, records, strings, times, indents, indentOn, toggles,
                       pc, done, result, refused >>
      BY <2>8 DEF tableVars, client, table, tls, settings
    <3>2. TypeOK' /\ BatchOK' /\ Shallow' /\ QueueInOrder' /\ Waiting' = Waiting
      BY <1>1, <3>1 DEF IInv, TypeOK, BatchOK, Shallow, QueueInOrder, Waiting
    <3>3. RowsBehind' /\ TimesBehind' /\ RefusedBehind'
      BY <1>1, <3>1, <3>2 DEF IInv, RowsBehind, TimesBehind, RefusedBehind
    <3> QED
      BY <1>1, <3>1, <3>2, <3>3, SameGaps DEF IInv
  <2> QED
    BY <1>1, <2>1, <2>2, <2>3, <2>4, <2>5, <2>6, <2>7, <2>8 DEF Next, Commit, HandleLogCommand
<1> QED
  BY Init_IInv, <1>1, PTL DEF Spec

(* Every reachable state is type correct: no time difference and no indentation is ever *)
(* negative, although both are computed without a sign.                                 *)
THEOREM TypeCorrect == Spec => []TypeOK
<1>1. IInv => TypeOK
  BY DEF IInv
<1> QED
  BY <1>1, Invariance, PTL

(* The rows of handleLogCommand stand in the order the client sent the commands, each   *)
(* at most once.                                                                        *)
THEOREM RowsOrdered == Spec => []RowsInOrder
<1>1. ASSUME IInv PROVE RowsInOrder
  <2>1. pc = "idle" => Waiting = DOMAIN queue
    BY <1>1, Queue_Facts DEF IInv, TypeOK, BatchOK, Waiting
  <2> QED
    BY <1>1, <2>1 DEF IInv, RowsBehind, RowsInOrder
<1> QED
  BY <1>1, Invariance, PTL

(* The time difference of a row is that to the previous row of its thread, unless a     *)
(* command of the thread was refused in between.                                        *)
THEOREM GapsKept == Spec => []GapToPrevious
<1>1. IInv => GapToPrevious
  BY DEF IInv
<1> QED
  BY <1>1, Invariance, PTL

-----------------------------------------------------------------------------
(* Depths *)

(* Thread t's commands of scope sc that have no row yet *)
Waits(t, sc) == {j \in Waiting : queue[j].tid = t /\ queue[j].scope = sc}

(* What DepthAgrees says, with the commands that wait counted in place, and what makes *)
(* it inductive: with nothing refused a batch ends with its last command.              *)
DepthInv ==
  /\ toggles = 0 => indentOn
  /\ pc = "post" /\ refused = {} => done = Len(queue)
  /\ Undisturbed /\ pc # "asserted" =>
       \A t \in Threads :
         indents[t] + Cardinality(Waits(t, "entry")) - Cardinality(Waits(t, "exit")) = open[t]

LEMMA Waits_Finite ==
  ASSUME IInv, NEW t, NEW sc
  PROVE  IsFiniteSet(Waits(t, sc)) /\ Cardinality(Waits(t, sc)) \in Nat
<1>1. Len(queue) \in Nat /\ DOMAIN queue = 1 .. Len(queue)
  BY Queue_Facts DEF IInv, TypeOK
<1>2. IsFiniteSet(1 .. Len(queue))
  BY <1>1, FS_Interval
<1>3. Waits(t, sc) \in SUBSET (1 .. Len(queue))
  BY <1>1 DEF Waits, Waiting
<1>4. IsFiniteSet(Waits(t, sc))
  BY <1>2, <1>3, FS_Subset
<1> QED
  BY <1>4, FS_CardinalityType

(* Nothing to count differently: queue and done are as they were. *)
LEMMA SameDepths ==
  ASSUME DepthInv, UNCHANGED << queue, done, indents, open, refused, toggles, indentOn >>,
         pc' = "asserted" => pc = "asserted", pc = "asserted" => pc' = "asserted",
         pc' = "post" => pc = "post"
  PROVE  DepthInv'
<1>1. \A t : Waits(t, "entry")' = Waits(t, "entry") /\ Waits(t, "exit")' = Waits(t, "exit")
  BY DEF Waits, Waiting
<1> QED
  BY <1>1 DEF DepthInv, Undisturbed

LEMMA Handle_Depths ==
  ASSUME IInv, DepthInv, NEW t \in Threads, NEW scope \in Scopes, NEW size \in Sizes,
         HandleCommand(t, scope, size)
  PROVE  DepthInv'
<1> DEFINE c == [tid |-> t, scope |-> scope, size |-> size, ctime |-> clock + 1]
           n == Len(queue)
<1>1. /\ pc = "idle" /\ pc' = "idle" /\ done' = done /\ queue' = Append(queue, c)
      /\ UNCHANGED << indents, refused, toggles, indentOn >>
  BY DEF HandleCommand, table, tls, settings
<1>2. n \in Nat /\ DOMAIN queue = 1 .. n /\ queue \in Seq(Command) /\ done = 0
  BY <1>1, Queue_Facts DEF IInv, TypeOK, BatchOK
<1>3. c.tid = t /\ c.scope = scope
  OBVIOUS
<1>4. clock \in Nat
  BY DEF IInv, TypeOK
<1>5. c \in Command
  BY <1>4 DEF Command
<1> HIDE DEF c
<1>6. /\ DOMAIN queue' = 1 .. n + 1 /\ queue'[n + 1] = c
      /\ \A j \in 1 .. n : queue'[j] = queue[j]
  BY <1>1, <1>2, <1>5
<1>7. ASSUME NEW u, NEW sc
      PROVE  Waits(u, sc)' = IF u = t /\ sc = scope THEN Waits(u, sc) \cup {n + 1} ELSE Waits(u, sc)
  <2>1. Waiting = 1 .. n /\ Waiting' = 1 .. n + 1
    BY <1>1, <1>2, <1>6 DEF Waiting
  <2>2. \A j \in 1 .. n + 1 : j \in 1 .. n \/ j = n + 1
    BY <1>2
  <2>3. \A j \in 1 .. n : j \in 1 .. n + 1
    BY <1>2
  <2>4. n + 1 \in 1 .. n + 1
    BY <1>2
  <2> QED
    BY <1>3, <1>6, <2>1, <2>2, <2>3, <2>4 DEF Waits
<1>8. ASSUME NEW u, NEW sc
      PROVE  /\ Cardinality(Waits(u, sc)) \in Nat
             /\ Cardinality(Waits(u, sc)') = IF u = t /\ sc = scope
                                             THEN Cardinality(Waits(u, sc)) + 1
                                             ELSE Cardinality(Waits(u, sc))
  <2>1. IsFiniteSet(Waits(u, sc)) /\ Cardinality(Waits(u, sc)) \in Nat
    BY Waits_Finite
  <2>2. n + 1 \notin Waits(u, sc)
    BY <1>2 DEF Waits, Waiting
  <2>3. Cardinality(Waits(u, sc) \cup {n + 1}) = Cardinality(Waits(u, sc)) + 1
    BY <2>1, <2>2, FS_AddElement
  <2> QED
    BY <1>7, <2>1, <2>3
<1>9. open \in [Threads -> Nat]
  BY DEF IInv, TypeOK
<1>10. \A u \in Threads : open'[u] = IF u # t THEN open[u]
                                     ELSE IF scope = "entry" THEN open[t] + 1
                                     ELSE IF scope = "exit" THEN open[t] - 1 ELSE open[t]
  <2>1. scope = "entry" \/ scope = "exit" \/ scope = "none"
    BY DEF Scopes
  <2>2. open' = [open EXCEPT ![t] = IF scope = "entry" THEN open[t] + 1
                                     ELSE IF scope = "exit" THEN open[t] - 1 ELSE open[t]]
    BY <2>1 DEF HandleCommand
  <2> QED
    BY <1>9, <2>2
<1>11. ASSUME Undisturbed', NEW u \in Threads
       PROVE  indents'[u] + Cardinality(Waits(u, "entry")') - Cardinality(Waits(u, "exit")') = open'[u]
  <2>1. indents[u] + Cardinality(Waits(u, "entry")) - Cardinality(Waits(u, "exit")) = open[u]
    BY <1>1, <1>11 DEF DepthInv, Undisturbed
  <2>2. indents[u] \in Nat /\ open[u] \in Nat
    BY <1>1, <1>9, Depth_Facts
  <2>3. Cardinality(Waits(u, "entry")) \in Nat /\ Cardinality(Waits(u, "exit")) \in Nat
    BY <1>8
  <2>4. CASE u # t
    BY <1>1, <1>8, <1>10, <2>1, <2>4
  <2>5. CASE u = t /\ scope = "entry"
    <3>1. /\ Cardinality(Waits(u, "entry")') = Cardinality(Waits(u, "entry")) + 1
          /\ Cardinality(Waits(u, "exit")') = Cardinality(Waits(u, "exit"))
      BY <1>8, <2>5
    <3>2. indents'[u] = indents[u] /\ open'[u] = open[u] + 1
      BY <1>1, <1>10, <2>5
    <3> QED
      BY <2>1, <2>2, <2>3, <3>1, <3>2
  <2>6. CASE u = t /\ scope = "exit"
    <3>1. /\ Cardinality(Waits(u, "entry")') = Cardinality(Waits(u, "entry"))
          /\ Cardinality(Waits(u, "exit")') = Cardinality(Waits(u, "exit")) + 1
      BY <1>8, <2>6
    <3>2. indents'[u] = indents[u] /\ open'[u] = open[u] - 1
      BY <1>1, <1>10, <2>6
    <3> QED
      BY <2>1, <2>2, <2>3, <3>1, <3>2
  <2>7. CASE u = t /\ scope = "none"
    BY <1>1, <1>8, <1>10, <2>1, <2>7
  <2> QED
    BY <2>4, <2>5, <2>6, <2>7 DEF Scopes
<1> QED
  BY <1>1, <1>11 DEF DepthInv

LEMMA Add_Depths == ASSUME IInv, DepthInv, AddRecord PROVE DepthInv'
<1> DEFINE b == done + 1
<1>1. /\ pc = "rows" /\ done' = done + 1
      /\ UNCHANGED << open, queue, toggles, indentOn, refused >>
  BY DEF AddRecord, client, settings
<1>2. /\ b \in Waiting /\ cmd = queue[b]
      /\ cmd.tid \in Threads /\ cmd.scope \in Scopes
  BY <1>1, Cmd_Facts
<1>3. Len(queue) \in Nat /\ DOMAIN queue = 1 .. Len(queue) /\ done \in Nat
  BY Queue_Facts DEF IInv, TypeOK
<1>4. Waiting' = Waiting \ {b}
  BY <1>1, <1>3 DEF Waiting
<1>5. ASSUME NEW u, NEW sc
      PROVE  /\ Cardinality(Waits(u, sc)) \in Nat
             /\ Cardinality(Waits(u, sc)') = IF u = cmd.tid /\ sc = cmd.scope
                                             THEN Cardinality(Waits(u, sc)) - 1
                                             ELSE Cardinality(Waits(u, sc))
  <2>1. IsFiniteSet(Waits(u, sc)) /\ Cardinality(Waits(u, sc)) \in Nat
    BY Waits_Finite
  <2>2. Waits(u, sc)' = Waits(u, sc) \ {b}
    BY <1>1, <1>4 DEF Waits
  <2>3. b \in Waits(u, sc) <=> u = cmd.tid /\ sc = cmd.scope
    BY <1>2 DEF Waits
  <2>4. Cardinality(Waits(u, sc) \ {b}) = IF b \in Waits(u, sc) THEN Cardinality(Waits(u, sc)) - 1
                                          ELSE Cardinality(Waits(u, sc))
    BY <2>1, FS_RemoveElement
  <2> QED
    BY <2>1, <2>2, <2>3, <2>4
<1>6. ASSUME Undisturbed', pc' # "asserted", NEW u \in Threads
      PROVE  indents'[u] + Cardinality(Waits(u, "entry")') - Cardinality(Waits(u, "exit")') = open'[u]
  <2>1. indents[u] + Cardinality(Waits(u, "entry")) - Cardinality(Waits(u, "exit")) = open[u]
    BY <1>1, <1>6 DEF DepthInv, Undisturbed
  <2>2. indents[u] \in Nat /\ indents[cmd.tid] \in Nat
    BY <1>1, <1>2, Depth_Facts
  <2>3. Cardinality(Waits(u, "entry")) \in Nat /\ Cardinality(Waits(u, "exit")) \in Nat
    BY <1>5
  <2>4. open[u] \in Nat
    BY DEF IInv, TypeOK
  <2>5. indentOn
    BY <1>1, <1>6 DEF DepthInv, Undisturbed
  <2>6. indents' = [indents EXCEPT ![cmd.tid] = IndentAfter(indents[cmd.tid])]
    BY <2>5 DEF AddRecord
  <2>7. indents'[u] = IF u = cmd.tid THEN IndentAfter(indents[u]) ELSE indents[u]
    BY <1>2, <2>6 DEF IInv, TypeOK
  <2>8. CASE u # cmd.tid
    BY <1>1, <1>5, <2>1, <2>7, <2>8
  <2>9. CASE u = cmd.tid /\ cmd.scope = "entry"
    <3>1. IndentAfter(indents[u]) = indents[u] + 1
      BY <1>1, <2>9, After_Steps
    <3> QED
      BY <1>1, <1>5, <2>1, <2>2, <2>3, <2>4, <2>7, <2>9, <3>1
  <2>10. CASE u = cmd.tid /\ cmd.scope = "exit"
    <3>1. ~ AsInt(IndentAfter(indents[u])) < 0
      BY <1>6, <2>5, <2>7, <2>10 DEF AddRecord, AsInt
    <3>2. IndentAfter(indents[u]) = indents[u] - 1
      BY <1>1, <2>10, <3>1, After_Steps
    <3> QED
      BY <1>1, <1>5, <2>1, <2>2, <2>3, <2>4, <2>7, <2>10, <3>2
  <2>11. CASE u = cmd.tid /\ cmd.scope = "none"
    <3>1. IndentAfter(indents[u]) = indents[u]
      BY <1>1, <2>11, After_Steps
    <3> QED
      BY <1>1, <1>5, <2>1, <2>7, <2>11, <3>1
  <2> QED
    BY <1>2, <2>8, <2>9, <2>10, <2>11 DEF Scopes
<1>7. pc' = "post" => done' = Len(queue')
  BY <1>1 DEF AddRecord
<1>8. toggles' = 0 => indentOn'
  BY <1>1 DEF DepthInv
<1> QED
  BY <1>6, <1>7, <1>8 DEF DepthInv

LEMMA Next_Depths == ASSUME IInv, DepthInv, [Next]_tableVars PROVE DepthInv'
<1>1. ASSUME NEW t \in Threads, NEW scope \in Scopes, NEW size \in Sizes, HandleCommand(t, scope, size)
      PROVE  DepthInv'
  BY <1>1, Handle_Depths
<1>2. CASE CommitCommands
  <2>1. pc = "idle" /\ done = 0
    BY <1>2 DEF CommitCommands, IInv, BatchOK
  <2> QED
    BY <1>2, <2>1, SameDepths DEF CommitCommands, client, table, tls, settings
<1>3. CASE RefuseRecord \/ RefuseName \/ RefuseMessage
  <2>1. Refuse
    BY <1>3 DEF RefuseRecord, RefuseName, RefuseMessage
  <2>2. refused' # {} /\ toggles' = toggles /\ indentOn' = indentOn
    BY <2>1 DEF Refuse, settings
  <2> QED
    BY <2>2 DEF DepthInv, Undisturbed
<1>4. CASE AddRecord
  BY <1>4, Add_Depths
<1>5. CASE PostProcessBatch
  <2>1. /\ pc = "post" /\ pc' = "idle" /\ done' = 0 /\ queue' = << >>
        /\ UNCHANGED << open, indents, toggles, indentOn, refused >>
    BY <1>5 DEF PostProcessBatch, CloseBatch, client, table, tls, settings
  <2>2. DOMAIN queue' = {} /\ DOMAIN queue = 1 .. Len(queue) /\ Len(queue) \in Nat
    BY <2>1, Queue_Facts DEF IInv, TypeOK
  <2>3. Undisturbed => Waiting = {}
    BY <2>1, <2>2 DEF DepthInv, Undisturbed, Waiting
  <2>4. Waiting' = {}
    BY <2>2 DEF Waiting
  <2>5. Undisturbed => \A t : Waits(t, "entry")' = Waits(t, "entry") /\ Waits(t, "exit")' = Waits(t, "exit")
    BY <2>3, <2>4 DEF Waits
  <2> QED
    BY <2>1, <2>5 DEF DepthInv, Undisturbed
<1>6. CASE ClearAllData
  BY <1>6, SameDepths DEF ClearAllData, client, tls, settings
<1>7. CASE OnCtxMenuIndentChanged
  <2>1. toggles' # 0 /\ UNCHANGED << pc, refused, done, queue >>
    BY <1>7 DEF OnCtxMenuIndentChanged, IInv, TypeOK
  <2> QED
    BY <2>1 DEF DepthInv, Undisturbed
<1>8. CASE UNCHANGED tableVars
  BY <1>8, SameDepths DEF tableVars, client, table, tls, settings
<1> QED
  BY <1>1, <1>2, <1>3, <1>4, <1>5, <1>6, <1>7, <1>8 DEF Next, Commit, HandleLogCommand

LEMMA Init_Depths == Init => DepthInv
<1> SUFFICES ASSUME Init PROVE DepthInv
  OBVIOUS
<1>1. DOMAIN queue = {}
  BY DEF Init
<1>2. \A t : Waits(t, "entry") = {} /\ Waits(t, "exit") = {}
  BY <1>1 DEF Waits, Waiting
<1>3. Cardinality({}) = 0
  BY FS_EmptySet
<1>4. \A t \in Threads :
        indents[t] + Cardinality(Waits(t, "entry")) - Cardinality(Waits(t, "exit")) = open[t]
  <2> SUFFICES ASSUME NEW t \in Threads
               PROVE  indents[t] + Cardinality(Waits(t, "entry")) - Cardinality(Waits(t, "exit")) = open[t]
    OBVIOUS
  <2>1. indents[t] = 0 /\ open[t] = 0
    BY DEF Init
  <2>2. Cardinality(Waits(t, "entry")) = 0 /\ Cardinality(Waits(t, "exit")) = 0
    BY <1>2, <1>3
  <2> QED
    BY <2>1, <2>2
<1>5. indentOn /\ pc # "post"
  BY DEF Init
<1> QED
  BY <1>4, <1>5 DEF DepthInv

(* The commands or rows of a sequence with which thread t opens or closes a scope, in *)
(* the whole of it and between two places                                             *)
Those(s, t, sc) == {i \in DOMAIN s : s[i].tid = t /\ s[i].scope = sc}
Placed(s, t, sc, a, b) == {k \in a .. b : s[k].tid = t /\ s[k].scope = sc}

IsPart(part, s, a, b) ==
  /\ DOMAIN part = 1 .. b - a + 1
  /\ \A i \in 1 .. b - a + 1 : part[i] = s[a + i - 1]

(* Elements of a part of a sequence, counted in place *)
LEMMA Part_Counted ==
  ASSUME NEW s, NEW a \in Int, NEW b \in Int, NEW t, NEW sc, NEW part, IsPart(part, s, a, b)
  PROVE  Cardinality(Those(part, t, sc)) = Cardinality(Placed(s, t, sc, a, b))
<1> DEFINE P == {i \in DOMAIN part : part[i].tid = t /\ part[i].scope = sc}
           Q == {k \in a .. b : s[k].tid = t /\ s[k].scope = sc}
           f == [k \in Q |-> k - a + 1]
<1>1. /\ DOMAIN part = 1 .. b - a + 1
      /\ \A i \in 1 .. b - a + 1 : part[i] = s[a + i - 1]
  BY DEF IsPart
<1>2. ASSUME NEW k \in Q PROVE k \in Int /\ k - a + 1 \in P
  <2>1. k \in Int /\ k - a + 1 \in 1 .. b - a + 1 /\ a + (k - a + 1) - 1 = k
    OBVIOUS
  <2>2. part[k - a + 1] = s[k]
    BY <1>1, <2>1
  <2> QED
    BY <1>1, <2>1, <2>2
<1>3. ASSUME NEW i \in P PROVE a + i - 1 \in Q /\ (a + i - 1) - a + 1 = i
  <2>1. i \in 1 .. b - a + 1 /\ part[i] = s[a + i - 1]
    BY <1>1
  <2>2. a + i - 1 \in a .. b /\ (a + i - 1) - a + 1 = i
    BY <2>1
  <2> QED
    BY <2>1, <2>2
<1>4. IsFiniteSet(Q)
  <2>1. IsFiniteSet(a .. b)
    BY FS_Interval
  <2> QED
    BY <2>1, FS_Subset
<1> HIDE DEF P, Q
<1>5. f \in Bijection(Q, P)
  <2>1. f \in [Q -> P]
    BY <1>2
  <2>2. ASSUME NEW k \in Q, NEW l \in Q, f[k] = f[l] PROVE k = l
    BY <1>2, <2>2
  <2>3. ASSUME NEW i \in P PROVE \E k \in Q : f[k] = i
    BY <1>3
  <2> QED
    BY <2>1, <2>2, <2>3 DEF Bijection, Injection, Surjection, IsInjective
<1>6. Cardinality(P) = Cardinality(Q)
  BY <1>4, <1>5, FS_Bijection DEF ExistsBijection
<1> QED
  BY <1>6 DEF P, Q, Those, Placed

LEMMA Opened_Those ==
  ASSUME NEW s, NEW t
  PROVE  Opened(t, s) = Cardinality(Those(s, t, "entry")) - Cardinality(Those(s, t, "exit"))
BY DEF Opened, Those

LEMMA Rest_Counted ==
  ASSUME IInv, NEW t, NEW sc, NEW rest, rest = SubSeq(queue, done + 1, Len(queue))
  PROVE  Cardinality(Those(rest, t, sc)) = Cardinality(Waits(t, sc))
<1>1. Len(queue) \in Nat /\ DOMAIN queue = 1 .. Len(queue) /\ done \in 0 .. Len(queue)
  BY Queue_Facts DEF IInv, TypeOK
<1>2. queue \in Seq(Command)
  BY DEF IInv, TypeOK
<1>3. done + 1 \in Nat /\ 1 <= done + 1 /\ done + 1 <= Len(queue) + 1 /\ Len(queue) <= Len(queue)
  BY <1>1
<1>4. Waits(t, sc) = Placed(queue, t, sc, done + 1, Len(queue))
  BY <1>1 DEF Waits, Waiting, Placed
<1>5. IsPart(rest, queue, done + 1, Len(queue))
  BY <1>1, <1>2, <1>3 DEF IsPart
<1>6. Cardinality(Those(rest, t, sc)) = Cardinality(Placed(queue, t, sc, done + 1, Len(queue)))
  <2>1. done + 1 \in Int /\ Len(queue) \in Int
    BY <1>1
  <2> QED
    BY ONLY <1>5, <2>1, Part_Counted
<1> QED
  BY <1>4, <1>6

(* Undisturbed, the depth the table keeps for a thread and the scopes of the commands   *)
(* that wait make the scopes the thread is in: over batches, clears and the wrapping    *)
(* arithmetic of incrIndent and decrIndent.                                             *)
THEOREM DepthsAgree == Spec => []DepthAgrees
<1>1. Init => DepthInv
  BY Init_Depths
<1>2. IInv /\ DepthInv /\ [Next]_tableVars => DepthInv'
  BY Next_Depths
<1>3. ASSUME IInv, DepthInv PROVE DepthAgrees
  <2> SUFFICES ASSUME Undisturbed, pc \in {"idle", "rows"}, NEW t \in Threads
               PROVE  LET rest == IF pc = "idle" THEN queue ELSE SubSeq(queue, done + 1, Len(queue)) IN
                      indents[t] + Opened(t, rest) = open[t]
    BY DEF DepthAgrees
  <2> DEFINE rest == SubSeq(queue, done + 1, Len(queue))
  <2>1. queue \in Seq(Command) /\ (pc = "idle" => done = 0)
    BY <1>3 DEF IInv, TypeOK, BatchOK
  <2>2. pc = "idle" => rest = queue
    BY <2>1
  <2>3. Opened(t, rest) = Cardinality(Waits(t, "entry")) - Cardinality(Waits(t, "exit"))
    <3>1. /\ Cardinality(Those(rest, t, "entry")) = Cardinality(Waits(t, "entry"))
          /\ Cardinality(Those(rest, t, "exit")) = Cardinality(Waits(t, "exit"))
      BY <1>3, Rest_Counted
    <3> HIDE DEF rest
    <3> QED
      BY <3>1, Opened_Those
  <2>4. /\ Cardinality(Waits(t, "entry")) \in Nat /\ Cardinality(Waits(t, "exit")) \in Nat
        /\ indents[t] \in Nat
    BY <1>3, Waits_Finite, Depth_Facts
  <2>5. indents[t] + Cardinality(Waits(t, "entry")) - Cardinality(Waits(t, "exit")) = open[t]
    BY <1>3 DEF DepthInv
  <2> HIDE DEF rest
  <2>6. indents[t] + Opened(t, rest) = open[t]
    BY <2>3, <2>4, <2>5
  <2> QED
    BY <2>2, <2>6 DEF rest
<1> QED
  BY <1>1, <1>2, <1>3, Invariance, PTL DEF Spec

-----------------------------------------------------------------------------
(* Scopes *)

(* How many more scopes a thread opens than it closes between two places of a sequence *)
Net(s, t, a, b) == Cardinality(Placed(s, t, "entry", a, b)) - Cardinality(Placed(s, t, "exit", a, b))

(* The depth the thread of row i had before it, counted back from the depth it has now *)
DepthBefore(i) == AsInt(indents[records[i].tid]) - Net(records, records[i].tid, i, Len(records))

(* Every row is indented by that depth, an exit by one less. *)
RowDepths ==
  Undisturbed =>
    \A i \in DOMAIN records :
      /\ DepthBefore(i) \in Nat
      /\ records[i].indent = IF DepthBefore(i) > 0 /\ records[i].scope = "exit"
                             THEN DepthBefore(i) - 1 ELSE DepthBefore(i)

LEMMA Placed_Finite ==
  ASSUME NEW s, NEW t, NEW sc, NEW a \in Int, NEW b \in Int
  PROVE  IsFiniteSet(Placed(s, t, sc, a, b)) /\ Cardinality(Placed(s, t, sc, a, b)) \in Nat
<1>1. IsFiniteSet(a .. b)
  BY FS_Interval
<1>2. Placed(s, t, sc, a, b) \in SUBSET (a .. b)
  BY DEF Placed
<1>3. IsFiniteSet(Placed(s, t, sc, a, b))
  BY <1>1, <1>2, FS_Subset
<1> QED
  BY <1>3, FS_CardinalityType

LEMMA Net_Int ==
  ASSUME NEW s, NEW t, NEW a \in Int, NEW b \in Int
  PROVE  Net(s, t, a, b) \in Int
<1>1. Cardinality(Placed(s, t, "entry", a, b)) \in Nat /\ Cardinality(Placed(s, t, "exit", a, b)) \in Nat
  BY Placed_Finite
<1> QED
  BY <1>1 DEF Net

LEMMA Placed_Split ==
  ASSUME NEW s, NEW t, NEW sc, NEW a \in Int, NEW b \in Int, NEW k \in Int, a <= k, k <= b + 1
  PROVE  Cardinality(Placed(s, t, sc, a, b))
           = Cardinality(Placed(s, t, sc, a, k - 1)) + Cardinality(Placed(s, t, sc, k, b))
<1> DEFINE P == Placed(s, t, sc, a, k - 1)
           Q == Placed(s, t, sc, k, b)
<1>1. IsFiniteSet(P) /\ IsFiniteSet(Q) /\ Cardinality(P) \in Nat /\ Cardinality(Q) \in Nat
  BY Placed_Finite
<1>2. Placed(s, t, sc, a, b) = P \cup Q
  <2>1. \A x \in a .. b : x \in a .. k - 1 \/ x \in k .. b
    OBVIOUS
  <2>2. \A x : x \in a .. k - 1 \/ x \in k .. b => x \in a .. b
    OBVIOUS
  <2> QED
    BY <2>1, <2>2 DEF Placed
<1>3. P \cap Q = {}
  <2>1. \A x \in a .. k - 1 : x \notin k .. b
    OBVIOUS
  <2> QED
    BY <2>1 DEF Placed
<1> HIDE DEF P, Q
<1>4. Cardinality(P \cup Q) = Cardinality(P) + Cardinality(Q) - Cardinality(P \cap Q)
  BY <1>1, FS_Union
<1>5. Cardinality(P \cap Q) = 0
  BY <1>3, FS_EmptySet
<1>6. Cardinality(P \cup Q) = Cardinality(P) + Cardinality(Q)
  BY <1>1, <1>4, <1>5
<1> QED
  BY <1>2, <1>6 DEF P, Q

LEMMA Net_Split ==
  ASSUME NEW s, NEW t, NEW a \in Int, NEW b \in Int, NEW k \in Int, a <= k, k <= b + 1
  PROVE  Net(s, t, a, b) = Net(s, t, a, k - 1) + Net(s, t, k, b)
<1>1. /\ Cardinality(Placed(s, t, "entry", a, b))
           = Cardinality(Placed(s, t, "entry", a, k - 1)) + Cardinality(Placed(s, t, "entry", k, b))
      /\ Cardinality(Placed(s, t, "exit", a, b))
           = Cardinality(Placed(s, t, "exit", a, k - 1)) + Cardinality(Placed(s, t, "exit", k, b))
  BY Placed_Split
<1>2. /\ Cardinality(Placed(s, t, "entry", a, k - 1)) \in Nat /\ Cardinality(Placed(s, t, "entry", k, b)) \in Nat
      /\ Cardinality(Placed(s, t, "exit", a, k - 1)) \in Nat /\ Cardinality(Placed(s, t, "exit", k, b)) \in Nat
  BY Placed_Finite
<1> QED
  BY <1>1, <1>2 DEF Net

LEMMA Net_One ==
  ASSUME NEW s, NEW t, NEW k \in Int
  PROVE  Net(s, t, k, k) = IF s[k].tid = t /\ s[k].scope = "entry" THEN 1
                        ELSE IF s[k].tid = t /\ s[k].scope = "exit" THEN 0 - 1 ELSE 0
<1>1. \A x : x \in k .. k <=> x = k
  OBVIOUS
<1>2. \A sc : Placed(s, t, sc, k, k) = IF s[k].tid = t /\ s[k].scope = sc THEN {k} ELSE {}
  BY <1>1 DEF Placed
<1>3. Cardinality({k}) = 1 /\ Cardinality({}) = 0
  BY FS_Singleton, FS_EmptySet
<1>4. /\ Cardinality(Placed(s, t, "entry", k, k)) = IF s[k].tid = t /\ s[k].scope = "entry" THEN 1 ELSE 0
      /\ Cardinality(Placed(s, t, "exit", k, k)) = IF s[k].tid = t /\ s[k].scope = "exit" THEN 1 ELSE 0
  BY <1>2, <1>3
<1> QED
  BY <1>4 DEF Net

LEMMA Same_Net ==
  ASSUME NEW s, NEW r, NEW t, NEW a \in Int, NEW b \in Int, \A k \in a .. b : s[k] = r[k]
  PROVE  Net(s, t, a, b) = Net(r, t, a, b)
<1>1. \A sc : Placed(s, t, sc, a, b) = Placed(r, t, sc, a, b)
  BY DEF Placed
<1> QED
  BY <1>1 DEF Net

LEMMA Net_Opened ==
  ASSUME NEW a, NEW b, records \in Seq(Row), a \in DOMAIN records, b \in DOMAIN records, a <= b + 1, NEW t
  PROVE  Opened(t, SubSeq(records, a, b)) = Net(records, t, a, b)
<1> DEFINE part == SubSeq(records, a, b)
<1>1. Len(records) \in Nat /\ DOMAIN records = 1 .. Len(records)
  OBVIOUS
<1>2. a \in Nat /\ b \in Nat /\ 1 <= a /\ b <= Len(records)
  BY <1>1
<1>3. IsPart(part, records, a, b)
  BY <1>1, <1>2 DEF IsPart
<1> HIDE DEF part
<1>5. /\ Cardinality(Those(part, t, "entry")) = Cardinality(Placed(records, t, "entry", a, b))
      /\ Cardinality(Those(part, t, "exit")) = Cardinality(Placed(records, t, "exit", a, b))
  BY <1>2, <1>3, Part_Counted
<1>4. Opened(t, part) = Net(records, t, a, b)
  BY <1>5, Opened_Those DEF Net
<1> QED
  BY <1>4 DEF part

LEMMA Signed_Step ==
  ASSUME IInv, pc = "rows", NEW u, u = indents[cmd.tid]
  PROVE  /\ u \in Nat /\ AsInt(u) = u
         /\ AsInt(IndentAfter(u)) = IF cmd.scope = "entry" THEN u + 1
                                    ELSE IF cmd.scope = "exit" THEN u - 1 ELSE u
<1>1. cmd.tid \in Threads /\ cmd.scope \in Scopes
  BY Cmd_Facts
<1>2. u \in Nat /\ u < Width /\ u <= MaxCommands /\ AsInt(u) = u
  BY <1>1, Depth_Facts
<1>3. Width \in Nat /\ Width > 2 * MaxCommands /\ MaxCommands \in Nat
  BY LogTableAssumption
<1>4. u + 1 <= MaxCommands
  <2>1. u + (Len(queue) - done) <= clock /\ clock <= MaxCommands /\ clock \in Nat
    BY <1>1 DEF IInv, Shallow, BatchOK, TypeOK
  <2>2. Len(queue) \in Nat /\ done \in Nat /\ done + 1 <= Len(queue)
    BY Cmd_Facts, Queue_Facts DEF IInv, TypeOK
  <2> QED
    BY <1>2, <1>3, <2>1, <2>2
<1>5. CASE cmd.scope = "entry"
  <2>1. IndentAfter(u) = u + 1
    BY <1>5, After_Steps
  <2>2. AsInt(u + 1) = u + 1
    BY <1>2, <1>3, <1>4 DEF AsInt
  <2> QED
    BY <1>2, <1>5, <2>1, <2>2
<1>6. CASE cmd.scope = "exit" /\ u > 0
  <2>1. IndentAfter(u) = (u - 1) % Width
    BY <1>6 DEF IndentAfter
  <2>2. IndentAfter(u) = u - 1
    BY <1>2, <1>3, <1>6, <2>1, Down
  <2>3. AsInt(u - 1) = u - 1
    BY <1>2, <1>3, <1>6 DEF AsInt
  <2> QED
    BY <1>2, <1>6, <2>2, <2>3
<1>7. CASE cmd.scope = "exit" /\ u = 0
  <2>1. IndentAfter(u) = (u - 1) % Width
    BY <1>7 DEF IndentAfter
  <2>2. IndentAfter(u) = Width - 1
    BY <1>2, <1>3, <1>4, <1>7, <2>1, Wrap
  <2>3. AsInt(Width - 1) = 0 - 1
    BY <1>3, <1>4, <1>7 DEF AsInt
  <2> QED
    BY <1>2, <1>7, <2>2, <2>3
<1>8. CASE cmd.scope = "none"
  <2>1. IndentAfter(u) = u
    BY <1>8, After_Steps
  <2> QED
    BY <1>2, <1>8, <2>1
<1> QED
  BY <1>1, <1>2, <1>5, <1>6, <1>7, <1>8 DEF Scopes

LEMMA Add_Rows == ASSUME IInv, DepthInv, RowDepths, AddRecord PROVE RowDepths'
<1> DEFINE n == Len(records)
           r == [tid |-> cmd.tid, scope |-> cmd.scope, ctime |-> cmd.ctime,
                 dt |-> SinceLastTime, indent |-> Indentation]
           u == indents[cmd.tid]
           step == IF cmd.scope = "entry" THEN 1 ELSE IF cmd.scope = "exit" THEN 0 - 1 ELSE 0
<1>1. /\ pc = "rows" /\ records' = Append(records, r)
      /\ UNCHANGED << toggles, indentOn, refused >>
  BY DEF AddRecord, settings
<1>2. cmd.tid \in Threads /\ cmd.scope \in Scopes
  BY <1>1, Cmd_Facts
<1>3. records \in Seq(Row) /\ n \in Nat /\ DOMAIN records = 1 .. n
  BY Records_Facts DEF IInv, TypeOK
<1>4. /\ Len(records') = n + 1 /\ DOMAIN records' = 1 .. n + 1
      /\ \A i \in 1 .. n : records'[i] = records[i]
      /\ records'[n + 1] = r
  BY <1>1, <1>3
<1>5. r.tid = cmd.tid /\ r.scope = cmd.scope /\ r.indent = Indentation
  OBVIOUS
<1>6. u \in Nat /\ AsInt(u) = u /\ AsInt(IndentAfter(u)) = u + step
  BY <1>1, Signed_Step
<1> SUFFICES ASSUME Undisturbed'
             PROVE  \A i \in DOMAIN records' :
                      /\ DepthBefore(i)' \in Nat
                      /\ records'[i].indent = IF DepthBefore(i)' > 0 /\ records'[i].scope = "exit"
                                              THEN DepthBefore(i)' - 1 ELSE DepthBefore(i)'
  BY DEF RowDepths
<1>7. Undisturbed /\ indentOn
  BY <1>1 DEF Undisturbed, DepthInv
<1>8. \A t \in Threads : indents'[t] = IF t = cmd.tid THEN IndentAfter(u) ELSE indents[t]
  <2>1. indents' = [indents EXCEPT ![cmd.tid] = IndentAfter(indents[cmd.tid])]
    BY <1>7 DEF AddRecord
  <2> QED
    BY <1>2, <2>1 DEF IInv, TypeOK
<1> HIDE DEF r, u
<1>9. \A t : Net(records', t, n + 1, n + 1) = IF t = cmd.tid THEN step ELSE 0
  BY <1>3, <1>4, <1>5, Net_One
<1> HIDE DEF step
<1>10. ASSUME NEW i \in 1 .. n PROVE DepthBefore(i)' = DepthBefore(i) /\ records'[i] = records[i]
  <2> DEFINE t == records[i].tid
  <2>1. records'[i] = records[i] /\ t \in Threads
    BY <1>3, <1>4, Records_Facts
  <2>2. i \in Int /\ n \in Int /\ n + 1 \in Int /\ i <= n + 1 /\ n + 1 <= (n + 1) + 1 /\ (n + 1) - 1 = n
    BY <1>3
  <2> HIDE DEF t
  <2>3. Net(records', t, i, n) = Net(records, t, i, n)
    BY <1>4, <2>2, Same_Net
  <2>4. Net(records', t, i, n + 1) = Net(records', t, i, (n + 1) - 1) + Net(records', t, n + 1, n + 1)
    BY <2>2, Net_Split
  <2>5. Net(records', t, i, n + 1) = Net(records, t, i, n) + (IF t = cmd.tid THEN step ELSE 0)
    BY <1>9, <2>2, <2>3, <2>4
  <2>6. AsInt(indents'[t]) = IF t = cmd.tid THEN u + step ELSE AsInt(indents[t])
    BY <1>6, <1>8, <2>1
  <2>7. t = cmd.tid => AsInt(indents[t]) = u
    BY <1>6 DEF u
  <2>8. Net(records, t, i, n) \in Int
    BY <2>2, Net_Int
  <2>9. DepthBefore(i)' = AsInt(indents'[t]) - Net(records', t, i, n + 1)
    BY <1>4, <2>1 DEF DepthBefore, t
  <2>10. DepthBefore(i) = AsInt(indents[t]) - Net(records, t, i, n)
    BY DEF DepthBefore, t
  <2>11. AsInt(indents[t]) \in Int /\ step \in Int
    <3>1. indents[t] \in Nat /\ AsInt(indents[t]) = indents[t]
      BY <1>1, <2>1, Depth_Facts
    <3> QED
      BY <3>1 DEF step
  <2> QED
    BY <1>6, <2>1, <2>5, <2>6, <2>7, <2>8, <2>9, <2>10, <2>11
<1>11. ASSUME NEW m, m = n + 1 PROVE DepthBefore(m)' = u
  <2>1. DepthBefore(m)' = AsInt(indents'[cmd.tid]) - Net(records', cmd.tid, n + 1, n + 1)
    BY <1>4, <1>5, <1>11 DEF DepthBefore
  <2>2. AsInt(indents'[cmd.tid]) = u + step /\ Net(records', cmd.tid, n + 1, n + 1) = step
    BY <1>2, <1>6, <1>8, <1>9
  <2>3. step \in Int
    BY DEF step
  <2> QED
    BY <1>6, <2>1, <2>2, <2>3
<1>12. records'[n + 1].indent = IF u > 0 /\ records'[n + 1].scope = "exit" THEN u - 1 ELSE u
  BY <1>4, <1>5, <1>6, <1>7 DEF Indentation, u
<1>13. ASSUME NEW i \in 1 .. n
       PROVE  /\ DepthBefore(i)' \in Nat
              /\ records'[i].indent = IF DepthBefore(i)' > 0 /\ records'[i].scope = "exit"
                                      THEN DepthBefore(i)' - 1 ELSE DepthBefore(i)'
  <2>1. /\ DepthBefore(i) \in Nat
        /\ records[i].indent = IF DepthBefore(i) > 0 /\ records[i].scope = "exit"
                               THEN DepthBefore(i) - 1 ELSE DepthBefore(i)
    BY <1>3, <1>7 DEF RowDepths
  <2> QED
    BY <1>10, <2>1
<1>14. ASSUME NEW m, m = n + 1
       PROVE  /\ DepthBefore(m)' \in Nat
              /\ records'[m].indent = IF DepthBefore(m)' > 0 /\ records'[m].scope = "exit"
                                      THEN DepthBefore(m)' - 1 ELSE DepthBefore(m)'
  BY <1>6, <1>11, <1>12, <1>14
<1>15. \A i \in 1 .. n + 1 : i \in 1 .. n \/ i = n + 1
  BY <1>3
<1> QED
  BY <1>4, <1>13, <1>14, <1>15

LEMMA Next_Rows == ASSUME IInv, DepthInv, RowDepths, [Next]_tableVars PROVE RowDepths'
<1>1. ASSUME UNCHANGED << records, indents >>, Undisturbed' => Undisturbed PROVE RowDepths'
  <2>1. \A i : DepthBefore(i)' = DepthBefore(i)
    BY <1>1 DEF DepthBefore
  <2> QED
    BY <1>1, <2>1 DEF RowDepths
<1>2. ASSUME NEW t \in Threads, NEW scope \in Scopes, NEW size \in Sizes, HandleCommand(t, scope, size)
      PROVE  RowDepths'
  BY <1>1, <1>2 DEF HandleCommand, table, tls, settings, Undisturbed
<1>3. CASE CommitCommands
  BY <1>1, <1>3 DEF CommitCommands, table, tls, settings, Undisturbed
<1>4. CASE RefuseRecord \/ RefuseName \/ RefuseMessage
  <2>1. Refuse
    BY <1>4 DEF RefuseRecord, RefuseName, RefuseMessage
  <2>2. refused' # {}
    BY <2>1 DEF Refuse
  <2> QED
    BY <2>2 DEF RowDepths, Undisturbed
<1>5. CASE AddRecord
  BY <1>5, Add_Rows
<1>6. CASE PostProcessBatch
  BY <1>1, <1>6 DEF PostProcessBatch, table, tls, settings, Undisturbed
<1>7. CASE ClearAllData
  BY <1>7 DEF ClearAllData, RowDepths
<1>8. CASE OnCtxMenuIndentChanged
  BY <1>1, <1>8 DEF OnCtxMenuIndentChanged, table, tls, Undisturbed, IInv, TypeOK
<1>9. CASE UNCHANGED tableVars
  BY <1>1, <1>9 DEF tableVars, table, tls, settings, Undisturbed
<1> QED
  BY <1>2, <1>3, <1>4, <1>5, <1>6, <1>7, <1>8, <1>9 DEF Next, Commit, HandleLogCommand

LEMMA Rows_Align == ASSUME IInv, RowDepths PROVE ScopesAlign
<1> SUFFICES ASSUME Undisturbed,
                    NEW i \in DOMAIN records, NEW j \in DOMAIN records,
                    i < j, records[i].tid = records[j].tid,
                    records[i].scope = "entry", records[j].scope = "exit",
                    Opened(records[i].tid, SubSeq(records, i, j)) = 0,
                    \A k \in i .. j - 1 : Opened(records[i].tid, SubSeq(records, i, k)) > 0
             PROVE  /\ records[i].indent = records[j].indent
                    /\ \A k \in i + 1 .. j - 1 :
                         records[k].tid = records[i].tid => records[k].indent > records[i].indent
  BY DEF ScopesAlign
<1> DEFINE n == Len(records)
           t == records[i].tid
           d == DepthBefore(i)
<1>1. records \in Seq(Row) /\ n \in Nat /\ DOMAIN records = 1 .. n
  BY Records_Facts DEF IInv, TypeOK
<1>2. i \in Int /\ j \in Int /\ n \in Int /\ 1 <= i /\ i < j /\ j <= n
  BY <1>1
<1>3. \A k \in DOMAIN records :
        /\ DepthBefore(k) \in Nat
        /\ records[k].indent = IF DepthBefore(k) > 0 /\ records[k].scope = "exit"
                               THEN DepthBefore(k) - 1 ELSE DepthBefore(k)
  BY DEF RowDepths
<1>4. records[i].indent = d /\ d \in Nat
  BY <1>3
<1> HIDE DEF n, t
<1>5. ASSUME NEW k \in i .. j PROVE Opened(t, SubSeq(records, i, k)) = Net(records, t, i, k)
  <2>1. k \in DOMAIN records /\ i <= k + 1
    BY <1>1, <1>2
  <2> QED
    BY <1>1, <2>1, Net_Opened
(* A row of the thread starts as many scopes deeper as the rows since i opened. *)
<1>6. ASSUME NEW k \in i + 1 .. j, records[k].tid = t
      PROVE  DepthBefore(k) = d + Net(records, t, i, k - 1)
  <2>1. k \in Int /\ i <= k /\ k <= n + 1
    BY <1>2
  <2>2. Net(records, t, i, n) = Net(records, t, i, k - 1) + Net(records, t, k, n)
    BY <1>2, <2>1, Net_Split
  <2>3. /\ Net(records, t, i, k - 1) \in Int /\ Net(records, t, k, n) \in Int
        /\ Net(records, t, i, n) \in Int /\ k - 1 \in Int
    BY <1>2, <2>1, Net_Int
  <2>4. DepthBefore(k) = AsInt(indents[t]) - Net(records, t, k, n)
    BY <1>6 DEF DepthBefore, n
  <2>5. d = AsInt(indents[t]) - Net(records, t, i, n)
    BY DEF DepthBefore, n, t
  <2>6. AsInt(indents[t]) \in Int
    <3>1. t \in Threads
      BY <1>1, Records_Facts DEF t
    <3>2. indents[t] \in Int /\ Width \in Int
      BY <3>1, LogTableAssumption DEF IInv, TypeOK
    <3> QED
      BY <3>2 DEF AsInt
  <2> HIDE DEF d
  <2> QED
    BY <2>2, <2>3, <2>4, <2>5, <2>6
<1> HIDE DEF d
(* An exit leaves one scope less open. *)
<1>7. ASSUME NEW k \in i + 1 .. j, records[k].tid = t, records[k].scope = "exit"
      PROVE  Net(records, t, i, k) = Net(records, t, i, k - 1) - 1
  <2>1. k \in Int /\ i <= k /\ k <= k + 1 /\ k - 1 \in Int
    BY <1>2
  <2>2. Net(records, t, i, k) = Net(records, t, i, k - 1) + Net(records, t, k, k)
    BY <1>2, <2>1, Net_Split
  <2>3. Net(records, t, k, k) = 0 - 1
    BY <1>7, <2>1, Net_One
  <2>4. Net(records, t, i, k - 1) \in Int
    BY <1>2, <2>1, Net_Int
  <2> QED
    BY <2>2, <2>3, <2>4
<1>8. Net(records, t, i, j) = 0
  <2>1. j \in i .. j
    BY <1>2
  <2>2. Opened(t, SubSeq(records, i, j)) = 0
    BY DEF t
  <2> QED
    BY <1>5, <2>1, <2>2
<1>9. records[j].indent = d
  <2>1. j \in i + 1 .. j /\ records[j].tid = t /\ records[j].scope = "exit"
    BY <1>2 DEF t
  <2>2. Net(records, t, i, j - 1) = 1
    <3>1. Net(records, t, i, j) = Net(records, t, i, j - 1) - 1
      BY <2>1, <1>7
    <3>2. Net(records, t, i, j - 1) \in Int
      BY <1>2, Net_Int
    <3> QED
      BY <1>8, <3>1, <3>2
  <2>3. DepthBefore(j) = d + 1
    BY <1>6, <2>1, <2>2
  <2> QED
    BY <1>3, <1>4, <2>1, <2>3
<1>10. ASSUME NEW k \in i + 1 .. j - 1, records[k].tid = t PROVE records[k].indent > d
  <2>1. /\ k \in Int /\ k \in i + 1 .. j /\ k \in i .. j /\ k - 1 \in i .. j /\ k - 1 \in Int
        /\ k \in i .. j - 1 /\ k - 1 \in i .. j - 1 /\ k \in DOMAIN records
    BY <1>1, <1>2
  <2>2. Opened(t, SubSeq(records, i, k)) > 0 /\ Opened(t, SubSeq(records, i, k - 1)) > 0
    BY <2>1 DEF t
  <2>3. Net(records, t, i, k) > 0 /\ Net(records, t, i, k - 1) > 0
    BY <1>5, <2>1, <2>2
  <2>4. Net(records, t, i, k) \in Int /\ Net(records, t, i, k - 1) \in Int
    BY <1>2, <2>1, Net_Int
  <2>5. DepthBefore(k) = d + Net(records, t, i, k - 1)
    BY <1>6, <1>10, <2>1
  <2>6. records[k].indent = IF DepthBefore(k) > 0 /\ records[k].scope = "exit"
                            THEN DepthBefore(k) - 1 ELSE DepthBefore(k)
    BY <1>3, <2>1
  <2>7. CASE records[k].scope = "exit"
    <3>1. Net(records, t, i, k) = Net(records, t, i, k - 1) - 1
      BY <1>7, <1>10, <2>1, <2>7
    <3> QED
      BY <1>4, <2>3, <2>4, <2>5, <2>6, <3>1
  <2>8. CASE records[k].scope # "exit"
    BY <1>4, <2>3, <2>4, <2>5, <2>6, <2>8
  <2> QED
    BY <2>7, <2>8
<1> QED
  BY <1>4, <1>9, <1>10 DEF t

(* Undisturbed, the rows of a scope are where a reader of the table expects them: its    *)
(* exit under its entry and what was logged inside indented more.  The indentation of a  *)
(* row, computed when it came, still counts the scopes of the rows that came after it.   *)
THEOREM ScopesAligned == Spec => []ScopesAlign
<1>1. Init => RowDepths
  BY DEF Init, RowDepths
<1>2. IInv /\ DepthInv /\ RowDepths /\ [Next]_tableVars => RowDepths'
  BY Next_Rows
<1>3. Init => DepthInv
  BY Init_Depths
<1>4. IInv /\ DepthInv /\ [Next]_tableVars => DepthInv'
  BY Next_Depths
<1>5. IInv /\ RowDepths => ScopesAlign
  BY Rows_Align
<1> QED
  BY <1>1, <1>2, <1>3, <1>4, <1>5, Invariance, PTL DEF Spec

-----------------------------------------------------------------------------
(* The proxies: ranks of rows *)

(* Sets of rows are finite. *)
LEMMA FiniteRows ==
  ASSUME NEW n \in Nat, NEW rows \in SUBSET (1 .. n)
  PROVE  IsFiniteSet(rows) /\ Cardinality(rows) \in Nat /\ Cardinality(rows) <= n
<1>1. IsFiniteSet(1 .. n) /\ Cardinality(1 .. n) = IF 1 > n THEN 0 ELSE n - 1 + 1
  BY FS_Interval
<1>2. Cardinality(1 .. n) = n
  BY <1>1
<1>3. IsFiniteSet(rows) /\ Cardinality(rows) <= Cardinality(1 .. n)
  BY <1>1, FS_Subset
<1> QED
  BY <1>2, <1>3, FS_CardinalityType

(* Places number the rows in their order, without gaps: the count is strictly monotone,   *)
(* hence one to one between sets of the same size.                                        *)
LEMMA Places ==
  ASSUME NEW n \in Nat, NEW rows \in SUBSET (1 .. n)
  PROVE  /\ \A r \in rows : Place(r, rows) \in 1 .. Cardinality(rows)
         /\ \A q, r \in rows : q < r <=> Place(q, rows) < Place(r, rows)
         /\ \A i \in 1 .. Cardinality(rows) : \E r \in rows : Place(r, rows) = i
<1> DEFINE upto(r) == {q \in rows : q <= r}
           place == [r \in rows |-> Place(r, rows)]
<1>1. IsFiniteSet(rows) /\ Cardinality(rows) \in Nat
  BY FiniteRows
<1>2. \A r \in rows : r \in Nat
  OBVIOUS
<1>3. ASSUME NEW r \in rows
      PROVE  IsFiniteSet(upto(r)) /\ Place(r, rows) \in 1 .. Cardinality(rows)
  <2>1. upto(r) \in SUBSET rows /\ r \in upto(r)
    BY <1>2
  <2>2. IsFiniteSet(upto(r)) /\ Cardinality(upto(r)) <= Cardinality(rows)
    BY <1>1, <2>1, FS_Subset
  <2>3. Cardinality(upto(r)) \in Nat /\ Cardinality(upto(r)) # 0
    BY <2>1, <2>2, FS_CardinalityType, FS_EmptySet
  <2> QED
    BY <1>1, <2>2, <2>3 DEF Place
<1>4. ASSUME NEW q \in rows, NEW r \in rows, q < r
      PROVE  Place(q, rows) < Place(r, rows)
  <2>1. upto(q) \in SUBSET upto(r) /\ r \in upto(r) /\ r \notin upto(q)
    <3>1. q \in Nat /\ r \in Nat
      BY <1>2
    <3>2. \A x \in rows : x <= q => x <= r
      BY <1>2, <1>4, <3>1
    <3>3. upto(q) \in SUBSET upto(r)
      BY <3>2
    <3>4. r <= r /\ ~ (r <= q)
      BY <1>4, <3>1
    <3> QED
      BY <3>3, <3>4
  <2>2. /\ Cardinality(upto(q)) <= Cardinality(upto(r))
        /\ Cardinality(upto(r)) = Cardinality(upto(q)) => upto(r) = upto(q)
    <3>1. IsFiniteSet(upto(r))
      BY <1>3
    <3> HIDE DEF upto
    <3> QED
      BY <2>1, <3>1, FS_Subset
  <2>3. Cardinality(upto(q)) # Cardinality(upto(r))
    BY <2>1, <2>2
  <2> QED
    BY <1>3, <2>2, <2>3 DEF Place
<1>5. \A q, r \in rows : q < r <=> Place(q, rows) < Place(r, rows)
  <2> SUFFICES ASSUME NEW q \in rows, NEW r \in rows
               PROVE  q < r <=> Place(q, rows) < Place(r, rows)
    OBVIOUS
  <2>1. q \in Nat /\ r \in Nat /\ Place(q, rows) \in Nat /\ Place(r, rows) \in Nat
    <3>1. Place(q, rows) \in 1 .. Cardinality(rows) /\ Place(r, rows) \in 1 .. Cardinality(rows)
      BY <1>3
    <3> QED
      BY <1>1, <1>2, <3>1
  <2>2. q < r => Place(q, rows) < Place(r, rows)
    BY <1>4
  <2>3. r < q => Place(r, rows) < Place(q, rows)
    BY <1>4
  <2>4. q < r \/ r < q \/ q = r
    BY <2>1
  <2> QED
    BY <2>1, <2>2, <2>3, <2>4
<1>6. place \in Injection(rows, 1 .. Cardinality(rows))
  <2>1. place \in [rows -> 1 .. Cardinality(rows)]
    BY <1>3
  <2>2. \A q, r \in rows : place[q] = place[r] => q = r
    BY <1>2, <1>3, <1>5
  <2> QED
    BY <2>1, <2>2 DEF Injection, IsInjective
<1>7. place \in Surjection(rows, 1 .. Cardinality(rows))
  <2>1. /\ IsFiniteSet(1 .. Cardinality(rows))
        /\ Cardinality(1 .. Cardinality(rows)) = Cardinality(rows)
    BY <1>1, FS_Interval
  <2> HIDE DEF place
  <2> QED
    BY <1>6, <2>1, FS_Injection
<1>8. \A i \in 1 .. Cardinality(rows) : \E r \in rows : Place(r, rows) = i
  BY <1>7 DEF Surjection
<1> QED
  BY <1>3, <1>5, <1>8

(* The sequence of the rows in their order *)
LEMMA Order ==
  ASSUME NEW n \in Nat, NEW rows \in SUBSET (1 .. n)
  PROVE  /\ InOrder(rows) \in Seq(rows) /\ Len(InOrder(rows)) = Cardinality(rows)
         /\ InOrder(rows) \in [1 .. Cardinality(rows) -> rows]
         /\ DOMAIN InOrder(rows) = 1 .. Cardinality(rows)
         /\ \A i \in 1 .. Cardinality(rows) :
              InOrder(rows)[i] \in rows /\ Place(InOrder(rows)[i], rows) = i
         /\ \A r \in rows : Place(r, rows) \in 1 .. Cardinality(rows)
                            /\ InOrder(rows)[Place(r, rows)] = r
         /\ \A i, j \in 1 .. Cardinality(rows) : i < j => InOrder(rows)[i] < InOrder(rows)[j]
         /\ ToSet(InOrder(rows)) = rows
<1>0. Cardinality(rows) \in Nat
  BY FiniteRows
<1> DEFINE Is(i, r) == Place(r, rows) = i
<1>1. \A i \in 1 .. Cardinality(rows) :
        InOrder(rows)[i] \in rows /\ Place(InOrder(rows)[i], rows) = i
  <2> TAKE i \in 1 .. Cardinality(rows)
  <2>1. \E r \in rows : Is(i, r)
    BY Places
  <2>2. InOrder(rows)[i] = CHOOSE r \in rows : Is(i, r)
    BY DEF InOrder
  <2> HIDE DEF Is
  <2>3. InOrder(rows)[i] \in rows /\ Is(i, InOrder(rows)[i])
    BY <2>1, <2>2
  <2> QED
    BY <2>3 DEF Is
<1>2. DOMAIN InOrder(rows) = 1 .. Cardinality(rows)
  BY DEF InOrder
<1>3. /\ InOrder(rows) \in Seq(rows) /\ Len(InOrder(rows)) = Cardinality(rows)
      /\ InOrder(rows) \in [1 .. Cardinality(rows) -> rows]
  <2>1. InOrder(rows) \in [1 .. Cardinality(rows) -> rows]
    BY <1>1, <1>2 DEF InOrder
  <2> QED
    BY <1>0, <2>1
<1>4. \A q, r \in rows : Place(q, rows) = Place(r, rows) => q = r
  <2> TAKE q, r \in rows
  <2>1. /\ q < r => Place(q, rows) < Place(r, rows)
        /\ r < q => Place(r, rows) < Place(q, rows)
        /\ Place(q, rows) \in 1 .. Cardinality(rows)
    BY Places
  <2>2. q \in Nat /\ r \in Nat /\ Place(q, rows) \in Nat
    BY <1>0, <2>1
  <2> QED
    BY <2>1, <2>2
<1>5. \A r \in rows : Place(r, rows) \in 1 .. Cardinality(rows) /\ InOrder(rows)[Place(r, rows)] = r
  BY <1>1, <1>4, Places
<1>6. \A i, j \in 1 .. Cardinality(rows) : i < j => InOrder(rows)[i] < InOrder(rows)[j]
  BY <1>1, Places
<1>7. ToSet(InOrder(rows)) = rows
  BY <1>1, <1>2, <1>5 DEF ToSet
<1> QED
  BY <1>1, <1>2, <1>3, <1>5, <1>6, <1>7
-----------------------------------------------------------------------------
(* The invariant of the view *)

(* The rows of the batch at hand have not been shown yet. *)
Through == Len(records) - done

AcceptedRows == {r \in DOMAIN records : Accepts(r)}
MatchingRows == {r \in DOMAIN records : Matches(r)}

Ascending(tgt) == \A i, j \in DOMAIN tgt : i < j => tgt[i] < tgt[j]

(* tgt shows the rows wanted in their order as far as the batches went. *)
Shows(tgt, wanted) ==
  /\ Ascending(tgt)
  /\ ToSet(tgt) \subseteq wanted
  /\ \A r \in wanted : r <= Through /\ r \notin ToSet(tgt) => CutOff(r)

(* A batch was cut short by a command younger than every row. *)
BatchCut ==
  pc = "post" /\ ~result => \E c \in refused : \A i \in DOMAIN records : records[i].ctime < c.ctime

FilterInv ==
  /\ InverseMaps(filterSrc, filterTgt)
  /\ proxyOn => ToSet(filterTgt) \subseteq 1 .. Through /\ Shows(filterTgt, AcceptedRows)

FindInv ==
  ~cleared =>
    /\ InverseMaps(findSrc, findTgt)
    /\ ToSet(findTgt) \subseteq 1 .. Through
    /\ link = "table" => Shows(findTgt, MatchingRows)

Attached == link = "none" <=> ~Contains(proxies, "find")

ViewInv ==
  /\ ViewTypeOK /\ Attached
  /\ done <= Len(records) /\ BatchCut
  /\ FilterInv /\ FindInv

(* A new row is younger than every refusal so far, so what was cut off remains cut off. *)
LEMMA StillCut ==
  ASSUME IInv, IInv', NEW r \in DOMAIN records, CutOff(r), refused \subseteq refused',
         \/ records' = records
         \/ \E row \in Row : /\ records' = Append(records, row)
                             /\ \A c \in refused : c.ctime < row.ctime
  PROVE  r \in DOMAIN records' /\ records'[r] = records[r] /\ CutOff(r)'
<1>0. Len(records) \in Nat /\ DOMAIN records = 1 .. Len(records) /\ records \in Seq(Row)
  BY Records_Facts DEF IInv, TypeOK
<1>1. PICK c \in refused : /\ records[r].ctime < c.ctime
                           /\ r < Len(records) => c.ctime < records[r + 1].ctime
  BY DEF CutOff
<1>2. CASE records' = records
  BY <1>1, <1>2 DEF CutOff
<1>3. CASE records' # records
  <2>1. PICK row \in Row : records' = Append(records, row) /\ \A d \in refused : d.ctime < row.ctime
    BY <1>3
  <2>2. /\ Len(records') = Len(records) + 1 /\ DOMAIN records' = 1 .. Len(records) + 1
        /\ records'[Len(records) + 1] = row
        /\ \A i \in 1 .. Len(records) : records'[i] = records[i]
    <3>1. records' \in Seq(Row) /\ DOMAIN records' = 1 .. Len(records')
      BY DEF IInv, TypeOK
    <3>2. Len(records') = Len(records) + 1
      BY <1>0, <2>1, AppendProperties
    <3>3. records'[Len(records) + 1] = row /\ \A i \in 1 .. Len(records) : records'[i] = records[i]
      <4>1. /\ Append(records, row)[Len(records) + 1] = row
            /\ \A i \in 1 .. Len(records) : Append(records, row)[i] = records[i]
        BY <1>0, AppendProperties
      <4> QED
        BY <2>1, <4>1
    <3> QED
      BY <3>1, <3>2, <3>3
  <2>3. r \in Nat /\ (r < Len(records) \/ r = Len(records))
    BY <1>0
  <2>4. c.ctime < records'[r + 1].ctime
    <3>1. CASE r < Len(records)
      <4>1. r + 1 \in 1 .. Len(records)
        BY <1>0, <2>3, <3>1
      <4> QED
        BY <1>1, <2>2, <3>1, <4>1
    <3>2. CASE r = Len(records)
      BY <2>1, <2>2, <3>2
    <3> QED
      BY <2>3, <3>1, <3>2
  <2>5. r \in DOMAIN records' /\ records'[r] = records[r]
    BY <1>0, <2>2
  <2> QED
    BY <1>1, <2>4, <2>5 DEF CutOff
<1> QED
  BY <1>2, <1>3

(* The steps that leave the view alone *)
TableStep ==
  \/ \E t \in Threads, scope \in Scopes, size \in Sizes : HandleCommand(t, scope, size)
  \/ CommitCommands
  \/ HandleLogCommand
  \/ OnCtxMenuIndentChanged

(* They show nothing and hide nothing: every row stays, and a new one belongs to the batch. *)
LEMMA TableSteps ==
  ASSUME IInv, IInv', TableStep, done <= Len(records), BatchCut
  PROVE  /\ Through' = Through /\ done' <= Len(records') /\ BatchCut'
         /\ Through \in Nat /\ Through <= Len(records)
         /\ \A r \in DOMAIN records :
              /\ r \in DOMAIN records' /\ records'[r] = records[r]
              /\ CutOff(r) => CutOff(r)'
         /\ \A r \in DOMAIN records' : r <= Through => r \in DOMAIN records
<1>0. /\ Len(records) \in Nat /\ DOMAIN records = 1 .. Len(records) /\ done \in Nat
      /\ DOMAIN records' = 1 .. Len(records') /\ Len(records') \in Nat /\ records \in Seq(Row)
  <2>1. records \in Seq(Row) /\ records' \in Seq(Row) /\ Len(queue) \in Nat /\ done \in 0 .. Len(queue)
    BY Queue_Facts DEF IInv, TypeOK
  <2> QED
    BY <2>1
<1>1. Through \in Nat /\ Through <= Len(records)
  BY <1>0 DEF Through
<1>2. /\ \/ records' = records /\ done' = done
         \/ \E row \in Row : /\ records' = Append(records, row) /\ done' = done + 1
                             /\ \A c \in refused : c.ctime < row.ctime
      /\ refused \subseteq refused'
      /\ BatchCut'
  <2>1. CASE \E t \in Threads, scope \in Scopes, size \in Sizes : HandleCommand(t, scope, size)
    BY <2>1 DEF HandleCommand, table, BatchCut
  <2>2. CASE CommitCommands
    <3>1. done = 0
      BY <2>2 DEF CommitCommands, IInv, BatchOK
    <3> QED
      BY <2>2, <3>1 DEF CommitCommands, table, BatchCut
  <2>3. CASE RefuseRecord \/ RefuseName \/ RefuseMessage
    <3>1. /\ records' = records /\ done' = done /\ refused' = refused \cup {cmd}
          /\ pc = "rows"
      BY <2>3 DEF RefuseRecord, RefuseName, RefuseMessage, Refuse
    <3>2. \A i \in DOMAIN records : records[i].ctime < cmd.ctime
      BY <3>1, Cmd_Facts
    <3> QED
      BY <3>1, <3>2 DEF BatchCut
  <2>4. CASE AddRecord
    <3>1. pc = "rows"
      BY <2>4 DEF AddRecord
    <3> DEFINE row == [tid |-> cmd.tid, scope |-> cmd.scope, ctime |-> cmd.ctime,
                       dt |-> SinceLastTime, indent |-> Indentation]
    <3>2. records' = Append(records, row) /\ done' = done + 1 /\ refused' = refused /\ result'
      BY <2>4 DEF AddRecord
    <3>3. \A c \in refused : c.ctime < row.ctime
      BY <3>1, Cmd_Facts
    <3>4. row \in Row
      BY <3>1, Cmd_Facts, Row_Facts DEF Row
    <3> HIDE DEF row
    <3> QED
      BY <3>2, <3>3, <3>4 DEF BatchCut
  <2>5. CASE OnCtxMenuIndentChanged
    BY <2>5 DEF OnCtxMenuIndentChanged, table, BatchCut
  <2> QED
    BY <2>1, <2>2, <2>3, <2>4, <2>5 DEF TableStep, HandleLogCommand
<1>3. \/ records' = records /\ Len(records') = Len(records) /\ done' = done
      \/ Len(records') = Len(records) + 1 /\ done' = done + 1
  <2>1. ASSUME NEW row \in Row, records' = Append(records, row)
        PROVE  Len(records') = Len(records) + 1
    BY <1>0, <2>1, AppendProperties
  <2> QED
    BY <1>2, <2>1
<1>4. Through' = Through /\ done' <= Len(records')
  <2>1. Through = Len(records) - done /\ Through' = Len(records') - done'
    BY DEF Through
  <2> QED
    <3>1. \/ Len(records') = Len(records) /\ done' = done
          \/ Len(records') = Len(records) + 1 /\ done' = done + 1
      BY <1>3
    <3>2. Len(records) \in Nat /\ done \in Nat
      BY <1>0
    <3>3. Len(records') - done' = Len(records) - done /\ done' <= Len(records')
      BY <3>1, <3>2
    <3> QED
      BY <2>1, <3>3
<1>5. \A r \in DOMAIN records : r \in DOMAIN records' /\ records'[r] = records[r]
  <2>1. CASE records' = records
    BY <2>1
  <2>2. CASE \E row \in Row : records' = Append(records, row)
    BY <1>0, <2>2
  <2> QED
    BY <1>2, <2>1, <2>2
<1>6. \A r \in DOMAIN records : CutOff(r) => CutOff(r)'
  BY <1>2, StillCut
<1>7. \A r \in DOMAIN records' : r <= Through => r \in DOMAIN records
  BY <1>0, <1>1
<1> QED
  BY <1>1, <1>2, <1>4, <1>5, <1>6, <1>7

(* What a proxy shows goes on being what it should show over such a step. *)
LEMMA StillShown ==
  ASSUME NEW tgt, NEW wanted, NEW wanted1,
         Shows(tgt, wanted), ToSet(tgt) \subseteq 1 .. Through,
         wanted \subseteq DOMAIN records, wanted \subseteq wanted1,
         \A r \in wanted1 : r <= Through => r \in wanted,
         Through' = Through,
         \A r \in DOMAIN records : CutOff(r) => CutOff(r)'
  PROVE  /\ Ascending(tgt) /\ ToSet(tgt) \subseteq wanted1
         /\ \A r \in wanted1 : r <= Through' /\ r \notin ToSet(tgt) => CutOff(r)'
  BY DEF Shows

LEMMA Table_View ==
  ASSUME IInv, IInv', ViewInv, TableStep, UNCHANGED viewVars
  PROVE  ViewInv'
<1>0. /\ Through' = Through /\ done' <= Len(records') /\ BatchCut'
      /\ Through \in Nat /\ Through <= Len(records)
      /\ \A r \in DOMAIN records :
           /\ r \in DOMAIN records' /\ records'[r] = records[r]
           /\ CutOff(r) => CutOff(r)'
      /\ \A r \in DOMAIN records' : r <= Through => r \in DOMAIN records
  BY TableSteps DEF ViewInv
<1>1. UNCHANGED << hidden, scopesShown, proxies, filterSrc, filterTgt, link, findSrc, findTgt,
                   changes, cleared >>
  BY DEF viewVars, filter, filterMaps, findMaps
<1>2. ViewTypeOK' /\ Attached' /\ proxyOn' = proxyOn
  BY <1>1 DEF ViewInv, ViewTypeOK, Attached, proxyOn
<1>3. /\ AcceptedRows \subseteq DOMAIN records /\ AcceptedRows \subseteq AcceptedRows'
      /\ \A r \in AcceptedRows' : r <= Through => r \in AcceptedRows
  <2>1. \A r \in DOMAIN records : Accepts(r)' <=> Accepts(r)
    BY <1>0, <1>1 DEF Accepts, ScopeType
  <2> QED
    BY <1>0, <2>1 DEF AcceptedRows
<1>4. /\ MatchingRows \subseteq DOMAIN records /\ MatchingRows \subseteq MatchingRows'
      /\ \A r \in MatchingRows' : r <= Through => r \in MatchingRows
  <2>1. \A r \in DOMAIN records : Matches(r)' <=> Matches(r)
    BY <1>0 DEF Matches
  <2> QED
    BY <1>0, <2>1 DEF MatchingRows
<1>5. FilterInv'
  <2>1. InverseMaps(filterSrc, filterTgt)'
    BY <1>1 DEF ViewInv, FilterInv, InverseMaps
  <2>2. ASSUME proxyOn
        PROVE  ToSet(filterTgt) \subseteq 1 .. Through /\ Shows(filterTgt, AcceptedRows)'
    <3>1. ToSet(filterTgt) \subseteq 1 .. Through /\ Shows(filterTgt, AcceptedRows)
      BY <2>2 DEF ViewInv, FilterInv
    <3>2. /\ Ascending(filterTgt) /\ ToSet(filterTgt) \subseteq AcceptedRows'
          /\ \A r \in AcceptedRows' : r <= Through' /\ r \notin ToSet(filterTgt) => CutOff(r)'
      BY <1>0, <1>3, <3>1, StillShown
    <3> QED
      BY <1>1, <3>1, <3>2 DEF Shows, Ascending
  <2> QED
    BY <1>0, <1>1, <1>2, <2>1, <2>2 DEF FilterInv
<1>6. FindInv'
  <2> SUFFICES ASSUME ~cleared PROVE FindInv'
    BY <1>1 DEF FindInv
  <2>1. InverseMaps(findSrc, findTgt)' /\ ToSet(findTgt) \subseteq 1 .. Through
    BY <1>1 DEF ViewInv, FindInv, InverseMaps
  <2>2. ASSUME link = "table"
        PROVE  Shows(findTgt, MatchingRows)'
    <3>1. Shows(findTgt, MatchingRows)
      BY <2>2 DEF ViewInv, FindInv
    <3>2. /\ Ascending(findTgt) /\ ToSet(findTgt) \subseteq MatchingRows'
          /\ \A r \in MatchingRows' : r <= Through' /\ r \notin ToSet(findTgt) => CutOff(r)'
      BY <1>0, <1>4, <2>1, <3>1, StillShown
    <3> QED
      BY <1>1, <3>2 DEF Shows, Ascending
  <2> QED
    BY <1>0, <1>1, <2>1, <2>2 DEF FindInv
<1> QED
  BY <1>0, <1>2, <1>5, <1>6 DEF ViewInv

-----------------------------------------------------------------------------
(* A batch becomes visible *)

(* Rows of the table appended behind those already shown keep the order of the rows, and *)
(* the maps of the proxy inverse to each other.                                         *)
LEMMA Extended ==
  ASSUME NEW b \in Nat, NEW n \in Nat, b <= n,
         NEW rows \in SUBSET (b + 1 .. n),
         NEW tgt \in Seq(Nat \ {0})
  PROVE  /\ tgt \o InOrder(rows) \in Seq(Nat \ {0})
         /\ ToSet(tgt \o InOrder(rows)) = ToSet(tgt) \cup rows
         /\ Ascending(tgt) /\ ToSet(tgt) \subseteq 1 .. b => Ascending(tgt \o InOrder(rows))
         /\ \A src : InverseMaps(src, tgt) /\ ToSet(tgt) \subseteq 1 .. b =>
              InverseMaps(SrcAfter(src, tgt, rows), tgt \o InOrder(rows))
<1> DEFINE new == InOrder(rows)
           all == tgt \o InOrder(rows)
           m == Cardinality(rows)
<1>1. rows \in SUBSET (1 .. n)
  OBVIOUS
<1>2. /\ new \in [1 .. m -> rows] /\ Len(new) = m /\ DOMAIN new = 1 .. m /\ m \in Nat
      /\ \A r \in rows : Place(r, rows) \in 1 .. m /\ new[Place(r, rows)] = r
      /\ \A i, j \in 1 .. m : i < j => new[i] < new[j]
      /\ \A i \in 1 .. m : new[i] \in rows
  BY <1>1, Order, FiniteRows
<1>3. new \in Seq(Nat \ {0}) /\ Len(tgt) \in Nat /\ DOMAIN tgt = 1 .. Len(tgt)
  <2>1. rows \subseteq Nat \ {0}
    OBVIOUS
  <2>2. new \in [1 .. m -> Nat \ {0}]
    BY <1>2, <2>1
  <2> QED
    BY <1>2, <2>2
<1> HIDE DEF new, m
<1>4. /\ all \in Seq(Nat \ {0}) /\ Len(all) = Len(tgt) + m
      /\ \A i \in 1 .. Len(tgt) + m :
           all[i] = IF i <= Len(tgt) THEN tgt[i] ELSE new[i - Len(tgt)]
  BY <1>2, <1>3, ConcatProperties DEF new
<1> HIDE DEF all
<1>5. DOMAIN all = 1 .. Len(tgt) + m
  BY <1>4
<1>6. \A i \in DOMAIN tgt : i \in DOMAIN all /\ all[i] = tgt[i]
  BY <1>2, <1>3, <1>4, <1>5
<1>7. \A j \in 1 .. m : Len(tgt) + j \in DOMAIN all /\ all[Len(tgt) + j] = new[j]
  <2> TAKE j \in 1 .. m
  <2>1. /\ Len(tgt) + j \in 1 .. Len(tgt) + m /\ ~ (Len(tgt) + j <= Len(tgt))
        /\ (Len(tgt) + j) - Len(tgt) = j
    BY <1>2, <1>3
  <2> QED
    BY <1>4, <1>5, <2>1
<1>8. \A r \in rows : Len(tgt) + Place(r, rows) \in DOMAIN all /\ all[Len(tgt) + Place(r, rows)] = r
  BY <1>2, <1>7
<1>9. \A i \in DOMAIN all : i \in DOMAIN tgt \/ \E j \in 1 .. m : i = Len(tgt) + j
  <2> TAKE i \in DOMAIN all
  <2>1. i \in Nat /\ 1 <= i /\ i <= Len(tgt) + m
    BY <1>2, <1>3, <1>5
  <2>2. CASE i <= Len(tgt)
    BY <1>3, <2>1, <2>2
  <2>3. CASE i > Len(tgt)
    <3>1. i - Len(tgt) \in 1 .. m /\ i = Len(tgt) + (i - Len(tgt))
      BY <1>2, <1>3, <2>1, <2>3
    <3> QED
      BY <3>1
  <2> QED
    BY <1>3, <2>1, <2>2, <2>3
<1>10. ToSet(all) = ToSet(tgt) \cup rows
  <2>1. \A i \in DOMAIN all : all[i] \in ToSet(tgt) \cup rows
    <3> TAKE i \in DOMAIN all
    <3>1. CASE i \in DOMAIN tgt
      BY <1>6, <3>1 DEF ToSet
    <3>2. CASE \E j \in 1 .. m : i = Len(tgt) + j
      BY <1>2, <1>7, <3>2
    <3> QED
      BY <1>9, <3>1, <3>2
  <2>2. \A x \in ToSet(tgt) : x \in ToSet(all)
    BY <1>6 DEF ToSet
  <2>3. \A x \in rows : x \in ToSet(all)
    BY <1>8 DEF ToSet
  <2> QED
    BY <2>1, <2>2, <2>3 DEF ToSet
<1>11. ASSUME Ascending(tgt), ToSet(tgt) \subseteq 1 .. b PROVE Ascending(all)
  <2> SUFFICES ASSUME NEW i \in DOMAIN all, NEW j \in DOMAIN all, i < j
               PROVE  all[i] < all[j]
    BY DEF Ascending
  <2>0. i \in Nat /\ j \in Nat
    BY <1>2, <1>3, <1>5
  <2>1. CASE i \in DOMAIN tgt /\ j \in DOMAIN tgt
    BY <1>6, <1>11, <2>1 DEF Ascending
  <2>2. CASE i \in DOMAIN tgt /\ j \notin DOMAIN tgt
    <3>1. PICK k \in 1 .. m : j = Len(tgt) + k
      BY <1>9, <2>2
    <3>2. all[j] \in rows
      BY <1>2, <1>7, <3>1
    <3>3. tgt[i] \in 1 .. b
      BY <1>11, <2>2 DEF ToSet
    <3>4. all[j] \in b + 1 .. n /\ all[i] = tgt[i]
      BY <1>6, <2>2, <3>2
    <3> QED
      BY <3>3, <3>4
  <2>3. CASE i \notin DOMAIN tgt
    <3>1. PICK k \in 1 .. m : i = Len(tgt) + k
      BY <1>9, <2>3
    <3>2. j \notin DOMAIN tgt
      BY <1>2, <1>3, <2>0, <3>1
    <3>3. PICK l \in 1 .. m : j = Len(tgt) + l
      BY <1>9, <3>2
    <3>4. k < l
      BY <1>2, <1>3, <3>1, <3>3
    <3> QED
      BY <1>2, <1>7, <3>1, <3>3, <3>4
  <2> QED
    BY <2>1, <2>2, <2>3
<1>12. ASSUME NEW src, InverseMaps(src, tgt), ToSet(tgt) \subseteq 1 .. b
       PROVE  InverseMaps(SrcAfter(src, tgt, rows), all)
  <2> DEFINE map == SrcAfter(src, tgt, rows)
  <2>1. DOMAIN map = ToSet(all)
    BY <1>10, <1>12 DEF SrcAfter, InverseMaps
  <2>2. ASSUME NEW r \in DOMAIN map
        PROVE  map[r] \in DOMAIN all /\ all[map[r]] = r
    <3>1. CASE r \in DOMAIN src
      <4>1. map[r] = src[r] /\ src[r] \in DOMAIN tgt /\ tgt[src[r]] = r
        BY <1>12, <3>1 DEF SrcAfter, InverseMaps
      <4> QED
        BY <1>6, <4>1
    <3>2. CASE r \notin DOMAIN src
      <4>1. r \in rows /\ map[r] = Len(tgt) + Place(r, rows)
        BY <3>2 DEF SrcAfter
      <4> QED
        BY <1>8, <4>1
    <3> QED
      BY <3>1, <3>2
  <2> QED
    BY <2>1, <2>2 DEF InverseMaps
<1> QED
  BY <1>4, <1>10, <1>11, <1>12 DEF all

(* The maps force_update builds *)
LEMMA Rebuilt ==
  ASSUME NEW n \in Nat, NEW rows \in SUBSET (1 .. n)
  PROVE  /\ InOrder(rows) \in Seq(Nat \ {0})
         /\ \A r \in DOMAIN SrcOf(rows) : r \in Nat /\ SrcOf(rows)[r] \in Nat
         /\ InverseMaps(SrcOf(rows), InOrder(rows))
         /\ Ascending(InOrder(rows)) /\ ToSet(InOrder(rows)) = rows
<1>1. Cardinality(rows) \in Nat /\ rows \subseteq Nat \ {0}
  BY FiniteRows
<1>2. /\ InOrder(rows) \in [1 .. Cardinality(rows) -> rows]
      /\ DOMAIN InOrder(rows) = 1 .. Cardinality(rows)
      /\ ToSet(InOrder(rows)) = rows
      /\ \A r \in rows : Place(r, rows) \in 1 .. Cardinality(rows) /\ InOrder(rows)[Place(r, rows)] = r
      /\ \A i, j \in 1 .. Cardinality(rows) : i < j => InOrder(rows)[i] < InOrder(rows)[j]
  BY Order
<1>3. InOrder(rows) \in Seq(Nat \ {0})
  <2>1. InOrder(rows) \in [1 .. Cardinality(rows) -> Nat \ {0}]
    BY <1>1, <1>2
  <2> QED
    BY <1>1, <2>1
<1>4. \A r \in DOMAIN SrcOf(rows) : r \in Nat /\ SrcOf(rows)[r] \in Nat
  BY <1>1, <1>2 DEF SrcOf
<1>5. InverseMaps(SrcOf(rows), InOrder(rows))
  BY <1>2 DEF SrcOf, InverseMaps
<1>6. Ascending(InOrder(rows))
  BY <1>2 DEF Ascending
<1> QED
  BY <1>2, <1>3, <1>4, <1>5, <1>6

LEMMA SrcAfter_Type ==
  ASSUME NEW n \in Nat, NEW rows \in SUBSET (1 .. n), NEW tgt \in Seq(Nat \ {0}), NEW src,
         \A r \in DOMAIN src : r \in Nat /\ src[r] \in Nat
  PROVE  \A r \in DOMAIN SrcAfter(src, tgt, rows) :
           r \in Nat /\ SrcAfter(src, tgt, rows)[r] \in Nat
<1>1. /\ Cardinality(rows) \in Nat
      /\ \A r \in rows : Place(r, rows) \in 1 .. Cardinality(rows)
  BY FiniteRows, Places
<1>2. Len(tgt) \in Nat
  OBVIOUS
<1>3. \A r \in rows : r \in Nat /\ Place(r, rows) \in Nat /\ Len(tgt) + Place(r, rows) \in Nat
  BY <1>1, <1>2
<1> QED
  BY <1>3 DEF SrcAfter

(* A batch adds what is wanted of its rows, except the last one if it was cut short. *)
LEMMA BatchShown ==
  ASSUME IInv, ViewInv, pc = "post",
         NEW tgt \in Seq(Nat \ {0}), NEW wanted \in SUBSET DOMAIN records, NEW rows,
         Shows(tgt, wanted), ToSet(tgt) \subseteq 1 .. Through,
         rows = {r \in BatchRows : r \in wanted}
  PROVE  /\ Ascending(tgt \o InOrder(rows)) /\ ToSet(tgt \o InOrder(rows)) \subseteq wanted
         /\ \A r \in wanted : r \notin ToSet(tgt \o InOrder(rows)) => CutOff(r)
<1>0. /\ Len(records) \in Nat /\ DOMAIN records = 1 .. Len(records)
      /\ done \in Nat /\ done <= Len(records)
  BY Queue_Facts, Records_Facts DEF IInv, TypeOK, ViewInv
<1>1. /\ Through \in Nat /\ Through <= Len(records) /\ Len(records) - done = Through
  BY <1>0 DEF Through
<1>2. /\ BatchRows \subseteq Through + 1 .. Len(records)
      /\ \A r \in DOMAIN records : r > Through /\ r \notin BatchRows => ~result /\ r = Len(records)
  <2>1. BatchRows = Through + 1 .. (IF result THEN Len(records) ELSE Len(records) - 1)
    BY <1>1 DEF BatchRows
  <2> QED
    BY <1>0, <1>1, <2>1
<1>3. rows \in SUBSET (Through + 1 .. Len(records))
  BY <1>2
<1>4. /\ ToSet(tgt \o InOrder(rows)) = ToSet(tgt) \cup rows
      /\ Ascending(tgt) => Ascending(tgt \o InOrder(rows))
  BY <1>0, <1>1, <1>3, Extended
<1>5. Ascending(tgt \o InOrder(rows)) /\ ToSet(tgt \o InOrder(rows)) \subseteq wanted
  BY <1>4 DEF Shows
<1>6. ASSUME NEW r \in wanted, r \notin ToSet(tgt) \cup rows
      PROVE  CutOff(r)
  <2>1. CASE r <= Through
    BY <1>6, <2>1 DEF Shows
  <2>2. CASE r > Through
    <3>1. ~result /\ r = Len(records)
      BY <1>2, <1>6, <2>2
    <3>2. PICK c \in refused : \A i \in DOMAIN records : records[i].ctime < c.ctime
      BY <3>1 DEF ViewInv, BatchCut
    <3> QED
      BY <1>0, <3>1, <3>2 DEF CutOff
  <2> QED
    BY <1>0, <1>1, <2>1, <2>2
<1> QED
  BY <1>4, <1>5, <1>6

(* postProcessBatch *)
LEMMA Post_View == ASSUME IInv, ViewInv, ShowBatch PROVE ViewInv'
<1> DEFINE b == Through
           n == Len(records)
<1>0. /\ pc = "post" /\ pc' = "idle" /\ done' = 0
      /\ UNCHANGED << records, refused, hidden, scopesShown, proxies, link, changes, cleared >>
      /\ proxyOn' = proxyOn
  BY DEF ShowBatch, PostProcessBatch, CloseBatch, table, filter, proxyOn
<1>1. /\ n \in Nat /\ DOMAIN records = 1 .. n /\ done \in Nat /\ done <= n
  BY Queue_Facts, Records_Facts DEF IInv, TypeOK, ViewInv
<1>2. b \in Nat /\ b <= n /\ n - done = b /\ Through' = n
  BY <1>0, <1>1 DEF Through
<1>3. \A r \in BatchRows : r \in b + 1 .. n /\ r \in 1 .. n /\ r \in DOMAIN records /\ r <= n
  BY <1>1, <1>2 DEF BatchRows
<1>4. /\ filterTgt \in Seq(Nat \ {0}) /\ findTgt \in Seq(Nat \ {0})
      /\ \A r \in DOMAIN filterSrc : r \in Nat /\ filterSrc[r] \in Nat
      /\ \A r \in DOMAIN findSrc : r \in Nat /\ findSrc[r] \in Nat
  BY DEF ViewInv, ViewTypeOK
<1> HIDE DEF b, n
<1>5. /\ AcceptedRows' = AcceptedRows /\ MatchingRows' = MatchingRows
      /\ \A r : CutOff(r)' <=> CutOff(r)
  BY <1>0 DEF AcceptedRows, MatchingRows, Accepts, ScopeType, Matches, CutOff
<1>6. ASSUME proxyOn
      PROVE  /\ filterTgt' \in Seq(Nat \ {0})
             /\ \A r \in DOMAIN filterSrc' : r \in Nat /\ filterSrc'[r] \in Nat
             /\ InverseMaps(filterSrc, filterTgt)'
             /\ ToSet(filterTgt') \subseteq 1 .. n
             /\ Shows(filterTgt, AcceptedRows)'
  <2>1. /\ filterSrc' = SrcAfter(filterSrc, filterTgt, FilterBatch)
        /\ filterTgt' = filterTgt \o InOrder(FilterBatch)
    BY <1>6 DEF ShowBatch, CommitToFilter
  <2>2. /\ InverseMaps(filterSrc, filterTgt) /\ ToSet(filterTgt) \subseteq 1 .. b
        /\ Shows(filterTgt, AcceptedRows)
    BY <1>6 DEF ViewInv, FilterInv, b
  <2>3. FilterBatch \in SUBSET (b + 1 .. n) /\ FilterBatch \in SUBSET (1 .. n)
    BY <1>3 DEF FilterBatch
  <2>4. /\ filterTgt' \in Seq(Nat \ {0}) /\ ToSet(filterTgt') = ToSet(filterTgt) \cup FilterBatch
        /\ InverseMaps(filterSrc', filterTgt')
    BY <1>1, <1>2, <1>4, <2>1, <2>2, <2>3, Extended
  <2>5. \A r \in DOMAIN filterSrc' : r \in Nat /\ filterSrc'[r] \in Nat
    BY <1>1, <1>4, <2>1, <2>3, SrcAfter_Type
  <2>6. FilterBatch = {r \in BatchRows : r \in AcceptedRows} /\ AcceptedRows \in SUBSET DOMAIN records
    BY <1>3 DEF FilterBatch, AcceptedRows
  <2>7. /\ Ascending(filterTgt') /\ ToSet(filterTgt') \subseteq AcceptedRows
        /\ \A r \in AcceptedRows : r \notin ToSet(filterTgt') => CutOff(r)
    BY <1>0, <1>4, <2>1, <2>2, <2>6, BatchShown DEF b
  <2>8. ToSet(filterTgt') \subseteq 1 .. n
    BY <1>1, <2>6, <2>7
  <2>9. Shows(filterTgt, AcceptedRows)'
    BY <1>5, <2>7 DEF Shows, Ascending
  <2>10. InverseMaps(filterSrc, filterTgt)'
    BY <2>4 DEF InverseMaps
  <2> QED
    BY <2>4, <2>5, <2>8, <2>9, <2>10
<1>7. ASSUME link # "none"
      PROVE  /\ findTgt' \in Seq(Nat \ {0})
             /\ \A r \in DOMAIN findSrc' : r \in Nat /\ findSrc'[r] \in Nat
             /\ ~cleared => /\ InverseMaps(findSrc, findTgt)'
                            /\ ToSet(findTgt') \subseteq 1 .. n
                            /\ link = "table" => Shows(findTgt, MatchingRows)'
  <2>1. PICK tgt : /\ findSrc' = SrcAfter(findSrc, findTgt, FindBatch(tgt))
                   /\ findTgt' = findTgt \o InOrder(FindBatch(tgt))
    BY <1>7 DEF ShowBatch, CommitToFind
  <2> DEFINE rows == FindBatch(tgt)
  <2>2. rows \in SUBSET (b + 1 .. n) /\ rows \in SUBSET (1 .. n)
    BY <1>3 DEF FindBatch
  <2>3. findTgt' \in Seq(Nat \ {0}) /\ ToSet(findTgt') = ToSet(findTgt) \cup rows
    BY <1>1, <1>2, <1>4, <2>1, <2>2, Extended
  <2>4. \A r \in DOMAIN findSrc' : r \in Nat /\ findSrc'[r] \in Nat
    BY <1>1, <1>4, <2>1, <2>2, SrcAfter_Type
  <2>5. ASSUME ~cleared
        PROVE  InverseMaps(findSrc, findTgt)' /\ ToSet(findTgt') \subseteq 1 .. n
    <3>1. InverseMaps(findSrc, findTgt) /\ ToSet(findTgt) \subseteq 1 .. b
      BY <2>5 DEF ViewInv, FindInv, b
    <3>2. InverseMaps(findSrc', findTgt')
      BY <1>1, <1>2, <1>4, <2>1, <2>2, <3>1, Extended
    <3> QED
      BY <1>1, <1>2, <2>2, <2>3, <3>1, <3>2 DEF InverseMaps
  <2>6. ASSUME ~cleared, link = "table"
        PROVE  Shows(findTgt, MatchingRows)'
    <3>1. rows = {r \in BatchRows : r \in MatchingRows} /\ MatchingRows \in SUBSET DOMAIN records
      <4>1. \A r \in BatchRows : FindAccepts(r, tgt) <=> Matches(r)
        BY <1>3, <2>6 DEF FindAccepts, RowThere, n
      <4>2. rows = {r \in BatchRows : FindAccepts(r, tgt)}
        BY DEF FindBatch
      <4> QED
        BY <1>3, <4>1, <4>2 DEF MatchingRows
    <3>2. Shows(findTgt, MatchingRows) /\ ToSet(findTgt) \subseteq 1 .. Through
      BY <2>6 DEF ViewInv, FindInv
    <3>3. /\ Ascending(findTgt') /\ ToSet(findTgt') \subseteq MatchingRows
          /\ \A r \in MatchingRows : r \notin ToSet(findTgt') => CutOff(r)
      BY <1>0, <1>4, <2>1, <3>1, <3>2, BatchShown
    <3> QED
      BY <1>5, <3>3 DEF Shows, Ascending
  <2> QED
    BY <2>3, <2>4, <2>5, <2>6
<1>8. ~proxyOn => UNCHANGED << filterSrc, filterTgt >>
  BY DEF ShowBatch, filterMaps
<1>9. link = "none" => UNCHANGED << findSrc, findTgt >>
  BY DEF ShowBatch, findMaps
<1>10. ViewTypeOK' /\ Attached'
  BY <1>0, <1>4, <1>6, <1>7, <1>8, <1>9 DEF ViewInv, ViewTypeOK, Attached
<1>11. FilterInv'
  <2>1. InverseMaps(filterSrc, filterTgt)'
    BY <1>6, <1>8 DEF ViewInv, FilterInv, InverseMaps
  <2> QED
    BY <1>0, <1>2, <1>6, <2>1 DEF FilterInv
<1>12. FindInv'
  <2> SUFFICES ASSUME ~cleared PROVE FindInv'
    BY <1>0 DEF FindInv
  <2>1. CASE link = "none"
    <3>1. InverseMaps(findSrc, findTgt)' /\ ToSet(findTgt') \subseteq 1 .. b
      BY <1>9, <2>1 DEF ViewInv, FindInv, InverseMaps, b
    <3> QED
      BY <1>0, <1>1, <1>2, <2>1, <3>1 DEF FindInv
  <2>2. CASE link # "none"
    BY <1>0, <1>2, <1>7, <2>2 DEF FindInv
  <2> QED
    BY <2>1, <2>2
<1>13. done' <= Len(records') /\ BatchCut'
  BY <1>0, <1>1 DEF BatchCut, n
<1> QED
  BY <1>10, <1>11, <1>12, <1>13 DEF ViewInv

-----------------------------------------------------------------------------
(* The user *)

(* removeProxy leaves what is not removed, in its order. *)
LEMMA Without_None ==
  ASSUME NEW s, NEW p, {i \in DOMAIN s : s[i] # p} = {}
  PROVE  Without(s, p) = << >>
<1>1. Cardinality({}) = 0 /\ {} \in SUBSET (1 .. 0)
  BY FS_EmptySet
<1>2. DOMAIN InOrder({}) = 1 .. 0
  BY <1>1 DEF InOrder
<1>3. Without(s, p) = [i \in 1 .. 0 |-> s[InOrder({})[i]]]
  BY <1>2 DEF Without
<1> QED
  BY <1>3

LEMMA Without_But ==
  ASSUME NEW s, NEW p, NEW k \in Nat \ {0}, {i \in DOMAIN s : s[i] # p} = {k}
  PROVE  Without(s, p) = << s[k] >>
<1>1. Cardinality({k}) = 1 /\ {k} \in SUBSET (1 .. k)
  BY FS_Singleton
<1>2. DOMAIN InOrder({k}) = 1 .. 1 /\ InOrder({k})[1] = k
  <2>1. DOMAIN InOrder({k}) = 1 .. 1
    BY <1>1 DEF InOrder
  <2>2. \A i \in 1 .. Cardinality({k}) : InOrder({k})[i] \in {k}
    BY <1>1, Order
  <2> QED
    BY <1>1, <2>1, <2>2
<1>3. Without(s, p) = [i \in 1 .. 1 |-> s[InOrder({k})[i]]]
  BY <1>2 DEF Without
<1> QED
  BY <1>2, <1>3

LEMMA Proxies_Without ==
  ASSUME ViewInv
  PROVE  \/ link = "none" /\ Without(proxies, "filter") = << >>
         \/ link # "none" /\ Without(proxies, "filter") = << "find" >>
<1>1. /\ proxies \in { << >>, << "filter" >>, << "find" >>, << "filter", "find" >>,
                       << "find", "filter" >> }
      /\ link = "none" <=> ~Contains(proxies, "find")
  BY DEF ViewInv, ViewTypeOK, Attached
<1>2. CASE proxies = << >> \/ proxies = << "filter" >>
  <2>1. {i \in DOMAIN proxies : proxies[i] # "filter"} = {} /\ ~Contains(proxies, "find")
    BY <1>2 DEF Contains
  <2> QED
    BY <1>1, <2>1, Without_None
<1>3. CASE proxies = << "find" >> \/ proxies = << "find", "filter" >>
  <2>1. /\ {i \in DOMAIN proxies : proxies[i] # "filter"} = {1} /\ proxies[1] = "find"
        /\ Contains(proxies, "find")
    BY <1>3 DEF Contains
  <2> QED
    BY <1>1, <2>1, Without_But
<1>4. CASE proxies = << "filter", "find" >>
  <2>1. /\ {i \in DOMAIN proxies : proxies[i] # "filter"} = {2} /\ proxies[2] = "find"
        /\ Contains(proxies, "find")
    BY <1>4 DEF Contains
  <2> QED
    BY <1>1, <2>1, Without_But
<1> QED
  BY <1>1, <1>2, <1>3, <1>4

LEMMA Short_Lists ==
  ASSUME NEW p, NEW q
  PROVE  Append(<< >>, p) = << p >> /\ Append(<< p >>, q) = << p, q >>
<1>1. << >> \in Seq({p, q}) /\ << p >> \in Seq({p, q}) /\ << p, q >> \in Seq({p, q})
  OBVIOUS
<1>2. /\ Append(<< >>, p) \in Seq({p, q}) /\ Len(Append(<< >>, p)) = 1
      /\ Append(<< >>, p)[1] = p
  BY <1>1, AppendProperties
<1>3. /\ Append(<< p >>, q) \in Seq({p, q}) /\ Len(Append(<< p >>, q)) = 2
      /\ Append(<< p >>, q)[1] = p /\ Append(<< p >>, q)[2] = q
  BY <1>1, AppendProperties
<1>4. Append(<< >>, p) = << p >>
  BY <1>1, <1>2, SeqEqual
<1>5. Append(<< p >>, q) = << p, q >>
  <2>1. \A i \in 1 .. 2 : i = 1 \/ i = 2
    OBVIOUS
  <2>2. /\ Len(<< p, q >>) = 2
        /\ \A i \in 1 .. 2 : Append(<< p >>, q)[i] = << p, q >>[i]
    BY <1>3, <2>1
  <2> QED
    BY <1>1, <1>3, <2>2, SeqEqual
<1> QED
  BY <1>4, <1>5

LEMMA Short_Contains ==
  ASSUME NEW p, NEW q, NEW x
  PROVE  /\ ~ Contains(<< >>, x)
         /\ Contains(<< p >>, x) <=> x = p
         /\ Contains(<< p, q >>, x) <=> x = p \/ x = q
<1>1. \A i \in 1 .. 2 : i = 1 \/ i = 2
  OBVIOUS
<1>2. /\ Len(<< >>) = 0 /\ Len(<< p >>) = 1 /\ Len(<< p, q >>) = 2
      /\ << p >>[1] = p /\ << p, q >>[1] = p /\ << p, q >>[2] = q
  OBVIOUS
<1>3. ~ Contains(<< >>, x) /\ (Contains(<< p >>, x) <=> x = p)
  BY <1>2 DEF Contains
<1>4. Contains(<< p, q >>, x) <=> x = p \/ x = q
  BY <1>1, <1>2 DEF Contains
<1> QED
  BY <1>3, <1>4

(* The lists of proxies the operations make *)
LEMMA Proxies_After ==
  ASSUME ViewInv
  PROVE  LET off == Without(proxies, "filter")
             on == Append(off, "filter")
             lists == { << >>, << "filter" >>, << "find" >>, << "filter", "find" >>,
                        << "find", "filter" >> }
         IN  /\ off \in lists /\ ~Contains(off, "filter")
             /\ on \in lists /\ Contains(on, "filter")
             /\ link = "none" <=> ~Contains(off, "find")
             /\ link = "none" <=> ~Contains(on, "find")
             /\ link = "none" => /\ Append(proxies, "find") \in lists
                                 /\ Contains(Append(proxies, "find"), "find")
                                 /\ Contains(Append(proxies, "find"), "filter") <=> proxyOn
<1>1. CASE link # "none" /\ Without(proxies, "filter") = << "find" >>
  <2>1. Append(<< "find" >>, "filter") = << "find", "filter" >>
    BY Short_Lists
  <2>2. /\ ~ Contains(<< "find" >>, "filter") /\ Contains(<< "find", "filter" >>, "filter")
        /\ Contains(<< "find" >>, "find") /\ Contains(<< "find", "filter" >>, "find")
    BY Short_Contains
  <2> QED
    BY <1>1, <2>1, <2>2
<1>2. CASE link = "none" /\ Without(proxies, "filter") = << >>
  <2>1. /\ Append(<< >>, "filter") = << "filter" >> /\ Append(<< >>, "find") = << "find" >>
        /\ Append(<< "filter" >>, "find") = << "filter", "find" >>
    BY Short_Lists
  <2>2. /\ ~ Contains(<< >>, "filter") /\ ~ Contains(<< >>, "find")
        /\ Contains(<< "filter" >>, "filter") /\ ~ Contains(<< "filter" >>, "find")
        /\ Contains(<< "find" >>, "find") /\ ~ Contains(<< "find" >>, "filter")
        /\ Contains(<< "filter", "find" >>, "find") /\ Contains(<< "filter", "find" >>, "filter")
        /\ Contains(<< "find", "filter" >>, "find")
    BY Short_Contains
  <2>3. /\ proxies \in { << >>, << "filter" >>, << "find" >>, << "filter", "find" >>,
                         << "find", "filter" >> }
        /\ ~ Contains(proxies, "find")
    BY <1>2 DEF ViewInv, ViewTypeOK, Attached
  <2>4. proxies = << >> \/ proxies = << "filter" >>
    BY <2>2, <2>3
  <2> QED
    BY <1>2, <2>1, <2>2, <2>4 DEF proxyOn
<1> QED
  BY <1>1, <1>2, Proxies_Without

(* Between batches every row has been shown, and the user does not touch the table. *)
LEMMA Change_Facts ==
  ASSUME IInv, ViewInv, Change, UNCHANGED tableVars
  PROVE  /\ Len(records) \in Nat /\ DOMAIN records = 1 .. Len(records)
         /\ Through = Len(records) /\ Through' = Through
         /\ pc = "idle" /\ changes' \in 0 .. MaxChanges
         /\ UNCHANGED << records, refused, pc, result, done >>
         /\ MatchingRows' = MatchingRows /\ (\A r : CutOff(r)' <=> CutOff(r))
         /\ done' <= Len(records') /\ BatchCut'
<1>1. UNCHANGED << records, refused, pc, result, done >>
  BY DEF tableVars, table
<1>2. pc = "idle" /\ done = 0 /\ Len(records) \in Nat /\ DOMAIN records = 1 .. Len(records)
  BY Records_Facts DEF Change, IInv, TypeOK, BatchOK
<1>3. changes' \in 0 .. MaxChanges
  BY LogViewAssumption DEF Change, ViewInv, ViewTypeOK
<1>4. Through = Len(records) /\ Through' = Through
  BY <1>1, <1>2 DEF Through
<1>5. MatchingRows' = MatchingRows /\ (\A r : CutOff(r)' <=> CutOff(r))
  BY <1>1 DEF MatchingRows, Matches, CutOff
<1>6. done' <= Len(records') /\ BatchCut'
  BY <1>1, <1>2 DEF BatchCut
<1> QED
  BY <1>1, <1>2, <1>3, <1>4, <1>5, <1>6

(* The filter proxy rebuilt shows what the filter accepts. *)
LEMMA Rebuild_Facts ==
  ASSUME IInv, ViewInv, Change, UNCHANGED tableVars, Rebuild
  PROVE  /\ filterTgt' \in Seq(Nat \ {0})
         /\ \A r \in DOMAIN filterSrc' : r \in Nat /\ filterSrc'[r] \in Nat
         /\ FilterInv'
<1> DEFINE rows == {r \in DOMAIN records : Accepts(r)}'
<1>0. /\ Len(records) \in Nat /\ DOMAIN records = 1 .. Len(records)
      /\ Through' = Len(records) /\ records' = records
  BY Change_Facts
<1>1. filterSrc' = SrcOf(rows) /\ filterTgt' = InOrder(rows)
  BY DEF Rebuild
<1>2. rows = AcceptedRows' /\ rows \in SUBSET (1 .. Len(records))
  BY <1>0 DEF AcceptedRows
<1> HIDE DEF rows
<1>3. /\ filterTgt' \in Seq(Nat \ {0})
      /\ \A r \in DOMAIN filterSrc' : r \in Nat /\ filterSrc'[r] \in Nat
      /\ InverseMaps(filterSrc', filterTgt')
      /\ Ascending(filterTgt') /\ ToSet(filterTgt') = rows
  BY <1>0, <1>1, <1>2, Rebuilt
<1>4. InverseMaps(filterSrc, filterTgt)' /\ Shows(filterTgt, AcceptedRows)'
  BY <1>2, <1>3 DEF InverseMaps, Shows, Ascending
<1>5. ToSet(filterTgt') \subseteq 1 .. Through'
  BY <1>0, <1>2, <1>3
<1> QED
  BY <1>3, <1>4, <1>5 DEF FilterInv

(* An operation that leaves the find child alone *)
LEMMA Find_Stays ==
  ASSUME IInv, ViewInv, Change, UNCHANGED tableVars, UNCHANGED << link, findMaps, cleared >>
  PROVE  FindInv'
<1>1. UNCHANGED << findSrc, findTgt, link, cleared >>
  BY DEF findMaps
<1>2. Through' = Through /\ MatchingRows' = MatchingRows /\ \A r : CutOff(r)' <=> CutOff(r)
  BY Change_Facts
<1>3. FindInv
  BY DEF ViewInv
<1> QED
  BY <1>1, <1>2, <1>3 DEF FindInv, InverseMaps, Shows, Ascending

LEMMA Invalidate_View == ASSUME IInv, ViewInv, OnInvalidateFilter PROVE ViewInv'
<1>0. /\ Change /\ UNCHANGED tableVars /\ UNCHANGED << link, findMaps, cleared >>
      /\ UNCHANGED << proxies, findSrc, findTgt >> /\ proxyOn' = proxyOn
      /\ hidden' \subseteq Threads /\ scopesShown' \in BOOLEAN
      /\ IF proxyOn THEN Rebuild ELSE UNCHANGED << filterSrc, filterTgt >>
  BY DEF OnInvalidateFilter, findMaps, filterMaps, proxyOn, ViewInv, ViewTypeOK
<1>1. /\ changes' \in 0 .. MaxChanges /\ done' <= Len(records') /\ BatchCut' /\ FindInv'
  BY <1>0, Change_Facts, Find_Stays
<1>2. /\ filterTgt' \in Seq(Nat \ {0})
      /\ \A r \in DOMAIN filterSrc' : r \in Nat /\ filterSrc'[r] \in Nat
      /\ FilterInv'
  <2>1. CASE proxyOn
    BY <1>0, <2>1, Rebuild_Facts
  <2>2. CASE ~proxyOn
    BY <1>0, <2>2 DEF ViewInv, ViewTypeOK, FilterInv, InverseMaps
  <2> QED
    BY <2>1, <2>2
<1>3. ViewTypeOK' /\ Attached'
  BY <1>0, <1>1, <1>2 DEF ViewInv, ViewTypeOK, Attached
<1> QED
  BY <1>1, <1>2, <1>3 DEF ViewInv

LEMMA On_View == ASSUME IInv, ViewInv, FilteringOn PROVE ViewInv'
<1>0. /\ Change /\ UNCHANGED tableVars /\ UNCHANGED << link, findMaps, cleared >> /\ Rebuild
      /\ UNCHANGED << hidden, scopesShown, findSrc, findTgt >>
      /\ proxies' = Append(Without(proxies, "filter"), "filter")
  BY DEF FilteringOn, findMaps, filter
<1>1. changes' \in 0 .. MaxChanges /\ done' <= Len(records') /\ BatchCut' /\ FindInv'
  BY <1>0, Change_Facts, Find_Stays
<1>2. /\ filterTgt' \in Seq(Nat \ {0})
      /\ \A r \in DOMAIN filterSrc' : r \in Nat /\ filterSrc'[r] \in Nat
      /\ FilterInv'
  BY <1>0, Rebuild_Facts
<1>3. /\ proxies' \in { << >>, << "filter" >>, << "find" >>, << "filter", "find" >>,
                        << "find", "filter" >> }
      /\ link = "none" <=> ~Contains(proxies', "find")
  BY <1>0, Proxies_After
<1>4. ViewTypeOK' /\ Attached'
  BY <1>0, <1>1, <1>2, <1>3 DEF ViewInv, ViewTypeOK, Attached
<1> QED
  BY <1>1, <1>2, <1>4 DEF ViewInv

LEMMA Off_View == ASSUME IInv, ViewInv, FilteringOff PROVE ViewInv'
<1>0. /\ Change /\ UNCHANGED tableVars /\ UNCHANGED << link, findMaps, cleared >>
      /\ UNCHANGED << hidden, scopesShown, filterSrc, filterTgt, findSrc, findTgt >>
      /\ proxies' = Without(proxies, "filter")
  BY DEF FilteringOff, findMaps, filterMaps, filter
<1>1. changes' \in 0 .. MaxChanges /\ done' <= Len(records') /\ BatchCut' /\ FindInv'
  BY <1>0, Change_Facts, Find_Stays
<1>2. /\ proxies' \in { << >>, << "filter" >>, << "find" >>, << "filter", "find" >>,
                        << "find", "filter" >> }
      /\ link = "none" <=> ~Contains(proxies', "find")
      /\ ~ Contains(proxies', "filter")
  BY <1>0, Proxies_After
<1>3. ViewTypeOK' /\ Attached'
  BY <1>0, <1>1, <1>2 DEF ViewInv, ViewTypeOK, Attached
<1>4. FilterInv'
  BY <1>0, <1>2 DEF ViewInv, FilterInv, InverseMaps, proxyOn
<1> QED
  BY <1>1, <1>3, <1>4 DEF ViewInv

LEMMA Find_View == ASSUME IInv, ViewInv, FindAllRefs PROVE ViewInv'
<1> DEFINE m == IF proxyOn THEN Len(filterTgt) ELSE Len(records)
           rows == {r \in 1 .. m : FindAccepts(r, filterTgt)'}
<1>0. /\ Change /\ UNCHANGED tableVars
      /\ UNCHANGED << hidden, scopesShown, filterSrc, filterTgt, cleared >>
      /\ link = "none" /\ link' = (IF proxyOn THEN "proxy" ELSE "table")
      /\ proxies' = Append(proxies, "find")
      /\ findSrc' = SrcOf(rows) /\ findTgt' = InOrder(rows)
  BY DEF FindAllRefs, filterMaps, filter
<1>1. /\ Len(records) \in Nat /\ DOMAIN records = 1 .. Len(records)
      /\ Through = Len(records) /\ Through' = Through /\ records' = records
      /\ changes' \in 0 .. MaxChanges /\ done' <= Len(records') /\ BatchCut'
      /\ \A r : CutOff(r)' <=> CutOff(r)
  BY <1>0, Change_Facts
<1>2. Len(filterTgt) \in Nat /\ m \in Nat
  BY <1>1 DEF ViewInv, ViewTypeOK
<1>3. rows \in SUBSET (1 .. Len(records))
  <2>1. \A r \in 1 .. m : FindAccepts(r, filterTgt)' => r <= Len(records)
    BY <1>1 DEF FindAccepts
  <2> QED
    BY <1>1, <1>2, <2>1
<1>4. ASSUME ~proxyOn
      PROVE  rows = MatchingRows'
  <2>1. link' = "table" /\ m = Len(records)
    BY <1>0, <1>4
  <2>2. \A r \in 1 .. m : r <= Len(records)
    BY <1>1, <2>1
  <2>3. \A r \in 1 .. m : FindAccepts(r, filterTgt)' <=> Matches(r)'
    BY <1>1, <2>1, <2>2 DEF FindAccepts, RowThere
  <2> QED
    BY <1>1, <2>1, <2>3 DEF MatchingRows
<1> HIDE DEF rows, m
<1>5. /\ findTgt' \in Seq(Nat \ {0})
      /\ \A r \in DOMAIN findSrc' : r \in Nat /\ findSrc'[r] \in Nat
      /\ InverseMaps(findSrc', findTgt')
      /\ Ascending(findTgt') /\ ToSet(findTgt') = rows
  BY <1>0, <1>1, <1>3, Rebuilt
<1>6. /\ proxies' \in { << >>, << "filter" >>, << "find" >>, << "filter", "find" >>,
                        << "find", "filter" >> }
      /\ Contains(proxies', "find")
      /\ Contains(proxies', "filter") <=> proxyOn
  BY <1>0, Proxies_After
<1>7. ViewTypeOK' /\ Attached'
  BY <1>0, <1>1, <1>5, <1>6 DEF ViewInv, ViewTypeOK, Attached
<1>8. FilterInv'
  <2>1. InverseMaps(filterSrc, filterTgt)' /\ (proxyOn' <=> proxyOn)
    BY <1>0, <1>6 DEF ViewInv, FilterInv, InverseMaps, proxyOn
  <2>2. AcceptedRows' = AcceptedRows
    BY <1>0, <1>1 DEF AcceptedRows, Accepts, ScopeType
  <2>3. ASSUME proxyOn PROVE ToSet(filterTgt') \subseteq 1 .. Through' /\ Shows(filterTgt, AcceptedRows)'
    BY <1>0, <1>1, <2>2, <2>3 DEF ViewInv, FilterInv, Shows, Ascending
  <2> QED
    BY <2>1, <2>3 DEF FilterInv
<1>9. FindInv'
  <2>1. InverseMaps(findSrc, findTgt)' /\ ToSet(findTgt') \subseteq 1 .. Through'
    BY <1>1, <1>3, <1>5 DEF InverseMaps
  <2>2. ASSUME link' = "table" PROVE Shows(findTgt, MatchingRows)'
    <3>1. rows = MatchingRows'
      BY <1>0, <1>4, <2>2
    <3> QED
      BY <1>5, <3>1 DEF Shows, Ascending
  <2> QED
    BY <2>1, <2>2 DEF FindInv
<1> QED
  BY <1>1, <1>7, <1>8, <1>9 DEF ViewInv

LEMMA Clear_View == ASSUME IInv, ViewInv, ClearView PROVE ViewInv'
<1>0. /\ pc = "idle" /\ records' = << >> /\ UNCHANGED << pc, done, result, refused >>
      /\ filterSrc' = << >> /\ filterTgt' = << >> /\ cleared' = (cleared \/ findTgt # << >>)
      /\ UNCHANGED << hidden, scopesShown, proxies, link, findSrc, findTgt, changes >>
  BY DEF ClearView, ClearAllData, filter, findMaps
<1>1. done' = 0 /\ Len(records') = 0 /\ DOMAIN records' = {} /\ Through' = 0
  BY <1>0 DEF IInv, BatchOK, Through
<1>2. ToSet(<< >>) = {} /\ DOMAIN << >> = {} /\ << >> \in Seq(Nat \ {0})
  BY DEF ToSet
<1>3. ViewTypeOK' /\ Attached'
  BY <1>0, <1>2 DEF ViewInv, ViewTypeOK, Attached
<1>4. FilterInv'
  BY <1>0, <1>1, <1>2 DEF FilterInv, InverseMaps, Shows, Ascending, AcceptedRows
<1>5. FindInv'
  <2> SUFFICES ASSUME ~cleared, findTgt = << >> PROVE FindInv'
    BY <1>0 DEF FindInv
  <2>1. InverseMaps(findSrc, findTgt)'
    BY <1>0 DEF ViewInv, FindInv, InverseMaps
  <2>2. findTgt' = << >>
    BY <1>0
  <2> QED
    BY <1>1, <1>2, <2>1, <2>2 DEF FindInv, Shows, Ascending, MatchingRows
<1>6. done' <= Len(records') /\ BatchCut'
  BY <1>0, <1>1 DEF BatchCut
<1> QED
  BY <1>3, <1>4, <1>5, <1>6 DEF ViewInv

LEMMA Init_View == ViewInit => ViewInv
<1> SUFFICES ASSUME ViewInit PROVE ViewInv
  OBVIOUS
<1>1. ToSet(<< >>) = {} /\ DOMAIN << >> = {} /\ << >> \in Seq(Nat \ {0}) /\ Len(<< >>) = 0
  BY DEF ToSet
<1>2. ~ Contains(<< >>, "filter") /\ ~ Contains(<< >>, "find")
  BY DEF Contains
<1>3. /\ hidden = {} /\ scopesShown = TRUE /\ proxies = << >> /\ filterSrc = << >>
      /\ filterTgt = << >> /\ link = "none" /\ findSrc = << >> /\ findTgt = << >>
      /\ changes = 0 /\ cleared = FALSE /\ records = << >> /\ done = 0 /\ pc = "idle"
  BY DEF ViewInit, Init
<1>4. ViewTypeOK /\ Attached
  <2>1. changes \in 0 .. MaxChanges
    BY <1>3, LogViewAssumption
  <2>2. /\ filterTgt \in Seq(Nat \ {0}) /\ findTgt \in Seq(Nat \ {0})
        /\ DOMAIN filterSrc = {} /\ DOMAIN findSrc = {}
    BY <1>1, <1>3
  <2> QED
    BY <1>2, <1>3, <2>1, <2>2 DEF ViewTypeOK, Attached
<1>5. FilterInv
  BY <1>1, <1>2, <1>3 DEF FilterInv, InverseMaps, proxyOn
<1>6. FindInv
  BY <1>1, <1>3 DEF FindInv, InverseMaps
<1> QED
  BY <1>1, <1>3, <1>4, <1>5, <1>6 DEF ViewInv, BatchCut

-----------------------------------------------------------------------------
(* The theorems *)

(* The log widget with its view runs the table it shows: everything proved of the table  *)
(* holds of it too.                                                                      *)
THEOREM ViewRunsTable == ViewSpec => Spec
<1>1. ViewInit => Init
  BY DEF ViewInit
<1>2. ASSUME [ViewNext]_vars PROVE [Next]_tableVars
  <2>1. CASE UNCHANGED vars
    BY <2>1 DEF vars
  <2>2. CASE ViewNext
    BY <2>2 DEF ViewNext, Next, Commit, ShowBatch, OnInvalidateFilter, FilteringOn,
                FilteringOff, FindAllRefs, ClearView
  <2> QED
    BY <1>2, <2>1, <2>2
<1> QED
  BY <1>1, <1>2, PTL DEF ViewSpec, Spec

(* The proxies after any batches, changes of the filter, switches and clears: what each    *)
(* of them lists is what it should list of the rows that it was told about.               *)
THEOREM ViewInvariance == ViewSpec => []ViewInv
<1>1. ASSUME IInv, IInv', ViewInv, [ViewNext]_vars PROVE ViewInv'
  <2>1. CASE \E t \in Threads, scope \in Scopes, size \in Sizes :
               HandleCommand(t, scope, size) /\ UNCHANGED viewVars
    BY <1>1, <2>1, Table_View DEF TableStep
  <2>2. CASE (CommitCommands \/ HandleLogCommand) /\ UNCHANGED viewVars
    BY <1>1, <2>2, Table_View DEF TableStep
  <2>3. CASE OnCtxMenuIndentChanged /\ UNCHANGED viewVars
    BY <1>1, <2>3, Table_View DEF TableStep
  <2>4. CASE ShowBatch
    BY <1>1, <2>4, Post_View
  <2>5. CASE OnInvalidateFilter
    BY <1>1, <2>5, Invalidate_View
  <2>6. CASE FilteringOn
    BY <1>1, <2>6, On_View
  <2>7. CASE FilteringOff
    BY <1>1, <2>7, Off_View
  <2>8. CASE FindAllRefs
    BY <1>1, <2>8, Find_View
  <2>9. CASE ClearView
    BY <1>1, <2>9, Clear_View
  <2>10. CASE UNCHANGED vars
    <3>1. /\ UNCHANGED << records, pc, done, result, refused >>
          /\ UNCHANGED << hidden, scopesShown, proxies, filterSrc, filterTgt, link, findSrc,
                          findTgt, changes, cleared >>
      BY <2>10 DEF vars, tableVars, table, viewVars, filter, filterMaps, findMaps
    <3>2. ViewTypeOK' /\ Attached' /\ BatchCut' /\ done' <= Len(records')
      BY <1>1, <3>1 DEF ViewInv, ViewTypeOK, Attached, BatchCut
    <3>3. FilterInv' /\ FindInv'
      BY <1>1, <3>1 DEF ViewInv, FilterInv, FindInv, InverseMaps, Shows, Ascending, Through,
                        AcceptedRows, MatchingRows, Accepts, ScopeType, Matches, CutOff, proxyOn
    <3> QED
      BY <3>2, <3>3 DEF ViewInv
  <2> QED
    BY <1>1, <2>1, <2>2, <2>3, <2>4, <2>5, <2>6, <2>7, <2>8, <2>9, <2>10 DEF ViewNext
<1> QED
  BY Init_View, <1>1, ViewRunsTable, Invariance, PTL DEF ViewSpec

(* Every state of the view is type correct; in particular a proxy is attached at most     *)
(* once, whatever the user switches.                                                      *)
THEOREM ViewTypeCorrect == ViewSpec => []ViewTypeOK
<1>1. ViewInv => ViewTypeOK
  BY DEF ViewInv
<1> QED
  BY <1>1, ViewInvariance, PTL

(* The maps of the filter proxy are inverse to each other after every batch, rebuild,     *)
(* clear and while the proxy is detached.                                                 *)
THEOREM FilterMapsAgree == ViewSpec => []FilterMapsInverse
<1>1. ViewInv => FilterMapsInverse
  BY DEF ViewInv, FilterInv, FilterMapsInverse
<1> QED
  BY <1>1, ViewInvariance, PTL

(* Those of the find child are until the table is cleared under it. *)
THEOREM FindMapsAgree == ViewSpec => []FindMapsInverse
<1>1. ViewInv => FindMapsInverse
  BY DEF ViewInv, FindInv, FindMapsInverse
<1> QED
  BY <1>1, ViewInvariance, PTL

(* What a proxy shows between batches *)
LEMMA Shown_Facts ==
  ASSUME IInv, pc = "idle", NEW tgt \in Seq(Nat \ {0}), NEW wanted, Shows(tgt, wanted),
         wanted \subseteq DOMAIN records
  PROVE  /\ \A i, j \in DOMAIN tgt : i < j => tgt[i] < tgt[j]
         /\ \A i \in DOMAIN tgt : tgt[i] \in wanted
         /\ \A r \in wanted : r \notin ToSet(tgt) => CutOff(r)
<1>1. Len(records) \in Nat /\ DOMAIN records = 1 .. Len(records) /\ done = 0
  BY Records_Facts DEF IInv, TypeOK, BatchOK
<1>2. \A r \in wanted : r <= Through
  BY <1>1 DEF Through
<1>3. \A i \in DOMAIN tgt : tgt[i] \in ToSet(tgt)
  BY DEF ToSet
<1> QED
  BY <1>2, <1>3 DEF Shows, Ascending

(* Between batches a filtered view shows the rows the filter accepts in the order of the  *)
(* table, and misses only rows cut off by a refusal.                                      *)
THEOREM ViewShowsRows == ViewSpec => []ViewShowsAccepted
<1>1. ASSUME IInv, ViewInv PROVE ViewShowsAccepted
  <2> SUFFICES ASSUME proxyOn, pc = "idle" PROVE ViewShowsAccepted
    BY DEF ViewShowsAccepted
  <2>1. /\ Shows(filterTgt, AcceptedRows) /\ AcceptedRows \subseteq DOMAIN records
        /\ filterTgt \in Seq(Nat \ {0})
    BY <1>1 DEF ViewInv, FilterInv, ViewTypeOK, AcceptedRows
  <2>2. /\ \A i, j \in DOMAIN filterTgt : i < j => filterTgt[i] < filterTgt[j]
        /\ \A i \in DOMAIN filterTgt : filterTgt[i] \in AcceptedRows
        /\ \A r \in AcceptedRows : r \notin ToSet(filterTgt) => CutOff(r)
    BY <1>1, <2>1, Shown_Facts
  <2> QED
    BY <2>2 DEF ViewShowsAccepted, AcceptedRows
<1> QED
  BY <1>1, ViewInvariance, ViewRunsTable, Invariance, PTL

(* The find child of an unfiltered view lists the rows that match, and misses only rows   *)
(* cut off by a refusal, until the table is cleared under it.                             *)
THEOREM FindListsRows == ViewSpec => []FindListsMatches
<1>1. ASSUME IInv, ViewInv PROVE FindListsMatches
  <2> SUFFICES ASSUME link = "table", pc = "idle", ~cleared PROVE FindListsMatches
    BY DEF FindListsMatches
  <2>1. /\ Shows(findTgt, MatchingRows) /\ MatchingRows \subseteq DOMAIN records
        /\ findTgt \in Seq(Nat \ {0})
    BY <1>1 DEF ViewInv, FindInv, ViewTypeOK, MatchingRows
  <2>2. /\ \A i, j \in DOMAIN findTgt : i < j => findTgt[i] < findTgt[j]
        /\ \A i \in DOMAIN findTgt : findTgt[i] \in MatchingRows
        /\ \A r \in MatchingRows : r \notin ToSet(findTgt) => CutOff(r)
    BY <1>1, <2>1, Shown_Facts
  <2> QED
    BY <2>2 DEF FindListsMatches, MatchingRows
<1> QED
  BY <1>1, ViewInvariance, ViewRunsTable, Invariance, PTL
=============================================================================
