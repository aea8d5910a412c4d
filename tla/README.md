# A verification development for DbgToolkit

DbgToolkit is a tracing tool: a C++ library that a program links to send what it
does (`src/trace_client`), a wire protocol (`src/trace_proto`), shared containers
(`src/include`), and a Qt server that receives the traces of many programs and
shows them (`src/trace_server`).  This directory holds TLA+ modules that model its
core, TLC configurations that check them, and TLAPS proofs about them.

    cd tla
    tlc -workers 2 -config StreamDecoder.cfg StreamDecoder   # one run
    tlapm ClientMemoryProofs.tla                             # one module of proofs

`PROJECT.json` lists components, runs, hazards and theorems and maps every
definition to the source lines it stands for.

## 1. Inventory

### The path of a message

    program thread --WriteMsg--> AsioSocketClient --TCP--> Connection::processStream
                      |              (io thread:             |  m_dcd_ctx, arena
                      |               connect, read, timer)  v
                      +--not connected--> ClientMemory     LogWidget::m_queue
                                                             | commit of a batch
                                                             v
                               find child <-- filter proxy <-- LogTableModel / LogFile

The server is one GUI thread: it never runs two handlers at once, but a call of
`processStream` ends in the middle of almost anything, and what it left behind
meets the next call.  The client has one thread of its own (`io`), any number of
threads of the program, and hardly a lock.

### Server

| Component | State | Operations | What is hard | What makes it correct |
|---|---|---|---|---|
| **Stream decoder** `connection_stream.cpp`, `decoder.h`, `membuffer.h` | bytes in the socket, `m_dcd_ctx` (`m_end_offset`, header and payload flags), arena, `batch_size` | one `processStream` per `readyRead`: read header, read payload, make room, decode, handle, commit | TCP cuts frames anywhere; five different ways to return; commit skipped by three of them; commands point into an arena that is emptied and moved | always on a frame boundary; each command handed over once and in order; queued commands point at live memory; what is taken is shown in the end |
| **Log table** `logfile.h`, `tls.h`, `logtablemodel.cpp` | `m_queue`, records, attributes, strings, per-thread last time and depth | queue a command, commit a batch, clear, switch indentation | a batch stops when either memory is full; depth is unsigned and counted only while indentation is on; a clear keeps the per-thread data | rows in the client's order; time differences and depths right over batches, refusals and clears |
| **Log view** `baseproxymodel.cpp`, `logfilterproxymodel.cpp`, `findproxymodel.cpp`, `logwidget_filtering.cpp`, `logwidget_find.cpp` | two maps per proxy, the table's list of proxies | commit tells each proxy of the new rows; filter changed, filter on and off, find all references, clear | proxies come and go between batches; order in the list; a proxy of a proxy gets rows of the table | maps inverse; exactly the accepted rows shown, in order |
| **Connection lifecycle** `mainwindow_connection.cpp`, `connection.cpp`, `connection_config.cpp`, `server.cpp` | list of connections, name, socket, `m_marked_for_close`, mixer, presets | accept, configuration command, take over a same-named connection, disconnect, mark for close, deferred close, import of a file | close is marked now and carried out by a timer; an old connection's windows are handed to the new one while the old socket may still deliver | one connection per name; both ends have the same mixer; what is marked is closed; nothing at work is deleted |
| **Routing** `connection_log.cpp` and siblings | one map per feature from tag to widget | find or create a widget, dispatch by command | feature switched off between frames; unknown tag creates a widget in the middle of a batch | commands of one tag end in one widget |
| **Filters** `filters/`, `widgets/logs/filters/`, `treemodel.inl` | per log widget: list of filters with enabled flags, the manager's own switch, the tree of directories, files and lines with check boxes, hidden threads, the preset on disk | accept a row, click a box, hide a thread, switch a filter, change the list from a menu, exclude the selected rows, save and apply a preset | accepting a row inserts its line; three states per box kept up and down the tree; new filters and the menu are not wired to the view; indices of a selection used after the view was refiltered | a box tells what is below it; the view shows what the filters pass |
| **Colorizers** `filters/colorizers/` | ordered lists like filters | colour a row | | the colours depend on the enabled ones alone |
| **Docks and presets** `dock/`, `mainwindow_presets.cpp` | tree of docked widgets, files | save, load, apply | broadcast of actions over a tree that the actions change | preset saved is preset loaded |
| **Plots, gantt, tables, mixers, controls** `widgets/` | Qt and Qwt models | draw | little state of their own | |
| **Time synchronization** `syncwidgets.h`, `logwidget.cpp`, `logwidget_actions.cpp`, `plotwidget.cpp` | selection and current row of each log, the reference time, a plot's marker | double click on a row, sync button, "Ref ST", click into a plot; every other log and plot goes to that time | rows of the view and of the table under filters and clears; the first batch selects before the proxies know a row; a selected row that is not the current one; unsigned distances | a selection survives a filter; a request leads to the nearest row in view |

### Client

| Component | State | Operations | What is hard | What makes it correct |
|---|---|---|---|---|
| **Socket client** `AsioSocketClient.h/.cpp` | `m_connected`, `m_buffered`, `m_socket`, `m_timer`, pending operations | connect, handlers of connect, read and timer, write with recovery, disconnect | the io thread and every logging thread close and reopen the same socket, unguarded; the timer races the connect it watches | one chain of connects, never lost; a quiet client knows whether it is connected; it comes back when the server does |
| **Client memory** `AsioSocketClient.h` | write pointer, records, spin lock | reserve under the lock, fill outside it | several threads filling at once; `std::align` asked for less than is used | no byte outside, no overlap, records chain, no needless refusal |
| **Facade and sinks** `trace_client.cpp`, `Client.cpp`, `FileClient.h`, `FailoverClient.h` | `g_Client`, a tuple of sinks, a file | connect, log to each sink, disconnect | unsigned room left in a buffer on the stack; teardown while threads log | every message at every sink |
| **Mixer** `MixerConfig.h` | for each context the levels that pass | set and unset levels, replaced by a server's configuration, asked by each message | read, changed and copied an element at a time by any thread, without a lock | a verdict is one the mixer gave during the call |
| **Wire protocol** `trace_proto/` | none | encode and decode fields | encoding failure is length 0 | frame length is header plus payload |

Vendored code (`src/3rd`, `src/trace_server/3rd`), generated code
(`trace_proto/generated`), sounds, icons and build files are outside the project.

## 2. Modules

| Module | Extends | Models |
|---|---|---|
| `CommandFeed` | | abstract: commands of a stream are taken in order or skipped, and shown in batches |
| `StreamDecoder` | | `Connection::processStream` over a TCP stream, with arena and queue; implements `CommandFeed` |
| `StreamDecoderProofs` | `StreamDecoder` | types, framing, delivery, refinement of `CommandFeed`, memory and backlog, proved |
| `LogTable` | | commit of a batch to the log table, clear, indentation |
| `LogView` | `LogTable` | the filter proxy and the find child over that table |
| `LogViewProofs` | `LogView` | types, order, time differences, depths and indentation of the table; the maps of the proxies and what they show, proved |
| `AsioClient` | | the client's connection: io thread, logging threads, server, clock |
| `AsioClientProofs` | `AsioClient` | types, the efforts to be connected and what a quiet client believes, proved |
| `ClientMemory` | | the client's memory for messages it cannot send |
| `ClientMemoryProofs` | `ClientMemory` | its safety, proved |
| `Connections` | | the server's connections with its programs: configurations, takeover by name, closing, mixers and presets |
| `MCConnections` | `Connections` | values of its constants for TLC: one name for all programs, different mixers |
| `ConnectionsProofs` | `Connections` | types, unique names and agreement on the mixer, proved |
| `LogFilters` | | the filters of a log widget: tree of files and lines, threads, the manager, exclusions, presets, and the rows the view shows |
| `MCLogFilters` | `LogFilters` | values of its constants for TLC: three lines in two files of one directory |
| `LogFiltersProofs` | `LogFilters` | types, what the boxes tell and what the view shows, proved |
| `ClientSending` | | the mixer under concurrent changes and the frames on the client's socket |
| `MCClientSending` | `ClientSending` | the symmetry of its threads for TLC |
| `ClientSendingProofs` | `ClientSending` | types, verdicts of the mixer and the frames on the wire, proved |
| `WidgetSync` | | logs and plots that go to a time together, with selections, current rows and markers |
| `WidgetSyncProofs` | `WidgetSync` | types, selections, current rows, nearest rows and markers, proved |

### StreamDecoder

`wire[f]` is the payload length of the frame that starts at stream offset `f`;
`arrived` and `consumed` are what TCP delivered and what was read.  `size` and
`stage` are `m_dcd_ctx` (`getSize()`, `m_has_hdr`, `m_has_payload`); `pc` says where
`processStream` is, since each read, flush and decode is an action of its own
and the ways to leave differ:

| Action | Code |
|---|---|
| `ReadHeader`, `ReadPayload` | the two reads; an incomplete one returns `e_data_need_more` *past* the commit |
| `NoPayload` | the read of the payload returned nothing: the same return |
| `NoHeader` | no byte of a header: `break`, on to the commit |
| `FlushForMemory` | the arena may be too small: commit, empty, grow by one step |
| `Decode(n)` | `ber_decode` allocates `n` bytes, the command joins the queue, the context is reset; a full batch leaves the loop |
| `DecodeFails` | drops the frame, empties the arena, returns `e_data_decode_oor` |
| `Leave` | commits a non-empty batch |

`arena.gen` changes whenever memory handed out before stops being valid, by
emptying or by moving; each queued command remembers the generation it was
decoded in.  Nothing of the same connection happens in the GUI thread while
`processStream` runs (`Arrive` needs `pc = "idle"`; Qt does not emit `readyRead` again
from inside its slot, not even in the event loop of a message box), but the client
may write at any time.  What other connections do under a message box is in
`Connections`.

Abstractions: a frame's content is its length and whether it decodes; the bytes of
a header are one after the other but its fields are read only when complete; the
version is always 1; handling a command is appending to one log widget's queue.
A client writes whole frames here; when they are whole is the matter of `ClientSending`.

### LogTable and LogView

`HandleCommand` is the client sending and the widget queueing; `CommitCommands`
starts a commit, `HandleLogCommand` is one row of it (or its refusal, or the
assertion of `tls.h`), and the end of the commit is `PostProcessBatch` in the table alone
and `ShowBatch` in the view, where the proxies are told of the new rows.  A row keeps
what the properties compare: thread, scope, time, time difference, depth.  The
virtual-memory tables are their capacities: `RecordCap` for records and
attributes, `StringCap` for strings; a thread is "registered" when it has a time.
Depths are unsigned (`Width`).  `LogView` adds the maps of the two proxies and the
list of proxies, with filters reduced to hiding threads and to the scope switch;
clearing the row filter, clones, closing of the find child and selections are
left out.

### AsioClient

asio's completion queue is `ready`; an operation ends (`ConnectEnds`, `ReadEnds`,
`WaitEnds`), its handler is queued, and the io thread runs one handler after the
other.  `todo[a]` is what is left of the function each thread is in, so that steps
of the io thread and of logging threads interleave between any two calls of
asio, as they do without a lock.  Closing a socket queues the aborted handlers.

Left out: the data races inside one call of asio; the content of the
configuration frames and of what is written (`ClientSending`); a server frame larger than the decoder's buffer (no server
sends one); waits that were cancelled (their handler returns at once); a second
`Connect` after `Disconnect`; `Close`, `OnAsyncWrite`, `AsyncWriteNext`,
`OnConnectFlush` and `Done`, which nothing calls.  Reading a frame's header and
payload is one read.  `StartReconnect` sets the flag and the timer and starts the connect in one step; the
steps of other threads in between would lead to the same recoveries.  `AsioSocketClient::WriteScope` has an empty body, so this
client sends no scopes; the server's handling of them is modelled all the same
because the protocol has them.

### ClientMemory

One action per line of `AcquireMem` that other threads could see, then the copy and
the size, which are outside the lock.  `bytes[i]` is the thread that wrote byte
`i` last, so that an overlap shows.  The read pointer is left out: nothing uses it.

### Connections

`conn[c]` is the state of a `Connection`, `live` is `m_connections`, `at[p]` is the
connection to which the socket of program `p` leads, and `conn[c].peer` is the program
the server thinks is there until `disconnected()` has been handled.  What is under
way in the two directions of a socket are configurations, known by their mixers, and
frames that do not decode.

| Action | Code |
|---|---|
| `Connect` | `Server::incomingConnection`, and the configuration the client sends first |
| `ConnectedAgain` | the client's `OnConnected` a second time on the same socket; `AsioClient` shows how: the timer starts a second connect, and both end successfully |
| `HandleConfig` | all of `handleConfigCommand`: find the name, delete that connection, take the name, load the preset, adopt the mixer or answer |
| `HandleConfigOnItself` | the same when the connection found is the one that handles the command |
| `DecodeFails`, `CloseBox` | the message box in `processStream`, and its return |
| `OnDisconnected`, `OnCloseMarkedConnections`, `CloseAction` | marking and the timer |
| `OnMixerApplied`, `OnBufferingStateChanged`, `OnPresetApply`, `OnPresetSave` | what the user does to the configuration, with what is sent and what is not |
| `ImportDataStream`, `ImportFails` | a file with a trace, which is handled like a configuration |

The server is one thread, but a message box runs the event loop from inside
`processStream`: `stack` holds the connections that wait for their box, and timers
and other connections go on meanwhile.  The box is modal, so the user does nothing
else.  A deleted connection whose `processStream` goes on is `status = "crashed"`.

`unsent` is history: why the program may not know the connection's mixer.  It is "early"
when the user sent a configuration before the program's own was handled (the
program then gets the user's, and the server adopts the program's), and "preset" when an
applied preset changed the mixer, which is only sent along with a change of the
check box for buffering.

Abstractions: a mixer is a value; there is one preset for each name; the buffering flag is
no more than whether it differs from the program's; the names new_app_N are the
connections themselves, and an unused connection stands for the next one created.
A program keeps its mixer when it connects again.  Left out: pings and shutdown
commands (commented out of `tryHandleCommand`), csv files (their callers are commented
out), dictionaries, message boxes about damaged presets, switching the dump mode
while connections exist, and a program that changes its own mixer.

### LogFilters

A path of directory, file and line is a sequence of names and `tree` maps the known
paths to the states of their boxes.  `filters`, `enabled`, `mgrOn` and `wired` are the manager:
which filters it holds, which are switched on, its own switch, and which of them
the widget listens to.  `proxied` says whether the view shows the proxy or the table itself,
`shown` is what the proxy's map holds.

| Action | Code |
|---|---|
| `Message` | a row is committed: the filters are asked, and asking the file filter inserts the line |
| `Click`, `SelectAll` | `TreeModel::setData` (down, up and along the way up), `stateToChildren` of the root |
| `ToggleTid`, `ToggleFilter` | the thread filter's list, a filter's own button; the manager's switch follows and exchanges the model of the view |
| `CommitMenu` | `onCtxCommitButton`: filters deleted and created; nothing is wired or refiltered |
| `Exclude`, `ExcludeNext` | `excludeSelectionRows`: the indices are noted, then one row after the other is looked up, excluded and the view refiltered |
| `SavePreset`, `ApplyPreset` | `saveConfig`; `loadConfig`, `applyConfig` and `mergeWithConfig` |
| `ClearAllData` | the table and the maps are emptied, the tree stays |

`SetData`, `Inserted`, `Merged` and `ForceUpdate` are the functions of the code that do the
work; they give the tree or the view as a whole instead of walking it.

Three variables are history and name what the code does not promise.  `strays` are
the paths whose state the parent need not tell: directories and files inserted Checked
under an Unchecked directory, and what a preset does not know.  `stale` says that the last
change was one the view is not refiltered for: the menu, a filter the widget does not
listen to, and a filter switched on under a manager that is on already without a proxy.  `chosen` are the
rows selected for an exclusion.

Abstractions: the string, regex, context, level, row, time and script filters are verdicts on data
like the thread filter's, and two filters are enough for the manager to be on with one of
them; the manager asks all of its filters, so their order does not matter; one tree node is made for
each name of a path.  Left out: colorizers, the collapse state of the tree, moving of
tabs, filters of other widgets than logs.

### ClientSending

`mixer[b]` are the levels that pass for context bit `b`.  A thread that logs runs the loop of
`RuntimeFilterPredicate` a bit at a time (`Test`, `Refuse`), looks at `m_connected` (`Write`) and
writes its frame in `Pieces` (`WriteSome`); one that changes the mixer reads an element
(`Read`) and writes it back (`WriteBack`).  The io thread sets `m_connected` and *then* sends the
configuration and two dictionaries (`OnConnected`, `Greet`), and copies the mixer of a server's
configuration an element at a time (`ServerConfig`, `Copy`).  Any of these interleave; a connection may
break (`Drop`), which writers and the reader find out in their own time, and another be made
(`Establish`) under a writer in the middle of a frame.

`on`, `off` and `taken` are history: whether the mixer would have let a message through, or
not, at some moment since its call, and whether its level was taken from one of its contexts.
`crowded` says that two threads were inside `asio::write` on this connection, or one was when it was opened.

Abstractions: `m_buffered` is false, since with it every message only goes to `ClientMemory`
and nothing is sent; a frame is its sender, number and piece; which effort opens the socket again is
`AsioClient`'s; the dictionaries are both there.  Reading and writing one element of the mixer is
atomic, as it is for an aligned machine word; `|=` and `&=` are two steps.  The first
`OnConnected` may run in the thread of the program that calls connect; it does nothing
there that it does not do in the io thread.

### WidgetSync

`times` are the rows of a log and the samples of a plot by their times, `shown[l]` the rows of
the table that log `l` shows.  `sel` and `cur` are rows of the *view*, as Qt's selection and current
index are: what line they are depends on `shown`, through `ViewRow` (`mapFromSource`) and `SourceRow`
(`mapToSource`).

| Action | Code |
|---|---|
| `OnTableClicked`, `OnTableDoubleClicked` | Qt selects the row and makes it the current one; a double click also asks all others to go to its time (`SyncServerTime`) |
| `OnSyncGroupRowButton` | the same for the current row, which is mapped to the table twice |
| `SetRefSTime`, `ClearRefSTime` | `onSetRefSTime`: every log takes the reference time and filters again, which gives the selection back as `OnInvalidateFilter` does, every plot moves its marker (`SyncRefSTime`) |
| `Selected` | a click into a plot |
| `OnInvalidateFilter` | selection to the table, rebuild of the proxy, selection back (`Kept`), which makes it current (`Reselected`) |
| `ClearLogData`, `ClearPlotData` | a reset takes selection and current row, a plot's marker stays |
| `CommitLog` | `LogTableModel::commitCommands`: a row arrives; a filter may refuse it; with the first row of an empty table (also after a clear) `setCurrentIndex` makes row 1 of the view current and selects it |
| `CommitSample` | a sample arrives at a plot |

Signals are direct calls in one thread, so that a click and all it causes is one action.
`chosen` and `heard` are history: which line was selected last, and to which time a widget went
with how many rows, until a click, a filter or a first batch moves its selection.

The first batch selects with an index of the *table* (`logtablemodel.cpp:213-214`), before the proxies are
told of the rows.  A log without a filter selects its first line.  A filtered log's view takes the index for
one of its proxy, since `mapToSource` reads no more than its row: it is the first line shown, whichever that
becomes, and none while nothing is shown.  So `sel = cur = 1` and `chosen = First`, and `TypeOK` allows a
selected row beyond the view in this one case; a filter that still shows nothing, or "Ref ST", takes it away
(`Kept`).  A batch of
the model is one command: in a batch of several the index is set before any of them is in view, and
means the same afterwards.

Abstractions: a filter is the set of rows it accepts; one row is selected at a time; a plot has one
curve.  Left out: requests by client time (the same with the other column; nothing sends one) and by frame
(logs ignore them), the gantt view, whose connection names a parameter in the signature and so
does not match, tables (commented out), the find child, switching the proxy off and on, scrolling.

## 3. Runs

| Run | Question | Bounds and why they are enough |
|---|---|---|
| `StreamDecoder` | framing, order, what a call leaves behind, refinement of `CommandFeed`, and that what is taken is committed | 4 frames of 0, 1 or 2 bytes after a 2-byte header, one undecodable, batch of 2, growth of 4 with 2 arena bytes estimated per payload byte: every cut of header and payload, a full batch with more behind it, a refusal with commands queued, a flush with commands queued and an empty payload all occur together |
| `StreamDecoderEmptyPayload` | is "not enough data" true? | violated, see below |
| `LogView` | order, time differences and depths of the table; maps inverse, accepted rows shown, matches listed | 2 threads, 4 commands in batches of up to 2, room for 3 rows and 10 units of strings, one switch of indentation, 3 operations of the user: a scope with a row inside, refusals within and at the end of a batch, room made by a clear; one operation more than attach and detach, and enough for both orders of the proxies.  What the view does leaves the table alone, so that its run checks `LogTable` too; the proofs cover table and view for all bounds |
| `AsioClient` | no effort to connect is lost; a quiet client is right about its connection; it is connected in the end | 2 logging threads, 2 messages, the server leaves once, the timer runs out once: recovery by reader, writer and timer at the same time |
| `AsioClientReconnects` | does it come back whatever happened? | violated |
| `ClientMemory` | nothing overlaps, nothing is outside, nothing is refused needlessly | 2 threads, header 2, alignment 4, 4 lines, lengths 0, 1 and 3: records of one line and of two, exact fits, and the refusal of the last |
| `Connections` | one connection per name, both ends have the same mixer, what is to be closed is closed | 2 connections, 2 programs of one name with different mixers, every combination of saved preset, dump mode and default mixer, 2 operations of the user, 1 frame more than the first: a takeover, a takeover under a message box, a deferred close that meets either, an early change of the mixer and a preset that is not sent all occur; the proofs cover the safety for all bounds |
| `ConnectionsOldInstance` | is what a configuration deletes an old instance? | violated |
| `LogFilters` | do the boxes tell what is below them, does the view show what the filters pass? | 2 rows of 3 lines in 2 files of a directory, 2 threads, 4 operations: a preset takes save, change and apply with one more around it; a switch off and on, a click and a menu fit; two files are enough for a Partial directory and two lines for a Partial file; the proofs cover all bounds |
| `LogFiltersSelection` | does an exclusion exclude the selection? | violated by one exclusion of two rows |
| `ClientSending` | are verdicts and frames right without a lock? | 2 threads, 2 calls, 2 contexts, 1 level, 2 pieces to a frame, a break and a configuration of the server: a message is judged while another thread changes the mixer or the server's is copied; a frame is cut by a greeting, by another thread and by a reconnect; the proofs cover all bounds |
| `WidgetSync` | does a selection stay on its line, do requests lead to the nearest row and sample? | a filtered log, a log without filter, a plot, 2 rows each, times up to 3, 2 operations of the user between any batches: a time before, between and behind the rows, a row hidden before and after it was selected, a request and then a filter, a first row that the filter refuses or not, before and after a clear or a request, a group of none; integers of 4 bits (the width must be a square, as that of 64 bits is), so that negative differences wrap, and their squares again, while the squares of all distances fit; the proofs cover all bounds |

`CHECK_DEADLOCK FALSE` everywhere: the inputs are bounded (`MaxFrames`, `MaxCommands`,
`MaxWrites`, ...), so that every behaviour ends when they are used up, and a server
with no client and a client with nothing to log do stop.  The threads of messages
in `LogFilters` and of the program in `ClientSending` are symmetric: both check invariants
only, and nothing distinguishes one thread from another.  The other runs are small
or check liveness, and use no symmetry.

Properties that take an exception state it.  `MixersAgree` excuses the two values of `unsent`;
without either of them it fails.  `QueueMemoryLive` holds while one growth
step covers the largest payload, and not for commands queued ahead of a frame that
was refused; `PendingOnlyMidFrame` has the same exception; `DepthAgrees` and
`ScopesAlign` need an undisturbed table (no switch of indentation, no refusal);
`ViewShowsAccepted` and `FindListsMatches` miss the last row of a batch that was cut
short, because the range of rows given to the proxies is then one short; `TreeTells` leaves
out `strays`, `ViewMatchesFilters` holds unless `stale`, and the part of `WireWhole` about
whole frames unless `crowded`: each of these fails without its exception.  `CurrentFollows` excuses a log that a request
moved, until a click, a filter or a first batch; the selection that a first batch makes in
a filtered log is, in `SelectionKept`, the first line in view, and a request heard by an empty log is over with
it (`SelectionNearest`); `MarkerNext` speaks of distances whose square fits an integer.

### Fairness

- `StreamDecoder`: weak fairness of `ProcessStream` (a due signal is delivered and
  the function runs to its end) and of `Delivery` (TCP).  None on the client: it may
  stop writing at any frame boundary.  `TakenIsCommitted` needs frames that all have a
  payload and decode; otherwise the findings below leave a queue uncommitted.
- `AsioClient`: handlers run, connects end (asio reports success, refusal or the
  system's timeout), the read on a lost connection ends, expired waits end, and threads
  go on with the function they are in.  None on the server, the clock or the program.
  `ReconnectsAlone` is about behaviours in which the server stays in the end and
  neither the timer nor a write started a second chain of connects; the run
  `AsioClientReconnects` shows that without the last condition it fails.
- `Connections`: the timer of zero milliseconds fires, and a socket that lost its program
  says so, also under message boxes.  None on the user: a box may stay open for ever, so
  `DyingIsClosed` lets a connection wait that is below one.
- The other modules state no liveness.

## 4. What the runs found

1. **Empty payload** (`StreamDecoderEmptyPayload`).  A header that announces no
   payload makes the read of 0 bytes look like missing data: `processStream`
   returns `e_data_need_more` on every call, and nothing behind the frame is ever
   read.  The client sends such a frame when encoding a message fails.
2. **Competing reconnects** (`AsioClientReconnects`).  A timer that expires while a
   connect is pending starts a second chain of connects; each closes the other's socket.
3. **Deletes itself** (`ConnectionsOldInstance`).  The same race can make the client
   send its configuration twice on one socket.  The server looks for a connection of
   that name, finds the one that is handling the command, deletes it "immediately" and goes
   on in its members.

4. **Stale selection** (`LogFiltersSelection`).  The command that excludes the selected rows
   notes their indices in the view and refilters the view after each row, so that the
   next index is another row or none: with two rows selected, one stays.
Seen while modelling, with no run of their own:

- The arena grows by 16384 bytes whatever is needed; four bytes per payload byte are
  estimated, so that a payload over 4096 bytes can fail the assertion behind the growth
  (`connection_stream.cpp:268-274`).  Clients may send 16380.
- Indentation switched off inside a scope and on again before its exit drives the
  unsigned depth below zero, and `tls.h:45` asserts although entries and exits match.
- A find child opened on a filtered view is handed rows of the table and takes them for
  rows of the filter proxy (`logtablemodel.cpp:239`, `findproxymodel.cpp:57`).
- The filter for scopes reads the scope type from a column that never has one
  (`logfilterproxymodel.cpp:124`), so that scopes cannot be hidden.
- After a preset that was saved with no enabled filter, enabling one filters nothing:
  the manager's switch is loaded as it was, agrees with the filters as soon as one is on, and so
  only tells of a change, which nothing listens to without a proxy (`filtermgrbase.cpp:218`).
- The menu of filters offers a script filter whose factory gives a null pointer, which
  `recreateFilters` connects and puts into the list (`filtermgr.cpp:94`).
- `m_lock` of the socket client is released by a guard but never taken
  (`AsioSocketClient.h:159`, `344`); messages kept in the client's memory are never sent.
- A request for synchronization carries the sync group of the widget that asks, and nobody looks
  at it (`logwidget.cpp:918`), although "Double click on row synchronizes all members of sync group with same
  number" (`logwidget.cpp:373`).
- A request selects a row but leaves the current index (`logwidget.cpp:1179`, `1191`), and "Ref ST", said to be
  about the currently selected line, works on the current index: `CurrentFollows` fails without
  its exception.
- The first batch makes an index of the table the current one of a view that shows the proxy
  (`logtablemodel.cpp:213-214`), before the proxy has any row: what is selected then is the first line that
  comes into view, not the first of the table; the view does not paint it, since the index is of another model,
  and a debug build asserts that it is one of the proxy (`3rd/kde/kmodelindexproxymapper.cpp:222`).  The model is
  of a release build.
- The sync button of a filtered log hands a row of the table to a function that takes it for a row of
  the view and maps it again, so that another line's time goes out (`logwidget_actions.cpp:641`).
- A click into a plot with several curves takes the last curve that has a point, not the closest one,
  since `closest` is never updated (`plotwidget.cpp:811`); a click into an empty plot sends time 0.
- A change of one level of the mixer is lost when another thread changes another level of the
  same context at the same time (`MixerConfig.h:32`).

## 5. Proofs

TLAPS proves the following for all constants that satisfy the named assumptions
(`DecoderAssumption`, `LogTableAssumption`, `MemoryAssumption`, `ConnectionsAssumption`, `LinesAssumption` and
`BoundsAssumption`, `SendingAssumption`,
`AsioClientAssumption`, `LogViewAssumption`, `WidgetSyncAssumption`); every leaf is checked.

**Framing** (`StreamDecoderProofs`).  `Framing` alone is not inductive: the next frame
starts where the last one ended only if frames lie back to back, and the reset after
the commit in `Leave` is harmless only if the context is empty there.  `IInv` adds
`Contiguous` and `Control`, the latter saying what holds at each `pc`, in particular
that past the first command of a call an incomplete header is an empty one.  From
it: `TypeCorrect`, `FramingKept`.

**Delivery** (same module).  `StepEffect` classifies every step by what it
does to commands: a frame is written, nothing changes, the queue is committed, the next
command is taken, or it is skipped.  With it `OInv` (`IInv`, frames apart, failed frames
behind, `HandledOnceInOrder`) is preserved by five cases instead of eleven, and each of
them is a step of `CommandFeed` or changes nothing of it: `OnceInOrder` and
`ImplementsFeed` (`Spec => FeedSpec` under the refinement mapping of `StreamDecoder`).

**What a call leaves behind** (same module).  `MInv` adds what a flush leaves to the
decoder (`GrownArena`) and what is queued at each point (`QueuePending`):
`MemoryLive` and `PendingMidFrame`.  `BInv` adds what the loop knows about the socket
when it ends (`SocketEmpty`): `BacklogAfterBreak`.

**Log table** (`LogViewProofs`).  `RowsInOrder` compares rows with the queue between batches only;
inductive is that what was handled is older than what waits, for rows, times and
refusals (`RowsBehind`, `TimesBehind`, `RefusedBehind`).  `GapToPrevious` needs `LastTimes`: the
time kept for a thread is that of its last row, or of a refusal since.  That the unsigned depth never
reads as a negative number before the assertion does is `Shallow`: no thread is deeper than
the commands handled so far.  `DepthInv` counts the waiting commands in place, so that a row added takes one
from the count and changes the depth by the same.  `ScopesAlign` is about rows long written; `RowDepths`
says of every row, in every state, that its indentation is the depth of its thread now less what the rows
since have opened, and the bracket structure of a scope follows by splitting that sum (`Net_Split`).
From it: `TypeCorrect`, `RowsOrdered`, `GapsKept`, `DepthsAgree`, `ScopesAligned`, for any number
of threads, rows and batches and any capacities.

**Log view** (same module).  `ViewRunsTable` shows first that the view does to the table only what
the table does by itself (`ViewSpec => Spec`), so that the table's invariants can be used.  What a proxy
shows is compared between batches only (`ViewShowsAccepted`, `FindListsMatches`); inductive is that it
shows what it should *up to the batch at hand* (`Shows`, `Through`), and that a batch cut short was
cut by a command younger than every row (`BatchCut`), which makes the row it hides one that `CutOff` excuses then
and, since later rows are younger, for good.  A proxy that was detached is rebuilt when it is
switched on, so it needs no more than inverse maps meanwhile.  The table's list of proxies contains the find
child exactly while it is open (`Attached`).  `InOrder` numbers rows by counting those before them: `Places` shows
that these ranks are one-to-one and leave no gap (a strictly monotone function between
finite sets of one size), where a list built row by row would take an induction.  From it: `ViewTypeCorrect`,
`FilterMapsAgree`, `FindMapsAgree`, `ViewShowsRows`, `FindListsRows`.

**Client memory** (`ClientMemoryProofs`).  `IInv` says that one thread at most is under
the lock (`Exclusive`), records are aligned and below the write pointer (`Aligned`,
`Below`), a record being reserved or filled is nobody else's (`Reserving`, `Apart`), what
is filled and finished stays (`Filled`, `Finished`), and each record leads to the next
(`Linked`).  The interesting fact is that room for a message alone is enough for the
header too: `Hdr < Align` and both ends of a record are aligned.  From it:
`MemorySafe`, `RecordsIntact`, `RecordsChained`, `RefusalJustified`, for any number
of threads, any size of memory and all lengths.

**Connections** (`ConnectionsProofs`).  Neither `NamesUnique` nor `MixersAgree` is
inductive.  Names stay unique because a name is taken only after its holder was
deleted, and because a connection without its program's name has its own (`Good`).
For the mixers, `Agrees` says that the *last* configuration under way, or the
program's mixer if there is none, is the connection's; and `Waits` that a connection
which has not handled its program's configuration still has it at the head of what
comes up and, if it will adopt it, has sent nothing.  `PeersKnown` ties the two ends of a
socket together.  `IInv` is these with the types.  Two step lemmas carry most actions:
`OneChanged` (one connection changes or is new, others are deleted, sockets are
closed) and `OnlyDeleted`; each action then shows `Good` for the connection it
touches.  From it: `TypeCorrect`, `NamesOnce`, `MixersInStep`, for any number of
connections, programs, names, mixers and operations.

**Filters** (`LogFiltersProofs`).  `TreeTells` speaks of neighbours in the tree only, and yet is
not inductive: it needs that the tree is closed upwards, and that the preset on disk, which is
merged into the tree, tells as well.  `Sound` says this of a tree and the strays it
may have; it holds of `tree` (`Coherent`) and of the preset (`PresetOK`).  Lemmas about
paths (what is above another, their lengths, who shares a parent) carry `SetData`,
`Inserted` and `Merged`, each with its lemma that the result is sound.  `ViewMatchesFilters`
needs `Seen`: how the proxy being in place goes with the switch of the manager and the enabled filters, and
that the proxy then holds what passes and the tree knows every line (`Drawn`).  `IInv` is all
of these with the types.  From it: `Types`, `TreesTell`, `ViewsMatch`, for any set of source
lines in which none is above another, any threads and any bounds.

**Sending** (`ClientSendingProofs`).  `VerdictFair` needs `Judged`: at every turn of a loop that
is still going on, the message has been refused by the whole mixer at some moment, has lost
its level, or has it in a bit the loop is still to visit.  `WireWhole` needs to know of
every thread what is already on the wire: nothing is past where the thread is (`Behind`) and
its pieces are in order (`InOrder`).  While the connection is not crowded (`Framed`), there is one
writer at most and the wire ends where it is to go on (`Alone`, `Mine`), with the end of a frame
when nobody writes, and with nothing before the configuration.  From it: `Types`,
`VerdictsFair`, `WiresWhole`, for any number of threads, contexts, levels and pieces.

**Client connection** (`AsioClientProofs`).  `EffortsCounted` counts steps in the functions of
all threads and handlers in a queue.  It is not inductive by itself: that a step taken
removes one effort and not two needs to know what can be left of a function (`Shaped`,
the lists of steps that occur), that closing a socket turns each pending read into one
handler and loses none needs that reads are pending on connected sockets only
(`ReadsLive`), and nothing may be pending before `Connect` (`Off`).  `Slots_Counted`
turns the count of steps into a count of threads, `Count_Concat` counts handlers over
append, tail and concatenation.  For `BeliefMatchesSocket`, `Noticed` says that a client that believes
in a connection it does not have has a failed read due, or a step left that leads to one, and `Told`
that a client that does not know of its connection is about to be told or to replace it; with nothing left
to do both exclude their premise, and the count of efforts says what goes on instead.  From it: `TypeCorrect`,
`EffortsKept`, `BeliefKept`, for any number of threads and any interleaving with the io thread.

**Synchronization** (`WidgetSyncProofs`).  `LogInv` gathers what is true of one log as a statement about
six values, so that each kind of change (`AfterClick`, `AfterRequest`, `AfterReselect`, `AfterFilter`,
`AfterFirst`, `AfterAppend`) is a lemma without states and the actions only put them together; `PlotInv` does so for a
plot.  `SelectionKept` needs `mapToSource` and `mapFromSource` to be inverse to each other
(`RowAtFacts`), and to stay so for the rows in view when one more arrives (`RowAtMore`).
The row that a first batch selects may be none of the view (`OutOfView`); this lasts while nothing is
shown, for the first row that comes into view is then row 1.
`SelectionNearest` needs a nearest row to exist (`NearestFacts`), and that a log heard no more rows than it has.
`MarkerNext` is about a loop, written as a recursive function.  What it has found after
each sample is `Found`: before the time is reached the last sample, with the distance from it
wrapped to the top of the integers; afterwards the first sample that reached the time, for good.  The step
(`OneTurn`) is arithmetic: if the squares of two distances are below `root * root`, then
the square of one and the other distance together are too (`SquareAndDistance`).  Here the width
has to be a square: with 7 bits and two samples 11 before the time the loop does not go on to
the second.  The
induction over samples is one over a *set* of numbers (`UpTo`), which follows from least elements
and those from counting.  Samples are in order because the clock of the server does not go back (`InTime`).
From it: `WidgetTypeCorrect`, `SelectionStays`, `ButtonsFollow`, `NearestSelected`, `MarkerFollows`, for any
number of logs, plots, rows and operations.

Every safety property that a run checks is proved.  Only model-checked is liveness
(`TakenIsCommitted`, `ReconnectsAlone`, `DyingIsClosed`), which is out of the prover's reach, as are `ENABLED` and
inductions with a formula as their parameter.

## 6. Not modelled

See the components with status `not_modelled` in `PROJECT.json`.  Vendored and
generated code (most of the lines of the repository) and widgets that only draw stay out: what
they do enters as the actions of an environment.  The encoders copy field by field.  The file
and failover clients format into a buffer and write it, one call at a time.  Routing
of commands finds or creates one widget per tag, in maps that nothing else changes.
Docks and presets of the main window are trees that are written and read as they are.

## 7. Plan

Done: the stream decoder with its abstract specification and proofs, the log table
and its view with proofs, the client's connection with proofs, the client's memory with proofs, the server's
connections with proofs, the filters of a log widget with proofs, the mixer and the frames
on the wire with proofs, the synchronization of widgets by time with proofs.

What would come next, the most consequential first:

1. The configuration handshake: `ClientSending`'s wire composed with the naming of
   connections in `Connections`, where a message that overtakes the configuration reaches
   an unnamed connection.
2. Routing: find or create a widget per feature and tag, with features switched off
   between frames, composed with `StreamDecoder`'s batches.
3. Closing the find child in `LogView`, and its selections and requests in `WidgetSync`.
4. Switching a log's proxy on and off in `WidgetSync`, which exchanges the model under a selection.

Theorems: that one widget's request is answered by every other in one step is built into `WidgetSync`; once a proxy can
be exchanged under a selection, `LogInv` is the invariant to extend.  The enabling half of the liveness properties (that a state
with work left has a step due) can be stated without `ENABLED` and would narrow what TLC alone shows.
