----------------------------- MODULE Connections -----------------------------
(***************************************************************************)
(* The connections of the trace server with its programs: accepting, the   *)
(* exchange of configurations (Connection::handleConfigCommand), taking    *)
(* over the connection of an earlier program of the same name, and the     *)
(* ways a connection is closed.                                            *)
(*                                                                         *)
(* The server is one thread and runs one event at a time.  A frame that    *)
(* does not decode opens a message box in the middle of processStream; the *)
(* box runs the event loop, so that the events of other connections and    *)
(* the timers come in before processStream goes on.  stack holds the       *)
(* connections whose processStream waits for its box, the innermost last.  *)
(***************************************************************************)
EXTENDS Integers, Sequences, FiniteSets

CONSTANTS
  Conns,       (* connections, and the names new_app_N they start with       *)
  Programs,    (* traced programs                                            *)
  Apps,        (* the names programs give themselves                         *)
  App,         (* m_appName of each program                                  *)
  Level,       (* the mixer each program starts with                         *)
  Mixers,      (* the levels and contexts a program may send                 *)
  GlobalMixer, (* the mixer in the server's global configuration             *)
  None,        (* no name, no connection, no program, no saved mixer         *)
  MaxConnects, (* bound: connections accepted and files imported             *)
  MaxActs,     (* bound: operations of the user                              *)
  MaxFrames    (* bound: frames sent after the first                         *)

ASSUME ConnectionsAssumption ==
  /\ GlobalMixer \in Mixers
  /\ App \in [Programs -> Apps \cup {None}]
  /\ Level \in [Programs -> Mixers]
  /\ Conns \cap Apps = {}
  /\ None \notin Conns \cup Programs \cup Apps \cup Mixers
  /\ "bad" \notin Mixers
  /\ MaxConnects \in Nat
  /\ MaxActs \in Nat
  /\ MaxFrames \in Nat

VARIABLES
  status,   (* "running", "quit", or "crashed" after a deleted connection was used *)
  live,     (* MainWindow::m_connections                                     *)
  conn,     (* the state of each connection, see Connection below            *)
  stack,    (* the connections whose processStream shows a message box       *)
  closing,  (* a timer for onCloseMarkedConnections is running               *)
  saved,    (* the mixer in each application's saved preset, if there is one *)
  dumpMode, (* m_config.m_dump_mode: closed connections are exported         *)
  fresh,    (* m_default of the global mixer: it was never saved             *)
  level,    (* m_config.m_mixer of each program                              *)
  at,       (* the connection at the other end of each program's socket      *)
  connects, acts, frames (* what the bounds count                            *)

counters == << connects, acts, frames >>
programs == << level, at >>
settings == << saved, dumpMode, fresh >>
vars == << status, live, conn, stack, closing, settings, programs, counters >>

Frames == Mixers \cup {"bad"}

\* name is m_app_name; mixer and default are m_config.m_mixer.m_state and m_default; peer is
\* the program whose socket m_tcpstream is, until disconnected() is emitted; up and down
\* are what is under way to and from the server: configurations, known by their mixers,
\* and frames that do not decode.  unsent tells why the program may not know the mixer.
Connection ==
  [name : Conns \cup Apps \cup {None}, mixer : Mixers, default : BOOLEAN,
   marked : BOOLEAN, peer : Programs \cup {None}, up : Seq(Frames), down : Seq(Mixers),
   unsent : {"no", "early", "preset"}]

Unused ==
  [name |-> None, mixer |-> GlobalMixer, default |-> FALSE, marked |-> FALSE,
   peer |-> None, up |-> << >>, down |-> << >>, unsent |-> "no"]

\* A new connection takes its settings from the global configuration.
New(c, p, sent) ==
  [name |-> c, mixer |-> GlobalMixer, default |-> fresh, marked |-> FALSE,
   peer |-> p, up |-> sent, down |-> << >>, unsent |-> "no"]

Init ==
  /\ status = "running"
  /\ live = {}
  /\ conn = [c \in Conns |-> Unused]
  /\ stack = << >>
  /\ closing = FALSE
  /\ saved \in [Apps -> Mixers \cup {None}]
  /\ dumpMode \in BOOLEAN
  /\ fresh \in BOOLEAN
  /\ level = Level
  /\ at = [p \in Programs |-> None]
  /\ connects = 0
  /\ acts = 0
  /\ frames = 0

Stacked == {stack[i] : i \in DOMAIN stack}
Running == status = "running"

\* The next connection; which of the unused ones stands for it makes no difference.
CanCreate == connects < MaxConnects /\ Conns \ (live \cup Stacked) # {}
Created == CHOOSE c \in Conns : c \notin live \cup Stacked

\* The program's end of the connection is still there.
Linked(c) == conn[c].peer # None /\ at[conn[c].peer] = c

-----------------------------------------------------------------------------
(* The programs.                                                           *)

\* Mutant of CloseSockets: the destructor forgets the socket.
CloseSocketsNot(gone) == at

\* The programs whose connections are deleted see their sockets closed.
CloseSockets(gone) == [p \in Programs |-> IF at[p] \in gone THEN None ELSE at[p]]

\* A program connects, Server::incomingConnection accepts it, and it sends its configuration.
Connect(p) ==
  /\ Running
  /\ at[p] = None
  /\ CanCreate
  /\ connects' = connects + 1
  /\ live' = live \cup {Created}
  /\ conn' = [conn EXCEPT ![Created] = New(Created, p, << level[p] >>)]
  /\ at' = [at EXCEPT ![p] = Created]
  /\ UNCHANGED << status, stack, closing, settings, level, acts, frames >>

SendFrame(p, f) ==
  /\ Running
  /\ at[p] # None
  /\ frames < MaxFrames
  /\ frames' = frames + 1
  /\ conn' = [conn EXCEPT ![at[p]].up = Append(@, f)]
  /\ UNCHANGED << status, live, stack, closing, settings, programs, connects, acts >>

\* Two successful connects handled one after the other on one socket: the client sends its
\* configuration twice (AsioClient shows how that comes about).
ConnectedAgain(p) == SendFrame(p, level[p])

\* Two threads write a frame each, one inside the other.
SendBad(p) == SendFrame(p, "bad")

\* The program ends, or closes its socket to connect again.
Leave(p) ==
  /\ Running
  /\ at[p] # None
  /\ at' = [at EXCEPT ![p] = None]
  /\ conn' = [conn EXCEPT ![at[p]].down = << >>]
  /\ UNCHANGED << status, live, stack, closing, settings, level, counters >>

\* The program copies the mixer of a configuration it receives.
OnConnectionConfigCommand(p) ==
  /\ Running
  /\ at[p] # None
  /\ conn[at[p]].down # << >>
  /\ level' = [level EXCEPT ![p] = Head(conn[at[p]].down)]
  /\ conn' = [conn EXCEPT ![at[p]].down = Tail(@)]
  /\ UNCHANGED << status, live, stack, closing, settings, at, counters >>

-----------------------------------------------------------------------------
(* The configuration of a connection.                                      *)

\* Mutant of FindByName: passes over connections whose program has gone.
FindByNameLinked(a) == {d \in live : a # None /\ conn[d].name = a /\ conn[d].peer # None}

\* The connection of that name: there is at most one, by NamesUnique.  None stands for the
\* empty name, which no connection has.
FindByName(a) == {d \in live : a # None /\ conn[d].name = a}

\* sendConfigCommand: the mixer goes to the program if it is there.
Sent(c, k) ==
  [k EXCEPT !.unsent = "no",
            !.down = IF k.peer # None /\ at[k.peer] = c THEN Append(@, k.mixer) ELSE @]

SentIf(sends, c, k) == IF sends THEN Sent(c, k) ELSE k

\* loadConfig finds the application's preset, or leaves the configuration as it is.
Loaded(k) ==
  IF k.name \in Apps /\ saved[k.name] # None
    THEN [k EXCEPT !.mixer = saved[k.name], !.default = FALSE]
    ELSE k

\* Mutant of Replies: the program is told only when its buffering is not the server's.
RepliesBuffering(k, differs) == differs

\* The server answers with its own configuration unless it adopts the program's.
Replies(k, differs) == ~ k.default \/ differs

\* handleConfigCommand after the search: the name, the preset of that name, then the mixer.
\* The buffering flag is no more than whether it differs from the program's; an answer
\* that loading the preset sends first has the same mixer and is left out.
Configured(c, k, a, m, differs) ==
  LET loaded == Loaded([k EXCEPT !.name = IF a = None THEN @ ELSE a])
      adopted == [loaded EXCEPT !.mixer = IF loaded.default THEN m ELSE @]
  IN  SentIf(Replies(adopted, differs), c, adopted)

\* Deleting connections: what is left when k is the new state of c.
Deleting(gone, c, k) ==
  [d \in Conns |-> IF d = c THEN k ELSE IF d \in gone THEN Unused ELSE conn[d]]

-----------------------------------------------------------------------------
(* Events of the server's sockets and timers.                              *)

\* A connection's frames are read unless its processStream is waiting already.
CanRead(c) == Running /\ c \in live \ Stacked /\ conn[c].peer # None /\ conn[c].up # << >>

\* A configuration: the old connection of that name is deleted at once.
HandleConfig(c) ==
  /\ CanRead(c)
  /\ Head(conn[c].up) # "bad"
  /\ LET a == App[conn[c].peer]
         old == FindByName(a)
         rest == [conn[c] EXCEPT !.up = Tail(@)]
     IN  /\ c \notin old
         /\ live' = live \ old
         /\ at' = CloseSockets(old)
         /\ \E differs \in BOOLEAN :
              conn' = Deleting(old, c, Configured(c, rest, a, Head(conn[c].up), differs))
  /\ UNCHANGED << status, stack, closing, settings, level, counters >>

\* The connection finds itself, deletes itself and goes on.
HandleConfigOnItself(c) ==
  /\ CanRead(c)
  /\ Head(conn[c].up) # "bad"
  /\ c \in FindByName(App[conn[c].peer])
  /\ status' = "crashed"
  /\ UNCHANGED << live, conn, stack, closing, settings, programs, counters >>

\* A frame that does not decode.
DecodeFails(c) ==
  /\ CanRead(c)
  /\ Head(conn[c].up) = "bad"
  /\ conn' = [conn EXCEPT ![c].up = Tail(@)]
  /\ stack' = Append(stack, c)
  /\ UNCHANGED << status, live, closing, settings, programs, counters >>

\* The user closes the innermost box and its processStream goes on.
CloseBox ==
  /\ Running
  /\ stack # << >>
  /\ LET c == stack[Len(stack)]
     IN  status' = IF c \in live THEN "running" ELSE "crashed"
  /\ stack' = SubSeq(stack, 1, Len(stack) - 1)
  /\ UNCHANGED << live, conn, closing, settings, programs, counters >>

\* markConnectionForClose sets the flag and starts a timer.
OnDisconnected(c) ==
  /\ Running
  /\ c \in live \ Stacked
  /\ conn[c].peer # None
  /\ ~ Linked(c)
  /\ conn' = [conn EXCEPT ![c].peer = None, ![c].up = << >>,
                          ![c].marked = @ \/ dumpMode]
  /\ closing' = (closing \/ dumpMode)
  /\ UNCHANGED << status, live, stack, settings, programs, counters >>

\* Mutant of Marked: those whose program is still known.
MarkedKnown == {c \in live : conn[c].marked /\ conn[c].peer # None}

Marked == {c \in live : conn[c].marked}

OnCloseMarkedConnections ==
  /\ Running
  /\ closing
  /\ closing' = FALSE
  /\ live' = live \ Marked
  /\ conn' = [d \in Conns |-> IF d \in Marked THEN Unused ELSE conn[d]]
  /\ at' = CloseSockets(Marked)
  /\ UNCHANGED << status, stack, settings, level, counters >>

-----------------------------------------------------------------------------
(* The user, who reaches the windows only while no box is open.            *)

Acts ==
  /\ Running
  /\ stack = << >>
  /\ acts < MaxActs
  /\ acts' = acts + 1

CloseAction(c) ==
  /\ Acts
  /\ c \in live
  /\ conn' = [conn EXCEPT ![c].marked = TRUE]
  /\ closing' = TRUE
  /\ UNCHANGED << status, live, stack, settings, programs, connects, frames >>

\* The program's configuration has not been handled yet.
Unhandled(c) == conn[c].up # << >> /\ conn[c].name = c

\* A configuration sent before the program's own is handled is lost on the server when the
\* program's is adopted.
SentByUser(c, k) ==
  IF Unhandled(c) /\ k.default THEN [Sent(c, k) EXCEPT !.unsent = "early"] ELSE Sent(c, k)

\* The mixer window has a copy of the configuration, which may be older than a preset saved
\* or loaded since, and applies it as a whole.
OnMixerApplied(c, m) ==
  /\ Acts
  /\ c \in live
  /\ m # conn[c].mixer
  /\ \E d \in {conn[c].default, fresh} :
       conn' = [conn EXCEPT ![c] = SentByUser(c, [@ EXCEPT !.mixer = m, !.default = d])]
  /\ UNCHANGED << status, live, stack, closing, settings, programs, connects, frames >>

OnBufferingStateChanged(c) ==
  /\ Acts
  /\ c \in live
  /\ conn' = [conn EXCEPT ![c] = SentByUser(c, @)]
  /\ UNCHANGED << status, live, stack, closing, settings, programs, connects, frames >>

\* A preset that is applied is sent only if it switches the check box for buffering.
OnPresetApply(c) ==
  /\ Acts
  /\ c \in live
  /\ conn[c].name \in Apps
  /\ saved[conn[c].name] # None
  /\ \E sends \in BOOLEAN :
       LET k == Loaded(conn[c])
       IN  conn' = [conn EXCEPT ![c] = SentIf(sends, c,
                      [k EXCEPT !.unsent = IF k.mixer = conn[c].mixer THEN @ ELSE "preset"])]
  /\ UNCHANGED << status, live, stack, closing, settings, programs, connects, frames >>

\* Saving writes the mixer and, by the way it is written, marks it as not the default.
OnPresetSave(c) ==
  /\ Acts
  /\ c \in live
  /\ conn' = [conn EXCEPT ![c].default = FALSE]
  /\ saved' = [a \in Apps |-> IF a = conn[c].name THEN conn[c].mixer ELSE saved[a]]
  /\ UNCHANGED << status, live, stack, closing, dumpMode, fresh, programs, connects, frames >>

\* A file with the trace of a program: one configuration, which takes over like any other.
ImportDataStream ==
  /\ Acts
  /\ CanCreate
  /\ connects' = connects + 1
  /\ \E a \in Apps \cup {None}, m \in Mixers, differs \in BOOLEAN :
       LET c == Created
           old == FindByName(a)
       IN  /\ live' = (live \ old) \cup {c}
           /\ at' = CloseSockets(old)
           /\ conn' = Deleting(old, c, Configured(c, New(c, None, << >>), a, m, differs))
  /\ UNCHANGED << status, stack, closing, settings, level, frames >>

ImportFails ==
  /\ Acts
  /\ CanCreate
  /\ connects' = connects + 1
  /\ live' = live \cup {Created}
  /\ conn' = [conn EXCEPT ![Created] = New(Created, None, << >>)]
  /\ stack' = << Created >>
  /\ UNCHANGED << status, closing, settings, programs, frames >>

OnQuit ==
  /\ Acts
  /\ status' = "quit"
  /\ live' = {}
  /\ conn' = [c \in Conns |-> Unused]
  /\ at' = CloseSockets(live)
  /\ UNCHANGED << stack, closing, settings, level, connects, frames >>

Server ==
  \/ \E c \in Conns :
       HandleConfig(c) \/ HandleConfigOnItself(c) \/ DecodeFails(c) \/ OnDisconnected(c)
  \/ OnCloseMarkedConnections

Program ==
  \E p \in Programs :
    \/ Connect(p)
    \/ ConnectedAgain(p)
    \/ SendBad(p)
    \/ Leave(p)
    \/ OnConnectionConfigCommand(p)

User ==
  \/ CloseBox
  \/ \E c \in Conns :
       \/ CloseAction(c)
       \/ \E m \in Mixers : OnMixerApplied(c, m)
       \/ OnBufferingStateChanged(c)
       \/ OnPresetApply(c)
       \/ OnPresetSave(c)
  \/ ImportDataStream
  \/ ImportFails
  \/ OnQuit

Next == Server \/ Program \/ User

Spec == Init /\ [][Next]_vars

\* Timers fire and a socket that has lost its program says so.
FairSpec ==
  /\ Spec
  /\ WF_vars(OnCloseMarkedConnections)
  /\ \A c \in Conns : WF_vars(OnDisconnected(c))
-----------------------------------------------------------------------------
(* Properties.                                                             *)

\* Type invariant; a program's socket leads to a connection in the list.
TypeOK ==
  /\ status \in {"running", "quit", "crashed"}
  /\ live \subseteq Conns
  /\ conn \in [Conns -> Connection]
  /\ stack \in Seq(Conns)
  /\ closing \in BOOLEAN
  /\ saved \in [Apps -> Mixers \cup {None}]
  /\ dumpMode \in BOOLEAN
  /\ fresh \in BOOLEAN
  /\ level \in [Programs -> Mixers]
  /\ at \in [Programs -> live \cup {None}]
  /\ connects \in 0 .. MaxConnects
  /\ acts \in 0 .. MaxActs
  /\ frames \in 0 .. MaxFrames

\* However programs of one name come, go, reconnect and are imported, at most one connection
\* has it: windows and presets, which are found by name, belong to one connection.
NamesUnique ==
  \A c, d \in live : conn[c].name = conn[d].name => c = d

\* Once a connection has its program's name and no configuration is under way to the program,
\* the program sends what the mixer of the connection shows, unless the user changed the
\* settings before the program's were handled, or applied a preset that was not sent.
MixersAgree ==
  \A c \in live :
    Linked(c) /\ conn[c].name \in Apps /\ conn[c].down = << >> /\ conn[c].unsent = "no" =>
      level[conn[c].peer] = conn[c].mixer

\* What is marked for closing, or in dump mode has lost its program.
Dying(c) ==
  c \in live /\ (conn[c].marked \/ (dumpMode /\ conn[c].peer # None /\ ~ Linked(c)))

\* Such a connection is closed in the end, unless it waits for a message box, whatever else
\* is accepted, taken over and closed meanwhile.
DyingIsClosed ==
  \A c \in Conns : Dying(c) ~> ~ Dying(c) \/ c \in Stacked \/ ~ Running

\* connection_config.cpp:74 says "deleting old instance of": what a configuration or a timer
\* deletes is not at work in processStream.
DeletesOldInstances == status # "crashed" /\ Stacked \subseteq live
=============================================================================
