------------------------------ MODULE AsioClient ------------------------------
(***************************************************************************)
(* The connection of a traced program to its trace server: AsioSocketClient*)
(* (trace_client/AsioSocketClient.h) over the vendored asio.               *)
(*                                                                         *)
(* The io thread runs the handlers of completed operations, one after the  *)
(* other; the program's threads write messages and start a reconnect when  *)
(* a write fails.  A lock was meant to keep them apart, but nothing takes  *)
(* it, so that their steps interleave.  todo holds, for the io thread and  *)
(* for each thread of the program, what is left of the function it is in.  *)
(***************************************************************************)
EXTENDS Integers, Sequences, FiniteSets

CONSTANTS
  Threads,   (* the threads of the program that log                        *)
  MaxWrites, (* bound: messages logged                                     *)
  MaxDowns,  (* bound: how often the server goes away                      *)
  MaxExpiries (* bound: how often the timer runs out                       *)

ASSUME AsioClientAssumption ==
  /\ "io" \notin Threads
  /\ MaxWrites \in Nat
  /\ MaxDowns \in Nat
  /\ MaxExpiries \in Nat

Actors == Threads \cup {"io"}

VARIABLES
  phase,     (* "off", "running", "stopped": the io thread; "failed" when    *)
             (* the server's name could not be resolved                    *)
  connected, (* m_connected                                                *)
  buffered,  (* m_buffered                                                 *)
  sock,      (* m_socket: "closed", "connecting", "open" after a refused   *)
             (* connect, "up", or "lost" when the server has gone          *)
  reads,     (* reads pending on the socket                                *)
  waits,     (* waits pending on m_timer                                   *)
  due,       (* m_timer.expires_at() has passed                            *)
  ready,     (* completed operations whose handlers have not run           *)
  todo,      (* the steps left of the function each thread is in           *)
  server,    (* the server is there                                        *)
  kept,      (* messages put into g_ClientMemory                           *)
  writes,    (* messages logged                                            *)
  downs,     (* how often the server went away                             *)
  expiries,  (* how often the timer ran out                                *)
  extra      (* history: reconnects started by the timer and by writes     *)

counters == << kept, writes, downs, expiries, extra >>
vars == << phase, connected, buffered, sock, reads, waits, due, ready, todo, server, counters >>

Init ==
  /\ phase = "off"
  /\ connected = FALSE
  /\ buffered = FALSE
  /\ sock = "closed"
  /\ reads = 0
  /\ waits = 0
  /\ due = TRUE
  /\ ready = << >>
  /\ todo = [a \in Actors |-> << >>]
  /\ server \in BOOLEAN
  /\ kept = 0
  /\ writes = 0
  /\ downs = 0
  /\ expiries = 0
  /\ extra = 0

Handler(op, ok) == [op |-> op, ok |-> ok]

\* The thread is in no function, or goes on with what is left of its function.
Free(a) == todo[a] = << >>
At(a, step) == todo[a] # << >> /\ Head(todo[a]) = step
Call(a, steps) == todo' = [todo EXCEPT ![a] = steps]
Continue(a) == todo' = [todo EXCEPT ![a] = Tail(@)]

\* What is to be done after the connection failed.
Recover == << "error", "reconnect", "timer" >>

-----------------------------------------------------------------------------
(* The server, the network and the clock.                                  *)

ServerLeaves ==
  /\ server
  /\ downs < MaxDowns
  /\ server' = FALSE
  /\ downs' = downs + 1
  /\ sock' = IF sock = "up" THEN "lost" ELSE sock
  /\ UNCHANGED << phase, connected, buffered, reads, waits, due, ready, todo, kept, writes,
                  expiries, extra >>

ServerReturns ==
  /\ ~server
  /\ server' = TRUE
  /\ UNCHANGED << phase, connected, buffered, sock, reads, waits, due, ready, todo, counters >>

\* The connect that is under way ends.
ConnectEnds ==
  /\ sock = "connecting"
  /\ sock' = IF server THEN "up" ELSE "open"
  /\ ready' = Append(ready, Handler("connect", server))
  /\ UNCHANGED << phase, connected, buffered, reads, waits, due, todo, server, counters >>

\* The server's configuration arrives, or the end of the stream.
ReadEnds ==
  /\ reads > 0
  /\ sock \in {"up", "lost"}
  /\ reads' = reads - 1
  /\ ready' = Append(ready, Handler("read", sock = "up"))
  /\ UNCHANGED << phase, connected, buffered, sock, waits, due, todo, server, counters >>

TimePasses ==
  /\ ~due
  /\ expiries < MaxExpiries
  /\ due' = TRUE
  /\ expiries' = expiries + 1
  /\ UNCHANGED << phase, connected, buffered, sock, reads, waits, ready, todo, server, kept,
                  writes, downs, extra >>

WaitEnds ==
  /\ waits > 0
  /\ due
  /\ waits' = waits - 1
  /\ ready' = Append(ready, Handler("wait", TRUE))
  /\ UNCHANGED << phase, connected, buffered, sock, reads, due, todo, server, counters >>

-----------------------------------------------------------------------------
(* The steps of the functions.                                             *)

\* The handlers of the operations that closing the socket aborts.
Aborted ==
  (IF sock = "connecting" THEN << Handler("connect", FALSE) >> ELSE << >>)
    \o [i \in 1 .. reads |-> Handler("read", FALSE)]

\* m_socket.close()
Close ==
  /\ ready' = ready \o Aborted
  /\ reads' = 0
  /\ sock' = "closed"

CloseSocket(a) ==
  /\ At(a, "close")
  /\ Close
  /\ Continue(a)
  /\ UNCHANGED << phase, connected, buffered, waits, due, server, counters >>

OnSocketError(a) ==
  /\ At(a, "error")
  /\ connected' = FALSE
  /\ Close
  /\ Continue(a)
  /\ UNCHANGED << phase, buffered, waits, due, server, counters >>

\* The new expiry cancels the pending waits; the new connect closes the socket first.
StartReconnect(a) ==
  /\ At(a, "reconnect")
  /\ connected' = FALSE
  /\ due' = FALSE
  /\ waits' = 0
  /\ ready' = ready \o Aborted
  /\ reads' = 0
  /\ sock' = "connecting"
  /\ Continue(a)
  /\ UNCHANGED << phase, buffered, server, counters >>

StartClientTimer(a) ==
  /\ At(a, "timer")
  /\ waits' = waits + 1
  /\ Continue(a)
  /\ UNCHANGED << phase, connected, buffered, sock, reads, due, ready, server, counters >>

CancelClientTimer(a) ==
  /\ At(a, "cancel")
  /\ waits' = 0
  /\ Continue(a)
  /\ UNCHANGED << phase, connected, buffered, sock, reads, due, ready, server, counters >>

\* OnConnected sets the flag and starts to read; then it sends the configuration, whose
\* failure nobody looks at.
SetConnected(a) ==
  /\ At(a, "connected")
  /\ connected' = TRUE
  /\ Continue(a)
  /\ UNCHANGED << phase, buffered, sock, reads, waits, due, ready, server, counters >>

\* A read on a socket that is not connected fails at once.
StartAsyncRead(a) ==
  /\ At(a, "read")
  /\ IF sock \in {"up", "lost"}
       THEN reads' = reads + 1 /\ UNCHANGED ready
       ELSE ready' = Append(ready, Handler("read", FALSE)) /\ UNCHANGED reads
  /\ Continue(a)
  /\ UNCHANGED << phase, connected, buffered, sock, waits, due, server, counters >>

Step(a) ==
  \/ CloseSocket(a)
  \/ OnSocketError(a)
  \/ StartReconnect(a)
  \/ StartClientTimer(a)
  \/ CancelClientTimer(a)
  \/ SetConnected(a)
  \/ StartAsyncRead(a)

-----------------------------------------------------------------------------
(* The io thread.                                                          *)

\* The next handler runs in the io thread.
Runs(op) == phase = "running" /\ Free("io") /\ ready # << >> /\ Head(ready).op = op

\* The timer's handler: the connect has taken too long.
OnClientTimer ==
  /\ Runs("wait")
  /\ ready' = Tail(ready)
  /\ CASE connected -> UNCHANGED << todo, extra >>
       [] ~connected /\ due -> /\ Call("io", << "close", "reconnect", "timer" >>)
                               /\ extra' = extra + 1
       [] ~connected /\ ~due -> Call("io", << "timer" >>) /\ UNCHANGED extra
  /\ UNCHANGED << phase, connected, buffered, sock, reads, waits, due, server, kept, writes,
                  downs, expiries >>

\* Mutant of AfterConnect: a refused connect is not tried again.
AfterConnectOnce ==
  CASE sock = "closed" -> << "reconnect" >>
    [] sock # "closed" /\ ~ Head(ready).ok -> << "error" >>
    [] sock # "closed" /\ Head(ready).ok -> << "cancel", "connected", "read" >>

\* Mutant of AfterConnect: nobody reads from the new connection.
AfterConnectNoRead ==
  CASE sock = "closed" -> << "reconnect" >>
    [] sock # "closed" /\ ~ Head(ready).ok -> << "error", "reconnect" >>
    [] sock # "closed" /\ Head(ready).ok -> << "cancel", "connected" >>

\* What OnConnect does: it looks at the socket, which another connect may have closed or
\* opened again since this one ended.
AfterConnect ==
  CASE sock = "closed" -> << "reconnect" >>
    [] sock # "closed" /\ ~ Head(ready).ok -> << "error", "reconnect" >>
    [] sock # "closed" /\ Head(ready).ok -> << "cancel", "connected", "read" >>

OnConnect ==
  /\ Runs("connect")
  /\ ready' = Tail(ready)
  /\ Call("io", AfterConnect)
  /\ UNCHANGED << phase, connected, buffered, sock, reads, waits, due, server, counters >>

\* Mutant of OnRead: a connection that ends is not replaced.
OnReadGivesUp ==
  /\ Runs("read")
  /\ ready' = Tail(ready)
  /\ Call("io", IF Head(ready).ok THEN << "read" >> ELSE << "error" >>)
  /\ UNCHANGED << phase, connected, buffered, sock, reads, waits, due, server, counters >>

\* The handlers of DoReadHeader and DoReadPayload: a message was read and the next one is
\* awaited, or the connection has ended.
OnRead ==
  /\ Runs("read")
  /\ ready' = Tail(ready)
  /\ Call("io", IF Head(ready).ok THEN << "read" >> ELSE Recover)
  /\ UNCHANGED << phase, connected, buffered, sock, reads, waits, due, server, counters >>

-----------------------------------------------------------------------------
(* The program.                                                            *)

\* Connect waits for the first attempt to end, then starts the io thread.
Connect ==
  /\ phase = "off"
  /\ phase' = "running"
  /\ IF server
       THEN sock' = "up" /\ Call("io", << "connected", "read" >>)
       ELSE sock' = "open" /\ Call("io", << "reconnect", "timer" >>)
  /\ UNCHANGED << connected, buffered, reads, waits, due, ready, server, counters >>

\* The server's name cannot be resolved: Connect catches the exception and returns.
ConnectThrows ==
  /\ phase = "off"
  /\ phase' = "failed"
  /\ UNCHANGED << connected, buffered, sock, reads, waits, due, ready, todo, server, counters >>

\* Disconnect stops the io thread between two handlers; the socket stays as it is.
Disconnect ==
  /\ phase = "running"
  /\ Free("io")
  /\ phase' = "stopped"
  /\ UNCHANGED << connected, buffered, sock, reads, waits, due, ready, todo, server, counters >>

SetBuffered ==
  /\ buffered' = ~buffered
  /\ UNCHANGED << phase, connected, sock, reads, waits, due, ready, todo, server, counters >>

\* Mutant of Write: asks about the connection and about memory apart from each other, so
\* that a message is kept twice when both want it.
WriteKeepsTwice(t) ==
  /\ Free(t)
  /\ writes < MaxWrites
  /\ writes' = writes + 1
  /\ kept' = kept + (IF connected THEN 0 ELSE 1) + (IF buffered THEN 1 ELSE 0)
  /\ IF connected /\ ~buffered THEN Call(t, << "write" >>) ELSE UNCHANGED todo
  /\ UNCHANGED << phase, connected, buffered, sock, reads, waits, due, ready, server, downs,
                  expiries, extra >>

\* A thread logs a message: to the socket, or into memory, from where nothing takes it.
Write(t) ==
  /\ Free(t)
  /\ writes < MaxWrites
  /\ writes' = writes + 1
  /\ IF connected /\ ~buffered
       THEN Call(t, << "write" >>) /\ UNCHANGED kept
       ELSE kept' = kept + 1 /\ UNCHANGED todo
  /\ UNCHANGED << phase, connected, buffered, sock, reads, waits, due, ready, server, downs,
                  expiries, extra >>

\* The system takes the message; if the server has gone, it may still do so.
WriteSucceeds(t) ==
  /\ At(t, "write")
  /\ sock \in {"up", "lost"}
  /\ Continue(t)
  /\ UNCHANGED << phase, connected, buffered, sock, reads, waits, due, ready, server, counters >>

WriteFails(t) ==
  /\ At(t, "write")
  /\ sock # "up"
  /\ Call(t, Recover)
  /\ extra' = extra + 1
  /\ UNCHANGED << phase, connected, buffered, sock, reads, waits, due, ready, server, kept,
                  writes, downs, expiries >>

Environment == ServerLeaves \/ ServerReturns \/ TimePasses
Completion == ConnectEnds \/ ReadEnds \/ WaitEnds
IoThread == OnClientTimer \/ OnConnect \/ OnRead
Program ==
  \/ Connect
  \/ ConnectThrows
  \/ Disconnect
  \/ SetBuffered
  \/ \E t \in Threads : Write(t) \/ WriteSucceeds(t) \/ WriteFails(t)

Next ==
  \/ Environment
  \/ Completion
  \/ IoThread
  \/ Program
  \/ \E a \in Actors : Step(a)

Spec == Init /\ [][Next]_vars

\* Threads go on, handlers run, and connects and broken reads end.
Fairness ==
  /\ WF_vars(IoThread)
  /\ WF_vars(ConnectEnds)
  /\ WF_vars(sock = "lost" /\ ReadEnds)
  /\ WF_vars(WaitEnds)
  /\ \A a \in Actors : WF_vars(Step(a))
  /\ \A t \in Threads : WF_vars(WriteSucceeds(t) \/ WriteFails(t))

FairSpec == Spec /\ Fairness
-----------------------------------------------------------------------------
(* Properties.                                                             *)

Steps == {"close", "error", "reconnect", "timer", "cancel", "connected", "read", "write"}

\* Type invariant; no message is kept in memory twice.
TypeOK ==
  /\ phase \in {"off", "running", "stopped", "failed"}
  /\ connected \in BOOLEAN
  /\ buffered \in BOOLEAN
  /\ sock \in {"closed", "connecting", "open", "up", "lost"}
  /\ reads \in Nat
  /\ waits \in Nat
  /\ due \in BOOLEAN
  /\ ready \in Seq([op : {"connect", "read", "wait"}, ok : BOOLEAN])
  /\ todo \in [Actors -> Seq(Steps)]
  /\ server \in BOOLEAN
  /\ kept \in 0 .. writes
  /\ writes \in 0 .. MaxWrites
  /\ downs \in 0 .. MaxDowns
  /\ expiries \in 0 .. MaxExpiries
  /\ extra \in Nat

\* How many times a step is still to be done, and how many handlers of a kind are due.
ToDo(step) == Cardinality({p \in Actors \X (1 .. 3) :
                             p[2] \in DOMAIN todo[p[1]] /\ todo[p[1]][p[2]] = step})
Due(op) == Cardinality({i \in DOMAIN ready : ready[i].op = op})

\* The efforts to be connected: each is a connect, or the read that will notice the end of
\* a connection, pending, ended or about to be started.
Efforts ==
  (IF sock = "connecting" THEN 1 ELSE 0) + reads + Due("connect") + Due("read")
    + ToDo("reconnect") + ToDo("read")

\* The client never gives up and never forgets an effort: as long as it runs there is one
\* effort to be connected, and one more for each time the timer or a failed write
\* started a reconnect.
EffortsCounted == phase = "running" => Efforts = 1 + extra

\* Nothing is left to do but what the network brings.
Quiet == ready = << >> /\ \A a \in Actors : Free(a)

\* When the client is quiet, it believes to be connected exactly when its socket is, and
\* then it reads: it neither keeps messages back from a live connection nor misses the
\* end of one, whatever the threads did to the socket meanwhile.
BeliefMatchesSocket ==
  phase = "running" /\ Quiet =>
    /\ connected <=> sock \in {"up", "lost"}
    /\ connected => reads > 0
    /\ ~connected => sock = "connecting"

\* If neither the timer nor a write ever starts a second effort, a client that runs is in
\* the end connected to a server that stays.
ReconnectsAlone ==
  <>[](server /\ phase = "running") /\ [](extra = 0) => <>[]connected

\* trace.h:243 says that TRACE_CONNECT "connects to server": a client that runs is connected
\* again and again while the server stays.
Reconnects ==
  <>[](server /\ phase = "running") => []<>connected
=============================================================================
