-------------------------- MODULE ConnectionsProofs --------------------------
(***************************************************************************)
(* Proofs about Connections, for every number of connections, programs,    *)
(* names and mixers and without the bounds mattering.                      *)
(***************************************************************************)
EXTENDS Connections, SequenceTheorems, TLAPS

\* What a program that has the mixer l will have when it has read all that is under way.
Known(k, l) == IF k.down = << >> THEN l ELSE k.down[Len(k.down)]

Joined(c, k, socks) == k.peer # None /\ socks[k.peer] = c

\* Until a connection has handled its program's configuration, it waits for it at the head
\* of what comes up; the mixer that it will adopt is the program's.
Waits(c, k, levels) ==
  k.name = c /\ App[k.peer] # None =>
    /\ k.up # << >>
    /\ Head(k.up) # "bad"
    /\ k.default /\ k.unsent = "no" => k.down = << >> /\ Head(k.up) = levels[k.peer]

\* Afterwards the program has the connection's mixer or is about to learn it.
Agrees(c, k, levels) ==
  k.name \in Apps /\ k.unsent = "no" => Known(k, levels[k.peer]) = k.mixer

Good(c, k, levels, socks) ==
  /\ k.name \in Apps \cup {c}
  /\ Joined(c, k, socks) =>
       k.name \in {c, App[k.peer]} /\ Waits(c, k, levels) /\ Agrees(c, k, levels)

\* Both ends of a socket know of each other until the program closes it.
PeersKnown == \A p \in Programs : at[p] # None => conn[at[p]].peer = p

AllGood == \A c \in live : Good(c, conn[c], level, at)

IInv == TypeOK /\ NamesUnique /\ PeersKnown /\ AllGood

-----------------------------------------------------------------------------
(* Lemmas about the operators.                                             *)

\* A new connection is one that is not in use.
LEMMA CreatedNew ==
  ASSUME CanCreate
  PROVE  Created \in Conns /\ Created \notin live /\ Created \notin Stacked
BY DEF CanCreate, Created

\* The values a deleted and a new connection have are connections.
LEMMA UnusedType == Unused \in Connection
BY ConnectionsAssumption DEF ConnectionsAssumption, Unused, Connection

LEMMA NewType ==
  ASSUME TypeOK, NEW c \in Conns, NEW p \in Programs \cup {None}, NEW s \in Seq(Frames)
  PROVE  /\ New(c, p, s) \in Connection
         /\ New(c, p, s).name = c /\ New(c, p, s).peer = p /\ New(c, p, s).up = s
         /\ New(c, p, s).down = << >> /\ New(c, p, s).unsent = "no"
BY ConnectionsAssumption DEF ConnectionsAssumption, New, Connection, TypeOK

\* Sending appends the mixer and changes nothing but that and the mark of what is unsent.
LEMMA SentType ==
  ASSUME NEW c \in Conns, NEW k \in Connection
  PROVE  /\ Sent(c, k) \in Connection
         /\ Sent(c, k).name = k.name /\ Sent(c, k).peer = k.peer
         /\ Sent(c, k).mixer = k.mixer /\ Sent(c, k).default = k.default
         /\ Sent(c, k).up = k.up /\ Sent(c, k).unsent = "no"
         /\ Sent(c, k).down = IF Joined(c, k, at) THEN Append(k.down, k.mixer) ELSE k.down
<1>1. k.down \in Seq(Mixers) /\ k.mixer \in Mixers
  BY DEF Connection
<1>2. Append(k.down, k.mixer) \in Seq(Mixers)
  BY <1>1
<1>3. QED
  BY <1>1, <1>2 DEF Sent, Connection, Joined

\* Loading a preset can change the mixer and clear its default mark.
LEMMA LoadedType ==
  ASSUME TypeOK, NEW k \in Connection
  PROVE  /\ Loaded(k) \in Connection
         /\ Loaded(k).name = k.name /\ Loaded(k).peer = k.peer
         /\ Loaded(k).up = k.up /\ Loaded(k).down = k.down /\ Loaded(k).unsent = k.unsent
         /\ Loaded(k).default => k.default
BY DEF Loaded, Connection, TypeOK

\* What the exchange of configurations makes of a connection k: either the program is told
\* the mixer, or the connection had its default mixer and has the program's now.
Exchanged(c, k, a, m, r) ==
  /\ r \in Connection
  /\ r.name = IF a = None THEN k.name ELSE a
  /\ r.peer = k.peer /\ r.up = k.up
  /\ \/ /\ r.unsent = "no"
        /\ r.down = IF Joined(c, k, at) THEN Append(k.down, r.mixer) ELSE k.down
     \/ k.default /\ r.mixer = m /\ r.down = k.down /\ r.unsent = k.unsent

\* The exchange, with whatever preset and buffering, does that.
LEMMA ConfiguredType ==
  ASSUME TypeOK, NEW c \in Conns, NEW k \in Connection, NEW a \in Apps \cup {None},
         NEW m \in Mixers, NEW r, \E differs \in BOOLEAN : r = Configured(c, k, a, m, differs)
  PROVE  Exchanged(c, k, a, m, r)
<1> DEFINE named == [k EXCEPT !.name = IF a = None THEN @ ELSE a]
           loaded == Loaded(named)
           adopted == [loaded EXCEPT !.mixer = IF loaded.default THEN m ELSE @]
<1>1. /\ named \in Connection /\ named.name = (IF a = None THEN k.name ELSE a)
      /\ named.peer = k.peer /\ named.up = k.up /\ named.down = k.down
      /\ named.unsent = k.unsent /\ named.default = k.default
  BY DEF Connection
<1>2. /\ loaded \in Connection /\ loaded.name = named.name /\ loaded.peer = k.peer
      /\ loaded.up = k.up /\ loaded.down = k.down /\ loaded.unsent = k.unsent
      /\ loaded.default => k.default
  <2> HIDE DEF named
  <2>1. QED
    BY <1>1, LoadedType
<1>3. /\ adopted \in Connection /\ adopted.name = loaded.name /\ adopted.peer = k.peer
      /\ adopted.up = k.up /\ adopted.down = k.down /\ adopted.unsent = k.unsent
      /\ adopted.default = loaded.default
      /\ loaded.default => adopted.mixer = m
  <2> HIDE DEF loaded
  <2>1. QED
    BY <1>2 DEF Connection
<1>4. PICK differs \in BOOLEAN : r = SentIf(Replies(adopted, differs), c, adopted)
  BY DEF Configured
<1> HIDE DEF adopted, loaded, named
<1>5. CASE Replies(adopted, differs)
  <2>1. r = Sent(c, adopted)
    BY <1>4, <1>5 DEF SentIf
  <2>2. Joined(c, adopted, at) = Joined(c, k, at)
    BY <1>3 DEF Joined
  <2>3. QED
    BY <1>1, <1>2, <1>3, <2>1, <2>2, SentType DEF Exchanged
<1>6. CASE ~ Replies(adopted, differs)
  <2>1. r = adopted
    BY <1>4, <1>6 DEF SentIf
  <2>2. adopted.default
    BY <1>6 DEF Replies
  <2>3. k.default /\ adopted.mixer = m
    BY <1>2, <1>3, <2>2, Zenon
  <2>4. /\ adopted \in Connection /\ adopted.name = (IF a = None THEN k.name ELSE a)
        /\ adopted.peer = k.peer /\ adopted.up = k.up /\ adopted.down = k.down
        /\ adopted.unsent = k.unsent
    BY <1>1, <1>2, <1>3
  <2>5. QED
    BY <2>1, <2>3, <2>4, Zenon DEF Exchanged
<1>7. QED
  BY <1>5, <1>6

\* What the user sends before the program's configuration is handled is marked if the
\* program's will be adopted.
LEMMA SentByUserType ==
  ASSUME NEW c \in Conns, NEW k \in Connection
  PROVE  LET r == SentByUser(c, k)
         IN  /\ r \in Connection
             /\ r.name = k.name /\ r.peer = k.peer /\ r.mixer = k.mixer
             /\ r.default = k.default /\ r.up = k.up
             /\ r.down = IF Joined(c, k, at) THEN Append(k.down, k.mixer) ELSE k.down
             /\ r.unsent = IF Unhandled(c) /\ k.default THEN "early" ELSE "no"
<1> DEFINE s == Sent(c, k)
<1>1. /\ s \in Connection /\ s.name = k.name /\ s.peer = k.peer /\ s.mixer = k.mixer
      /\ s.default = k.default /\ s.up = k.up /\ s.unsent = "no"
      /\ s.down = IF Joined(c, k, at) THEN Append(k.down, k.mixer) ELSE k.down
  BY SentType
<1> HIDE DEF s
<1>2. SentByUser(c, k) = IF Unhandled(c) /\ k.default THEN [s EXCEPT !.unsent = "early"] ELSE s
  BY DEF SentByUser, s
<1>3. QED
  BY <1>1, <1>2 DEF Connection

\* A connection keeps what it has when sockets are only closed and its program's mixer stays.
LEMMA GoodKept ==
  ASSUME NEW c, NEW k, NEW levels, NEW socks, NEW levels2, NEW socks2,
         Good(c, k, levels, socks),
         Joined(c, k, socks2) => Joined(c, k, socks) /\ levels2[k.peer] = levels[k.peer]
  PROVE  Good(c, k, levels2, socks2)
BY DEF Good, Waits, Agrees

\* Closing sockets joins nothing, and what is not deleted stays joined.
LEMMA ClosedSockets ==
  ASSUME TypeOK, NEW gone
  PROVE  /\ CloseSockets(gone) \in [Programs -> (live \ gone) \cup {None}]
         /\ \A p \in Programs : CloseSockets(gone)[p] # None =>
              CloseSockets(gone)[p] = at[p] /\ at[p] \notin gone
BY DEF CloseSockets, TypeOK

\* What has been sent last is what the program will have.
LEMMA KnownSent ==
  ASSUME NEW r, NEW l, NEW s \in Seq(Mixers), NEW m \in Mixers, r.down = Append(s, m)
  PROVE  Known(r, l) = m
<1>1. Append(s, m) # << >> /\ Len(Append(s, m)) = Len(s) + 1 /\ Append(s, m)[Len(s) + 1] = m
  BY AppendProperties
<1>2. QED
  BY <1>1 DEF Known

\* Reading a configuration does not change what the program will have in the end.
LEMMA KnownRead ==
  ASSUME NEW s \in Seq(Mixers), s # << >>
  PROVE  /\ Tail(s) = << >> => Head(s) = s[Len(s)]
         /\ Tail(s) # << >> => Tail(s)[Len(Tail(s))] = s[Len(s)]
<1>1. Len(s) \in Nat /\ Len(s) # 0 /\ Head(s) = s[1]
  BY EmptySeq, HeadTailProperties
<1>2. /\ Tail(s) \in Seq(Mixers) /\ Len(Tail(s)) = Len(s) - 1
      /\ \A i \in 1 .. Len(Tail(s)) : Tail(s)[i] = s[i + 1]
  BY HeadTailProperties
<1>3. Tail(s) = << >> => Len(s) = 1
  <2>1. Tail(s) = << >> => Len(Tail(s)) = 0
    BY EmptySeq, Zenon
  <2>2. QED
    BY <1>1, <1>2, <2>1
<1>4. Tail(s) # << >> => Len(Tail(s)) \in 1 .. Len(Tail(s))
  BY <1>1, <1>2, EmptySeq
<1>5. QED
  BY <1>1, <1>2, <1>3, <1>4

\* The step lemma: one connection changes or is new, some are deleted, sockets of others
\* are at most closed and only the program of the changed one gets another mixer.
LEMMA OneChanged ==
  ASSUME TypeOK, NamesUnique, PeersKnown, AllGood,
         NEW c \in Conns, NEW k, NEW others \in SUBSET (live \ {c}),
         live' = others \cup {c}, conn'[c] = k,
         \A d \in others : conn'[d] = conn[d] /\ conn[d].name # k.name,
         \A p \in Programs : at'[p] # None =>
           \/ at'[p] = c /\ k.peer = p
           \/ at'[p] = at[p] /\ at[p] \in others,
         \A p \in Programs : at[p] \in others => level'[p] = level[p],
         Good(c, k, level', at')
  PROVE  NamesUnique' /\ PeersKnown' /\ AllGood'
<1>1. NamesUnique'
  BY DEF NamesUnique
<1>2. PeersKnown'
  BY DEF PeersKnown
<1>3. AllGood'
  <2>1. SUFFICES ASSUME NEW d \in others
                 PROVE  Good(d, conn[d], level', at')
    BY <2>1 DEF AllGood
  <2>2. d \in Conns /\ d # None /\ conn[d].peer \in Programs \cup {None}
    BY ConnectionsAssumption DEF ConnectionsAssumption, TypeOK, Connection
  <2>3. Joined(d, conn[d], at') => Joined(d, conn[d], at) /\ level'[conn[d].peer] = level[conn[d].peer]
    BY <2>1, <2>2 DEF Joined
  <2>4. Good(d, conn[d], level, at)
    BY DEF AllGood
  <2>5. QED
    BY <2>3, <2>4, GoodKept
<1>4. QED
  BY <1>1, <1>2, <1>3

\* The other step lemma: connections are deleted and no more.
LEMMA OnlyDeleted ==
  ASSUME TypeOK, NamesUnique, PeersKnown, AllGood,
         live' \subseteq live,
         \A d \in live' : conn'[d] = conn[d],
         \A p \in Programs : at'[p] # None => at'[p] = at[p] /\ at[p] \in live',
         level' = level
  PROVE  NamesUnique' /\ PeersKnown' /\ AllGood'
<1>1. NamesUnique'
  BY DEF NamesUnique
<1>2. PeersKnown'
  BY DEF PeersKnown
<1>3. AllGood'
  <2>1. SUFFICES ASSUME NEW d \in live'
                 PROVE  Good(d, conn[d], level, at')
    BY <2>1 DEF AllGood
  <2>2. d \in Conns /\ d # None /\ conn[d].peer \in Programs \cup {None}
    BY ConnectionsAssumption DEF ConnectionsAssumption, TypeOK, Connection
  <2>3. Joined(d, conn[d], at') => Joined(d, conn[d], at)
    BY <2>2 DEF Joined
  <2>4. Good(d, conn[d], level, at)
    BY DEF AllGood
  <2>5. QED
    BY <2>3, <2>4, GoodKept
<1>4. QED
  BY <1>1, <1>2, <1>3

-----------------------------------------------------------------------------
(* The invariant is inductive: one lemma for every kind of step.           *)

\* What is typed about one connection.
LEMMA ConnType ==
  ASSUME TypeOK, NEW c \in Conns
  PROVE  /\ conn[c] \in Connection
         /\ conn[c].peer \in Programs \cup {None}
         /\ conn[c].name \in Conns \cup Apps \cup {None}
         /\ conn[c].mixer \in Mixers
         /\ conn[c].up \in Seq(Frames)
         /\ conn[c].down \in Seq(Mixers)
BY DEF TypeOK, Connection

\* The invariant holds initially, when nothing is connected.
LEMMA InitInv == Init => IInv
<1> SUFFICES ASSUME Init PROVE IInv
  OBVIOUS
<1>1. TypeOK
  <2>1. conn \in [Conns -> Connection]
    BY UnusedType DEF Init
  <2>2. stack \in Seq(Conns) /\ live \subseteq Conns /\ at \in [Programs -> live \cup {None}]
    BY EmptySeq DEF Init
  <2>3. connects \in 0 .. MaxConnects /\ acts \in 0 .. MaxActs /\ frames \in 0 .. MaxFrames
    BY ConnectionsAssumption DEF ConnectionsAssumption, Init
  <2>4. level \in [Programs -> Mixers]
    BY ConnectionsAssumption DEF ConnectionsAssumption, Init
  <2>5. QED
    BY <2>1, <2>2, <2>3, <2>4, Zenon DEF Init, TypeOK
<1>2. NamesUnique /\ PeersKnown /\ AllGood
  BY DEF Init, NamesUnique, PeersKnown, AllGood
<1>3. QED
  BY <1>1, <1>2 DEF IInv

\* A new connection waits for the configuration its program has sent.
LEMMA ConnectInv ==
  ASSUME IInv, NEW p \in Programs, Connect(p)
  PROVE  IInv'
<1> DEFINE c == Created
           sent == << level[p] >>
           k == New(c, p, sent)
<1>1. c \in Conns /\ c \notin live
  BY CreatedNew DEF Connect
<1>2. level[p] \in Mixers /\ sent \in Seq(Frames)
  BY DEF IInv, TypeOK, Frames
<1>3. /\ k \in Connection /\ k.name = c /\ k.peer = p /\ k.up = sent
      /\ k.down = << >> /\ k.unsent = "no"
  <2>1. TypeOK /\ p \in Programs \cup {None} /\ sent \in Seq(Frames) /\ c \in Conns
    BY <1>1, <1>2 DEF IInv
  <2> HIDE DEF c, sent
  <2>2. QED
    BY <2>1, NewType
<1>4. /\ conn' = [conn EXCEPT ![c] = k] /\ live' = live \cup {c}
      /\ at' = [at EXCEPT ![p] = c] /\ level' = level /\ at[p] = None
      /\ connects < MaxConnects /\ connects' = connects + 1
      /\ UNCHANGED << status, stack, closing, settings, acts, frames >>
  BY DEF Connect, CanCreate
<1> HIDE DEF c, k, sent
<1>5. TypeOK'
  <2>1. conn' \in [Conns -> Connection] /\ live' \subseteq Conns
    BY <1>1, <1>3, <1>4 DEF IInv, TypeOK
  <2>2. at' \in [Programs -> live' \cup {None}]
    BY <1>4 DEF IInv, TypeOK
  <2>3. connects' \in 0 .. MaxConnects
    BY <1>4, ConnectionsAssumption DEF ConnectionsAssumption, IInv, TypeOK
  <2>4. QED
    BY <1>4, <2>1, <2>2, <2>3 DEF IInv, TypeOK, settings
<1>6. conn'[c] = k /\ \A d \in live : conn'[d] = conn[d]
  BY <1>1, <1>4 DEF IInv, TypeOK
<1>7. /\ \A d \in live : conn[d].name # c
      /\ live \in SUBSET (live \ {c}) /\ live' = live \cup {c}
  BY <1>1, <1>4, ConnectionsAssumption DEF ConnectionsAssumption, IInv, AllGood, Good
<1>8. \A q \in Programs : at'[q] # None =>
        \/ at'[q] = c /\ k.peer = q
        \/ at'[q] = at[q] /\ at[q] \in live
  <2>1. at \in [Programs -> live \cup {None}]
    BY DEF IInv, TypeOK
  <2>2. QED
    BY <1>3, <1>4, <2>1
<1>9. Good(c, k, level, at')
  <2>1. Head(sent) = level[p] /\ sent # << >>
    BY DEF sent
  <2>2. Waits(c, k, level)
    BY <1>2, <1>3, <2>1, ConnectionsAssumption DEF ConnectionsAssumption, Waits
  <2>3. c \notin Apps
    BY <1>1, ConnectionsAssumption DEF ConnectionsAssumption
  <2>4. QED
    BY <1>3, <2>2, <2>3 DEF Good, Agrees
<1>10. NamesUnique' /\ PeersKnown' /\ AllGood'
  <2>1. /\ \A d \in live : conn'[d] = conn[d] /\ conn[d].name # k.name
        /\ \A q \in Programs : at[q] \in live => level'[q] = level[q]
        /\ Good(c, k, level', at')
    BY <1>3, <1>4, <1>6, <1>7, <1>9
  <2>2. TypeOK /\ NamesUnique /\ PeersKnown /\ AllGood
    BY DEF IInv
  <2>3. conn'[c] = k
    BY <1>6
  <2>4. QED
    BY <1>1, <1>7, <1>8, <2>1, <2>2, <2>3, OneChanged
<1>11. QED
  BY <1>5, <1>10 DEF IInv

\* The step lemma for steps that change one connection but not its name, and perhaps close
\* sockets.
LEMMA Edited ==
  ASSUME IInv, NEW c \in live, NEW k \in Connection,
         live' = live, conn' = [conn EXCEPT ![c] = k], k.name = conn[c].name,
         \A p \in Programs : at'[p] \in {at[p], None},
         \A p \in Programs : at'[p] = c => k.peer = p,
         \A p \in Programs : at[p] # c => level'[p] = level[p],
         Good(c, k, level', at')
  PROVE  conn' \in [Conns -> Connection] /\ NamesUnique' /\ PeersKnown' /\ AllGood'
<1>1. c \in Conns /\ conn \in [Conns -> Connection] /\ live \subseteq Conns
  BY DEF IInv, TypeOK
<1>2. conn' \in [Conns -> Connection]
  BY <1>1
<1> DEFINE others == live \ {c}
<1>3. others \in SUBSET (live \ {c}) /\ live' = others \cup {c} /\ conn'[c] = k
  BY <1>1
<1>4. \A d \in others : conn'[d] = conn[d] /\ conn[d].name # k.name
  <2>1. \A d \in others : d \in Conns /\ d \in live /\ d # c
    BY <1>1
  <2>2. \A d \in others : conn[d].name # conn[c].name
    BY <2>1 DEF IInv, NamesUnique
  <2>3. QED
    BY <1>1, <2>1, <2>2
<1>5. \A p \in Programs : at'[p] # None =>
        \/ at'[p] = c /\ k.peer = p
        \/ at'[p] = at[p] /\ at[p] \in others
  BY DEF IInv, TypeOK
<1>6. \A p \in Programs : at[p] \in others => level'[p] = level[p]
  OBVIOUS
<1>7. TypeOK /\ NamesUnique /\ PeersKnown /\ AllGood
  BY DEF IInv
<1> HIDE DEF others
<1>8. NamesUnique' /\ PeersKnown' /\ AllGood'
  BY <1>1, <1>3, <1>4, <1>5, <1>6, <1>7, OneChanged
<1>9. QED
  BY <1>2, <1>8

\* A program's socket leads to a connection in the list, which knows the program.
LEMMA SocketEnds ==
  ASSUME IInv, NEW p \in Programs, at[p] # None
  PROVE  at[p] \in live /\ at[p] \in Conns /\ conn[at[p]].peer = p
BY DEF IInv, TypeOK, PeersKnown

\* What more a program sends comes after what it has sent.
LEMMA SendFrameInv ==
  ASSUME IInv, NEW p \in Programs, NEW f \in Frames, SendFrame(p, f)
  PROVE  IInv'
<1> DEFINE c == at[p]
           sent == Append(conn[c].up, f)
           k == [conn[c] EXCEPT !.up = sent]
<1>1. c \in live /\ c \in Conns /\ conn[c].peer = p
  BY SocketEnds DEF SendFrame
<1>2. conn[c] \in Connection /\ conn[c].up \in Seq(Frames)
  BY <1>1, ConnType DEF IInv
<1>3. sent \in Seq(Frames) /\ sent # << >> /\ (conn[c].up # << >> => Head(sent) = Head(conn[c].up))
  <2> DEFINE s == conn[c].up
  <2>1. s \in Seq(Frames)
    BY <1>2
  <2> HIDE DEF s
  <2>2. Append(s, f) \in Seq(Frames) /\ Append(s, f) # << >>
    BY <2>1, AppendProperties
  <2>3. s # << >> => Head(Append(s, f)) = Head(s)
    BY <2>1
  <2>4. QED
    BY <2>2, <2>3 DEF s
<1>4. conn' = [conn EXCEPT ![c] = k]
  BY <1>1 DEF SendFrame, IInv, TypeOK
<1> HIDE DEF sent
<1>5. /\ k \in Connection /\ k.name = conn[c].name /\ k.peer = p /\ k.up = sent
      /\ k.down = conn[c].down /\ k.unsent = conn[c].unsent /\ k.default = conn[c].default
      /\ k.mixer = conn[c].mixer
  BY <1>1, <1>2, <1>3 DEF Connection
<1>6. /\ live' = live /\ at' = at /\ level' = level
      /\ frames < MaxFrames /\ frames' = frames + 1
      /\ UNCHANGED << status, stack, closing, settings, connects, acts >>
  BY DEF SendFrame, programs
<1> HIDE DEF c, k
<1>7. Good(c, conn[c], level, at)
  BY <1>1 DEF IInv, AllGood
<1>8. Good(c, k, level', at')
  BY <1>1, <1>3, <1>5, <1>6, <1>7 DEF Good, Joined, Waits, Agrees, Known
<1>9. conn' \in [Conns -> Connection] /\ NamesUnique' /\ PeersKnown' /\ AllGood'
  <2>1. \A q \in Programs : at'[q] = c => k.peer = q
    BY <1>1, <1>5, <1>6, SocketEnds, ConnectionsAssumption DEF ConnectionsAssumption
  <2>2. \A q \in Programs : at'[q] \in {at[q], None} /\ level'[q] = level[q]
    BY <1>6
  <2>3. QED
    BY <1>1, <1>4, <1>5, <1>6, <1>8, <2>1, <2>2, Edited
<1>10. TypeOK'
  <2>1. frames' \in 0 .. MaxFrames
    BY <1>6, ConnectionsAssumption DEF ConnectionsAssumption, IInv, TypeOK
  <2>2. QED
    BY <1>6, <1>9, <2>1 DEF IInv, TypeOK, settings
<1>11. QED
  BY <1>9, <1>10 DEF IInv

\* A frame that does not decode is not the configuration that is waited for.
LEMMA DecodeFailsInv ==
  ASSUME IInv, NEW c \in Conns, DecodeFails(c)
  PROVE  IInv'
<1> DEFINE rest == Tail(conn[c].up)
           k == [conn[c] EXCEPT !.up = rest]
<1>1. c \in live /\ conn[c].up # << >> /\ Head(conn[c].up) = "bad"
  BY DEF DecodeFails, CanRead
<1>2. conn[c] \in Connection /\ conn[c].up \in Seq(Frames)
  BY ConnType DEF IInv
<1>3. rest \in Seq(Frames)
  BY <1>1, <1>2, HeadTailProperties
<1>4. conn' = [conn EXCEPT ![c] = k]
  BY DEF DecodeFails, IInv, TypeOK
<1> HIDE DEF rest
<1>5. /\ k \in Connection /\ k.name = conn[c].name /\ k.peer = conn[c].peer
      /\ k.down = conn[c].down /\ k.unsent = conn[c].unsent /\ k.mixer = conn[c].mixer
  BY <1>2, <1>3 DEF Connection
<1>6. /\ live' = live /\ at' = at /\ level' = level /\ stack' = Append(stack, c)
      /\ UNCHANGED << status, closing, settings, counters >>
  BY DEF DecodeFails, programs
<1> HIDE DEF k
<1>7. Good(c, conn[c], level, at)
  BY <1>1 DEF IInv, AllGood
<1>8. Good(c, k, level', at')
  BY <1>1, <1>5, <1>6, <1>7 DEF Good, Joined, Waits, Agrees, Known
<1>9. conn' \in [Conns -> Connection] /\ NamesUnique' /\ PeersKnown' /\ AllGood'
  <2>1. \A q \in Programs : at'[q] = c => k.peer = q
    BY <1>1, <1>5, <1>6, SocketEnds, ConnectionsAssumption DEF ConnectionsAssumption
  <2>2. \A q \in Programs : at'[q] \in {at[q], None} /\ level'[q] = level[q]
    BY <1>6
  <2>3. QED
    BY <1>1, <1>4, <1>5, <1>6, <1>8, <2>1, <2>2, Edited
<1>10. TypeOK'
  <2>1. stack' \in Seq(Conns)
    BY <1>6, AppendProperties DEF IInv, TypeOK
  <2>2. QED
    BY <1>6, <1>9, <2>1 DEF IInv, TypeOK, settings, counters
<1>11. QED
  BY <1>9, <1>10 DEF IInv

\* A program that leaves is not at the other end any more, whatever it had still to read.
LEMMA LeaveInv ==
  ASSUME IInv, NEW p \in Programs, Leave(p)
  PROVE  IInv'
<1> DEFINE c == at[p]
           k == [conn[c] EXCEPT !.down = << >>]
<1>1. c \in live /\ c \in Conns /\ conn[c].peer = p
  BY SocketEnds DEF Leave
<1>2. conn[c] \in Connection
  BY <1>1, ConnType DEF IInv
<1>3. << >> \in Seq(Mixers)
  BY EmptySeq
<1>4. conn' = [conn EXCEPT ![c] = k]
  BY <1>1 DEF Leave, IInv, TypeOK
<1>5. k \in Connection /\ k.name = conn[c].name /\ k.peer = p
  BY <1>1, <1>2, <1>3 DEF Connection
<1>6. /\ live' = live /\ at' = [at EXCEPT ![p] = None] /\ level' = level
      /\ at \in [Programs -> live \cup {None}]
      /\ UNCHANGED << status, stack, closing, settings, counters >>
  BY DEF Leave, IInv, TypeOK
<1> HIDE DEF c, k
<1>7. Good(c, conn[c], level, at)
  BY <1>1 DEF IInv, AllGood
<1>8. ~ Joined(c, k, at')
  BY <1>1, <1>5, <1>6, ConnectionsAssumption DEF ConnectionsAssumption, Joined
<1>9. Good(c, k, level', at')
  BY <1>5, <1>7, <1>8 DEF Good
<1>10. conn' \in [Conns -> Connection] /\ NamesUnique' /\ PeersKnown' /\ AllGood'
  <2>1. \A q \in Programs : at'[q] = c => k.peer = q
    BY <1>1, <1>5, <1>6, SocketEnds, ConnectionsAssumption DEF ConnectionsAssumption
  <2>2. \A q \in Programs : at'[q] \in {at[q], None} /\ level'[q] = level[q]
    BY <1>6
  <2>3. QED
    BY <1>1, <1>4, <1>5, <1>6, <1>9, <2>1, <2>2, Edited
<1>11. TypeOK'
  <2>1. at' \in [Programs -> live' \cup {None}]
    BY <1>6
  <2>2. QED
    BY <1>6, <1>10, <2>1 DEF IInv, TypeOK, settings, counters
<1>12. QED
  BY <1>10, <1>11 DEF IInv

\* A program that reads a configuration comes to have what it was about to have.
LEMMA OnConnectionConfigCommandInv ==
  ASSUME IInv, NEW p \in Programs, OnConnectionConfigCommand(p)
  PROVE  IInv'
<1> DEFINE c == at[p]
           s == conn[c].down
           rest == Tail(s)
           k == [conn[c] EXCEPT !.down = rest]
<1>1. c \in live /\ c \in Conns /\ conn[c].peer = p /\ s # << >>
  BY SocketEnds DEF OnConnectionConfigCommand
<1>2. conn[c] \in Connection /\ s \in Seq(Mixers)
  BY <1>1, ConnType DEF IInv
<1>3. conn' = [conn EXCEPT ![c] = k]
  BY <1>1 DEF OnConnectionConfigCommand, IInv, TypeOK
<1>4. /\ live' = live /\ at' = at /\ level' = [level EXCEPT ![p] = Head(s)]
      /\ UNCHANGED << status, stack, closing, settings, counters >>
  BY DEF OnConnectionConfigCommand
<1>5. s = conn[c].down
  OBVIOUS
<1> HIDE DEF c, s
<1>6. rest \in Seq(Mixers) /\ Head(s) \in Mixers
  BY <1>1, <1>2, HeadTailProperties
<1>7. /\ rest = << >> => Head(s) = s[Len(s)]
      /\ rest # << >> => rest[Len(rest)] = s[Len(s)]
  BY <1>1, <1>2, KnownRead
<1> HIDE DEF rest
<1>8. /\ k \in Connection /\ k.name = conn[c].name /\ k.peer = p /\ k.up = conn[c].up
      /\ k.down = rest /\ k.unsent = conn[c].unsent /\ k.default = conn[c].default
      /\ k.mixer = conn[c].mixer
  BY <1>1, <1>2, <1>6 DEF Connection
<1> HIDE DEF k
<1>9. level \in [Programs -> Mixers] /\ level' \in [Programs -> Mixers] /\ level'[p] = Head(s)
  BY <1>4, <1>6 DEF IInv, TypeOK
<1>10. Good(c, k, level', at')
  <2>1. Good(c, conn[c], level, at)
    BY <1>1 DEF IInv, AllGood
  <2>2. Known(k, level'[p]) = Known(conn[c], level[p])
    BY <1>1, <1>5, <1>7, <1>8, <1>9 DEF Known
  <2>3. Joined(c, k, at') => Joined(c, conn[c], at)
    BY <1>1, <1>4, <1>8 DEF Joined
  <2>4. Waits(c, conn[c], level) => Waits(c, k, level')
    BY <1>1, <1>5, <1>8 DEF Waits
  <2>5. Agrees(c, conn[c], level) => Agrees(c, k, level')
    BY <1>1, <1>8, <2>2 DEF Agrees
  <2>6. QED
    BY <1>1, <1>8, <2>1, <2>3, <2>4, <2>5 DEF Good
<1>11. conn' \in [Conns -> Connection] /\ NamesUnique' /\ PeersKnown' /\ AllGood'
  <2>1. \A q \in Programs : at'[q] = c => k.peer = q
    BY <1>1, <1>4, <1>8, SocketEnds, ConnectionsAssumption DEF ConnectionsAssumption
  <2>2. \A q \in Programs : at'[q] \in {at[q], None}
    BY <1>4
  <2>3. \A q \in Programs : at[q] # c => level'[q] = level[q]
    BY <1>4, <1>9 DEF c
  <2>4. QED
    BY <1>1, <1>3, <1>4, <1>8, <1>10, <2>1, <2>2, <2>3, Edited
<1>12. TypeOK'
  BY <1>4, <1>9, <1>11 DEF IInv, TypeOK, settings, counters
<1>13. QED
  BY <1>11, <1>12 DEF IInv

\* A program that is gone is not joined.
LEMMA OnDisconnectedInv ==
  ASSUME IInv, NEW c \in Conns, OnDisconnected(c)
  PROVE  IInv'
<1> DEFINE marked == conn[c].marked \/ dumpMode
           k == [conn[c] EXCEPT !.peer = None, !.up = << >>, !.marked = marked]
<1>1. c \in live /\ conn[c].peer # None /\ at[conn[c].peer] # c
  BY DEF OnDisconnected, Linked
<1>2. conn[c] \in Connection /\ << >> \in Seq(Frames)
  BY ConnType, EmptySeq DEF IInv
<1>3. marked \in BOOLEAN
  BY Zenon
<1>4. conn' = [conn EXCEPT ![c] = k]
  BY DEF OnDisconnected, IInv, TypeOK
<1> HIDE DEF marked
<1>5. k \in Connection /\ k.name = conn[c].name /\ k.peer = None
  BY <1>2, <1>3 DEF Connection
<1>6. /\ live' = live /\ at' = at /\ level' = level /\ closing' = (closing \/ dumpMode)
      /\ UNCHANGED << status, stack, settings, counters >>
  BY DEF OnDisconnected, programs
<1> HIDE DEF k
<1>7. Good(c, k, level', at')
  <2>1. Good(c, conn[c], level, at)
    BY <1>1 DEF IInv, AllGood
  <2>2. QED
    BY <1>5, <2>1 DEF Good, Joined
<1>8. conn' \in [Conns -> Connection] /\ NamesUnique' /\ PeersKnown' /\ AllGood'
  <2>1. \A q \in Programs : at'[q] # c
    BY <1>1, <1>6, SocketEnds, ConnectionsAssumption DEF ConnectionsAssumption
  <2>2. \A q \in Programs : at'[q] \in {at[q], None} /\ level'[q] = level[q]
    BY <1>6
  <2>3. QED
    BY <1>1, <1>4, <1>5, <1>6, <1>7, <2>1, <2>2, Edited
<1>9. TypeOK'
  <2>1. closing' \in BOOLEAN
    BY <1>6, Zenon
  <2>2. QED
    BY <1>6, <1>8, <2>1 DEF IInv, TypeOK, settings, counters
<1>10. QED
  BY <1>8, <1>9 DEF IInv

\* Operations of the user keep within their bound.
LEMMA ActsType ==
  ASSUME IInv, Acts
  PROVE  acts' \in 0 .. MaxActs
BY ConnectionsAssumption DEF ConnectionsAssumption, Acts, IInv, TypeOK

\* The step lemma for operations of the user on the settings of one connection.
LEMMA SettingsEdited ==
  ASSUME IInv, NEW c \in live, NEW k \in Connection, Acts,
         conn' = [conn EXCEPT ![c] = k],
         k.name = conn[c].name, k.peer = conn[c].peer,
         Good(c, k, level, at),
         closing' \in BOOLEAN, saved' \in [Apps -> Mixers \cup {None}],
         UNCHANGED << status, live, stack, dumpMode, fresh, programs, connects, frames >>
  PROVE  IInv'
<1>1. live' = live /\ at' = at /\ level' = level
  BY DEF programs
<1>2. \A q \in Programs : at'[q] = c => k.peer = q
  BY <1>1, SocketEnds, ConnectionsAssumption DEF ConnectionsAssumption, IInv, TypeOK
<1>3. \A q \in Programs : at'[q] \in {at[q], None} /\ level'[q] = level[q]
  BY <1>1
<1>4. Good(c, k, level', at')
  BY <1>1
<1>5. conn' \in [Conns -> Connection] /\ NamesUnique' /\ PeersKnown' /\ AllGood'
  BY <1>1, <1>2, <1>3, <1>4, Edited
<1>6. acts' \in 0 .. MaxActs
  BY ActsType
<1>7. TypeOK'
  BY <1>1, <1>5, <1>6 DEF IInv, TypeOK
<1>8. QED
  BY <1>5, <1>7 DEF IInv

\* Marking a connection for closing leaves its settings alone.
LEMMA CloseActionInv ==
  ASSUME IInv, NEW c \in Conns, CloseAction(c)
  PROVE  IInv'
<1> DEFINE k == [conn[c] EXCEPT !.marked = TRUE]
<1>1. c \in live /\ conn[c] \in Connection
  BY ConnType DEF CloseAction, IInv
<1>2. conn' = [conn EXCEPT ![c] = k]
  BY DEF CloseAction
<1>3. /\ k \in Connection /\ k.name = conn[c].name /\ k.peer = conn[c].peer
      /\ k.up = conn[c].up /\ k.down = conn[c].down /\ k.unsent = conn[c].unsent
      /\ k.default = conn[c].default /\ k.mixer = conn[c].mixer
  BY <1>1 DEF Connection
<1> HIDE DEF k
<1>4. Good(c, k, level, at)
  <2>1. Good(c, conn[c], level, at)
    BY <1>1 DEF IInv, AllGood
  <2>2. QED
    BY <1>3, <2>1 DEF Good, Joined, Waits, Agrees, Known
<1>5. QED
  BY <1>1, <1>2, <1>3, <1>4, SettingsEdited DEF CloseAction, settings, IInv, TypeOK

\* What the user sends is what the program will have, or it is marked.
LEMMA SentByUserGood ==
  ASSUME IInv, NEW c \in live, NEW k \in Connection,
         k.name = conn[c].name, k.peer = conn[c].peer,
         k.up = conn[c].up, k.down = conn[c].down
  PROVE  LET r == SentByUser(c, k)
         IN  r \in Connection /\ r.name = k.name /\ r.peer = k.peer /\ Good(c, r, level, at)
<1> DEFINE r == SentByUser(c, k)
<1>1. c \in Conns
  BY DEF IInv, TypeOK
<1>2. /\ r \in Connection /\ r.name = k.name /\ r.peer = k.peer /\ r.mixer = k.mixer
      /\ r.default = k.default /\ r.up = k.up
      /\ r.down = IF Joined(c, k, at) THEN Append(k.down, k.mixer) ELSE k.down
      /\ r.unsent = IF Unhandled(c) /\ k.default THEN "early" ELSE "no"
  BY <1>1, SentByUserType
<1> HIDE DEF r
<1>3. Good(c, conn[c], level, at)
  BY DEF IInv, AllGood
<1>4. SUFFICES ASSUME Joined(c, r, at)
               PROVE  Waits(c, r, level) /\ Agrees(c, r, level)
  BY <1>2, <1>3 DEF Good, Joined, r
<1>5. Joined(c, k, at) /\ Joined(c, conn[c], at)
  BY <1>2, <1>4 DEF Joined
<1>6. Waits(c, r, level)
  <2>1. SUFFICES ASSUME r.name = c, App[r.peer] # None
                 PROVE  r.up # << >> /\ Head(r.up) # "bad" /\ ~ (r.default /\ r.unsent = "no")
    BY DEF Waits
  <2>2. r.up # << >> /\ Head(r.up) # "bad" /\ Unhandled(c)
    BY <1>2, <1>3, <1>5, <2>1 DEF Good, Waits, Unhandled
  <2>3. k.default => r.unsent = "early"
    BY <1>2, <2>2
  <2>4. QED
    BY <1>2, <2>2, <2>3
<1>7. Agrees(c, r, level)
  <2>1. k.down \in Seq(Mixers) /\ k.mixer \in Mixers
    BY DEF Connection
  <2>2. r.down = Append(k.down, k.mixer)
    BY <1>2, <1>5
  <2>3. Known(r, level[r.peer]) = k.mixer
    BY <2>1, <2>2, KnownSent
  <2>4. QED
    BY <1>2, <2>3 DEF Agrees
<1>8. QED
  BY <1>6, <1>7

\* The mixer window replaces the mixer and sends it.
LEMMA OnMixerAppliedInv ==
  ASSUME IInv, NEW c \in Conns, NEW m \in Mixers, OnMixerApplied(c, m)
  PROVE  IInv'
<1>1. c \in live /\ conn[c] \in Connection /\ conn[c].default \in BOOLEAN /\ fresh \in BOOLEAN
  BY ConnType DEF OnMixerApplied, IInv, TypeOK, Connection
<1>2. PICK d \in {conn[c].default, fresh} :
        conn' = [conn EXCEPT ![c] = SentByUser(c, [@ EXCEPT !.mixer = m, !.default = d])]
  BY DEF OnMixerApplied
<1> DEFINE k == [conn[c] EXCEPT !.mixer = m, !.default = d]
           r == SentByUser(c, k)
<1>3. conn' = [conn EXCEPT ![c] = r]
  BY <1>2
<1>4. d \in BOOLEAN
  BY <1>1, Zenon
<1>5. /\ k \in Connection /\ k.name = conn[c].name /\ k.peer = conn[c].peer
      /\ k.up = conn[c].up /\ k.down = conn[c].down
  BY <1>1, <1>4 DEF Connection
<1> HIDE DEF k
<1>6. r \in Connection /\ r.name = k.name /\ r.peer = k.peer /\ Good(c, r, level, at)
  BY <1>1, <1>5, SentByUserGood
<1> HIDE DEF r
<1>7. QED
  BY <1>1, <1>3, <1>5, <1>6, SettingsEdited DEF OnMixerApplied, settings, IInv, TypeOK

\* The check box for buffering sends the configuration with the mixer as it is.
LEMMA OnBufferingStateChangedInv ==
  ASSUME IInv, NEW c \in Conns, OnBufferingStateChanged(c)
  PROVE  IInv'
<1> DEFINE k == conn[c]
           r == SentByUser(c, k)
<1>1. c \in live /\ k \in Connection
  BY ConnType DEF OnBufferingStateChanged, IInv
<1>2. conn' = [conn EXCEPT ![c] = r]
  BY DEF OnBufferingStateChanged
<1>3. r \in Connection /\ r.name = k.name /\ r.peer = k.peer /\ Good(c, r, level, at)
  BY <1>1, SentByUserGood
<1> HIDE DEF r
<1>4. QED
  BY <1>1, <1>2, <1>3, SettingsEdited DEF OnBufferingStateChanged, settings, IInv, TypeOK

\* Saving a preset changes only whether the connection would adopt its program's mixer.
LEMMA OnPresetSaveInv ==
  ASSUME IInv, NEW c \in Conns, OnPresetSave(c)
  PROVE  IInv'
<1> DEFINE k == [conn[c] EXCEPT !.default = FALSE]
<1>1. c \in live /\ conn[c] \in Connection
  BY ConnType DEF OnPresetSave, IInv
<1>2. conn' = [conn EXCEPT ![c] = k]
  BY DEF OnPresetSave
<1>3. /\ k \in Connection /\ k.name = conn[c].name /\ k.peer = conn[c].peer
      /\ k.up = conn[c].up /\ k.down = conn[c].down /\ k.unsent = conn[c].unsent
      /\ ~ k.default /\ k.mixer = conn[c].mixer
  BY <1>1 DEF Connection
<1> HIDE DEF k
<1>4. Good(c, k, level, at)
  <2>1. Good(c, conn[c], level, at)
    BY <1>1 DEF IInv, AllGood
  <2>2. QED
    BY <1>3, <2>1 DEF Good, Joined, Waits, Agrees, Known
<1>5. saved' \in [Apps -> Mixers \cup {None}]
  BY <1>1 DEF OnPresetSave, Connection, IInv, TypeOK
<1>6. QED
  BY <1>1, <1>2, <1>3, <1>4, <1>5, SettingsEdited DEF OnPresetSave, IInv, TypeOK

\* A preset that changes the mixer is sent, or the connection is marked.
LEMMA OnPresetApplyInv ==
  ASSUME IInv, NEW c \in Conns, OnPresetApply(c)
  PROVE  IInv'
<1> DEFINE l == Loaded(conn[c])
           u == IF l.mixer = conn[c].mixer THEN l.unsent ELSE "preset"
           k == [l EXCEPT !.unsent = u]
<1>1. /\ c \in live /\ conn[c] \in Connection /\ conn[c].name \in Apps /\ c \notin Apps
  BY ConnType, ConnectionsAssumption DEF ConnectionsAssumption, OnPresetApply, IInv
<1>2. PICK sends \in BOOLEAN : conn' = [conn EXCEPT ![c] = SentIf(sends, c, k)]
  BY DEF OnPresetApply
<1>3. /\ l \in Connection /\ l.name = conn[c].name /\ l.peer = conn[c].peer
      /\ l.down = conn[c].down /\ l.unsent = conn[c].unsent
  BY <1>1, LoadedType DEF IInv
<1> HIDE DEF l
<1>4. u \in {"no", "early", "preset"} /\ (u = "no" => l.mixer = conn[c].mixer /\ conn[c].unsent = "no")
  BY <1>3 DEF Connection
<1> HIDE DEF u
<1>5. /\ k \in Connection /\ k.name = conn[c].name /\ k.peer = conn[c].peer
      /\ k.down = conn[c].down /\ k.unsent = u /\ k.mixer = l.mixer
      /\ k.down \in Seq(Mixers) /\ k.mixer \in Mixers
  BY <1>3, <1>4 DEF Connection
<1> DEFINE r == SentIf(sends, c, k)
<1>6. Good(c, conn[c], level, at)
  BY <1>1 DEF IInv, AllGood
<1>7. CASE sends
  <2>1. /\ r \in Connection /\ r.name = k.name /\ r.peer = k.peer /\ r.mixer = k.mixer
        /\ r.unsent = "no"
        /\ r.down = IF Joined(c, k, at) THEN Append(k.down, k.mixer) ELSE k.down
    <3> HIDE DEF k
    <3>1. r = Sent(c, k)
      BY <1>7 DEF SentIf
    <3>2. QED
      BY <1>5, <3>1, SentType
  <2> HIDE DEF r, k
  <2>2. Joined(c, r, at) => Known(r, level[r.peer]) = r.mixer
    <3>1. SUFFICES ASSUME Joined(c, r, at) PROVE Known(r, level[r.peer]) = r.mixer
      OBVIOUS
    <3>2. r.down = Append(k.down, k.mixer)
      BY <2>1, <3>1 DEF Joined
    <3>3. k.down \in Seq(Mixers) /\ k.mixer \in Mixers /\ r.mixer = k.mixer
      BY <1>5, <2>1
    <3>4. Known(r, level[r.peer]) = k.mixer
      BY <3>2, <3>3, KnownSent
    <3>5. QED
      BY <3>3, <3>4
  <2>3. Good(c, r, level, at)
    BY <1>1, <1>5, <1>6, <2>1, <2>2 DEF Good, Joined, Waits, Agrees
  <2>4. QED
    BY <1>1, <1>2, <1>5, <2>1, <2>3, SettingsEdited DEF OnPresetApply, settings, IInv, TypeOK, r
<1>8. CASE ~ sends
  <2>1. r = k
    BY <1>8 DEF SentIf
  <2> HIDE DEF k
  <2>2. Good(c, k, level, at)
    BY <1>1, <1>4, <1>5, <1>6 DEF Good, Joined, Waits, Agrees, Known
  <2>3. QED
    BY <1>1, <1>2, <1>5, <2>1, <2>2, SettingsEdited DEF OnPresetApply, settings, IInv, TypeOK
<1>9. QED
  BY <1>7, <1>8

\* The step lemma for deleting connections: their programs lose their sockets.
LEMMA Deleted ==
  ASSUME IInv, NEW gone \in SUBSET live,
         live' = live \ gone, at' = CloseSockets(gone), level' = level,
         \A d \in live \ gone : conn'[d] = conn[d]
  PROVE  /\ live' \subseteq Conns /\ at' \in [Programs -> live' \cup {None}]
         /\ NamesUnique' /\ PeersKnown' /\ AllGood'
<1>1. live' \subseteq Conns /\ at' \in [Programs -> live' \cup {None}]
  BY ClosedSockets DEF IInv, TypeOK
<1>2. \A p \in Programs : at'[p] # None => at'[p] = at[p] /\ at[p] \in live'
  BY ClosedSockets DEF IInv, TypeOK
<1>3. QED
  BY <1>1, <1>2, OnlyDeleted DEF IInv

\* Closing what is marked.
LEMMA OnCloseMarkedConnectionsInv ==
  ASSUME IInv, OnCloseMarkedConnections
  PROVE  IInv'
<1> DEFINE gone == Marked
<1>1. /\ gone \in SUBSET live /\ live' = live \ gone /\ at' = CloseSockets(gone)
      /\ level' = level /\ conn' = [d \in Conns |-> IF d \in gone THEN Unused ELSE conn[d]]
      /\ closing' = FALSE /\ UNCHANGED << status, stack, settings, counters >>
  BY DEF OnCloseMarkedConnections, Marked
<1> HIDE DEF gone
<1>2. conn' \in [Conns -> Connection] /\ \A d \in live \ gone : conn'[d] = conn[d]
  BY <1>1, UnusedType DEF IInv, TypeOK
<1>3. /\ live' \subseteq Conns /\ at' \in [Programs -> live' \cup {None}]
      /\ NamesUnique' /\ PeersKnown' /\ AllGood'
  BY <1>1, <1>2, Deleted
<1>4. TypeOK'
  BY <1>1, <1>2, <1>3 DEF IInv, TypeOK, settings, counters
<1>5. QED
  BY <1>3, <1>4 DEF IInv

\* Quitting closes everything.
LEMMA OnQuitInv ==
  ASSUME IInv, OnQuit
  PROVE  IInv'
<1>1. /\ live' = live \ live /\ at' = CloseSockets(live) /\ level' = level /\ status' = "quit"
      /\ conn' = [d \in Conns |-> Unused]
      /\ UNCHANGED << stack, closing, settings, connects, frames >>
  BY DEF OnQuit
<1>2. conn' \in [Conns -> Connection] /\ \A d \in live \ live : conn'[d] = conn[d]
  BY <1>1, UnusedType
<1>3. /\ live' \subseteq Conns /\ at' \in [Programs -> live' \cup {None}]
      /\ NamesUnique' /\ PeersKnown' /\ AllGood'
  BY <1>1, <1>2, Deleted
<1>4. acts' \in 0 .. MaxActs
  BY ActsType DEF OnQuit
<1>5. TypeOK'
  BY <1>1, <1>2, <1>3, <1>4 DEF IInv, TypeOK, settings
<1>6. QED
  BY <1>3, <1>5 DEF IInv

\* Boxes and the deletion of a connection by itself touch no other connection.
LEMMA NothingDeleted ==
  ASSUME IInv, UNCHANGED << live, conn, closing, settings, programs, counters >>,
         status' \in {"running", "quit", "crashed"}, stack' \in Seq(Conns)
  PROVE  IInv'
<1>1. live' = live /\ conn' = conn /\ at' = at /\ level' = level
  BY DEF programs
<1>2. NamesUnique' /\ PeersKnown' /\ AllGood'
  BY <1>1 DEF IInv, NamesUnique, PeersKnown, AllGood
<1>3. TypeOK'
  BY <1>1 DEF IInv, TypeOK, settings, counters
<1>4. QED
  BY <1>2, <1>3 DEF IInv

\* Closing the innermost box.
LEMMA CloseBoxInv ==
  ASSUME IInv, CloseBox
  PROVE  IInv'
<1>1. stack \in Seq(Conns) /\ stack # << >>
  BY DEF CloseBox, IInv, TypeOK
<1>2. Len(stack) \in Nat /\ Len(stack) - 1 \in 0 .. Len(stack)
  BY <1>1, EmptySeq
<1>3. SubSeq(stack, 1, Len(stack) - 1) \in Seq(Conns)
  BY <1>1, <1>2, SubSeqProperties
<1>4. QED
  BY <1>3, NothingDeleted DEF CloseBox

\* The exchange of configurations: the connection gets its program's name, no other has it
\* any more, and the program has or will have the connection's mixer.
LEMMA HandleConfigInv ==
  ASSUME IInv, NEW c \in Conns, HandleConfig(c)
  PROVE  IInv'
<1> DEFINE a == App[conn[c].peer]
           m == Head(conn[c].up)
           old == FindByName(a)
           up == Tail(conn[c].up)
           rest == [conn[c] EXCEPT !.up = up]
<1>1. /\ c \in live /\ conn[c] \in Connection /\ conn[c].peer \in Programs
      /\ conn[c].up \in Seq(Frames) /\ conn[c].up # << >> /\ m # "bad"
  BY ConnType DEF HandleConfig, CanRead, IInv
<1>2. m \in Mixers /\ up \in Seq(Frames)
  BY <1>1, HeadTailProperties DEF Frames
<1>3. a \in Apps \cup {None}
  BY <1>1, ConnectionsAssumption DEF ConnectionsAssumption
<1>4. PICK k : /\ conn' = Deleting(old, c, k)
               /\ \E differs \in BOOLEAN : k = Configured(c, rest, a, m, differs)
  BY DEF HandleConfig
<1> DEFINE others == live \ (old \cup {c})
<1>5. /\ c \notin old /\ live' = live \ old /\ at' = CloseSockets(old) /\ level' = level
      /\ conn' = [d \in Conns |-> IF d = c THEN k ELSE IF d \in old THEN Unused ELSE conn[d]]
      /\ UNCHANGED << status, stack, closing, settings, counters >>
  BY <1>4 DEF HandleConfig, Deleting
<1>6. \A d \in live : d \in old <=> a # None /\ conn[d].name = a
  BY DEF FindByName
<1> HIDE DEF old, up
<1>7. /\ rest \in Connection /\ rest.name = conn[c].name /\ rest.peer = conn[c].peer
      /\ rest.down = conn[c].down /\ rest.unsent = conn[c].unsent
      /\ rest.default = conn[c].default
  BY <1>1, <1>2 DEF Connection
<1> HIDE DEF rest
<1>8. /\ k \in Connection /\ k.name = (IF a = None THEN conn[c].name ELSE a)
      /\ k.peer = conn[c].peer
      /\ \/ /\ k.unsent = "no"
            /\ k.down = IF Joined(c, rest, at) THEN Append(rest.down, k.mixer) ELSE rest.down
         \/ rest.default /\ k.mixer = m /\ k.down = rest.down /\ k.unsent = rest.unsent
  <2>1. TypeOK
    BY DEF IInv
  <2> HIDE DEF a, m
  <2>2. Exchanged(c, rest, a, m, k)
    BY <1>2, <1>3, <1>4, <1>7, <2>1, ConfiguredType
  <2>3. QED
    BY <1>7, <2>2 DEF Exchanged
<1>9. Good(c, conn[c], level, at)
  BY <1>1 DEF IInv, AllGood
<1>10. Good(c, k, level', at')
  <2>1. c \notin Apps /\ c # None
    BY ConnectionsAssumption DEF ConnectionsAssumption
  <2>2. k.name \in Apps \cup {c}
    BY <1>3, <1>8, <1>9 DEF Good
  <2>3. SUFFICES ASSUME Joined(c, k, at')
                 PROVE  k.name \in {c, a} /\ Waits(c, k, level) /\ Agrees(c, k, level)
    BY <1>5, <1>8, <2>2 DEF Good
  <2>4. Joined(c, conn[c], at) /\ Joined(c, rest, at)
    <3>1. at'[conn[c].peer] = c
      BY <1>8, <2>3 DEF Joined
    <3>2. at[conn[c].peer] = c
      BY <1>1, <1>5, <2>1, <3>1, ClosedSockets DEF IInv
    <3>3. QED
      BY <1>1, <1>7, <3>2, ConnectionsAssumption DEF ConnectionsAssumption, Joined
  <2>5. conn[c].name = c
    <3>1. conn[c].name \in {c, a}
      BY <1>9, <2>4 DEF Good
    <3>2. conn[c].name # None
      BY <1>9, <2>1, ConnectionsAssumption DEF ConnectionsAssumption, Good
    <3>3. QED
      BY <1>1, <1>5, <1>6, <3>1, <3>2
  <2>6. k.name \in {c, a}
    BY <1>8, <2>5
  <2>7. Waits(c, k, level)
    BY <1>3, <1>8, <2>1, <2>5 DEF Waits
  <2>8. Agrees(c, k, level)
    <3>1. SUFFICES ASSUME k.name \in Apps, k.unsent = "no"
                   PROVE  Known(k, level[k.peer]) = k.mixer
      BY DEF Agrees
    <3>2. a # None
      BY <1>8, <2>1, <2>5, <3>1
    <3>3. Waits(c, conn[c], level)
      BY <1>9, <2>4 DEF Good
    <3>4. CASE k.down = Append(rest.down, k.mixer)
      <4>1. rest.down \in Seq(Mixers) /\ k.mixer \in Mixers
        BY <1>7, <1>8 DEF Connection
      <4>2. QED
        BY <3>4, <4>1, KnownSent
    <3>5. CASE rest.default /\ k.mixer = m /\ k.down = rest.down /\ k.unsent = rest.unsent
      <4>1. conn[c].default /\ conn[c].unsent = "no"
        BY <1>7, <3>1, <3>5
      <4>2. conn[c].down = << >> /\ m = level[conn[c].peer]
        BY <2>5, <3>2, <3>3, <4>1 DEF Waits
      <4>3. QED
        BY <1>7, <1>8, <3>5, <4>2 DEF Known
    <3>6. QED
      BY <1>8, <2>4, <3>4, <3>5
  <2>9. QED
    BY <2>6, <2>7, <2>8
<1>11. /\ c \notin others /\ others \in SUBSET (live \ {c}) /\ live' = others \cup {c}
  BY <1>1, <1>5
<1>12. conn'[c] = k /\ conn' \in [Conns -> Connection] /\ \A d \in others : conn'[d] = conn[d]
  BY <1>5, <1>8, UnusedType DEF IInv, TypeOK
<1>13. \A d \in others : conn[d].name # k.name
  <2>1. SUFFICES ASSUME NEW d \in others PROVE conn[d].name # k.name
    OBVIOUS
  <2>2. CASE a = None
    BY <1>1, <1>8, <2>2 DEF IInv, NamesUnique
  <2>3. CASE a # None
    BY <1>6, <1>8, <2>3
  <2>4. QED
    BY <2>2, <2>3
<1>14. \A p \in Programs : at'[p] # None =>
         \/ at'[p] = c /\ k.peer = p
         \/ at'[p] = at[p] /\ at[p] \in others
  <2>1. SUFFICES ASSUME NEW p \in Programs, at'[p] # None
                 PROVE  \/ at'[p] = c /\ k.peer = p
                        \/ at'[p] = at[p] /\ at[p] \in others
    OBVIOUS
  <2>2. at'[p] = at[p] /\ at[p] \notin old
    BY <1>5, <2>1, ClosedSockets DEF IInv
  <2>3. at[p] \in live /\ conn[at[p]].peer = p
    BY <2>1, <2>2, SocketEnds
  <2>4. QED
    BY <1>8, <2>2, <2>3
<1> HIDE DEF others
<1>15. NamesUnique' /\ PeersKnown' /\ AllGood'
  <2>1. /\ TypeOK /\ NamesUnique /\ PeersKnown /\ AllGood
        /\ conn'[c] = k
        /\ \A d \in others : conn'[d] = conn[d] /\ conn[d].name # k.name
        /\ \A p \in Programs : at[p] \in others => level'[p] = level[p]
    BY <1>5, <1>12, <1>13 DEF IInv
  <2>2. QED
    BY <1>10, <1>11, <1>14, <2>1, OneChanged
<1>16. TypeOK'
  <2>1. at' \in [Programs -> live' \cup {None}] /\ live' \subseteq Conns
    BY <1>5, ClosedSockets DEF IInv, TypeOK
  <2>2. QED
    BY <1>5, <1>12, <2>1 DEF IInv, TypeOK, settings, counters
<1>17. QED
  BY <1>15, <1>16 DEF IInv

\* What every import does: a connection without a program comes and may replace one.
ImportStep(c, k, old) ==
  /\ live' = (live \ old) \cup {c}
  /\ at' = CloseSockets(old)
  /\ level' = level
  /\ conn' = [d \in Conns |-> IF d = c THEN k ELSE IF d \in old THEN Unused ELSE conn[d]]
  /\ connects < MaxConnects
  /\ connects' = connects + 1
  /\ acts' \in 0 .. MaxActs
  /\ stack' \in Seq(Conns)
  /\ UNCHANGED << status, closing, settings, frames >>

\* The step lemma for imports.
LEMMA Imported ==
  ASSUME IInv, NEW c \in Conns, NEW k \in Connection, NEW old \in SUBSET live, c \notin live,
         k.name \in Apps \cup {c}, k.peer = None,
         \A d \in live \ old : conn[d].name # k.name,
         ImportStep(c, k, old)
  PROVE  IInv'
<1> DEFINE others == live \ old
<1>1. /\ others \in SUBSET (live \ {c}) /\ live' = others \cup {c}
      /\ live' \subseteq Conns /\ others \subseteq live'
  BY DEF ImportStep, IInv, TypeOK
<1>2. conn'[c] = k /\ conn' \in [Conns -> Connection] /\ \A d \in others : conn'[d] = conn[d]
  BY <1>1, UnusedType DEF ImportStep, IInv, TypeOK
<1>3. at' \in [Programs -> live' \cup {None}]
  BY <1>1, ClosedSockets DEF ImportStep, IInv
<1>4. \A p \in Programs : at'[p] # None =>
        \/ at'[p] = c /\ k.peer = p
        \/ at'[p] = at[p] /\ at[p] \in others
  BY ClosedSockets DEF ImportStep, IInv, TypeOK
<1>5. Good(c, k, level', at')
  BY DEF Good, Joined
<1> HIDE DEF others
<1>6. NamesUnique' /\ PeersKnown' /\ AllGood'
  <2>1. /\ TypeOK /\ NamesUnique /\ PeersKnown /\ AllGood
        /\ conn'[c] = k
        /\ \A d \in others : conn'[d] = conn[d] /\ conn[d].name # k.name
        /\ \A p \in Programs : at[p] \in others => level'[p] = level[p]
    BY <1>2 DEF ImportStep, IInv, others
  <2>2. QED
    BY <1>1, <1>4, <1>5, <2>1, OneChanged
<1>7. TypeOK'
  <2>1. connects' \in 0 .. MaxConnects
    BY ConnectionsAssumption DEF ConnectionsAssumption, ImportStep, IInv, TypeOK
  <2>2. QED
    BY <1>1, <1>2, <1>3, <2>1 DEF ImportStep, IInv, TypeOK, settings
<1>8. QED
  BY <1>6, <1>7 DEF IInv

\* Importing takes over like a program of that name would.
LEMMA ImportDataStreamInv ==
  ASSUME IInv, ImportDataStream
  PROVE  IInv'
<1> DEFINE c == Created
           nothing == << >>
           new == New(c, None, nothing)
<1>1. c \in Conns /\ c \notin live
  BY CreatedNew DEF ImportDataStream
<1>2. new \in Connection /\ new.name = c /\ new.peer = None
  <2>1. TypeOK /\ None \in Programs \cup {None} /\ nothing \in Seq(Frames)
    BY EmptySeq DEF IInv
  <2> HIDE DEF c, nothing
  <2>2. QED
    BY <1>1, <2>1, NewType
<1> HIDE DEF new
<1>3. PICK a \in Apps \cup {None}, m \in Mixers :
        /\ live' = (live \ FindByName(a)) \cup {c}
        /\ at' = CloseSockets(FindByName(a))
        /\ \E differs \in BOOLEAN :
             conn' = Deleting(FindByName(a), c, Configured(c, new, a, m, differs))
  BY DEF ImportDataStream, new
<1>4. PICK k : /\ conn' = Deleting(FindByName(a), c, k)
               /\ \E differs \in BOOLEAN : k = Configured(c, new, a, m, differs)
  BY <1>3
<1> DEFINE old == FindByName(a)
<1>5. /\ live' = (live \ old) \cup {c} /\ at' = CloseSockets(old) /\ level' = level
      /\ conn' = [d \in Conns |-> IF d = c THEN k ELSE IF d \in old THEN Unused ELSE conn[d]]
      /\ connects < MaxConnects /\ connects' = connects + 1
      /\ UNCHANGED << status, stack, closing, settings, frames >>
  BY <1>3, <1>4 DEF ImportDataStream, CanCreate, Deleting
<1>6. old \in SUBSET live /\ \A d \in live : d \in old <=> a # None /\ conn[d].name = a
  BY DEF FindByName
<1> HIDE DEF c, old
<1>7. k \in Connection /\ k.name = (IF a = None THEN c ELSE a) /\ k.peer = None
  <2>1. TypeOK
    BY DEF IInv
  <2>2. Exchanged(c, new, a, m, k)
    BY <1>1, <1>2, <1>4, <2>1, ConfiguredType
  <2>3. QED
    BY <1>2, <2>2 DEF Exchanged
<1>8. k.name \in Apps \cup {c}
  BY <1>7
<1>9. \A d \in live \ old : conn[d].name # k.name
  <2>1. \A d \in live : conn[d].name # c
    BY <1>1, ConnectionsAssumption DEF ConnectionsAssumption, IInv, AllGood, Good
  <2>2. QED
    BY <1>6, <1>7, <2>1
<1>10. acts' \in 0 .. MaxActs /\ stack' \in Seq(Conns)
  BY <1>5, ActsType DEF ImportDataStream, IInv, TypeOK
<1>11. ImportStep(c, k, old)
  BY <1>5, <1>10 DEF ImportStep
<1>12. QED
  BY <1>1, <1>6, <1>7, <1>8, <1>9, <1>11, Imported

\* An import that fails leaves a connection without a name.
LEMMA ImportFailsInv ==
  ASSUME IInv, ImportFails
  PROVE  IInv'
<1> DEFINE c == Created
           nothing == << >>
           k == New(c, None, nothing)
<1>1. c \in Conns /\ c \notin live
  BY CreatedNew DEF ImportFails
<1>2. k \in Connection /\ k.name = c /\ k.peer = None
  <2>1. TypeOK /\ None \in Programs \cup {None} /\ nothing \in Seq(Frames)
    BY EmptySeq DEF IInv
  <2> HIDE DEF c, nothing
  <2>2. QED
    BY <1>1, <2>1, NewType
<1>3. /\ live' = live \cup {c} /\ conn' = [conn EXCEPT ![c] = k] /\ at' = at /\ level' = level
      /\ connects < MaxConnects /\ connects' = connects + 1 /\ stack' = << c >>
      /\ UNCHANGED << status, closing, settings, frames >>
  BY DEF ImportFails, CanCreate, programs
<1> HIDE DEF c, k
<1> DEFINE old == {}
<1>4. /\ old \in SUBSET live /\ live' = (live \ old) \cup {c}
      /\ conn' = [d \in Conns |-> IF d = c THEN k ELSE IF d \in old THEN Unused ELSE conn[d]]
  BY <1>1, <1>3 DEF IInv, TypeOK
<1>5. at' = CloseSockets(old)
  BY <1>3 DEF CloseSockets, IInv, TypeOK
<1>6. \A d \in live \ old : conn[d].name # k.name
  BY <1>1, <1>2, ConnectionsAssumption DEF ConnectionsAssumption, IInv, AllGood, Good
<1>7. acts' \in 0 .. MaxActs /\ stack' \in Seq(Conns)
  BY <1>1, <1>3, ActsType DEF ImportFails
<1> HIDE DEF old
<1>8. ImportStep(c, k, old)
  BY <1>3, <1>4, <1>5, <1>7 DEF ImportStep
<1>9. QED
  BY <1>1, <1>2, <1>4, <1>6, <1>8, Imported

\* Every step preserves the invariant.
LEMMA NextInv ==
  ASSUME IInv, [Next]_vars
  PROVE  IInv'
<1>1. ASSUME NEW c \in Conns, HandleConfig(c) PROVE IInv'
  BY <1>1, HandleConfigInv
<1>2. ASSUME NEW c \in Conns, HandleConfigOnItself(c) PROVE IInv'
  BY <1>2, NothingDeleted DEF HandleConfigOnItself, IInv, TypeOK
<1>3. ASSUME NEW c \in Conns, DecodeFails(c) PROVE IInv'
  BY <1>3, DecodeFailsInv
<1>4. ASSUME NEW c \in Conns, OnDisconnected(c) PROVE IInv'
  BY <1>4, OnDisconnectedInv
<1>5. CASE OnCloseMarkedConnections
  BY <1>5, OnCloseMarkedConnectionsInv
<1>6. ASSUME NEW p \in Programs, Connect(p) PROVE IInv'
  BY <1>6, ConnectInv
<1>7. ASSUME NEW p \in Programs, ConnectedAgain(p) PROVE IInv'
  <2>1. level[p] \in Frames
    BY DEF Frames, IInv, TypeOK
  <2>2. QED
    BY <1>7, <2>1, SendFrameInv DEF ConnectedAgain
<1>8. ASSUME NEW p \in Programs, SendBad(p) PROVE IInv'
  BY <1>8, SendFrameInv DEF SendBad, Frames
<1>9. ASSUME NEW p \in Programs, Leave(p) PROVE IInv'
  BY <1>9, LeaveInv
<1>10. ASSUME NEW p \in Programs, OnConnectionConfigCommand(p) PROVE IInv'
  BY <1>10, OnConnectionConfigCommandInv
<1>11. CASE CloseBox
  BY <1>11, CloseBoxInv
<1>12. ASSUME NEW c \in Conns, CloseAction(c) PROVE IInv'
  BY <1>12, CloseActionInv
<1>13. ASSUME NEW c \in Conns, NEW m \in Mixers, OnMixerApplied(c, m) PROVE IInv'
  BY <1>13, OnMixerAppliedInv
<1>14. ASSUME NEW c \in Conns, OnBufferingStateChanged(c) PROVE IInv'
  BY <1>14, OnBufferingStateChangedInv
<1>15. ASSUME NEW c \in Conns, OnPresetApply(c) PROVE IInv'
  BY <1>15, OnPresetApplyInv
<1>16. ASSUME NEW c \in Conns, OnPresetSave(c) PROVE IInv'
  BY <1>16, OnPresetSaveInv
<1>17. CASE ImportDataStream
  BY <1>17, ImportDataStreamInv
<1>18. CASE ImportFails
  BY <1>18, ImportFailsInv
<1>19. CASE OnQuit
  BY <1>19, OnQuitInv
<1>20. CASE UNCHANGED vars
  BY <1>20, NothingDeleted DEF vars, IInv, TypeOK
<1>21. CASE Server
  BY <1>1, <1>2, <1>3, <1>4, <1>5, <1>21 DEF Server
<1>22. CASE Program
  BY <1>6, <1>7, <1>8, <1>9, <1>10, <1>22 DEF Program
<1>23. CASE User
  BY <1>11, <1>12, <1>13, <1>14, <1>15, <1>16, <1>17, <1>18, <1>19, <1>23 DEF User
<1>24. QED
  BY <1>20, <1>21, <1>22, <1>23 DEF Next

-----------------------------------------------------------------------------
(* The theorems.                                                           *)

\* The invariant holds in every state: a connection that has not handled its program's
\* configuration still waits for it, and one that has agrees with its program on the mixer,
\* counting what is under way.
THEOREM Invariance == Spec => []IInv
<1>1. Init => IInv
  BY InitInv
<1>2. IInv /\ [Next]_vars => IInv'
  BY NextInv
<1>3. QED
  BY <1>1, <1>2, PTL DEF Spec

\* The type invariant.
THEOREM TypeCorrect == Spec => []TypeOK
<1>1. IInv => TypeOK
  BY DEF IInv
<1>2. QED
  BY <1>1, Invariance, PTL

\* At most one connection has a program's name (Connection::handleConfigCommand deletes the
\* one that has it), so that findConnectionByName cannot find a wrong one.
THEOREM NamesOnce == Spec => []NamesUnique
<1>1. IInv => NamesUnique
  BY DEF IInv
<1>2. QED
  BY <1>1, Invariance, PTL

\* When no configuration is under way, the program's mixer is what the connection shows,
\* whoever adopted whose and whatever was sent meanwhile.
THEOREM MixersInStep == Spec => []MixersAgree
<1>1. IInv => MixersAgree
  <2>1. SUFFICES ASSUME IInv, NEW c \in live, Linked(c), conn[c].name \in Apps,
                        conn[c].down = << >>, conn[c].unsent = "no"
                 PROVE  level[conn[c].peer] = conn[c].mixer
    BY DEF MixersAgree
  <2>2. Agrees(c, conn[c], level)
    BY <2>1 DEF IInv, AllGood, Good, Joined, Linked
  <2>3. QED
    BY <2>1, <2>2 DEF Agrees, Known
<1>2. QED
  BY <1>1, Invariance, PTL
=============================================================================
