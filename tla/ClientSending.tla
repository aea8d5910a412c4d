--------------------------- MODULE ClientSending ---------------------------
(***************************************************************************)
(* How the messages of a traced program's threads get past the mixer and   *)
(* onto the socket: MixerConfig.h, AsioSocketClient::WriteMsg and Write,   *)
(* the configuration and dictionaries that OnConnectionEstablished sends   *)
(* and the configuration that comes back from the server.                  *)
(*                                                                         *)
(* Nothing in this part of the client takes a lock.  The user's threads    *)
(* and the thread of the io service read and write the mixer an element at *)
(* a time, and each runs asio::write on the one socket, which hands a      *)
(* frame to the system in several pieces.  Which effort opens the socket   *)
(* again after an error is the matter of AsioClient; here it may open      *)
(* whenever it is closed and some thread has noticed.                      *)
(***************************************************************************)
EXTENDS Integers, Sequences, FiniteSets

CONSTANTS
  Threads,  (* the threads that log                                         *)
  IO,       (* the thread of the io service                                 *)
  Bits,     (* number of contexts: the mixer has one element for each       *)
  Levels,   (* the levels, each a bit of a mixer's element                  *)
  Pieces,   (* in how many pieces the system takes a frame                  *)
  MaxCalls, (* bound: calls into the library                                *)
  MaxDrops, (* bound: connections that break                                *)
  MaxConfigs (* bound: configurations from the server                       *)

ASSUME SendingAssumption ==
  /\ IO \notin Threads /\ IsFiniteSet(Threads)
  /\ Bits \in Nat /\ Pieces \in Nat \ {0}
  /\ MaxCalls \in Nat /\ MaxDrops \in Nat /\ MaxConfigs \in Nat

VARIABLES
  mixer,     (* m_mixer: for each context the levels that are logged        *)
  connected, (* m_connected                                                 *)
  up,        (* the socket is open and connected                            *)
  wire,      (* the pieces sent on the connection there is now              *)
  pc,        (* what each thread of the user is doing                       *)
  ctx,       (* its argument context, as a set of bits                      *)
  lvl,       (* its argument level                                          *)
  todo,      (* the bits of ctx its loop has not come to                    *)
  tmp,       (* the element it has read and is about to write back          *)
  piece,     (* the pieces of its frame it, or the io thread, has sent      *)
  frames,    (* the frames it has begun; of the io thread, on a connection  *)
  io,        (* what the io thread is doing                                 *)
  cursor,    (* the elements of the mixer it has copied                     *)
  answer,    (* the mixer in the server's configuration                     *)
  on,        (* threads whose message the mixer let through at some moment  *)
             (* since its call                                              *)
  off,       (* those whose message it would have refused at some moment    *)
  taken,     (* those whose level was taken out of one of its contexts      *)
  crowded,   (* two threads were inside Write on this connection            *)
  calls, drops, configs

mixerVars == <<mixer, on, off, taken>>
callVars == <<ctx, lvl, todo, tmp, calls>>
wireVars == <<connected, up, wire, crowded, drops>>
sendVars == <<piece, frames>>
ioVars == <<io, cursor, answer, configs>>
vars == <<mixerVars, callVars, wireVars, sendVars, ioVars, pc>>

Contexts == 1 .. Bits

(* What OnConnectionEstablished sends: the configuration, the dictionary of *)
(* levels and that of contexts.                                             *)
Greeting == 3

Steps == {"idle", "refused", "filter", "send", "write", "set", "unset", "store", "clear"}

(* RuntimeFilterPredicate when nobody interferes *)
Passes(m, c, l) == \E b \in c : l \in m[b]

Filtering(t) == pc[t] = "filter"

(* The loop of t comes to bit b next. *)
IsNext(b, t) == b \in todo[t] /\ \A a \in todo[t] : b <= a

(* One store into the mixer, and what it means for the messages that are    *)
(* being judged                                                             *)
Store(b, s) ==
  /\ mixer' = [mixer EXCEPT ![b] = s]
  /\ on' = on \cup {t \in Threads : Filtering(t) /\ Passes(mixer', ctx[t], lvl[t])}
  /\ off' = off \cup {t \in Threads : Filtering(t) /\ ~ Passes(mixer', ctx[t], lvl[t])}
  /\ taken' = taken \cup {t \in Threads : Filtering(t) /\ b \in ctx[t]
                                          /\ lvl[t] \in mixer[b] \ s}

(* The threads inside asio::write, or on their way into it *)
Writers(p, i) == {t \in Threads : p[t] = "write"} \cup (IF i = "greet" THEN {IO} ELSE {})

Crowded(p, i) == \E s, t \in Writers(p, i) : s # t

(* One write_some of thread s, or the io thread, on a socket that is open *)
Put(s) == wire' = Append(wire, [from |-> s, frame |-> frames[s], piece |-> piece[s] + 1])

-----------------------------------------------------------------------------
Init ==
  /\ mixer \in [Contexts -> SUBSET Levels] (* MixerConfig() leaves it as it is *)
  /\ connected = FALSE /\ up = FALSE /\ wire = <<>>
  /\ pc = [t \in Threads |-> "idle"]
  /\ ctx = [t \in Threads |-> {}]
  /\ lvl \in [Threads -> Levels]
  /\ todo = [t \in Threads |-> {}]
  /\ tmp = [t \in Threads |-> {}]
  /\ piece = [t \in Threads \cup {IO} |-> 0]
  /\ frames = [t \in Threads \cup {IO} |-> 0]
  /\ io = "serve" /\ cursor = 0 /\ answer = mixer
  /\ on = {} /\ off = {} /\ taken = {} /\ crowded = FALSE
  /\ calls = 0 /\ drops = 0 /\ configs = 0

(* A thread that is outside the library calls into it. *)
Call(t, c, l, p) ==
  /\ pc[t] \in {"idle", "refused"} /\ calls < MaxCalls
  /\ calls' = calls + 1
  /\ pc' = [pc EXCEPT ![t] = p]
  /\ ctx' = [ctx EXCEPT ![t] = c]
  /\ lvl' = [lvl EXCEPT ![t] = l]
  /\ todo' = [todo EXCEPT ![t] = c]

(* It returns, and its locals are gone. *)
Return(t, p) ==
  /\ pc' = [pc EXCEPT ![t] = p]
  /\ ctx' = [ctx EXCEPT ![t] = {}]
  /\ todo' = [todo EXCEPT ![t] = {}]
  /\ tmp' = [tmp EXCEPT ![t] = {}]
  /\ UNCHANGED <<lvl, calls>>

(* WriteMsgVA_impl, Client::WriteMsg, AsioSocketClient::WriteMsg *)
WriteMsg(t, c, l) ==
  /\ Call(t, c, l, "filter")
  /\ on' = IF Passes(mixer, c, l) THEN on \cup {t} ELSE on \ {t}
  /\ off' = IF Passes(mixer, c, l) THEN off \ {t} ELSE off \cup {t}
  /\ taken' = taken \ {t}
  /\ UNCHANGED <<mixer, tmp, wireVars, sendVars, ioVars>>

(* Mutant of Test: only the lowest context of a message is asked. *)
TestLowest(t) ==
  /\ pc[t] = "filter"
  /\ \E b \in Contexts :
       /\ IsNext(b, t)
       /\ IF lvl[t] \in mixer[b]
          THEN pc' = [pc EXCEPT ![t] = "send"] /\ UNCHANGED todo
          ELSE todo' = [todo EXCEPT ![t] = {}] /\ UNCHANGED pc
  /\ UNCHANGED <<mixerVars, ctx, lvl, tmp, calls, wireVars, sendVars, ioVars>>

(* One turn of the loop of RuntimeFilterPredicate: the message goes on if    *)
(* the context has its level.                                                *)
Test(t) ==
  /\ pc[t] = "filter"
  /\ \E b \in Contexts :
       /\ IsNext(b, t)
       /\ IF lvl[t] \in mixer[b]
          THEN pc' = [pc EXCEPT ![t] = "send"] /\ UNCHANGED todo
          ELSE todo' = [todo EXCEPT ![t] = @ \ {b}] /\ UNCHANGED pc
  /\ UNCHANGED <<mixerVars, ctx, lvl, tmp, calls, wireVars, sendVars, ioVars>>

(* The loop is through: the message is not logged. *)
Refuse(t) ==
  /\ pc[t] = "filter" /\ todo[t] = {}
  /\ Return(t, "refused")
  /\ UNCHANGED <<mixerVars, wireVars, sendVars, ioVars>>

(* Write of an encoded message: without a connection it goes to the memory   *)
(* (ClientMemory), with one it is written to the socket.                     *)
Write(t) ==
  /\ pc[t] = "send"
  /\ IF connected
     THEN /\ pc' = [pc EXCEPT ![t] = "write"]
          /\ frames' = [frames EXCEPT ![t] = @ + 1]
          /\ piece' = [piece EXCEPT ![t] = 0]
          /\ UNCHANGED callVars
     ELSE Return(t, "idle") /\ UNCHANGED sendVars
  /\ crowded' = (crowded \/ Crowded(pc', io))
  /\ UNCHANGED <<mixerVars, connected, up, wire, drops, ioVars>>

(* Mutant of WriteSome: one write_some for a frame, which may take a part of it. *)
WriteSomeOnce(t) ==
  /\ pc[t] = "write" /\ up
  /\ Put(t)
  /\ piece' = [piece EXCEPT ![t] = @ + 1]
  /\ Return(t, "idle")
  /\ UNCHANGED <<mixerVars, connected, up, crowded, drops, frames, ioVars>>

(* asio::write goes on until the frame is out. *)
WriteSome(t) ==
  /\ pc[t] = "write" /\ up
  /\ Put(t)
  /\ piece' = [piece EXCEPT ![t] = @ + 1]
  /\ IF piece[t] + 1 = Pieces THEN Return(t, "idle") ELSE UNCHANGED <<pc, callVars>>
  /\ UNCHANGED <<mixerVars, connected, up, crowded, drops, frames, ioVars>>

(* asio::write fails: OnSocketError and StartReconnect in the thread that    *)
(* logs; what it has not sent of the message is lost.                        *)
WriteFails(t) ==
  /\ pc[t] = "write" /\ ~ up
  /\ Return(t, "idle")
  /\ connected' = FALSE
  /\ UNCHANGED <<mixerVars, up, wire, crowded, drops, sendVars, ioVars>>

(* SetRuntimeLevelForContext and UnsetRuntimeLevelForContext *)
Change(t, c, l, p) ==
  /\ Call(t, c, l, p)
  /\ UNCHANGED <<mixerVars, tmp, wireVars, sendVars, ioVars>>

(* An element is read, and written back with the level or without it.  The   *)
(* two are not one step: what another thread writes in between is lost.      *)
Read(t) ==
  /\ pc[t] \in {"set", "unset"}
  /\ \E b \in Contexts : IsNext(b, t) /\ tmp' = [tmp EXCEPT ![t] = mixer[b]]
  /\ pc' = [pc EXCEPT ![t] = IF pc[t] = "set" THEN "store" ELSE "clear"]
  /\ UNCHANGED <<mixerVars, ctx, lvl, todo, calls, wireVars, sendVars, ioVars>>

WriteBack(t) ==
  /\ pc[t] \in {"store", "clear"}
  /\ \E b \in Contexts :
       /\ IsNext(b, t)
       /\ Store(b, IF pc[t] = "store" THEN tmp[t] \cup {lvl[t]} ELSE tmp[t] \ {lvl[t]})
       /\ todo' = [todo EXCEPT ![t] = @ \ {b}]
  /\ pc' = [pc EXCEPT ![t] = IF pc[t] = "store" THEN "set" ELSE "unset"]
  /\ UNCHANGED <<ctx, lvl, tmp, calls, wireVars, sendVars, ioVars>>

Changed(t) ==
  /\ pc[t] \in {"set", "unset"} /\ todo[t] = {}
  /\ Return(t, "idle")
  /\ UNCHANGED <<mixerVars, wireVars, sendVars, ioVars>>

-----------------------------------------------------------------------------
(* The connection and the io thread *)

(* The connection is gone, for whatever reason. *)
Drop ==
  /\ up /\ drops < MaxDrops
  /\ up' = FALSE
  /\ drops' = drops + 1
  /\ UNCHANGED <<mixerVars, callVars, connected, wire, crowded, sendVars, ioVars, pc>>

(* The reader's handler finds out: OnSocketError and StartReconnect. *)
ReadFails ==
  /\ io = "serve" /\ ~ up /\ connected
  /\ connected' = FALSE
  /\ UNCHANGED <<mixerVars, callVars, up, wire, crowded, drops, sendVars, ioVars, pc>>

(* A connect that an error started succeeds in the system.  Whoever is still *)
(* in the middle of a frame goes on with it on the new connection.           *)
Establish ==
  /\ ~ up /\ ~ connected
  /\ up' = TRUE
  /\ wire' = <<>>
  /\ crowded' = (Writers(pc, io) # {})
  /\ UNCHANGED <<mixerVars, callVars, connected, drops, sendVars, ioVars, pc>>

(* OnConnected: other threads see m_connected before the configuration and   *)
(* the dictionaries are sent.                                                *)
OnConnected ==
  /\ io = "serve" /\ up /\ ~ connected
  /\ connected' = TRUE
  /\ io' = "greet"
  /\ frames' = [frames EXCEPT ![IO] = 1]
  /\ piece' = [piece EXCEPT ![IO] = 0]
  /\ crowded' = (crowded \/ Crowded(pc, io'))
  /\ UNCHANGED <<mixerVars, callVars, up, wire, drops, cursor, answer, configs, pc>>

(* OnConnectionEstablished and SendDictionary, a piece at a time; a frame    *)
(* ends with its last piece or with an error, which nobody looks at.         *)
Greet ==
  /\ io = "greet"
  /\ IF up THEN Put(IO) ELSE UNCHANGED wire
  /\ IF up /\ piece[IO] + 1 < Pieces
     THEN piece' = [piece EXCEPT ![IO] = @ + 1] /\ UNCHANGED <<frames, io>>
     ELSE /\ piece' = [piece EXCEPT ![IO] = 0]
          /\ IF frames[IO] < Greeting
             THEN frames' = [frames EXCEPT ![IO] = @ + 1] /\ UNCHANGED io
             ELSE io' = "serve" /\ UNCHANGED frames
  /\ UNCHANGED <<mixerVars, callVars, connected, up, crowded, drops, cursor, answer, configs, pc>>

(* DoReadPayload has read and decoded a configuration of the server. *)
ServerConfig ==
  /\ io = "serve" /\ connected /\ configs < MaxConfigs
  /\ configs' = configs + 1
  /\ answer' \in [Contexts -> SUBSET Levels]
  /\ io' = "copy" /\ cursor' = 0
  /\ UNCHANGED <<mixerVars, callVars, wireVars, sendVars, pc>>

(* OnConnectionConfigCommand copies its levels one after the other. *)
Copy ==
  /\ io = "copy"
  /\ IF cursor < Bits
     THEN /\ Store(cursor + 1, answer[cursor + 1])
          /\ cursor' = cursor + 1
          /\ UNCHANGED io
     ELSE io' = "serve" /\ UNCHANGED <<mixerVars, cursor>>
  /\ UNCHANGED <<callVars, wireVars, sendVars, answer, configs, pc>>

Next ==
  \/ \E t \in Threads :
       \/ \E c \in SUBSET Contexts \ {{}}, l \in Levels :
            \/ WriteMsg(t, c, l)
            \/ Change(t, c, l, "set")
            \/ Change(t, c, l, "unset")
       \/ Test(t) \/ Refuse(t) \/ Write(t) \/ WriteSome(t) \/ WriteFails(t)
       \/ Read(t) \/ WriteBack(t) \/ Changed(t)
  \/ Drop \/ ReadFails \/ Establish \/ OnConnected \/ Greet \/ ServerConfig \/ Copy

Spec == Init /\ [][Next]_vars

-----------------------------------------------------------------------------
(* Properties *)

MixerTypeOK ==
  /\ mixer \in [Contexts -> SUBSET Levels] /\ answer \in [Contexts -> SUBSET Levels]
  /\ pc \in [Threads -> Steps] /\ lvl \in [Threads -> Levels]
  /\ ctx \in [Threads -> SUBSET Contexts] /\ todo \in [Threads -> SUBSET Contexts]
  /\ tmp \in [Threads -> SUBSET Levels]
  /\ on \subseteq Threads /\ off \subseteq Threads /\ taken \subseteq Threads

WireTypeOK ==
  /\ wire \in Seq([from : Threads \cup {IO}, frame : Nat, piece : Nat])
  /\ piece \in [Threads \cup {IO} -> Nat] /\ frames \in [Threads \cup {IO} -> Nat]
  /\ io \in {"serve", "greet", "copy"}

FlagsTypeOK == connected \in BOOLEAN /\ up \in BOOLEAN /\ crowded \in BOOLEAN

BoundsOK ==
  /\ cursor \in 0 .. Bits
  /\ calls \in 0 .. MaxCalls /\ drops \in 0 .. MaxDrops /\ configs \in 0 .. MaxConfigs

TypeOK == MixerTypeOK /\ WireTypeOK /\ FlagsTypeOK /\ BoundsOK

(* The mixer "decides if message will be logged or not" (MixerConfig.h) while *)
(* others change it: a message that goes on was let through by the mixer as   *)
(* it stood at some moment of the call, and one that was refused was not let  *)
(* through at some moment, or its level was taken out of one of its contexts  *)
(* meanwhile.                                                                 *)
VerdictFair ==
  \A t \in Threads :
    /\ pc[t] \in {"send", "write"} => t \in on
    /\ pc[t] = "refused" => t \in off \cup taken

(* The pieces p and q belong to one thread, and q comes after p. *)
Later(p, q) == p.frame < q.frame \/ (p.frame = q.frame /\ p.piece < q.piece)

(* No frame is cut by another and the configuration comes first. *)
WholeFrames(w) ==
  \A i \in DOMAIN w :
    IF i = 1 THEN w[i] = [from |-> IO, frame |-> 1, piece |-> 1]
    ELSE IF w[i].piece = 1
         THEN w[i - 1].piece = Pieces
         ELSE /\ w[i].from = w[i - 1].from /\ w[i].frame = w[i - 1].frame
              /\ w[i].piece = w[i - 1].piece + 1

(* What the server gets on a connection: what one thread sent is in order and *)
(* nothing of it is there twice, and the frames are whole, the configuration  *)
(* first, as long as no thread was in the middle of a frame when the socket   *)
(* was opened and no two were inside Write at once (the comment "MT safe      *)
(* (maybe)" of SyncWriteToSocket).                                            *)
WireWhole ==
  /\ \A i, j \in DOMAIN wire :
       i < j /\ wire[i].from = wire[j].from /\ wire[i].from \in Threads
       => Later(wire[i], wire[j])
  /\ ~ crowded => WholeFrames(wire)
=============================================================================
