---------------------------- MODULE StreamDecoder ----------------------------
(***************************************************************************)
(* Connection::processStream (trace_server/connection_stream.cpp) with the *)
(* decoding context it fills (trace_proto/decoder.h), the arena its ASN.1  *)
(* decoder allocates from (include/membuffer.h) and the command queue of   *)
(* the log widget it feeds (widgets/logs/logwidget.cpp).                   *)
(*                                                                         *)
(* A client writes frames, a header of Hdr bytes that announces a payload  *)
(* of len bytes, back to back.  TCP delivers the bytes in pieces of any    *)
(* size; QTcpSocket raises readyRead for each piece.  processStream runs   *)
(* in the GUI thread, once per signal, reads as much as it may, handles    *)
(* each complete command and commits the handled ones in batches.          *)
(*                                                                         *)
(* Bytes are offsets in the stream; the content of a frame is its length   *)
(* and whether ber_decode accepts it.                                      *)
(***************************************************************************)
EXTENDS Integers, Sequences, FiniteSets

CONSTANTS
  Hdr,       (* sizeof(asn1::Header)                                       *)
  BatchMax,  (* commands handled in one call at most: 128                  *)
  Grow,      (* the step the arena grows by: HeapBuffer<16384>             *)
  Estimate,  (* arena bytes per payload byte the decoder may need: 4       *)
  Lens,      (* the payload lengths clients announce                       *)
  MaxFrames, (* bound: frames the client writes                            *)
  MaxBad     (* bound: frames that ber_decode refuses                      *)

ASSUME DecoderAssumption ==
  /\ Hdr \in Nat \ {0}
  /\ BatchMax \in Nat \ {0}
  /\ Grow \in Nat \ {0}
  /\ Estimate \in Nat \ {0}
  /\ Lens \subseteq Nat
  /\ MaxFrames \in Nat
  /\ MaxBad \in Nat

VARIABLES
  wire,       (* wire[f]: the payload length of the frame written at f      *)
  bad,        (* offsets of the frames that ber_decode refuses             *)
  sentEnd,    (* the number of bytes the client has written                *)
  arrived,    (* the number of bytes the socket has received               *)
  signalled,  (* readyRead is due                                          *)
  consumed,   (* the number of bytes processStream has read                *)
  size,       (* m_dcd_ctx.getSize()                                       *)
  stage,      (* m_has_hdr and m_has_payload of m_dcd_ctx: neither is set  *)
              (* ("header"), the first ("payload") or both ("complete")     *)
  pc,         (* where processStream is; "idle": it is not running         *)
  batch,      (* batch_size, a local of processStream                      *)
  ret,        (* how the last call ended                                   *)
  arena,      (* m_asn1_allocator: capacity, bytes used, and a generation  *)
              (* that changes when what was allocated stops being valid    *)
  queue,      (* LogWidget::m_queue: commands handled, not yet committed   *)
  committed,  (* offsets of the commands committed to the model            *)
  failed      (* offsets of the frames ber_decode refused                  *)

vars == << wire, bad, sentEnd, arrived, signalled, consumed, size, stage, pc,
           batch, ret, arena, queue, committed, failed >>

socketVars == << wire, bad, sentEnd, arrived, signalled >>
ctxVars == << size, stage >>

Init ==
  /\ wire = << >>
  /\ bad = {}
  /\ sentEnd = 0
  /\ arrived = 0
  /\ signalled = FALSE
  /\ consumed = 0
  /\ size = 0
  /\ stage = "header"
  /\ pc = "idle"
  /\ batch = 0
  /\ ret = "none"
  /\ arena = [cap |-> 0, used |-> 0, gen |-> 0]
  /\ queue = << >>
  /\ committed = << >>
  /\ failed = {}

Least(a, b) == IF a <= b THEN a ELSE b

\* The offset of the first byte held in the decoding context.
front == consumed - size

\* Bytes that QTcpSocket::read can return.
available == arrived - consumed

\* The offset just after the frame at f.
FrameEnd(f) == f + Hdr + wire[f]

\* The offsets of a queue's commands, in order.
Offsets(q) == [i \in DOMAIN q |-> q[i].at]

-----------------------------------------------------------------------------
(* The client and the socket.                                              *)

Send(l, ok) ==
  /\ Cardinality(DOMAIN wire) < MaxFrames
  /\ ok \/ Cardinality(bad) < MaxBad
  /\ wire' = [f \in DOMAIN wire \cup {sentEnd} |-> IF f = sentEnd THEN l ELSE wire[f]]
  /\ bad' = IF ok THEN bad ELSE bad \cup {sentEnd}
  /\ sentEnd' = sentEnd + Hdr + l
  /\ UNCHANGED << arrived, signalled, consumed, ctxVars, pc, batch, ret, arena, queue,
                  committed, failed >>

\* The event loop moves n more bytes into the socket's buffer; it does not run
\* while processStream does.
Arrive(n) ==
  /\ pc = "idle"
  /\ arrived + n <= sentEnd
  /\ arrived' = arrived + n
  /\ signalled' = TRUE
  /\ UNCHANGED << wire, bad, sentEnd, consumed, ctxVars, pc, batch, ret, arena, queue,
                  committed, failed >>

-----------------------------------------------------------------------------
(* processStream.                                                          *)

\* processReadyRead: one call for one signal.
Enter ==
  /\ pc = "idle"
  /\ signalled
  /\ signalled' = FALSE
  /\ pc' = "loop"
  /\ batch' = 0
  /\ UNCHANGED << wire, bad, sentEnd, arrived, consumed, ctxVars, ret, arena, queue,
                  committed, failed >>

\* return e_data_need_more: past the commit that ends the function.
NeedMore ==
  /\ pc' = "idle"
  /\ ret' = "need_more"

\* Mutant of ReadHeader: returns as soon as the header is there.
ReadHeaderReturns ==
  LET count == Least(Hdr - size, available) IN
  /\ pc = "loop"
  /\ stage = "header"
  /\ count > 0
  /\ size' = size + count
  /\ consumed' = consumed + count
  /\ stage' = IF size + count = Hdr THEN "payload" ELSE stage
  /\ NeedMore
  /\ UNCHANGED << socketVars, batch, arena, queue, committed, failed >>

\* Some bytes of the header are read; returns when it is still incomplete.
ReadHeader ==
  LET count == Least(Hdr - size, available) IN
  /\ pc = "loop"
  /\ stage = "header"
  /\ count > 0
  /\ size' = size + count
  /\ consumed' = consumed + count
  /\ IF size + count = Hdr
       THEN stage' = "payload" /\ UNCHANGED << pc, ret >>
       ELSE NeedMore /\ UNCHANGED stage
  /\ UNCHANGED << socketVars, batch, arena, queue, committed, failed >>

\* Some bytes of the payload are read; returns when it is still incomplete.
ReadPayload ==
  LET count == Least(wire[front] - (size - Hdr), available) IN
  /\ pc = "loop"
  /\ stage = "payload"
  /\ count > 0
  /\ size' = size + count
  /\ consumed' = consumed + count
  /\ IF size + count = Hdr + wire[front]
       THEN stage' = "complete" /\ UNCHANGED << pc, ret >>
       ELSE NeedMore /\ UNCHANGED stage
  /\ UNCHANGED << socketVars, batch, arena, queue, committed, failed >>

\* read returned nothing while the payload was due.
NoPayload ==
  /\ pc = "loop"
  /\ stage = "payload"
  /\ Least(wire[front] - (size - Hdr), available) = 0
  /\ NeedMore
  /\ UNCHANGED << socketVars, consumed, ctxVars, batch, arena, queue, committed, failed >>

ArenaNeed == Estimate * wire[front]
ArenaShort == arena.cap - arena.used < ArenaNeed

\* Mutant of CommitQueue: m_queue is not cleared.
CommitQueueKeeps ==
  /\ committed' = committed \o Offsets(queue)
  /\ UNCHANGED queue

\* Mutant of CommitQueue: the newest command is committed first.
CommitQueueReversed ==
  /\ committed' = committed \o [i \in DOMAIN queue |-> queue[Len(queue) + 1 - i].at]
  /\ queue' = << >>

\* onHandleCommandsCommit: LogWidget::commitCommands hands the queue to the model.
CommitQueue ==
  /\ committed' = committed \o Offsets(queue)
  /\ queue' = << >>

\* Mutant of FlushForMemory: the arena is emptied before what it holds is committed.
FlushWithoutCommit ==
  /\ pc = "loop"
  /\ stage = "complete"
  /\ ArenaShort
  /\ arena' = [cap |-> arena.cap + Grow, used |-> 0, gen |-> arena.gen + 1]
  /\ pc' = "decode"
  /\ UNCHANGED << socketVars, consumed, ctxVars, ret, batch, queue, committed, failed >>

\* The arena may be too small for the command: everything handled so far is committed,
\* the arena is emptied and grown by one step.
FlushForMemory ==
  /\ pc = "loop"
  /\ stage = "complete"
  /\ ArenaShort
  /\ CommitQueue
  /\ batch' = 0
  /\ arena' = [cap |-> arena.cap + Grow, used |-> 0, gen |-> arena.gen + 1]
  /\ pc' = "decode"
  /\ UNCHANGED << socketVars, consumed, ctxVars, ret, failed >>

\* Mutant of ResetCurrentCommand: m_end_offset keeps its value.
ResetFlagsOnly ==
  /\ stage' = "header"
  /\ UNCHANGED size

\* m_dcd_ctx.resetCurrentCommand()
ResetCurrentCommand ==
  /\ size' = 0
  /\ stage' = "header"

\* MemBuffer::Malloc allocates n bytes; it grows by one step each time something does
\* not fit.  Growing moves the storage, so that what was allocated before is no longer
\* where the commands point.
Malloc(n) ==
  IF arena.used + n <= arena.cap
    THEN arena' = [arena EXCEPT !.used = @ + n]
    ELSE \E k \in 1 .. n :
           LET cap == arena.cap + k * Grow IN
           /\ arena.used + n <= cap
           /\ cap - Grow < arena.used + n
           /\ arena' = [cap |-> cap, used |-> arena.used + n, gen |-> arena.gen + 1]

ReadyToDecode == pc = "decode" \/ (pc = "loop" /\ stage = "complete" /\ ~ArenaShort)

\* Mutant of AfterCommand: one command too many.
AfterCommandLate == IF batch + 1 > BatchMax THEN "leave" ELSE "loop"

\* Where the loop goes after a command is handled.
AfterCommand == IF batch + 1 >= BatchMax THEN "leave" ELSE "loop"

\* ber_decode accepts the payload, having allocated n bytes, and the command is handled.
Decode(n) ==
  /\ ReadyToDecode
  /\ front \notin bad
  /\ n <= ArenaNeed
  /\ queue' = Append(queue, [at |-> front, gen |-> arena.gen])
  /\ Malloc(n)
  /\ batch' = batch + 1
  /\ ResetCurrentCommand
  /\ pc' = AfterCommand
  /\ UNCHANGED << socketVars, consumed, ret, committed, failed >>

\* ber_decode fails: the command is dropped, the arena emptied, and the call ends
\* past the commit.
DecodeFails ==
  /\ ReadyToDecode
  /\ front \in bad
  /\ failed' = failed \cup {front}
  /\ ResetCurrentCommand
  /\ arena' = [arena EXCEPT !.used = 0, !.gen = @ + 1]
  /\ pc' = "idle"
  /\ ret' = "oor"
  /\ UNCHANGED << socketVars, consumed, batch, queue, committed >>

\* Mutant of NoHeader: returns like the other reads do.
NoHeaderReturns ==
  /\ pc = "loop"
  /\ stage = "header"
  /\ Least(Hdr - size, available) = 0
  /\ NeedMore
  /\ UNCHANGED << socketVars, consumed, ctxVars, batch, arena, queue, committed, failed >>

\* No byte of a header could be read: break.
NoHeader ==
  /\ pc = "loop"
  /\ stage = "header"
  /\ Least(Hdr - size, available) = 0
  /\ pc' = "leave"
  /\ UNCHANGED << socketVars, consumed, ctxVars, batch, ret, arena, queue, committed, failed >>

\* Mutant of Leave: only full batches are committed.
LeaveFullOnly ==
  /\ pc = "leave"
  /\ IF batch >= BatchMax
       THEN /\ CommitQueue
            /\ ResetCurrentCommand
            /\ arena' = [arena EXCEPT !.used = 0, !.gen = @ + 1]
       ELSE UNCHANGED << queue, committed, ctxVars, arena >>
  /\ pc' = "idle"
  /\ ret' = IF batch >= BatchMax THEN "full" ELSE "ok"
  /\ UNCHANGED << socketVars, consumed, batch, failed >>

\* After the loop: a non-empty batch is committed.
Leave ==
  /\ pc = "leave"
  /\ IF batch > 0
       THEN /\ CommitQueue
            /\ ResetCurrentCommand
            /\ arena' = [arena EXCEPT !.used = 0, !.gen = @ + 1]
       ELSE UNCHANGED << queue, committed, ctxVars, arena >>
  /\ pc' = "idle"
  /\ ret' = IF batch >= BatchMax THEN "full" ELSE "ok"
  /\ UNCHANGED << socketVars, consumed, batch, failed >>

ProcessStream ==
  \/ Enter
  \/ ReadHeader
  \/ NoHeader
  \/ ReadPayload
  \/ NoPayload
  \/ FlushForMemory
  \/ stage = "complete" /\ \E n \in 0 .. ArenaNeed : Decode(n)
  \/ DecodeFails
  \/ Leave

\* TCP delivers what was written, and the GUI thread returns to its event loop.
Delivery == \E n \in 1 .. (sentEnd - arrived) : Arrive(n)

Next ==
  \/ \E l \in Lens, ok \in BOOLEAN : Send(l, ok)
  \/ Delivery
  \/ ProcessStream

Spec == Init /\ [][Next]_vars

FairSpec == Spec /\ WF_vars(ProcessStream) /\ WF_vars(Delivery)
-----------------------------------------------------------------------------
(* Properties.                                                             *)

StreamType ==
  /\ DOMAIN wire \subseteq Nat
  /\ wire \in [DOMAIN wire -> Lens]
  /\ sentEnd \in Nat
  /\ arrived \in Nat
  /\ consumed \in Nat
  /\ size \in Nat

ControlType ==
  /\ signalled \in BOOLEAN
  /\ stage \in {"header", "payload", "complete"}
  /\ pc \in {"idle", "loop", "decode", "leave"}
  /\ ret \in {"none", "need_more", "oor", "ok", "full"}

CommandType ==
  /\ arena \in [cap : Nat, used : Nat, gen : Nat]
  /\ queue \in Seq([at : Nat, gen : Nat])
  /\ committed \in Seq(Nat)
  /\ bad \subseteq DOMAIN wire
  /\ failed \subseteq bad

\* Type invariant of the decoder; batch_size stays within the limit of one call.
TypeOK ==
  /\ StreamType
  /\ ControlType
  /\ CommandType
  /\ batch \in 0 .. BatchMax

\* However the bytes of the stream are cut into reads, and however the calls end, the
\* decoding context always holds a prefix of one frame: a header is only ever read at
\* the offset where the client started a frame, and never past its end.
Framing ==
  /\ consumed <= arrived /\ arrived <= sentEnd
  /\ size <= consumed
  /\ front \in DOMAIN wire \cup {sentEnd}
  /\ size > 0 => front \in DOMAIN wire
  /\ stage = "header" <=> size < Hdr
  /\ stage = "payload" => size <= Hdr + wire[front]
  /\ stage = "complete" => size = Hdr + wire[front]

\* A command handed over to the widgets, committed or still queued.
Accepted == committed \o Offsets(queue)

\* Each frame read to its end has been handled exactly once, in the order of the
\* stream, unless ber_decode refused it: batches, early returns and the flush for
\* memory neither lose nor repeat nor reorder a command.
HandledOnceInOrder ==
  /\ \A i, j \in DOMAIN Accepted : i < j => Accepted[i] < Accepted[j]
  /\ {Accepted[i] : i \in DOMAIN Accepted} = {f \in DOMAIN wire : f < front} \ failed

\* processStream leaves commands uncommitted between two calls only when it has begun
\* to read the next frame, so that the next bytes will bring it back, or when the
\* frame after them was refused.
PendingOnlyMidFrame ==
  pc = "idle" /\ queue # << >> => size > 0 \/ \E f \in failed : f > queue[Len(queue)].at

\* Bytes stay unread in the socket, with no readyRead due, only after a call that took a
\* full batch or met an undecodable frame, or behind a frame that announces no payload.
BacklogOnlyAfterBreak ==
  pc = "idle" /\ ~signalled /\ available > 0 =>
    \/ ret \in {"full", "oor"}
    \/ stage = "payload" /\ wire[front] = 0

\* One step of growth is enough for the largest payload.
GrowthCovers == \A l \in Lens : Estimate * l <= Grow

\* The commands waiting in the queue point into memory that the arena has not reused
\* since, as long as no frame after them was refused: emptying and growing the arena
\* always comes after the commit of what was decoded in it.
QueueMemoryLive ==
  GrowthCovers =>
    \A i \in DOMAIN queue :
      queue[i].gen = arena.gen \/ \E f \in failed : f > queue[i].at

\* The stream implements the command feed: what has been read to the end of its frame
\* has been taken, the queue is what is taken and not shown.
Feed == INSTANCE CommandFeed WITH
  written <- [f \in DOMAIN wire |-> Hdr + wire[f]],
  next <- front,
  taken <- Offsets(queue),
  shown <- committed

\* Every step of processStream takes, skips or shows commands as the feed allows, or
\* changes nothing the feed tells apart.
FeedSpec == Feed!Spec

\* A command that was taken is committed in the end, if every frame has a payload that
\* decodes: what a call leaves in the queue is picked up by a later one.
TakenIsCommitted ==
  [](bad = {} /\ \A f \in DOMAIN wire : wire[f] > 0) =>
    (queue # << >> ~> queue = << >>)

\* connection_stream.cpp:224 returns e_data_need_more with the comment "not enough data":
\* the socket then does not hold the rest of the frame.
NeedMoreMeansIncomplete ==
  [][pc = "loop" /\ pc' = "idle" /\ ret' = "need_more" =>
       ~ (front' \in DOMAIN wire /\ FrameEnd(front') <= arrived)]_vars
=============================================================================
