------------------------- MODULE StreamDecoderProofs -------------------------
(***************************************************************************)
(* Proofs about StreamDecoder, for every header size, batch limit, arena   *)
(* step, estimate and set of payload lengths: where the frames and the     *)
(* arena stand, then what is handed over: every command once and in order, *)
(* as CommandFeed demands.                                                 *)
(***************************************************************************)
EXTENDS StreamDecoder, SequenceTheorems, TLAPS

\* The frames are laid out back to back: each ends where the next one starts, or where
\* the stream ends.
Contiguous ==
  \A f \in DOMAIN wire :
    /\ FrameEnd(f) <= sentEnd
    /\ FrameEnd(f) \in DOMAIN wire \cup {sentEnd}

\* What holds at each point of processStream.  Past the first command of a call the
\* context is empty whenever no header is complete, so that the reset which follows the
\* commit forgets nothing.
Control ==
  /\ pc = "loop" => batch < BatchMax
  /\ pc = "decode" => stage = "complete" /\ batch < BatchMax
  /\ pc = "leave" => stage = "header"
  /\ pc = "idle" => stage # "complete"
  /\ pc # "idle" /\ batch > 0 /\ stage = "header" => size = 0

IInv == TypeOK /\ Contiguous /\ Framing /\ Control

\* Lengths, offsets and limits are numbers.
LEMMA Numbers ==
  /\ Hdr \in Nat /\ Hdr > 0
  /\ BatchMax \in Nat /\ BatchMax > 0
  /\ Lens \subseteq Nat
BY DecoderAssumption DEF DecoderAssumption

\* A frame starts before it ends and the stream reaches at least that far.
LEMMA FrameBounds ==
  ASSUME StreamType, Contiguous, NEW f \in DOMAIN wire
  PROVE  /\ f \in Nat /\ wire[f] \in Nat
         /\ FrameEnd(f) \in Nat /\ f + Hdr <= FrameEnd(f) /\ FrameEnd(f) <= sentEnd
<1>1. f \in Nat /\ wire[f] \in Lens BY DEF StreamType
<1>2. wire[f] \in Nat BY <1>1, Numbers
<1>3. FrameEnd(f) = f + Hdr + wire[f] BY DEF FrameEnd
<1>4. FrameEnd(f) <= sentEnd BY DEF Contiguous
<1>5. QED BY <1>1, <1>2, <1>3, <1>4, Numbers

\* Initially nothing is written and nothing is read.
LEMMA InitIInv == Init => IInv
<1> SUFFICES ASSUME Init PROVE IInv OBVIOUS
<1>1. DOMAIN wire = {} BY DEF Init
<1>2. StreamType BY <1>1 DEF Init, StreamType
<1>3. ControlType BY DEF Init, ControlType
<1>4. CommandType BY <1>1 DEF Init, CommandType
<1>5. batch \in 0 .. BatchMax BY Numbers DEF Init
<1>6. Contiguous BY <1>1 DEF Contiguous
<1>7. Framing BY <1>1, Numbers DEF Init, Framing, front
<1>8. Control BY Numbers DEF Init, Control
<1>9. QED BY <1>2, <1>3, <1>4, <1>5, <1>6, <1>7, <1>8 DEF IInv, TypeOK

\* Writing a frame leaves every frame already written in place.
LEMMA SendIInv ==
  ASSUME IInv, NEW l \in Lens, NEW ok \in BOOLEAN, Send(l, ok)
  PROVE IInv'
<1> USE DEF IInv, TypeOK
<1>1. /\ wire' = [f \in DOMAIN wire \cup {sentEnd} |-> IF f = sentEnd THEN l ELSE wire[f]]
      /\ sentEnd' = sentEnd + Hdr + l
      /\ bad' \subseteq bad \cup {sentEnd}
      /\ UNCHANGED << arrived, signalled, consumed, size, stage, pc, batch, ret, arena,
                      queue, committed, failed >>
  BY DEF Send, ctxVars
<1>2. l \in Nat /\ sentEnd \in Nat BY Numbers DEF StreamType
<1>3. sentEnd \notin DOMAIN wire
  <2> SUFFICES ASSUME sentEnd \in DOMAIN wire PROVE FALSE OBVIOUS
  <2>1. QED BY FrameBounds, Numbers, <1>2
<1>4. /\ DOMAIN wire' = DOMAIN wire \cup {sentEnd}
      /\ wire'[sentEnd] = l
      /\ \A f \in DOMAIN wire : wire'[f] = wire[f] /\ FrameEnd(f)' = FrameEnd(f)
  BY <1>1, <1>3 DEF FrameEnd
<1>5. StreamType' BY <1>1, <1>2, <1>4, Numbers DEF StreamType
<1>6. TypeOK'
  <2>1. ControlType' BY <1>1 DEF ControlType
  <2>2. CommandType'
    <3>1. bad' \subseteq DOMAIN wire' BY <1>1, <1>4 DEF CommandType
    <3>2. failed' \subseteq bad' BY <1>1 DEF CommandType, Send
    <3>3. QED BY <1>1, <3>1, <3>2 DEF CommandType
  <2>3. QED BY <1>1, <1>5, <2>1, <2>2
<1>7. Contiguous'
  <2> SUFFICES ASSUME NEW f \in DOMAIN wire'
               PROVE /\ FrameEnd(f)' <= sentEnd'
                     /\ FrameEnd(f)' \in DOMAIN wire' \cup {sentEnd'}
    BY DEF Contiguous
  <2>1. CASE f = sentEnd
    <3>1. FrameEnd(f)' = sentEnd' BY <1>1, <1>4, <2>1 DEF FrameEnd
    <3>2. QED BY <3>1, <1>1, <1>2, Numbers
  <2>2. CASE f \in DOMAIN wire
    <3>1. FrameEnd(f) <= sentEnd /\ FrameEnd(f) \in DOMAIN wire \cup {sentEnd}
      BY <2>2 DEF Contiguous
    <3>2. FrameEnd(f) \in Nat BY <2>2, FrameBounds
    <3>3. QED BY <3>1, <3>2, <2>2, <1>1, <1>2, <1>4, Numbers
  <2>3. QED BY <2>1, <2>2, <1>4
<1>8. Framing'
  <2>1. front' = front BY <1>1 DEF front
  <2>2. sentEnd <= sentEnd' BY <1>1, <1>2, Numbers
  <2>3. arrived \in Nat /\ sentEnd' \in Nat BY <1>5, <1>1 DEF StreamType
  <2>4. arrived <= sentEnd' BY <2>2, <2>3, <1>2 DEF Framing
  <2>5. front \in DOMAIN wire' BY <1>4 DEF Framing
  <2>6. stage # "header" => front \in DOMAIN wire
    BY Numbers DEF Framing, StreamType, ControlType
  <2>7. stage # "header" => wire'[front] = wire[front] BY <2>6, <1>4
  <2>8. QED BY <1>1, <2>1, <2>4, <2>5, <2>7 DEF Framing
<1>9. Control' BY <1>1 DEF Control
<1>10. QED BY <1>6, <1>7, <1>8, <1>9

\* The counters as numbers, for the steps that compute with them.
LEMMA Counters ==
  ASSUME StreamType, Framing
  PROVE  /\ sentEnd \in Nat /\ arrived \in Nat /\ consumed \in Nat /\ size \in Nat
         /\ consumed <= arrived /\ arrived <= sentEnd /\ size <= consumed
         /\ front \in Nat /\ front = consumed - size
BY DEF StreamType, Framing, front

\* Outside the header the context holds the beginning of a frame.
LEMMA InsideFrame ==
  ASSUME StreamType, Framing, stage # "header"
  PROVE  front \in DOMAIN wire /\ Hdr <= size /\ wire[front] \in Nat
<1>1. ~ size < Hdr BY DEF Framing
<1>2. Hdr <= size /\ size > 0 BY <1>1, Counters, Numbers
<1>3. front \in DOMAIN wire BY <1>2 DEF Framing
<1>4. QED BY <1>2, <1>3, Numbers DEF StreamType

\* What a step that leaves the stream and the frames alone keeps.
LEMMA SameStream ==
  ASSUME IInv, UNCHANGED << wire, bad, sentEnd, consumed, size >>
  PROVE  Contiguous' /\ front' = front /\ StreamType' = (arrived' \in Nat)
<1>1. Contiguous' BY DEF IInv, Contiguous, FrameEnd
<1>2. front' = front BY DEF front
<1>3. (StreamType' => arrived' \in Nat) /\ (arrived' \in Nat => StreamType')
  BY DEF StreamType, IInv, TypeOK
<1>4. StreamType' \in BOOLEAN BY DEF StreamType
<1>5. QED BY <1>1, <1>2, <1>3, <1>4

\* More bytes arrive, never more than were sent.
LEMMA ArriveIInv ==
  ASSUME IInv, NEW n \in 1 .. (sentEnd - arrived), Arrive(n)
  PROVE  IInv'
<1> USE DEF IInv, TypeOK
<1>1. /\ arrived' = arrived + n /\ signalled' = TRUE
      /\ UNCHANGED << wire, bad, sentEnd, consumed, size, stage, pc, batch, ret, arena,
                      queue, committed, failed >>
  BY DEF Arrive, ctxVars
<1>2. arrived' \in Nat /\ arrived <= arrived' /\ arrived' <= sentEnd
  BY <1>1, Counters
<1>3. StreamType' /\ Contiguous' /\ front' = front
  BY <1>1, <1>2, SameStream DEF StreamType
<1>4. ControlType' /\ CommandType' BY <1>1 DEF ControlType, CommandType
<1>5. Framing'
  <2>1. consumed' <= arrived' /\ arrived' <= sentEnd' BY <1>1, <1>2, Counters
  <2>2. QED BY <2>1, <1>1, <1>3 DEF Framing
<1>6. Control' BY <1>1 DEF Control
<1>7. QED BY <1>1, <1>3, <1>4, <1>5, <1>6

\* A call begins; nothing of the stream is touched.
LEMMA EnterIInv ==
  ASSUME IInv, Enter
  PROVE  IInv'
<1> USE DEF IInv, TypeOK
<1>1. /\ pc = "idle" /\ pc' = "loop" /\ batch' = 0 /\ signalled' = FALSE
      /\ UNCHANGED << wire, bad, sentEnd, arrived, consumed, size, stage, ret, arena,
                      queue, committed, failed >>
  BY DEF Enter, ctxVars
<1>2. StreamType' /\ Contiguous' /\ front' = front
  BY <1>1, SameStream DEF StreamType
<1>3. ControlType' /\ CommandType' BY <1>1 DEF ControlType, CommandType
<1>4. Framing' BY <1>1, <1>2 DEF Framing
<1>5. batch' \in 0 .. BatchMax /\ batch' < BatchMax BY <1>1, Numbers
<1>6. Control' BY <1>1, <1>5 DEF Control
<1>7. QED BY <1>2, <1>3, <1>4, <1>5, <1>6

\* Reading count bytes keeps the first byte of the context where it is.
LEMMA ReadBytes ==
  ASSUME StreamType, Framing, NEW count \in Nat, count <= available,
         size' = size + count, consumed' = consumed + count,
         UNCHANGED << wire, sentEnd, arrived >>
  PROVE  /\ StreamType' /\ front' = front
         /\ consumed' <= arrived' /\ arrived' <= sentEnd' /\ size' <= consumed'
         /\ count > 0 => front \in DOMAIN wire
<1>1. size' \in Nat /\ consumed' \in Nat BY Counters
<1>2. front' = front BY Counters DEF front
<1>3. consumed + count <= arrived BY Counters DEF available
<1>4. count > 0 => front # sentEnd BY <1>3, Counters
<1>5. StreamType' BY <1>1 DEF StreamType
<1>6. front \in DOMAIN wire \cup {sentEnd} BY DEF Framing
<1>7. QED BY <1>2, <1>3, <1>4, <1>5, <1>6, Counters

\* The header is read byte by byte, at the start of a frame.
LEMMA ReadHeaderIInv ==
  ASSUME IInv, ReadHeader
  PROVE  IInv'
<1> USE DEF IInv, TypeOK
<1> DEFINE count == Least(Hdr - size, available)
<1>1. /\ stage = "header" /\ pc = "loop" /\ count > 0
      /\ size' = size + count
      /\ consumed' = consumed + count
      /\ \/ size + count = Hdr /\ stage' = "payload" /\ pc' = pc /\ ret' = ret
         \/ size + count # Hdr /\ stage' = stage /\ pc' = "idle" /\ ret' = "need_more"
      /\ UNCHANGED << wire, bad, sentEnd, arrived, signalled, batch, arena, queue,
                      committed, failed >>
  BY DEF ReadHeader, NeedMore, socketVars
<1>2. size < Hdr BY <1>1 DEF Framing
<1>3. available \in Nat BY Counters DEF available
<1>4. count \in Nat /\ size + count <= Hdr /\ count <= available
  BY <1>2, <1>3, Counters, Numbers DEF Least
<1> HIDE DEF count
<1>5. /\ StreamType' /\ front' = front /\ front \in DOMAIN wire
      /\ consumed' <= arrived' /\ arrived' <= sentEnd' /\ size' <= consumed'
  BY <1>1, <1>4, ReadBytes
<1>6. wire[front] \in Nat BY <1>5, Numbers DEF StreamType
<1>7. ControlType' /\ CommandType' BY <1>1 DEF ControlType, CommandType
<1>8. Contiguous' BY <1>1 DEF Contiguous, FrameEnd
<1>9. /\ stage' = "header" <=> size' < Hdr
      /\ stage' = "payload" => size' <= Hdr + wire'[front]
      /\ stage' # "complete"
  BY <1>1, <1>4, <1>6, Counters, Numbers
<1>10. Framing' BY <1>1, <1>5, <1>9 DEF Framing
<1>11. Control' BY <1>1, <1>9 DEF Control
<1>12. QED BY <1>1, <1>5, <1>7, <1>8, <1>10, <1>11

\* The payload is read byte by byte, up to the end of the frame.
LEMMA ReadPayloadIInv ==
  ASSUME IInv, ReadPayload
  PROVE  IInv'
<1> USE DEF IInv, TypeOK
<1> DEFINE count == Least(wire[front] - (size - Hdr), available)
<1>1. /\ stage = "payload" /\ pc = "loop" /\ count > 0
      /\ size' = size + count
      /\ consumed' = consumed + count
      /\ \/ size + count = Hdr + wire[front] /\ stage' = "complete" /\ pc' = pc /\ ret' = ret
         \/ /\ size + count # Hdr + wire[front]
            /\ stage' = stage /\ pc' = "idle" /\ ret' = "need_more"
      /\ UNCHANGED << wire, bad, sentEnd, arrived, signalled, batch, arena, queue,
                      committed, failed >>
  BY DEF ReadPayload, NeedMore, socketVars
<1>2. front \in DOMAIN wire /\ Hdr <= size /\ wire[front] \in Nat /\ size <= Hdr + wire[front]
  BY <1>1, InsideFrame DEF Framing
<1>3. available \in Nat BY Counters DEF available
<1>4. count \in Nat /\ size + count <= Hdr + wire[front] /\ count <= available
  BY <1>2, <1>3, Counters, Numbers DEF Least
<1> HIDE DEF count
<1>5. /\ StreamType' /\ front' = front
      /\ consumed' <= arrived' /\ arrived' <= sentEnd' /\ size' <= consumed'
  BY <1>1, <1>4, ReadBytes
<1>6. ControlType' /\ CommandType' BY <1>1 DEF ControlType, CommandType
<1>7. Contiguous' BY <1>1 DEF Contiguous, FrameEnd
<1>8. /\ stage' # "header" /\ ~ size' < Hdr
      /\ size' <= Hdr + wire'[front]
      /\ stage' = "complete" => size' = Hdr + wire'[front]
  BY <1>1, <1>2, <1>4, Counters, Numbers
<1>9. Framing' BY <1>1, <1>2, <1>5, <1>8 DEF Framing
<1>10. Control' BY <1>1, <1>8 DEF Control
<1>11. QED BY <1>1, <1>5, <1>6, <1>7, <1>9, <1>10

\* A read that returns nothing leaves the context as it is.
LEMMA NoBytesIInv ==
  ASSUME IInv, NoPayload \/ NoHeader
  PROVE  IInv'
<1> USE DEF IInv, TypeOK
<1>1. /\ pc = "loop"
      /\ \/ stage = "payload" /\ pc' = "idle" /\ ret' = "need_more"
         \/ stage = "header" /\ pc' = "leave" /\ ret' = ret
      /\ UNCHANGED << wire, bad, sentEnd, arrived, signalled, consumed, size, stage, batch,
                      arena, queue, committed, failed >>
  BY DEF NoPayload, NoHeader, NeedMore, socketVars, ctxVars
<1>2. StreamType' /\ Contiguous' /\ front' = front
  BY <1>1, SameStream DEF StreamType
<1>3. ControlType' /\ CommandType' BY <1>1 DEF ControlType, CommandType
<1>4. Framing' BY <1>1, <1>2 DEF Framing
<1>5. Control' BY <1>1 DEF Control
<1>6. QED BY <1>1, <1>2, <1>3, <1>4, <1>5

\* The offsets of a queue of commands are numbers.
LEMMA OffsetsType ==
  ASSUME NEW q \in Seq([at : Nat, gen : Nat])
  PROVE  Offsets(q) \in Seq(Nat) /\ Len(Offsets(q)) = Len(q)
<1>1. DOMAIN q = 1 .. Len(q) /\ Len(q) \in Nat BY LenProperties
<1>2. \A i \in 1 .. Len(q) : q[i].at \in Nat
  <2> TAKE i \in 1 .. Len(q)
  <2>1. q[i] \in [at : Nat, gen : Nat] BY ElementOfSeq
  <2>2. QED BY <2>1
<1>3. Offsets(q) = [i \in 1 .. Len(q) |-> q[i].at] BY <1>1 DEF Offsets
<1>4. QED BY <1>1, <1>2, <1>3

\* A commit moves the queue to the end of what was committed.
LEMMA CommitType ==
  ASSUME CommandType, CommitQueue
  PROVE  committed' \in Seq(Nat) /\ queue' = << >>
<1>1. Offsets(queue) \in Seq(Nat) BY OffsetsType DEF CommandType
<1>2. committed \in Seq(Nat) BY DEF CommandType
<1>3. QED BY <1>1, <1>2 DEF CommitQueue

\* The arena is emptied and grown only when a whole command waits for it.
LEMMA FlushIInv ==
  ASSUME IInv, FlushForMemory
  PROVE  IInv'
<1> USE DEF IInv, TypeOK
<1>1. /\ pc = "loop" /\ stage = "complete" /\ pc' = "decode" /\ batch' = 0
      /\ arena' = [cap |-> arena.cap + Grow, used |-> 0, gen |-> arena.gen + 1]
      /\ CommitQueue
      /\ UNCHANGED << wire, bad, sentEnd, arrived, signalled, consumed, size, stage, ret,
                      failed >>
  BY DEF FlushForMemory, socketVars, ctxVars
<1>2. StreamType' /\ Contiguous' /\ front' = front
  BY <1>1, SameStream DEF StreamType
<1>3. ControlType' BY <1>1 DEF ControlType
<1>4. CommandType'
  <2>1. arena.cap + Grow \in Nat /\ arena.gen + 1 \in Nat
    BY DecoderAssumption DEF DecoderAssumption, CommandType
  <2>2. arena' \in [cap : Nat, used : Nat, gen : Nat] BY <1>1, <2>1
  <2>3. queue' \in Seq([at : Nat, gen : Nat]) /\ committed' \in Seq(Nat)
    BY <1>1, CommitType
  <2>4. QED BY <1>1, <2>2, <2>3 DEF CommandType
<1>5. Framing' BY <1>1, <1>2 DEF Framing
<1>6. batch' \in 0 .. BatchMax /\ batch' < BatchMax BY <1>1, Numbers
<1>7. Control' BY <1>1, <1>6 DEF Control
<1>8. QED BY <1>2, <1>3, <1>4, <1>5, <1>6, <1>7

\* Allocation keeps the arena's numbers numbers.
LEMMA MallocType ==
  ASSUME arena \in [cap : Nat, used : Nat, gen : Nat], NEW n \in Nat, Malloc(n)
  PROVE  arena' \in [cap : Nat, used : Nat, gen : Nat]
<1>1. CASE arena.used + n <= arena.cap
  <2>1. arena' = [arena EXCEPT !.used = @ + n] BY <1>1 DEF Malloc
  <2>2. QED BY <2>1
<1>2. CASE ~ arena.used + n <= arena.cap
  <2>1. PICK k \in 1 .. n :
          arena' = [cap |-> arena.cap + k * Grow, used |-> arena.used + n,
                    gen |-> arena.gen + 1]
    BY <1>2 DEF Malloc
  <2>2. k * Grow \in Nat BY DecoderAssumption DEF DecoderAssumption
  <2>3. arena.cap + k * Grow \in Nat /\ arena.used + n \in Nat /\ arena.gen + 1 \in Nat
    BY <2>2
  <2>4. QED BY <2>1, <2>3
<1>3. QED BY <1>1, <1>2

\* So does emptying it.
LEMMA ArenaReset ==
  ASSUME arena \in [cap : Nat, used : Nat, gen : Nat],
         arena' = [arena EXCEPT !.used = 0, !.gen = @ + 1]
  PROVE  arena' \in [cap : Nat, used : Nat, gen : Nat]
<1>1. arena.cap \in Nat /\ arena.gen + 1 \in Nat OBVIOUS
<1>2. arena' = [cap |-> arena.cap, used |-> 0, gen |-> arena.gen + 1] OBVIOUS
<1>3. QED BY <1>1, <1>2

\* Once its frame is complete the context is emptied at the start of the next frame.
LEMMA FrameDone ==
  ASSUME StreamType, Contiguous, Framing, stage = "complete",
         ResetCurrentCommand, UNCHANGED << wire, sentEnd, arrived, consumed >>
  PROVE  /\ StreamType' /\ Contiguous' /\ Framing'
         /\ front' = FrameEnd(front) /\ front' = consumed
<1>1. size' = 0 /\ stage' = "header" BY DEF ResetCurrentCommand
<1>2. front \in DOMAIN wire /\ size = Hdr + wire[front] /\ wire[front] \in Nat
  BY InsideFrame DEF Framing
<1>3. front' = consumed BY <1>1, Counters DEF front
<1>4. FrameEnd(front) = consumed BY <1>2, Counters, Numbers DEF FrameEnd
<1>5. front' \in DOMAIN wire \cup {sentEnd} BY <1>2, <1>3, <1>4 DEF Contiguous
<1>6. StreamType' BY <1>1 DEF StreamType
<1>7. Contiguous' BY DEF Contiguous, FrameEnd
<1>8. consumed <= arrived /\ arrived <= sentEnd /\ 0 <= consumed /\ 0 < Hdr
  BY Counters, Numbers
<1>9. Framing' BY <1>1, <1>5, <1>8 DEF Framing
<1>10. QED BY <1>3, <1>4, <1>6, <1>7, <1>9

\* At the points where ber_decode is called the frame is complete and there is room in
\* the batch.
LEMMA DecodePoint ==
  ASSUME IInv, ReadyToDecode
  PROVE  stage = "complete" /\ batch + 1 \in 0 .. BatchMax /\ pc # "idle"
BY Numbers DEF IInv, TypeOK, Control, ReadyToDecode

\* A decoded command joins the queue and the context is emptied for the next one.
LEMMA DecodeIInv ==
  ASSUME IInv, NEW n \in Nat, Decode(n)
  PROVE  IInv'
<1> USE DEF IInv, TypeOK
<1>1. /\ ReadyToDecode /\ Malloc(n) /\ ResetCurrentCommand
      /\ queue' = Append(queue, [at |-> front, gen |-> arena.gen])
      /\ batch' = batch + 1
      /\ pc' = IF batch + 1 >= BatchMax THEN "leave" ELSE "loop"
      /\ UNCHANGED << wire, bad, sentEnd, arrived, signalled, consumed, ret, committed,
                      failed >>
  BY DEF Decode, AfterCommand, socketVars
<1>2. stage = "complete" /\ batch' \in 0 .. BatchMax BY <1>1, DecodePoint
<1>3. StreamType' /\ Contiguous' /\ Framing' BY <1>1, <1>2, FrameDone
<1>4. size' = 0 /\ stage' = "header" BY <1>1 DEF ResetCurrentCommand
<1>5. ControlType' BY <1>1, <1>4 DEF ControlType
<1>6. CommandType'
  <2>1. arena.gen \in Nat /\ front \in Nat BY Counters DEF CommandType
  <2>2. queue' \in Seq([at : Nat, gen : Nat]) BY <1>1, <2>1 DEF CommandType
  <2>3. arena' \in [cap : Nat, used : Nat, gen : Nat]
    BY <1>1, MallocType DEF CommandType
  <2>4. QED BY <1>1, <2>2, <2>3 DEF CommandType
<1>7. pc' = "loop" => batch' < BatchMax BY <1>1, <1>2, Numbers
<1>8. Control' BY <1>1, <1>4, <1>7 DEF Control
<1>9. QED BY <1>2, <1>3, <1>5, <1>6, <1>8

\* An undecodable command is dropped and the context is emptied for the next one.
LEMMA DecodeFailsIInv ==
  ASSUME IInv, DecodeFails
  PROVE  IInv'
<1> USE DEF IInv, TypeOK
<1>1. /\ ReadyToDecode /\ ResetCurrentCommand
      /\ front \in bad /\ failed' = failed \cup {front}
      /\ arena' = [arena EXCEPT !.used = 0, !.gen = @ + 1]
      /\ pc' = "idle" /\ ret' = "oor"
      /\ UNCHANGED << wire, bad, sentEnd, arrived, signalled, consumed, batch, queue,
                      committed >>
  BY DEF DecodeFails, socketVars
<1>2. stage = "complete" BY <1>1, DecodePoint
<1>3. StreamType' /\ Contiguous' /\ Framing' BY <1>1, <1>2, FrameDone
<1>4. size' = 0 /\ stage' = "header" BY <1>1 DEF ResetCurrentCommand
<1>5. ControlType' BY <1>1, <1>4 DEF ControlType
<1>6. CommandType' BY <1>1, ArenaReset DEF CommandType
<1>7. Control' BY <1>1, <1>4 DEF Control
<1>8. QED BY <1>1, <1>3, <1>5, <1>6, <1>7

\* The end of a call: what is reset after the commit is already empty.
LEMMA LeaveIInv ==
  ASSUME IInv, Leave
  PROVE  IInv'
<1> USE DEF IInv, TypeOK
<1>1. /\ pc = "leave" /\ pc' = "idle" /\ ret' \in {"ok", "full"}
      /\ UNCHANGED << wire, bad, sentEnd, arrived, signalled, consumed, batch, failed >>
      /\ \/ /\ batch > 0 /\ CommitQueue /\ size' = 0 /\ stage' = "header"
            /\ arena' = [arena EXCEPT !.used = 0, !.gen = @ + 1]
         \/ UNCHANGED << queue, committed, size, stage, arena >>
  BY DEF Leave, socketVars, ctxVars, ResetCurrentCommand
<1>2. stage = "header" BY <1>1 DEF Control
<1>3. size' = size /\ stage' = stage BY <1>1, <1>2 DEF Control
<1>4. StreamType' /\ Contiguous' /\ front' = front
  BY <1>1, <1>3, SameStream DEF StreamType
<1>5. ControlType' BY <1>1, <1>3 DEF ControlType
<1>6. CommandType'
  <2>1. CASE UNCHANGED << queue, committed, arena >>
    BY <1>1, <2>1 DEF CommandType
  <2>2. CASE CommitQueue /\ arena' = [arena EXCEPT !.used = 0, !.gen = @ + 1]
    <3>1. committed' \in Seq(Nat) /\ queue' \in Seq([at : Nat, gen : Nat])
      BY <2>2, CommitType
    <3>2. arena' \in [cap : Nat, used : Nat, gen : Nat]
      BY <2>2, ArenaReset DEF CommandType
    <3>3. QED BY <1>1, <3>1, <3>2 DEF CommandType
  <2>3. QED BY <1>1, <2>1, <2>2
<1>7. Framing' BY <1>1, <1>3, <1>4 DEF Framing
<1>8. Control' BY <1>1, <1>2, <1>3 DEF Control
<1>9. QED BY <1>1, <1>4, <1>5, <1>6, <1>7, <1>8

\* Every step keeps the inductive invariant.
LEMMA NextIInv == IInv /\ [Next]_vars => IInv'
<1> SUFFICES ASSUME IInv, [Next]_vars PROVE IInv' OBVIOUS
<1>1. CASE \E l \in Lens, ok \in BOOLEAN : Send(l, ok) BY <1>1, SendIInv
<1>2. CASE Delivery BY <1>2, ArriveIInv DEF Delivery
<1>3. CASE Enter BY <1>3, EnterIInv
<1>4. CASE ReadHeader BY <1>4, ReadHeaderIInv
<1>5. CASE ReadPayload BY <1>5, ReadPayloadIInv
<1>6. CASE NoPayload \/ NoHeader BY <1>6, NoBytesIInv
<1>7. CASE FlushForMemory BY <1>7, FlushIInv
<1>8. CASE stage = "complete" /\ \E n \in 0 .. ArenaNeed : Decode(n)
  <2>1. PICK n \in 0 .. ArenaNeed : Decode(n) BY <1>8
  <2>2. n \in Nat
    <3>1. wire[front] \in Nat BY <1>8, InsideFrame DEF IInv, TypeOK
    <3>2. ArenaNeed \in Nat BY <3>1, DecoderAssumption DEF ArenaNeed, DecoderAssumption
    <3>3. QED BY <3>2
  <2>3. QED BY <2>1, <2>2, DecodeIInv
<1>9. CASE DecodeFails BY <1>9, DecodeFailsIInv
<1>10. CASE Leave BY <1>10, LeaveIInv
<1>11. CASE UNCHANGED vars
  <2>1. UNCHANGED << wire, bad, sentEnd, arrived, signalled, consumed, size, stage, pc,
                     batch, ret, arena, queue, committed, failed >>
    BY <1>11 DEF vars
  <2>2. StreamType' /\ Contiguous' /\ front' = front
    BY <2>1, SameStream DEF StreamType, IInv, TypeOK
  <2>3. ControlType' /\ CommandType' BY <2>1 DEF ControlType, CommandType, IInv, TypeOK
  <2>4. Framing' BY <2>1, <2>2 DEF Framing, IInv
  <2>5. Control' BY <2>1 DEF Control, IInv
  <2>6. QED BY <2>1, <2>2, <2>3, <2>4, <2>5 DEF IInv, TypeOK
<1>12. QED
  BY <1>1, <1>2, <1>3, <1>4, <1>5, <1>6, <1>7, <1>8, <1>9, <1>10, <1>11
  DEF Next, ProcessStream

\* The inductive invariant behind the theorems about the decoder: frames are contiguous, the
\* context holds a prefix of one, and each point of processStream is reached as Control says.
THEOREM Invariance == Spec => []IInv
<1>1. Init => IInv BY InitIInv
<1>2. IInv /\ [Next]_vars => IInv' BY NextIInv
<1>3. QED BY <1>1, <1>2, PTL DEF Spec

\* Type correctness of the decoder, whatever its constants: in particular a call never
\* handles more commands than its limit.
THEOREM TypeCorrect == Spec => []TypeOK
<1>1. IInv => TypeOK BY DEF IInv
<1>2. QED BY <1>1, Invariance, PTL

\* processStream never loses its place in the stream, however TCP cuts it and wherever
\* a call returns.
THEOREM FramingKept == Spec => []Framing
<1>1. IInv => Framing BY DEF IInv
<1>2. QED BY <1>1, Invariance, PTL

-----------------------------------------------------------------------------
(* What a step does to the commands.                                       *)

\* What a step does to the commands: it writes a frame, changes nothing of them, commits
\* the queue, takes the next command or skips it.
Written ==
  /\ \E l \in Lens :
       wire' = [f \in DOMAIN wire \cup {sentEnd} |-> IF f = sentEnd THEN l ELSE wire[f]]
  /\ front' = front
  /\ UNCHANGED << queue, committed, failed >>

Still == front' = front /\ UNCHANGED << wire, queue, committed, failed >>

Committed == CommitQueue /\ front' = front /\ UNCHANGED << wire, failed >>

Taken ==
  /\ front \in DOMAIN wire \ failed
  /\ front' = FrameEnd(front)
  /\ queue' = Append(queue, [at |-> front, gen |-> arena.gen])
  /\ UNCHANGED << wire, committed, failed >>

Skipped ==
  /\ front \in DOMAIN wire
  /\ front' = FrameEnd(front)
  /\ failed' = failed \cup {front}
  /\ UNCHANGED << wire, queue, committed >>

\* Reading leaves the start of the frame where it is.
LEMMA ReadsAreStill ==
  ASSUME IInv, ReadHeader \/ ReadPayload
  PROVE  Still
<1>1. PICK count \in Int :
        /\ size' = size + count /\ consumed' = consumed + count
        /\ UNCHANGED << wire, queue, committed, failed >>
  <2>1. available \in Int BY Counters DEF available, IInv, TypeOK
  <2>2. CASE ReadHeader
    <3>1. Least(Hdr - size, available) \in Int
      BY <2>1, Counters, Numbers DEF Least, IInv, TypeOK
    <3>2. QED BY <2>2, <3>1 DEF ReadHeader, socketVars
  <2>3. CASE ReadPayload
    <3>1. wire[front] \in Int BY <2>3, InsideFrame DEF ReadPayload, IInv, TypeOK
    <3>2. Least(wire[front] - (size - Hdr), available) \in Int
      BY <2>1, <3>1, Counters, Numbers DEF Least, IInv, TypeOK
    <3>3. QED BY <2>3, <3>2 DEF ReadPayload, socketVars
  <2>4. QED BY <2>2, <2>3
<1>2. front' = front BY <1>1, Counters DEF front, IInv, TypeOK
<1>3. QED BY <1>1, <1>2 DEF Still

\* Every step of the decoder has one of these effects.
LEMMA StepEffect ==
  ASSUME IInv, [Next]_vars
  PROVE  Written \/ Still \/ Committed \/ Taken \/ Skipped
<1> USE DEF IInv, TypeOK
<1>1. ASSUME NEW l \in Lens, NEW ok \in BOOLEAN, Send(l, ok) PROVE Written
  BY <1>1 DEF Send, Written, front, ctxVars
<1>2. ASSUME NEW n \in 1 .. (sentEnd - arrived), Arrive(n) PROVE Still
  BY <1>2 DEF Arrive, Still, front, ctxVars
<1>3. CASE Enter BY <1>3 DEF Enter, Still, front, ctxVars
<1>4. CASE ReadHeader \/ ReadPayload BY <1>4, ReadsAreStill
<1>5. CASE NoPayload \/ NoHeader
  BY <1>5 DEF NoPayload, NoHeader, Still, front, socketVars, ctxVars
<1>6. CASE FlushForMemory
  BY <1>6 DEF FlushForMemory, Committed, front, socketVars, ctxVars
<1>7. ASSUME NEW n, Decode(n) PROVE Taken
  <2>1. /\ ReadyToDecode /\ front \notin bad /\ ResetCurrentCommand
        /\ queue' = Append(queue, [at |-> front, gen |-> arena.gen])
        /\ UNCHANGED << wire, sentEnd, arrived, consumed, committed, failed >>
    BY <1>7 DEF Decode, socketVars
  <2>2. stage = "complete" BY <2>1, DecodePoint
  <2>3. front \in DOMAIN wire BY <2>2, InsideFrame
  <2>4. front' = FrameEnd(front) BY <2>1, <2>2, FrameDone
  <2>5. failed \subseteq bad BY DEF CommandType
  <2>6. QED BY <2>1, <2>3, <2>4, <2>5 DEF Taken
<1>8. CASE DecodeFails
  <2>1. /\ ReadyToDecode /\ ResetCurrentCommand /\ failed' = failed \cup {front}
        /\ UNCHANGED << wire, sentEnd, arrived, consumed, queue, committed >>
    BY <1>8 DEF DecodeFails, socketVars
  <2>2. stage = "complete" BY <2>1, DecodePoint
  <2>3. front \in DOMAIN wire BY <2>2, InsideFrame
  <2>4. front' = FrameEnd(front) BY <2>1, <2>2, FrameDone
  <2>5. QED BY <2>1, <2>3, <2>4 DEF Skipped
<1>9. CASE Leave
  <2>1. CASE batch > 0
    <3>1. stage = "header" /\ size = 0 BY <1>9, <2>1 DEF Leave, Control
    <3>2. CommitQueue /\ size' = 0 /\ UNCHANGED << wire, consumed, failed >>
      BY <1>9, <2>1 DEF Leave, ResetCurrentCommand, socketVars
    <3>3. QED BY <3>1, <3>2 DEF Committed, front
  <2>2. CASE ~ batch > 0
    BY <1>9, <2>2 DEF Leave, Still, front, socketVars, ctxVars
  <2>3. QED BY <2>1, <2>2
<1>10. CASE UNCHANGED vars BY <1>10 DEF vars, Still, front
<1>11. QED
  BY <1>1, <1>2, <1>3, <1>4, <1>5, <1>6, <1>7, <1>8, <1>9, <1>10
  DEF Next, Delivery, ProcessStream

-----------------------------------------------------------------------------
(* Sequences.                                                              *)

Elements(s) == {s[i] : i \in DOMAIN s}

Ascending(s) == \A i, j \in DOMAIN s : i < j => s[i] < s[j]

\* Appending an element adds it to the elements; above all others, it keeps the order.
LEMMA AppendElement ==
  ASSUME NEW s \in Seq(Nat), NEW e \in Nat
  PROVE  /\ Elements(Append(s, e)) = Elements(s) \cup {e}
         /\ Ascending(s) /\ (\A x \in Elements(s) : x < e) => Ascending(Append(s, e))
<1> DEFINE a == Append(s, e)
<1>1. /\ Len(s) \in Nat /\ DOMAIN s = 1 .. Len(s)
      /\ DOMAIN a = 1 .. Len(s) + 1
      /\ \A i \in 1 .. Len(s) : a[i] = s[i]
      /\ a[Len(s) + 1] = e
  BY AppendProperties, LenProperties
<1> HIDE DEF a
<1>2. DOMAIN a = DOMAIN s \cup {Len(s) + 1} BY <1>1
<1>3. Elements(a) = Elements(s) \cup {e} BY <1>1, <1>2 DEF Elements
<1>4. ASSUME Ascending(s), \A x \in Elements(s) : x < e,
             NEW i \in DOMAIN a, NEW j \in DOMAIN a, i < j
      PROVE  a[i] < a[j]
  <2>1. i \in 1 .. Len(s) BY <1>1, <1>4
  <2>2. CASE j = Len(s) + 1
    <3>1. s[i] \in Elements(s) BY <2>1, <1>1 DEF Elements
    <3>2. QED BY <2>1, <2>2, <3>1, <1>1, <1>4
  <2>3. CASE j # Len(s) + 1
    <3>1. j \in 1 .. Len(s) BY <2>3, <1>1
    <3>2. QED BY <2>1, <3>1, <1>1, <1>4 DEF Ascending
  <2>4. QED BY <2>2, <2>3
<1>5. QED BY <1>3, <1>4 DEF a, Ascending

\* The offsets of a queue to which a command is appended.
LEMMA OffsetsAppend ==
  ASSUME NEW q \in Seq([at : Nat, gen : Nat]), NEW c \in [at : Nat, gen : Nat]
  PROVE  Offsets(Append(q, c)) = Append(Offsets(q), c.at)
<1> DEFINE a == Append(q, c)
           s == Offsets(q)
           b == Append(s, c.at)
<1>1. s \in Seq(Nat) /\ Len(s) = Len(q) BY OffsetsType
<1>2. a \in Seq([at : Nat, gen : Nat]) /\ Len(a) = Len(q) + 1 BY AppendProperties
<1>3. Offsets(a) \in Seq(Nat) /\ Len(Offsets(a)) = Len(q) + 1 BY <1>2, OffsetsType
<1>4. c.at \in Nat OBVIOUS
<1>5. b \in Seq(Nat) /\ Len(b) = Len(q) + 1 BY <1>1, <1>4, AppendProperties
<1>6. ASSUME NEW i \in 1 .. Len(q) + 1 PROVE Offsets(a)[i] = b[i]
  <2>1. Len(q) \in Nat /\ DOMAIN q = 1 .. Len(q) BY LenProperties
  <2>2. DOMAIN a = 1 .. Len(q) + 1 BY <1>2, LenProperties
  <2>3. Offsets(a)[i] = a[i].at BY <2>2 DEF Offsets
  <2>4. CASE i \in 1 .. Len(q)
    <3>1. a[i] = q[i] BY <2>4, AppendProperties
    <3>2. b[i] = s[i] BY <2>4, <1>1, <1>4, AppendProperties
    <3>3. s[i] = q[i].at BY <2>1, <2>4 DEF Offsets
    <3>4. QED BY <2>3, <3>1, <3>2, <3>3
  <2>5. CASE i = Len(q) + 1
    <3>1. a[i] = c BY <2>5, AppendProperties
    <3>2. b[i] = c.at BY <2>5, <1>1, <1>4, AppendProperties
    <3>3. QED BY <2>3, <3>1, <3>2
  <2>6. i \in 1 .. Len(q) \/ i = Len(q) + 1 BY <2>1
  <2>7. QED BY <2>4, <2>5, <2>6
<1> HIDE DEF a, s, b
<1>7. Offsets(a) = b BY <1>3, <1>5, <1>6, SeqEqual
<1>8. QED BY <1>7 DEF a, b, s

-----------------------------------------------------------------------------
(* Every command once and in order.                                        *)

\* Frames do not overlap.
Separate == \A f, g \in DOMAIN wire : f < g => FrameEnd(f) <= g

\* A frame that was refused has been read.
FailedBehind == \A f \in failed : f < front

OInv == IInv /\ Separate /\ FailedBehind /\ HandledOnceInOrder

\* The types of what is handed over.
LEMMA AcceptedType ==
  ASSUME IInv
  PROVE  /\ Offsets(queue) \in Seq(Nat) /\ committed \in Seq(Nat) /\ Accepted \in Seq(Nat)
         /\ queue \in Seq([at : Nat, gen : Nat]) /\ arena.gen \in Nat
         /\ front \in Nat /\ DOMAIN wire \subseteq Nat
<1>1. Offsets(queue) \in Seq(Nat) /\ committed \in Seq(Nat)
  BY OffsetsType DEF IInv, TypeOK, CommandType
<1>2. Accepted \in Seq(Nat) BY <1>1, ConcatProperties DEF Accepted
<1>3. front \in Nat BY Counters DEF IInv, TypeOK
<1>4. QED BY <1>1, <1>2, <1>3 DEF IInv, TypeOK, CommandType, StreamType

\* Taking a command appends it to what was handed over; a commit changes nothing of it.
LEMMA AcceptedAfter ==
  ASSUME IInv
  PROVE  /\ Taken => Accepted' = Append(Accepted, front)
         /\ Committed => Accepted' = Accepted
<1> DEFINE q == Offsets(queue)
<1>1. committed \in Seq(Nat) /\ q \in Seq(Nat) BY AcceptedType
<1>2. ASSUME Taken PROVE Accepted' = Append(Accepted, front)
  <2> DEFINE c == [at |-> front, gen |-> arena.gen]
  <2>1. c \in [at : Nat, gen : Nat] /\ c.at = front /\ front \in Nat BY AcceptedType
  <2>2. queue' = Append(queue, c) /\ committed' = committed BY <1>2 DEF Taken
  <2>3. Offsets(Append(queue, c)) = Append(q, front)
    <3>1. Offsets(Append(queue, c)) = Append(q, c.at)
      BY <2>1, AcceptedType, OffsetsAppend
    <3>2. QED BY <2>1, <3>1
  <2>4. Offsets(queue)' = Append(q, front) BY <2>2, <2>3 DEF Offsets
  <2>5. committed \o Append(q, front) = Append(committed \o q, front)
    <3>1. /\ Append(q, front) = q \o << front >>
          /\ Append(committed \o q, front) = (committed \o q) \o << front >>
      BY <1>1, <2>1, AppendIsConcat, ConcatProperties
    <3>2. << front >> \in Seq(Nat) BY <2>1
    <3>3. QED BY <1>1, <3>1, <3>2, ConcatAssociative
  <2>6. QED BY <2>2, <2>4, <2>5 DEF Accepted
<1>3. ASSUME Committed PROVE Accepted' = Accepted
  <2>1. committed' = committed \o q /\ queue' = << >> BY <1>3 DEF Committed, CommitQueue
  <2>2. Offsets(queue)' = << >>
    <3>1. Offsets(<< >>) \in Seq(Nat) /\ Len(Offsets(<< >>)) = 0
      BY EmptySeq, OffsetsType
    <3>2. Offsets(<< >>) = << >> BY <3>1, EmptySeq
    <3>3. QED BY <2>1, <3>2 DEF Offsets
  <2>3. committed \o q \in Seq(Nat) BY <1>1, ConcatProperties
  <2>4. QED BY <2>1, <2>2, <2>3, ConcatEmptySeq DEF Accepted
<1>4. QED BY <1>2, <1>3

\* Initially nothing is handed over.
LEMMA InitOInv == Init => OInv
<1> SUFFICES ASSUME Init PROVE OInv OBVIOUS
<1>1. IInv BY InitIInv
<1>2. DOMAIN wire = {} /\ failed = {} /\ queue = << >> /\ committed = << >> BY DEF Init
<1>3. Separate /\ FailedBehind BY <1>2 DEF Separate, FailedBehind
<1>4. Accepted = << >>
  <2>1. Offsets(<< >>) \in Seq(Nat) /\ Len(Offsets(<< >>)) = 0
    BY EmptySeq, OffsetsType
  <2>2. Offsets(<< >>) = << >> BY <2>1, EmptySeq
  <2>3. QED BY <1>2, <2>2 DEF Accepted
<1>5. HandledOnceInOrder BY <1>2, <1>4 DEF HandledOnceInOrder
<1>6. QED BY <1>1, <1>3, <1>5 DEF OInv

\* What was handed over, as elements and order.
LEMMA InTermsOfElements ==
  HandledOnceInOrder <=>
    Ascending(Accepted) /\ Elements(Accepted) = {f \in DOMAIN wire : f < front} \ failed
BY DEF HandledOnceInOrder, Ascending, Elements

\* A frame written later lies behind everything read.
LEMMA WrittenOInv ==
  ASSUME OInv, Written, IInv'
  PROVE  OInv'
<1> USE DEF OInv
<1>1. PICK l \in Lens :
        wire' = [f \in DOMAIN wire \cup {sentEnd} |-> IF f = sentEnd THEN l ELSE wire[f]]
  BY DEF Written
<1>2. front' = front /\ UNCHANGED << queue, committed, failed >> BY DEF Written
<1>3. /\ sentEnd \in Nat /\ front \in Nat /\ front <= sentEnd /\ DOMAIN wire \subseteq Nat
      /\ \A f \in DOMAIN wire : FrameEnd(f) <= sentEnd /\ FrameEnd(f) \in Nat /\ f < FrameEnd(f)
  BY Counters, FrameBounds, Numbers DEF IInv, TypeOK, StreamType
<1>4. sentEnd \notin DOMAIN wire BY <1>3
<1>5. /\ DOMAIN wire' = DOMAIN wire \cup {sentEnd}
      /\ \A f \in DOMAIN wire : FrameEnd(f)' = FrameEnd(f)
  BY <1>1, <1>4 DEF FrameEnd
<1>6. Separate'
  <2> SUFFICES ASSUME NEW f \in DOMAIN wire', NEW g \in DOMAIN wire', f < g
               PROVE  FrameEnd(f)' <= g
    BY DEF Separate
  <2>1. CASE f = sentEnd
    <3>1. g \in DOMAIN wire /\ g \in Nat BY <2>1, <1>3, <1>5
    <3>2. g < FrameEnd(g) /\ FrameEnd(g) <= sentEnd /\ FrameEnd(g) \in Nat BY <3>1, <1>3
    <3>3. QED BY <2>1, <3>1, <3>2, <1>3
  <2>2. CASE f \in DOMAIN wire /\ g = sentEnd BY <2>2, <1>3, <1>5
  <2>3. CASE f \in DOMAIN wire /\ g \in DOMAIN wire BY <2>3, <1>5 DEF Separate
  <2>4. QED BY <2>1, <2>2, <2>3, <1>5
<1>7. FailedBehind' BY <1>2 DEF FailedBehind
<1>8. Accepted' = Accepted BY <1>2 DEF Accepted, Offsets
<1>9. {f \in DOMAIN wire' : f < front} = {f \in DOMAIN wire : f < front}
  BY <1>3, <1>5
<1>10. HandledOnceInOrder' BY <1>2, <1>8, <1>9 DEF HandledOnceInOrder
<1>11. QED BY <1>6, <1>7, <1>10

\* What lies before the end of the frame at front.
LEMMA BeforeEnd ==
  ASSUME OInv, front \in DOMAIN wire, UNCHANGED wire, front' = FrameEnd(front)
  PROVE  /\ {f \in DOMAIN wire' : f < front'} = {f \in DOMAIN wire : f < front} \cup {front}
         /\ front \in Nat /\ front < front' /\ front' \in Nat
<1>1. /\ front \in Nat /\ DOMAIN wire \subseteq Nat
      /\ FrameEnd(front) \in Nat /\ front < FrameEnd(front)
  BY AcceptedType, FrameBounds, Numbers DEF OInv, IInv, TypeOK
<1>2. ASSUME NEW f \in DOMAIN wire, f < FrameEnd(front) PROVE f < front \/ f = front
  <2>1. ~ front < f BY <1>1, <1>2 DEF OInv, Separate
  <2>2. QED BY <2>1, <1>1
<1>3. QED BY <1>1, <1>2

\* The command taken is the next one of the stream.
LEMMA TakenOInv ==
  ASSUME OInv, Taken, IInv'
  PROVE  OInv'
<1> USE DEF OInv
<1>1. /\ front \in DOMAIN wire \ failed /\ front' = FrameEnd(front)
      /\ UNCHANGED << wire, failed >>
  BY DEF Taken
<1>2. Accepted' = Append(Accepted, front) BY AcceptedAfter
<1>3. /\ {f \in DOMAIN wire' : f < front'} = {f \in DOMAIN wire : f < front} \cup {front}
      /\ front \in Nat /\ front < front' /\ front' \in Nat
  BY <1>1, BeforeEnd
<1>4. Accepted \in Seq(Nat) BY AcceptedType
<1>5. Ascending(Accepted) /\ Elements(Accepted) = {f \in DOMAIN wire : f < front} \ failed
  BY InTermsOfElements
<1>6. Ascending(Accepted') /\ Elements(Accepted') = Elements(Accepted) \cup {front}
  BY <1>2, <1>3, <1>4, <1>5, AppendElement
<1>7. Elements(Accepted') = {f \in DOMAIN wire' : f < front'} \ failed'
  BY <1>1, <1>3, <1>5, <1>6
<1>8. HandledOnceInOrder' BY <1>6, <1>7 DEF HandledOnceInOrder, Ascending, Elements
<1>9. Separate' BY <1>1 DEF Separate, FrameEnd
<1>10. FailedBehind'
  <2>1. failed \subseteq Nat BY AcceptedType DEF IInv, TypeOK, CommandType
  <2>2. QED BY <2>1, <1>1, <1>3 DEF FailedBehind
<1>11. QED BY <1>8, <1>9, <1>10

\* A refused frame joins the failed ones as the stream moves past it.
LEMMA SkippedOInv ==
  ASSUME OInv, Skipped, IInv'
  PROVE  OInv'
<1> USE DEF OInv
<1>1. /\ front \in DOMAIN wire /\ front' = FrameEnd(front) /\ failed' = failed \cup {front}
      /\ UNCHANGED << wire, queue, committed >>
  BY DEF Skipped
<1>2. Accepted' = Accepted BY <1>1 DEF Accepted, Offsets
<1>3. /\ {f \in DOMAIN wire' : f < front'} = {f \in DOMAIN wire : f < front} \cup {front}
      /\ front \in Nat /\ front < front' /\ front' \in Nat
  BY <1>1, BeforeEnd
<1>4. {f \in DOMAIN wire' : f < front'} \ failed' = {f \in DOMAIN wire : f < front} \ failed
  BY <1>1, <1>3
<1>5. HandledOnceInOrder' BY <1>2, <1>4 DEF HandledOnceInOrder
<1>6. Separate' BY <1>1 DEF Separate, FrameEnd
<1>7. FailedBehind'
  <2>1. failed \subseteq Nat BY AcceptedType DEF IInv, TypeOK, CommandType
  <2>2. QED BY <2>1, <1>1, <1>3 DEF FailedBehind
<1>8. QED BY <1>5, <1>6, <1>7

\* The same holds when nothing is taken.
LEMMA OtherOInv ==
  ASSUME OInv, Still \/ Committed, IInv'
  PROVE  OInv'
<1> USE DEF OInv
<1>1. front' = front /\ UNCHANGED << wire, failed >> BY DEF Still, Committed
<1>2. Accepted' = Accepted
  <2>1. CASE Still BY <2>1 DEF Still, Accepted, Offsets
  <2>2. CASE Committed BY <2>2, AcceptedAfter
  <2>3. QED BY <2>1, <2>2
<1>3. HandledOnceInOrder' BY <1>1, <1>2 DEF HandledOnceInOrder
<1>4. Separate' BY <1>1 DEF Separate, FrameEnd
<1>5. FailedBehind' BY <1>1 DEF FailedBehind
<1>6. QED BY <1>3, <1>4, <1>5

\* Every step keeps what is handed over once and in order.
LEMMA NextOInv == OInv /\ [Next]_vars => OInv'
<1> SUFFICES ASSUME OInv, [Next]_vars PROVE OInv' OBVIOUS
<1>1. IInv' BY NextIInv DEF OInv
<1>2. Written \/ Still \/ Committed \/ Taken \/ Skipped BY StepEffect DEF OInv
<1>3. QED BY <1>1, <1>2, WrittenOInv, OtherOInv, TakenOInv, SkippedOInv

\* What holds of the commands in every reachable state.
THEOREM OrderInvariance == Spec => []OInv
<1>1. Init => OInv BY InitOInv
<1>2. OInv /\ [Next]_vars => OInv' BY NextOInv
<1>3. QED BY <1>1, <1>2, PTL DEF Spec

\* Every frame read to its end has been handed over exactly once and in the order of the
\* stream, unless ber_decode refused it, for all constants.
THEOREM OnceInOrder == Spec => []HandledOnceInOrder
<1>1. OInv => HandledOnceInOrder BY DEF OInv
<1>2. QED BY <1>1, OrderInvariance, PTL

-----------------------------------------------------------------------------
(* The decoder implements the command feed.                                *)

feedWritten == [f \in DOMAIN wire |-> Hdr + wire[f]]

\* The feed starts empty.
LEMMA FeedInit == Init => Feed!Init
<1> SUFFICES ASSUME Init PROVE Feed!Init OBVIOUS
<1>1. /\ wire = << >> /\ queue = << >> /\ committed = << >> /\ consumed = 0 /\ size = 0
  BY DEF Init
<1>2. feedWritten = << >>
  <2>1. DOMAIN wire = {} BY <1>1
  <2>2. feedWritten = [f \in {} |-> Hdr + wire[f]] BY <2>1 DEF feedWritten
  <2>3. << >> = [f \in {} |-> Hdr + wire[f]] OBVIOUS
  <2>4. QED BY <2>2, <2>3
<1>3. front = 0 BY <1>1 DEF front
<1>4. Offsets(queue) = << >>
  <2>1. Offsets(<< >>) \in Seq(Nat) /\ Len(Offsets(<< >>)) = 0
    BY EmptySeq, OffsetsType
  <2>2. QED BY <2>1, <1>1, EmptySeq
<1>5. QED BY <1>1, <1>2, <1>3, <1>4 DEF Feed!Init, feedWritten

\* Every step of the decoder is a step of the feed or changes nothing of it.
LEMMA FeedStep == OInv /\ [Next]_vars => [Feed!Next]_(Feed!feed)
<1> SUFFICES ASSUME OInv, [Next]_vars PROVE [Feed!Next]_(Feed!feed) OBVIOUS
<1>1. CASE Written
  <2>1. PICK l \in Lens :
          wire' = [f \in DOMAIN wire \cup {sentEnd} |-> IF f = sentEnd THEN l ELSE wire[f]]
    BY <1>1 DEF Written
  <2>2. front' = front /\ Offsets(queue)' = Offsets(queue) /\ committed' = committed
    BY <1>1 DEF Written, Offsets
  <2>3. /\ sentEnd \in Nat /\ front <= sentEnd /\ l \in Nat
        /\ \A f \in DOMAIN wire :
             /\ f \in Nat /\ wire[f] \in Nat
             /\ f + (Hdr + wire[f]) <= sentEnd /\ f < sentEnd
    <3>1. sentEnd \in Nat /\ front <= sentEnd /\ l \in Nat
      BY Counters, Numbers DEF OInv, IInv, TypeOK
    <3>2. ASSUME NEW f \in DOMAIN wire
          PROVE  f \in Nat /\ wire[f] \in Nat /\ f + (Hdr + wire[f]) <= sentEnd /\ f < sentEnd
      <4>1. f \in Nat /\ wire[f] \in Nat /\ FrameEnd(f) <= sentEnd
        BY FrameBounds DEF OInv, IInv, TypeOK
      <4>2. QED BY <3>1, <4>1, Numbers DEF FrameEnd
    <3>3. QED BY <3>1, <3>2
  <2>4. sentEnd \notin DOMAIN wire BY <2>3
  <2>5. /\ DOMAIN wire' = DOMAIN wire \cup {sentEnd} /\ wire'[sentEnd] = l
        /\ \A f \in DOMAIN wire : wire'[f] = wire[f]
    BY <2>1, <2>4
  <2>6. /\ DOMAIN feedWritten = DOMAIN wire
        /\ DOMAIN feedWritten' = DOMAIN wire \cup {sentEnd}
        /\ feedWritten'[sentEnd] = Hdr + l
        /\ \A f \in DOMAIN wire :
             feedWritten'[f] = feedWritten[f] /\ feedWritten[f] = Hdr + wire[f]
    BY <2>5 DEF feedWritten
  <2>7. Hdr + l > 0 BY <2>3, Numbers
  <2>8. Feed!Write
    <3>1. \E f \in DOMAIN feedWritten' \ DOMAIN feedWritten :
            /\ DOMAIN feedWritten' = DOMAIN feedWritten \cup {f}
            /\ feedWritten'[f] > 0
            /\ front <= f
            /\ \A g \in DOMAIN feedWritten :
                 feedWritten'[g] = feedWritten[g] /\ g + feedWritten[g] <= f
      BY <2>3, <2>4, <2>6, <2>7
    <3>2. QED BY <2>2, <3>1 DEF Feed!Write, feedWritten
  <2>9. QED BY <2>8 DEF Feed!Next
<1>2. CASE Still
  <2>1. front' = front /\ UNCHANGED << wire, queue, committed >> BY <1>2 DEF Still
  <2>2. feedWritten' = feedWritten /\ Offsets(queue)' = Offsets(queue)
    BY <2>1 DEF feedWritten, Offsets
  <2>3. QED BY <2>1, <2>2 DEF Feed!feed, feedWritten
<1>3. CASE Committed
  <2>1. /\ committed' = committed \o Offsets(queue) /\ queue' = << >>
        /\ wire' = wire /\ front' = front
    BY <1>3 DEF Committed, CommitQueue
  <2>2. Offsets(queue)' = << >>
    <3>1. Offsets(<< >>) \in Seq(Nat) /\ Len(Offsets(<< >>)) = 0
      BY EmptySeq, OffsetsType
    <3>2. Offsets(<< >>) = << >> BY <3>1, EmptySeq
    <3>3. QED BY <2>1, <3>2 DEF Offsets
  <2>3. feedWritten' = feedWritten BY <2>1 DEF feedWritten
  <2>4. CASE Offsets(queue) # << >>
    <3>1. Feed!Show BY <2>1, <2>2, <2>3, <2>4 DEF Feed!Show, feedWritten
    <3>2. QED BY <3>1 DEF Feed!Next
  <2>5. CASE Offsets(queue) = << >>
    <3>1. committed' = committed BY <2>1, <2>5, AcceptedType, ConcatEmptySeq DEF OInv
    <3>2. QED BY <2>1, <2>2, <2>3, <2>5, <3>1 DEF Feed!feed, feedWritten
  <2>6. QED BY <2>4, <2>5
<1>4. CASE Taken \/ Skipped
  <2>1. /\ front \in DOMAIN wire /\ front' = FrameEnd(front)
        /\ wire' = wire /\ committed' = committed
    BY <1>4 DEF Taken, Skipped
  <2>2. feedWritten' = feedWritten /\ DOMAIN feedWritten = DOMAIN wire
        /\ feedWritten[front] = Hdr + wire[front]
    BY <2>1 DEF feedWritten
  <2>3. front' = front + feedWritten[front]
    <3>1. front \in Nat /\ wire[front] \in Nat
      BY <2>1, FrameBounds DEF OInv, IInv, TypeOK
    <3>2. QED BY <2>1, <2>2, <3>1, Numbers DEF FrameEnd
  <2>4. CASE Taken
    <3>1. Offsets(queue)' = Append(Offsets(queue), front)
      <4> DEFINE c == [at |-> front, gen |-> arena.gen]
      <4>1. c \in [at : Nat, gen : Nat] /\ c.at = front
        BY AcceptedType DEF OInv
      <4>2. queue' = Append(queue, c) BY <2>4 DEF Taken
      <4>3. Offsets(Append(queue, c)) = Append(Offsets(queue), c.at)
        BY <4>1, AcceptedType, OffsetsAppend DEF OInv
      <4>4. QED BY <4>1, <4>2, <4>3 DEF Offsets
    <3>2. Feed!Take BY <2>1, <2>2, <2>3, <3>1 DEF Feed!Take, feedWritten
    <3>3. QED BY <3>2 DEF Feed!Next
  <2>5. CASE Skipped
    <3>1. Offsets(queue)' = Offsets(queue) BY <2>5 DEF Skipped, Offsets
    <3>2. Feed!Skip BY <2>1, <2>2, <2>3, <3>1 DEF Feed!Skip, feedWritten
    <3>3. QED BY <3>2 DEF Feed!Next
  <2>6. QED BY <1>4, <2>4, <2>5
<1>5. QED BY <1>1, <1>2, <1>3, <1>4, StepEffect DEF OInv

\* processStream implements the command feed: it takes, skips and shows commands exactly as
\* CommandFeed allows, whatever the constants.
THEOREM ImplementsFeed == Spec => FeedSpec
<1>1. Init => Feed!Init BY FeedInit
<1>2. OInv /\ [Next]_vars => [Feed!Next]_(Feed!feed) BY FeedStep
<1>3. QED BY <1>1, <1>2, OrderInvariance, PTL DEF Spec, FeedSpec, Feed!Spec

-----------------------------------------------------------------------------
(* What a call leaves behind.                                              *)

\* The commands in the queue lie before the frame that is being read.
LEMMA QueueBehind ==
  ASSUME OInv
  PROVE  /\ \A i \in DOMAIN queue : queue[i].at \in Nat /\ queue[i].at < front
         /\ queue # << >> => Len(queue) \in DOMAIN queue
<1> DEFINE q == Offsets(queue)
<1>1. /\ queue \in Seq([at : Nat, gen : Nat]) /\ committed \in Seq(Nat)
      /\ q \in Seq(Nat) /\ Len(q) = Len(queue)
  BY AcceptedType, OffsetsType DEF OInv
<1>2. ASSUME NEW i \in DOMAIN queue PROVE queue[i].at \in Nat /\ queue[i].at < front
  <2>1. i \in 1 .. Len(queue) /\ Len(queue) \in Nat BY <1>1, LenProperties
  <2>2. q[i] = queue[i].at BY DEF Offsets
  <2>3. q[i] \in Nat BY <1>1, <2>1, ElementOfSeq
  <2>4. /\ Len(committed) \in Nat
        /\ Len(Accepted) = Len(committed) + Len(queue)
        /\ \A j \in 1 .. Len(committed) + Len(queue) :
             Accepted[j] = IF j <= Len(committed) THEN committed[j] ELSE q[j - Len(committed)]
        /\ Accepted \in Seq(Nat)
    <3>1. Len(committed) \in Nat BY <1>1, LenProperties
    <3>2. Accepted = committed \o q BY DEF Accepted
    <3> HIDE DEF q
    <3>3. /\ committed \o q \in Seq(Nat)
          /\ Len(committed \o q) = Len(committed) + Len(q)
          /\ \A j \in 1 .. Len(committed) + Len(q) :
               (committed \o q)[j] =
                 IF j <= Len(committed) THEN committed[j] ELSE q[j - Len(committed)]
      BY <1>1, ConcatProperties
    <3>4. QED BY <1>1, <3>1, <3>2, <3>3
  <2> DEFINE j == Len(committed) + i
  <2>5. j \in 1 .. Len(committed) + Len(queue) /\ ~ j <= Len(committed) /\ j - Len(committed) = i
    BY <2>1, <2>4
  <2>6. Accepted[j] = q[i] BY <2>4, <2>5
  <2>7. j \in DOMAIN Accepted BY <2>4, <2>5, LenProperties
  <2>8. Accepted[j] < front BY <2>7 DEF OInv, HandledOnceInOrder
  <2>9. QED BY <2>2, <2>3, <2>6, <2>8
<1>3. queue # << >> => Len(queue) \in DOMAIN queue BY <1>1, EmptySeq, LenProperties
<1>4. QED BY <1>2, <1>3

\* What FlushForMemory leaves to the decoder.
GrownArena == pc = "decode" => arena.used = 0 /\ Grow <= arena.cap

\* What is queued between two calls has something behind it that brings the next call back.
QueuePending ==
  queue # << >> =>
    \/ pc # "idle" /\ batch > 0
    \/ size > 0
    \/ \E f \in failed : f > queue[Len(queue)].at

\* Allocating what was estimated never grows the arena, if one step is enough for any command.
LEMMA NoGrowth ==
  ASSUME OInv, GrownArena, GrowthCovers, ReadyToDecode, stage = "complete",
         NEW n \in Nat, n <= ArenaNeed, Malloc(n)
  PROVE  arena'.gen = arena.gen
<1>1. arena.cap \in Nat /\ arena.used \in Nat /\ arena \in [cap : Nat, used : Nat, gen : Nat]
  BY DEF OInv, IInv, TypeOK, CommandType
<1>2. front \in DOMAIN wire /\ wire[front] \in Lens /\ wire[front] \in Nat
  BY InsideFrame DEF OInv, IInv, TypeOK, StreamType
<1>3. ArenaNeed \in Nat /\ ArenaNeed <= Grow /\ Grow \in Nat
  BY <1>2, DecoderAssumption DEF ArenaNeed, GrowthCovers, DecoderAssumption
<1>4. arena.used + n <= arena.cap
  <2>1. CASE pc = "decode" BY <2>1, <1>1, <1>3 DEF GrownArena
  <2>2. CASE pc # "decode"
    <3>1. ~ (arena.cap - arena.used < ArenaNeed) BY <2>2 DEF ReadyToDecode, ArenaShort
    <3>2. QED BY <3>1, <1>1, <1>3
  <2>3. QED BY <2>1, <2>2
<1>5. arena' = [arena EXCEPT !.used = @ + n] BY <1>4 DEF Malloc
<1>6. QED BY <1>1, <1>5

\* What is queued stays valid when a step touches neither the queue nor the arena.
LEMMA NothingLeft ==
  ASSUME UNCHANGED << queue, arena, failed >>, pc' = "decode" => pc = "decode"
  PROVE  (GrownArena => GrownArena') /\ (QueueMemoryLive => QueueMemoryLive')
BY DEF GrownArena, QueueMemoryLive, GrowthCovers

\* Nothing queued points anywhere once the queue is committed.
LEMMA CommittedMemory ==
  ASSUME CommitQueue
  PROVE  QueueMemoryLive' /\ QueuePending'
<1>1. queue' = << >> BY DEF CommitQueue
<1>2. DOMAIN queue' = {} BY <1>1
<1>3. QED BY <1>1, <1>2 DEF QueueMemoryLive, QueuePending

\* Emptying the arena after a frame was refused is what QueueMemoryLive allows.
LEMMA SkippedMemory ==
  ASSUME OInv, Skipped
  PROVE  QueueMemoryLive' /\ QueuePending'
<1>1. front \in failed' /\ queue' = queue BY DEF Skipped
<1>2. front \in Nat BY AcceptedType DEF OInv
<1>3. \A i \in DOMAIN queue : front > queue[i].at
  BY <1>2, QueueBehind
<1>4. QueueMemoryLive' BY <1>1, <1>3 DEF QueueMemoryLive
<1>5. QueuePending' BY <1>1, <1>3, QueueBehind DEF QueuePending
<1>6. QED BY <1>4, <1>5

\* A command is queued in the arena as it is, and more of the batch is to come.
LEMMA TakenMemory ==
  ASSUME OInv, GrownArena, QueueMemoryLive, stage = "complete",
         NEW n \in 0 .. ArenaNeed, Decode(n)
  PROVE  QueueMemoryLive' /\ GrownArena' /\ QueuePending'
<1>1. /\ ReadyToDecode /\ Malloc(n)
      /\ queue' = Append(queue, [at |-> front, gen |-> arena.gen])
      /\ batch' = batch + 1 /\ pc' \in {"leave", "loop"} /\ failed' = failed
  BY DEF Decode, AfterCommand
<1>2. batch \in Nat /\ batch' > 0 BY <1>1, Numbers DEF OInv, IInv, TypeOK
<1>3. n \in Nat /\ n <= ArenaNeed
  <2>1. wire[front] \in Nat BY InsideFrame DEF OInv, IInv, TypeOK
  <2>2. ArenaNeed \in Nat BY <2>1, DecoderAssumption DEF ArenaNeed, DecoderAssumption
  <2>3. QED BY <2>2
<1>4. QueueMemoryLive'
  <2> SUFFICES ASSUME GrowthCovers, NEW i \in DOMAIN queue'
               PROVE  queue'[i].gen = arena'.gen \/ \E f \in failed : f > queue'[i].at
    BY <1>1 DEF QueueMemoryLive, GrowthCovers
  <2> DEFINE c == [at |-> front, gen |-> arena.gen]
  <2>1. arena'.gen = arena.gen BY <1>1, <1>3, NoGrowth
  <2>2. c \in [at : Nat, gen : Nat] /\ c.gen = arena.gen BY AcceptedType DEF OInv
  <2>3. /\ Len(queue) \in Nat /\ DOMAIN queue = 1 .. Len(queue)
        /\ queue \in Seq([at : Nat, gen : Nat])
    BY AcceptedType, LenProperties DEF OInv
  <2> HIDE DEF c
  <2>4. /\ Append(queue, c) \in Seq([at : Nat, gen : Nat])
        /\ Len(Append(queue, c)) = Len(queue) + 1
        /\ \A j \in 1 .. Len(queue) : Append(queue, c)[j] = queue[j]
        /\ Append(queue, c)[Len(queue) + 1] = c
    BY <2>2, <2>3, AppendProperties
  <2>5. queue' = Append(queue, c) BY <1>1 DEF c
  <2>6. DOMAIN queue' = 1 .. Len(queue) + 1 BY <2>4, <2>5, LenProperties
  <2>7. i \in DOMAIN queue \/ i = Len(queue) + 1 BY <2>3, <2>6
  <2>8. CASE i \in DOMAIN queue
    <3>1. queue'[i] = queue[i] BY <2>3, <2>4, <2>5, <2>8
    <3>2. queue[i].gen = arena.gen \/ \E f \in failed : f > queue[i].at
      BY <2>8 DEF QueueMemoryLive
    <3>3. QED BY <2>1, <3>1, <3>2
  <2>9. CASE i = Len(queue) + 1 BY <2>1, <2>2, <2>4, <2>5, <2>9
  <2>10. QED BY <2>7, <2>8, <2>9
<1>5. GrownArena' BY <1>1 DEF GrownArena
<1>6. QueuePending' BY <1>1, <1>2 DEF QueuePending
<1>7. QED BY <1>4, <1>5, <1>6

MInv == OInv /\ GrownArena /\ QueueMemoryLive /\ QueuePending

\* Initially nothing is queued.
LEMMA InitMInv == Init => MInv
<1> SUFFICES ASSUME Init PROVE MInv OBVIOUS
<1>1. OInv BY InitOInv
<1>2. pc = "idle" /\ queue = << >> BY DEF Init
<1>3. DOMAIN queue = {} BY <1>2
<1>4. QED BY <1>1, <1>2, <1>3 DEF MInv, GrownArena, QueueMemoryLive, QueuePending

\* The parts of the invariant the steps compute with.
LEMMA MInvParts ==
  ASSUME MInv
  PROVE  OInv /\ IInv /\ StreamType /\ Contiguous /\ Framing /\ CommandType
BY DEF MInv, OInv, IInv, TypeOK

\* Reading leaves bytes of a frame in the context.
LEMMA ReadsMInv ==
  ASSUME MInv, ReadHeader \/ ReadPayload, OInv'
  PROVE  MInv'
<1>1. /\ UNCHANGED << queue, arena, failed >> /\ pc = "loop" /\ pc' \in {"loop", "idle"}
  BY DEF ReadHeader, ReadPayload, NeedMore
<1>2. PICK count \in Int : count > 0 /\ size' = size + count
  <2>1. available \in Int BY MInvParts, Counters DEF available
  <2>2. CASE ReadHeader
    <3>1. Least(Hdr - size, available) \in Int
      BY <2>1, MInvParts, Counters, Numbers DEF Least
    <3>2. QED BY <2>2, <3>1 DEF ReadHeader
  <2>3. CASE ReadPayload
    <3>1. wire[front] \in Int
      BY <2>3, MInvParts, InsideFrame DEF ReadPayload
    <3>2. Least(wire[front] - (size - Hdr), available) \in Int
      BY <2>1, <3>1, MInvParts, Counters, Numbers DEF Least
    <3>3. QED BY <2>3, <3>2 DEF ReadPayload
  <2>4. QED BY <2>2, <2>3
<1>3. size' > 0 BY <1>2, MInvParts, Counters
<1>4. QueuePending' BY <1>3 DEF QueuePending
<1>5. QED BY <1>1, <1>4, NothingLeft DEF MInv

\* Leaving a call: a batch is committed, and without one nothing new is in the queue.
LEMMA LeaveMInv ==
  ASSUME MInv, Leave, OInv'
  PROVE  MInv'
<1>1. pc = "leave" /\ pc' = "idle" BY DEF Leave
<1>2. GrownArena' BY <1>1 DEF GrownArena
<1>3. CASE batch > 0
  <2>1. CommitQueue BY <1>3 DEF Leave
  <2>2. QED BY <1>2, <2>1, CommittedMemory DEF MInv
<1>4. CASE ~ batch > 0
  <2>1. UNCHANGED << queue, size, arena, failed >> BY <1>4 DEF Leave, ctxVars
  <2>2. QueueMemoryLive' BY <1>1, <2>1, NothingLeft DEF MInv
  <2>3. QueuePending' BY <1>4, <2>1 DEF MInv, QueuePending
  <2>4. QED BY <1>2, <2>2, <2>3 DEF MInv
<1>5. QED BY <1>3, <1>4

\* Every step keeps the queued commands valid and followed up.
LEMMA NextMInv == MInv /\ [Next]_vars => MInv'
<1> SUFFICES ASSUME MInv, [Next]_vars PROVE MInv' OBVIOUS
<1>1. OInv' BY NextOInv DEF MInv
<1>2. ASSUME NEW l \in Lens, NEW ok \in BOOLEAN, Send(l, ok) PROVE MInv'
  <2>1. UNCHANGED << pc, batch, queue, size, arena, failed >> BY <1>2 DEF Send, ctxVars
  <2>2. QueuePending' BY <2>1 DEF MInv, QueuePending
  <2>3. QED BY <1>1, <2>1, <2>2, NothingLeft DEF MInv
<1>3. ASSUME NEW n \in 1 .. (sentEnd - arrived), Arrive(n) PROVE MInv'
  <2>1. UNCHANGED << pc, batch, queue, size, arena, failed >> BY <1>3 DEF Arrive, ctxVars
  <2>2. QueuePending' BY <2>1 DEF MInv, QueuePending
  <2>3. QED BY <1>1, <2>1, <2>2, NothingLeft DEF MInv
<1>4. CASE Enter
  <2>1. UNCHANGED << queue, size, arena, failed >> /\ pc = "idle" /\ pc' = "loop"
    BY <1>4 DEF Enter, ctxVars
  <2>2. QueuePending' BY <2>1 DEF MInv, QueuePending
  <2>3. QED BY <1>1, <2>1, <2>2, NothingLeft DEF MInv
<1>5. CASE ReadHeader \/ ReadPayload BY <1>1, <1>5, ReadsMInv
<1>6. CASE NoPayload
  <2>1. /\ UNCHANGED << queue, size, arena, failed >> /\ stage = "payload"
        /\ pc' = "idle"
    BY <1>6 DEF NoPayload, NeedMore, ctxVars
  <2>2. Hdr <= size /\ size \in Nat
    BY <2>1, MInvParts, InsideFrame, Counters
  <2>3. QueuePending'
    <3>1. size > 0 BY <2>2, Numbers
    <3>2. QED BY <2>1, <3>1 DEF QueuePending
  <2>4. QED BY <1>1, <2>1, <2>3, NothingLeft DEF MInv
<1>7. CASE NoHeader
  <2>1. /\ UNCHANGED << queue, size, arena, failed, batch >> /\ pc = "loop" /\ pc' = "leave"
    BY <1>7 DEF NoHeader, ctxVars
  <2>2. QueuePending' BY <2>1 DEF MInv, QueuePending
  <2>3. QED BY <1>1, <2>1, <2>2, NothingLeft DEF MInv
<1>8. CASE FlushForMemory
  <2>1. CommitQueue /\ arena' = [cap |-> arena.cap + Grow, used |-> 0, gen |-> arena.gen + 1]
    BY <1>8 DEF FlushForMemory
  <2>2. arena'.used = 0 /\ arena'.cap = arena.cap + Grow BY <2>1
  <2>3. arena.cap \in Nat /\ Grow \in Nat
    BY DecoderAssumption, MInvParts DEF DecoderAssumption, CommandType
  <2>4. GrownArena' BY <2>2, <2>3 DEF GrownArena
  <2>5. QED BY <1>1, <2>1, <2>4, CommittedMemory DEF MInv
<1>9. ASSUME stage = "complete", NEW n \in 0 .. ArenaNeed, Decode(n) PROVE MInv'
  BY <1>1, <1>9, TakenMemory DEF MInv
<1>10. CASE DecodeFails
  <2>1. pc' = "idle" BY <1>10 DEF DecodeFails
  <2>2. Skipped
    <3>1. /\ ReadyToDecode /\ ResetCurrentCommand /\ failed' = failed \cup {front}
          /\ UNCHANGED << wire, sentEnd, arrived, consumed, queue, committed >>
      BY <1>10 DEF DecodeFails, socketVars
    <3>2. stage = "complete" BY <3>1, DecodePoint, MInvParts
    <3>3. front \in DOMAIN wire BY <3>2, InsideFrame, MInvParts
    <3>4. front' = FrameEnd(front) BY <3>1, <3>2, FrameDone, MInvParts
    <3>5. QED BY <3>1, <3>3, <3>4 DEF Skipped
  <2>3. GrownArena' BY <2>1 DEF GrownArena
  <2>4. QED BY <1>1, <2>2, <2>3, SkippedMemory DEF MInv
<1>11. CASE Leave BY <1>1, <1>11, LeaveMInv
<1>12. CASE UNCHANGED vars
  <2>1. UNCHANGED << pc, batch, queue, size, arena, failed >> BY <1>12 DEF vars
  <2>2. QueuePending' BY <2>1 DEF MInv, QueuePending
  <2>3. QED BY <1>1, <2>1, <2>2, NothingLeft DEF MInv
<1>13. QED
  BY <1>2, <1>3, <1>4, <1>5, <1>6, <1>7, <1>8, <1>9, <1>10, <1>11, <1>12
  DEF Next, Delivery, ProcessStream

\* What a call leaves behind, in every reachable state.
THEOREM MemoryInvariance == Spec => []MInv
<1>1. Init => MInv BY InitMInv
<1>2. MInv /\ [Next]_vars => MInv' BY NextMInv
<1>3. QED BY <1>1, <1>2, PTL DEF Spec

\* No command waiting in the queue points into memory the arena has given up, unless a
\* later frame was refused, for all constants.
THEOREM MemoryLive == Spec => []QueueMemoryLive
<1>1. MInv => QueueMemoryLive BY DEF MInv
<1>2. QED BY <1>1, MemoryInvariance, PTL

\* A call leaves commands uncommitted only with a frame begun or refused behind them, for
\* all constants.
THEOREM PendingMidFrame == Spec => []PendingOnlyMidFrame
<1>1. MInv => PendingOnlyMidFrame BY DEF MInv, QueuePending, PendingOnlyMidFrame
<1>2. QED BY <1>1, MemoryInvariance, PTL

-----------------------------------------------------------------------------
(* What is left in the socket.                                             *)

\* A payload that has begun is incomplete, and the loop is left with a full batch or with
\* nothing to read.
SocketEmpty ==
  /\ stage = "payload" => wire[front] = 0 \/ size < Hdr + wire[front]
  /\ pc = "leave" => batch >= BatchMax \/ available = 0

BInv == IInv /\ SocketEmpty /\ BacklogOnlyAfterBreak

\* The parts of the invariant, and the counters as numbers.
LEMMA BInvParts ==
  ASSUME BInv
  PROVE  /\ IInv /\ StreamType /\ Framing /\ CommandType
         /\ available \in Nat /\ front \in Nat /\ size \in Nat /\ consumed \in Nat
         /\ arrived \in Nat /\ available = arrived - consumed
<1>1. IInv /\ StreamType /\ Framing /\ CommandType BY DEF BInv, IInv, TypeOK
<1>2. QED BY <1>1, Counters DEF available

\* Initially the socket is empty.
LEMMA InitBInv == Init => BInv
<1> SUFFICES ASSUME Init PROVE BInv OBVIOUS
<1>1. IInv BY InitIInv
<1>2. stage = "header" /\ pc = "idle" /\ available = 0 BY DEF Init, available
<1>3. QED BY <1>1, <1>2 DEF BInv, SocketEmpty, BacklogOnlyAfterBreak

\* A header that is incomplete has used up the socket; a complete one has its payload before it.
LEMMA ReadHeaderBInv ==
  ASSUME BInv, ReadHeader, IInv'
  PROVE  BInv'
<1> DEFINE count == Least(Hdr - size, available)
<1>1. /\ pc = "loop" /\ size' = size + count /\ consumed' = consumed + count
      /\ UNCHANGED << wire, arrived >>
      /\ IF size + count = Hdr
           THEN stage' = "payload" /\ pc' = pc
           ELSE pc' = "idle" /\ stage' = stage /\ stage = "header"
  BY DEF ReadHeader, NeedMore, socketVars
<1>2. count \in Int /\ (count = Hdr - size \/ count = available)
  BY BInvParts, Numbers DEF Least
<1> HIDE DEF count
<1>3. available' = available - count /\ available' \in Int
  BY <1>1, <1>2, BInvParts DEF available
<1>4. CASE size + count = Hdr
  <2>1. stage' = "payload" /\ pc' = "loop" /\ size' = Hdr BY <1>1, <1>4
  <2>2. StreamType' /\ Framing' BY DEF IInv, TypeOK
  <2>3. front' \in DOMAIN wire' BY <2>1, <2>2, Numbers DEF Framing
  <2>4. wire'[front'] \in Nat BY <2>2, <2>3, Numbers DEF StreamType
  <2>5. wire'[front'] = 0 \/ size' < Hdr + wire'[front'] BY <2>1, <2>4, Numbers
  <2>6. QED BY <2>1, <2>5 DEF BInv, SocketEmpty, BacklogOnlyAfterBreak
<1>5. CASE size + count # Hdr
  <2>1. stage' = "header" /\ pc' = "idle" BY <1>1, <1>5
  <2>2. count = available BY <1>2, <1>5, BInvParts, Numbers
  <2>3. ~ available' > 0 BY <1>3, <2>2, BInvParts
  <2>4. QED BY <2>1, <2>3 DEF BInv, SocketEmpty, BacklogOnlyAfterBreak
<1>6. QED BY <1>4, <1>5

\* A payload that is incomplete has used up the socket.
LEMMA ReadPayloadBInv ==
  ASSUME BInv, ReadPayload, IInv'
  PROVE  BInv'
<1> DEFINE w == wire[front]
           count == Least(w - (size - Hdr), available)
<1>1. /\ pc = "loop" /\ stage = "payload" /\ count > 0
      /\ size' = size + count /\ consumed' = consumed + count
      /\ UNCHANGED << wire, arrived >>
      /\ IF size + count = Hdr + w
           THEN stage' = "complete" /\ pc' = pc
           ELSE pc' = "idle" /\ stage' = stage
  BY DEF ReadPayload, NeedMore, socketVars
<1>2. w \in Nat BY <1>1, BInvParts, InsideFrame
<1> HIDE DEF w
<1>3. count \in Int /\ (count = w - (size - Hdr) \/ count = available)
      /\ count <= w - (size - Hdr)
  BY <1>2, BInvParts, Numbers DEF Least
<1> HIDE DEF count
<1>4. available' = available - count /\ available' \in Int /\ front' = front
  BY <1>1, <1>3, BInvParts DEF available, front
<1>5. CASE size + count = Hdr + w
  BY <1>1, <1>5 DEF BInv, SocketEmpty, BacklogOnlyAfterBreak
<1>6. CASE size + count # Hdr + w
  <2>1. pc' = "idle" BY <1>1, <1>6
  <2>2. count = available BY <1>2, <1>3, <1>6, BInvParts, Numbers
  <2>3. ~ available' > 0 BY <1>4, <2>2, BInvParts
  <2>4. size' < Hdr + w BY <1>1, <1>2, <1>3, <1>6, BInvParts, Numbers
  <2>5. wire'[front'] = w BY <1>1, <1>4 DEF w
  <2>6. SocketEmpty' BY <2>1, <2>4, <2>5 DEF SocketEmpty
  <2>7. QED BY <2>1, <2>3, <2>6 DEF BInv, BacklogOnlyAfterBreak
<1>7. QED BY <1>5, <1>6

\* Reading nothing means that there is nothing, or that nothing was asked for.
LEMMA NoBytesBInv ==
  ASSUME BInv, NoPayload \/ NoHeader, IInv'
  PROVE  BInv'
<1>1. CASE NoHeader
  <2>1. /\ stage = "header" /\ Least(Hdr - size, available) = 0
        /\ UNCHANGED << arrived, consumed, stage >> /\ pc' = "leave"
    BY <1>1 DEF NoHeader, socketVars, ctxVars
  <2>2. size < Hdr BY <2>1, BInvParts DEF Framing
  <2>3. available = 0 BY <2>1, <2>2, BInvParts, Numbers DEF Least
  <2>4. available' = 0 BY <2>1, <2>3 DEF available
  <2>5. QED BY <2>1, <2>4 DEF BInv, SocketEmpty, BacklogOnlyAfterBreak
<1>2. CASE NoPayload
  <2> DEFINE w == wire[front]
  <2>1. /\ stage = "payload" /\ Least(w - (size - Hdr), available) = 0
        /\ UNCHANGED << wire, arrived, consumed, size, stage >> /\ pc' = "idle"
    BY <1>2 DEF NoPayload, NeedMore, socketVars, ctxVars
  <2>2. w \in Nat BY <2>1, BInvParts, InsideFrame
  <2>3. w = 0 \/ size < Hdr + w BY <2>1 DEF BInv, SocketEmpty
  <2>4. front' = front /\ available' = available /\ wire'[front'] = w
    BY <2>1 DEF front, available
  <2> HIDE DEF w
  <2>5. w = 0 \/ available = 0
    BY <2>1, <2>2, <2>3, BInvParts, Numbers DEF Least
  <2>6. SocketEmpty' BY <2>1, <2>3, <2>4 DEF SocketEmpty
  <2>7. BacklogOnlyAfterBreak'
    BY <2>1, <2>4, <2>5, BInvParts DEF BacklogOnlyAfterBreak
  <2>8. QED BY <2>6, <2>7 DEF BInv
<1>3. QED BY <1>1, <1>2

\* A call that ends after the loop had a full batch or an empty socket.
LEMMA LeaveBInv ==
  ASSUME BInv, Leave, IInv'
  PROVE  BInv'
<1>1. /\ pc = "leave" /\ pc' = "idle" /\ UNCHANGED << wire, arrived, consumed, batch >>
      /\ ret' = IF batch >= BatchMax THEN "full" ELSE "ok"
  BY DEF Leave, socketVars
<1>2. stage = "header" BY <1>1 DEF BInv, IInv, Control
<1>3. stage' = "header"
  BY <1>2 DEF Leave, ResetCurrentCommand, ctxVars
<1>4. batch >= BatchMax \/ available = 0 BY <1>1 DEF BInv, SocketEmpty
<1>5. available' = available BY <1>1 DEF available
<1>6. SocketEmpty' BY <1>1, <1>3 DEF SocketEmpty
<1>7. BacklogOnlyAfterBreak'
  <2>1. CASE batch >= BatchMax BY <1>1, <2>1 DEF BacklogOnlyAfterBreak
  <2>2. CASE available = 0 BY <1>5, <2>2 DEF BacklogOnlyAfterBreak
  <2>3. QED BY <1>4, <2>1, <2>2
<1>8. QED BY <1>6, <1>7 DEF BInv

\* Every step accounts for what it leaves in the socket.
LEMMA NextBInv == BInv /\ [Next]_vars => BInv'
<1> SUFFICES ASSUME BInv, [Next]_vars PROVE BInv' OBVIOUS
<1>1. IInv' BY NextIInv DEF BInv
<1>2. ASSUME NEW l \in Lens, NEW ok \in BOOLEAN, Send(l, ok) PROVE BInv'
  <2>1. /\ UNCHANGED << arrived, signalled, consumed, size, stage, pc, batch, ret >>
        /\ wire' = [f \in DOMAIN wire \cup {sentEnd} |-> IF f = sentEnd THEN l ELSE wire[f]]
    BY <1>2 DEF Send, ctxVars
  <2>2. front' = front /\ available' = available BY <2>1 DEF front, available
  <2>3. stage = "payload" => wire'[front] = wire[front]
    <3>1. SUFFICES ASSUME stage = "payload" PROVE wire'[front] = wire[front] OBVIOUS
    <3>2. front \in DOMAIN wire BY <3>1, BInvParts, InsideFrame
    <3>3. front # sentEnd
      <4>1. Contiguous BY DEF BInv, IInv
      <4>2. /\ FrameEnd(front) \in Nat /\ front + Hdr <= FrameEnd(front)
            /\ FrameEnd(front) <= sentEnd
        BY <3>2, <4>1, BInvParts, FrameBounds
      <4>3. QED BY <4>2, BInvParts, Numbers, Counters
    <3>4. QED BY <2>1, <3>2, <3>3
  <2>4. SocketEmpty' BY <2>1, <2>2, <2>3 DEF BInv, SocketEmpty
  <2>5. BacklogOnlyAfterBreak' BY <2>1, <2>2, <2>3 DEF BInv, BacklogOnlyAfterBreak
  <2>6. QED BY <1>1, <2>4, <2>5 DEF BInv
<1>3. ASSUME NEW n \in 1 .. (sentEnd - arrived), Arrive(n) PROVE BInv'
  <2>1. /\ UNCHANGED << wire, consumed, size, stage, pc >> /\ pc = "idle" /\ signalled' = TRUE
    BY <1>3 DEF Arrive, ctxVars
  <2>2. front' = front BY <2>1 DEF front
  <2>3. SocketEmpty' BY <2>1, <2>2 DEF BInv, SocketEmpty
  <2>4. QED BY <1>1, <2>1, <2>3 DEF BInv, BacklogOnlyAfterBreak
<1>4. CASE Enter
  <2>1. UNCHANGED << wire, consumed, size, stage >> /\ pc' = "loop"
    BY <1>4 DEF Enter, ctxVars
  <2>2. front' = front BY <2>1 DEF front
  <2>3. SocketEmpty' BY <2>1, <2>2 DEF BInv, SocketEmpty
  <2>4. QED BY <1>1, <2>1, <2>3 DEF BInv, BacklogOnlyAfterBreak
<1>5. CASE ReadHeader BY <1>1, <1>5, ReadHeaderBInv
<1>6. CASE ReadPayload BY <1>1, <1>6, ReadPayloadBInv
<1>7. CASE NoPayload \/ NoHeader BY <1>1, <1>7, NoBytesBInv
<1>8. CASE FlushForMemory
  BY <1>1, <1>8 DEF FlushForMemory, ctxVars, BInv, SocketEmpty, BacklogOnlyAfterBreak
<1>9. ASSUME NEW n, Decode(n) PROVE BInv'
  <2>1. /\ stage' = "header" /\ batch' = batch + 1
        /\ pc' = IF batch + 1 >= BatchMax THEN "leave" ELSE "loop"
    BY <1>9 DEF Decode, ResetCurrentCommand, AfterCommand
  <2>2. SocketEmpty' BY <2>1 DEF SocketEmpty
  <2>3. QED BY <1>1, <2>1, <2>2 DEF BInv, BacklogOnlyAfterBreak
<1>10. CASE DecodeFails
  BY <1>1, <1>10
  DEF DecodeFails, ResetCurrentCommand, BInv, SocketEmpty, BacklogOnlyAfterBreak
<1>11. CASE Leave BY <1>1, <1>11, LeaveBInv
<1>12. CASE UNCHANGED vars
  <2>1. UNCHANGED << wire, arrived, signalled, consumed, size, stage, pc, batch, ret >>
    BY <1>12 DEF vars
  <2>2. front' = front /\ available' = available BY <2>1 DEF front, available
  <2>3. SocketEmpty' BY <2>1, <2>2 DEF BInv, SocketEmpty
  <2>4. BacklogOnlyAfterBreak' BY <2>1, <2>2 DEF BInv, BacklogOnlyAfterBreak
  <2>5. QED BY <1>1, <2>3, <2>4 DEF BInv
<1>13. QED
  BY <1>2, <1>3, <1>4, <1>5, <1>6, <1>7, <1>8, <1>9, <1>10, <1>11, <1>12
  DEF Next, Delivery, ProcessStream

\* What is left in the socket, in every reachable state.
THEOREM SocketInvariance == Spec => []BInv
<1>1. Init => BInv BY InitBInv
<1>2. BInv /\ [Next]_vars => BInv' BY NextBInv
<1>3. QED BY <1>1, <1>2, PTL DEF Spec

\* Bytes stay unread without a signal only after a full batch or an undecodable frame, or
\* behind an empty payload, for all constants.
THEOREM BacklogAfterBreak == Spec => []BacklogOnlyAfterBreak
<1>1. BInv => BacklogOnlyAfterBreak BY DEF BInv
<1>2. QED BY <1>1, SocketInvariance, PTL
=============================================================================
