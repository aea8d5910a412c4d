-------------------------- MODULE ClientMemoryProofs --------------------------
(***************************************************************************)
(* Proofs about ClientMemory, for every set of threads, header size,       *)
(* alignment, memory size and set of message lengths.                      *)
(***************************************************************************)
EXTENDS ClientMemory, TLAPS

MemEnd(t) == RecordEnd(mem[t], len[t])

\* The lock is held by the thread that is between Lock and Unlock.
Exclusive == \A t \in Threads : pc[t] \in Holding <=> lock = t

\* Records start and end at multiples of the alignment.
Aligned == writePtr % Align = 0

\* What a thread knows while it holds the lock.
Reserving ==
  \A t \in Threads :
    /\ pc[t] \in {"align", "refused"} => mem[t] = writePtr
    /\ pc[t] = "refused" => ~ Fits(mem[t], len[t])
    /\ pc[t] = "header" => writePtr = MemEnd(t)

\* Every record lies below the write pointer.
Below ==
  /\ \A t \in Threads : pc[t] \in Filling => MemEnd(t) <= writePtr
  /\ \A r \in written : RecordEnd(r.at, r.len) <= writePtr
  /\ \A i \in DOMAIN bytes : i < writePtr

\* A record that is being filled shares no byte with any other record.
Apart ==
  /\ \A t, u \in Threads :
       t # u /\ pc[t] \in Filling /\ pc[u] \in Filling =>
         MemEnd(t) <= mem[u] \/ MemEnd(u) <= mem[t]
  /\ \A t \in Threads, r \in written :
       pc[t] \in Filling => MemEnd(t) <= r.at \/ RecordEnd(r.at, r.len) <= mem[t]

\* The bytes of a range were written last by a thread.
Owned(t, first, last) == \A i \in first .. last : i \in DOMAIN bytes /\ bytes[i] = t

HeaderAt(p, n) ==
  /\ p \in DOMAIN allocated /\ allocated[p] = RecordEnd(p, n) - p
  /\ p \in DOMAIN size

\* What is in the records that are being filled, and in the finished ones.
Filled ==
  \A t \in Threads :
    /\ pc[t] \in {"unlock", "copy", "size"} =>
         HeaderAt(mem[t], len[t]) /\ Owned(t, mem[t], mem[t] + Hdr - 1)
    /\ pc[t] = "size" => Owned(t, mem[t] + Hdr, mem[t] + Hdr + len[t] - 1)

Finished ==
  \A r \in written :
    /\ HeaderAt(r.at, r.len)
    /\ size[r.at] = r.len
    /\ Owned(r.by, r.at, r.at + Hdr + r.len - 1)

\* The headers written so far lead from the first record to e.
ChainTo(e) ==
  /\ 0 \in DOMAIN allocated \cup {e}
  /\ \A p \in DOMAIN allocated : p < e /\ p + allocated[p] \in DOMAIN allocated \cup {e}

\* The last record has no header while its thread is about to write it.
Linked ==
  /\ \A t \in Threads : pc[t] = "header" => ChainTo(mem[t])
  /\ (\A t \in Threads : pc[t] # "header") => ChainTo(writePtr)

IInv ==
  /\ TypeOK /\ Exclusive /\ Aligned /\ Reserving /\ Below /\ Apart /\ Filled /\ Finished
  /\ Linked

-----------------------------------------------------------------------------
(* Numbers.                                                                *)

\* The sizes of a record and of its header are numbers.
LEMMA Numbers ==
  /\ Hdr \in Nat /\ 0 < Hdr /\ Align \in Nat /\ Hdr < Align /\ 0 < Align
  /\ Lines \in Nat /\ Lens \subseteq Nat /\ NoThread \notin Threads
BY MemoryAssumption DEF MemoryAssumption

\* Division with remainder.
LEMMA Division ==
  ASSUME NEW x \in Nat
  PROVE  /\ x % Align \in 0 .. Align - 1
         /\ x \div Align \in Nat
         /\ x = Align * (x \div Align) + (x % Align)
BY Numbers

\* A multiple of the alignment has no remainder.
LEMMA Multiple ==
  ASSUME NEW q \in Nat
  PROVE  Align * q \in Nat /\ (Align * q) % Align = 0
<1> DEFINE y == Align * q
<1>1. y \in Nat BY Numbers
<1>2. y = Align * (y \div Align) + (y % Align) /\ y \div Align \in Nat
      /\ y % Align \in 0 .. Align - 1
  BY <1>1, Division
<1>3. QED BY <1>1, <1>2, Numbers

\* Of two multiples of the alignment the smaller is not above a remainder.
LEMMA NextMultiple ==
  ASSUME NEW q \in Nat, NEW m \in Nat, NEW h \in Nat, h < Align, Align * q <= Align * m + h
  PROVE  Align * q <= Align * m
<1>1. q <= m
  <2> SUFFICES ASSUME m < q PROVE FALSE OBVIOUS
  <2>1. PICK d \in Nat : q = m + 1 + d
    <3>1. q - m - 1 \in Nat OBVIOUS
    <3>2. QED BY <3>1
  <2>2. Align * q = Align * m + Align + Align * d BY <2>1, Numbers
  <2>3. Align * d \in Nat /\ Align * m \in Nat BY Numbers
  <2>4. QED BY <2>2, <2>3, Numbers
<1>2. QED BY <1>1, Numbers

\* Pad takes a number to the next multiple of the alignment.
LEMMA PadRounds ==
  ASSUME NEW x \in Nat
  PROVE  Pad(x) \in 0 .. Align - 1 /\ \E q \in Nat : x + Pad(x) = Align * q
<1> DEFINE r == x % Align
           d == x \div Align
<1>1. r \in 0 .. Align - 1 /\ d \in Nat /\ x = Align * d + r BY Division
<1>2. CASE r = 0
  <2>1. Pad(x) = 0 BY <1>2, Numbers DEF Pad
  <2>2. x + Pad(x) = Align * d BY <1>1, <1>2, <2>1, Numbers
  <2>3. Pad(x) \in 0 .. Align - 1 BY <2>1, Numbers
  <2>4. QED BY <2>2, <2>3, <1>1
<1>3. CASE r # 0
  <2>1. Align - r \in 0 .. Align - 1 BY <1>1, <1>3, Numbers
  <2>2. Pad(x) = Align - r BY <2>1, Numbers DEF Pad
  <2>3. x + Pad(x) = Align * (d + 1) BY <1>1, <2>2, Numbers
  <2>4. d + 1 \in Nat BY <1>1
  <2>5. QED BY <2>1, <2>2, <2>3, <2>4
<1>4. QED BY <1>2, <1>3

\* A record has room for its header and its message and ends at a multiple of the alignment.
LEMMA RecordBounds ==
  ASSUME NEW p \in Nat, NEW n \in Nat
  PROVE  /\ RecordEnd(p, n) \in Nat
         /\ p + Hdr + n <= RecordEnd(p, n)
         /\ p < RecordEnd(p, n)
         /\ RecordEnd(p, n) % Align = 0
<1> DEFINE x == p + n + Hdr
<1>1. x \in Nat BY Numbers
<1>2. PICK q \in Nat : x + Pad(x) = Align * q BY <1>1, PadRounds
<1>3. Pad(x) \in Nat BY <1>1, PadRounds, Numbers
<1>4. RecordEnd(p, n) = x + Pad(x) BY DEF RecordEnd
<1>5. RecordEnd(p, n) % Align = 0 BY <1>2, <1>4, Multiple
<1>6. QED BY <1>1, <1>3, <1>4, <1>5, Numbers

\* The buffer has a size.
LEMMA SizeIsNat == Size \in Nat
BY Numbers, Multiple DEF Size

\* When std::align finds room for the message there is room for the header as well: the
\* memory ends at a multiple of the alignment and the header is smaller than it.
LEMMA FitsInMemory ==
  ASSUME NEW p \in Nat, NEW n \in Nat, Fits(p, n)
  PROVE  RecordEnd(p, n) <= Size
<1> DEFINE x == p + n + Hdr
<1>1. x \in Nat /\ Size \in Nat BY Numbers, SizeIsNat
<1>2. PICK q \in Nat : x + Pad(x) = Align * q BY <1>1, PadRounds
<1>3. Pad(x) \in Nat BY <1>1, PadRounds, Numbers
<1>4. Pad(x) + n <= Size - p BY DEF Fits
<1>5. x + Pad(x) <= Size + Hdr BY <1>1, <1>3, <1>4, Numbers
<1>6. Align * q <= Align * Lines + Hdr BY <1>2, <1>5 DEF Size
<1>7. Align * q <= Align * Lines BY <1>6, NextMultiple, Numbers
<1>8. QED BY <1>2, <1>7 DEF RecordEnd, Size

\* When it finds none, the header and the message do not fit.
LEMMA RefusedIsFull ==
  ASSUME NEW p \in Nat, NEW n \in Nat, ~ Fits(p, n)
  PROVE  p + Hdr + n > Size
<1> SUFFICES ASSUME p + Hdr + n <= Size PROVE FALSE
  BY Numbers, SizeIsNat
<1> DEFINE x == p + n + Hdr
<1>1. x \in Nat /\ Size \in Nat /\ x <= Size BY Numbers, SizeIsNat
<1>2. PICK q \in Nat : x + Pad(x) = Align * q BY <1>1, PadRounds
<1>3. Pad(x) \in 0 .. Align - 1 BY <1>1, PadRounds
<1>4. x + Pad(x) <= Size + (Align - 1) BY <1>1, <1>3, Numbers
<1>5. Align * q <= Align * Lines + (Align - 1) BY <1>2, <1>4 DEF Size
<1>6. Align * q <= Align * Lines BY <1>5, NextMultiple, Numbers
<1>7. x + Pad(x) <= Size BY <1>2, <1>6 DEF Size
<1>8. Pad(x) + n <= Size - p BY <1>1, <1>3, <1>7, Numbers
<1>9. QED BY <1>8 DEF Fits

-----------------------------------------------------------------------------
(* The steps.                                                              *)

\* Where a thread's record lies.
LEMMA ThreadBounds ==
  ASSUME TypeOK, NEW t \in Threads
  PROVE  /\ writePtr \in Nat /\ mem[t] \in Nat /\ len[t] \in Nat
         /\ MemEnd(t) \in Nat
         /\ mem[t] + Hdr + len[t] <= MemEnd(t)
         /\ mem[t] < MemEnd(t)
         /\ MemEnd(t) % Align = 0
<1>1. writePtr \in Nat /\ mem[t] \in Nat /\ len[t] \in Nat
  BY SizeIsNat DEF TypeOK
<1>2. QED BY <1>1, RecordBounds DEF MemEnd

\* Where a finished record lies.
LEMMA WrittenBounds ==
  ASSUME TypeOK, NEW r \in written
  PROVE  /\ r.by \in Threads /\ r.at \in Nat /\ r.len \in Nat
         /\ RecordEnd(r.at, r.len) \in Nat
         /\ r.at + Hdr + r.len <= RecordEnd(r.at, r.len)
         /\ r.at < RecordEnd(r.at, r.len)
<1>1. r.by \in Threads /\ r.at \in Nat /\ r.len \in Nat BY DEF TypeOK
<1>2. QED BY <1>1, RecordBounds

\* Initially the memory is empty.
LEMMA InitIInv == Init => IInv
<1> SUFFICES ASSUME Init PROVE IInv OBVIOUS
<1>1. /\ DOMAIN allocated = {} /\ DOMAIN size = {} /\ DOMAIN bytes = {} /\ written = {}
      /\ writePtr = 0 /\ lock = NoThread
      /\ \A t \in Threads : pc[t] = "idle"
  BY DEF Init
<1>2. TypeOK
  <2>1. writePtr \in 0 .. Size BY <1>1, SizeIsNat
  <2>2. /\ allocated \in [DOMAIN allocated -> Nat]
        /\ size \in [DOMAIN size -> Nat]
        /\ bytes \in [DOMAIN bytes -> Threads]
    BY <1>1 DEF Init
  <2>3. pc \in [Threads -> {"idle"}] /\ len \in [Threads -> Nat] /\ mem \in [Threads -> Nat]
    BY DEF Init
  <2>4. QED BY <1>1, <2>1, <2>2, <2>3 DEF TypeOK, Holding
<1>3. Exclusive BY <1>1, Numbers DEF Exclusive, Holding
<1>4. Aligned BY <1>1, Division, Numbers DEF Aligned
<1>5. Reserving BY <1>1 DEF Reserving
<1>6. Below BY <1>1 DEF Below, Filling
<1>7. Apart BY <1>1 DEF Apart, Filling
<1>8. Filled BY <1>1 DEF Filled
<1>9. Finished BY <1>1 DEF Finished
<1>10. Linked BY <1>1 DEF Linked, ChainTo
<1>11. QED BY <1>2, <1>3, <1>4, <1>5, <1>6, <1>7, <1>8, <1>9, <1>10 DEF IInv

\* A step of t that writes nothing and neither begins nor ends a record.
LEMMA QuietStep ==
  ASSUME IInv, NEW t \in Threads,
         UNCHANGED << writePtr, memory, written >>,
         pc' = [pc EXCEPT ![t] = pc'[t]],
         \A u \in Threads \ {t} : mem'[u] = mem[u] /\ len'[u] = len[u],
         pc[t] # "header", pc'[t] \notin {"header", "size"},
         pc'[t] \in Filling => pc[t] = "unlock" /\ mem'[t] = mem[t] /\ len'[t] = len[t]
  PROVE  Aligned' /\ Below' /\ Apart' /\ Filled' /\ Finished' /\ Linked'
<1> USE DEF IInv
<1>1. /\ \A u \in Threads \ {t} : pc'[u] = pc[u]
      /\ \A u \in Threads : pc'[u] \in Filling =>
           pc[u] \in Filling /\ mem'[u] = mem[u] /\ len'[u] = len[u] /\ MemEnd(u)' = MemEnd(u)
  BY DEF TypeOK, Filling, MemEnd
<1>2. Aligned' BY DEF Aligned
<1>3. Below' BY <1>1 DEF Below, memory
<1>4. Apart' BY <1>1 DEF Apart
<1>5. Filled'
  <2> SUFFICES ASSUME NEW u \in Threads
               PROVE  /\ pc'[u] \in {"unlock", "copy", "size"} =>
                           /\ HeaderAt(mem[u], len[u])' 
                           /\ Owned(u, mem[u], mem[u] + Hdr - 1)'
                      /\ pc'[u] = "size" =>
                           Owned(u, mem[u] + Hdr, mem[u] + Hdr + len[u] - 1)'
    BY DEF Filled
  <2>1. pc'[u] \in {"unlock", "copy", "size"} =>
          /\ pc[u] \in {"unlock", "copy", "size"}
          /\ mem'[u] = mem[u] /\ len'[u] = len[u]
          /\ pc'[u] = "size" => pc[u] = "size"
    BY <1>1 DEF Filling
  <2>2. QED BY <2>1 DEF Filled, HeaderAt, Owned, memory
<1>6. Finished' BY DEF Finished, HeaderAt, Owned, memory
<1>7. Linked'
  <2>1. \A u \in Threads : pc'[u] = "header" => pc[u] = "header" /\ mem'[u] = mem[u]
    BY <1>1
  <2>2. (\A u \in Threads : pc'[u] # "header") => \A u \in Threads : pc[u] # "header"
    BY <1>1
  <2>3. QED BY <2>1, <2>2 DEF Linked, ChainTo, memory
<1>8. QED BY <1>2, <1>3, <1>4, <1>5, <1>6, <1>7

\* A call that starts holds nothing yet.
LEMMA WriteToBufferIInv ==
  ASSUME IInv, NEW t \in Threads, NEW n \in Lens, WriteToBuffer(t, n)
  PROVE  IInv'
<1> USE DEF IInv
<1>1. /\ pc[t] = "idle" /\ pc' = [pc EXCEPT ![t] = "lock"]
      /\ len' = [len EXCEPT ![t] = n]
      /\ UNCHANGED << lock, writePtr, memory, mem, written >>
  BY DEF WriteToBuffer, Goto
<1>2. n \in Nat BY Numbers
<1>3. TypeOK' BY <1>1, <1>2 DEF TypeOK, Holding, memory
<1>4. Exclusive' BY <1>1 DEF Exclusive, Holding, TypeOK
<1>5. Reserving' BY <1>1 DEF Reserving, TypeOK, MemEnd
<1>6. /\ pc' = [pc EXCEPT ![t] = pc'[t]]
      /\ \A u \in Threads \ {t} : mem'[u] = mem[u] /\ len'[u] = len[u]
      /\ pc[t] # "header" /\ pc'[t] \notin {"header", "size"} /\ pc'[t] \notin Filling
  BY <1>1 DEF TypeOK, Filling
<1>7. Aligned' /\ Below' /\ Apart' /\ Filled' /\ Finished' /\ Linked'
  BY <1>1, <1>6, QuietStep
<1>8. QED BY <1>3, <1>4, <1>5, <1>7

\* The lock is taken by one thread at a time.
LEMMA LockIInv ==
  ASSUME IInv, NEW t \in Threads, Lock(t)
  PROVE  IInv'
<1> USE DEF IInv
<1>1. /\ pc[t] = "lock" /\ pc' = [pc EXCEPT ![t] = "read"]
      /\ lock = NoThread /\ lock' = t
      /\ UNCHANGED << writePtr, memory, len, mem, written >>
  BY DEF Lock, Goto
<1>2. TypeOK' BY <1>1 DEF TypeOK, Holding, memory
<1>3. Exclusive' BY <1>1, Numbers DEF Exclusive, Holding, TypeOK
<1>4. Reserving' BY <1>1 DEF Reserving, TypeOK, MemEnd
<1>5. /\ pc' = [pc EXCEPT ![t] = pc'[t]]
      /\ \A u \in Threads \ {t} : mem'[u] = mem[u] /\ len'[u] = len[u]
      /\ pc[t] # "header" /\ pc'[t] \notin {"header", "size"}
      /\ pc'[t] \in Filling => pc[t] = "unlock" /\ mem'[t] = mem[t] /\ len'[t] = len[t]
  BY <1>1 DEF TypeOK, Filling
<1>6. Aligned' /\ Below' /\ Apart' /\ Filled' /\ Finished' /\ Linked'
  BY <1>1, <1>5, QuietStep
<1>7. QED BY <1>2, <1>3, <1>4, <1>6

\* The write pointer is read under the lock, so that it stays what was read.
LEMMA ReadWritePtrIInv ==
  ASSUME IInv, NEW t \in Threads, ReadWritePtr(t)
  PROVE  IInv'
<1> USE DEF IInv
<1>1. /\ pc[t] = "read" /\ pc' = [pc EXCEPT ![t] = "align"]
      /\ mem' = [mem EXCEPT ![t] = writePtr]
      /\ UNCHANGED << lock, writePtr, memory, len, written >>
  BY DEF ReadWritePtr, Goto
<1>2. writePtr \in Nat BY ThreadBounds
<1>3. TypeOK' BY <1>1, <1>2 DEF TypeOK, Holding, memory
<1>4. Exclusive' BY <1>1 DEF Exclusive, Holding, TypeOK
<1>5. Reserving' BY <1>1 DEF Reserving, TypeOK, MemEnd
<1>6. /\ pc' = [pc EXCEPT ![t] = pc'[t]]
      /\ \A u \in Threads \ {t} : mem'[u] = mem[u] /\ len'[u] = len[u]
      /\ pc[t] # "header" /\ pc'[t] \notin {"header", "size"} /\ pc'[t] \notin Filling
  BY <1>1 DEF TypeOK, Filling
<1>7. Aligned' /\ Below' /\ Apart' /\ Filled' /\ Finished' /\ Linked'
  BY <1>1, <1>6, QuietStep
<1>8. QED BY <1>3, <1>4, <1>5, <1>7

\* A record that does not fit leaves the pointer where it was.
LEMMA RefuseIInv ==
  ASSUME IInv, NEW t \in Threads, Refuse(t)
  PROVE  IInv'
<1> USE DEF IInv
<1>1. /\ pc[t] = "align" /\ pc' = [pc EXCEPT ![t] = "refused"]
      /\ ~ Fits(mem[t], len[t])
      /\ UNCHANGED << lock, writePtr, memory, len, mem, written >>
  BY DEF Refuse, Goto
<1>2. TypeOK' BY <1>1 DEF TypeOK, Holding, memory
<1>3. Exclusive' BY <1>1 DEF Exclusive, Holding, TypeOK
<1>4. Reserving' BY <1>1 DEF Reserving, TypeOK, MemEnd
<1>5. /\ pc' = [pc EXCEPT ![t] = pc'[t]]
      /\ \A u \in Threads \ {t} : mem'[u] = mem[u] /\ len'[u] = len[u]
      /\ pc[t] # "header" /\ pc'[t] \notin {"header", "size"}
      /\ pc'[t] \in Filling => pc[t] = "unlock" /\ mem'[t] = mem[t] /\ len'[t] = len[t]
  BY <1>1 DEF TypeOK, Filling
<1>6. Aligned' /\ Below' /\ Apart' /\ Filled' /\ Finished' /\ Linked'
  BY <1>1, <1>5, QuietStep
<1>7. QED BY <1>2, <1>3, <1>4, <1>6

\* The reservation outlives the lock.
LEMMA UnlockIInv ==
  ASSUME IInv, NEW t \in Threads, Unlock(t)
  PROVE  IInv'
<1> USE DEF IInv
<1>1. /\ pc[t] = "unlock" /\ pc' = [pc EXCEPT ![t] = "copy"]
      /\ lock' = NoThread
      /\ UNCHANGED << writePtr, memory, len, mem, written >>
  BY DEF Unlock, Goto
<1>2. TypeOK' BY <1>1 DEF TypeOK, Holding, memory
<1>3. Exclusive' BY <1>1, Numbers DEF Exclusive, Holding, TypeOK
<1>4. Reserving' BY <1>1 DEF Reserving, TypeOK, MemEnd
<1>5. /\ pc' = [pc EXCEPT ![t] = pc'[t]]
      /\ \A u \in Threads \ {t} : mem'[u] = mem[u] /\ len'[u] = len[u]
      /\ pc[t] # "header" /\ pc'[t] \notin {"header", "size"}
      /\ pc'[t] \in Filling => pc[t] = "unlock" /\ mem'[t] = mem[t] /\ len'[t] = len[t]
  BY <1>1 DEF TypeOK, Filling
<1>6. Aligned' /\ Below' /\ Apart' /\ Filled' /\ Finished' /\ Linked'
  BY <1>1, <1>5, QuietStep
<1>7. QED BY <1>2, <1>3, <1>4, <1>6

\* A refused call ends with nothing reserved.
LEMMA UnlockRefusedIInv ==
  ASSUME IInv, NEW t \in Threads, UnlockRefused(t)
  PROVE  IInv'
<1> USE DEF IInv
<1>1. /\ pc[t] = "refused" /\ pc' = [pc EXCEPT ![t] = "idle"]
      /\ lock' = NoThread
      /\ UNCHANGED << writePtr, memory, len, mem, written >>
  BY DEF UnlockRefused, Goto
<1>2. TypeOK' BY <1>1 DEF TypeOK, Holding, memory
<1>3. Exclusive' BY <1>1, Numbers DEF Exclusive, Holding, TypeOK
<1>4. Reserving' BY <1>1 DEF Reserving, TypeOK, MemEnd
<1>5. /\ pc' = [pc EXCEPT ![t] = pc'[t]]
      /\ \A u \in Threads \ {t} : mem'[u] = mem[u] /\ len'[u] = len[u]
      /\ pc[t] # "header" /\ pc'[t] \notin {"header", "size"}
      /\ pc'[t] \in Filling => pc[t] = "unlock" /\ mem'[t] = mem[t] /\ len'[t] = len[t]
  BY <1>1 DEF TypeOK, Filling
<1>6. Aligned' /\ Below' /\ Apart' /\ Filled' /\ Finished' /\ Linked'
  BY <1>1, <1>5, QuietStep
<1>7. QED BY <1>2, <1>3, <1>4, <1>6

\* The new record lies between the old write pointer, below which all others are, and the
\* new one.
LEMMA ReserveIInv ==
  ASSUME IInv, NEW t \in Threads, Reserve(t)
  PROVE  IInv'
<1> USE DEF IInv
<1>1. /\ pc[t] = "align" /\ pc' = [pc EXCEPT ![t] = "header"]
      /\ Fits(mem[t], len[t])
      /\ writePtr' = writePtr + (MemEnd(t) - mem[t])
      /\ UNCHANGED << lock, memory, len, mem, written >>
  BY DEF Reserve, Goto, MemEnd
<1>2. mem[t] = writePtr /\ \A u \in Threads : pc[u] = "header" => u = t
  BY <1>1 DEF Reserving, Exclusive, Holding
<1>3. writePtr \in Nat /\ MemEnd(t) \in Nat /\ writePtr < MemEnd(t) /\ MemEnd(t) % Align = 0
  BY <1>2, ThreadBounds
<1>4. writePtr' = MemEnd(t) BY <1>1, <1>2, <1>3
<1>5. /\ pc'[t] = "header"
      /\ \A u \in Threads \ {t} : pc'[u] = pc[u]
      /\ \A u \in Threads : MemEnd(u)' = MemEnd(u)
  BY <1>1 DEF TypeOK, MemEnd
<1>6. TypeOK'
  <2>1. MemEnd(t) <= Size BY <1>1, ThreadBounds, FitsInMemory DEF MemEnd
  <2>2. writePtr' \in 0 .. Size BY <2>1, <1>3, <1>4, SizeIsNat
  <2>3. QED BY <1>1, <2>2 DEF TypeOK, Holding, memory
<1>7. Exclusive' BY <1>1 DEF Exclusive, Holding, TypeOK
<1>8. Aligned' BY <1>3, <1>4 DEF Aligned
<1>9. Reserving'
  <2>1. \A u \in Threads \ {t} : pc[u] \notin {"align", "refused", "header"}
    BY <1>1 DEF Exclusive, Holding
  <2>2. QED BY <1>1, <1>4, <1>5, <2>1 DEF Reserving
<1>10. Below'
  <2>1. ASSUME NEW u \in Threads, pc'[u] \in Filling PROVE MemEnd(u)' <= writePtr'
    <3>1. CASE u = t BY <3>1, <1>3, <1>4, <1>5
    <3>2. CASE u # t
      <4>1. MemEnd(u) <= writePtr BY <2>1, <3>2, <1>5 DEF Below
      <4>2. MemEnd(u) \in Nat BY ThreadBounds
      <4>3. QED BY <4>1, <4>2, <1>3, <1>4, <1>5
    <3>3. QED BY <3>1, <3>2
  <2>2. ASSUME NEW r \in written PROVE RecordEnd(r.at, r.len) <= writePtr'
    <3>1. RecordEnd(r.at, r.len) <= writePtr /\ RecordEnd(r.at, r.len) \in Nat
      BY WrittenBounds DEF Below
    <3>2. QED BY <3>1, <1>3, <1>4
  <2>3. ASSUME NEW i \in DOMAIN bytes PROVE i < writePtr'
    <3>1. i \in Nat /\ i < writePtr BY DEF TypeOK, Below
    <3>2. QED BY <3>1, <1>3, <1>4
  <2>4. QED BY <2>1, <2>2, <2>3, <1>1 DEF Below, memory
<1>11. Apart'
  <2>1. ASSUME NEW u \in Threads \ {t}, pc[u] \in Filling PROVE MemEnd(u) <= mem[t]
    BY <1>2, <2>1 DEF Below
  <2>2. \A r \in written : RecordEnd(r.at, r.len) <= mem[t] BY <1>2 DEF Below
  <2>3. ASSUME NEW u \in Threads, NEW v \in Threads, u # v,
               pc'[u] \in Filling, pc'[v] \in Filling
        PROVE  MemEnd(u) <= mem[v] \/ MemEnd(v) <= mem[u]
    <3>1. CASE u = t BY <3>1, <2>1, <2>3, <1>5
    <3>2. CASE v = t BY <3>2, <2>1, <2>3, <1>5
    <3>3. CASE u # t /\ v # t BY <3>3, <2>3, <1>5 DEF Apart
    <3>4. QED BY <3>1, <3>2, <3>3
  <2>4. ASSUME NEW u \in Threads, NEW r \in written, pc'[u] \in Filling
        PROVE  MemEnd(u) <= r.at \/ RecordEnd(r.at, r.len) <= mem[u]
    <3>1. CASE u = t BY <3>1, <2>2
    <3>2. CASE u # t BY <3>2, <2>4, <1>5 DEF Apart
    <3>3. QED BY <3>1, <3>2
  <2>5. QED BY <2>3, <2>4, <1>1, <1>5 DEF Apart
<1>12. Filled' BY <1>1, <1>5 DEF Filled, HeaderAt, Owned, memory
<1>13. Finished' BY <1>1 DEF Finished, HeaderAt, Owned, memory
<1>14. Linked'
  <2>1. \A u \in Threads : pc[u] # "header" BY <1>1, <1>2
  <2>2. ChainTo(mem[t]) BY <2>1, <1>2 DEF Linked
  <2>3. ChainTo(mem[t])' BY <2>2, <1>1 DEF ChainTo, memory
  <2>4. QED BY <2>1, <2>3, <1>1, <1>5 DEF Linked
<1>15. QED BY <1>6, <1>7, <1>8, <1>9, <1>10, <1>11, <1>12, <1>13, <1>14

\* Other records keep what they hold while t writes within its own.
LEMMA OtherRecords ==
  ASSUME IInv, NEW t \in Threads, pc[t] \in Filling,
         NEW first \in Nat, NEW last \in Int, mem[t] <= first, last < MemEnd(t),
         bytes' = With(bytes, first .. last, t), UNCHANGED << mem, len >>
  PROVE  /\ \A u \in Threads \ {t} :
              /\ pc[u] \in {"unlock", "copy", "size"} =>
                   Owned(u, mem[u], mem[u] + Hdr - 1)'
              /\ pc[u] = "size" => Owned(u, mem[u] + Hdr, mem[u] + Hdr + len[u] - 1)'
         /\ \A r \in written : Owned(r.by, r.at, r.at + Hdr + r.len - 1)'
<1> USE DEF IInv
<1>1. mem[t] \in Nat /\ MemEnd(t) \in Nat BY ThreadBounds
<1>2. ASSUME NEW u \in Threads \ {t}, NEW i \in Nat,
             pc[u] \in Filling, mem[u] <= i, i < MemEnd(u), i \in DOMAIN bytes, bytes[i] = u
      PROVE  i \in DOMAIN bytes' /\ bytes'[i] = u
  <2>1. mem[u] \in Nat /\ MemEnd(u) \in Nat BY ThreadBounds
  <2>2. MemEnd(t) <= mem[u] \/ MemEnd(u) <= mem[t] BY <1>2 DEF Apart
  <2>3. i \notin first .. last BY <1>1, <1>2, <2>1, <2>2
  <2>4. QED BY <1>2, <2>3 DEF With
<1>3. ASSUME NEW u \in Threads \ {t}
      PROVE  /\ pc[u] \in {"unlock", "copy", "size"} =>
                  Owned(u, mem[u], mem[u] + Hdr - 1)'
             /\ pc[u] = "size" => Owned(u, mem[u] + Hdr, mem[u] + Hdr + len[u] - 1)'
  <2>1. /\ mem[u] \in Nat /\ len[u] \in Nat /\ MemEnd(u) \in Nat
        /\ mem[u] + Hdr + len[u] <= MemEnd(u)
    BY ThreadBounds
  <2>2. ASSUME pc[u] \in {"unlock", "copy", "size"}, NEW i \in mem[u] .. mem[u] + Hdr - 1
        PROVE  i \in DOMAIN bytes' /\ bytes'[i] = u
    <3>1. i \in DOMAIN bytes /\ bytes[i] = u BY <2>2 DEF Filled, Owned
    <3>2. i \in Nat /\ mem[u] <= i /\ i < MemEnd(u) BY <2>1, Numbers
    <3>3. pc[u] \in Filling BY <2>2 DEF Filling
    <3>4. QED BY <1>2, <3>1, <3>2, <3>3
  <2>3. ASSUME pc[u] = "size", NEW i \in mem[u] + Hdr .. mem[u] + Hdr + len[u] - 1
        PROVE  i \in DOMAIN bytes' /\ bytes'[i] = u
    <3>1. i \in DOMAIN bytes /\ bytes[i] = u BY <2>3 DEF Filled, Owned
    <3>2. i \in Nat /\ mem[u] <= i /\ i < MemEnd(u) BY <2>1, Numbers
    <3>3. pc[u] \in Filling BY <2>3 DEF Filling
    <3>4. QED BY <1>2, <3>1, <3>2, <3>3
  <2>4. QED BY <2>2, <2>3 DEF Owned
<1>4. ASSUME NEW r \in written
      PROVE  Owned(r.by, r.at, r.at + Hdr + r.len - 1)'
  <2>1. /\ r.at \in Nat /\ r.len \in Nat /\ RecordEnd(r.at, r.len) \in Nat
        /\ r.at + Hdr + r.len <= RecordEnd(r.at, r.len)
    BY WrittenBounds
  <2>2. MemEnd(t) <= r.at \/ RecordEnd(r.at, r.len) <= mem[t] BY DEF Apart
  <2>3. ASSUME NEW i \in r.at .. r.at + Hdr + r.len - 1
        PROVE  i \in DOMAIN bytes' /\ bytes'[i] = r.by
    <3>1. i \in DOMAIN bytes /\ bytes[i] = r.by BY DEF Finished, Owned
    <3>2. i \notin first .. last BY <1>1, <2>1, <2>2, Numbers
    <3>3. QED BY <3>1, <3>2 DEF With
  <2>4. QED BY <2>3 DEF Owned
<1>5. QED BY <1>3, <1>4

\* A header is written inside the reservation of its own thread.
LEMMA WriteHeaderIInv ==
  ASSUME IInv, NEW t \in Threads, WriteHeader(t)
  PROVE  IInv'
<1> USE DEF IInv
<1> DEFINE p == mem[t]
<1>1. /\ pc[t] = "header" /\ pc' = [pc EXCEPT ![t] = "unlock"]
      /\ allocated' = With(allocated, {p}, MemEnd(t) - p)
      /\ size' = With(size, {p}, 0)
      /\ bytes' = With(bytes, p .. p + Hdr - 1, t)
      /\ UNCHANGED << lock, writePtr, len, mem, written >>
  BY DEF WriteHeader, Goto, MemEnd
<1>2. /\ p \in Nat /\ MemEnd(t) \in Nat /\ len[t] \in Nat
      /\ p < MemEnd(t) /\ p + Hdr + len[t] <= MemEnd(t)
      /\ writePtr = MemEnd(t)
  BY <1>1, ThreadBounds DEF Reserving
<1>3. /\ pc'[t] = "unlock"
      /\ \A u \in Threads \ {t} : pc'[u] = pc[u]
      /\ \A u \in Threads : MemEnd(u)' = MemEnd(u)
      /\ \A u \in Threads : pc'[u] \in Filling <=> pc[u] \in Filling
  BY <1>1 DEF TypeOK, MemEnd, Filling
<1>4. pc[t] \in Filling /\ \A u \in Threads : pc[u] = "header" => u = t
  BY <1>1 DEF Filling, Exclusive, Holding
<1>5. TypeOK'
  <2>1. MemEnd(t) - p \in Nat BY <1>2
  <2>2. DOMAIN allocated' \subseteq Nat /\ allocated' \in [DOMAIN allocated' -> Nat]
    BY <1>1, <1>2, <2>1 DEF TypeOK, With
  <2>3. DOMAIN size' \subseteq Nat /\ size' \in [DOMAIN size' -> Nat]
    BY <1>1, <1>2 DEF TypeOK, With
  <2>4. p .. p + Hdr - 1 \subseteq Nat BY <1>2, Numbers
  <2>5. DOMAIN bytes' \subseteq Nat /\ bytes' \in [DOMAIN bytes' -> Threads]
    BY <1>1, <2>4 DEF TypeOK, With
  <2>6. QED BY <1>1, <2>2, <2>3, <2>5 DEF TypeOK, Holding
<1>6. Exclusive' BY <1>1 DEF Exclusive, Holding, TypeOK
<1>7. Aligned' BY <1>1 DEF Aligned
<1>8. Reserving'
  <2>1. \A u \in Threads \ {t} : pc[u] \notin {"align", "refused", "header"}
    BY <1>1 DEF Exclusive, Holding
  <2>2. QED BY <1>3, <2>1 DEF Reserving
<1>9. Below'
  <2>1. ASSUME NEW i \in DOMAIN bytes' PROVE i < writePtr
    <3>1. CASE i \in DOMAIN bytes BY <3>1 DEF Below
    <3>2. CASE i \in p .. p + Hdr - 1 BY <3>2, <1>2, Numbers
    <3>3. QED BY <3>1, <3>2, <1>1 DEF With
  <2>2. QED BY <2>1, <1>1, <1>3 DEF Below
<1>10. Apart' BY <1>1, <1>3 DEF Apart
<1>11. /\ \A u \in Threads \ {t} :
            /\ pc[u] \in {"unlock", "copy", "size"} =>
                 Owned(u, mem[u], mem[u] + Hdr - 1)'
            /\ pc[u] = "size" => Owned(u, mem[u] + Hdr, mem[u] + Hdr + len[u] - 1)'
       /\ \A r \in written : Owned(r.by, r.at, r.at + Hdr + r.len - 1)'
  <2>1. p + Hdr - 1 \in Int /\ p + Hdr - 1 < MemEnd(t) BY <1>2, Numbers
  <2>2. QED BY <1>1, <1>2, <1>4, <2>1, OtherRecords
<1>12. Filled'
  <2> SUFFICES ASSUME NEW u \in Threads
               PROVE  /\ pc'[u] \in {"unlock", "copy", "size"} =>
                           /\ HeaderAt(mem[u], len[u])'
                           /\ Owned(u, mem[u], mem[u] + Hdr - 1)'
                      /\ pc'[u] = "size" =>
                           Owned(u, mem[u] + Hdr, mem[u] + Hdr + len[u] - 1)'
    BY DEF Filled
  <2>1. CASE u = t
    <3>1. HeaderAt(mem[t], len[t])' BY <1>1 DEF HeaderAt, With, MemEnd
    <3>2. Owned(t, mem[t], mem[t] + Hdr - 1)' BY <1>1 DEF Owned, With
    <3>3. QED BY <2>1, <3>1, <3>2, <1>3
  <2>2. CASE u # t /\ pc'[u] \in {"unlock", "copy", "size"}
    <3>1. /\ mem[u] \in Nat /\ len[u] \in Nat /\ MemEnd(u) \in Nat
          /\ mem[u] + Hdr + len[u] <= MemEnd(u) /\ mem[u] < MemEnd(u)
      BY ThreadBounds
    <3>2. pc[u] \in {"unlock", "copy", "size"} /\ pc[u] \in Filling /\ pc'[u] = pc[u]
      BY <2>2, <1>3 DEF Filling
    <3>3. mem[u] # p BY <3>1, <3>2, <2>2, <1>2, <1>4 DEF Apart
    <3>4. HeaderAt(mem[u], len[u])'
      BY <3>2, <3>3, <1>1 DEF HeaderAt, With, Filled
    <3>5. QED BY <2>2, <3>2, <3>4, <1>11
  <2>3. QED BY <2>1, <2>2
<1>13. Finished'
  <2> SUFFICES ASSUME NEW r \in written
               PROVE  /\ HeaderAt(r.at, r.len)'
                      /\ size'[r.at] = r.len
    BY <1>1, <1>11 DEF Finished
  <2>1. r.at # p
    BY <1>2, <1>4, WrittenBounds DEF Apart
  <2>2. QED BY <2>1, <1>1 DEF Finished, HeaderAt, With
<1>14. Linked'
  <2>1. ChainTo(p) BY <1>1 DEF Linked
  <2>2. \A u \in Threads : pc'[u] # "header" BY <1>3, <1>4
  <2>3. 0 \in DOMAIN allocated' \cup {writePtr} BY <2>1, <1>1 DEF ChainTo, With
  <2>4. ASSUME NEW i \in DOMAIN allocated'
        PROVE  i < writePtr /\ i + allocated'[i] \in DOMAIN allocated' \cup {writePtr}
    <3>1. CASE i = p
      <4>1. allocated'[p] = MemEnd(t) - p BY <1>1 DEF With
      <4>2. p + allocated'[p] = writePtr BY <4>1, <1>2
      <4>3. QED BY <3>1, <4>2, <1>2
    <3>2. CASE i # p
      <4>1. i \in DOMAIN allocated /\ allocated'[i] = allocated[i]
        BY <3>2, <1>1 DEF With
      <4>2. i < p /\ i + allocated[i] \in DOMAIN allocated \cup {p}
        BY <2>1, <4>1 DEF ChainTo
      <4>3. i \in Nat BY <4>1 DEF TypeOK
      <4>4. i < writePtr BY <4>2, <4>3, <1>2
      <4>5. DOMAIN allocated' = DOMAIN allocated \cup {p} BY <1>1 DEF With
      <4>6. QED BY <4>1, <4>2, <4>4, <4>5
    <3>3. QED BY <3>1, <3>2
  <2>5. QED BY <2>2, <2>3, <2>4, <1>1 DEF Linked, ChainTo
<1>15. QED BY <1>5, <1>6, <1>7, <1>8, <1>9, <1>10, <1>12, <1>13, <1>14

\* The message is copied behind its header, inside the reservation.
LEMMA CopyIInv ==
  ASSUME IInv, NEW t \in Threads, Copy(t)
  PROVE  IInv'
<1> USE DEF IInv
<1>1. /\ pc[t] = "copy" /\ pc' = [pc EXCEPT ![t] = "size"]
      /\ bytes' = With(bytes, mem[t] + Hdr .. mem[t] + Hdr + len[t] - 1, t)
      /\ UNCHANGED << lock, writePtr, allocated, size, len, mem, written >>
  BY DEF Copy, Goto
<1>2. /\ mem[t] \in Nat /\ len[t] \in Nat /\ MemEnd(t) \in Nat /\ writePtr \in Nat
      /\ mem[t] + Hdr + len[t] <= MemEnd(t) /\ MemEnd(t) <= writePtr
      /\ pc[t] \in Filling
  BY <1>1, ThreadBounds DEF Below, Filling
<1>3. /\ pc'[t] = "size"
      /\ \A u \in Threads \ {t} : pc'[u] = pc[u]
      /\ \A u \in Threads : MemEnd(u)' = MemEnd(u)
      /\ \A u \in Threads : pc'[u] \in Filling <=> pc[u] \in Filling
  BY <1>1 DEF TypeOK, MemEnd, Filling
<1>4. mem[t] + Hdr .. mem[t] + Hdr + len[t] - 1 \subseteq Nat BY <1>2, Numbers
<1>5. TypeOK'
  <2>1. DOMAIN bytes' \subseteq Nat /\ bytes' \in [DOMAIN bytes' -> Threads]
    BY <1>1, <1>4 DEF TypeOK, With
  <2>2. QED BY <1>1, <2>1 DEF TypeOK, Holding
<1>6. Exclusive' BY <1>1 DEF Exclusive, Holding, TypeOK
<1>7. Aligned' BY <1>1 DEF Aligned
<1>8. Reserving' BY <1>1, <1>3 DEF Reserving
<1>9. Below'
  <2>1. ASSUME NEW i \in DOMAIN bytes' PROVE i < writePtr
    <3>1. CASE i \in DOMAIN bytes BY <3>1 DEF Below
    <3>2. CASE i \in mem[t] + Hdr .. mem[t] + Hdr + len[t] - 1 BY <3>2, <1>2, Numbers
    <3>3. QED BY <3>1, <3>2, <1>1 DEF With
  <2>2. QED BY <2>1, <1>1, <1>3 DEF Below
<1>10. Apart' BY <1>1, <1>3 DEF Apart
<1>11. /\ \A u \in Threads \ {t} :
            /\ pc[u] \in {"unlock", "copy", "size"} =>
                 Owned(u, mem[u], mem[u] + Hdr - 1)'
            /\ pc[u] = "size" => Owned(u, mem[u] + Hdr, mem[u] + Hdr + len[u] - 1)'
       /\ \A r \in written : Owned(r.by, r.at, r.at + Hdr + r.len - 1)'
  <2>1. /\ mem[t] + Hdr \in Nat /\ mem[t] <= mem[t] + Hdr
        /\ mem[t] + Hdr + len[t] - 1 \in Int /\ mem[t] + Hdr + len[t] - 1 < MemEnd(t)
    BY <1>2, Numbers
  <2>2. QED BY <1>1, <1>2, <2>1, OtherRecords
<1>12. Filled'
  <2> SUFFICES ASSUME NEW u \in Threads
               PROVE  /\ pc'[u] \in {"unlock", "copy", "size"} =>
                           /\ HeaderAt(mem[u], len[u])'
                           /\ Owned(u, mem[u], mem[u] + Hdr - 1)'
                      /\ pc'[u] = "size" =>
                           Owned(u, mem[u] + Hdr, mem[u] + Hdr + len[u] - 1)'
    BY DEF Filled
  <2>1. CASE u = t
    <3>1. HeaderAt(mem[t], len[t])' BY <1>1 DEF HeaderAt, Filled
    <3>2. Owned(t, mem[t], mem[t] + Hdr - 1)' BY <1>1 DEF Owned, With, Filled
    <3>3. Owned(t, mem[t] + Hdr, mem[t] + Hdr + len[t] - 1)' BY <1>1 DEF Owned, With
    <3>4. QED BY <2>1, <3>1, <3>2, <3>3
  <2>2. CASE u # t /\ pc'[u] \in {"unlock", "copy", "size"}
    <3>1. HeaderAt(mem[u], len[u])' BY <2>2, <1>1, <1>3 DEF HeaderAt, Filled
    <3>2. QED BY <2>2, <3>1, <1>3, <1>11
  <2>3. QED BY <2>1, <2>2
<1>13. Finished' BY <1>1, <1>11 DEF Finished, HeaderAt
<1>14. Linked' BY <1>1, <1>3 DEF Linked, ChainTo
<1>15. QED BY <1>5, <1>6, <1>7, <1>8, <1>9, <1>10, <1>12, <1>13, <1>14

\* The size makes the record readable, and links it to the next one.
LEMMA WriteSizeIInv ==
  ASSUME IInv, NEW t \in Threads, WriteSize(t)
  PROVE  IInv'
<1> USE DEF IInv
<1> DEFINE new == [by |-> t, at |-> mem[t], len |-> len[t]]
<1>1. /\ pc[t] = "size" /\ pc' = [pc EXCEPT ![t] = "idle"]
      /\ size' = With(size, {mem[t]}, len[t])
      /\ written' = written \cup {new}
      /\ UNCHANGED << lock, writePtr, allocated, bytes, len, mem >>
  BY DEF WriteSize, Goto
<1>2. /\ mem[t] \in Nat /\ len[t] \in Nat /\ MemEnd(t) \in Nat
      /\ mem[t] < MemEnd(t) /\ pc[t] \in Filling
  BY <1>1, ThreadBounds DEF Filling
<1>3. /\ pc'[t] = "idle"
      /\ \A u \in Threads \ {t} : pc'[u] = pc[u]
      /\ \A u \in Threads : MemEnd(u)' = MemEnd(u)
      /\ \A u \in Threads : pc'[u] \in Filling => u # t /\ pc[u] \in Filling
  BY <1>1 DEF TypeOK, MemEnd, Filling
<1>4. new.by = t /\ new.at = mem[t] /\ new.len = len[t] OBVIOUS
<1>5. RecordEnd(new.at, new.len) = MemEnd(t) BY <1>4 DEF MemEnd
<1>6. TypeOK'
  <2>1. DOMAIN size' \subseteq Nat /\ size' \in [DOMAIN size' -> Nat]
    BY <1>1, <1>2 DEF TypeOK, With
  <2>2. new \in [by : Threads, at : Nat, len : Nat] BY <1>2
  <2>3. written' \subseteq [by : Threads, at : Nat, len : Nat]
    BY <1>1, <2>2 DEF TypeOK
  <2>4. QED BY <1>1, <2>1, <2>3 DEF TypeOK, Holding
<1>7. Exclusive' BY <1>1 DEF Exclusive, Holding, TypeOK
<1>8. Aligned' BY <1>1 DEF Aligned
<1>9. Reserving' BY <1>1, <1>3 DEF Reserving
<1> HIDE DEF new
<1>10. Below' BY <1>1, <1>2, <1>3, <1>5 DEF Below
<1>11. Apart'
  <2>1. ASSUME NEW u \in Threads, pc'[u] \in Filling, NEW r \in written'
        PROVE  MemEnd(u) <= r.at \/ RecordEnd(r.at, r.len) <= mem[u]
    <3>1. CASE r = new BY <3>1, <2>1, <1>2, <1>3, <1>4, <1>5 DEF Apart
    <3>2. CASE r \in written BY <3>2, <2>1, <1>3 DEF Apart
    <3>3. QED BY <3>1, <3>2, <1>1
  <2>2. QED BY <2>1, <1>1, <1>3 DEF Apart
<1>12. DOMAIN size' = DOMAIN size \cup {mem[t]} /\ size'[mem[t]] = len[t]
  BY <1>1 DEF With
<1>13. Filled' BY <1>1, <1>3, <1>12 DEF Filled, HeaderAt, Owned
<1>14. Finished'
  <2> SUFFICES ASSUME NEW r \in written'
               PROVE  /\ HeaderAt(r.at, r.len)'
                      /\ size'[r.at] = r.len
                      /\ Owned(r.by, r.at, r.at + Hdr + r.len - 1)
    BY <1>1 DEF Finished, Owned
  <2>1. CASE r = new
    <3>1. HeaderAt(mem[t], len[t])' BY <1>1, <1>12 DEF HeaderAt, Filled
    <3>2. Owned(t, mem[t], mem[t] + Hdr - 1)
          /\ Owned(t, mem[t] + Hdr, mem[t] + Hdr + len[t] - 1)
      BY <1>1 DEF Filled
    <3>3. \A i \in mem[t] .. mem[t] + Hdr + len[t] - 1 :
            i \in mem[t] .. mem[t] + Hdr - 1
              \/ i \in mem[t] + Hdr .. mem[t] + Hdr + len[t] - 1
      BY <1>2, Numbers
    <3>4. Owned(t, mem[t], mem[t] + Hdr + len[t] - 1) BY <3>2, <3>3 DEF Owned
    <3>5. QED BY <2>1, <3>1, <3>4, <1>1, <1>4, <1>12 DEF HeaderAt
  <2>2. CASE r \in written
    <3>1. r.at # mem[t] BY <2>2, <1>2, WrittenBounds DEF Apart
    <3>2. r.at \in DOMAIN size /\ size[r.at] = r.len
      BY <2>2 DEF Finished, HeaderAt
    <3>3. size'[r.at] = size[r.at] BY <3>1, <3>2, <1>1 DEF With
    <3>4. HeaderAt(r.at, r.len)' BY <2>2, <1>1, <1>12 DEF Finished, HeaderAt
    <3>5. QED BY <2>2, <3>2, <3>3, <3>4 DEF Finished
  <2>3. QED BY <2>1, <2>2, <1>1
<1>15. Linked' BY <1>1, <1>3 DEF Linked, ChainTo
<1>16. QED BY <1>6, <1>7, <1>8, <1>9, <1>10, <1>11, <1>13, <1>14, <1>15

-----------------------------------------------------------------------------
(* The theorems.                                                           *)

\* Every step keeps the invariant.
LEMMA NextIInv == IInv /\ [Next]_vars => IInv'
<1> SUFFICES ASSUME IInv, [Next]_vars PROVE IInv' OBVIOUS
<1>1. ASSUME NEW t \in Threads, NEW n \in Lens, WriteToBuffer(t, n) PROVE IInv'
  BY <1>1, WriteToBufferIInv
<1>2. ASSUME NEW t \in Threads, AcquireMem(t) PROVE IInv'
  BY <1>2, LockIInv, ReadWritePtrIInv, ReserveIInv, RefuseIInv, WriteHeaderIInv, UnlockIInv,
     UnlockRefusedIInv DEF AcquireMem
<1>3. ASSUME NEW t \in Threads, Copy(t) PROVE IInv' BY <1>3, CopyIInv
<1>4. ASSUME NEW t \in Threads, WriteSize(t) PROVE IInv' BY <1>4, WriteSizeIInv
<1>5. CASE UNCHANGED vars
  BY <1>5 DEF vars, memory, IInv, TypeOK, Exclusive, Aligned, Reserving, Below, Apart, Filled,
     Finished, Linked, ChainTo, HeaderAt, Owned, MemEnd
<1>6. QED BY <1>1, <1>2, <1>3, <1>4, <1>5 DEF Next

\* The inductive invariant: the records lie one behind the other below the write pointer,
\* those being filled touch no other, and the headers link them.
THEOREM MemoryInvariance == Spec => []IInv
<1>1. Init => IInv BY InitIInv
<1>2. IInv /\ [Next]_vars => IInv' BY NextIInv
<1>3. QED BY <1>1, <1>2, PTL DEF Spec

\* AcquireMem keeps the write pointer within the memory.
THEOREM MemoryTypeCorrect == Spec => []TypeOK
<1>1. IInv => TypeOK BY DEF IInv
<1>2. QED BY <1>1, MemoryInvariance, PTL

\* Whatever the size of the memory, the alignment and the header, WriteToBuffer writes no
\* byte outside of the memory.
THEOREM MemorySafe == Spec => []InMemory
<1>1. IInv => InMemory
  <2> SUFFICES ASSUME IInv, NEW i \in DOMAIN bytes PROVE i < Size BY DEF InMemory
  <2>1. i \in Nat /\ writePtr \in 0 .. Size BY DEF IInv, TypeOK
  <2>2. i < writePtr BY DEF IInv, Below
  <2>3. QED BY <2>1, <2>2, SizeIsNat
<1>2. QED BY <1>1, MemoryInvariance, PTL

\* A finished record is never overwritten, by any number of threads.
THEOREM RecordsIntact == Spec => []Intact
<1>1. IInv => Intact
  <2> SUFFICES ASSUME IInv, NEW r \in written
               PROVE  /\ Owned(r.by, r.at, r.at + Hdr + r.len - 1)
                      /\ size[r.at] = r.len
                      /\ r.at + Hdr + r.len <= r.at + allocated[r.at]
    BY DEF Intact, Owned
  <2>1. TypeOK /\ Finished BY DEF IInv
  <2>2. /\ r.at \in Nat /\ RecordEnd(r.at, r.len) \in Nat
        /\ r.at + Hdr + r.len <= RecordEnd(r.at, r.len)
    BY <2>1, WrittenBounds
  <2>3. allocated[r.at] = RecordEnd(r.at, r.len) - r.at BY <2>1 DEF Finished, HeaderAt
  <2>4. r.at + allocated[r.at] = RecordEnd(r.at, r.len) BY <2>2, <2>3
  <2>5. QED BY <2>1, <2>2, <2>4 DEF Finished
<1>2. QED BY <1>1, MemoryInvariance, PTL

\* Whenever the lock is free the headers lead from the first record to the write pointer.
THEOREM RecordsChained == Spec => []Chained
<1>1. IInv => Chained
  <2> SUFFICES ASSUME IInv, lock = NoThread
               PROVE  /\ 0 \in DOMAIN allocated \cup {writePtr}
                      /\ \A p \in DOMAIN allocated :
                           p + allocated[p] \in DOMAIN allocated \cup {writePtr}
    BY DEF Chained
  <2>1. \A t \in Threads : pc[t] # "header"
    BY Numbers DEF IInv, Exclusive, Holding
  <2>2. QED BY <2>1 DEF IInv, Linked, ChainTo
<1>2. QED BY <1>1, MemoryInvariance, PTL

\* AcquireMem returns nullptr only for a message that does not fit with its header.
THEOREM RefusalJustified == Spec => []RefusedOnlyWhenFull
<1>1. IInv => RefusedOnlyWhenFull
  <2> SUFFICES ASSUME IInv, NEW t \in Threads, pc[t] = "refused"
               PROVE  mem[t] + Hdr + len[t] > Size
    BY DEF RefusedOnlyWhenFull
  <2>1. ~ Fits(mem[t], len[t]) BY DEF IInv, Reserving
  <2>2. mem[t] \in Nat /\ len[t] \in Nat BY ThreadBounds DEF IInv
  <2>3. QED BY <2>1, <2>2, RefusedIsFull
<1>2. QED BY <1>1, MemoryInvariance, PTL
=============================================================================
