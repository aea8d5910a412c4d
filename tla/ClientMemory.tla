----------------------------- MODULE ClientMemory -----------------------------
(***************************************************************************)
(* The memory in which a client keeps the messages it cannot send:         *)
(* ClientMemory::AcquireMem under its spin lock, and the part of           *)
(* AsioSocketClient::WriteToBuffer that fills the record outside the lock  *)
(* (trace_client/AsioSocketClient.h).                                      *)
(*                                                                         *)
(* A record is a header and a message, rounded up to the alignment.        *)
(* Threads reserve records one after the other and fill them at the same   *)
(* time; the memory is never given back.                                   *)
(***************************************************************************)
EXTENDS Integers, FiniteSets

CONSTANTS
  Threads, (* the threads that log                                         *)
  Hdr,     (* sizeof(MsgHeader): 8                                         *)
  Align,   (* e_memAlign: 64                                               *)
  Lines,   (* e_memSize in units of the alignment                          *)
  Lens,    (* the lengths of messages                                      *)
  NoThread (* holds the lock when nobody does                              *)

ASSUME MemoryAssumption ==
  /\ Hdr \in Nat \ {0}
  /\ Align \in Nat
  /\ Hdr < Align
  /\ Lines \in Nat
  /\ Lens \subseteq Nat
  /\ NoThread \notin Threads

VARIABLES
  lock,     (* who holds m_lock                                            *)
  writePtr, (* m_writePtr                                                  *)
  allocated,(* allocated[p]: m_allocated in the header at p                *)
  size,     (* size[p]: m_size in the header at p, 0 until the copy        *)
  bytes,    (* bytes[i]: the thread that wrote the byte at i last          *)
  pc,       (* where each thread is                                        *)
  len,      (* ln: the length of the message a thread is writing           *)
  mem,      (* curr_mem: where a thread's record begins                    *)
  written   (* history: the messages written, by whom, where and how long  *)

memory == << allocated, size, bytes >>
vars == << lock, writePtr, memory, pc, len, mem, written >>

Size == Align * Lines

Init ==
  /\ lock = NoThread
  /\ writePtr = 0
  /\ allocated = << >>
  /\ size = << >>
  /\ bytes = << >>
  /\ pc = [t \in Threads |-> "idle"]
  /\ len = [t \in Threads |-> 0]
  /\ mem = [t \in Threads |-> 0]
  /\ written = {}

\* The bytes std::align skips to make x a multiple of the alignment.
Pad(x) == (Align - (x % Align)) % Align

\* Mutant of RecordEnd: leaves no room for the header.
RecordEndNoHeader(p, n) == p + n + Pad(p + n)

\* Where the record behind the one at p would begin.
RecordEnd(p, n) == p + n + Hdr + Pad(p + n + Hdr)

\* Mutant of Fits: forgets what is skipped.
FitsUnpadded(p, n) == n <= Size - p

\* Mutant of Fits: forgets what is in use.
FitsEmpty(p, n) == Pad(p + n + Hdr) + n <= Size

\* Mutant of Fits: keeps room for one more line.
FitsWithSpare(p, n) == Pad(p + n + Hdr) + n + Align <= Size - p

\* std::align finds room for a message of length n in a record at p.  It is asked about
\* the space behind p, header included, but for the message alone.
Fits(p, n) == Pad(p + n + Hdr) + n <= Size - p

Goto(t, from, to) ==
  /\ pc[t] = from
  /\ pc' = [pc EXCEPT ![t] = to]

\* A thread has a message that is not sent.
WriteToBuffer(t, n) ==
  /\ Goto(t, "idle", "lock")
  /\ len' = [len EXCEPT ![t] = n]
  /\ UNCHANGED << lock, writePtr, memory, mem, written >>

\* Mutant of Lock: does not wait.
LockAnyway(t) ==
  /\ Goto(t, "lock", "read")
  /\ lock' = t
  /\ UNCHANGED << writePtr, memory, len, mem, written >>

Lock(t) ==
  /\ Goto(t, "lock", "read")
  /\ lock = NoThread
  /\ lock' = t
  /\ UNCHANGED << writePtr, memory, len, mem, written >>

ReadWritePtr(t) ==
  /\ Goto(t, "read", "align")
  /\ mem' = [mem EXCEPT ![t] = writePtr]
  /\ UNCHANGED << lock, writePtr, memory, len, written >>

Reserve(t) ==
  /\ Goto(t, "align", "header")
  /\ Fits(mem[t], len[t])
  /\ writePtr' = writePtr + (RecordEnd(mem[t], len[t]) - mem[t])
  /\ UNCHANGED << lock, memory, len, mem, written >>

\* AcquireMem returns nullptr.
Refuse(t) ==
  /\ Goto(t, "align", "refused")
  /\ ~ Fits(mem[t], len[t])
  /\ UNCHANGED << lock, writePtr, memory, len, mem, written >>

\* f with the value v at the points in S, whether they were in its domain or not.
With(f, S, v) == [i \in DOMAIN f \cup S |-> IF i \in S THEN v ELSE f[i]]

WriteHeader(t) ==
  /\ Goto(t, "header", "unlock")
  /\ allocated' = With(allocated, {mem[t]}, RecordEnd(mem[t], len[t]) - mem[t])
  /\ size' = With(size, {mem[t]}, 0)
  /\ bytes' = With(bytes, mem[t] .. mem[t] + Hdr - 1, t)
  /\ UNCHANGED << lock, writePtr, len, mem, written >>

Unlock(t) ==
  /\ Goto(t, "unlock", "copy")
  /\ lock' = NoThread
  /\ UNCHANGED << writePtr, memory, len, mem, written >>

UnlockRefused(t) ==
  /\ Goto(t, "refused", "idle")
  /\ lock' = NoThread
  /\ UNCHANGED << writePtr, memory, len, mem, written >>

\* memcpy of the message behind the header.
Copy(t) ==
  /\ Goto(t, "copy", "size")
  /\ bytes' = With(bytes, mem[t] + Hdr .. mem[t] + Hdr + len[t] - 1, t)
  /\ UNCHANGED << lock, writePtr, allocated, size, len, mem, written >>

WriteSize(t) ==
  /\ Goto(t, "size", "idle")
  /\ size' = With(size, {mem[t]}, len[t])
  /\ written' = written \cup {[by |-> t, at |-> mem[t], len |-> len[t]]}
  /\ UNCHANGED << lock, writePtr, allocated, bytes, len, mem >>

AcquireMem(t) ==
  \/ Lock(t)
  \/ ReadWritePtr(t)
  \/ Reserve(t)
  \/ Refuse(t)
  \/ WriteHeader(t)
  \/ Unlock(t)
  \/ UnlockRefused(t)

Next ==
  \E t \in Threads :
    \/ \E n \in Lens : WriteToBuffer(t, n)
    \/ AcquireMem(t)
    \/ Copy(t)
    \/ WriteSize(t)

Spec == Init /\ [][Next]_vars
-----------------------------------------------------------------------------
(* Properties.                                                             *)

\* Where a thread is while it holds the lock, and while its record is not finished.
Holding == {"read", "align", "header", "unlock", "refused"}
Filling == {"header", "unlock", "copy", "size"}

\* Type invariant; the write pointer stays within the memory.
TypeOK ==
  /\ lock \in Threads \cup {NoThread}
  /\ writePtr \in 0 .. Size
  /\ DOMAIN allocated \subseteq Nat /\ allocated \in [DOMAIN allocated -> Nat]
  /\ DOMAIN size \subseteq Nat /\ size \in [DOMAIN size -> Nat]
  /\ DOMAIN bytes \subseteq Nat /\ bytes \in [DOMAIN bytes -> Threads]
  /\ pc \in [Threads -> {"idle", "lock", "copy", "size"} \cup Holding]
  /\ len \in [Threads -> Nat]
  /\ mem \in [Threads -> Nat]
  /\ written \subseteq [by : Threads, at : Nat, len : Nat]

\* No byte is written outside of the memory, although AcquireMem asks for room for the
\* message alone and writes its header as well.
InMemory == \A i \in DOMAIN bytes : i < Size

\* A message that was written stays as it was written, header and all, while other threads
\* reserve and fill their records.
Intact ==
  \A r \in written :
    /\ \A i \in r.at .. r.at + Hdr + r.len - 1 : i \in DOMAIN bytes /\ bytes[i] = r.by
    /\ size[r.at] = r.len
    /\ r.at + Hdr + r.len <= r.at + allocated[r.at]

\* Whenever the lock is free, one gets from header to header, from the first one up to the
\* write pointer: m_allocated leads from each record to the next.
Chained ==
  lock = NoThread =>
    LET starts == DOMAIN allocated \cup {writePtr} IN
    /\ 0 \in starts
    /\ \A p \in DOMAIN allocated : p + allocated[p] \in starts

\* A message is refused only if there is really no room for it and its header.
RefusedOnlyWhenFull ==
  \A t \in Threads : pc[t] = "refused" => mem[t] + Hdr + len[t] > Size
=============================================================================
