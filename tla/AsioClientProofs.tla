--------------------------- MODULE AsioClientProofs ---------------------------
(***************************************************************************)
(* Proofs about AsioClient: its efforts to be connected are never lost nor *)
(* multiplied but by the timer and by failed writes, and a client with     *)
(* nothing left to do believes to be connected exactly when it is.         *)
(***************************************************************************)
EXTENDS AsioClient, FiniteSetTheorems, TLAPS

-----------------------------------------------------------------------------
(* What is left of a function *)

(* Everything that can be left of the functions the threads are in *)
Shapes ==
  { << >>, << "close", "reconnect", "timer" >>, << "error", "reconnect", "timer" >>,
    << "reconnect", "timer" >>, << "timer" >>, << "error", "reconnect" >>, << "reconnect" >>,
    << "cancel", "connected", "read" >>, << "connected", "read" >>, << "read" >>, << "write" >> }

Has(s, step) == \E i \in DOMAIN s : s[i] = step

Once(s) ==
  /\ s \in Seq(Steps) /\ DOMAIN s \subseteq 1 .. 3
  /\ \A i, j \in DOMAIN s : s[i] = s[j] => i = j

LEMMA Three ==
  ASSUME NEW a \in Steps, NEW b \in Steps, NEW c \in Steps, a # b, b # c, a # c
  PROVE  Once(<< a, b, c >>) /\ Tail(<< a, b, c >>) = << b, c >>
<1> DEFINE s == << a, b, c >>
<1>1. /\ DOMAIN s = 1 .. 3 /\ s[1] = a /\ s[2] = b /\ s[3] = c
      /\ \A i \in 1 .. 3 : i = 1 \/ i = 2 \/ i = 3
  OBVIOUS
<1>2. s \in Seq(Steps)
  OBVIOUS
<1>3. Tail(s) = << b, c >>
  OBVIOUS
<1> HIDE DEF s
<1>4. Once(s)
  BY <1>1, <1>2 DEF Once
<1> QED
  BY <1>3, <1>4 DEF s

LEMMA Two ==
  ASSUME NEW a \in Steps, NEW b \in Steps, a # b
  PROVE  Once(<< a, b >>) /\ Tail(<< a, b >>) = << b >>
<1> DEFINE s == << a, b >>
<1>1. DOMAIN s = 1 .. 2 /\ s[1] = a /\ s[2] = b /\ \A i \in 1 .. 2 : i = 1 \/ i = 2
  OBVIOUS
<1>2. s \in Seq(Steps)
  OBVIOUS
<1>3. Tail(s) = << b >>
  OBVIOUS
<1> HIDE DEF s
<1>4. Once(s)
  BY <1>1, <1>2 DEF Once
<1> QED
  BY <1>3, <1>4 DEF s

LEMMA One ==
  ASSUME NEW a \in Steps
  PROVE  Once(<< a >>) /\ Tail(<< a >>) = << >>
<1>1. DOMAIN << a >> = 1 .. 1 /\ << a >> \in Seq(Steps) /\ Tail(<< a >>) = << >>
  OBVIOUS
<1> QED
  BY <1>1 DEF Once

(* No step occurs twice in what is left of a function. *)
LEMMA Shape_Once ==
  ASSUME NEW s \in Shapes
  PROVE  Once(s) /\ (s # << >> => Tail(s) \in Shapes)
<1>1. CASE s = << >>
  BY <1>1 DEF Once
<1>2. CASE s = << "close", "reconnect", "timer" >>
  BY <1>2, Three DEF Shapes, Steps
<1>3. CASE s = << "error", "reconnect", "timer" >>
  BY <1>3, Three DEF Shapes, Steps
<1>4. CASE s = << "cancel", "connected", "read" >>
  BY <1>4, Three DEF Shapes, Steps
<1>5. CASE s = << "reconnect", "timer" >> \/ s = << "error", "reconnect" >> \/ s = << "connected", "read" >>
  BY <1>5, Two DEF Shapes, Steps
<1>6. CASE s = << "timer" >> \/ s = << "reconnect" >> \/ s = << "read" >> \/ s = << "write" >>
  BY <1>6, One DEF Shapes, Steps
<1> QED
  BY <1>1, <1>2, <1>3, <1>4, <1>5, <1>6 DEF Shapes

LEMMA Shape_Tail ==
  ASSUME NEW s \in Shapes, s # << >>
  PROVE  /\ Tail(s) \in Shapes
         /\ ~ Has(Tail(s), Head(s))
         /\ \A x : x # Head(s) => (Has(Tail(s), x) <=> Has(s, x))
         /\ Has(s, Head(s))
<1>1. Tail(s) \in Shapes
  BY Shape_Once
<1>2. s \in Seq(Steps) /\ \A i, j \in DOMAIN s : s[i] = s[j] => i = j
  BY Shape_Once DEF Once
<1>3. /\ DOMAIN s = 1 .. Len(s) /\ Len(s) \in Nat /\ Len(s) > 0 /\ Head(s) = s[1]
      /\ DOMAIN Tail(s) = 1 .. Len(s) - 1
      /\ \A i \in 1 .. Len(s) - 1 : Tail(s)[i] = s[i + 1]
  BY <1>2
<1>4. ~ Has(Tail(s), Head(s))
  BY <1>2, <1>3 DEF Has
<1>5. ASSUME NEW x, x # Head(s) PROVE Has(Tail(s), x) <=> Has(s, x)
  <2>1. ASSUME NEW i \in DOMAIN s, s[i] = x PROVE Has(Tail(s), x)
    <3>1. i - 1 \in 1 .. Len(s) - 1 /\ (i - 1) + 1 = i
      BY <1>3, <1>5, <2>1
    <3> QED
      BY <1>3, <2>1, <3>1 DEF Has
  <2>2. ASSUME NEW i \in DOMAIN Tail(s), Tail(s)[i] = x PROVE Has(s, x)
    BY <1>3, <2>2 DEF Has
  <2> QED
    BY <2>1, <2>2 DEF Has
<1>6. Has(s, Head(s))
  BY <1>3 DEF Has
<1> QED
  BY <1>1, <1>4, <1>5, <1>6

(* What the shapes that are called contain *)
LEMMA Shape_Facts ==
  /\ Recover \in Shapes /\ AfterConnect \in Shapes
  /\ << "timer" >> \in Shapes /\ << "read" >> \in Shapes /\ << "write" >> \in Shapes
  /\ << "close", "reconnect", "timer" >> \in Shapes /\ << "connected", "read" >> \in Shapes
  /\ << "reconnect", "timer" >> \in Shapes
  /\ \A x : ~ Has(<< >>, x)
  /\ \A x : Has(<< "timer" >>, x) <=> x = "timer"
  /\ \A x : Has(<< "read" >>, x) <=> x = "read"
  /\ \A x : Has(<< "write" >>, x) <=> x = "write"
  /\ \A x : Has(<< "close", "reconnect", "timer" >>, x) <=> x \in {"close", "reconnect", "timer"}
  /\ \A x : Has(<< "reconnect", "timer" >>, x) <=> x \in {"reconnect", "timer"}
  /\ \A x : Has(<< "connected", "read" >>, x) <=> x \in {"connected", "read"}
  /\ \A x : Has(Recover, x) <=> x \in {"error", "reconnect", "timer"}
BY DEF Shapes, Recover, AfterConnect, Has

-----------------------------------------------------------------------------
(* Counting the steps to be done *)

(* The actors that have a step still to do, and where *)
Doing(td, step) == {a \in Actors : Has(td[a], step)}
Slots(td, step) == {p \in Actors \X (1 .. 3) : p[2] \in DOMAIN td[p[1]] /\ td[p[1]][p[2]] = step}

LEMMA Slots_Counted ==
  ASSUME NEW td \in [Actors -> Shapes], NEW step, IsFiniteSet(Doing(td, step))
  PROVE  Cardinality(Slots(td, step)) = Cardinality(Doing(td, step))
<1> DEFINE D == Doing(td, step)
           S == Slots(td, step)
           at(a) == CHOOSE i \in DOMAIN td[a] : td[a][i] = step
           g == [a \in D |-> << a, at(a) >>]
<1>1. ASSUME NEW a \in D
      PROVE  /\ a \in Actors /\ at(a) \in DOMAIN td[a] /\ td[a][at(a)] = step
             /\ DOMAIN td[a] \subseteq 1 .. 3
             /\ \A i \in DOMAIN td[a] : td[a][i] = step => i = at(a)
  <2>1. a \in Actors /\ \E i \in DOMAIN td[a] : td[a][i] = step
    BY DEF Doing, Has
  <2>2. td[a] \in Shapes
    BY <2>1
  <2>3. at(a) \in DOMAIN td[a] /\ td[a][at(a)] = step
    BY <2>1
  <2>4. DOMAIN td[a] \subseteq 1 .. 3 /\ \A i, j \in DOMAIN td[a] : td[a][i] = td[a][j] => i = j
    BY <2>2, Shape_Once DEF Once
  <2> HIDE DEF at
  <2> QED
    BY <2>1, <2>3, <2>4
<1> HIDE DEF at
<1>2. ASSUME NEW a \in D PROVE << a, at(a) >> \in S
  BY <1>1 DEF Slots
<1>3. ASSUME NEW p \in S PROVE p[1] \in D /\ p = << p[1], at(p[1]) >>
  <2>1. p \in Actors \X (1 .. 3) /\ p[2] \in DOMAIN td[p[1]] /\ td[p[1]][p[2]] = step
    BY DEF Slots
  <2>2. p[1] \in D
    BY <2>1 DEF Doing, Has
  <2>3. p[2] = at(p[1])
    BY <1>1, <2>1, <2>2
  <2> QED
    BY <2>1, <2>2, <2>3
<1>4. IsFiniteSet(D)
  OBVIOUS
<1> HIDE DEF D, S
<1>5. g \in Bijection(D, S)
  <2>1. g \in [D -> S]
    BY <1>2
  <2>2. ASSUME NEW a \in D, NEW b \in D, g[a] = g[b] PROVE a = b
    BY <2>2
  <2>3. ASSUME NEW p \in S PROVE \E a \in D : g[a] = p
    BY <1>3
  <2> QED
    BY <2>1, <2>2, <2>3 DEF Bijection, Injection, Surjection, IsInjective
<1>6. Cardinality(S) = Cardinality(D)
  BY <1>4, <1>5, FS_Bijection DEF ExistsBijection
<1> QED
  BY <1>6 DEF D, S

(* One actor goes from what it had to do to something else. *)
Turned(td, td2, a, s) == td2 = [td EXCEPT ![a] = s]

LEMMA Doing_Changed ==
  ASSUME NEW td \in [Actors -> Shapes], NEW a \in Actors, NEW s \in Shapes,
         NEW td2, Turned(td, td2, a, s), NEW step, IsFiniteSet(Doing(td, step))
  PROVE  /\ IsFiniteSet(Doing(td2, step))
         /\ Cardinality(Doing(td, step)) \in Nat /\ Cardinality(Doing(td2, step)) \in Nat
         /\ Cardinality(Doing(td2, step))
              = Cardinality(Doing(td, step)) + (IF Has(s, step) THEN 1 ELSE 0)
                                             - (IF Has(td[a], step) THEN 1 ELSE 0)
<1> DEFINE D == Doing(td, step)
           E == Doing(td2, step)
<1>1. \A b \in Actors : td2[b] = IF b = a THEN s ELSE td[b]
  BY DEF Turned
<1>2. Cardinality(D) \in Nat
  BY FS_CardinalityType
<1>3. CASE Has(s, step)
  <2>1. E = D \cup {a}
    BY <1>1, <1>3 DEF Doing
  <2>2. /\ IsFiniteSet(D \cup {a})
        /\ Cardinality(D \cup {a}) = IF a \in D THEN Cardinality(D) ELSE Cardinality(D) + 1
    BY FS_AddElement
  <2>3. a \in D <=> Has(td[a], step)
    BY DEF Doing
  <2> HIDE DEF D, E
  <2>4. IsFiniteSet(E) /\ Cardinality(E) = Cardinality(D) + 1 - (IF Has(td[a], step) THEN 1 ELSE 0)
    BY <1>2, <2>1, <2>2, <2>3
  <2>5. Cardinality(E) \in Nat
    BY <2>4, FS_CardinalityType
  <2> QED
    BY <1>2, <1>3, <2>4, <2>5 DEF D, E
<1>4. CASE ~ Has(s, step)
  <2>1. E = D \ {a}
    BY <1>1, <1>4 DEF Doing
  <2>2. /\ IsFiniteSet(D \ {a})
        /\ Cardinality(D \ {a}) = IF a \in D THEN Cardinality(D) - 1 ELSE Cardinality(D)
    BY FS_RemoveElement
  <2>3. a \in D <=> Has(td[a], step)
    BY DEF Doing
  <2> HIDE DEF D, E
  <2>4. IsFiniteSet(E) /\ Cardinality(E) = Cardinality(D) - (IF Has(td[a], step) THEN 1 ELSE 0)
    BY <1>2, <2>1, <2>2, <2>3
  <2>5. Cardinality(E) \in Nat
    BY <2>4, FS_CardinalityType
  <2> QED
    BY <1>2, <1>4, <2>4, <2>5 DEF D, E
<1> QED
  BY <1>3, <1>4

-----------------------------------------------------------------------------
(* Counting the handlers that are due *)

Handlers == [op : {"connect", "read", "wait"}, ok : BOOLEAN]
Count(s, op) == Cardinality({i \in DOMAIN s : s[i].op = op})

LEMMA Count_Nat ==
  ASSUME NEW s \in Seq(Handlers), NEW op
  PROVE  Count(s, op) \in Nat /\ IsFiniteSet({i \in DOMAIN s : s[i].op = op})
<1>1. DOMAIN s = 1 .. Len(s) /\ Len(s) \in Nat
  OBVIOUS
<1>2. IsFiniteSet(1 .. Len(s))
  BY <1>1, FS_Interval
<1>3. {i \in DOMAIN s : s[i].op = op} \in SUBSET (1 .. Len(s))
  BY <1>1
<1>4. IsFiniteSet({i \in DOMAIN s : s[i].op = op})
  BY <1>2, <1>3, FS_Subset
<1> QED
  BY <1>4, FS_CardinalityType DEF Count

LEMMA Count_Concat ==
  ASSUME NEW s \in Seq(Handlers), NEW r \in Seq(Handlers), NEW op
  PROVE  Count(s \o r, op) = Count(s, op) + Count(r, op)
<1> DEFINE n == Len(s)
           P == {i \in DOMAIN s : s[i].op = op}
           Q == {i \in DOMAIN r : r[i].op = op}
           R == {i \in n + 1 .. n + Len(r) : r[i - n].op = op}
           T == {i \in DOMAIN (s \o r) : (s \o r)[i].op = op}
           f == [i \in Q |-> i + n]
<1>1. /\ n \in Nat /\ Len(r) \in Nat /\ DOMAIN s = 1 .. n /\ DOMAIN r = 1 .. Len(r)
      /\ DOMAIN (s \o r) = 1 .. n + Len(r)
      /\ \A i \in 1 .. n : (s \o r)[i] = s[i]
      /\ \A i \in n + 1 .. n + Len(r) : (s \o r)[i] = r[i - n]
  OBVIOUS
<1>2. IsFiniteSet(P) /\ IsFiniteSet(Q) /\ Cardinality(P) \in Nat /\ Cardinality(Q) \in Nat
  BY Count_Nat, FS_CardinalityType
<1>3. T = P \cup R
  <2>1. \A i : i \in 1 .. n + Len(r) <=> i \in 1 .. n \/ i \in n + 1 .. n + Len(r)
    BY <1>1
  <2> QED
    BY <1>1, <2>1
<1>4. P \cap R = {}
  BY <1>1
<1>5. ASSUME NEW i \in Q PROVE i \in Int /\ i + n \in R
  BY <1>1
<1>6. ASSUME NEW j \in R PROVE j - n \in Q /\ (j - n) + n = j
  BY <1>1
<1>7. n \in Int
  BY <1>1
<1> HIDE DEF P, Q, R, T, n
<1>8. f \in Bijection(Q, R)
  <2>1. f \in [Q -> R]
    BY <1>5
  <2>2. ASSUME NEW i \in Q, NEW j \in Q, f[i] = f[j] PROVE i = j
    BY <1>5, <1>7, <2>2
  <2>3. ASSUME NEW j \in R PROVE \E i \in Q : f[i] = j
    BY <1>6
  <2> QED
    BY <2>1, <2>2, <2>3 DEF Bijection, Injection, Surjection, IsInjective
<1>9. IsFiniteSet(R) /\ Cardinality(R) = Cardinality(Q)
  BY <1>2, <1>8, FS_Bijection DEF ExistsBijection
<1>10. Cardinality(P \cup R) = Cardinality(P) + Cardinality(R) - Cardinality(P \cap R)
  BY <1>2, <1>9, FS_Union
<1>11. Cardinality(P \cap R) = 0
  BY <1>4, FS_EmptySet
<1>12. Cardinality(T) = Cardinality(P) + Cardinality(Q)
  BY <1>2, <1>3, <1>9, <1>10, <1>11
<1> QED
  BY <1>12 DEF P, Q, T, Count

LEMMA Count_One ==
  ASSUME NEW h \in Handlers, NEW op
  PROVE  Count(<< h >>, op) = IF h.op = op THEN 1 ELSE 0
<1>1. {i \in DOMAIN << h >> : << h >>[i].op = op} = IF h.op = op THEN {1} ELSE {}
  <2>1. \A i : i \in DOMAIN << h >> <=> i = 1
    OBVIOUS
  <2> QED
    BY <2>1
<1>2. Cardinality({1}) = 1 /\ Cardinality({}) = 0
  BY FS_Singleton, FS_EmptySet
<1> QED
  BY <1>1, <1>2 DEF Count

LEMMA Count_Append ==
  ASSUME NEW s \in Seq(Handlers), NEW h \in Handlers, NEW op
  PROVE  /\ Append(s, h) \in Seq(Handlers)
         /\ Count(Append(s, h), op) = Count(s, op) + (IF h.op = op THEN 1 ELSE 0)
<1>1. Append(s, h) = s \o << h >> /\ << h >> \in Seq(Handlers)
  OBVIOUS
<1>2. Count(s \o << h >>, op) = Count(s, op) + Count(<< h >>, op)
  BY <1>1, Count_Concat
<1> QED
  BY <1>1, <1>2, Count_One

LEMMA Count_Tail ==
  ASSUME NEW s \in Seq(Handlers), s # << >>, NEW op
  PROVE  /\ Tail(s) \in Seq(Handlers) /\ Head(s) \in Handlers
         /\ Count(Tail(s), op) \in Nat
         /\ Count(s, op) = (IF Head(s).op = op THEN 1 ELSE 0) + Count(Tail(s), op)
<1>1. Head(s) \in Handlers /\ Tail(s) \in Seq(Handlers) /\ << Head(s) >> \in Seq(Handlers)
  OBVIOUS
<1>2. s = << Head(s) >> \o Tail(s)
  OBVIOUS
<1>3. Count(<< Head(s) >> \o Tail(s), op) = Count(<< Head(s) >>, op) + Count(Tail(s), op)
  BY <1>1, Count_Concat
<1>4. Count(<< Head(s) >>, op) = IF Head(s).op = op THEN 1 ELSE 0
  BY <1>1, Count_One
<1> QED
  BY <1>1, <1>2, <1>3, <1>4, Count_Nat

LEMMA Count_Aborted ==
  ASSUME NEW s \in Seq(Handlers), reads \in Nat
  PROVE  /\ s \o Aborted \in Seq(Handlers)
         /\ Count(s \o Aborted, "connect") = Count(s, "connect") + (IF sock = "connecting" THEN 1 ELSE 0)
         /\ Count(s \o Aborted, "read") = Count(s, "read") + reads
<1> DEFINE c == IF sock = "connecting" THEN << Handler("connect", FALSE) >> ELSE << >>
           r == [i \in 1 .. reads |-> Handler("read", FALSE)]
<1>1. /\ Handler("connect", FALSE) \in Handlers /\ Handler("read", FALSE) \in Handlers
      /\ Handler("connect", FALSE).op = "connect" /\ Handler("read", FALSE).op = "read"
  BY DEF Handler, Handlers
<1>2. c \in Seq(Handlers) /\ r \in Seq(Handlers) /\ DOMAIN r = 1 .. reads
      /\ \A i \in 1 .. reads : r[i] = Handler("read", FALSE)
  <2>1. c \in Seq(Handlers)
    <3>1. << >> \in Seq(Handlers)
      OBVIOUS
    <3>2. \A h \in Handlers : << h >> \in Seq(Handlers)
      OBVIOUS
    <3> QED
      BY <1>1, <3>1, <3>2
  <2>2. r \in [1 .. reads -> Handlers]
    BY <1>1
  <2>3. r \in Seq(Handlers)
    <3> HIDE DEF r
    <3> QED
      BY <2>2
  <2> QED
    BY <2>1, <2>2, <2>3
<1>3. Cardinality({}) = 0 /\ Cardinality(1 .. reads) = reads
  <2>1. Cardinality(1 .. reads) = IF 1 > reads THEN 0 ELSE reads - 1 + 1
    BY FS_Interval
  <2> QED
    BY <2>1, FS_EmptySet
<1>4. Count(<< >>, "connect") = 0 /\ Count(<< >>, "read") = 0
  <2>1. {i \in DOMAIN << >> : << >>[i].op = "connect"} = {} /\ {i \in DOMAIN << >> : << >>[i].op = "read"} = {}
    OBVIOUS
  <2> QED
    BY <1>3, <2>1 DEF Count
<1>5. Count(c, "connect") = (IF sock = "connecting" THEN 1 ELSE 0) /\ Count(c, "read") = 0
  BY <1>1, <1>4, Count_One
<1>6. Count(r, "connect") = 0 /\ Count(r, "read") = reads
  <2> HIDE DEF r
  <2>1. {i \in DOMAIN r : r[i].op = "connect"} = {} /\ {i \in DOMAIN r : r[i].op = "read"} = 1 .. reads
    BY <1>1, <1>2
  <2> QED
    BY <1>3, <2>1 DEF Count
<1>7. Aborted = c \o r
  BY DEF Aborted
<1> HIDE DEF c, r
<1>8. /\ Count(s \o Aborted, "connect") = Count(s, "connect") + Count(Aborted, "connect")
      /\ Count(s \o Aborted, "read") = Count(s, "read") + Count(Aborted, "read")
      /\ Count(Aborted, "connect") = Count(c, "connect") + Count(r, "connect")
      /\ Count(Aborted, "read") = Count(c, "read") + Count(r, "read")
      /\ s \o Aborted \in Seq(Handlers)
  <2>1. c \o r \in Seq(Handlers)
    BY <1>2
  <2>2. Aborted \in Seq(Handlers)
    BY <1>7, <2>1
  <2>3. /\ Count(s \o Aborted, "connect") = Count(s, "connect") + Count(Aborted, "connect")
        /\ Count(s \o Aborted, "read") = Count(s, "read") + Count(Aborted, "read")
    BY <2>2, Count_Concat
  <2>4. /\ Count(c \o r, "connect") = Count(c, "connect") + Count(r, "connect")
        /\ Count(c \o r, "read") = Count(c, "read") + Count(r, "read")
    BY <1>2, Count_Concat
  <2>5. s \o Aborted \in Seq(Handlers)
    BY <2>2
  <2> QED
    BY <1>7, <2>3, <2>4, <2>5
<1>9. Count(s, "connect") \in Nat /\ Count(s, "read") \in Nat
  BY Count_Nat
<1> QED
  BY <1>5, <1>6, <1>8, <1>9

-----------------------------------------------------------------------------
(* The inductive invariant *)

Work(step) == Cardinality(Doing(todo, step))
Connecting == IF sock = "connecting" THEN 1 ELSE 0

(* The efforts, counted by actors *)
Sum == Connecting + reads + Count(ready, "connect") + Count(ready, "read") + Work("reconnect") + Work("read")

Shaped ==
  /\ todo \in [Actors -> Shapes]
  /\ IsFiniteSet(Doing(todo, "reconnect")) /\ IsFiniteSet(Doing(todo, "read"))

(* Before Connect there is nothing. *)
Off ==
  phase = "off" =>
    /\ sock = "closed" /\ reads = 0 /\ waits = 0 /\ ready = << >> /\ extra = 0 /\ ~connected
    /\ \A a \in Actors : todo[a] = << >>

(* Only a connected socket has a read pending. *)
ReadsLive == reads > 0 => sock \in {"up", "lost"}

Counted == phase = "running" => Sum = 1 + extra

IInv == TypeOK /\ Shaped /\ Off /\ ReadsLive /\ Counted

LEMMA Sum_Parts ==
  ASSUME IInv
  PROVE  /\ Connecting \in Nat /\ reads \in Nat /\ extra \in Nat /\ ready \in Seq(Handlers)
         /\ Count(ready, "connect") \in Nat /\ Count(ready, "read") \in Nat
         /\ Work("reconnect") \in Nat /\ Work("read") \in Nat
<1>1. ready \in Seq(Handlers) /\ reads \in Nat /\ extra \in Nat
  BY DEF IInv, TypeOK, Handlers
<1>2. Work("reconnect") \in Nat /\ Work("read") \in Nat
  BY FS_CardinalityType DEF IInv, Shaped, Work
<1> QED
  BY <1>1, <1>2, Count_Nat DEF Connecting

(* The sum counts the efforts. *)
LEMMA Efforts_Sum == ASSUME IInv PROVE Efforts = Sum
<1>1. ToDo("reconnect") = Work("reconnect") /\ ToDo("read") = Work("read")
  <2>1. \A step : ToDo(step) = Cardinality(Slots(todo, step))
    BY DEF ToDo, Slots
  <2> QED
    BY <2>1, Slots_Counted DEF IInv, Shaped, Work
<1>2. Due("connect") = Count(ready, "connect") /\ Due("read") = Count(ready, "read")
  BY DEF Due, Count
<1> QED
  BY <1>1, <1>2 DEF Efforts, Sum, Connecting

(* An actor goes on with its function. *)
LEMMA Goes_On ==
  ASSUME IInv, NEW a \in Actors, NEW x, At(a, x), Continue(a)
  PROVE  /\ phase # "off" /\ Shaped'
         /\ todo[a] \in Shapes /\ todo[a] # << >> /\ Head(todo[a]) = x
         /\ todo' = [todo EXCEPT ![a] = Tail(todo[a])]
         /\ Work("reconnect")' = Work("reconnect") - (IF x = "reconnect" THEN 1 ELSE 0)
         /\ Work("read")' = Work("read") - (IF x = "read" THEN 1 ELSE 0)
<1> DEFINE s == todo[a]
<1>1. todo \in [Actors -> Shapes] /\ s \in Shapes /\ s # << >> /\ Head(s) = x
  BY DEF IInv, Shaped, At
<1>2. phase # "off"
  BY <1>1 DEF IInv, Off
<1>3. todo' = [todo EXCEPT ![a] = Tail(s)] /\ Turned(todo, todo', a, Tail(s))
  BY DEF Continue, Turned
<1> HIDE DEF s
<1>4. /\ Tail(s) \in Shapes /\ ~ Has(Tail(s), x) /\ Has(s, x)
      /\ \A y : y # x => (Has(Tail(s), y) <=> Has(s, y))
  BY <1>1, Shape_Tail
<1>5. ASSUME NEW step, IsFiniteSet(Doing(todo, step))
      PROVE  /\ IsFiniteSet(Doing(todo', step))
             /\ Cardinality(Doing(todo', step))
                  = Cardinality(Doing(todo, step)) - (IF x = step THEN 1 ELSE 0)
  <2>1. /\ IsFiniteSet(Doing(todo', step)) /\ Cardinality(Doing(todo, step)) \in Nat
        /\ Cardinality(Doing(todo', step))
             = Cardinality(Doing(todo, step)) + (IF Has(Tail(s), step) THEN 1 ELSE 0)
                                              - (IF Has(todo[a], step) THEN 1 ELSE 0)
    BY <1>1, <1>3, <1>4, <1>5, Doing_Changed
  <2> QED
    BY <1>4, <2>1 DEF s
<1>6. /\ IsFiniteSet(Doing(todo, "reconnect")) /\ IsFiniteSet(Doing(todo, "read"))
      /\ todo' \in [Actors -> Shapes]
  BY <1>1, <1>3, <1>4 DEF IInv, Shaped
<1>7. /\ Shaped'
      /\ Work("reconnect")' = Work("reconnect") - (IF x = "reconnect" THEN 1 ELSE 0)
      /\ Work("read")' = Work("read") - (IF x = "read" THEN 1 ELSE 0)
  BY <1>5, <1>6 DEF Shaped, Work
<1> QED
  BY <1>1, <1>2, <1>3, <1>7 DEF s

(* An actor calls a function, with nothing left of an earlier one that counts. *)
LEMMA Goes_To ==
  ASSUME IInv, NEW a \in Actors, NEW s \in Shapes, Call(a, s),
         ~ Has(todo[a], "reconnect"), ~ Has(todo[a], "read")
  PROVE  /\ Shaped'
         /\ Work("reconnect")' = Work("reconnect") + (IF Has(s, "reconnect") THEN 1 ELSE 0)
         /\ Work("read")' = Work("read") + (IF Has(s, "read") THEN 1 ELSE 0)
<1>1. todo \in [Actors -> Shapes] /\ todo' = [todo EXCEPT ![a] = s] /\ Turned(todo, todo', a, s)
  BY DEF IInv, Shaped, Call, Turned
<1>2. ASSUME NEW step, IsFiniteSet(Doing(todo, step)), ~ Has(todo[a], step)
      PROVE  /\ IsFiniteSet(Doing(todo', step))
             /\ Cardinality(Doing(todo', step))
                  = Cardinality(Doing(todo, step)) + (IF Has(s, step) THEN 1 ELSE 0)
  <2>1. /\ IsFiniteSet(Doing(todo', step)) /\ Cardinality(Doing(todo, step)) \in Nat
        /\ Cardinality(Doing(todo', step))
             = Cardinality(Doing(todo, step)) + (IF Has(s, step) THEN 1 ELSE 0)
                                              - (IF Has(todo[a], step) THEN 1 ELSE 0)
    BY <1>1, <1>2, Doing_Changed
  <2> QED
    BY <1>2, <2>1
<1>3. /\ IsFiniteSet(Doing(todo, "reconnect")) /\ IsFiniteSet(Doing(todo, "read"))
      /\ todo' \in [Actors -> Shapes]
  BY <1>1 DEF IInv, Shaped
<1> QED
  BY <1>2, <1>3 DEF Shaped, Work

LEMMA Same_Work ==
  ASSUME IInv, UNCHANGED todo
  PROVE  Shaped' /\ Work("reconnect")' = Work("reconnect") /\ Work("read")' = Work("read")
BY DEF IInv, Shaped, Work

LEMMA Shapes_Typed ==
  ASSUME NEW td \in [Actors -> Shapes] PROVE td \in [Actors -> Seq(Steps)]
BY Shape_Once DEF Once

-----------------------------------------------------------------------------
(* Every action keeps the invariant *)

(* The types of what the steps of the functions change *)
Connection ==
  /\ connected \in BOOLEAN /\ due \in BOOLEAN
  /\ sock \in {"closed", "connecting", "open", "up", "lost"}
  /\ reads \in Nat /\ waits \in Nat /\ ready \in Seq(Handlers)

(* What closing the socket does to the counts *)
LEMMA Closed ==
  ASSUME IInv, ready' = ready \o Aborted
  PROVE  /\ ready' \in Seq(Handlers)
         /\ Count(ready', "connect") = Count(ready, "connect") + Connecting
         /\ Count(ready', "read") = Count(ready, "read") + reads
BY Sum_Parts, Count_Aborted DEF Connecting

(* A handler more is due. *)
LEMMA Ended ==
  ASSUME IInv, NEW op \in {"connect", "read", "wait"}, NEW ok \in BOOLEAN,
         ready' = Append(ready, Handler(op, ok))
  PROVE  /\ ready' \in Seq(Handlers)
         /\ Count(ready', "connect") = Count(ready, "connect") + (IF op = "connect" THEN 1 ELSE 0)
         /\ Count(ready', "read") = Count(ready, "read") + (IF op = "read" THEN 1 ELSE 0)
<1>1. Handler(op, ok) \in Handlers /\ Handler(op, ok).op = op
  BY DEF Handler, Handlers
<1>2. ready \in Seq(Handlers)
  BY Sum_Parts
<1> DEFINE h == Handler(op, ok)
<1>3. ready' = Append(ready, h) /\ h \in Handlers /\ h.op = op
  BY <1>1
<1> HIDE DEF h
<1> QED
  BY <1>2, <1>3, Count_Append

LEMMA Step_IInv == ASSUME IInv, NEW a \in Actors, Step(a) PROVE IInv'
<1>1. /\ TypeOK /\ Connecting \in Nat /\ reads \in Nat /\ extra \in Nat /\ ready \in Seq(Handlers)
      /\ Count(ready, "connect") \in Nat /\ Count(ready, "read") \in Nat
      /\ Work("reconnect") \in Nat /\ Work("read") \in Nat /\ Connection /\ ReadsLive
  BY Sum_Parts DEF IInv, TypeOK, Connection
<1>2. ASSUME phase # "off", UNCHANGED << phase, server, buffered, counters >>,
             Shaped', Connection', ReadsLive', Sum' = Sum
      PROVE  IInv'
  <2>1. todo' \in [Actors -> Seq(Steps)]
    BY <1>2, Shapes_Typed DEF Shaped
  <2>2. TypeOK'
    BY <1>1, <1>2, <2>1 DEF TypeOK, Connection, Handlers, counters
  <2>3. Off' /\ Counted'
    BY <1>2 DEF Off, Counted, IInv, counters
  <2> QED
    BY <1>2, <2>2, <2>3 DEF IInv
<1>3. CASE CloseSocket(a) \/ OnSocketError(a)
  <2>1. /\ At(a, "close") \/ At(a, "error")
        /\ Continue(a) /\ ready' = ready \o Aborted /\ reads' = 0 /\ sock' = "closed"
        /\ UNCHANGED << phase, buffered, waits, due, server, counters >>
    BY <1>3 DEF CloseSocket, OnSocketError, Close
  <2>2. /\ phase # "off" /\ Shaped'
        /\ Work("reconnect")' = Work("reconnect") /\ Work("read")' = Work("read")
    BY <1>1, <2>1, Goes_On
  <2>3. /\ ready' \in Seq(Handlers) /\ Connecting' = 0
        /\ Count(ready', "connect") = Count(ready, "connect") + Connecting
        /\ Count(ready', "read") = Count(ready, "read") + reads
    BY <2>1, Closed DEF Connecting
  <2>4. Sum' = Sum
    BY <1>1, <2>1, <2>2, <2>3 DEF Sum
  <2>5. connected' \in BOOLEAN
    BY <1>1, <1>3 DEF CloseSocket, OnSocketError, Connection
  <2>6. Connection' /\ ReadsLive'
    BY <1>1, <2>1, <2>3, <2>5 DEF Connection, ReadsLive
  <2>7. UNCHANGED << phase, server, buffered, counters >>
    BY <2>1
  <2> QED
    BY <1>2, <2>2, <2>4, <2>6, <2>7
<1>4. CASE StartReconnect(a)
  <2>1. /\ At(a, "reconnect") /\ Continue(a) /\ ready' = ready \o Aborted
        /\ reads' = 0 /\ waits' = 0 /\ sock' = "connecting" /\ connected' = FALSE /\ due' = FALSE
        /\ UNCHANGED << phase, buffered, server, counters >>
    BY <1>4 DEF StartReconnect
  <2>2. /\ phase # "off" /\ Shaped'
        /\ Work("reconnect")' = Work("reconnect") - 1 /\ Work("read")' = Work("read")
    BY <1>1, <2>1, Goes_On
  <2>3. /\ ready' \in Seq(Handlers) /\ Connecting' = 1
        /\ Count(ready', "connect") = Count(ready, "connect") + Connecting
        /\ Count(ready', "read") = Count(ready, "read") + reads
    BY <2>1, Closed DEF Connecting
  <2>4. Sum' = Sum
    BY <1>1, <2>1, <2>2, <2>3 DEF Sum
  <2>5. connected' \in BOOLEAN /\ due' \in BOOLEAN
    BY <2>1
  <2>6. sock' = "connecting" /\ reads' = 0 /\ waits' = 0 /\ ready' \in Seq(Handlers)
    BY <2>1, <2>3
  <2>7. Connection' /\ ReadsLive'
    BY <2>5, <2>6 DEF Connection, ReadsLive
  <2>8. UNCHANGED << phase, server, buffered, counters >>
    BY <2>1
  <2> QED
    BY <1>2, <2>2, <2>4, <2>7, <2>8
<1>5. CASE StartClientTimer(a) \/ CancelClientTimer(a) \/ SetConnected(a)
  <2>1. /\ At(a, "timer") \/ At(a, "cancel") \/ At(a, "connected")
        /\ Continue(a)
        /\ UNCHANGED << phase, server, buffered, counters >>
        /\ UNCHANGED << sock, reads, due, ready >>
    BY <1>5 DEF StartClientTimer, CancelClientTimer, SetConnected
  <2>2. /\ phase # "off" /\ Shaped'
        /\ Work("reconnect")' = Work("reconnect") /\ Work("read")' = Work("read")
    BY <1>1, <2>1, Goes_On
  <2>3. Sum' = Sum
    BY <2>1, <2>2 DEF Sum, Connecting
  <2>4. waits' \in Nat
    BY <1>1, <1>5 DEF StartClientTimer, CancelClientTimer, SetConnected, Connection
  <2>5. connected' \in BOOLEAN
    BY <1>1, <1>5 DEF StartClientTimer, CancelClientTimer, SetConnected, Connection
  <2>6. Connection' /\ ReadsLive'
    BY <1>1, <2>1, <2>4, <2>5 DEF Connection, ReadsLive
  <2> QED
    BY <1>2, <2>1, <2>2, <2>3, <2>6
<1>6. CASE StartAsyncRead(a)
  <2>1. /\ At(a, "read") /\ Continue(a)
        /\ UNCHANGED << phase, server, buffered, counters >>
        /\ UNCHANGED << connected, sock, waits, due >>
    BY <1>6 DEF StartAsyncRead
  <2>2. /\ phase # "off" /\ Shaped'
        /\ Work("reconnect")' = Work("reconnect") /\ Work("read")' = Work("read") - 1
    BY <1>1, <2>1, Goes_On
  <2>3. Connecting' = Connecting
    BY <2>1 DEF Connecting
  <2>4. CASE sock \in {"up", "lost"}
    <3>1. reads' = reads + 1 /\ ready' = ready
      BY <1>6, <2>4 DEF StartAsyncRead
    <3>2. Sum' = Sum
      BY <1>1, <2>2, <2>3, <3>1 DEF Sum
    <3>3. Connection' /\ ReadsLive'
      BY <1>1, <2>1, <2>4, <3>1 DEF Connection, ReadsLive
    <3> QED
      BY <1>2, <2>1, <2>2, <3>2, <3>3
  <2>5. CASE sock \notin {"up", "lost"}
    <3>1. ready' = Append(ready, Handler("read", FALSE)) /\ reads' = reads
      BY <1>6, <2>5 DEF StartAsyncRead
    <3>2. /\ ready' \in Seq(Handlers) /\ Count(ready', "connect") = Count(ready, "connect") + 0
          /\ Count(ready', "read") = Count(ready, "read") + 1
      BY <1>1, <3>1, Ended
    <3>3. Sum' = Sum
      <4>1. reads' = reads
        BY <3>1
      <4>2. Count(ready', "connect") = Count(ready, "connect")
        BY <1>1, <3>2
      <4> QED
        BY <1>1, <2>2, <2>3, <3>2, <4>1, <4>2 DEF Sum
    <3>4. Connection' /\ ReadsLive'
      BY <1>1, <2>1, <3>1, <3>2 DEF Connection, ReadsLive
    <3> QED
      BY <1>2, <2>1, <2>2, <3>3, <3>4
  <2> QED
    BY <2>4, <2>5
<1> QED
  BY <1>3, <1>4, <1>5, <1>6 DEF Step

LEMMA Outside_IInv == ASSUME IInv, Environment \/ Completion PROVE IInv'
<1>1. /\ TypeOK /\ Connecting \in Nat /\ reads \in Nat /\ extra \in Nat /\ ready \in Seq(Handlers)
      /\ Count(ready, "connect") \in Nat /\ Count(ready, "read") \in Nat
      /\ Work("reconnect") \in Nat /\ Work("read") \in Nat /\ Connection /\ ReadsLive
  BY Sum_Parts DEF IInv, TypeOK, Connection
<1>2. UNCHANGED << phase, todo, connected, buffered, kept, writes, extra >>
  BY DEF Environment, Completion, ServerLeaves, ServerReturns, TimePasses, ConnectEnds, ReadEnds,
         WaitEnds, counters
<1>3. Shaped' /\ Work("reconnect")' = Work("reconnect") /\ Work("read")' = Work("read")
  BY <1>2, Same_Work
<1>4. ASSUME Connection', ReadsLive', Sum' = Sum, server' \in BOOLEAN,
             downs' \in 0 .. MaxDowns, expiries' \in 0 .. MaxExpiries,
             phase = "off" => UNCHANGED << sock, reads, waits, ready >>
      PROVE  IInv'
  <2>1. TypeOK'
    BY <1>1, <1>2, <1>4 DEF TypeOK, Connection, Handlers
  <2>2. Off' /\ Counted'
    BY <1>2, <1>4 DEF Off, Counted, IInv
  <2> QED
    BY <1>3, <1>4, <2>1, <2>2 DEF IInv
<1>5. CASE ServerLeaves
  <2>1. /\ sock' = (IF sock = "up" THEN "lost" ELSE sock) /\ server' = FALSE
        /\ UNCHANGED << reads, waits, due, ready, expiries >>
    BY <1>5 DEF ServerLeaves
  <2>2. downs' \in 0 .. MaxDowns
    BY <1>1, <1>5, AsioClientAssumption DEF ServerLeaves, TypeOK
  <2>3. Sum' = Sum
    BY <1>3, <2>1 DEF Sum, Connecting
  <2>4. Connection' /\ ReadsLive'
    BY <1>1, <1>2, <2>1 DEF Connection, ReadsLive
  <2>5. phase = "off" => UNCHANGED << sock, reads, waits, ready >>
    BY <2>1 DEF IInv, Off
  <2>6. server' \in BOOLEAN /\ expiries' \in 0 .. MaxExpiries
    BY <1>1, <2>1 DEF TypeOK
  <2> QED
    BY <1>4, <2>2, <2>3, <2>4, <2>5, <2>6
<1>6. CASE ServerReturns \/ TimePasses
  <2>1. UNCHANGED << sock, reads, waits, ready, downs >>
    BY <1>6 DEF ServerReturns, TimePasses, counters
  <2>2. server' \in BOOLEAN /\ due' \in BOOLEAN
    BY <1>1, <1>6 DEF ServerReturns, TimePasses, TypeOK
  <2>3. downs' \in 0 .. MaxDowns /\ expiries' \in 0 .. MaxExpiries
    BY <1>1, <1>6, <2>1, AsioClientAssumption DEF ServerReturns, TimePasses, TypeOK, counters
  <2>4. Sum' = Sum
    BY <1>3, <2>1 DEF Sum, Connecting
  <2>5. Connection' /\ ReadsLive'
    BY <1>1, <1>2, <2>1, <2>2 DEF Connection, ReadsLive
  <2> QED
    BY <1>4, <2>1, <2>2, <2>3, <2>4, <2>5
<1>7. CASE Completion
  <2>1. /\ UNCHANGED << due, server, downs, expiries >>
        /\ server' \in BOOLEAN /\ downs' \in 0 .. MaxDowns /\ expiries' \in 0 .. MaxExpiries
    BY <1>1, <1>7 DEF Completion, ConnectEnds, ReadEnds, WaitEnds, counters, TypeOK
  <2>2. phase # "off"
    <3>1. sock = "connecting" \/ reads > 0 \/ waits > 0
      BY <1>7 DEF Completion, ConnectEnds, ReadEnds, WaitEnds
    <3> QED
      BY <3>1 DEF IInv, Off
  <2>3. CASE ConnectEnds
    <3>1. /\ ready' = Append(ready, Handler("connect", server)) /\ UNCHANGED << reads, waits >>
          /\ sock = "connecting" /\ sock' \in {"up", "open"}
      BY <2>3 DEF ConnectEnds
    <3>2. /\ ready' \in Seq(Handlers) /\ Count(ready', "connect") = Count(ready, "connect") + 1
          /\ Count(ready', "read") = Count(ready, "read") + 0
      BY <1>1, <3>1, Ended DEF TypeOK
    <3>3. Connecting = 1 /\ Connecting' = 0 /\ reads' = reads
      BY <3>1 DEF Connecting
    <3>4. Sum' = Sum
      BY <1>1, <1>3, <3>2, <3>3 DEF Sum
    <3>5. Connection' /\ ReadsLive'
      BY <1>1, <1>2, <2>1, <3>1, <3>2 DEF Connection, ReadsLive
    <3> QED
      BY <1>4, <2>1, <2>2, <3>4, <3>5
  <2>4. CASE ReadEnds
    <3>1. /\ ready' = Append(ready, Handler("read", sock = "up")) /\ reads' = reads - 1
          /\ reads > 0 /\ UNCHANGED << sock, waits >>
      BY <2>4 DEF ReadEnds
    <3>2. /\ ready' \in Seq(Handlers) /\ Count(ready', "connect") = Count(ready, "connect") + 0
          /\ Count(ready', "read") = Count(ready, "read") + 1
      <4>1. (sock = "up") \in BOOLEAN
        OBVIOUS
      <4> QED
        BY <3>1, <4>1, Ended
    <3>3. Connecting' = Connecting /\ reads' = reads - 1
      BY <3>1 DEF Connecting
    <3>4. Sum' = Sum
      BY <1>1, <1>3, <3>2, <3>3 DEF Sum
    <3>5. sock' = sock /\ waits' = waits /\ reads > 0
      BY <3>1
    <3>6. reads' \in Nat
      BY <1>1, <3>3, <3>5
    <3>7. connected' = connected /\ due' = due
      BY <1>2, <2>1
    <3>8. Connection' /\ ReadsLive'
      BY <1>1, <3>2, <3>5, <3>6, <3>7 DEF Connection, ReadsLive
    <3> QED
      BY <1>4, <2>1, <2>2, <3>4, <3>8
  <2>5. CASE WaitEnds
    <3>1. /\ ready' = Append(ready, Handler("wait", TRUE)) /\ waits' = waits - 1
          /\ waits > 0 /\ UNCHANGED << sock, reads >>
      BY <2>5 DEF WaitEnds
    <3>2. /\ ready' \in Seq(Handlers) /\ Count(ready', "connect") = Count(ready, "connect") + 0
          /\ Count(ready', "read") = Count(ready, "read") + 0
      BY <3>1, Ended
    <3>3. Connecting' = Connecting /\ reads' = reads
      BY <3>1 DEF Connecting
    <3>4. Sum' = Sum
      BY <1>1, <1>3, <3>2, <3>3 DEF Sum
    <3>5. sock' = sock /\ waits' = waits - 1 /\ waits > 0
      BY <3>1
    <3>6. waits' \in Nat
      BY <1>1, <3>5 DEF Connection
    <3>7. connected' = connected /\ due' = due
      BY <1>2, <2>1
    <3>8. Connection' /\ ReadsLive'
      BY <1>1, <3>2, <3>3, <3>5, <3>6, <3>7 DEF Connection, ReadsLive
    <3> QED
      BY <1>4, <2>1, <2>2, <3>4, <3>8
  <2> QED
    BY <1>7, <2>3, <2>4, <2>5 DEF Completion
<1> QED
  BY <1>5, <1>6, <1>7 DEF Environment

(* The handler of an operation is taken from those that are due. *)
LEMMA Taken ==
  ASSUME IInv, NEW op, Runs(op), ready' = Tail(ready)
  PROVE  /\ ready' \in Seq(Handlers)
         /\ Count(ready', "connect") = Count(ready, "connect") - (IF op = "connect" THEN 1 ELSE 0)
         /\ Count(ready', "read") = Count(ready, "read") - (IF op = "read" THEN 1 ELSE 0)
         /\ phase = "running" /\ "io" \in Actors /\ todo["io"] = << >>
         /\ ~ Has(todo["io"], "reconnect") /\ ~ Has(todo["io"], "read")
<1>1. /\ phase = "running" /\ todo["io"] = << >> /\ ready # << >> /\ Head(ready).op = op
      /\ ready \in Seq(Handlers) /\ "io" \in Actors
  BY Sum_Parts DEF Runs, Free, Actors
<1>2. /\ Tail(ready) \in Seq(Handlers)
      /\ Count(Tail(ready), "connect") \in Nat /\ Count(Tail(ready), "read") \in Nat
      /\ Count(ready, "connect") = (IF op = "connect" THEN 1 ELSE 0) + Count(Tail(ready), "connect")
      /\ Count(ready, "read") = (IF op = "read" THEN 1 ELSE 0) + Count(Tail(ready), "read")
  BY <1>1, Count_Tail
<1>3. ~ Has(todo["io"], "reconnect") /\ ~ Has(todo["io"], "read")
  BY <1>1, Shape_Facts
<1>4. /\ Count(ready', "connect") = Count(ready, "connect") - (IF op = "connect" THEN 1 ELSE 0)
      /\ Count(ready', "read") = Count(ready, "read") - (IF op = "read" THEN 1 ELSE 0)
      /\ ready' \in Seq(Handlers)
  BY <1>2
<1> QED
  BY <1>1, <1>3, <1>4

(* What OnConnect does next is one effort. *)
LEMMA After_One ==
  Has(AfterConnect, "reconnect") <=> ~ Has(AfterConnect, "read")
BY DEF AfterConnect, Has

LEMMA Io_IInv == ASSUME IInv, IoThread PROVE IInv'
<1>1. /\ TypeOK /\ Connecting \in Nat /\ reads \in Nat /\ extra \in Nat /\ ready \in Seq(Handlers)
      /\ Count(ready, "connect") \in Nat /\ Count(ready, "read") \in Nat
      /\ Work("reconnect") \in Nat /\ Work("read") \in Nat /\ Connection /\ ReadsLive
  BY Sum_Parts DEF IInv, TypeOK, Connection
<1>2. /\ UNCHANGED << phase, connected, buffered, sock, reads, waits, due, server, kept, writes,
                      downs, expiries >>
      /\ ready' = Tail(ready) /\ \E op : Runs(op)
  BY DEF IoThread, OnClientTimer, OnConnect, OnRead, counters
<1>3. ready' \in Seq(Handlers) /\ phase = "running" /\ "io" \in Actors
  BY <1>2, Taken
<1>4. ASSUME Shaped', NEW d \in {0, 1}, Sum' = Sum + d, extra' = extra + d PROVE IInv'
  <2>1. todo' \in [Actors -> Seq(Steps)]
    BY <1>4, Shapes_Typed DEF Shaped
  <2>6. extra' \in Nat
    BY <1>1, <1>4
  <2>2. TypeOK'
    BY <1>1, <1>2, <1>3, <2>1, <2>6 DEF TypeOK, Handlers
  <2>3. Off' /\ ReadsLive'
    BY <1>1, <1>2, <1>3 DEF Off, ReadsLive
  <2>4. Sum = 1 + extra
    BY <1>3 DEF IInv, Counted
  <2>5. Sum' = 1 + extra'
    <3>1. extra \in Nat /\ d \in Nat
      BY <1>1
    <3> QED
      BY <1>4, <2>4, <3>1
  <2> QED
    BY <1>4, <2>2, <2>3, <2>5 DEF IInv, Counted
<1>5. Connecting' = Connecting /\ reads' = reads
  BY <1>2 DEF Connecting
<1>9. /\ Connecting \in Nat /\ reads \in Nat /\ Work("reconnect") \in Nat /\ Work("read") \in Nat
      /\ Count(ready, "connect") \in Nat /\ Count(ready, "read") \in Nat
  BY <1>1
<1>6. CASE OnClientTimer
  <2>1. /\ Count(ready', "connect") = Count(ready, "connect") - 0
        /\ Count(ready', "read") = Count(ready, "read") - 0
        /\ ~ Has(todo["io"], "reconnect") /\ ~ Has(todo["io"], "read")
    BY <1>2, <1>6, Taken DEF OnClientTimer
  <2>2. \/ todo' = todo /\ extra' = extra
        \/ Call("io", << "close", "reconnect", "timer" >>) /\ extra' = extra + 1
        \/ Call("io", << "timer" >>) /\ extra' = extra
    <3>1. connected \/ (~connected /\ due) \/ (~connected /\ ~due)
      OBVIOUS
    <3> QED
      BY <1>6, <3>1, Zenon DEF OnClientTimer
  <2>3. CASE todo' = todo /\ extra' = extra
    <3>1. Shaped' /\ Work("reconnect")' = Work("reconnect") /\ Work("read")' = Work("read")
      BY <2>3, Same_Work
    <3>2. Sum' = Sum + 0
      BY <1>5, <1>9, <2>1, <3>1 DEF Sum
    <3>3. extra' = extra + 0
      BY <1>1, <2>3
    <3> QED
      BY <1>4, <3>1, <3>2, <3>3
  <2>4. CASE Call("io", << "close", "reconnect", "timer" >>) /\ extra' = extra + 1
    <3>1. /\ Shaped' /\ Work("reconnect")' = Work("reconnect") + 1 /\ Work("read")' = Work("read") + 0
      BY <1>3, <2>1, <2>4, Goes_To, Shape_Facts
    <3>2. Sum' = Sum + 1
      BY <1>5, <1>9, <2>1, <3>1 DEF Sum
    <3>3. extra' = extra + 1
      BY <2>4
    <3> QED
      BY <1>4, <3>1, <3>2, <3>3
  <2>5. CASE Call("io", << "timer" >>) /\ extra' = extra
    <3>1. /\ Shaped' /\ Work("reconnect")' = Work("reconnect") + 0 /\ Work("read")' = Work("read") + 0
      BY <1>3, <2>1, <2>5, Goes_To, Shape_Facts
    <3>2. Sum' = Sum + 0
      BY <1>5, <1>9, <2>1, <3>1 DEF Sum
    <3>3. extra' = extra + 0
      BY <1>1, <2>5
    <3> QED
      BY <1>4, <3>1, <3>2, <3>3
  <2> QED
    BY <2>2, <2>3, <2>4, <2>5
<1>7. CASE OnConnect
  <2>1. /\ Count(ready', "connect") = Count(ready, "connect") - 1
        /\ Count(ready', "read") = Count(ready, "read") - 0
        /\ ~ Has(todo["io"], "reconnect") /\ ~ Has(todo["io"], "read")
    BY <1>2, <1>7, Taken DEF OnConnect
  <2>2. Call("io", AfterConnect) /\ extra' = extra
    BY <1>7 DEF OnConnect, counters
  <2>3. /\ Shaped'
        /\ Work("reconnect")' = Work("reconnect") + (IF Has(AfterConnect, "reconnect") THEN 1 ELSE 0)
        /\ Work("read")' = Work("read") + (IF Has(AfterConnect, "read") THEN 1 ELSE 0)
    BY <1>3, <2>1, <2>2, Goes_To, Shape_Facts
  <2>4. Sum' = Sum + 0
    BY <1>5, <1>9, <2>1, <2>3, After_One DEF Sum
  <2>5. extra' = extra + 0
    BY <1>1, <2>2
  <2> QED
    BY <1>4, <2>3, <2>4, <2>5
<1>8. CASE OnRead
  <2>1. /\ Count(ready', "connect") = Count(ready, "connect") - 0
        /\ Count(ready', "read") = Count(ready, "read") - 1
        /\ ~ Has(todo["io"], "reconnect") /\ ~ Has(todo["io"], "read")
    BY <1>2, <1>8, Taken DEF OnRead
  <2>2. (Call("io", << "read" >>) \/ Call("io", Recover)) /\ extra' = extra
    BY <1>8 DEF OnRead, counters
  <2>3. CASE Call("io", << "read" >>)
    <3>1. /\ Shaped' /\ Work("reconnect")' = Work("reconnect") + 0 /\ Work("read")' = Work("read") + 1
      BY <1>3, <2>1, <2>3, Goes_To, Shape_Facts
    <3>2. Sum' = Sum + 0
      BY <1>5, <1>9, <2>1, <3>1 DEF Sum
    <3>3. extra' = extra + 0
      BY <1>1, <2>2
    <3> QED
      BY <1>4, <3>1, <3>2, <3>3
  <2>4. CASE Call("io", Recover)
    <3>1. /\ Shaped' /\ Work("reconnect")' = Work("reconnect") + 1 /\ Work("read")' = Work("read") + 0
      BY <1>3, <2>1, <2>4, Goes_To, Shape_Facts
    <3>2. Sum' = Sum + 0
      BY <1>5, <1>9, <2>1, <3>1 DEF Sum
    <3>3. extra' = extra + 0
      BY <1>1, <2>2
    <3> QED
      BY <1>4, <3>1, <3>2, <3>3
  <2> QED
    BY <2>2, <2>3, <2>4
<1> QED
  BY <1>6, <1>7, <1>8 DEF IoThread

LEMMA Off_Sum ==
  ASSUME IInv, phase = "off"
  PROVE  /\ Connecting = 0 /\ reads = 0 /\ extra = 0
         /\ Count(ready, "connect") = 0 /\ Count(ready, "read") = 0
         /\ Work("reconnect") = 0 /\ Work("read") = 0
<1>1. /\ sock = "closed" /\ reads = 0 /\ extra = 0 /\ ready = << >>
      /\ \A a \in Actors : todo[a] = << >>
  BY DEF IInv, Off
<1>2. Cardinality({}) = 0
  BY FS_EmptySet
<1>3. \A op : {i \in DOMAIN ready : ready[i].op = op} = {}
  BY <1>1
<1>4. \A step : Doing(todo, step) = {}
  BY <1>1, Shape_Facts DEF Doing
<1>5. Count(ready, "connect") = 0 /\ Count(ready, "read") = 0
  BY <1>2, <1>3 DEF Count
<1>6. Work("reconnect") = 0 /\ Work("read") = 0
  BY <1>2, <1>4 DEF Work
<1> QED
  BY <1>1, <1>5, <1>6 DEF Connecting

LEMMA Connect_IInv == ASSUME IInv, Connect PROVE IInv'
<1>1. /\ phase = "off" /\ phase' = "running"
      /\ UNCHANGED << connected, buffered, reads, waits, due, ready, server, counters >>
      /\ \/ sock' = "up" /\ Call("io", << "connected", "read" >>)
         \/ sock' = "open" /\ Call("io", << "reconnect", "timer" >>)
  BY DEF Connect
<1>2. /\ Connecting = 0 /\ reads = 0 /\ extra = 0
      /\ Count(ready, "connect") = 0 /\ Count(ready, "read") = 0
      /\ Work("reconnect") = 0 /\ Work("read") = 0
  BY <1>1, Off_Sum
<1>3. "io" \in Actors /\ todo["io"] = << >>
  BY <1>1 DEF Actors, IInv, Off
<1>4. ~ Has(todo["io"], "reconnect") /\ ~ Has(todo["io"], "read")
  BY <1>3, Shape_Facts
<1>5. Shaped' /\ Work("reconnect")' + Work("read")' = 1
      /\ Work("reconnect")' \in Nat /\ Work("read")' \in Nat
  <2>1. CASE Call("io", << "connected", "read" >>)
    <3>1. Shaped' /\ Work("reconnect")' = Work("reconnect") + 0 /\ Work("read")' = Work("read") + 1
      BY <1>3, <1>4, <2>1, Goes_To, Shape_Facts
    <3> QED
      BY <1>2, <3>1
  <2>2. CASE Call("io", << "reconnect", "timer" >>)
    <3>1. Shaped' /\ Work("reconnect")' = Work("reconnect") + 1 /\ Work("read")' = Work("read") + 0
      BY <1>3, <1>4, <2>2, Goes_To, Shape_Facts
    <3> QED
      BY <1>2, <3>1
  <2> QED
    BY <1>1, <2>1, <2>2
<1>6. Connecting' = 0 /\ sock' \in {"up", "open"} /\ reads' = 0 /\ ready' = ready
  BY <1>1, <1>2 DEF Connecting
<1>7. Counted'
  <2>1. Count(ready', "connect") = 0 /\ Count(ready', "read") = 0
    BY <1>2, <1>6
  <2>2. Sum' = 1
    BY <1>5, <1>6, <2>1 DEF Sum
  <2>3. extra' = 0
    BY <1>1, <1>2 DEF counters
  <2> QED
    BY <2>2, <2>3 DEF Counted
<1>8. todo' \in [Actors -> Seq(Steps)]
  BY <1>5, Shapes_Typed DEF Shaped
<1>9. TypeOK'
  BY <1>1, <1>6, <1>8 DEF TypeOK, IInv, counters
<1> QED
  BY <1>1, <1>5, <1>6, <1>7, <1>9 DEF IInv, Off, ReadsLive

LEMMA Program_IInv == ASSUME IInv, Program PROVE IInv'
<1>1. CASE Connect
  BY <1>1, Connect_IInv
<1>2. CASE ConnectThrows \/ Disconnect \/ SetBuffered
  <2>1. /\ UNCHANGED << connected, sock, reads, waits, due, ready, todo, server >>
        /\ UNCHANGED counters
        /\ phase' = phase \/ phase' \in {"stopped", "failed"}
    BY <1>2 DEF ConnectThrows, Disconnect, SetBuffered
  <2>2. buffered' \in BOOLEAN /\ phase' \in {"off", "running", "stopped", "failed"}
    BY <1>2, <2>1 DEF ConnectThrows, Disconnect, SetBuffered, IInv, TypeOK
  <2>3. Shaped' /\ Work("reconnect")' = Work("reconnect") /\ Work("read")' = Work("read")
    BY <2>1, Same_Work
  <2>4. Sum' = Sum /\ extra' = extra
    BY <2>1, <2>3 DEF Sum, Connecting, counters
  <2>5. TypeOK'
    BY <2>1, <2>2 DEF TypeOK, IInv, counters
  <2>6. Off' /\ ReadsLive' /\ Counted'
    BY <2>1, <2>4 DEF Off, ReadsLive, Counted, IInv, counters
  <2> QED
    BY <2>3, <2>5, <2>6 DEF IInv
<1>3. ASSUME NEW t \in Threads, Write(t) \/ WriteSucceeds(t) \/ WriteFails(t)
      PROVE  IInv'
  <2>1. /\ UNCHANGED << phase, connected, buffered, sock, reads, waits, due, ready, server >>
        /\ UNCHANGED << downs, expiries >>
    BY <1>3 DEF Write, WriteSucceeds, WriteFails, counters
  <2>2. t \in Actors
    BY DEF Actors
  <2>3. ASSUME Shaped', NEW d \in {0, 1}, Sum' = Sum + d, extra' = extra + d, phase # "off" \/ todo' = todo,
               kept' \in 0 .. writes', writes' \in 0 .. MaxWrites, phase = "off" => d = 0
        PROVE  IInv'
    <3>1. todo' \in [Actors -> Seq(Steps)]
      BY <2>3, Shapes_Typed DEF Shaped
    <3>2. extra \in Nat /\ extra' \in Nat /\ Sum' = Sum + d /\ extra' = extra + d /\ d \in Nat
      BY <2>3 DEF IInv, TypeOK
    <3>3. TypeOK'
      BY <2>1, <2>3, <3>1, <3>2 DEF TypeOK, IInv
    <3>4. Counted'
      <4>1. phase = "running" => Sum = 1 + extra
        BY DEF IInv, Counted
      <4>2. phase = "running" => Sum' = 1 + extra'
        BY <3>2, <4>1
      <4> QED
        BY <2>1, <4>2 DEF Counted
    <3>5. Off' /\ ReadsLive'
      BY <2>1, <2>3, <3>2 DEF Off, ReadsLive, IInv
    <3> QED
      BY <2>3, <3>3, <3>4, <3>5 DEF IInv
  <2>4. Connecting' = Connecting /\ reads' = reads /\ ready' = ready
    BY <2>1 DEF Connecting
  <2>5. /\ Connecting \in Nat /\ reads \in Nat /\ Count(ready, "connect") \in Nat
        /\ Count(ready, "read") \in Nat /\ Work("reconnect") \in Nat /\ Work("read") \in Nat
        /\ extra \in Nat
    BY Sum_Parts
  <2>6. CASE Write(t)
    <3>1. kept' \in 0 .. writes' /\ writes' \in 0 .. MaxWrites /\ extra' = extra
      BY <2>6, AsioClientAssumption DEF Write, IInv, TypeOK
    <3>2. todo' = todo \/ (Call(t, << "write" >>) /\ connected)
      BY <2>6 DEF Write
    <3>3. CASE todo' = todo
      <4>1. Shaped' /\ Work("reconnect")' = Work("reconnect") /\ Work("read")' = Work("read")
        BY <3>3, Same_Work
      <4>2. Sum' = Sum + 0
        BY <2>4, <2>5, <4>1 DEF Sum
      <4>3. extra' = extra + 0
        BY <2>5, <3>1
      <4> QED
        BY <2>3, <3>1, <3>3, <4>1, <4>2, <4>3
    <3>4. CASE Call(t, << "write" >>) /\ connected
      <4>1. phase # "off"
        BY <3>4 DEF IInv, Off
      <4>2. ~ Has(todo[t], "reconnect") /\ ~ Has(todo[t], "read")
        BY <2>6, Shape_Facts DEF Write, Free
      <4>3. Shaped' /\ Work("reconnect")' = Work("reconnect") + 0 /\ Work("read")' = Work("read") + 0
        BY <2>2, <3>4, <4>2, Goes_To, Shape_Facts
      <4>4. Sum' = Sum + 0
        BY <2>4, <2>5, <4>3 DEF Sum
      <4>5. extra' = extra + 0
        BY <2>5, <3>1
      <4> QED
        BY <2>3, <3>1, <4>1, <4>3, <4>4, <4>5
    <3> QED
      BY <3>2, <3>3, <3>4
  <2>7. CASE WriteSucceeds(t)
    <3>1. At(t, "write") /\ Continue(t) /\ UNCHANGED << kept, writes, extra >>
      BY <2>7 DEF WriteSucceeds, counters
    <3>2. /\ phase # "off" /\ Shaped'
          /\ Work("reconnect")' = Work("reconnect") - 0 /\ Work("read")' = Work("read") - 0
      BY <2>2, <3>1, Goes_On
    <3>3. Sum' = Sum + 0
      BY <2>4, <2>5, <3>2 DEF Sum
    <3>4. extra' = extra + 0
      BY <2>5, <3>1
    <3>5. kept' \in 0 .. writes' /\ writes' \in 0 .. MaxWrites
      BY <3>1 DEF IInv, TypeOK
    <3> QED
      BY <2>3, <3>2, <3>3, <3>4, <3>5
  <2>8. CASE WriteFails(t)
    <3>1. At(t, "write") /\ Call(t, Recover) /\ UNCHANGED << kept, writes >> /\ extra' = extra + 1
      BY <2>8 DEF WriteFails
    <3>2. phase # "off"
      BY <2>2, <3>1 DEF IInv, Off, At
    <3>3. todo[t] = << "write" >>
      <4>1. todo[t] \in Shapes /\ Head(todo[t]) = "write" /\ todo[t] # << >>
        BY <2>2, <3>1 DEF IInv, Shaped, At
      <4> QED
        BY <4>1 DEF Shapes
    <3>4. ~ Has(todo[t], "reconnect") /\ ~ Has(todo[t], "read")
      BY <3>3, Shape_Facts
    <3>5. Shaped' /\ Work("reconnect")' = Work("reconnect") + 1 /\ Work("read")' = Work("read") + 0
      BY <2>2, <3>1, <3>4, Goes_To, Shape_Facts
    <3>6. Sum' = Sum + 1
      BY <2>4, <2>5, <3>5 DEF Sum
    <3>7. kept' \in 0 .. writes' /\ writes' \in 0 .. MaxWrites
      BY <3>1 DEF IInv, TypeOK
    <3> QED
      BY <2>3, <3>1, <3>2, <3>5, <3>6, <3>7
  <2> QED
    BY <1>3, <2>6, <2>7, <2>8
<1> QED
  BY <1>1, <1>2, <1>3 DEF Program

LEMMA Init_IInv == Init => IInv
<1> SUFFICES ASSUME Init PROVE IInv
  OBVIOUS
<1>1. todo \in [Actors -> Shapes] /\ \A a \in Actors : todo[a] = << >>
  BY DEF Init, Shapes
<1>2. \A step : Doing(todo, step) = {}
  BY <1>1, Shape_Facts DEF Doing
<1>3. Shaped
  BY <1>1, <1>2, FS_EmptySet DEF Shaped
<1>4. todo \in [Actors -> Seq(Steps)]
  BY <1>1, Shapes_Typed
<1>5. TypeOK
  <2>1. connected \in BOOLEAN /\ buffered \in BOOLEAN
    BY Zenon DEF Init
  <2>2. due \in BOOLEAN /\ server \in BOOLEAN
    BY Zenon DEF Init
  <2>3. ready \in Seq([op : {"connect", "read", "wait"}, ok : BOOLEAN])
    BY DEF Init
  <2>4. kept \in 0 .. writes /\ writes \in 0 .. MaxWrites
    BY AsioClientAssumption DEF Init
  <2>5. downs \in 0 .. MaxDowns /\ expiries \in 0 .. MaxExpiries
    BY AsioClientAssumption DEF Init
  <2>6. reads \in Nat /\ waits \in Nat /\ extra \in Nat
    BY DEF Init
  <2>7. /\ phase \in {"off", "running", "stopped", "failed"}
        /\ sock \in {"closed", "connecting", "open", "up", "lost"}
    BY DEF Init
  <2> QED
    BY <1>4, <2>1, <2>2, <2>3, <2>4, <2>5, <2>6, <2>7, Zenon DEF TypeOK
<1>6. Off /\ ReadsLive /\ Counted
  BY <1>1 DEF Init, Off, ReadsLive, Counted
<1> QED
  BY <1>3, <1>5, <1>6 DEF IInv

LEMMA Next_IInv == ASSUME IInv, [Next]_vars PROVE IInv'
<1>1. CASE UNCHANGED vars
  <2>1. Shaped' /\ Work("reconnect")' = Work("reconnect") /\ Work("read")' = Work("read")
    BY <1>1, Same_Work DEF vars
  <2>2. TypeOK' /\ Off' /\ ReadsLive'
    BY <1>1 DEF IInv, vars, counters, TypeOK, Off, ReadsLive
  <2>3. Sum' = Sum
    BY <1>1, <2>1 DEF vars, Sum, Connecting
  <2>4. Counted'
    BY <1>1, <2>3 DEF IInv, vars, counters, Counted
  <2> QED
    BY <2>1, <2>2, <2>4 DEF IInv
<1> QED
  BY <1>1, Step_IInv, Outside_IInv, Io_IInv, Program_IInv DEF Next

(* The inductive invariant holds. *)
THEOREM Invariance == Spec => []IInv
<1>1. Init => IInv
  BY Init_IInv
<1>2. IInv /\ [Next]_vars => IInv'
  BY Next_IInv
<1> QED
  BY <1>1, <1>2, PTL DEF Spec

(* The client's state stays within its types, whatever the threads, the timer and the    *)
(* server do to the connection.                                                          *)
THEOREM TypeCorrect == Spec => []TypeOK
<1>1. IInv => TypeOK
  BY DEF IInv
<1> QED
  BY <1>1, Invariance, PTL

(* A running client has one effort to be connected and one more for each reconnect that   *)
(* the timer or a failed write started: OnConnect, the reads, closing the socket and      *)
(* StartReconnect turn efforts into one another and lose none, for any number of threads. *)
THEOREM EffortsKept == Spec => []EffortsCounted
<1>1. IInv => EffortsCounted
  BY Efforts_Sum DEF IInv, Counted, EffortsCounted
<1> QED
  BY <1>1, Invariance, PTL

-----------------------------------------------------------------------------
(* What the client believes *)

(* Some actor still has a step to do. *)
Ahead(step) == \E a \in Actors : Has(todo[a], step)

(* A handler is due that will learn that the connection failed, or that it is there. *)
ReadFailed == \E i \in DOMAIN ready : ready[i].op = "read" /\ ~ ready[i].ok
ConnectDue == \E i \in DOMAIN ready : ready[i].op = "connect"

(* A client that believes in a connection it does not have will notice. *)
Noticed ==
  connected /\ sock \notin {"up", "lost"} => Ahead("reconnect") \/ Ahead("read") \/ ReadFailed

(* A client that does not know of its connection will be told, or replaces it. *)
Told ==
  ~connected /\ sock \in {"up", "lost"} => Ahead("reconnect") \/ Ahead("connected") \/ ConnectDue

BInv == IInv /\ Noticed /\ Told

(* What an actor leaves in its list, or the others have, is still ahead. *)
LEMMA Still_Ahead ==
  ASSUME IInv, NEW a \in Actors, NEW s, todo' = [todo EXCEPT ![a] = s],
         NEW step, Has(todo[a], step) => Has(s, step)
  PROVE  (Ahead(step) => Ahead(step)') /\ (Has(s, step) => Ahead(step)')
<1>1. \A b \in Actors : todo'[b] = IF b = a THEN s ELSE todo[b]
  BY DEF IInv, Shaped
<1> QED
  BY <1>1 DEF Ahead

(* A handler more does not hide the others. *)
LEMMA Still_Due ==
  ASSUME IInv, NEW op \in {"connect", "read", "wait"}, NEW ok \in BOOLEAN,
         ready' = Append(ready, Handler(op, ok))
  PROVE  /\ ReadFailed => ReadFailed'
         /\ ConnectDue => ConnectDue'
         /\ op = "read" /\ ~ ok => ReadFailed'
         /\ op = "connect" => ConnectDue'
<1>1. Handler(op, ok) \in Handlers /\ Handler(op, ok).op = op /\ Handler(op, ok).ok = ok
  BY DEF Handler, Handlers
<1>2. ready \in Seq(Handlers)
  BY Sum_Parts
<1> DEFINE h == Handler(op, ok)
<1>3. ready' = Append(ready, h) /\ h \in Handlers /\ h.op = op /\ h.ok = ok
  BY <1>1
<1> HIDE DEF h
<1>4. /\ DOMAIN ready = 1 .. Len(ready) /\ DOMAIN ready' = 1 .. Len(ready) + 1
      /\ Len(ready) \in Nat /\ ready'[Len(ready) + 1] = h
      /\ \A i \in 1 .. Len(ready) : ready'[i] = ready[i]
  BY <1>2, <1>3
<1>5. Len(ready) + 1 \in DOMAIN ready' /\ DOMAIN ready \subseteq DOMAIN ready'
  BY <1>4
<1> QED
  BY <1>3, <1>4, <1>5 DEF ReadFailed, ConnectDue

(* A handler that runs leaves the others. *)
LEMMA Left_Due ==
  ASSUME IInv, ready # << >>, ready' = Tail(ready)
  PROVE  /\ ReadFailed /\ (Head(ready).op # "read" \/ Head(ready).ok) => ReadFailed'
         /\ ConnectDue /\ Head(ready).op # "connect" => ConnectDue'
<1>1. ready \in Seq(Handlers)
  BY Sum_Parts
<1>2. /\ DOMAIN ready = 1 .. Len(ready) /\ DOMAIN ready' = 1 .. Len(ready) - 1
      /\ Len(ready) \in Nat /\ Head(ready) = ready[1]
      /\ \A i \in 1 .. Len(ready) - 1 : ready'[i] = ready[i + 1]
  BY <1>1
<1>3. ASSUME NEW i \in DOMAIN ready, i # 1
      PROVE  i - 1 \in DOMAIN ready' /\ ready'[i - 1] = ready[i]
  BY <1>2, <1>3
<1> QED
  BY <1>2, <1>3 DEF ReadFailed, ConnectDue

LEMMA Step_Belief == ASSUME BInv, NEW a \in Actors, Step(a) PROVE Noticed' /\ Told'
<1>1. IInv /\ Noticed /\ Told
  BY DEF BInv
<1>2. ASSUME NEW x, At(a, x), Continue(a)
      PROVE  /\ todo[a] \in Shapes /\ todo[a] # << >> /\ Head(todo[a]) = x
             /\ todo' = [todo EXCEPT ![a] = Tail(todo[a])]
             /\ \A y : y # x => (Ahead(y) => Ahead(y)')
             /\ \A y : y # x => (Has(todo[a], y) => Ahead(y)')
  <2>1. /\ todo[a] \in Shapes /\ todo[a] # << >> /\ Head(todo[a]) = x
        /\ todo' = [todo EXCEPT ![a] = Tail(todo[a])]
    BY <1>1, <1>2, Goes_On
  <2>2. \A y : y # x => (Has(Tail(todo[a]), y) <=> Has(todo[a], y))
    BY <2>1, Shape_Tail
  <2>3. ASSUME NEW y, y # x
        PROVE  (Ahead(y) => Ahead(y)') /\ (Has(todo[a], y) => Ahead(y)')
    BY <1>1, <2>1, <2>2, <2>3, Still_Ahead
  <2> QED
    BY <2>1, <2>3
<1>3. CASE CloseSocket(a)
  <2>1. At(a, "close") /\ Continue(a) /\ sock' = "closed"
    BY <1>3 DEF CloseSocket, Close
  <2>2. todo[a] = << "close", "reconnect", "timer" >>
    <3>1. todo[a] \in Shapes /\ todo[a] # << >> /\ Head(todo[a]) = "close"
      BY <1>2, <2>1
    <3> QED
      BY <3>1 DEF Shapes
  <2>3. Ahead("reconnect")'
    BY <1>2, <2>1, <2>2, Shape_Facts
  <2> QED
    BY <2>1, <2>3 DEF Noticed, Told
<1>4. CASE OnSocketError(a)
  BY <1>4 DEF OnSocketError, Close, Noticed, Told
<1>5. CASE StartReconnect(a)
  BY <1>5 DEF StartReconnect, Noticed, Told
<1>6. CASE StartClientTimer(a) \/ CancelClientTimer(a)
  <2>1. /\ At(a, "timer") \/ At(a, "cancel")
        /\ Continue(a) /\ UNCHANGED << connected, sock, ready >>
    BY <1>6 DEF StartClientTimer, CancelClientTimer
  <2>2. /\ Ahead("reconnect") => Ahead("reconnect")'
        /\ Ahead("read") => Ahead("read")'
        /\ Ahead("connected") => Ahead("connected")'
    BY <1>2, <2>1
  <2>3. (ReadFailed' <=> ReadFailed) /\ (ConnectDue' <=> ConnectDue)
    BY <2>1 DEF ReadFailed, ConnectDue
  <2> QED
    BY <1>1, <2>1, <2>2, <2>3 DEF Noticed, Told
<1>7. CASE SetConnected(a)
  <2>1. At(a, "connected") /\ Continue(a) /\ connected' = TRUE
    BY <1>7 DEF SetConnected
  <2>2. Has(todo[a], "read")
    <3>1. todo[a] \in Shapes /\ todo[a] # << >> /\ Head(todo[a]) = "connected"
      BY <1>2, <2>1
    <3>2. todo[a] = << "connected", "read" >>
      BY <3>1 DEF Shapes
    <3> QED
      BY <3>2, Shape_Facts
  <2>3. Ahead("read")'
    BY <1>2, <2>1, <2>2
  <2> QED
    BY <2>1, <2>3 DEF Noticed, Told
<1>8. CASE StartAsyncRead(a)
  <2>1. At(a, "read") /\ Continue(a) /\ UNCHANGED << connected, sock >>
    BY <1>8 DEF StartAsyncRead
  <2>2. /\ Ahead("reconnect") => Ahead("reconnect")'
        /\ Ahead("connected") => Ahead("connected")'
    BY <1>2, <2>1
  <2>3. CASE sock \in {"up", "lost"}
    <3>1. ready' = ready
      BY <1>8, <2>3 DEF StartAsyncRead
    <3>2. ConnectDue' <=> ConnectDue
      BY <3>1 DEF ConnectDue
    <3> QED
      BY <1>1, <2>1, <2>2, <2>3, <3>2 DEF Noticed, Told
  <2>4. CASE sock \notin {"up", "lost"}
    <3>1. ready' = Append(ready, Handler("read", FALSE))
      BY <1>8, <2>4 DEF StartAsyncRead
    <3>2. ReadFailed'
      BY <1>1, <3>1, Still_Due
    <3> QED
      BY <2>1, <2>4, <3>2 DEF Noticed, Told
  <2> QED
    BY <2>3, <2>4
<1> QED
  BY <1>3, <1>4, <1>5, <1>6, <1>7, <1>8 DEF Step

LEMMA Outside_Belief == ASSUME BInv, Environment \/ Completion PROVE Noticed' /\ Told'
<1>1. IInv /\ Noticed /\ Told
  BY DEF BInv
<1>2. todo' = todo /\ connected' = connected
  BY DEF Environment, Completion, ServerLeaves, ServerReturns, TimePasses, ConnectEnds, ReadEnds,
         WaitEnds
<1>3. \A step : Ahead(step)' <=> Ahead(step)
  BY <1>2 DEF Ahead
<1>4. CASE Environment
  <2>1. ready' = ready /\ (sock' \in {"up", "lost"} <=> sock \in {"up", "lost"})
    BY <1>4 DEF Environment, ServerLeaves, ServerReturns, TimePasses
  <2>2. (ReadFailed' <=> ReadFailed) /\ (ConnectDue' <=> ConnectDue)
    BY <2>1 DEF ReadFailed, ConnectDue
  <2> QED
    BY <1>1, <1>2, <1>3, <2>1, <2>2 DEF Noticed, Told
<1>5. CASE ConnectEnds
  <2>1. sock = "connecting" /\ ready' = Append(ready, Handler("connect", server))
    BY <1>5 DEF ConnectEnds
  <2>2. server \in BOOLEAN
    BY <1>1 DEF IInv, TypeOK
  <2>3. (ReadFailed => ReadFailed') /\ ConnectDue'
    BY <1>1, <2>1, <2>2, Still_Due
  <2> QED
    BY <1>1, <1>2, <1>3, <2>1, <2>3 DEF Noticed, Told
<1>6. CASE ReadEnds \/ WaitEnds
  <2>1. /\ sock' = sock
        /\ \/ ready' = Append(ready, Handler("read", sock = "up"))
           \/ ready' = Append(ready, Handler("wait", TRUE))
    BY <1>6 DEF ReadEnds, WaitEnds
  <2>2. (ReadFailed => ReadFailed') /\ (ConnectDue => ConnectDue')
    <3>1. (sock = "up") \in BOOLEAN /\ TRUE \in BOOLEAN
      OBVIOUS
    <3> QED
      BY <1>1, <2>1, <3>1, Still_Due
  <2> QED
    BY <1>1, <1>2, <1>3, <2>1, <2>2 DEF Noticed, Told
<1> QED
  BY <1>4, <1>5, <1>6 DEF Completion

LEMMA Io_Belief == ASSUME BInv, IoThread PROVE Noticed' /\ Told'
<1>1. IInv /\ Noticed /\ Told
  BY DEF BInv
<1>2. /\ "io" \in Actors /\ todo["io"] = << >> /\ ready # << >> /\ ready' = Tail(ready)
      /\ UNCHANGED << connected, sock >>
  BY DEF IoThread, OnClientTimer, OnConnect, OnRead, Runs, Free, Actors
<1>3. ASSUME NEW s, todo' = [todo EXCEPT !["io"] = s], NEW step
      PROVE  (Ahead(step) => Ahead(step)') /\ (Has(s, step) => Ahead(step)')
  BY <1>1, <1>2, <1>3, Shape_Facts, Still_Ahead
<1>4. /\ ReadFailed /\ (Head(ready).op # "read" \/ Head(ready).ok) => ReadFailed'
      /\ ConnectDue /\ Head(ready).op # "connect" => ConnectDue'
  BY <1>1, <1>2, Left_Due
<1>5. CASE OnClientTimer
  <2>1. Head(ready).op = "wait"
    BY <1>5 DEF OnClientTimer, Runs
  <2>2. todo' = todo \/ \E s : todo' = [todo EXCEPT !["io"] = s]
    BY <1>5 DEF OnClientTimer, Call
  <2>3. \A step : Ahead(step) => Ahead(step)'
    BY <1>3, <2>2 DEF Ahead
  <2> QED
    BY <1>1, <1>2, <1>4, <2>1, <2>3 DEF Noticed, Told
<1>6. CASE OnConnect
  <2>1. Head(ready).op = "connect" /\ todo' = [todo EXCEPT !["io"] = AfterConnect]
    BY <1>6 DEF OnConnect, Runs, Call
  <2>2. \A step : (Ahead(step) => Ahead(step)') /\ (Has(AfterConnect, step) => Ahead(step)')
    BY <1>3, <2>1
  <2>3. Has(AfterConnect, "reconnect") \/ Has(AfterConnect, "connected")
    BY DEF AfterConnect, Has
  <2> QED
    BY <1>1, <1>2, <1>4, <2>1, <2>2, <2>3 DEF Noticed, Told
<1>7. CASE OnRead
  <2> DEFINE s == IF Head(ready).ok THEN << "read" >> ELSE Recover
  <2>1. Head(ready).op = "read" /\ todo' = [todo EXCEPT !["io"] = s]
    BY <1>7 DEF OnRead, Runs, Call
  <2>2. Has(s, "read") \/ Has(s, "reconnect")
    BY Shape_Facts
  <2> HIDE DEF s
  <2>3. \A step : (Ahead(step) => Ahead(step)') /\ (Has(s, step) => Ahead(step)')
    BY <1>3, <2>1
  <2> QED
    BY <1>1, <1>2, <1>4, <2>1, <2>2, <2>3 DEF Noticed, Told, s
<1> QED
  BY <1>5, <1>6, <1>7 DEF IoThread

LEMMA Program_Belief == ASSUME BInv, Program PROVE Noticed' /\ Told'
<1>1. IInv /\ Noticed /\ Told
  BY DEF BInv
<1>2. UNCHANGED << connected, ready >>
  BY DEF Program, Connect, ConnectThrows, Disconnect, SetBuffered, Write, WriteSucceeds, WriteFails,
         counters
<1>3. (ReadFailed' <=> ReadFailed) /\ (ConnectDue' <=> ConnectDue)
  BY <1>2 DEF ReadFailed, ConnectDue
<1>4. ASSUME sock' = sock, \A step \in {"read", "reconnect", "connected"} : Ahead(step) => Ahead(step)'
      PROVE  Noticed' /\ Told'
  BY <1>1, <1>2, <1>3, <1>4 DEF Noticed, Told
<1>5. CASE Connect
  <2>1. phase = "off" /\ ~ connected
    BY <1>1, <1>5 DEF Connect, IInv, Off
  <2>2. CASE server
    <3>1. "io" \in Actors /\ todo' = [todo EXCEPT !["io"] = << "connected", "read" >>]
      BY <1>5, <2>2 DEF Connect, Call, Actors
    <3>2. todo["io"] = << >>
      BY <1>1, <2>1, <3>1 DEF IInv, Off
    <3>3. Ahead("connected")'
      BY <1>1, <3>1, <3>2, Shape_Facts, Still_Ahead
    <3> QED
      BY <1>2, <2>1, <3>3 DEF Noticed, Told
  <2>3. CASE ~ server
    <3>1. sock' = "open"
      BY <1>5, <2>3 DEF Connect
    <3> QED
      BY <1>2, <2>1, <3>1 DEF Noticed, Told
  <2> QED
    BY <2>2, <2>3
<1>6. CASE ConnectThrows \/ Disconnect \/ SetBuffered
  <2>1. sock' = sock /\ todo' = todo
    BY <1>6 DEF ConnectThrows, Disconnect, SetBuffered
  <2> QED
    BY <1>4, <2>1 DEF Ahead
<1>7. ASSUME NEW t \in Threads, Write(t) \/ WriteSucceeds(t) \/ WriteFails(t)
      PROVE  Noticed' /\ Told'
  <2>1. /\ t \in Actors /\ sock' = sock
        /\ \/ todo' = todo
           \/ \E s : todo' = [todo EXCEPT ![t] = s]
    BY <1>7 DEF Write, WriteSucceeds, WriteFails, Call, Continue, Actors
  <2>2. todo[t] = << >> \/ todo[t] = << "write" >>
    <3>1. todo[t] \in Shapes /\ (todo[t] = << >> \/ Head(todo[t]) = "write")
      BY <1>1, <1>7, <2>1 DEF Write, WriteSucceeds, WriteFails, Free, At, IInv, Shaped
    <3> QED
      BY <3>1 DEF Shapes
  <2>3. \A step \in {"read", "reconnect", "connected"} : ~ Has(todo[t], step)
    BY <2>2, Shape_Facts
  <2>4. \A step \in {"read", "reconnect", "connected"} : Ahead(step) => Ahead(step)'
    <3>1. CASE todo' = todo
      BY <3>1 DEF Ahead
    <3>2. ASSUME NEW s, todo' = [todo EXCEPT ![t] = s]
          PROVE  \A step \in {"read", "reconnect", "connected"} : Ahead(step) => Ahead(step)'
      BY <1>1, <2>1, <2>3, <3>2, Still_Ahead
    <3> QED
      BY <2>1, <3>1, <3>2
  <2> QED
    BY <1>4, <2>1, <2>4
<1> QED
  BY <1>5, <1>6, <1>7 DEF Program

LEMMA Next_BInv == ASSUME BInv, [Next]_vars PROVE BInv'
<1>1. IInv'
  BY Next_IInv DEF BInv
<1>2. CASE UNCHANGED vars
  BY <1>1, <1>2 DEF vars, BInv, Noticed, Told, Ahead, ReadFailed, ConnectDue
<1>3. CASE Next
  BY <1>1, <1>3, Step_Belief, Outside_Belief, Io_Belief, Program_Belief DEF Next, BInv
<1> QED
  BY <1>2, <1>3

(* With nothing left to do the efforts are the connect under way and the pending reads. *)
LEMMA Quiet_Efforts == ASSUME IInv, Quiet PROVE Sum = Connecting + reads
<1>1. /\ Connecting \in Nat /\ reads \in Nat /\ Work("reconnect") = 0 /\ Work("read") = 0
  <2>1. \A step : Doing(todo, step) = {}
    BY Shape_Facts DEF Quiet, Free, Doing
  <2> QED
    BY <2>1, Sum_Parts, FS_EmptySet DEF Work
<1>2. Count(ready, "connect") = 0 /\ Count(ready, "read") = 0
  <2>1. ready = << >>
    BY DEF Quiet
  <2>2. /\ {i \in DOMAIN << >> : << >>[i].op = "connect"} = {}
        /\ {i \in DOMAIN << >> : << >>[i].op = "read"} = {}
    OBVIOUS
  <2> QED
    BY <2>1, <2>2, FS_EmptySet DEF Count
<1> QED
  BY <1>1, <1>2 DEF Sum

(* When nothing is left to do, m_connected says what the socket is, a connected client    *)
(* reads, and one that is not is connecting: writes that fail in any thread, connects     *)
(* that were overtaken and reads that end late leave no client that keeps messages back   *)
(* from a live connection, or misses the end of one.                                      *)
THEOREM BeliefKept == Spec => []BeliefMatchesSocket
<1>1. Init => BInv
  <2> SUFFICES ASSUME Init PROVE BInv
    OBVIOUS
  <2>1. IInv /\ ~ connected /\ sock = "closed"
    BY Init_IInv DEF Init
  <2> QED
    BY <2>1 DEF BInv, Noticed, Told
<1>2. BInv /\ [Next]_vars => BInv'
  BY Next_BInv
<1>3. BInv => BeliefMatchesSocket
  <2> SUFFICES ASSUME BInv, phase = "running", Quiet
               PROVE  /\ connected <=> sock \in {"up", "lost"}
                      /\ connected => reads > 0
                      /\ ~connected => sock = "connecting"
    BY DEF BeliefMatchesSocket
  <2>1. \A step : ~ Ahead(step)
    BY Shape_Facts DEF Quiet, Free, Ahead
  <2>2. ~ ReadFailed /\ ~ ConnectDue
    BY DEF Quiet, ReadFailed, ConnectDue
  <2>3. connected <=> sock \in {"up", "lost"}
    BY <2>1, <2>2 DEF BInv, Noticed, Told
  <2>4. Connecting + reads = 1 + extra /\ extra \in Nat /\ reads \in Nat
    BY Quiet_Efforts, Sum_Parts DEF BInv, IInv, Counted
  <2>5. connected => reads > 0
    BY <2>3, <2>4 DEF Connecting
  <2>6. ~connected => sock = "connecting"
    BY <2>3, <2>4 DEF Connecting, BInv, IInv, ReadsLive
  <2> QED
    BY <2>3, <2>5, <2>6
<1> QED
  BY <1>1, <1>2, <1>3, PTL DEF Spec

=============================================================================
