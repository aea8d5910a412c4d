-------------------------- MODULE LogFiltersProofs --------------------------
(***************************************************************************)
(* The check boxes of the file filter tell what the filter does, and the   *)
(* view shows the rows the filters pass, for any set of lines and threads  *)
(* and without bounds on what the user does.                               *)
(***************************************************************************)
EXTENDS LogFilters, SequenceTheorems, FiniteSetTheorems, TLAPS

(* Paths *)

LEMMA Prefix_Type ==
  ASSUME NEW n \in Seq(Names), NEW k \in 0 .. Len(n)
  PROVE  /\ SubSeq(n, 1, k) \in Seq(Names) /\ Len(SubSeq(n, 1, k)) = k
         /\ \A i \in 1 .. k : SubSeq(n, 1, k)[i] = n[i]
  BY SubSeqProperties

(* A prefix of a prefix *)
LEMMA Prefix_Prefix ==
  ASSUME NEW n \in Seq(Names), NEW k \in 0 .. Len(n), NEW j \in 0 .. k
  PROVE  SubSeq(SubSeq(n, 1, k), 1, j) = SubSeq(n, 1, j)
<1> DEFINE p == SubSeq(n, 1, k)
           u == SubSeq(p, 1, j)
           v == SubSeq(n, 1, j)
<1>1. p \in Seq(Names) /\ Len(p) = k /\ \A i \in 1 .. k : p[i] = n[i]
  BY Prefix_Type
<1>2. j \in 0 .. Len(p) /\ j \in 0 .. Len(n)
  BY <1>1
<1> HIDE DEF p
<1>3. u \in Seq(Names) /\ Len(u) = j /\ \A i \in 1 .. j : u[i] = p[i]
  BY <1>1, <1>2, Prefix_Type
<1>4. v \in Seq(Names) /\ Len(v) = j /\ \A i \in 1 .. j : v[i] = n[i]
  BY <1>2, Prefix_Type
<1> HIDE DEF u, v
<1>5. \A i \in 1 .. j : u[i] = v[i]
  BY <1>1, <1>3, <1>4
<1>6. u = v
  BY <1>3, <1>4, <1>5, SeqEqual
<1> QED
  BY <1>6 DEF u, v, p

LEMMA Above_Type ==
  ASSUME NEW n \in Seq(Names), NEW a \in Above(n)
  PROVE  a \in Seq(Names) /\ Len(a) < Len(n) /\ a = SubSeq(n, 1, Len(a)) /\ a # n
<1>1. PICK k \in 0 .. Len(n) - 1 : a = SubSeq(n, 1, k)
  BY DEF Above
<1>2. k \in 0 .. Len(n) /\ k < Len(n)
  OBVIOUS
<1>3. a \in Seq(Names) /\ Len(a) = k
  BY <1>1, <1>2, Prefix_Type
<1> QED
  BY <1>1, <1>2, <1>3

LEMMA Above_Above ==
  ASSUME NEW n \in Seq(Names), NEW a \in Above(n), NEW b \in Above(a)
  PROVE  b \in Above(n)
<1>1. a \in Seq(Names) /\ Len(a) < Len(n) /\ a = SubSeq(n, 1, Len(a))
  BY Above_Type
<1>2. Len(b) < Len(a) /\ b = SubSeq(a, 1, Len(b)) /\ b \in Seq(Names)
  BY <1>1, Above_Type
<1>3. Len(a) \in 0 .. Len(n) /\ Len(b) \in 0 .. Len(a) /\ Len(b) \in 0 .. Len(n) - 1
  BY <1>1, <1>2
<1>4. b = SubSeq(n, 1, Len(b))
  BY <1>1, <1>2, <1>3, Prefix_Prefix
<1> QED
  BY <1>3, <1>4 DEF Above

(* Nothing is above itself. *)
LEMMA Above_Acyclic ==
  ASSUME NEW n \in Seq(Names), NEW a \in Above(n)
  PROVE  n \notin Above(a)
<1>1. a \in Seq(Names) /\ Len(a) < Len(n)
  BY Above_Type
<1>2. n \in Above(a) => Len(n) < Len(a)
  BY <1>1, Above_Type
<1> QED
  BY <1>1, <1>2

LEMMA Root_Facts == Above(Root) = {} /\ Parent(Root) = Root
  BY DEF Above, Parent, Root

LEMMA Parent_Above ==
  ASSUME NEW n \in Seq(Names), n # Root
  PROVE  /\ Parent(n) \in Above(n) /\ Root \in Above(n)
         /\ \A a \in Above(n) : a = Parent(n) \/ a \in Above(Parent(n))
<1>1. Len(n) \in Nat /\ Len(n) > 0
  BY EmptySeq DEF Root
<1>2. Parent(n) \in Above(n)
  BY <1>1 DEF Parent, Above
<1>3. Len(n) - 1 \in 0 .. Len(n)
  BY <1>1
<1>4. Parent(n) \in Seq(Names) /\ Len(Parent(n)) = Len(n) - 1
  BY <1>3, Prefix_Type DEF Parent
<1>5. SubSeq(n, 1, 0) \in Seq(Names) /\ Len(SubSeq(n, 1, 0)) = 0 /\ SubSeq(n, 1, 0) \in Above(n)
  <2>1. 0 \in 0 .. Len(n) /\ 0 \in 0 .. Len(n) - 1
    BY <1>1
  <2>2. SubSeq(n, 1, 0) \in Above(n)
    BY <2>1 DEF Above
  <2> QED
    BY <2>1, <2>2, Prefix_Type
<1>6. Root \in Above(n)
  BY <1>5, EmptySeq DEF Root
<1>7. ASSUME NEW k \in 0 .. Len(n) - 1, k # Len(n) - 1
      PROVE  SubSeq(n, 1, k) \in Above(Parent(n))
  <2>1. k \in 0 .. Len(n) - 1 /\ k \in 0 .. Len(Parent(n)) - 1
    BY <1>1, <1>4, <1>7
  <2>2. SubSeq(Parent(n), 1, k) = SubSeq(n, 1, k)
    BY <1>3, <2>1, Prefix_Prefix DEF Parent
  <2> QED
    BY <2>1, <2>2 DEF Above
<1> QED
  BY <1>2, <1>6, <1>7 DEF Above, Parent


(* What the nodes of a tree are *)
LEMMA Node_Facts ==
  ASSUME NEW n \in Nodes
  PROVE  /\ n \in Seq(Names) /\ Above(n) \subseteq Nodes
         /\ n \notin Above(n)
         /\ \A a \in Above(n) : Above(a) \subseteq Above(n) /\ n \notin Above(a) /\ a # n /\ a \notin Lines
         /\ Parent(n) # Root => n # Root
         /\ n # Root => Parent(n) \in Above(n) /\ Root \in Above(n)
         /\ n # Root => \A a \in Above(n) : a = Parent(n) \/ a \in Above(Parent(n))
<1>1. n \in Seq(Names) /\ Above(n) \subseteq Nodes
  <2>1. CASE n \in Lines
    BY <2>1, LinesAssumption DEF Nodes
  <2>2. CASE \E l \in Lines : n \in Above(l)
    <3>1. PICK l \in Lines : n \in Above(l)
      BY <2>2
    <3>2. l \in Seq(Names)
      BY LinesAssumption
    <3> QED
      BY <3>1, <3>2, Above_Type, Above_Above DEF Nodes
  <2>3. CASE n = Root
    BY <2>3, Root_Facts, EmptySeq DEF Root
  <2> QED
    BY <2>1, <2>2, <2>3 DEF Nodes
<1>2. ASSUME NEW a \in Above(n) PROVE a \notin Lines
  <2>1. PICK l \in Lines : a \in Above(l)
    <3>1. CASE n \in Lines
      BY <3>1
    <3>2. CASE \E l \in Lines : n \in Above(l)
      <4>1. PICK l \in Lines : n \in Above(l)
        BY <3>2
      <4>2. a \in Above(l)
        BY <4>1, LinesAssumption, Above_Above
      <4> QED
        BY <4>2
    <3> QED
      BY <3>1, <3>2, Root_Facts DEF Nodes
  <2> QED
    BY <2>1, LinesAssumption
<1>3. n \notin Above(n)
  BY <1>1, Above_Type
<1>4. ASSUME NEW a \in Above(n) PROVE Above(a) \subseteq Above(n) /\ n \notin Above(a) /\ a # n
  BY <1>1, Above_Above, Above_Acyclic, Above_Type
<1>5. Parent(n) # Root => n # Root
  BY Root_Facts
<1>6. n # Root => /\ Parent(n) \in Above(n) /\ Root \in Above(n)
                  /\ \A a \in Above(n) : a = Parent(n) \/ a \in Above(Parent(n))
  BY <1>1, Parent_Above
<1> QED
  BY <1>1, <1>2, <1>3, <1>4, <1>5, <1>6

-----------------------------------------------------------------------------
(* Trees *)

(* A tree that tells the truth, but for st *)
Sound(t, st) == IsTree(t) /\ st \subseteq Nodes /\ Tells(t, st)

LEMMA Sound_Bare == Sound(Bare, {})
<1>1. IsTree(Bare)
  BY Root_Facts DEF IsTree, Bare, States, Nodes
<1>2. Tells(Bare, {})
  BY Root_Facts DEF Tells, Bare
<1> QED
  BY <1>1, <1>2 DEF Sound

LEMMA Sound_SetAll ==
  ASSUME NEW t, NEW st, Sound(t, st), NEW s \in {"Checked", "Unchecked"}
  PROVE  Sound(SetAll(t, s), {})
<1>1. IsTree(t)
  BY DEF Sound
<1>2. IsTree(SetAll(t, s))
  BY <1>1 DEF IsTree, SetAll, States
<1>3. ASSUME NEW p \in DOMAIN t, Parent(p) # Root
      PROVE  SetAll(t, s)[p] = SetAll(t, s)[Parent(p)]
  <2>1. p # Root /\ Parent(p) \in DOMAIN t
    BY <1>1, <1>3, Node_Facts DEF IsTree
  <2> QED
    BY <1>3, <2>1 DEF SetAll
<1>4. Tells(SetAll(t, s), {})
  BY <1>3 DEF Tells, SetAll
<1> QED
  BY <1>2, <1>4 DEF Sound

(* A click goes down and up without leaving a box that lies. *)
LEMMA Sound_SetData ==
  ASSUME NEW t, NEW st, Sound(t, st), NEW n \in DOMAIN t, NEW s \in States
  PROVE  Sound(SetData(t, n, s), st \ Settled(t, n, s))
<1> DEFINE u == SetData(t, n, s)
           Agrees(p) == \A q \in DOMAIN t \ (Above(n) \cup {n}) :
                          Parent(q) \in Above(n) /\ p \in Above(q) => t[q] = s
           Under(p) == p = n \/ (n \in Above(p) /\ s # "Partial")
<1>1. IsTree(t) /\ Tells(t, st) /\ st \subseteq Nodes
  BY DEF Sound
<1>2. /\ DOMAIN u = DOMAIN t
      /\ \A p \in DOMAIN t :
           u[p] = IF Under(p) THEN s
                  ELSE IF p \in Above(n) THEN IF Agrees(p) THEN s ELSE "Partial" ELSE t[p]
  BY DEF SetData
<1> HIDE DEF u
<1>3. IsTree(u)
  <2>1. \A p \in DOMAIN t : u[p] \in States
    BY <1>1, <1>2 DEF IsTree, States
  <2> QED
    BY <1>1, <1>2, <2>1 DEF IsTree
<1>4. ASSUME NEW p \in DOMAIN t, Parent(p) # Root
      PROVE  u[Parent(p)] = "Partial" \/ u[p] = u[Parent(p)] \/ p \in st \ Settled(t, n, s)
  <2> DEFINE q == Parent(p)
  <2>1. /\ n \in Nodes /\ p \in Nodes /\ p # Root
    BY <1>1, <1>4, Node_Facts DEF IsTree
  <2>2. /\ q \in Above(p) /\ q \in DOMAIN t /\ q # p
        /\ \A a \in Above(p) : a = q \/ a \in Above(q)
        /\ Above(q) \subseteq Above(p)
    BY <1>1, <2>1, Node_Facts DEF IsTree
  <2>3. /\ n \notin Above(n)
        /\ \A a \in Above(n) : Above(a) \subseteq Above(n) /\ n \notin Above(a) /\ a # n
    BY <2>1, Node_Facts
  <2>4. t[q] = "Partial" \/ t[p] = t[q] \/ p \in st
    BY <1>1, <1>4 DEF Tells
  <2>5. Settled(t, n, s) = Above(n) \cup {n} \cup (IF s = "Partial" THEN {} ELSE {x \in DOMAIN t : n \in Above(x)})
    BY DEF Settled
  <2>6. Parent(p) = q
    OBVIOUS
  <2> HIDE DEF q
  <2>7. CASE Under(p)
    <3>1. u[p] = s
      BY <1>2, <2>7
    <3>2. CASE p = n
      <4>1. q \in Above(n) /\ ~ Under(q)
        BY <2>2, <2>3, <3>2
      <4> QED
        BY <1>2, <2>2, <2>6, <3>1, <4>1
    <3>3. CASE n \in Above(p) /\ s # "Partial"
      <4>1. Under(q)
        BY <2>2, <3>3
      <4> QED
        BY <1>2, <2>2, <2>6, <3>1, <4>1
    <3> QED
      BY <2>7, <3>2, <3>3
  <2>8. CASE ~ Under(p) /\ p \in Above(n)
    <3>1. q \in Above(n) /\ ~ Under(q)
      BY <2>2, <2>3, <2>8
    <3>2. Agrees(q) => Agrees(p)
      <4> SUFFICES ASSUME Agrees(q), NEW x \in DOMAIN t \ (Above(n) \cup {n}),
                          Parent(x) \in Above(n), p \in Above(x)
                   PROVE  t[x] = s
        OBVIOUS
      <4>1. x \in Nodes
        BY <1>1 DEF IsTree
      <4>2. q \in Above(x)
        BY <2>2, <4>1, Node_Facts
      <4> QED
        BY <4>2
    <3> QED
      BY <1>2, <2>2, <2>6, <2>8, <3>1, <3>2
  <2>9. CASE ~ Under(p) /\ p \notin Above(n)
    <3>1. u[p] = t[p]
      BY <1>2, <2>9
    <3>2. p \notin Settled(t, n, s)
      BY <2>5, <2>9
    <3>3. CASE Under(q)
      <4>1. u[q] = s
        BY <1>2, <2>2, <3>3
      <4>2. n \in Above(p)
        BY <2>2, <3>3
      <4>3. s = "Partial"
        BY <2>9, <4>2
      <4> QED
        BY <2>6, <4>1, <4>3
    <3>4. CASE ~ Under(q) /\ q \in Above(n)
      <4>1. p \in DOMAIN t \ (Above(n) \cup {n}) /\ Parent(p) \in Above(n) /\ q \in Above(p)
        BY <2>2, <2>6, <2>9, <3>4
      <4>2. Agrees(q) => t[p] = s
        BY <4>1
      <4> QED
        BY <1>2, <2>2, <2>6, <3>1, <3>4, <4>2
    <3>5. CASE ~ Under(q) /\ q \notin Above(n)
      <4>1. u[q] = t[q]
        BY <1>2, <2>2, <3>5
      <4> QED
        BY <2>4, <2>6, <3>1, <3>2, <4>1
    <3> QED
      BY <3>3, <3>4, <3>5
  <2> QED
    BY <2>7, <2>8, <2>9
<1>5. Tells(u, st \ Settled(t, n, s))
  BY <1>2, <1>4 DEF Tells
<1> QED
  BY <1>1, <1>3, <1>5 DEF Sound, u

(* What a message or a new pass adds keeps the boxes true, but for what is   *)
(* put under a directory that is Unchecked.                                  *)
LEMMA Sound_Inserted ==
  ASSUME NEW t, NEW st, Sound(t, st), NEW ls \in SUBSET Lines
  PROVE  /\ Sound(Inserted(t, ls), st \cup Orphans(t, ls))
         /\ DOMAIN Inserted(t, ls) = DOMAIN t \cup NewPaths(t, ls)
         /\ ls \subseteq DOMAIN Inserted(t, ls)
         /\ \A n \in DOMAIN t : Inserted(t, ls)[n] = t[n]
<1> DEFINE u == Inserted(t, ls)
<1>1. IsTree(t) /\ Tells(t, st) /\ st \subseteq Nodes
  BY DEF Sound
<1>2. /\ DOMAIN u = DOMAIN t \cup NewPaths(t, ls)
      /\ \A n \in DOMAIN u :
           u[n] = IF n \in DOMAIN t THEN t[n]
                  ELSE IF n \in ls /\ Parent(n) \in DOMAIN t /\ t[Parent(n)] # "Checked"
                       THEN "Unchecked" ELSE "Checked"
  BY DEF Inserted
<1> HIDE DEF u
<1>3. ls \subseteq DOMAIN u /\ \A n \in DOMAIN t : u[n] = t[n]
  BY <1>2 DEF NewPaths
<1>4. ASSUME NEW n \in NewPaths(t, ls)
      PROVE  n \in Nodes /\ n \notin DOMAIN t /\ Above(n) \subseteq DOMAIN u
                /\ \A a \in Above(n) : a \notin ls /\ (a \in DOMAIN t \/ a \in NewPaths(t, ls))
  <2>1. n \in Nodes /\ n \notin DOMAIN t
    BY DEF NewPaths, Nodes
  <2>2. ASSUME NEW a \in Above(n) PROVE a \in ls \cup UNION {Above(l) : l \in ls} /\ a \notin ls
    <3>1. PICK l \in ls : n = l \/ n \in Above(l)
      BY DEF NewPaths
    <3>2. l \in Seq(Names) /\ l \in Lines
      BY LinesAssumption
    <3>3. a \in Above(l)
      BY <3>1, <3>2, Above_Above
    <3>4. a \notin Lines
      BY <2>1, <2>2, Node_Facts
    <3> QED
      BY <3>3, <3>4
  <2>3. ASSUME NEW a \in Above(n) PROVE a \in DOMAIN t \/ a \in NewPaths(t, ls)
    BY <2>2 DEF NewPaths
  <2> QED
    BY <1>2, <2>1, <2>2, <2>3
<1>5. IsTree(u)
  <2>1. DOMAIN u \subseteq Nodes /\ Root \in DOMAIN u
    BY <1>1, <1>2, <1>4 DEF IsTree
  <2>2. \A n \in DOMAIN u : u[n] \in States
    BY <1>1, <1>2 DEF IsTree, States
  <2>3. \A n \in DOMAIN u : Above(n) \subseteq DOMAIN u
    BY <1>1, <1>2, <1>4 DEF IsTree
  <2> QED
    BY <2>1, <2>2, <2>3 DEF IsTree
<1>6. ASSUME NEW p \in DOMAIN u, Parent(p) # Root
      PROVE  u[Parent(p)] = "Partial" \/ u[p] = u[Parent(p)] \/ p \in st \cup Orphans(t, ls)
  <2>1. p \in Nodes /\ Parent(p) \in Above(p) /\ Parent(p) \in DOMAIN u
    BY <1>5, <1>6, Node_Facts DEF IsTree
  <2>2. CASE p \in DOMAIN t
    <3>1. Parent(p) \in DOMAIN t
      BY <1>1, <2>1, <2>2 DEF IsTree
    <3> QED
      BY <1>1, <1>3, <1>6, <2>2, <3>1 DEF Tells
  <2>3. CASE p \notin DOMAIN t
    <3>1. p \in NewPaths(t, ls)
      BY <1>2, <2>3
    <3>2. CASE Parent(p) \in DOMAIN t
      <4>1. t[Parent(p)] \in States
        BY <1>1, <3>2 DEF IsTree
      <4>2. t[Parent(p)] = "Unchecked" /\ p \notin ls => p \in Orphans(t, ls)
        BY <3>1, <3>2 DEF Orphans
      <4> QED
        BY <1>2, <1>3, <2>3, <3>2, <4>1, <4>2 DEF States
    <3>3. CASE Parent(p) \notin DOMAIN t
      <4>1. Parent(p) \notin ls
        BY <1>4, <2>1, <3>1
      <4>2. u[Parent(p)] = "Checked"
        BY <1>2, <2>1, <3>3, <4>1
      <4>3. u[p] = "Checked"
        BY <1>2, <2>3, <3>3
      <4> QED
        BY <4>2, <4>3
    <3> QED
      BY <3>2, <3>3
  <2> QED
    BY <2>2, <2>3
<1>7. Tells(u, st \cup Orphans(t, ls))
  BY <1>6 DEF Tells
<1>8. Orphans(t, ls) \subseteq Nodes
  BY <1>4 DEF Orphans
<1> QED
  BY <1>1, <1>2, <1>3, <1>5, <1>7, <1>8 DEF Sound, u

(* A preset is merged: what it knows is as true as when it was saved. *)
LEMMA Sound_Merged ==
  ASSUME NEW t, NEW st, Sound(t, st), NEW pt, NEW ps, Sound(pt, ps)
  PROVE  Sound(Merged(t, pt), ps \cup (DOMAIN t \ DOMAIN pt))
<1> DEFINE u == Merged(t, pt)
<1>1. IsTree(t) /\ IsTree(pt) /\ Tells(pt, ps) /\ ps \subseteq Nodes
  BY DEF Sound
<1>2. /\ DOMAIN u = DOMAIN t \cup DOMAIN pt
      /\ \A n \in DOMAIN pt : u[n] = pt[n]
      /\ \A n \in DOMAIN t \ DOMAIN pt : u[n] \in {t[n], "Checked", "Unchecked"}
  BY DEF Merged
<1> HIDE DEF u
<1>3. IsTree(u)
  <2>1. \A n \in DOMAIN u : u[n] \in States
    BY <1>1, <1>2 DEF IsTree, States
  <2> QED
    BY <1>1, <1>2, <2>1 DEF IsTree
<1>4. ASSUME NEW p \in DOMAIN pt, Parent(p) # Root
      PROVE  u[Parent(p)] = "Partial" \/ u[p] = u[Parent(p)] \/ p \in ps
  <2>1. Parent(p) \in DOMAIN pt
    BY <1>1, <1>4, Node_Facts DEF IsTree
  <2> QED
    BY <1>1, <1>2, <1>4, <2>1 DEF Tells
<1>5. Tells(u, ps \cup (DOMAIN t \ DOMAIN pt))
  BY <1>2, <1>4 DEF Tells
<1> QED
  BY <1>1, <1>3, <1>5 DEF Sound, IsTree, u

-----------------------------------------------------------------------------
(* The proxy *)

LEMMA Row_Facts ==
  ASSUME RowsTypeOK
  PROVE  /\ Len(rows) \in Nat /\ DOMAIN rows = 1 .. Len(rows)
         /\ \A r \in DOMAIN rows : rows[r].line \in Lines /\ rows[r].tid \in Tids
<1> DEFINE R == [line : Lines, tid : Tids]
<1>1. rows \in Seq(R)
  BY DEF RowsTypeOK
<1>2. ASSUME NEW r \in R PROVE r.line \in Lines /\ r.tid \in Tids
  OBVIOUS
<1> HIDE DEF R
<1>3. /\ Len(rows) \in Nat /\ DOMAIN rows = 1 .. Len(rows)
      /\ \A r \in DOMAIN rows : rows[r] \in R
  BY <1>1
<1> QED
  BY <1>2, <1>3

(* What is true of the tree and of the proxy's maps at every moment *)
Coherent ==
  /\ Sound(tree, strays)
  /\ shown \subseteq DOMAIN rows /\ fresh \subseteq DOMAIN rows
  /\ stale \in BOOLEAN

(* The proxy holds the rows its filters pass. *)
Drawn ==
  /\ "FileLn" \in enabled => \A r \in DOMAIN rows : rows[r].line \in DOMAIN tree
  /\ shown = {r \in DOMAIN rows : Verdict(r, tree, fresh, enabled, hidden)}

(* The inductive invariant of the view *)
Seen ==
  /\ proxied => mgrOn
  /\ ~ proxied /\ ~ stale => ~ mgrOn \/ enabled = {}
  /\ proxied /\ ~ stale => Drawn

LEMMA Force_Draws ==
  ASSUME NEW t, NEW st, NEW en, NEW hid, NEW twice,
         Sound(t, st), RowsTypeOK, ForceUpdate(t, st, en, hid, twice),
         rows' = rows, enabled' = en, hidden' = hid
  PROVE  Coherent' /\ Drawn' /\ ~ stale'
<1> DEFINE ls == IF "FileLn" \in en THEN {rows[r].line : r \in DOMAIN rows} ELSE {}
<1>1. ls \in SUBSET Lines
  BY Row_Facts
<1>2. /\ tree' = Inserted(t, ls) /\ strays' = st \cup Orphans(t, ls)
      /\ fresh' \subseteq DOMAIN rows
      /\ shown' = {r \in DOMAIN rows : Verdict(r, tree', fresh', en, hid)}
      /\ stale' = FALSE
  BY DEF ForceUpdate
<1>3. "FileLn" \in en => \A r \in DOMAIN rows : rows[r].line \in ls
  OBVIOUS
<1> HIDE DEF ls
<1>4. Sound(tree', strays') /\ ls \subseteq DOMAIN tree'
  BY <1>1, <1>2, Sound_Inserted
<1>5. Drawn'
  BY <1>2, <1>3, <1>4 DEF Drawn, Verdict
<1> QED
  BY <1>2, <1>4, <1>5 DEF Coherent

LEMMA Invalidate_Draws ==
  ASSUME NEW t, NEW st, NEW hid, NEW twice,
         Sound(t, st), RowsTypeOK, stale \in BOOLEAN, Seen,
         Invalidate(t, st, enabled, hid, twice),
         UNCHANGED <<rows, enabled, proxied, mgrOn>>, hidden' = hid
  PROVE  Coherent' /\ Seen'
<1>1. CASE proxied
  <2>1. Coherent' /\ Drawn' /\ ~ stale'
    BY <1>1, Force_Draws DEF Invalidate
  <2> QED
    BY <1>1, <2>1 DEF Seen
<1>2. CASE ~ proxied
  <2>1. tree' = t /\ strays' = st /\ UNCHANGED <<shown, fresh, stale>>
    BY <1>2 DEF Invalidate
  <2>2. Coherent'
    BY <2>1 DEF Coherent, RowsTypeOK
  <2> QED
    BY <1>2, <2>1, <2>2 DEF Seen
<1> QED
  BY <1>1, <1>2

LEMMA Proxy_Draws ==
  ASSUME NEW on \in BOOLEAN, NEW t, NEW st, NEW en, NEW hid, NEW twice,
         Sound(t, st), RowsTypeOK, SetFilteringProxy(on, t, st, en, hid, twice),
         rows' = rows, enabled' = en, hidden' = hid,
         on => mgrOn', ~ on => ~ mgrOn' \/ en = {}
  PROVE  Coherent' /\ Seen'
<1>1. CASE on
  <2>1. Coherent' /\ Drawn' /\ ~ stale'
    BY <1>1, Force_Draws DEF SetFilteringProxy
  <2> QED
    BY <1>1, <2>1 DEF Seen, SetFilteringProxy
<1>2. CASE ~ on
  <2>1. /\ proxied' = on /\ tree' = t /\ strays' = st /\ stale' = FALSE
        /\ UNCHANGED <<shown, fresh>>
    BY <1>2 DEF SetFilteringProxy
  <2>2. Coherent'
    BY <2>1 DEF Coherent, RowsTypeOK
  <2> QED
    BY <1>2, <2>1, <2>2 DEF Seen
<1> QED
  BY <1>1, <1>2

(* A change of a filter's data, refiltered or not *)
LEMMA Change_Draws ==
  ASSUME NEW f, NEW t, NEW st,
         Sound(t, st), RowsTypeOK, stale \in BOOLEAN, Seen,
         FilterChanged(f, t, st, hidden'),
         UNCHANGED <<rows, enabled, proxied, mgrOn>>,
         \/ f = "FileLn" /\ hidden' = hidden
         \/ f = "Tid" /\ t = tree
  PROVE  Coherent' /\ Seen'
<1>1. CASE f \in enabled \cap wired
  BY <1>1, Invalidate_Draws DEF FilterChanged
<1>2. CASE f \notin enabled \cap wired
  <2>1. /\ tree' = t /\ strays' = st /\ stale' = (stale \/ f \in enabled)
        /\ UNCHANGED <<shown, fresh>>
    BY <1>2 DEF FilterChanged
  <2>2. Coherent'
    BY <2>1 DEF Coherent, RowsTypeOK
  <2>3. CASE f \in enabled
    BY <2>1, <2>2, <2>3 DEF Seen
  <2>4. CASE f \notin enabled
    <3>1. Drawn => Drawn'
      BY <2>1, <2>4 DEF Drawn, Verdict
    <3> QED
      BY <2>1, <2>2, <2>4, <3>1 DEF Seen
  <2> QED
    BY <2>3, <2>4
<1> QED
  BY <1>1, <1>2

(* A preset is as true as the tree it was saved from. *)
PresetOK == IsPreset(preset) /\ Tells(preset.tree, preset.strays)

LEMMA Message_Draws ==
  ASSUME RowsTypeOK, Coherent, Seen, NEW l \in Lines, NEW t \in Tids, Message(l, t)
  PROVE  Coherent' /\ Seen' /\ RowsTypeOK'
<1>0. PICK r : r = Len(rows) + 1
  OBVIOUS
<1> DEFINE asked == proxied /\ "FileLn" \in enabled
           ls == IF asked THEN {l} ELSE {}
           e == [line |-> l, tid |-> t]
           R == [line : Lines, tid : Tids]
<1>1. /\ rows' = Append(rows, e)
      /\ tree' = Inserted(tree, ls) /\ strays' = strays \cup Orphans(tree, ls)
      /\ fresh' = (IF asked /\ l \notin DOMAIN tree THEN fresh \cup {r} ELSE fresh)
      /\ shown' = (IF /\ proxied
                      /\ "FileLn" \in enabled => r \in fresh' \/ tree'[l] # "Unchecked"
                      /\ "Tid" \in enabled => t \notin hidden
                   THEN shown \cup {r} ELSE shown)
      /\ UNCHANGED <<enabled, mgrOn, proxied, hidden, stale>>
  BY <1>0 DEF Message, filterVars
<1>2. ls \in SUBSET Lines /\ e.line = l /\ e.tid = t /\ e \in R
  OBVIOUS
<1>3. rows \in Seq(R)
  BY DEF RowsTypeOK
<1>4. Len(rows) \in Nat /\ DOMAIN rows = 1 .. Len(rows)
  BY Row_Facts
<1> HIDE DEF e, R
<1>5. /\ rows' \in Seq(R) /\ DOMAIN rows' = 1 .. r
      /\ \A q \in DOMAIN rows : rows'[q] = rows[q]
      /\ rows'[r] = e
  BY <1>0, <1>1, <1>2, <1>3, <1>4, AppendProperties
<1>6. /\ Sound(tree', strays') /\ ls \subseteq DOMAIN tree' /\ DOMAIN tree \subseteq DOMAIN tree'
      /\ \A n \in DOMAIN tree : tree'[n] = tree[n]
  <2>1. tree' = Inserted(tree, ls) /\ strays' = strays \cup Orphans(tree, ls) /\ ls \in SUBSET Lines
    BY <1>1, <1>2
  <2>2. Sound(tree, strays)
    BY DEF Coherent
  <2> HIDE DEF ls
  <2> QED
    BY <2>1, <2>2, Sound_Inserted
<1>7. r \notin DOMAIN rows /\ DOMAIN rows' = DOMAIN rows \cup {r}
  BY <1>0, <1>4, <1>5
<1>8. /\ shown' \subseteq DOMAIN rows' /\ fresh' \subseteq DOMAIN rows'
  BY <1>1, <1>7 DEF Coherent
<1>9. Coherent'
  BY <1>1, <1>6, <1>8 DEF Coherent
<1>10. ASSUME proxied, ~ stale PROVE Drawn'
  <2>1. Drawn
    BY <1>10 DEF Seen
  <2>2. ASSUME NEW q \in DOMAIN rows
        PROVE  Verdict(q, tree, fresh, enabled, hidden)' <=> Verdict(q, tree, fresh, enabled, hidden)
    <3>1. q # r /\ rows'[q] = rows[q] /\ (q \in fresh' <=> q \in fresh)
      BY <1>1, <1>5, <1>7
    <3>2. "FileLn" \in enabled => tree'[rows[q].line] = tree[rows[q].line]
      BY <1>6, <2>1 DEF Drawn
    <3> QED
      BY <1>1, <3>1, <3>2 DEF Verdict
  <2>3. r \in shown' <=> Verdict(r, tree, fresh, enabled, hidden)'
    <3>1. r \notin shown
      BY <1>7 DEF Coherent
    <3>2. rows'[r].line = l /\ rows'[r].tid = t
      BY <1>2, <1>5
    <3>3. Verdict(r, tree, fresh, enabled, hidden)'
            <=> /\ "FileLn" \in enabled => r \in fresh' \/ tree'[l] # "Unchecked"
                /\ "Tid" \in enabled => t \notin hidden
      BY <1>1, <3>2 DEF Verdict
    <3> QED
      BY <1>1, <1>10, <3>1, <3>3
  <2>4. \A q \in DOMAIN rows : q \in shown' <=> q \in shown
    BY <1>1, <1>7
  <2>5. shown' = {q \in DOMAIN rows' : Verdict(q, tree, fresh, enabled, hidden)'}
    <3>1. \A q \in DOMAIN rows : q \in shown' <=> Verdict(q, tree, fresh, enabled, hidden)'
      BY <2>1, <2>2, <2>4 DEF Drawn
    <3>2. \A q \in DOMAIN rows' : q \in shown' <=> Verdict(q, tree, fresh, enabled, hidden)'
      BY <1>7, <2>3, <3>1
    <3> QED
      BY <1>8, <3>2
  <2>6. "FileLn" \in enabled => \A q \in DOMAIN rows' : rows'[q].line \in DOMAIN tree'
    <3>1. "FileLn" \in enabled => l \in DOMAIN tree'
      BY <1>6, <1>10
    <3> QED
      BY <1>2, <1>5, <1>6, <1>7, <2>1, <3>1 DEF Drawn
  <2> QED
    BY <1>1, <2>5, <2>6 DEF Drawn
<1>11. Seen'
  BY <1>1, <1>10 DEF Seen
<1>12. RowsTypeOK'
  BY <1>5, <1>8 DEF RowsTypeOK, R
<1> QED
  BY <1>9, <1>11, <1>12

(* One turn of an exclusion *)
LEMMA Exclude_Draws ==
  ASSUME RowsTypeOK, Coherent, Seen, ExcludeNext
  PROVE  Coherent' /\ Seen'
<1>0. UNCHANGED <<rows, enabled, hidden, mgrOn, proxied>>
  BY DEF ExcludeNext, filterVars
<1>1. stale \in BOOLEAN /\ Sound(tree, strays)
  BY DEF Coherent
<1>2. CASE UNCHANGED <<tree, strays, shown, fresh, stale>>
  BY <1>0, <1>2 DEF Coherent, Seen, Drawn, Verdict
<1>3. CASE \E r : Invalidate(tree, strays, enabled, hidden, FALSE)
  BY <1>0, <1>1, <1>3, Invalidate_Draws
<1>4. CASE \E n \in DOMAIN tree : Invalidate(SetData(tree, n, "Unchecked"),
                                       strays \ Settled(tree, n, "Unchecked"), enabled, hidden, FALSE)
  <2>1. PICK n \in DOMAIN tree : Invalidate(SetData(tree, n, "Unchecked"),
                                       strays \ Settled(tree, n, "Unchecked"), enabled, hidden, FALSE)
    BY <1>4
  <2>2. Sound(SetData(tree, n, "Unchecked"), strays \ Settled(tree, n, "Unchecked"))
    BY <1>1, Sound_SetData DEF States
  <2> QED
    BY <1>0, <1>1, <2>1, <2>2, Invalidate_Draws
<1>5. \/ UNCHANGED <<tree, strays, shown, fresh, stale>>
      \/ \E r : Invalidate(tree, strays, enabled, hidden, FALSE)
      \/ \E n \in DOMAIN tree : Invalidate(SetData(tree, n, "Unchecked"),
                                       strays \ Settled(tree, n, "Unchecked"), enabled, hidden, FALSE)
  BY DEF ExcludeNext
<1> QED
  BY <1>2, <1>3, <1>4, <1>5

(* A preset applied *)
LEMMA Preset_Draws ==
  ASSUME RowsTypeOK, FlagsTypeOK, Coherent, PresetOK, ApplyPreset
  PROVE  Coherent' /\ Seen'
<1> DEFINE kept == "FileLn" \in filters /\ "FileLn" \in preset.filters
           own == IF kept THEN tree ELSE Bare
           merged == IF "FileLn" \in preset.filters THEN Merged(own, preset.tree) ELSE Bare
           unsure == IF "FileLn" \in preset.filters
                     THEN preset.strays \cup (DOMAIN own \ DOMAIN preset.tree) ELSE {}
           on == mgrOn' /\ enabled' # {}
<1>1. Sound(preset.tree, preset.strays)
  BY DEF PresetOK, IsPreset, Sound
<1>2. Sound(own, strays) \/ Sound(own, {})
  BY Sound_Bare DEF Coherent
<1>3. Sound(merged, unsure)
  BY <1>1, <1>2, Sound_Merged, Sound_Bare
<1>4. /\ SetFilteringProxy(on, merged, unsure, enabled', hidden', FALSE)
      /\ mgrOn' = (IF preset.stored THEN preset.mgrOn ELSE mgrOn) /\ rows' = rows
  BY DEF ApplyPreset
<1>5. mgrOn' \in BOOLEAN /\ on \in BOOLEAN
  BY <1>4 DEF FlagsTypeOK, PresetOK, IsPreset
<1>6. (on => mgrOn') /\ (~ on => ~ mgrOn' \/ enabled' = {})
  OBVIOUS
<1> HIDE DEF merged, unsure, on
<1> QED
  BY <1>3, <1>4, <1>5, <1>6, Proxy_Draws

(* A filter switched on or off *)
LEMMA Toggle_Draws ==
  ASSUME RowsTypeOK, FlagsTypeOK, Coherent, Seen, NEW f \in Filters, ToggleFilter(f)
  PROVE  Coherent' /\ Seen'
<1>1. /\ mgrOn' = (enabled' # {}) /\ rows' = rows /\ hidden' = hidden
      /\ IF mgrOn' # mgrOn
         THEN SetFilteringProxy(mgrOn', tree, strays, enabled', hidden, doubled)
         ELSE /\ UNCHANGED proxied
              /\ IF mgrOn /\ proxied
                 THEN ForceUpdate(tree, strays, enabled', hidden, doubled)
                 ELSE stale' = (stale \/ mgrOn) /\ UNCHANGED <<tree, strays, shown, fresh>>
  BY DEF ToggleFilter
<1>2. mgrOn' \in BOOLEAN /\ Sound(tree, strays)
  BY <1>1 DEF Coherent
<1>3. CASE mgrOn' # mgrOn
  <2>1. SetFilteringProxy(mgrOn', tree, strays, enabled', hidden, doubled)
    BY <1>1, <1>3
  <2> QED
    BY <1>1, <1>2, <2>1, Proxy_Draws
<1>4. CASE mgrOn' = mgrOn /\ mgrOn /\ proxied
  <2>1. ForceUpdate(tree, strays, enabled', hidden, doubled) /\ UNCHANGED proxied
    BY <1>1, <1>4
  <2>2. Coherent' /\ Drawn' /\ ~ stale'
    BY <1>1, <1>2, <2>1, Force_Draws
  <2> QED
    BY <1>4, <2>1, <2>2 DEF Seen
<1>5. CASE mgrOn' = mgrOn /\ ~ (mgrOn /\ proxied)
  <2>1. /\ stale' = (stale \/ mgrOn) /\ UNCHANGED <<tree, strays, shown, fresh, proxied>>
    BY <1>1, <1>5
  <2>2. ~ proxied
    BY <1>5 DEF Seen
  <2>3. Coherent'
    BY <1>1, <2>1 DEF Coherent
  <2> QED
    BY <1>5, <2>1, <2>2, <2>3 DEF Seen
<1> QED
  BY <1>3, <1>4, <1>5

LEMMA Next_View ==
  RowsTypeOK /\ FlagsTypeOK /\ Coherent /\ PresetOK /\ Seen /\ [Next]_vars
    => Coherent' /\ Seen' /\ RowsTypeOK'
<1> SUFFICES ASSUME RowsTypeOK, FlagsTypeOK, Coherent, PresetOK, Seen, [Next]_vars
             PROVE  Coherent' /\ Seen' /\ RowsTypeOK'
  OBVIOUS
<1>0. stale \in BOOLEAN /\ Sound(tree, strays)
  BY DEF Coherent
<1>a. Coherent' /\ rows' = rows => RowsTypeOK'
  BY DEF Coherent, RowsTypeOK
<1>b. UNCHANGED <<tree, rows, shown, fresh, enabled, mgrOn, proxied, hidden, strays, stale>>
        => Coherent' /\ Seen' /\ RowsTypeOK'
  BY DEF Coherent, Seen, Drawn, Verdict, RowsTypeOK
<1>1. CASE UNCHANGED vars
  BY <1>1, <1>b DEF vars
<1>2. ASSUME NEW l \in Lines, NEW t \in Tids, Message(l, t)
      PROVE  Coherent' /\ Seen' /\ RowsTypeOK'
  BY <1>2, Message_Draws
<1>3. CASE ClearAllData
  <2>1. /\ rows' = <<>> /\ shown' = {} /\ fresh' = {} /\ UNCHANGED <<tree, strays, stale, enabled, mgrOn, proxied>>
    BY <1>3 DEF ClearAllData, filterVars
  <2>2. DOMAIN rows' = {} /\ rows' \in Seq([line : Lines, tid : Tids])
    BY <2>1
  <2>3. Drawn'
    BY <2>1, <2>2 DEF Drawn
  <2> QED
    BY <2>1, <2>2, <2>3 DEF Coherent, Seen, RowsTypeOK
<1>4. ASSUME NEW n \in Nodes, NEW s \in States, Click(n, s)
      PROVE  Coherent' /\ Seen' /\ RowsTypeOK'
  <2>1. /\ FilterChanged("FileLn", SetData(tree, n, s), strays \ Settled(tree, n, s), hidden)
        /\ n \in DOMAIN tree /\ UNCHANGED <<rows, enabled, proxied, mgrOn, hidden>>
    BY <1>4 DEF Click, filterVars
  <2>2. Sound(SetData(tree, n, s), strays \ Settled(tree, n, s))
    BY <1>0, <2>1, Sound_SetData
  <2>3. FilterChanged("FileLn", SetData(tree, n, s), strays \ Settled(tree, n, s), hidden')
    BY <2>1
  <2> QED
    BY <1>0, <1>a, <2>1, <2>2, <2>3, Change_Draws
<1>5. ASSUME NEW s \in {"Checked", "Unchecked"}, SelectAll(s)
      PROVE  Coherent' /\ Seen' /\ RowsTypeOK'
  <2>1. /\ FilterChanged("FileLn", SetAll(tree, s), {}, hidden)
        /\ UNCHANGED <<rows, enabled, proxied, mgrOn, hidden>>
    BY <1>5 DEF SelectAll, filterVars
  <2>2. Sound(SetAll(tree, s), {})
    BY <1>0, Sound_SetAll
  <2>3. FilterChanged("FileLn", SetAll(tree, s), {}, hidden')
    BY <2>1
  <2> QED
    BY <1>0, <1>a, <2>1, <2>2, <2>3, Change_Draws
<1>6. ASSUME NEW t \in Tids, ToggleTid(t)
      PROVE  Coherent' /\ Seen' /\ RowsTypeOK'
  <2>1. /\ FilterChanged("Tid", tree, strays, hidden')
        /\ UNCHANGED <<rows, enabled, proxied, mgrOn>>
    BY <1>6 DEF ToggleTid
  <2> QED
    BY <1>0, <1>a, <2>1, Change_Draws
<1>7. ASSUME NEW f \in Filters, ToggleFilter(f)
      PROVE  Coherent' /\ Seen' /\ RowsTypeOK'
  <2>1. rows' = rows
    BY <1>7 DEF ToggleFilter
  <2> QED
    BY <1>7, <1>a, <2>1, Toggle_Draws
<1>8. ASSUME NEW fs \in SUBSET Filters, CommitMenu(fs)
      PROVE  Coherent' /\ Seen' /\ RowsTypeOK'
  <2>1. /\ stale' = TRUE /\ UNCHANGED <<rows, shown, mgrOn, proxied>>
        /\ tree' = tree \/ tree' = Bare
        /\ strays' = (IF "FileLn" \in filters \cap fs THEN strays ELSE {})
        /\ tree' = (IF "FileLn" \in filters \cap fs THEN tree ELSE Bare)
        /\ fresh' = fresh \/ fresh' = {}
    BY <1>8 DEF CommitMenu
  <2>2. Sound(tree', strays')
    BY <1>0, <2>1, Sound_Bare
  <2>3. Coherent'
    BY <2>1, <2>2 DEF Coherent
  <2> QED
    BY <1>a, <2>1, <2>3 DEF Seen
<1>9. CASE SavePreset
  BY <1>9, <1>b DEF SavePreset, filterVars
<1>10. CASE ApplyPreset
  <2>1. rows' = rows
    BY <1>10 DEF ApplyPreset
  <2> QED
    BY <1>10, <1>a, <2>1, Preset_Draws
<1>11. ASSUME NEW sel, NEW k, Exclude(sel, k)
       PROVE  Coherent' /\ Seen' /\ RowsTypeOK'
  BY <1>11, <1>b DEF Exclude, filterVars
<1>12. CASE ExcludeNext
  <2>1. rows' = rows
    BY <1>12 DEF ExcludeNext
  <2> QED
    BY <1>12, <1>a, <2>1, Exclude_Draws
<1> QED
  BY <1>1, <1>2, <1>3, <1>4, <1>5, <1>6, <1>7, <1>8, <1>9, <1>10, <1>11, <1>12 DEF Next

-----------------------------------------------------------------------------
(* Types *)

LEMMA Next_FilterTypeOK == FilterTypeOK /\ PresetOK /\ [Next]_vars => FilterTypeOK'
<1> SUFFICES ASSUME FilterTypeOK, PresetOK, [Next]_vars PROVE FilterTypeOK'
  OBVIOUS
<1> USE DEF FilterTypeOK, filterVars
<1>1. CASE UNCHANGED vars
  BY <1>1 DEF vars
<1>2. ASSUME NEW l \in Lines, NEW t \in Tids, Message(l, t) PROVE FilterTypeOK'
  BY <1>2 DEF Message
<1>3. CASE ClearAllData
  BY <1>3 DEF ClearAllData
<1>4. ASSUME NEW n \in Nodes, NEW s \in States, Click(n, s) PROVE FilterTypeOK'
  BY <1>4 DEF Click
<1>5. ASSUME NEW s \in {"Checked", "Unchecked"}, SelectAll(s) PROVE FilterTypeOK'
  BY <1>5 DEF SelectAll
<1>6. ASSUME NEW t \in Tids, ToggleTid(t) PROVE FilterTypeOK'
  BY <1>6 DEF ToggleTid
<1>7. ASSUME NEW f \in Filters, ToggleFilter(f) PROVE FilterTypeOK'
  BY <1>7 DEF ToggleFilter
<1>8. ASSUME NEW fs \in SUBSET Filters, CommitMenu(fs) PROVE FilterTypeOK'
  BY <1>8 DEF CommitMenu
<1>9. CASE SavePreset
  BY <1>9 DEF SavePreset
<1>10. CASE ApplyPreset
  <2>1. /\ filters' = preset.filters /\ enabled' \subseteq preset.enabled
        /\ wired' = preset.filters /\ hidden' = preset.hidden
    BY <1>10 DEF ApplyPreset
  <2> QED
    BY <2>1 DEF PresetOK, IsPreset
<1>11. ASSUME NEW sel \in SUBSET (1 .. Cardinality(Visible)) \ {{}}, NEW k \in Kinds, Exclude(sel, k)
      PROVE  FilterTypeOK'
  BY <1>11 DEF Exclude
<1>12. CASE ExcludeNext
  BY <1>12 DEF ExcludeNext
<1> QED
  BY <1>1, <1>2, <1>3, <1>4, <1>5, <1>6, <1>7, <1>8, <1>9, <1>10, <1>11, <1>12 DEF Next

LEMMA Next_FlagsTypeOK ==
  FlagsTypeOK /\ Coherent /\ Coherent' /\ PresetOK /\ [Next]_vars => FlagsTypeOK'
<1> SUFFICES ASSUME FlagsTypeOK, Coherent, Coherent', PresetOK, [Next]_vars PROVE FlagsTypeOK'
  OBVIOUS
<1> USE DEF FlagsTypeOK, Coherent, filterVars
<1>1. CASE UNCHANGED vars
  BY <1>1 DEF vars
<1>2. ASSUME NEW l \in Lines, NEW t \in Tids, Message(l, t) PROVE FlagsTypeOK'
  BY <1>2 DEF Message
<1>3. CASE ClearAllData
  BY <1>3 DEF ClearAllData
<1>4. ASSUME NEW n \in Nodes, NEW s \in States, Click(n, s) PROVE FlagsTypeOK'
  BY <1>4 DEF Click
<1>5. ASSUME NEW s \in {"Checked", "Unchecked"}, SelectAll(s) PROVE FlagsTypeOK'
  BY <1>5 DEF SelectAll
<1>6. ASSUME NEW t \in Tids, ToggleTid(t) PROVE FlagsTypeOK'
  BY <1>6 DEF ToggleTid
<1>7. ASSUME NEW f \in Filters, ToggleFilter(f) PROVE FlagsTypeOK'
  <2>1. mgrOn' = (enabled' # {}) /\ doubled' = doubled /\ (proxied' = mgrOn' \/ proxied' = proxied)
    BY <1>7 DEF ToggleFilter, SetFilteringProxy
  <2> QED
    BY <2>1
<1>8. ASSUME NEW fs \in SUBSET Filters, CommitMenu(fs) PROVE FlagsTypeOK'
  BY <1>8 DEF CommitMenu
<1>9. CASE SavePreset
  BY <1>9 DEF SavePreset
<1>10. CASE ApplyPreset
  <2>1. /\ doubled' = TRUE /\ mgrOn' = (IF preset.stored THEN preset.mgrOn ELSE mgrOn)
        /\ proxied' = (mgrOn' /\ enabled' # {})
    BY <1>10 DEF ApplyPreset, SetFilteringProxy
  <2> QED
    BY <2>1 DEF PresetOK, IsPreset
<1>11. ASSUME NEW sel \in SUBSET (1 .. Cardinality(Visible)) \ {{}}, NEW k \in Kinds, Exclude(sel, k)
      PROVE  FlagsTypeOK'
  BY <1>11 DEF Exclude
<1>12. CASE ExcludeNext
  BY <1>12 DEF ExcludeNext
<1> QED
  BY <1>1, <1>2, <1>3, <1>4, <1>5, <1>6, <1>7, <1>8, <1>9, <1>10, <1>11, <1>12 DEF Next

LEMMA Next_PickTypeOK == RowsTypeOK /\ PickTypeOK /\ [Next]_vars => PickTypeOK'
<1> SUFFICES ASSUME RowsTypeOK, PickTypeOK, [Next]_vars PROVE PickTypeOK'
  OBVIOUS
<1> USE DEF PickTypeOK, pickVars
<1>1. CASE UNCHANGED vars
  BY <1>1 DEF vars
<1>2. ASSUME NEW l \in Lines, NEW t \in Tids, Message(l, t) PROVE PickTypeOK'
  BY <1>2 DEF Message
<1>3. CASE ClearAllData
  BY <1>3 DEF ClearAllData, Command
<1>4. ASSUME NEW n \in Nodes, NEW s \in States, Click(n, s) PROVE PickTypeOK'
  BY <1>4 DEF Click, Command
<1>5. ASSUME NEW s \in {"Checked", "Unchecked"}, SelectAll(s) PROVE PickTypeOK'
  BY <1>5 DEF SelectAll, Command
<1>6. ASSUME NEW t \in Tids, ToggleTid(t) PROVE PickTypeOK'
  BY <1>6 DEF ToggleTid, Command
<1>7. ASSUME NEW f \in Filters, ToggleFilter(f) PROVE PickTypeOK'
  BY <1>7 DEF ToggleFilter, Command
<1>8. ASSUME NEW fs \in SUBSET Filters, CommitMenu(fs) PROVE PickTypeOK'
  BY <1>8 DEF CommitMenu, Command
<1>9. CASE SavePreset
  BY <1>9 DEF SavePreset, Command
<1>10. CASE ApplyPreset
  BY <1>10 DEF ApplyPreset, Command
<1>11. ASSUME NEW sel \in SUBSET (1 .. Cardinality(Visible)) \ {{}}, NEW k \in Kinds, Exclude(sel, k)
      PROVE  PickTypeOK'
  <2>1. Cardinality(Visible) \in Nat
    <3>1. IsFiniteSet(DOMAIN rows)
      BY Row_Facts, FS_Interval
    <3>2. Visible \subseteq DOMAIN rows
      BY DEF Visible, RowsTypeOK
    <3> QED
      BY <3>1, <3>2, FS_Subset, FS_CardinalityType
  <2>2. sel \subseteq Nat
    BY <2>1
  <2>3. UNION {SourceRows(i) : i \in sel} \subseteq Nat
    <3>1. DOMAIN rows \subseteq Nat /\ shown \subseteq DOMAIN rows
      BY Row_Facts DEF RowsTypeOK
    <3>2. ASSUME NEW i \in sel PROVE SourceRows(i) \subseteq DOMAIN rows
      BY <3>1 DEF SourceRows
    <3> QED
      BY <3>1, <3>2
  <2> QED
    BY <1>11, <2>2, <2>3 DEF Exclude
<1>12. CASE ExcludeNext
  BY <1>12 DEF ExcludeNext
<1> QED
  BY <1>1, <1>2, <1>3, <1>4, <1>5, <1>6, <1>7, <1>8, <1>9, <1>10, <1>11, <1>12 DEF Next

LEMMA Next_PresetOK == FilterTypeOK /\ FlagsTypeOK /\ Coherent /\ PresetOK /\ [Next]_vars => PresetOK'
<1> SUFFICES ASSUME FilterTypeOK, FlagsTypeOK, Coherent, PresetOK, [Next]_vars PROVE PresetOK'
  OBVIOUS
<1> USE DEF PresetOK
<1>1. CASE UNCHANGED vars
  BY <1>1 DEF vars
<1>2. ASSUME NEW l \in Lines, NEW t \in Tids, Message(l, t) PROVE PresetOK'
  BY <1>2 DEF Message
<1>3. CASE ClearAllData
  BY <1>3 DEF ClearAllData
<1>4. ASSUME NEW n \in Nodes, NEW s \in States, Click(n, s) PROVE PresetOK'
  BY <1>4 DEF Click
<1>5. ASSUME NEW s \in {"Checked", "Unchecked"}, SelectAll(s) PROVE PresetOK'
  BY <1>5 DEF SelectAll
<1>6. ASSUME NEW t \in Tids, ToggleTid(t) PROVE PresetOK'
  BY <1>6 DEF ToggleTid
<1>7. ASSUME NEW f \in Filters, ToggleFilter(f) PROVE PresetOK'
  BY <1>7 DEF ToggleFilter
<1>8. ASSUME NEW fs \in SUBSET Filters, CommitMenu(fs) PROVE PresetOK'
  BY <1>8 DEF CommitMenu
<1>9. CASE SavePreset
  <2> DEFINE p == [stored |-> TRUE, mgrOn |-> mgrOn, filters |-> filters, enabled |-> enabled,
                   tree |-> tree, hidden |-> hidden, strays |-> strays]
  <2>1. preset' = p
    BY <1>9 DEF SavePreset
  <2>2. IsPreset(p) /\ Tells(p.tree, p.strays)
    BY DEF IsPreset, FilterTypeOK, FlagsTypeOK, Coherent, Sound
  <2> QED
    BY <2>1, <2>2
<1>10. CASE ApplyPreset
  BY <1>10 DEF ApplyPreset
<1>11. ASSUME NEW sel \in SUBSET (1 .. Cardinality(Visible)) \ {{}}, NEW k \in Kinds, Exclude(sel, k)
      PROVE  PresetOK'
  BY <1>11 DEF Exclude
<1>12. CASE ExcludeNext
  BY <1>12 DEF ExcludeNext
<1> QED
  BY <1>1, <1>2, <1>3, <1>4, <1>5, <1>6, <1>7, <1>8, <1>9, <1>10, <1>11, <1>12 DEF Next

LEMMA Next_Changes == changes \in 0 .. MaxChanges /\ [Next]_vars => changes' \in 0 .. MaxChanges
<1> SUFFICES ASSUME changes \in 0 .. MaxChanges, [Next]_vars PROVE changes' \in 0 .. MaxChanges
  OBVIOUS
<1>1. \/ UNCHANGED changes
      \/ changes < MaxChanges /\ changes' = changes + 1
  BY DEF Next, vars, Message, ClearAllData, Click, SelectAll, ToggleTid, ToggleFilter, CommitMenu,
         SavePreset, ApplyPreset, Exclude, ExcludeNext, Command
<1> QED
  BY <1>1, BoundsAssumption

(* The inductive invariant *)
IInv ==
  /\ RowsTypeOK /\ FilterTypeOK /\ FlagsTypeOK /\ PickTypeOK
  /\ Coherent /\ PresetOK /\ Seen
  /\ changes \in 0 .. MaxChanges

LEMMA Init_IInv == Init => IInv
<1> SUFFICES ASSUME Init PROVE IInv
  OBVIOUS
<1>1. DOMAIN rows = {} /\ rows \in Seq([line : Lines, tid : Tids])
  BY DEF Init
<1>2. Sound(Bare, {})
  BY Sound_Bare
<1>3. Coherent
  BY <1>1, <1>2 DEF Init, Coherent
<1>4. PresetOK
  <2>1. IsPreset(NoPreset) /\ Tells(NoPreset.tree, NoPreset.strays)
    BY <1>2 DEF NoPreset, IsPreset, Sound
  <2> QED
    BY <2>1 DEF Init, PresetOK
<1>5. Seen
  BY <1>1 DEF Init, Seen, Drawn
<1>6. RowsTypeOK /\ FilterTypeOK
  BY <1>1 DEF Init, RowsTypeOK, FilterTypeOK
<1>7. FlagsTypeOK /\ PickTypeOK
  BY DEF Init, FlagsTypeOK, PickTypeOK, Kinds
<1>8. changes \in 0 .. MaxChanges
  BY BoundsAssumption DEF Init
<1> QED
  BY <1>3, <1>4, <1>5, <1>6, <1>7, <1>8 DEF IInv

LEMMA Next_IInv == IInv /\ [Next]_vars => IInv'
  BY Next_View, Next_FilterTypeOK, Next_FlagsTypeOK, Next_PickTypeOK, Next_PresetOK, Next_Changes
  DEF IInv

-----------------------------------------------------------------------------
(* Theorems *)

(* Every variable has its type: what is known of the tree reaches the root,  *)
(* and the proxy's maps name rows of the table.                              *)
THEOREM Types == Spec => []TypeOK
<1>1. IInv => TypeOK
  BY DEF IInv, TypeOK, TreeTypeOK, Coherent, PresetOK, Sound
<1> QED
  BY <1>1, Init_IInv, Next_IInv, PTL DEF Spec

(* A check box tells what the filter does with the lines under it, whatever  *)
(* is clicked, excluded, merged from a preset and inserted by messages, but  *)
(* for the paths of which the code does not keep it.                         *)
THEOREM TreesTell == Spec => []TreeTells
<1>1. IInv => TreeTells
  BY DEF IInv, TreeTells, Coherent, Sound
<1> QED
  BY <1>1, Init_IInv, Next_IInv, PTL DEF Spec

(* The view shows the rows that the filters pass and no others, unless the   *)
(* last change was one that the code does not refilter for.                  *)
THEOREM ViewsMatch == Spec => []ViewMatchesFilters
<1>1. IInv => ViewMatchesFilters
  <2> SUFFICES ASSUME Seen, FlagsTypeOK, ~ stale PROVE Visible = Passing
    BY DEF IInv, ViewMatchesFilters
  <2>1. CASE proxied
    BY <2>1 DEF Seen, Drawn, Visible, Passing
  <2>2. CASE ~ proxied
    BY <2>2 DEF Seen, Visible, Passing, Verdict
  <2> QED
    BY <2>1, <2>2
<1> QED
  BY <1>1, Init_IInv, Next_IInv, PTL DEF Spec

=============================================================================
