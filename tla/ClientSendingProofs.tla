------------------------ MODULE ClientSendingProofs ------------------------
(***************************************************************************)
(* The verdicts of the mixer are fair and the frames on the wire are whole *)
(* for any number of threads, contexts, levels and pieces, and without     *)
(* bounds on what happens.                                                 *)
(***************************************************************************)
EXTENDS ClientSending, SequenceTheorems, TLAPS

LEMMA Init_MixerType == Init => MixerTypeOK
  BY SendingAssumption DEF Init, MixerTypeOK, Steps

LEMMA Next_MixerType == MixerTypeOK /\ [Next]_vars => MixerTypeOK'
<1> SUFFICES ASSUME MixerTypeOK, [Next]_vars PROVE MixerTypeOK'
  OBVIOUS
<1> USE DEF MixerTypeOK, mixerVars, callVars, wireVars, sendVars, ioVars
<1>1. CASE UNCHANGED vars
  BY <1>1 DEF vars
<1>2. ASSUME NEW t \in Threads, NEW c \in SUBSET Contexts, NEW l \in Levels,
             WriteMsg(t, c, l)
      PROVE MixerTypeOK'
  BY <1>2 DEF WriteMsg, Call, Steps
<1>3. ASSUME NEW t \in Threads, NEW c \in SUBSET Contexts, NEW l \in Levels,
             NEW p \in {"set", "unset"},
             Change(t, c, l, p)
      PROVE MixerTypeOK'
  BY <1>3 DEF Change, Call, Steps
<1>4. ASSUME NEW t \in Threads, Test(t) PROVE MixerTypeOK'
  BY <1>4 DEF Test, IsNext, Steps
<1>5. ASSUME NEW t \in Threads, Refuse(t) PROVE MixerTypeOK'
  BY <1>5 DEF Refuse, Return, Steps
<1>6. ASSUME NEW t \in Threads, Write(t) PROVE MixerTypeOK'
  BY <1>6 DEF Write, Return, Steps
<1>7. ASSUME NEW t \in Threads, WriteSome(t) PROVE MixerTypeOK'
  BY <1>7 DEF WriteSome, Return, Put, Steps
<1>8. ASSUME NEW t \in Threads, WriteFails(t) PROVE MixerTypeOK'
  BY <1>8 DEF WriteFails, Return, Steps
<1>9. ASSUME NEW t \in Threads, Read(t) PROVE MixerTypeOK'
  BY <1>9 DEF Read, IsNext, Steps
<1>10. ASSUME NEW t \in Threads, WriteBack(t) PROVE MixerTypeOK'
  BY <1>10 DEF WriteBack, IsNext, Store, Steps
<1>11. ASSUME NEW t \in Threads, Changed(t) PROVE MixerTypeOK'
  BY <1>11 DEF Changed, Return, Steps
<1>12. CASE Drop
  BY <1>12 DEF Drop, Steps
<1>13. CASE ReadFails
  BY <1>13 DEF ReadFails, Steps
<1>14. CASE Establish
  BY <1>14 DEF Establish, Steps
<1>15. CASE OnConnected
  BY <1>15 DEF OnConnected, Steps
<1>16. CASE Greet
  BY <1>16 DEF Greet, Put, Steps
<1>17. CASE ServerConfig
  BY <1>17 DEF ServerConfig, Steps
<1>18. CASE Copy
  BY <1>18 DEF Copy, Store, Contexts, Steps
<1> QED
  BY <1>1, <1>2, <1>3, <1>4, <1>5, <1>6, <1>7, <1>8, <1>9, <1>10, <1>11, <1>12, <1>13,
     <1>14, <1>15, <1>16, <1>17, <1>18 DEF Next

LEMMA Init_WireType == Init => WireTypeOK
  BY SendingAssumption DEF Init, WireTypeOK

(* What a piece is that a thread puts on the wire *)
LEMMA Put_Type ==
  ASSUME NEW s \in Threads \cup {IO}, WireTypeOK, Put(s)
  PROVE  wire' \in Seq([from : Threads \cup {IO}, frame : Nat, piece : Nat])
<1>1. frames[s] \in Nat /\ piece[s] + 1 \in Nat
  BY DEF WireTypeOK
<1>2. [from |-> s, frame |-> frames[s], piece |-> piece[s] + 1]
        \in [from : Threads \cup {IO}, frame : Nat, piece : Nat]
  BY <1>1
<1>3. wire \in Seq([from : Threads \cup {IO}, frame : Nat, piece : Nat])
  BY DEF WireTypeOK
<1> QED
  BY <1>2, <1>3, AppendProperties DEF Put

(* A counter counts on. *)
LEMMA Counted ==
  ASSUME NEW S, NEW f \in [S -> Nat], NEW x \in S
  PROVE  [f EXCEPT ![x] = @ + 1] \in [S -> Nat]
  OBVIOUS

LEMMA Next_WireType == WireTypeOK /\ [Next]_vars => WireTypeOK'
<1> SUFFICES ASSUME WireTypeOK, [Next]_vars PROVE WireTypeOK'
  OBVIOUS
<1> USE DEF WireTypeOK, mixerVars, callVars, wireVars, sendVars, ioVars
<1>1. CASE UNCHANGED vars
  BY <1>1 DEF vars
<1>2. ASSUME NEW t \in Threads, NEW c \in SUBSET Contexts, NEW l \in Levels,
             WriteMsg(t, c, l)
      PROVE WireTypeOK'
  BY <1>2 DEF WriteMsg, Call
<1>3. ASSUME NEW t \in Threads, NEW c \in SUBSET Contexts, NEW l \in Levels,
             NEW p \in {"set", "unset"},
             Change(t, c, l, p)
      PROVE WireTypeOK'
  BY <1>3 DEF Change, Call
<1>4. ASSUME NEW t \in Threads, Test(t) PROVE WireTypeOK'
  BY <1>4 DEF Test, IsNext
<1>5. ASSUME NEW t \in Threads, Refuse(t) PROVE WireTypeOK'
  BY <1>5 DEF Refuse, Return
<1>6. ASSUME NEW t \in Threads, Write(t) PROVE WireTypeOK'
  <2>1. piece' \in [Threads \cup {IO} -> Nat]
    BY <1>6 DEF Write
  <2>2. frames' = [frames EXCEPT ![t] = @ + 1] \/ frames' = frames
    BY <1>6 DEF Write
  <2>3. frames \in [Threads \cup {IO} -> Nat] /\ t \in Threads \cup {IO}
    OBVIOUS
  <2>4. [frames EXCEPT ![t] = @ + 1] \in [Threads \cup {IO} -> Nat]
    BY ONLY <2>3, Counted
  <2>5. frames' \in [Threads \cup {IO} -> Nat]
    BY <2>2, <2>3, <2>4
  <2> QED
    BY <1>6, <2>1, <2>5 DEF Write
<1>7. ASSUME NEW t \in Threads, WriteSome(t) PROVE WireTypeOK'
  <2>1. wire' \in Seq([from : Threads \cup {IO}, frame : Nat, piece : Nat])
    BY <1>7, Put_Type DEF WriteSome
  <2>2. piece' \in [Threads \cup {IO} -> Nat]
    BY <1>7 DEF WriteSome
  <2> QED
    BY <1>7, <2>1, <2>2 DEF WriteSome
<1>8. ASSUME NEW t \in Threads, WriteFails(t) PROVE WireTypeOK'
  BY <1>8 DEF WriteFails, Return
<1>9. ASSUME NEW t \in Threads, Read(t) PROVE WireTypeOK'
  BY <1>9 DEF Read, IsNext
<1>10. ASSUME NEW t \in Threads, WriteBack(t) PROVE WireTypeOK'
  BY <1>10 DEF WriteBack, IsNext, Store
<1>11. ASSUME NEW t \in Threads, Changed(t) PROVE WireTypeOK'
  BY <1>11 DEF Changed, Return
<1>12. CASE Drop
  BY <1>12 DEF Drop
<1>13. CASE ReadFails
  BY <1>13 DEF ReadFails
<1>14. CASE Establish
  BY <1>14 DEF Establish
<1>15. CASE OnConnected
  BY <1>15 DEF OnConnected
<1>16. CASE Greet
  <2>1. wire' \in Seq([from : Threads \cup {IO}, frame : Nat, piece : Nat])
    BY <1>16, Put_Type DEF Greet
  <2>2. piece' \in [Threads \cup {IO} -> Nat]
    BY <1>16 DEF Greet
  <2>3. frames' \in [Threads \cup {IO} -> Nat]
    BY <1>16 DEF Greet
  <2>4. io' \in {"serve", "greet", "copy"}
    BY <1>16 DEF Greet
  <2> QED
    BY <2>1, <2>2, <2>3, <2>4
<1>17. CASE ServerConfig
  BY <1>17 DEF ServerConfig
<1>18. CASE Copy
  BY <1>18 DEF Copy, Store, Contexts
<1> QED
  BY <1>1, <1>2, <1>3, <1>4, <1>5, <1>6, <1>7, <1>8, <1>9, <1>10, <1>11, <1>12, <1>13,
     <1>14, <1>15, <1>16, <1>17, <1>18 DEF Next

LEMMA Next_FlagsType == FlagsTypeOK /\ [Next]_vars => FlagsTypeOK'
<1> SUFFICES ASSUME FlagsTypeOK, [Next]_vars PROVE FlagsTypeOK'
  OBVIOUS
<1> USE DEF FlagsTypeOK, mixerVars, callVars, wireVars, sendVars, ioVars
<1>1. CASE UNCHANGED vars
  BY <1>1 DEF vars
<1>2. ASSUME NEW t \in Threads, NEW c \in SUBSET Contexts, NEW l \in Levels,
             WriteMsg(t, c, l)
      PROVE FlagsTypeOK'
  BY <1>2 DEF WriteMsg, Call, Crowded
<1>3. ASSUME NEW t \in Threads, NEW c \in SUBSET Contexts, NEW l \in Levels,
             NEW p \in {"set", "unset"},
             Change(t, c, l, p)
      PROVE FlagsTypeOK'
  BY <1>3 DEF Change, Call, Crowded
<1>4. ASSUME NEW t \in Threads, Test(t) PROVE FlagsTypeOK'
  BY <1>4 DEF Test, IsNext, Crowded
<1>5. ASSUME NEW t \in Threads, Refuse(t) PROVE FlagsTypeOK'
  BY <1>5 DEF Refuse, Return, Crowded
<1>6. ASSUME NEW t \in Threads, Write(t) PROVE FlagsTypeOK'
  BY <1>6 DEF Write, Return, Crowded
<1>7. ASSUME NEW t \in Threads, WriteSome(t) PROVE FlagsTypeOK'
  BY <1>7 DEF WriteSome, Return, Put, Crowded
<1>8. ASSUME NEW t \in Threads, WriteFails(t) PROVE FlagsTypeOK'
  BY <1>8 DEF WriteFails, Return, Crowded
<1>9. ASSUME NEW t \in Threads, Read(t) PROVE FlagsTypeOK'
  BY <1>9 DEF Read, IsNext, Crowded
<1>10. ASSUME NEW t \in Threads, WriteBack(t) PROVE FlagsTypeOK'
  BY <1>10 DEF WriteBack, IsNext, Store, Crowded
<1>11. ASSUME NEW t \in Threads, Changed(t) PROVE FlagsTypeOK'
  BY <1>11 DEF Changed, Return, Crowded
<1>12. CASE Drop
  BY <1>12 DEF Drop, Crowded
<1>13. CASE ReadFails
  BY <1>13 DEF ReadFails, Crowded
<1>14. CASE Establish
  BY <1>14 DEF Establish, Crowded
<1>15. CASE OnConnected
  BY <1>15 DEF OnConnected, Crowded
<1>16. CASE Greet
  BY <1>16 DEF Greet, Put, Crowded
<1>17. CASE ServerConfig
  BY <1>17 DEF ServerConfig, Crowded
<1>18. CASE Copy
  BY <1>18 DEF Copy, Store, Contexts, Crowded
<1> QED
  BY <1>1, <1>2, <1>3, <1>4, <1>5, <1>6, <1>7, <1>8, <1>9, <1>10, <1>11, <1>12, <1>13,
     <1>14, <1>15, <1>16, <1>17, <1>18 DEF Next

LEMMA Init_Bounds == Init => BoundsOK
  BY SendingAssumption DEF Init, BoundsOK

LEMMA Next_Bounds == BoundsOK /\ [Next]_vars => BoundsOK'
<1> SUFFICES ASSUME BoundsOK, [Next]_vars PROVE BoundsOK'
  OBVIOUS
<1> USE SendingAssumption DEF BoundsOK, mixerVars, callVars, wireVars, sendVars, ioVars
<1>1. CASE UNCHANGED vars
  BY <1>1 DEF vars
<1>2. ASSUME NEW t \in Threads, NEW c \in SUBSET Contexts, NEW l \in Levels,
             WriteMsg(t, c, l)
      PROVE BoundsOK'
  BY <1>2 DEF WriteMsg, Call
<1>3. ASSUME NEW t \in Threads, NEW c \in SUBSET Contexts, NEW l \in Levels,
             NEW p \in {"set", "unset"},
             Change(t, c, l, p)
      PROVE BoundsOK'
  BY <1>3 DEF Change, Call
<1>4. ASSUME NEW t \in Threads, Test(t) PROVE BoundsOK'
  BY <1>4 DEF Test, IsNext
<1>5. ASSUME NEW t \in Threads, Refuse(t) PROVE BoundsOK'
  BY <1>5 DEF Refuse, Return
<1>6. ASSUME NEW t \in Threads, Write(t) PROVE BoundsOK'
  BY <1>6 DEF Write, Return
<1>7. ASSUME NEW t \in Threads, WriteSome(t) PROVE BoundsOK'
  BY <1>7 DEF WriteSome, Return, Put
<1>8. ASSUME NEW t \in Threads, WriteFails(t) PROVE BoundsOK'
  BY <1>8 DEF WriteFails, Return
<1>9. ASSUME NEW t \in Threads, Read(t) PROVE BoundsOK'
  BY <1>9 DEF Read, IsNext
<1>10. ASSUME NEW t \in Threads, WriteBack(t) PROVE BoundsOK'
  BY <1>10 DEF WriteBack, IsNext, Store
<1>11. ASSUME NEW t \in Threads, Changed(t) PROVE BoundsOK'
  BY <1>11 DEF Changed, Return
<1>12. CASE Drop
  BY <1>12 DEF Drop
<1>13. CASE ReadFails
  BY <1>13 DEF ReadFails
<1>14. CASE Establish
  BY <1>14 DEF Establish
<1>15. CASE OnConnected
  BY <1>15 DEF OnConnected
<1>16. CASE Greet
  BY <1>16 DEF Greet, Put
<1>17. CASE ServerConfig
  BY <1>17 DEF ServerConfig
<1>18. CASE Copy
  BY <1>18 DEF Copy, Store, Contexts
<1> QED
  BY <1>1, <1>2, <1>3, <1>4, <1>5, <1>6, <1>7, <1>8, <1>9, <1>10, <1>11, <1>12, <1>13,
     <1>14, <1>15, <1>16, <1>17, <1>18 DEF Next

(* Every variable has its type and the counters stay in their bounds. *)
THEOREM Types == Spec => []TypeOK
<1>1. Init => TypeOK
  <2>1. Init => FlagsTypeOK
    BY DEF Init, FlagsTypeOK
  <2> QED
    BY <2>1, Init_MixerType, Init_WireType, Init_Bounds DEF TypeOK
<1>2. TypeOK /\ [Next]_vars => TypeOK'
  BY Next_MixerType, Next_WireType, Next_FlagsType, Next_Bounds DEF TypeOK
<1> QED
  BY <1>1, <1>2, PTL DEF Spec

-----------------------------------------------------------------------------
(* Verdicts *)

(* What is true of a message on its way through the mixer: the history of   *)
(* the verdicts covers the one of this moment, and while it was never a     *)
(* refusal and nothing was taken out, a bit that lets it through is ahead   *)
(* of the loop.                                                             *)
Weighed(t) ==
  /\ pc[t] = "filter" =>
       /\ todo[t] \subseteq ctx[t]
       /\ Passes(mixer, ctx[t], lvl[t]) => t \in on
       /\ ~ Passes(mixer, ctx[t], lvl[t]) => t \in off
       /\ t \in off \cup taken \/ \E b \in todo[t] : lvl[t] \in mixer[b]
  /\ pc[t] \in {"send", "write"} => t \in on
  /\ pc[t] = "refused" => t \in off \cup taken

Judged == \A t \in Threads : Weighed(t)

LEMMA Init_Judged == Init => Judged
  BY DEF Init, Judged, Weighed

(* A message nobody touches *)
LEMMA Weighed_Kept ==
  ASSUME NEW u \in Threads, Weighed(u), UNCHANGED mixer,
         pc'[u] = pc[u], ctx'[u] = ctx[u], lvl'[u] = lvl[u], todo'[u] = todo[u],
         u \in on <=> u \in on', u \in off <=> u \in off', u \in taken <=> u \in taken'
  PROVE  Weighed(u)'
  BY DEF Weighed, Passes

(* A thread that is doing something else *)
LEMMA Weighed_Idle ==
  ASSUME NEW u \in Threads, pc'[u] \in {"idle", "set", "unset", "store", "clear"}
  PROVE  Weighed(u)'
  BY DEF Weighed

(* A store into the mixer, by whomever *)
LEMMA Weighed_Store ==
  ASSUME NEW u \in Threads, Weighed(u), MixerTypeOK,
         NEW b \in Contexts, NEW s \in SUBSET Levels, Store(b, s),
         pc'[u] = pc[u], ctx'[u] = ctx[u], lvl'[u] = lvl[u], todo'[u] = todo[u]
  PROVE  Weighed(u)'
<1>1. mixer' = [mixer EXCEPT ![b] = s] /\ mixer \in [Contexts -> SUBSET Levels]
  BY DEF Store, MixerTypeOK
<1>2. on \subseteq on' /\ off \subseteq off' /\ taken \subseteq taken'
  BY DEF Store
<1>3. CASE pc[u] = "filter"
  <2>1. todo[u] \subseteq ctx[u] /\ ctx[u] \subseteq Contexts
    BY <1>3 DEF Weighed, MixerTypeOK
  <2>2. IF Passes(mixer', ctx[u], lvl[u]) THEN u \in on' ELSE u \in off'
    BY <1>3 DEF Store, Filtering
  <2>3. u \in off' \cup taken' \/ \E a \in todo[u] : lvl[u] \in mixer'[a]
    <3> SUFFICES ASSUME u \notin off \cup taken, u \notin taken'
                 PROVE  \E a \in todo[u] : lvl[u] \in mixer'[a]
      BY <1>2
    <3>1. PICK a \in todo[u] : lvl[u] \in mixer[a]
      BY <1>3 DEF Weighed
    <3>2. a = b => lvl[u] \in s
      BY <1>3, <2>1, <3>1 DEF Store, Filtering
    <3> QED
      BY <1>1, <2>1, <3>1, <3>2
  <2>4. Passes(mixer', ctx'[u], lvl'[u]) <=> Passes(mixer', ctx[u], lvl[u])
    BY DEF Passes
  <2> QED
    BY <1>3, <2>1, <2>2, <2>3, <2>4 DEF Weighed
<1>4. CASE pc[u] # "filter"
  BY <1>2, <1>4 DEF Weighed
<1> QED
  BY <1>3, <1>4

LEMMA Next_Judged == MixerTypeOK /\ BoundsOK /\ Judged /\ [Next]_vars => Judged'
<1> SUFFICES ASSUME MixerTypeOK, BoundsOK, Judged, [Next]_vars, NEW u \in Threads
             PROVE  Weighed(u)'
  BY DEF Judged
<1>0. Weighed(u)
  BY DEF Judged
<1> USE <1>0 DEF mixerVars, callVars, wireVars, sendVars, ioVars
<1>1. CASE UNCHANGED vars
  BY <1>1, Weighed_Kept DEF vars
<1>2. ASSUME NEW t \in Threads, NEW c \in SUBSET Contexts, NEW l \in Levels,
             WriteMsg(t, c, l)
      PROVE Weighed(u)'
  <2>1. CASE u = t
    <3>1. /\ pc'[u] = "filter" /\ ctx'[u] = c /\ lvl'[u] = l /\ todo'[u] = c
          /\ mixer' = mixer
      BY <1>2, <2>1 DEF WriteMsg, Call, MixerTypeOK
    <3>2. IF Passes(mixer, c, l) THEN u \in on' ELSE u \in off'
      BY <1>2, <2>1 DEF WriteMsg
    <3> QED
      BY <3>1, <3>2 DEF Weighed, Passes
  <2>2. CASE u # t
    <3>1. /\ pc'[u] = pc[u] /\ ctx'[u] = ctx[u] /\ lvl'[u] = lvl[u] /\ todo'[u] = todo[u]
          /\ mixer' = mixer
      BY <1>2, <2>2 DEF WriteMsg, Call, MixerTypeOK
    <3>2. (u \in on <=> u \in on') /\ (u \in off <=> u \in off') /\ (u \in taken <=> u \in taken')
      BY <1>2, <2>2 DEF WriteMsg
    <3> QED
      BY <3>1, <3>2, Weighed_Kept
  <2> QED
    BY <2>1, <2>2
<1>3. ASSUME NEW t \in Threads, NEW c \in SUBSET Contexts, NEW l \in Levels,
             NEW p \in {"set", "unset"},
             Change(t, c, l, p)
      PROVE Weighed(u)'
  <2>1. CASE u = t
    BY <1>3, <2>1, Weighed_Idle DEF Change, Call, MixerTypeOK
  <2>2. CASE u # t
    <3>1. /\ pc'[u] = pc[u] /\ ctx'[u] = ctx[u] /\ lvl'[u] = lvl[u] /\ todo'[u] = todo[u]
          /\ UNCHANGED mixerVars
      BY <1>3, <2>2 DEF Change, Call, MixerTypeOK
    <3> QED
      BY <3>1, Weighed_Kept
  <2> QED
    BY <2>1, <2>2
<1>4. ASSUME NEW t \in Threads, Test(t) PROVE Weighed(u)'
  <2>0. UNCHANGED <<mixerVars, ctx, lvl>>
    BY <1>4 DEF Test
  <2>1. PICK b \in Contexts :
          /\ b \in todo[t]
          /\ IF lvl[t] \in mixer[b]
             THEN pc' = [pc EXCEPT ![t] = "send"] /\ UNCHANGED todo
             ELSE todo' = [todo EXCEPT ![t] = @ \ {b}] /\ UNCHANGED pc
    BY <1>4 DEF Test, IsNext
  <2>2. CASE u = t /\ lvl[t] \in mixer[b]
    <3>1. pc'[u] = "send" /\ pc[u] = "filter"
      BY <1>4, <2>1, <2>2 DEF Test, MixerTypeOK
    <3>2. Passes(mixer, ctx[u], lvl[u])
      BY <2>1, <2>2, <3>1 DEF Weighed, Passes
    <3> QED
      BY <2>0, <3>1, <3>2 DEF Weighed
  <2>3. CASE u = t /\ lvl[t] \notin mixer[b]
    <3>1. pc'[u] = "filter" /\ pc[u] = "filter" /\ todo'[u] = todo[u] \ {b}
      BY <1>4, <2>1, <2>3 DEF Test, MixerTypeOK
    <3> QED
      BY <2>0, <2>3, <3>1 DEF Weighed, Passes
  <2>4. CASE u # t
    <3>1. pc'[u] = pc[u] /\ todo'[u] = todo[u]
      BY <2>1, <2>4 DEF MixerTypeOK
    <3> QED
      BY <2>0, <3>1, Weighed_Kept
  <2> QED
    BY <2>2, <2>3, <2>4
<1>5. ASSUME NEW t \in Threads, Refuse(t) PROVE Weighed(u)'
  <2>1. CASE u = t
    BY <1>5, <2>1 DEF Refuse, Return, Weighed, MixerTypeOK
  <2>2. CASE u # t
    BY <1>5, <2>2, Weighed_Kept DEF Refuse, Return, MixerTypeOK
  <2> QED
    BY <2>1, <2>2
<1>6. ASSUME NEW t \in Threads, Write(t) PROVE Weighed(u)'
  <2>1. CASE u = t
    BY <1>6, <2>1 DEF Write, Return, Weighed, MixerTypeOK
  <2>2. CASE u # t
    BY <1>6, <2>2, Weighed_Kept DEF Write, Return, MixerTypeOK
  <2> QED
    BY <2>1, <2>2
<1>7. ASSUME NEW t \in Threads, WriteSome(t) PROVE Weighed(u)'
  <2>1. CASE u = t
    BY <1>7, <2>1 DEF WriteSome, Return, Weighed, MixerTypeOK
  <2>2. CASE u # t
    BY <1>7, <2>2, Weighed_Kept DEF WriteSome, Return, MixerTypeOK
  <2> QED
    BY <2>1, <2>2
<1>8. ASSUME NEW t \in Threads, WriteFails(t) PROVE Weighed(u)'
  <2>1. CASE u = t
    BY <1>8, <2>1 DEF WriteFails, Return, Weighed, MixerTypeOK
  <2>2. CASE u # t
    BY <1>8, <2>2, Weighed_Kept DEF WriteFails, Return, MixerTypeOK
  <2> QED
    BY <2>1, <2>2
<1>9. ASSUME NEW t \in Threads, Read(t) PROVE Weighed(u)'
  <2>1. CASE u = t
    BY <1>9, <2>1, Weighed_Idle DEF Read, MixerTypeOK
  <2>2. CASE u # t
    BY <1>9, <2>2, Weighed_Kept DEF Read, MixerTypeOK
  <2> QED
    BY <2>1, <2>2
<1>10. ASSUME NEW t \in Threads, WriteBack(t) PROVE Weighed(u)'
  <2>1. CASE u = t
    BY <1>10, <2>1, Weighed_Idle DEF WriteBack, MixerTypeOK
  <2>2. CASE u # t
    <3>1. PICK b \in Contexts :
            /\ Store(b, IF pc[t] = "store" THEN tmp[t] \cup {lvl[t]} ELSE tmp[t] \ {lvl[t]})
            /\ todo' = [todo EXCEPT ![t] = @ \ {b}]
      BY <1>10 DEF WriteBack
    <3>2. (IF pc[t] = "store" THEN tmp[t] \cup {lvl[t]} ELSE tmp[t] \ {lvl[t]}) \in SUBSET Levels
      BY DEF MixerTypeOK
    <3>3. pc'[u] = pc[u] /\ ctx'[u] = ctx[u] /\ lvl'[u] = lvl[u] /\ todo'[u] = todo[u]
      BY <1>10, <2>2, <3>1 DEF WriteBack, MixerTypeOK
    <3> QED
      BY <3>1, <3>2, <3>3, Weighed_Store
  <2> QED
    BY <2>1, <2>2
<1>11. ASSUME NEW t \in Threads, Changed(t) PROVE Weighed(u)'
  <2>1. CASE u = t
    BY <1>11, <2>1, Weighed_Idle DEF Changed, Return, MixerTypeOK
  <2>2. CASE u # t
    BY <1>11, <2>2, Weighed_Kept DEF Changed, Return, MixerTypeOK
  <2> QED
    BY <2>1, <2>2
<1>12. CASE Drop
  BY <1>12, Weighed_Kept DEF Drop
<1>13. CASE ReadFails
  BY <1>13, Weighed_Kept DEF ReadFails
<1>14. CASE Establish
  BY <1>14, Weighed_Kept DEF Establish
<1>15. CASE OnConnected
  BY <1>15, Weighed_Kept DEF OnConnected
<1>16. CASE Greet
  BY <1>16, Weighed_Kept DEF Greet
<1>17. CASE ServerConfig
  BY <1>17, Weighed_Kept DEF ServerConfig
<1>18. CASE Copy
  <2>1. CASE cursor < Bits
    <3>1. Store(cursor + 1, answer[cursor + 1]) /\ UNCHANGED <<pc, ctx, lvl, todo>>
      BY <1>18, <2>1 DEF Copy
    <3>2. cursor + 1 \in Contexts
      BY <2>1, SendingAssumption DEF BoundsOK, Contexts
    <3>3. answer[cursor + 1] \in SUBSET Levels
      BY <3>2 DEF MixerTypeOK
    <3> QED
      BY <3>1, <3>2, <3>3, Weighed_Store
  <2>2. CASE ~ (cursor < Bits)
    BY <1>18, <2>2, Weighed_Kept DEF Copy
  <2> QED
    BY <2>1, <2>2
<1> QED
  BY <1>1, <1>2, <1>3, <1>4, <1>5, <1>6, <1>7, <1>8, <1>9, <1>10, <1>11, <1>12, <1>13,
     <1>14, <1>15, <1>16, <1>17, <1>18 DEF Next

(* A message that goes on was let through by the mixer as it stood at some   *)
(* moment of the call, and one that was refused was not, or its level was    *)
(* taken out meanwhile.                                                      *)
THEOREM VerdictsFair == Spec => []VerdictFair
<1>1. Init => MixerTypeOK /\ BoundsOK /\ Judged
  BY Init_MixerType, Init_Bounds, Init_Judged
<1>2. MixerTypeOK /\ BoundsOK /\ Judged /\ [Next]_vars => (MixerTypeOK /\ BoundsOK /\ Judged)'
  BY Next_MixerType, Next_Bounds, Next_Judged
<1>3. Judged => VerdictFair
  BY DEF Judged, Weighed, VerdictFair
<1> QED
  BY <1>1, <1>2, <1>3, PTL DEF Spec

-----------------------------------------------------------------------------
(* The wire *)

Busy == Writers(pc, io)

(* What a thread has put on the wire is not past where it is. *)
Behind ==
  \A i \in DOMAIN wire : wire[i].from \in Threads =>
    /\ wire[i].frame <= frames[wire[i].from]
    /\ wire[i].frame = frames[wire[i].from] /\ pc[wire[i].from] = "write"
         => wire[i].piece <= piece[wire[i].from]

InOrder ==
  \A i, j \in DOMAIN wire :
    i < j /\ wire[i].from = wire[j].from /\ wire[i].from \in Threads => Later(wire[i], wire[j])

AtEnd == wire # <<>> /\ wire[Len(wire)].piece = Pieces

(* The wire ends where w, which is in the middle of a frame, is to go on. *)
Mine(w) ==
  /\ piece[w] < Pieces
  /\ piece[w] > 0 => /\ wire # <<>>
                     /\ wire[Len(wire)] = [from |-> w, frame |-> frames[w], piece |-> piece[w]]
  /\ piece[w] = 0 => AtEnd \/ (w = IO /\ frames[IO] = 1 /\ wire = <<>>)

(* While no two threads were inside Write on a connection, nothing is sent  *)
(* before the configuration, and whoever sends finds the wire as it left it.*)
Alone ==
  /\ \A s, t \in Busy : s = t
  /\ up /\ ~ connected => wire = <<>> /\ Busy = {}
  /\ up /\ connected /\ Busy = {} => AtEnd
  /\ up => \A w \in Busy : Mine(w)

Framed == ~ crowded => Alone /\ WholeFrames(wire)


LEMMA Wire_Facts ==
  ASSUME WireTypeOK
  PROVE  /\ Len(wire) \in Nat /\ DOMAIN wire = 1 .. Len(wire)
         /\ wire # <<>> <=> Len(wire) > 0
         /\ \A i \in DOMAIN wire : wire[i].frame \in Nat /\ wire[i].piece \in Nat
<1> DEFINE R == [from : Threads \cup {IO}, frame : Nat, piece : Nat]
<1>1. wire \in Seq(R)
  BY DEF WireTypeOK
<1>2. ASSUME NEW r \in R PROVE r.frame \in Nat /\ r.piece \in Nat
  OBVIOUS
<1> HIDE DEF R
<1>3. /\ Len(wire) \in Nat /\ DOMAIN wire = 1 .. Len(wire)
      /\ \A i \in DOMAIN wire : wire[i] \in R
  BY <1>1
<1>4. wire # <<>> <=> Len(wire) > 0
  BY <1>1, EmptySeq
<1> QED
  BY <1>2, <1>3, <1>4

(* The wire after a piece of s *)
LEMMA Wire_Grown ==
  ASSUME WireTypeOK, NEW s \in Threads \cup {IO}, Put(s)
  PROVE  /\ Len(wire') = Len(wire) + 1 /\ DOMAIN wire' = 1 .. Len(wire) + 1 /\ wire' # <<>>
         /\ \A i \in DOMAIN wire : wire'[i] = wire[i]
         /\ wire'[Len(wire) + 1].from = s
         /\ wire'[Len(wire) + 1].frame = frames[s]
         /\ wire'[Len(wire) + 1].piece = piece[s] + 1
         /\ wire'[Len(wire) + 1] = [from |-> s, frame |-> frames[s], piece |-> piece[s] + 1]
<1> DEFINE R == [from : Threads \cup {IO}, frame : Nat, piece : Nat]
           e == [from |-> s, frame |-> frames[s], piece |-> piece[s] + 1]
<1>1. wire \in Seq(R) /\ wire' = Append(wire, e)
  BY DEF WireTypeOK, Put
<1>2. frames[s] \in Nat /\ piece[s] + 1 \in Nat
  BY DEF WireTypeOK
<1>3. e \in R
  BY <1>2
<1>4. e.from = s /\ e.frame = frames[s] /\ e.piece = piece[s] + 1
  OBVIOUS
<1> HIDE DEF R, e
<1>5. /\ wire' \in Seq(R) /\ wire' # <<>> /\ Len(wire') = Len(wire) + 1
      /\ \A i \in 1 .. Len(wire) : wire'[i] = wire[i]
      /\ wire'[Len(wire) + 1] = e
  BY <1>1, <1>3, AppendProperties
<1>6. DOMAIN wire = 1 .. Len(wire) /\ DOMAIN wire' = 1 .. Len(wire')
  BY <1>1, <1>5
<1> QED
  BY <1>4, <1>5, <1>6 DEF e

LEMMA Behind_Kept ==
  ASSUME Behind, UNCHANGED <<wire, frames, piece>>,
         \A t \in Threads : pc'[t] = "write" => pc[t] = "write"
  PROVE  Behind'
  BY DEF Behind

(* A piece comes after everything its thread has sent. *)
LEMMA Put_InOrder ==
  ASSUME WireTypeOK, Behind, InOrder, NEW s \in Threads \cup {IO}, Put(s),
         s \in Threads => pc[s] = "write"
  PROVE  InOrder'
<1> SUFFICES ASSUME NEW i \in DOMAIN wire', NEW j \in DOMAIN wire', i < j,
                    wire'[i].from = wire'[j].from, wire'[i].from \in Threads
             PROVE  Later(wire'[i], wire'[j])
  BY DEF InOrder
<1>a. Len(wire) \in Nat /\ DOMAIN wire = 1 .. Len(wire)
  BY Wire_Facts
<1>b. DOMAIN wire' = 1 .. Len(wire) + 1 /\ \A k \in DOMAIN wire : wire'[k] = wire[k]
  BY Wire_Grown
<1>1. i \in 1 .. Len(wire) /\ i \in Nat /\ j \in Nat
  <2>1. i \in 1 .. Len(wire) + 1 /\ j \in 1 .. Len(wire) + 1
    BY <1>b
  <2> QED
    BY ONLY <1>a, <2>1, i < j
<1>2. CASE j \in DOMAIN wire
  <2>1. wire'[i] = wire[i] /\ wire'[j] = wire[j]
    BY <1>a, <1>b, <1>1, <1>2
  <2> QED
    BY <1>a, <1>1, <1>2, <2>1 DEF InOrder
<1>3. CASE j \notin DOMAIN wire
  <2>1. j = Len(wire) + 1
    BY <1>a, <1>b, <1>3
  <2>2. wire'[i] = wire[i] /\ wire'[j].from = s
    BY <1>a, <1>b, <1>1, <2>1, Wire_Grown
  <2>3. /\ s \in Threads /\ wire[i].from = s /\ pc[s] = "write"
    BY <2>2
  <2>4. wire[i].frame <= frames[s] /\ (wire[i].frame = frames[s] => wire[i].piece <= piece[s])
    BY <1>a, <1>1, <2>3 DEF Behind
  <2>5. /\ wire[i].frame \in Nat /\ wire[i].piece \in Nat
        /\ frames[s] \in Nat /\ piece[s] \in Nat
    BY <1>a, <1>1, Wire_Facts DEF WireTypeOK
  <2>6. wire'[j].frame = frames[s] /\ wire'[j].piece = piece[s] + 1
    BY <2>1, Wire_Grown
  <2> QED
    BY <2>2, <2>4, <2>5, <2>6 DEF Later
<1> QED
  BY <1>2, <1>3

(* A piece of the thread whose turn it is leaves the frames whole. *)
LEMMA Put_Whole ==
  ASSUME WireTypeOK, NEW s \in Threads \cup {IO}, Put(s), Mine(s), WholeFrames(wire)
  PROVE  WholeFrames(wire')
<1>1. /\ Len(wire) \in Nat /\ DOMAIN wire = 1 .. Len(wire)
      /\ wire # <<>> <=> Len(wire) > 0
  BY Wire_Facts
<1>2. piece[s] \in Nat /\ frames[s] \in Nat
  BY DEF WireTypeOK
<1> SUFFICES ASSUME NEW i \in DOMAIN wire'
             PROVE  IF i = 1 THEN wire'[i] = [from |-> IO, frame |-> 1, piece |-> 1]
                    ELSE IF wire'[i].piece = 1
                         THEN wire'[i - 1].piece = Pieces
                         ELSE /\ wire'[i].from = wire'[i - 1].from
                              /\ wire'[i].frame = wire'[i - 1].frame
                              /\ wire'[i].piece = wire'[i - 1].piece + 1
  BY DEF WholeFrames
<1>a. /\ DOMAIN wire' = 1 .. Len(wire) + 1 /\ \A k \in DOMAIN wire : wire'[k] = wire[k]
  BY Wire_Grown
<1>3. CASE i \in DOMAIN wire
  <2>0. i # 1 => i - 1 \in DOMAIN wire
    BY <1>1, <1>3
  <2>1. wire'[i] = wire[i] /\ (i # 1 => i - 1 \in DOMAIN wire /\ wire'[i - 1] = wire[i - 1])
    BY <1>a, <1>3, <2>0
  <2> QED
    BY <1>3, <2>1 DEF WholeFrames
<1>4. CASE i \notin DOMAIN wire
  <2>1. i = Len(wire) + 1
    BY <1>1, <1>a, <1>4
  <2>2. CASE wire = <<>>
    <3>1. s = IO /\ frames[IO] = 1 /\ piece[s] = 0
      BY <1>2, <2>2 DEF Mine, AtEnd
    <3> QED
      BY <1>1, <2>1, <2>2, <3>1, Wire_Grown
  <2>3. CASE wire # <<>>
    <3>0. i # 1 /\ i - 1 = Len(wire) /\ Len(wire) \in DOMAIN wire
      BY <1>1, <2>1, <2>3
    <3>1. i # 1 /\ wire'[i - 1] = wire[Len(wire)]
      BY <1>a, <3>0
    <3>2. CASE piece[s] = 0
      <4>1. wire[Len(wire)].piece = Pieces
        BY <2>3, <3>2 DEF Mine, AtEnd
      <4>0. wire'[i].piece = piece[s] + 1
        BY <2>1, Wire_Grown
      <4>2. wire'[i].piece = 1
        BY <3>2, <4>0
      <4> QED
        BY <3>1, <4>1, <4>2
    <3>3. CASE piece[s] > 0
      <4>1. wire[Len(wire)] = [from |-> s, frame |-> frames[s], piece |-> piece[s]]
        BY <3>3 DEF Mine
      <4>2. /\ wire[Len(wire)].from = s /\ wire[Len(wire)].frame = frames[s]
            /\ wire[Len(wire)].piece = piece[s]
        BY <4>1
      <4>3. /\ wire'[i].from = s /\ wire'[i].frame = frames[s] /\ wire'[i].piece = piece[s] + 1
        BY <2>1, Wire_Grown
      <4>4. wire'[i].piece # 1
        BY <1>2, <3>3, <4>3
      <4> QED
        BY <3>1, <4>2, <4>3, <4>4
    <3> QED
      BY <1>2, <3>2, <3>3
  <2> QED
    BY <2>2, <2>3
<1> QED
  BY <1>3, <1>4

(* Steps after which everybody is where he was, or has stopped writing on a *)
(* broken socket                                                            *)
LEMMA Framed_Kept ==
  ASSUME Framed, UNCHANGED <<wire, up, connected, frames, piece, crowded>>, Busy' = Busy
  PROVE  Framed'
<1>1. \A w : Mine(w)' <=> Mine(w)
  BY DEF Mine, AtEnd
<1>2. AtEnd' <=> AtEnd
  BY DEF AtEnd
<1> QED
  BY <1>1, <1>2 DEF Framed, Alone

LEMMA Framed_Broken ==
  ASSUME Framed, ~ up', UNCHANGED <<wire, crowded>>, Busy' \subseteq Busy
  PROVE  Framed'
  BY DEF Framed, Alone

LEMMA Next_Behind == MixerTypeOK /\ WireTypeOK /\ Behind /\ [Next]_vars => Behind'
<1> SUFFICES ASSUME MixerTypeOK, WireTypeOK, Behind, [Next]_vars PROVE Behind'
  OBVIOUS
<1> USE SendingAssumption DEF mixerVars, callVars, wireVars, sendVars, ioVars
<1>1. CASE UNCHANGED vars
  BY <1>1, Behind_Kept DEF vars, MixerTypeOK
<1>2. ASSUME NEW t \in Threads, NEW c \in SUBSET Contexts, NEW l \in Levels,
             WriteMsg(t, c, l)
      PROVE Behind'
  BY <1>2, Behind_Kept DEF WriteMsg, Call, MixerTypeOK
<1>3. ASSUME NEW t \in Threads, NEW c \in SUBSET Contexts, NEW l \in Levels,
             NEW p \in {"set", "unset"},
             Change(t, c, l, p)
      PROVE Behind'
  BY <1>3, Behind_Kept DEF Change, Call, MixerTypeOK
<1>4. ASSUME NEW t \in Threads, Test(t) PROVE Behind'
  BY <1>4, Behind_Kept DEF Test, MixerTypeOK
<1>5. ASSUME NEW t \in Threads, Refuse(t) PROVE Behind'
  BY <1>5, Behind_Kept DEF Refuse, Return, MixerTypeOK
<1>6. ASSUME NEW t \in Threads, Write(t) PROVE Behind'
  <2>1. CASE connected
    <3> SUFFICES ASSUME NEW i \in DOMAIN wire', wire'[i].from \in Threads
                 PROVE  LET u == wire'[i].from IN
                        /\ wire'[i].frame <= frames'[u]
                        /\ wire'[i].frame = frames'[u] /\ pc'[u] = "write"
                             => wire'[i].piece <= piece'[u]
      BY DEF Behind
    <3> DEFINE u == wire[i].from
    <3>1. wire' = wire /\ i \in DOMAIN wire /\ u \in Threads
      BY <1>6 DEF Write
    <3>2. /\ wire[i].frame <= frames[u]
          /\ wire[i].frame = frames[u] /\ pc[u] = "write" => wire[i].piece <= piece[u]
      BY <3>1 DEF Behind
    <3>3. wire[i].frame \in Nat /\ wire[i].piece \in Nat /\ frames[u] \in Nat
      BY <3>1, Wire_Facts DEF WireTypeOK
    <3>4. u = t => frames'[u] = frames[u] + 1
      BY <1>6, <2>1, <3>1 DEF Write, WireTypeOK
    <3>5. u # t => frames'[u] = frames[u] /\ piece'[u] = piece[u] /\ pc'[u] = pc[u]
      BY <1>6, <2>1, <3>1 DEF Write, WireTypeOK, MixerTypeOK
    <3> HIDE DEF u
    <3>6. /\ wire[i].frame <= frames'[u]
          /\ wire[i].frame = frames'[u] /\ pc'[u] = "write" => wire[i].piece <= piece'[u]
      BY <3>2, <3>3, <3>4, <3>5
    <3> QED
      BY <3>1, <3>6 DEF u
  <2>2. CASE ~ connected
    BY <1>6, <2>2, Behind_Kept DEF Write, Return, MixerTypeOK
  <2> QED
    BY <2>1, <2>2
<1>7. ASSUME NEW t \in Threads, WriteSome(t) PROVE Behind'
  <2> SUFFICES ASSUME NEW i \in DOMAIN wire', wire'[i].from \in Threads
               PROVE  LET u == wire'[i].from IN
                      /\ wire'[i].frame <= frames'[u]
                      /\ wire'[i].frame = frames'[u] /\ pc'[u] = "write"
                           => wire'[i].piece <= piece'[u]
    BY DEF Behind
  <2>1. Put(t) /\ t \in Threads \cup {IO} /\ pc[t] = "write"
    BY <1>7 DEF WriteSome
  <2>2. frames' = frames /\ frames[t] \in Nat /\ piece[t] \in Nat /\ piece'[t] = piece[t] + 1
    BY <1>7 DEF WriteSome, WireTypeOK
  <2>3. CASE i \in DOMAIN wire
    <3> DEFINE u == wire[i].from
    <3>1. wire'[i] = wire[i] /\ u \in Threads
      BY <2>1, <2>3, Wire_Grown
    <3>2. /\ wire[i].frame <= frames[u]
          /\ wire[i].frame = frames[u] /\ pc[u] = "write" => wire[i].piece <= piece[u]
      BY <2>3, <3>1 DEF Behind
    <3>3. wire[i].piece \in Nat
      BY <2>3, Wire_Facts
    <3>4. u # t => piece'[u] = piece[u] /\ pc'[u] = pc[u]
      BY <1>7, <3>1 DEF WriteSome, Return, WireTypeOK, MixerTypeOK
    <3>5. u = t => piece[u] <= piece'[u] /\ piece'[u] \in Nat /\ piece[u] \in Nat /\ pc[u] = "write"
      BY <2>1, <2>2
    <3> HIDE DEF u
    <3>6. /\ wire[i].frame <= frames[u]
          /\ wire[i].frame = frames[u] /\ pc'[u] = "write" => wire[i].piece <= piece'[u]
      BY <3>2, <3>3, <3>4, <3>5
    <3> QED
      BY <2>2, <3>1, <3>6 DEF u
  <2>4. CASE i \notin DOMAIN wire
    <3>a. Len(wire) \in Nat /\ DOMAIN wire = 1 .. Len(wire)
      BY Wire_Facts
    <3>b. DOMAIN wire' = 1 .. Len(wire) + 1
      BY <2>1, Wire_Grown
    <3>1. i = Len(wire) + 1
      BY <2>4, <3>a, <3>b
    <3>2. wire'[i].from = t /\ wire'[i].frame = frames[t] /\ wire'[i].piece = piece[t] + 1
      BY <2>1, <3>1, Wire_Grown
    <3> QED
      BY <2>2, <3>2
  <2> QED
    BY <2>3, <2>4
<1>8. ASSUME NEW t \in Threads, WriteFails(t) PROVE Behind'
  BY <1>8, Behind_Kept DEF WriteFails, Return, MixerTypeOK
<1>9. ASSUME NEW t \in Threads, Read(t) PROVE Behind'
  BY <1>9, Behind_Kept DEF Read, MixerTypeOK
<1>10. ASSUME NEW t \in Threads, WriteBack(t) PROVE Behind'
  BY <1>10, Behind_Kept DEF WriteBack, Store, MixerTypeOK
<1>11. ASSUME NEW t \in Threads, Changed(t) PROVE Behind'
  BY <1>11, Behind_Kept DEF Changed, Return, MixerTypeOK
<1>12. CASE Drop
  BY <1>12, Behind_Kept DEF Drop, MixerTypeOK
<1>13. CASE ReadFails
  BY <1>13, Behind_Kept DEF ReadFails, MixerTypeOK
<1>14. CASE Establish
  BY <1>14 DEF Establish, Behind
<1>15. CASE OnConnected
  BY <1>15 DEF OnConnected, Behind, WireTypeOK
<1>16. CASE Greet
  <2>1. ASSUME NEW t \in Threads
        PROVE  frames'[t] = frames[t] /\ piece'[t] = piece[t] /\ pc'[t] = pc[t]
    BY <1>16, <2>1 DEF Greet, WireTypeOK
  <2>2. CASE up
    <3>1. Put(IO) /\ IO \in Threads \cup {IO}
      BY <1>16, <2>2 DEF Greet
    <3>2. ASSUME NEW i \in DOMAIN wire', wire'[i].from \in Threads
          PROVE  i \in DOMAIN wire /\ wire'[i] = wire[i]
      <4>1. i # Len(wire) + 1
        BY <3>1, <3>2, Wire_Grown
      <4>2. Len(wire) \in Nat /\ DOMAIN wire = 1 .. Len(wire)
        BY Wire_Facts
      <4>3. DOMAIN wire' = 1 .. Len(wire) + 1 /\ \A k \in DOMAIN wire : wire'[k] = wire[k]
        BY <3>1, Wire_Grown
      <4>4. i \in DOMAIN wire
        BY <4>1, <4>2, <4>3
      <4> QED
        BY <4>3, <4>4
    <3> QED
      BY <2>1, <3>2 DEF Behind
  <2>3. CASE ~ up
    BY <1>16, <2>1, <2>3 DEF Greet, Behind
  <2> QED
    BY <2>2, <2>3
<1>17. CASE ServerConfig
  BY <1>17, Behind_Kept DEF ServerConfig, MixerTypeOK
<1>18. CASE Copy
  BY <1>18, Behind_Kept DEF Copy, Store, MixerTypeOK
<1> QED
  BY <1>1, <1>2, <1>3, <1>4, <1>5, <1>6, <1>7, <1>8, <1>9, <1>10, <1>11, <1>12, <1>13,
     <1>14, <1>15, <1>16, <1>17, <1>18 DEF Next

LEMMA Next_InOrder == WireTypeOK /\ Behind /\ InOrder /\ [Next]_vars => InOrder'
<1> SUFFICES ASSUME WireTypeOK, Behind, InOrder, [Next]_vars PROVE InOrder'
  OBVIOUS
<1> USE SendingAssumption DEF mixerVars, callVars, wireVars, sendVars, ioVars
<1>1. CASE UNCHANGED vars
  BY <1>1 DEF vars, InOrder
<1>2. ASSUME NEW t \in Threads, NEW c \in SUBSET Contexts, NEW l \in Levels,
             WriteMsg(t, c, l)
      PROVE InOrder'
  BY <1>2 DEF WriteMsg, Call, InOrder
<1>3. ASSUME NEW t \in Threads, NEW c \in SUBSET Contexts, NEW l \in Levels,
             NEW p \in {"set", "unset"},
             Change(t, c, l, p)
      PROVE InOrder'
  BY <1>3 DEF Change, Call, InOrder
<1>4. ASSUME NEW t \in Threads, Test(t) PROVE InOrder'
  BY <1>4 DEF Test, InOrder
<1>5. ASSUME NEW t \in Threads, Refuse(t) PROVE InOrder'
  BY <1>5 DEF Refuse, Return, InOrder
<1>6. ASSUME NEW t \in Threads, Write(t) PROVE InOrder'
  BY <1>6 DEF Write, Return, InOrder
<1>7. ASSUME NEW t \in Threads, WriteSome(t) PROVE InOrder'
  BY <1>7, Put_InOrder DEF WriteSome
<1>8. ASSUME NEW t \in Threads, WriteFails(t) PROVE InOrder'
  BY <1>8 DEF WriteFails, Return, InOrder
<1>9. ASSUME NEW t \in Threads, Read(t) PROVE InOrder'
  BY <1>9 DEF Read, InOrder
<1>10. ASSUME NEW t \in Threads, WriteBack(t) PROVE InOrder'
  BY <1>10 DEF WriteBack, Store, InOrder
<1>11. ASSUME NEW t \in Threads, Changed(t) PROVE InOrder'
  BY <1>11 DEF Changed, Return, InOrder
<1>12. CASE Drop
  BY <1>12 DEF Drop, InOrder
<1>13. CASE ReadFails
  BY <1>13 DEF ReadFails, InOrder
<1>14. CASE Establish
  BY <1>14 DEF Establish, InOrder
<1>15. CASE OnConnected
  BY <1>15 DEF OnConnected, InOrder
<1>16. CASE Greet
  <2>1. CASE up
    BY <1>16, <2>1, Put_InOrder DEF Greet
  <2>2. CASE ~ up
    BY <1>16, <2>2 DEF Greet, InOrder
  <2> QED
    BY <2>1, <2>2
<1>17. CASE ServerConfig
  BY <1>17 DEF ServerConfig, InOrder
<1>18. CASE Copy
  BY <1>18 DEF Copy, Store, InOrder
<1> QED
  BY <1>1, <1>2, <1>3, <1>4, <1>5, <1>6, <1>7, <1>8, <1>9, <1>10, <1>11, <1>12, <1>13,
     <1>14, <1>15, <1>16, <1>17, <1>18 DEF Next

(* Whoever has the turn has put a piece of his frame on the wire. *)
LEMMA Put_Mine ==
  ASSUME WireTypeOK, NEW s \in Threads \cup {IO}, Put(s), Mine(s)
  PROVE  /\ piece[s] + 1 = Pieces => AtEnd'
         /\ piece[s] + 1 # Pieces /\ frames' = frames /\ piece' = [piece EXCEPT ![s] = @ + 1] => Mine(s)'
<1>1. piece[s] \in Nat /\ piece[s] < Pieces /\ Pieces \in Nat
  BY SendingAssumption DEF WireTypeOK, Mine
<1>2. /\ wire' # <<>> /\ Len(wire') = Len(wire) + 1
      /\ wire'[Len(wire')].piece = piece[s] + 1
      /\ wire'[Len(wire')] = [from |-> s, frame |-> frames[s], piece |-> piece[s] + 1]
  BY Wire_Grown
<1>3. piece[s] + 1 = Pieces => AtEnd'
  BY <1>2 DEF AtEnd
<1>4. ASSUME piece[s] + 1 # Pieces, frames' = frames, piece' = [piece EXCEPT ![s] = @ + 1]
      PROVE  Mine(s)'
  <2>1. piece'[s] = piece[s] + 1
    BY <1>4 DEF WireTypeOK
  <2>2. piece'[s] < Pieces /\ piece'[s] # 0
    BY <1>1, <1>4, <2>1
  <2> QED
    BY <1>2, <1>4, <2>1, <2>2 DEF Mine
<1> QED
  BY <1>3, <1>4

LEMMA Next_Framed == MixerTypeOK /\ WireTypeOK /\ FlagsTypeOK /\ Framed /\ [Next]_vars => Framed'
<1> SUFFICES ASSUME MixerTypeOK, WireTypeOK, FlagsTypeOK, Framed, [Next]_vars PROVE Framed'
  OBVIOUS
<1> USE SendingAssumption DEF mixerVars, callVars, wireVars, sendVars, ioVars
<1>0. Busy = {t \in Threads : pc[t] = "write"} \cup (IF io = "greet" THEN {IO} ELSE {})
  BY DEF Busy, Writers
<1>1. CASE UNCHANGED vars
  BY <1>1, Framed_Kept DEF vars, Busy, Writers
<1>2. ASSUME NEW t \in Threads, NEW c \in SUBSET Contexts, NEW l \in Levels,
             WriteMsg(t, c, l)
      PROVE Framed'
  BY <1>2, Framed_Kept DEF WriteMsg, Call, Busy, Writers, MixerTypeOK
<1>3. ASSUME NEW t \in Threads, NEW c \in SUBSET Contexts, NEW l \in Levels,
             NEW p \in {"set", "unset"},
             Change(t, c, l, p)
      PROVE Framed'
  BY <1>3, Framed_Kept DEF Change, Call, Busy, Writers, MixerTypeOK
<1>4. ASSUME NEW t \in Threads, Test(t) PROVE Framed'
  BY <1>4, Framed_Kept DEF Test, Busy, Writers, MixerTypeOK
<1>5. ASSUME NEW t \in Threads, Refuse(t) PROVE Framed'
  BY <1>5, Framed_Kept DEF Refuse, Return, Busy, Writers, MixerTypeOK
<1>6. ASSUME NEW t \in Threads, Write(t) PROVE Framed'
  <2>1. CASE connected
    <3> SUFFICES ASSUME ~ crowded' PROVE Alone' /\ WholeFrames(wire)'
      BY DEF Framed
    <3>1. ~ crowded /\ ~ Crowded(pc', io') /\ UNCHANGED <<wire, up, connected, io>>
      BY <1>6, <2>1 DEF Write
    <3>2. Alone /\ WholeFrames(wire)
      BY <3>1 DEF Framed
    <3>3. pc' = [pc EXCEPT ![t] = "write"] /\ pc[t] = "send"
      BY <1>6, <2>1 DEF Write
    <3>4. Busy' = Busy \cup {t} /\ t \notin Busy
      BY <3>1, <3>3 DEF Busy, Writers, MixerTypeOK
    <3>5. \A a, b \in Busy' : a = b
      BY <3>1 DEF Crowded, Busy
    <3>6. Busy = {} /\ Busy' = {t}
      BY <3>4, <3>5
    <3>7. up => AtEnd
      BY <2>1, <3>2, <3>6 DEF Alone
    <3>8. piece'[t] = 0
      BY <1>6, <2>1 DEF Write, WireTypeOK
    <3>9. up => Mine(t)'
      BY <3>1, <3>7, <3>8 DEF Mine, AtEnd
    <3> QED
      BY <2>1, <3>1, <3>2, <3>5, <3>6, <3>9 DEF Alone
  <2>2. CASE ~ connected
    <3>1. Busy' = Busy
      BY <1>6, <2>2 DEF Write, Return, Busy, Writers, MixerTypeOK
    <3>2. ~ crowded' => ~ crowded
      BY <1>6 DEF Write
    <3>3. UNCHANGED <<wire, up, connected, frames, piece>>
      BY <1>6, <2>2 DEF Write
    <3>4. (\A w : Mine(w)' <=> Mine(w)) /\ (AtEnd' <=> AtEnd)
      BY <3>3 DEF Mine, AtEnd
    <3> QED
      BY <3>1, <3>2, <3>3, <3>4 DEF Framed, Alone
  <2> QED
    BY <2>1, <2>2
<1>7. ASSUME NEW t \in Threads, WriteSome(t) PROVE Framed'
  <2> SUFFICES ASSUME ~ crowded' PROVE Alone' /\ WholeFrames(wire)'
    BY DEF Framed
  <2>1. /\ ~ crowded /\ UNCHANGED <<up, connected, frames, io>> /\ up /\ Put(t)
        /\ pc[t] = "write" /\ piece' = [piece EXCEPT ![t] = @ + 1] /\ t \in Threads \cup {IO}
    BY <1>7 DEF WriteSome
  <2>2. Alone /\ WholeFrames(wire)
    BY <2>1 DEF Framed
  <2>3. t \in Busy
    BY <2>1 DEF Busy, Writers
  <2>4. Busy = {t} /\ Mine(t) /\ connected
    BY <2>1, <2>2, <2>3 DEF Alone, FlagsTypeOK
  <2>5. WholeFrames(wire')
    BY <2>1, <2>2, <2>4, Put_Whole
  <2>6. CASE piece[t] + 1 = Pieces
    <3>1. pc' = [pc EXCEPT ![t] = "idle"]
      BY <1>7, <2>6 DEF WriteSome, Return
    <3>2. Busy' = {}
      BY <2>1, <2>4, <3>1 DEF Busy, Writers, MixerTypeOK
    <3>3. AtEnd'
      BY <2>1, <2>4, <2>6, Put_Mine
    <3> QED
      BY <2>1, <2>4, <2>5, <3>2, <3>3 DEF Alone
  <2>7. CASE piece[t] + 1 # Pieces
    <3>1. pc' = pc
      BY <1>7, <2>7 DEF WriteSome
    <3>2. Busy' = {t}
      BY <2>1, <2>4, <3>1 DEF Busy
    <3>3. Mine(t)'
      BY <2>1, <2>4, <2>7, Put_Mine
    <3> QED
      BY <2>1, <2>4, <2>5, <3>2, <3>3 DEF Alone
  <2> QED
    BY <2>6, <2>7
<1>8. ASSUME NEW t \in Threads, WriteFails(t) PROVE Framed'
  BY <1>8, Framed_Broken DEF WriteFails, Return, Busy, Writers, MixerTypeOK
<1>9. ASSUME NEW t \in Threads, Read(t) PROVE Framed'
  BY <1>9, Framed_Kept DEF Read, Busy, Writers, MixerTypeOK
<1>10. ASSUME NEW t \in Threads, WriteBack(t) PROVE Framed'
  BY <1>10, Framed_Kept DEF WriteBack, Busy, Writers, MixerTypeOK
<1>11. ASSUME NEW t \in Threads, Changed(t) PROVE Framed'
  BY <1>11, Framed_Kept DEF Changed, Return, Busy, Writers, MixerTypeOK
<1>12. CASE Drop
  BY <1>12, Framed_Broken DEF Drop, Busy
<1>13. CASE ReadFails
  BY <1>13, Framed_Broken DEF ReadFails, Busy
<1>14. CASE Establish
  <2> SUFFICES ASSUME ~ crowded' PROVE Alone' /\ WholeFrames(wire)'
    BY DEF Framed
  <2>1. Busy = {} /\ Busy' = Busy /\ wire' = <<>> /\ ~ connected'
    BY <1>14 DEF Establish, Busy
  <2>2. DOMAIN wire' = {}
    BY <2>1
  <2> QED
    BY <2>1, <2>2 DEF Alone, WholeFrames
<1>15. CASE OnConnected
  <2> SUFFICES ASSUME ~ crowded' PROVE Alone' /\ WholeFrames(wire)'
    BY DEF Framed
  <2>1. /\ ~ crowded /\ UNCHANGED <<wire, up, pc>> /\ up /\ ~ connected /\ connected'
        /\ io' = "greet" /\ io = "serve"
    BY <1>15 DEF OnConnected
  <2>2. Alone /\ WholeFrames(wire)
    BY <2>1 DEF Framed
  <2>3. wire = <<>> /\ Busy = {}
    BY <2>1, <2>2 DEF Alone
  <2>4. Busy' = {IO}
    BY <2>1, <2>3 DEF Busy, Writers
  <2>5. piece'[IO] = 0 /\ frames'[IO] = 1
    BY <1>15 DEF OnConnected, WireTypeOK
  <2>6. Mine(IO)'
    BY <2>1, <2>3, <2>5 DEF Mine
  <2> QED
    BY <2>1, <2>2, <2>4, <2>6 DEF Alone
<1>16. CASE Greet
  <2>1. CASE ~ up
    <3>1. UNCHANGED <<wire, crowded, up, pc>> /\ (io' = "greet" => io = "greet")
      BY <1>16, <2>1 DEF Greet
    <3> QED
      BY <2>1, <3>1, Framed_Broken DEF Busy, Writers
  <2>2. CASE up
    <3> SUFFICES ASSUME ~ crowded' PROVE Alone' /\ WholeFrames(wire)'
      BY DEF Framed
    <3>1. /\ ~ crowded /\ UNCHANGED <<up, connected, pc>> /\ Put(IO)
          /\ io = "greet" /\ IO \in Threads \cup {IO}
      BY <1>16, <2>2 DEF Greet
    <3>2. Alone /\ WholeFrames(wire)
      BY <3>1 DEF Framed
    <3>3. IO \in Busy
      BY <3>1 DEF Busy, Writers
    <3>4. Busy = {IO} /\ Mine(IO) /\ connected
      BY <2>2, <3>2, <3>3 DEF Alone, FlagsTypeOK
    <3>5. WholeFrames(wire')
      BY <3>1, <3>2, <3>4, Put_Whole
    <3>6. CASE piece[IO] + 1 < Pieces
      <4>1. /\ piece' = [piece EXCEPT ![IO] = @ + 1] /\ frames' = frames /\ io' = io
            /\ piece[IO] + 1 # Pieces
        BY <1>16, <2>2, <3>6 DEF Greet, WireTypeOK
      <4>2. Busy' = {IO}
        BY <3>1, <3>4, <4>1 DEF Busy
      <4>3. Mine(IO)'
        BY <3>1, <3>4, <4>1, Put_Mine
      <4> QED
        BY <3>1, <3>4, <3>5, <4>2, <4>3 DEF Alone
    <3>7. CASE ~ (piece[IO] + 1 < Pieces)
      <4>1. piece[IO] + 1 = Pieces
        BY <3>4, <3>7 DEF Mine, WireTypeOK
      <4>2. AtEnd'
        BY <3>1, <3>4, <4>1, Put_Mine
      <4>3. piece'[IO] = 0
        BY <1>16, <3>7 DEF Greet, WireTypeOK
      <4>4. Mine(IO)'
        BY <4>2, <4>3 DEF Mine
      <4>5. Busy' \subseteq {IO}
        BY <1>16, <3>1, <3>4 DEF Busy, Writers
      <4> QED
        BY <3>1, <3>4, <3>5, <4>2, <4>4, <4>5 DEF Alone
    <3> QED
      BY <3>6, <3>7
  <2> QED
    BY <2>1, <2>2 DEF FlagsTypeOK
<1>17. CASE ServerConfig
  BY <1>17, Framed_Kept DEF ServerConfig, Busy, Writers
<1>18. CASE Copy
  <2>1. /\ UNCHANGED <<wire, up, connected, frames, piece, crowded, pc>>
        /\ io = "copy" /\ io' \in {"copy", "serve"}
    BY <1>18 DEF Copy
  <2> QED
    BY <2>1, Framed_Kept DEF Busy, Writers
<1> QED
  BY <1>1, <1>2, <1>3, <1>4, <1>5, <1>6, <1>7, <1>8, <1>9, <1>10, <1>11, <1>12, <1>13,
     <1>14, <1>15, <1>16, <1>17, <1>18 DEF Next

(* What one thread sends is in order on the wire, and while no two threads   *)
(* write at once the frames are whole and the configuration comes first.     *)
THEOREM WiresWhole == Spec => []WireWhole
<1>1. Init => Behind /\ InOrder /\ Framed
  <2> SUFFICES ASSUME Init PROVE Behind /\ InOrder /\ Framed
    OBVIOUS
  <2>1. DOMAIN wire = {} /\ wire = <<>> /\ ~ up
    BY DEF Init
  <2>2. Busy = {}
    BY DEF Init, Busy, Writers
  <2> QED
    BY <2>1, <2>2 DEF Behind, InOrder, Framed, Alone, WholeFrames
<1>2. TypeOK /\ Behind /\ InOrder /\ Framed /\ [Next]_vars => (Behind /\ InOrder /\ Framed)'
  BY Next_Behind, Next_InOrder, Next_Framed DEF TypeOK
<1>3. InOrder /\ Framed => WireWhole
  BY DEF InOrder, Framed, WireWhole
<1> QED
  BY <1>1, <1>2, <1>3, Types, PTL DEF Spec

=============================================================================
