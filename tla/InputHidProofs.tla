---------------------------- MODULE InputHidProofs ---------------------------
(***************************************************************************)
(* That no callback of an input driver comes too late, and that inputs     *)
(* come in order, for every queue of the kernel, number of events and      *)
(* table of keys and axes.                                                 *)
(*                                                                         *)
(* What a reader was given is FlattenSeq of the inputs of the events it    *)
(* has read: a recursive function.  The first part of the module proves    *)
(* what FlattenSeq returns, by induction over sets of naturals.            *)
(***************************************************************************)
EXTENDS InputHid, TLAPS, WellFoundedInduction, SequenceTheorems, FiniteSetTheorems

-----------------------------------------------------------------------------
(* A set of naturals has a least one.                                      *)
LEMMA NatLeast ==
  ASSUME NEW T \in SUBSET Nat, T # {}
  PROVE  \E x \in T : \A y \in T : ~(y < x)
<1> DEFINE R == {ss \in Nat \X Nat : ss[1] < ss[2]}
<1>1. IsWellFoundedOn(R, Nat)
  BY NatLessThanWellFounded DEF OpToRel
<1>2. \E x \in T : \A y \in T : ~(<<y, x>> \in R)
  BY <1>1, WFMin
<1> QED BY <1>2

(* By induction: a set of naturals with 0 and every successor is all.      *)
LEMMA NatSet ==
  ASSUME NEW T \in SUBSET Nat, 0 \in T, \A n \in T : n + 1 \in T
  PROVE  T = Nat
<1> SUFFICES ASSUME Nat \ T # {} PROVE FALSE
  OBVIOUS
<1>1. PICK x \in Nat \ T : \A y \in Nat \ T : ~(y < x)
  BY NatLeast
<1>2. x # 0 /\ x \in Nat /\ x - 1 \in Nat /\ x - 1 < x
  BY <1>1
<1>3. x - 1 \in T
  BY <1>1, <1>2
<1> QED BY <1>1, <1>2, <1>3

(* What FlattenSeq computes, up to each of the sequences.                  *)
Joined(s, t) == s \o t

Flattens(f, seqs, n) ==
  f = [i \in 1..n |-> IF i = 1 THEN seqs[i] ELSE Joined(f[i - 1], seqs[i])]

(* The results one after the other.                                        *)
LEMMA FlattensAt ==
  ASSUME NEW f, NEW seqs, NEW n, Flattens(f, seqs, n), NEW i \in 1..n
  PROVE  f[i] = IF i = 1 THEN seqs[i] ELSE Joined(f[i - 1], seqs[i])
BY DEF Flattens

(* The one sequence begins with n elements of the other.                   *)
Continues(t, s, n) == \A i \in 1..n : t[i] = s[i]

(* There are such results, for every sequence and number.                  *)
LEMMA FlattensExists ==
  ASSUME NEW seqs, NEW n \in Nat
  PROVE  \E f : Flattens(f, seqs, n)
<1> DEFINE T == {m \in Nat : \E f : Flattens(f, seqs, m)}
<1>1. 0 \in T
  <2>1. Flattens([i \in 1..0 |-> <<>>], seqs, 0)
    BY DEF Flattens
  <2> QED BY <2>1
<1>2. ASSUME NEW m \in T PROVE m + 1 \in T
  <2>1. PICK f : Flattens(f, seqs, m)
    OBVIOUS
  <2> DEFINE g == [i \in 1..m + 1 |->
                     IF i <= m THEN f[i] ELSE IF i = 1 THEN seqs[i] ELSE Joined(f[m], seqs[i])]
  <2>2. Flattens(g, seqs, m + 1)
    <3>1. ASSUME NEW i \in 1..m + 1
          PROVE  g[i] = IF i = 1 THEN seqs[i] ELSE Joined(g[i - 1], seqs[i])
      <4>1. CASE i <= m
        <5>1. i \in 1..m /\ g[i] = f[i] /\ (i # 1 => i - 1 \in 1..m + 1 /\ g[i - 1] = f[i - 1])
          BY <4>1
        <5>2. f[i] = IF i = 1 THEN seqs[i] ELSE Joined(f[i - 1], seqs[i])
          BY <2>1, <5>1 DEF Flattens
        <5> QED BY <5>1, <5>2
      <4>2. CASE ~(i <= m)
        BY <2>1, <4>2
      <4> QED BY <4>1, <4>2
    <3> QED BY <3>1 DEF Flattens
  <2> QED BY <2>2
<1>3. T = Nat
  <2> HIDE DEF T
  <2>1. T \in SUBSET Nat
    BY DEF T
  <2> QED BY <1>1, <1>2, <2>1, NatSet
<1> QED BY <1>3

(* A sequence that is not empty is flattened to the last of them.          *)
LEMMA FlattenIs ==
  ASSUME NEW seqs, Len(seqs) \in Nat \ {0}
  PROVE  \E f : Flattens(f, seqs, Len(seqs)) /\ FlattenSeq(seqs) = f[Len(seqs)]
<1> DEFINE f == CHOOSE f : Flattens(f, seqs, Len(seqs))
<1>1. Flattens(f, seqs, Len(seqs))
  BY FlattensExists
<1>2. FlattenSeq(seqs) = f[Len(seqs)]
  BY DEF FlattenSeq, Flattens, Joined
<1> QED BY <1>1, <1>2

(* The partial results are those of any longer sequence.                   *)
LEMMA FlattensPrefix ==
  ASSUME NEW f, NEW g, NEW s, NEW t, NEW n \in Nat, NEW m \in Nat, n <= m,
         Continues(t, s, n), Flattens(f, s, n), Flattens(g, t, m)
  PROVE  \A i \in 1..n : g[i] = f[i]
<1> DEFINE T == {k \in Nat : k \in 1..n => g[k] = f[k]}
<1>1. 0 \in T
  OBVIOUS
<1>2. ASSUME NEW k \in T PROVE k + 1 \in T
  <2> SUFFICES ASSUME k + 1 \in 1..n PROVE g[k + 1] = f[k + 1]
    OBVIOUS
  <2>1. k + 1 \in 1..n /\ k + 1 \in 1..m /\ t[k + 1] = s[k + 1]
    BY DEF Continues
  <2>2. f[k + 1] = IF k + 1 = 1 THEN s[k + 1] ELSE Joined(f[k + 1 - 1], s[k + 1])
    BY <2>1, FlattensAt
  <2>3. g[k + 1] = IF k + 1 = 1 THEN t[k + 1] ELSE Joined(g[k + 1 - 1], t[k + 1])
    BY <2>1, FlattensAt
  <2>4. k = 0 \/ (k \in 1..n /\ k + 1 - 1 = k /\ g[k] = f[k])
    OBVIOUS
  <2> QED BY <2>1, <2>2, <2>3, <2>4
<1>3. T = Nat
  <2> HIDE DEF T
  <2>1. T \in SUBSET Nat
    BY DEF T
  <2> QED BY <1>1, <1>2, <2>1, NatSet
<1> QED BY <1>3

(* They are sequences.                                                     *)
LEMMA FlattensType ==
  ASSUME NEW V, NEW f, NEW s \in Seq(Seq(V)), Flattens(f, s, Len(s))
  PROVE  \A i \in 1..Len(s) : f[i] \in Seq(V)
<1> DEFINE T == {k \in Nat : k \in 1..Len(s) => f[k] \in Seq(V)}
<1>1. 0 \in T
  OBVIOUS
<1>2. ASSUME NEW k \in T PROVE k + 1 \in T
  <2> SUFFICES ASSUME k + 1 \in 1..Len(s) PROVE f[k + 1] \in Seq(V)
    OBVIOUS
  <2>1. f[k + 1] = IF k + 1 = 1 THEN s[k + 1] ELSE Joined(f[k + 1 - 1], s[k + 1])
    <3>1. k + 1 \in 1..Len(s)
      OBVIOUS
    <3> QED BY <3>1, FlattensAt
  <2>2. s[k + 1] \in Seq(V)
    OBVIOUS
  <2>3. CASE k = 0
    BY <2>1, <2>2, <2>3
  <2>4. CASE k # 0
    <3>1. k \in 1..Len(s) /\ k + 1 - 1 = k /\ k + 1 # 1
      BY <2>4
    <3>2. f[k] \in Seq(V)
      BY <3>1
    <3>3. Joined(f[k], s[k + 1]) \in Seq(V)
      BY <2>2, <3>2, ConcatProperties DEF Joined
    <3> QED BY <2>1, <3>1, <3>3
  <2> QED BY <2>3, <2>4
<1>3. T = Nat
  <2> HIDE DEF T
  <2>1. T \in SUBSET Nat
    BY DEF T
  <2> QED BY <1>1, <1>2, <2>1, NatSet
<1> QED BY <1>3

(* The last result is the one before it and the last sequence.             *)
LEMMA FlattensLast ==
  ASSUME NEW g, NEW t, NEW n \in Nat, Flattens(g, t, n + 1)
  PROVE  g[n + 1] = IF n = 0 THEN t[n + 1] ELSE Joined(g[n], t[n + 1])
<1>1. n + 1 \in 1..n + 1 /\ n + 1 - 1 = n /\ (n + 1 = 1 <=> n = 0)
  OBVIOUS
<1>2. g[n + 1] = IF n + 1 = 1 THEN t[n + 1] ELSE Joined(g[n + 1 - 1], t[n + 1])
  BY <1>1, FlattensAt
<1> QED BY <1>1, <1>2

(* What a sequence and one that is longer by one are flattened to.         *)
LEMMA FlattensLonger ==
  ASSUME NEW f, NEW g, NEW s, NEW t, NEW n \in Nat, n # 0,
         Continues(t, s, n), Flattens(f, s, n), Flattens(g, t, n + 1)
  PROVE  g[n + 1] = Joined(f[n], t[n + 1])
<1>1. n \in 1..n /\ n + 1 \in Nat /\ n <= n + 1
  OBVIOUS
<1>2. \A i \in 1..n : g[i] = f[i]
  BY <1>1, FlattensPrefix
<1>3. g[n + 1] = IF n = 0 THEN t[n + 1] ELSE Joined(g[n], t[n + 1])
  BY FlattensLast
<1> QED BY <1>1, <1>2, <1>3

(* Flattening gives a sequence.                                            *)
LEMMA FlattenType ==
  ASSUME NEW V, NEW s \in Seq(Seq(V))
  PROVE  FlattenSeq(s) \in Seq(V)
<1>1. CASE s = <<>>
  <2>1. FlattenSeq(s) = <<>> /\ <<>> \in Seq(V)
    BY <1>1 DEF FlattenSeq
  <2> QED BY <2>1
<1>2. CASE s # <<>>
  <2>1. Len(s) \in Nat \ {0} /\ Len(s) \in 1..Len(s)
    BY <1>2, EmptySeq
  <2>2. PICK f : Flattens(f, s, Len(s)) /\ FlattenSeq(s) = f[Len(s)]
    BY <2>1, FlattenIs
  <2>3. \A i \in 1..Len(s) : f[i] \in Seq(V)
    BY <2>2, FlattensType
  <2> QED BY <2>1, <2>2, <2>3
<1> QED BY <1>1, <1>2

(* One more sequence is appended.                                          *)
LEMMA FlattenAppend ==
  ASSUME NEW V, NEW s \in Seq(Seq(V)), NEW x \in Seq(V)
  PROVE  FlattenSeq(Append(s, x)) = FlattenSeq(s) \o x
<1>1. /\ Len(s) \in Nat /\ Len(Append(s, x)) = Len(s) + 1 /\ Len(s) + 1 \in Nat \ {0}
      /\ Append(s, x)[Len(s) + 1] = x
      /\ Continues(Append(s, x), s, Len(s))
  BY AppendProperties DEF Continues
<1>2. PICK g : /\ Flattens(g, Append(s, x), Len(s) + 1)
               /\ FlattenSeq(Append(s, x)) = g[Len(s) + 1]
  <2>1. \E g : /\ Flattens(g, Append(s, x), Len(Append(s, x)))
               /\ FlattenSeq(Append(s, x)) = g[Len(Append(s, x))]
    <3>1. Len(Append(s, x)) \in Nat \ {0}
      BY <1>1
    <3> QED BY <3>1, FlattenIs
  <2> QED BY <1>1, <2>1
<1>3. CASE s = <<>>
  <2>1. FlattenSeq(s) = <<>> /\ <<>> \o x = x
    BY <1>3, ConcatEmptySeq DEF FlattenSeq
  <2>2. Len(s) = 0
    BY <1>3
  <2>3. g[Len(s) + 1] = Append(s, x)[Len(s) + 1]
    BY <1>1, <1>2, <2>2, FlattensLast
  <2> QED BY <1>1, <1>2, <2>1, <2>3
<1>4. CASE s # <<>>
  <2>1. Len(s) \in Nat \ {0}
    BY <1>1, <1>4, EmptySeq
  <2>2. PICK f : Flattens(f, s, Len(s)) /\ FlattenSeq(s) = f[Len(s)]
    BY <2>1, FlattenIs
  <2>3. g[Len(s) + 1] = Joined(f[Len(s)], Append(s, x)[Len(s) + 1])
    <3>1. \A t : \A n \in Nat :
            n # 0 /\ Continues(t, s, n) /\ Flattens(f, s, n) /\ Flattens(g, t, n + 1)
              => g[n + 1] = Joined(f[n], t[n + 1])
      BY FlattensLonger
    <3>2. Len(s) \in Nat /\ Len(s) # 0
      BY <2>1
    <3> QED BY <1>1, <1>2, <2>2, <3>1, <3>2, Zenon
  <2> QED BY <1>1, <1>2, <2>2, <2>3 DEF Joined
<1> QED BY <1>3, <1>4
(* Two sequences after one another are flattened after one another.        *)
LEMMA FlattenConcat ==
  ASSUME NEW V, NEW s \in Seq(Seq(V)), NEW t \in Seq(Seq(V))
  PROVE  FlattenSeq(s \o t) = FlattenSeq(s) \o FlattenSeq(t)
<1> DEFINE U(n) == SubSeq(t, 1, n)
           T == {n \in Nat : n <= Len(t) =>
                   FlattenSeq(s \o U(n)) = FlattenSeq(s) \o FlattenSeq(U(n))}
<1>1. 0 \in T
  <2>1. U(0) = <<>> /\ s \o <<>> = s /\ FlattenSeq(<<>>) = <<>>
    BY EmptySeq, ConcatEmptySeq DEF FlattenSeq
  <2>2. FlattenSeq(s) \o <<>> = FlattenSeq(s)
    BY FlattenType, ConcatEmptySeq
  <2> QED BY <2>1, <2>2
<1>2. ASSUME NEW n \in T PROVE n + 1 \in T
  <2> SUFFICES ASSUME n + 1 <= Len(t)
               PROVE  FlattenSeq(s \o U(n + 1)) = FlattenSeq(s) \o FlattenSeq(U(n + 1))
    OBVIOUS
  <2>1. n \in Nat /\ n <= Len(t) /\ n + 1 \in 1..Len(t) /\ t[n + 1] \in Seq(V)
    OBVIOUS
  <2>2. U(n) \in Seq(Seq(V)) /\ U(n + 1) = Append(U(n), t[n + 1])
    BY <2>1
  <2>3. s \o U(n) \in Seq(Seq(V)) /\ s \o U(n + 1) = Append(s \o U(n), t[n + 1])
    <3> HIDE DEF U
    <3>1. s \o U(n) \in Seq(Seq(V))
      BY <2>2, ConcatProperties
    <3>2. \A u \in Seq(Seq(V)), x \in Seq(V) : s \o Append(u, x) = Append(s \o u, x)
      BY SMTT(30)
    <3> QED BY <2>1, <2>2, <3>1, <3>2, Zenon
  <2>4. FlattenSeq(s \o U(n)) = FlattenSeq(s) \o FlattenSeq(U(n))
    BY <2>1
  <2> HIDE DEF U
  <2>5. /\ FlattenSeq(s \o U(n + 1)) = FlattenSeq(s \o U(n)) \o t[n + 1]
        /\ FlattenSeq(U(n + 1)) = FlattenSeq(U(n)) \o t[n + 1]
    BY <2>1, <2>2, <2>3, FlattenAppend
  <2>6. FlattenSeq(s) \in Seq(V) /\ FlattenSeq(U(n)) \in Seq(V)
    BY <2>2, FlattenType
  <2>7. (FlattenSeq(s) \o FlattenSeq(U(n))) \o t[n + 1]
          = FlattenSeq(s) \o (FlattenSeq(U(n)) \o t[n + 1])
    <3>1. \A a, b, c \in Seq(V) : (a \o b) \o c = a \o (b \o c)
      BY SMTT(30)
    <3> QED BY <2>1, <2>6, <3>1, Zenon
  <2> QED BY <2>4, <2>5, <2>7
<1>3. T = Nat
  <2> HIDE DEF T
  <2>1. T \in SUBSET Nat
    BY DEF T
  <2> QED BY <1>1, <1>2, <2>1, NatSet
<1>4. U(Len(t)) = t
  OBVIOUS
<1>5. Len(t) \in T
  <2> HIDE DEF T
  <2> QED BY <1>3
<1>6. FlattenSeq(s \o U(Len(t))) = FlattenSeq(s) \o FlattenSeq(U(Len(t)))
  <2> HIDE DEF U
  <2> QED BY <1>5
<1> HIDE DEF U, T
<1> QED BY <1>4, <1>6

(* A sequence on its own.                                                  *)
LEMMA FlattenOne ==
  ASSUME NEW V, NEW x \in Seq(V)
  PROVE  FlattenSeq(<<x>>) = x
<1>1. Append(<<>>, x) = <<x>> /\ <<>> \in Seq(Seq(V))
  OBVIOUS
<1>2. FlattenSeq(Append(<<>>, x)) = FlattenSeq(<<>>) \o x
  BY <1>1, FlattenAppend
<1>3. FlattenSeq(<<>>) = <<>> /\ <<>> \o x = x
  BY ConcatEmptySeq DEF FlattenSeq
<1> QED BY <1>1, <1>2, <1>3, Zenon

(* A sequence and its end stay so when the same is appended to both.       *)
LEMMA AppendBoth ==
  ASSUME NEW V, NEW q \in Seq(V), NEW s \in Seq(V), NEW e \in V, NEW k \in Nat,
         k + Len(q) = Len(s), \A i \in 1..Len(q) : q[i] = s[k + i]
  PROVE  \A i \in 1..Len(q) + 1 : Append(q, e)[i] = Append(s, e)[k + i]
<1> SUFFICES ASSUME NEW i \in 1..Len(q) + 1
             PROVE  Append(q, e)[i] = Append(s, e)[k + i]
  OBVIOUS
<1>1. CASE i <= Len(q)
  BY <1>1
<1>2. CASE ~(i <= Len(q))
  <2>1. i = Len(q) + 1 /\ k + i = Len(s) + 1
    BY <1>2
  <2> QED BY <2>1
<1> QED BY <1>1, <1>2
-----------------------------------------------------------------------------
(* The thread of a driver that may still call back.                        *)
Polling == {"loop", "poll", "read"}
Listening == {"starting", "top", "wait", "process"}

NothingHandled == [d \in Devices |-> <<>>]

(* While its thread works, the owner of a driver runs or joins it; what    *)
(* Open forgets of the callbacks is nothing: only a joystick opens again,  *)
(* and it keeps what it reads and calls nobody.                            *)
OwnerInv ==
  /\ thread \in Polling \cup Listening => owner \in {"run", "join"}
  /\ owner = "open" => handled = NothingHandled
  /\ driver = "Joystick" => thread \notin Listening /\ handled = NothingHandled

(* Nothing is open yet.                                                    *)
LEMMA OwnerInit == Init => OwnerInv
BY DEF Init, OwnerInv, Polling, Listening, NothingHandled

(* Every step keeps it, and calls back only for an owner that is there.    *)
LEMMA OwnerStep ==
  ASSUME OwnerInv, [Next]_vars
  PROVE  OwnerInv' /\ (handled' # handled => owner' \in {"run", "join"})
<1> USE DEF OwnerInv, Polling, Listening, deviceVars, openVars, loopVars, outVars
<1>1. CASE UNCHANGED vars
  BY <1>1 DEF vars
<1>2. CASE Open
  <2>1. handled' = handled /\ UNCHANGED driver /\ owner = "open"
    BY <1>2 DEF Open, NothingHandled
  <2>2. (thread' = "loop" /\ owner' = "run") \/ (thread' = thread /\ owner' = "done")
    BY <1>2 DEF Open
  <2> QED BY <2>1, <2>2
<1>3. CASE StartListening
  BY <1>3 DEF StartListening
<1>4. CASE Join
  BY <1>4 DEF Join
<1>5. CASE CloseDevices
  <2>1. UNCHANGED <<driver, thread, handled>> /\ owner = "close"
    BY <1>5 DEF CloseDevices
  <2>2. owner' = "done" \/ (owner' = "open" /\ driver = "Joystick")
    BY <1>5 DEF CloseDevices
  <2> QED BY <2>1, <2>2
<1>6. ASSUME NEW d \in Devices, OpenHandler(d) PROVE OwnerInv' /\ handled' = handled
  BY <1>6 DEF OpenHandler
<1>7. ASSUME NEW d \in Devices, AddHidHandler(d) PROVE OwnerInv' /\ handled' = handled
  BY <1>7 DEF AddHidHandler
<1>8. CASE Close
  BY <1>8 DEF Close
<1>9. CASE LoopBreak
  BY <1>9 DEF LoopBreak
<1>10. ASSUME NEW d \in Devices, Unplug(d) PROVE OwnerInv' /\ handled' = handled
  BY <1>10 DEF Unplug
<1>11. ASSUME NEW d \in Devices, NEW e \in Events[d], Emit(d, e)
       PROVE  OwnerInv' /\ handled' = handled
  BY <1>11 DEF Emit
<1>12. CASE TestKeepRunning
  BY <1>12 DEF TestKeepRunning
<1>13. CASE CheckDevice
  BY <1>13 DEF CheckDevice
<1>14. CASE Dispatch \/ TestBreak \/ NextTurn
  BY <1>14 DEF Dispatch, TestBreak, NextTurn
<1>15. CASE Wait
  <2>1. UNCHANGED <<driver, owner, handled>> /\ thread = "wait" /\ thread' = "process"
    BY <1>15 DEF Wait
  <2> QED BY <2>1
<1>16. ASSUME NEW d \in Devices, ReadEvent(d)
       PROVE  OwnerInv' /\ owner' \in {"run", "join"}
  <2>1. UNCHANGED <<driver, owner>> /\ thread = "read" /\ thread' \in {"read", "loop"}
        /\ (driver = "Joystick" => handled' = handled)
    BY <1>16 DEF ReadEvent
  <2> QED BY <2>1
<1>17. ASSUME NEW d \in Devices, OnInputEvent(d)
       PROVE  OwnerInv' /\ owner' \in {"run", "join"}
  <2>1. UNCHANGED <<driver, owner, thread>> /\ thread = "process"
    BY <1>17 DEF OnInputEvent
  <2> QED BY <2>1
<1> QED
  BY <1>1, <1>2, <1>3, <1>4, <1>5, <1>6, <1>7, <1>8, <1>9, <1>10, <1>11, <1>12,
     <1>13, <1>14, <1>15, <1>16, <1>17, Zenon DEF Next, Owner, Thread

(* Whichever driver it is, whatever its devices send, and however often it *)
(* is opened: no callback runs for an owner that has destroyed its driver. *)
THEOREM CallbacksInTime == Spec => NoLateCallback
<1>1. Init => OwnerInv
  BY OwnerInit
<1>2. OwnerInv /\ [Next]_vars => OwnerInv'
  BY OwnerStep
<1>3. OwnerInv /\ [Next]_vars => [handled' # handled => owner' \in {"run", "join"}]_vars
  BY OwnerStep
<1>4. Spec => []OwnerInv
  BY <1>1, <1>2, PTL DEF Spec
<1> QED BY <1>3, <1>4, PTL DEF Spec, NoLateCallback
-----------------------------------------------------------------------------
(* What handlers are given.                                                *)
Meaningful == {p \in Devices \X AllEvents : Input(p[1], p[2]) # <<>>}
Inputs == {Input(p[1], p[2])[1] : p \in Meaningful}

(* The part of the types that the order of inputs needs.                   *)
HidTypes ==
  /\ driver \in Drivers /\ opened \subseteq Used
  /\ queue \in [Devices -> Seq(AllEvents)] /\ sent \in [Devices -> Seq(AllEvents)]
  /\ lost \in [Devices -> BOOLEAN] /\ handled \in [Devices -> Seq(Inputs)]

(* How many of the events s that were sent are read when q is queued.      *)
Consumed(q, s) == Len(s) - Len(q)

(* What is queued is what was sent last.                                   *)
QueueIsRest(q, s) ==
  /\ Consumed(q, s) \in Nat
  /\ \A i \in 1..Len(q) : q[i] = s[Consumed(q, s) + i]

(* The latest input of a control of the joystick, or 0.                    *)
Latest(inputs, c) == SelectLastInSeq(inputs, LAMBDA i : i.control = c)

Shows(state, inputs) ==
  \A c \in DOMAIN state :
    Latest(inputs, c) # 0 => state[c] = inputs[Latest(inputs, c)].value

(* A joystick shows what it has read; others have called back with it.     *)
InOrder(drv, state, d, q, s, h) ==
  IF drv = "Joystick"
  THEN QueueIsRest(q, s) /\ Shows(state, InputOf(d, SubSeq(s, 1, Consumed(q, s))))
  ELSE h \o InputOf(d, q) = InputOf(d, s)

(* A device that is not open has no queue, and what will be opened has     *)
(* sent nothing.                                                           *)
ClosedQuiet ==
  /\ \A d \in Devices \ opened : queue[d] = <<>>
  /\ owner = "open" => IF driver = "HidEventListener"
                       THEN \A d \in Devices \ opened : sent[d] = <<>>
                       ELSE opened = {}

(* A polling thread is never a listener's: it moves on in the one device   *)
(* that it owns.                                                           *)
ThreadFits == thread \in Polling => driver # "HidEventListener"

OpenedInOrder ==
  \A d \in opened :
    ~lost[d] => InOrder(driver, channels, d, queue[d], sent[d], handled[d])

(* Why InputInOrder holds, together with OwnerInv.                         *)
OrderInv == HidTypes /\ ThreadFits /\ ClosedQuiet /\ OpenedInOrder

orderVars == <<driver, opened, queue, sent, lost, handled, channels>>

(* What a reader was given, before it is flattened.                        *)
InputSeq(d, events) == [i \in DOMAIN events |-> Input(d, events[i])]

(* An event means one input or none.                                       *)
LEMMA InputType ==
  ASSUME NEW d \in Devices, NEW e \in AllEvents
  PROVE  /\ Input(d, e) \in Seq(Inputs)
         /\ Input(d, e) = <<>> \/ \E r \in Inputs : Input(d, e) = <<r>>
<1>1. Input(d, e) = <<>> \/ Input(d, e) = <<Input(d, e)[1]>>
  <2>1. d = "js" \/ d = "kb"
    BY DEF Devices
  <2>2. JoystickInput(e) = <<>> \/ JoystickInput(e) = <<JoystickInput(e)[1]>>
    BY DEF JoystickInput
  <2>3. KeyInput(e) = <<>> \/ KeyInput(e) = <<KeyInput(e)[1]>>
    BY DEF KeyInput
  <2> QED BY <2>1, <2>2, <2>3 DEF Input
<1>2. ASSUME Input(d, e) # <<>> PROVE Input(d, e)[1] \in Inputs
  <2>1. <<d, e>>[1] = d /\ <<d, e>>[2] = e /\ <<d, e>> \in Devices \X AllEvents
    OBVIOUS
  <2>2. PICK p \in Devices \X AllEvents : p[1] = d /\ p[2] = e
    BY <2>1
  <2>3. p \in Meaningful
    BY <1>2, <2>2 DEF Meaningful
  <2>4. \E q \in Meaningful : Input(d, e)[1] = Input(q[1], q[2])[1]
    BY <2>2, <2>3
  <2> QED BY <2>4 DEF Inputs
<1>3. CASE Input(d, e) = <<>>
  BY <1>3
<1>4. CASE Input(d, e) # <<>>
  <2>1. PICK r \in Inputs : r = Input(d, e)[1]
    BY <1>2, <1>4
  <2>2. Input(d, e) = <<r>>
    BY <1>1, <1>4, <2>1
  <2> QED BY <2>2
<1> QED BY <1>3, <1>4

(* The inputs of the events, one by one.                                   *)
LEMMA InputSeqType ==
  ASSUME NEW d \in Devices, NEW events \in Seq(AllEvents)
  PROVE  /\ InputSeq(d, events) \in Seq(Seq(Inputs))
         /\ Len(InputSeq(d, events)) = Len(events)
         /\ \A i \in 1..Len(events) : InputSeq(d, events)[i] = Input(d, events[i])
<1>1. \A i \in 1..Len(events) : Input(d, events[i]) \in Seq(Inputs)
  <2>1. \A e \in AllEvents : Input(d, e) \in Seq(Inputs)
    BY InputType
  <2>2. \A i \in 1..Len(events) : events[i] \in AllEvents
    OBVIOUS
  <2> QED BY <2>1, <2>2
<1>2. DOMAIN events = 1..Len(events) /\ Len(events) \in Nat
  OBVIOUS
<1> QED BY <1>1, <1>2 DEF InputSeq

(* What a reader was given is a sequence of inputs.                        *)
LEMMA InputOfType ==
  ASSUME NEW d \in Devices, NEW events \in Seq(AllEvents)
  PROVE  InputOf(d, events) \in Seq(Inputs)
<1>1. InputOf(d, events) = FlattenSeq(InputSeq(d, events))
  BY DEF InputOf, InputSeq
<1> QED BY <1>1, InputSeqType, FlattenType

(* Who reads nothing is given nothing.                                     *)
LEMMA InputOfEmpty ==
  ASSUME NEW d \in Devices
  PROVE  InputOf(d, <<>>) = <<>>
BY DEF InputOf, FlattenSeq

(* One more event adds what it means at the end.                           *)
LEMMA InputOfAppend ==
  ASSUME NEW d \in Devices, NEW events \in Seq(AllEvents), NEW e \in AllEvents
  PROVE  InputOf(d, Append(events, e)) = InputOf(d, events) \o Input(d, e)
<1>1. InputSeq(d, Append(events, e)) = Append(InputSeq(d, events), Input(d, e))
  BY DEF InputSeq
<1>2. InputSeq(d, events) \in Seq(Seq(Inputs)) /\ Input(d, e) \in Seq(Inputs)
  BY InputSeqType, InputType
<1>3. FlattenSeq(Append(InputSeq(d, events), Input(d, e)))
        = FlattenSeq(InputSeq(d, events)) \o Input(d, e)
  BY <1>2, FlattenAppend
<1>4. /\ InputOf(d, events) = FlattenSeq(InputSeq(d, events))
      /\ InputOf(d, Append(events, e)) = FlattenSeq(InputSeq(d, Append(events, e)))
  BY DEF InputOf, InputSeq
<1> QED BY <1>1, <1>3, <1>4, Zenon

(* The first event stands at the beginning.                                *)
LEMMA InputOfFirst ==
  ASSUME NEW d \in Devices, NEW events \in Seq(AllEvents), events # <<>>
  PROVE  InputOf(d, events) = Input(d, Head(events)) \o InputOf(d, Tail(events))
<1>1. Head(events) \in AllEvents /\ Tail(events) \in Seq(AllEvents)
  OBVIOUS
<1>2. InputSeq(d, events) = <<Input(d, Head(events))>> \o InputSeq(d, Tail(events))
  BY DEF InputSeq
<1>3. /\ <<Input(d, Head(events))>> \in Seq(Seq(Inputs))
      /\ InputSeq(d, Tail(events)) \in Seq(Seq(Inputs))
  <2>1. Input(d, Head(events)) \in Seq(Inputs)
    BY <1>1, InputType
  <2>2. \A x \in Seq(Inputs) : <<x>> \in Seq(Seq(Inputs))
    OBVIOUS
  <2>3. InputSeq(d, Tail(events)) \in Seq(Seq(Inputs))
    BY <1>1, InputSeqType
  <2> QED BY <2>1, <2>2, <2>3, Zenon
<1>4. FlattenSeq(<<Input(d, Head(events))>> \o InputSeq(d, Tail(events)))
        = FlattenSeq(<<Input(d, Head(events))>>) \o FlattenSeq(InputSeq(d, Tail(events)))
  BY <1>3, FlattenConcat
<1>5. FlattenSeq(<<Input(d, Head(events))>>) = Input(d, Head(events))
  BY <1>1, InputType, FlattenOne
<1>6. /\ InputOf(d, events) = FlattenSeq(InputSeq(d, events))
      /\ InputOf(d, Tail(events)) = FlattenSeq(InputSeq(d, Tail(events)))
  BY DEF InputOf, InputSeq
<1> QED BY <1>2, <1>4, <1>5, <1>6, Zenon

(* The places of the inputs of a control.                                  *)
Places(inputs, c) == {i \in 1..Len(inputs) : inputs[i].control = c}

(* The latest input is at the greatest place.                              *)
LEMMA LatestIs ==
  ASSUME NEW inputs, NEW c
  PROVE  Latest(inputs, c) = IF Places(inputs, c) # {} THEN Max(Places(inputs, c)) ELSE 0
BY DEF Latest, SelectLastInSeq, Places

(* A set of places has a last one.                                         *)
LEMMA LastPlace ==
  ASSUME NEW n \in Nat, NEW S \in SUBSET (1..n), S # {}
  PROVE  Max(S) \in S /\ \A i \in S : i <= Max(S)
<1> DEFINE T == {n - i : i \in S}
<1>1. T \in SUBSET Nat /\ T # {}
  <2>1. \A i \in S : n - i \in Nat
    OBVIOUS
  <2> QED BY <2>1
<1>2. PICK x \in T : \A y \in T : ~(y < x)
  <2> HIDE DEF T
  <2> QED BY <1>1, NatLeast
<1>3. PICK i \in S : x = n - i
  OBVIOUS
<1>4. ASSUME NEW j \in S PROVE i >= j
  <2>1. n - j \in T
    OBVIOUS
  <2>2. ~(n - j < n - i)
    BY <1>2, <1>3, <2>1
  <2> QED BY <2>2
<1>5. \E m \in S : \A j \in S : m >= j
  BY <1>4
<1> HIDE DEF T
<1>6. Max(S) \in S /\ \A j \in S : Max(S) >= j
  BY <1>5 DEF Max
<1> QED BY <1>6

(* One more input is the latest of its control and of no other.            *)
LEMMA LatestAppend ==
  ASSUME NEW inputs \in Seq(Inputs), NEW r \in Inputs, NEW c
  PROVE  Latest(Append(inputs, r), c) = IF r.control = c THEN Len(inputs) + 1
                                        ELSE Latest(inputs, c)
<1> DEFINE more == Append(inputs, r)
<1>1. /\ Len(inputs) \in Nat /\ Len(more) = Len(inputs) + 1
      /\ more[Len(inputs) + 1] = r
      /\ \A i \in 1..Len(inputs) : more[i] = inputs[i]
  OBVIOUS
<1> HIDE DEF more
<1>2. \A i \in 1..Len(more) : i \in 1..Len(inputs) \/ i = Len(inputs) + 1
  BY <1>1
<1>3. CASE r.control = c
  <2>1. Len(inputs) + 1 \in Places(more, c)
    BY <1>1, <1>3 DEF Places
  <2>2. Places(more, c) \in SUBSET (1..Len(inputs) + 1)
    BY <1>1 DEF Places
  <2>3. Max(Places(more, c)) = Len(inputs) + 1
    <3>1. Len(inputs) + 1 \in Nat /\ Places(more, c) # {}
      BY <1>1, <2>1
    <3>2. /\ Max(Places(more, c)) \in Places(more, c)
          /\ \A i \in Places(more, c) : i <= Max(Places(more, c))
      BY <2>2, <3>1, LastPlace
    <3>3. Max(Places(more, c)) \in 1..Len(inputs) + 1
      BY <2>2, <3>2
    <3>4. Len(inputs) + 1 <= Max(Places(more, c))
      BY <2>1, <3>2
    <3> QED BY <1>1, <3>3, <3>4
  <2>4. Latest(more, c) = Len(inputs) + 1
    BY <2>1, <2>3, LatestIs
  <2> QED BY <1>3, <2>4 DEF more
<1>4. CASE r.control # c
  <2>1. Places(more, c) = Places(inputs, c)
    BY <1>1, <1>2, <1>4 DEF Places
  <2>2. Latest(more, c) = Latest(inputs, c)
    BY <2>1, LatestIs
  <2> QED BY <1>4, <2>2 DEF more
<1> QED BY <1>3, <1>4

(* The latest input of a control is at a place, if there is any.           *)
LEMMA LatestType ==
  ASSUME NEW inputs \in Seq(Inputs), NEW c
  PROVE  Latest(inputs, c) \in 0..Len(inputs)
<1>1. Len(inputs) \in Nat /\ Places(inputs, c) \in SUBSET (1..Len(inputs))
  BY DEF Places
<1>2. CASE Places(inputs, c) # {}
  <2>1. Max(Places(inputs, c)) \in Places(inputs, c)
    BY <1>1, <1>2, LastPlace
  <2> QED BY <1>1, <1>2, <2>1, LatestIs
<1>3. CASE Places(inputs, c) = {}
  BY <1>1, <1>3, LatestIs
<1> QED BY <1>2, <1>3

-----------------------------------------------------------------------------
(* Nothing was sent.                                                       *)
LEMMA FreshInOrder ==
  ASSUME NEW drv, NEW state, NEW d \in Devices
  PROVE  InOrder(drv, state, d, <<>>, <<>>, <<>>)
<1>1. InputOf(d, <<>>) = <<>> /\ SubSeq(<<>>, 1, 0) = <<>> /\ Len(<<>>) = 0
  BY InputOfEmpty
<1>2. \A c : Latest(<<>>, c) = 0
  <2>1. <<>> \in Seq(Inputs)
    OBVIOUS
  <2>2. ASSUME NEW c PROVE Latest(<<>>, c) \in 0..0
    BY <1>1, <2>1, LatestType
  <2> QED BY <2>2
<1>3. QueueIsRest(<<>>, <<>>) /\ Consumed(<<>>, <<>>) = 0
  BY <1>1 DEF QueueIsRest, Consumed
<1>4. Shows(state, <<>>)
  BY <1>2 DEF Shows
<1>5. <<>> \o <<>> = <<>>
  OBVIOUS
<1> QED BY <1>1, <1>3, <1>4, <1>5 DEF InOrder

(* An event is sent and finds room in the queue.                           *)
LEMMA SentInOrder ==
  ASSUME NEW drv, NEW state, NEW d \in Devices, NEW q \in Seq(AllEvents),
         NEW s \in Seq(AllEvents), NEW h \in Seq(Inputs), NEW e \in AllEvents,
         InOrder(drv, state, d, q, s, h)
  PROVE  InOrder(drv, state, d, Append(q, e), Append(s, e), h)
<1>1. CASE drv = "Joystick"
  <2>1. QueueIsRest(q, s) /\ Shows(state, InputOf(d, SubSeq(s, 1, Consumed(q, s))))
    BY <1>1 DEF InOrder
  <2>2. /\ Len(Append(q, e)) = Len(q) + 1 /\ Len(Append(s, e)) = Len(s) + 1
        /\ \A i \in 1..Len(q) : Append(q, e)[i] = q[i]
        /\ \A i \in 1..Len(s) : Append(s, e)[i] = s[i]
        /\ Append(q, e)[Len(q) + 1] = Append(s, e)[Len(s) + 1]
        /\ Len(q) \in Nat /\ Len(s) \in Nat
    OBVIOUS
  <2>3. Consumed(Append(q, e), Append(s, e)) = Consumed(q, s)
    BY <2>2 DEF Consumed
  <2>4. Consumed(q, s) \in 0..Len(s) /\ Consumed(q, s) + Len(q) = Len(s)
    BY <2>1, <2>2 DEF Consumed, QueueIsRest
  <2>5. ASSUME NEW i \in 1..Len(q) + 1
        PROVE  Append(q, e)[i] = Append(s, e)[Consumed(q, s) + i]
    BY <2>1, <2>4, AppendBoth DEF QueueIsRest
  <2>6. QueueIsRest(Append(q, e), Append(s, e))
    BY <2>2, <2>3, <2>4, <2>5 DEF QueueIsRest
  <2>7. SubSeq(Append(s, e), 1, Consumed(q, s)) = SubSeq(s, 1, Consumed(q, s))
    BY <2>4
  <2> QED BY <1>1, <2>1, <2>3, <2>6, <2>7 DEF InOrder
<1>2. CASE drv # "Joystick"
  <2>1. h \o InputOf(d, q) = InputOf(d, s)
    BY <1>2 DEF InOrder
  <2>2. /\ InputOf(d, Append(q, e)) = InputOf(d, q) \o Input(d, e)
        /\ InputOf(d, Append(s, e)) = InputOf(d, s) \o Input(d, e)
    BY InputOfAppend
  <2>3. (h \o InputOf(d, q)) \o Input(d, e) = h \o (InputOf(d, q) \o Input(d, e))
    <3>1. InputOf(d, q) \in Seq(Inputs) /\ Input(d, e) \in Seq(Inputs)
      BY InputOfType, InputType
    <3>2. \A a, b, c \in Seq(Inputs) : (a \o b) \o c = a \o (b \o c)
      BY SMTT(30)
    <3> QED BY <3>1, <3>2, Zenon
  <2> QED BY <1>2, <2>1, <2>2, <2>3 DEF InOrder
<1> QED BY <1>1, <1>2

(* The first event in the queue is handed to a callback.                   *)
LEMMA HandledInOrder ==
  ASSUME NEW drv, NEW state, NEW d \in Devices, NEW q \in Seq(AllEvents), q # <<>>,
         NEW s \in Seq(AllEvents), NEW h \in Seq(Inputs), drv # "Joystick",
         InOrder(drv, state, d, q, s, h)
  PROVE  InOrder(drv, state, d, Tail(q), s, h \o Input(d, Head(q)))
<1>1. Head(q) \in AllEvents /\ Tail(q) \in Seq(AllEvents)
  OBVIOUS
<1>2. InputOf(d, q) = Input(d, Head(q)) \o InputOf(d, Tail(q))
  BY InputOfFirst
<1>3. (h \o Input(d, Head(q))) \o InputOf(d, Tail(q))
        = h \o (Input(d, Head(q)) \o InputOf(d, Tail(q)))
  <2>1. /\ Input(d, Head(q)) \in Seq(Inputs)
        /\ InputOf(d, Tail(q)) \in Seq(Inputs)
    BY <1>1, InputOfType, InputType
  <2>2. \A a, b, c \in Seq(Inputs) : (a \o b) \o c = a \o (b \o c)
    BY SMTT(30)
  <2> QED BY <2>1, <2>2, Zenon
<1> QED BY <1>2, <1>3 DEF InOrder

(* The first event in the queue is what the joystick shows now.            *)
LEMMA MovedInOrder ==
  ASSUME NEW state, NEW d \in Devices, NEW q \in Seq(AllEvents), q # <<>>,
         NEW s \in Seq(AllEvents), NEW h, InOrder("Joystick", state, d, q, s, h)
  PROVE  InOrder("Joystick", Moved(state, Input(d, Head(q))), d, Tail(q), s, h)
<1> DEFINE k == Consumed(q, s)
           read == SubSeq(s, 1, k)
           more == SubSeq(s, 1, k + 1)
           e == Head(q)
<1>1. QueueIsRest(q, s) /\ Shows(state, InputOf(d, read))
  BY DEF InOrder
<1>2. /\ Len(q) \in Nat \ {0} /\ Len(s) \in Nat /\ e = q[1] /\ e \in AllEvents
      /\ Len(Tail(q)) = Len(q) - 1 /\ \A i \in 1..Len(Tail(q)) : Tail(q)[i] = q[i + 1]
  OBVIOUS
<1>3. k \in Nat /\ k + 1 \in 1..Len(s) /\ Consumed(Tail(q), s) = k + 1 /\ s[k + 1] = e
  <2>1. k = Len(s) - Len(q) /\ Consumed(Tail(q), s) = Len(s) - Len(Tail(q)) /\ k \in Nat
    BY <1>1 DEF Consumed, QueueIsRest
  <2>2. q[1] = s[k + 1]
    BY <1>1, <1>2 DEF QueueIsRest
  <2> QED BY <1>2, <2>1, <2>2
<1>4. read \in Seq(AllEvents) /\ more = Append(read, e)
  BY <1>3
<1>5. QueueIsRest(Tail(q), s)
  <2>1. ASSUME NEW i \in 1..Len(Tail(q)) PROVE Tail(q)[i] = s[(k + 1) + i]
    <3>1. i + 1 \in 1..Len(q) /\ k + (i + 1) = (k + 1) + i
      BY <1>2, <1>3
    <3>2. q[i + 1] = s[k + (i + 1)]
      BY <1>1, <3>1 DEF QueueIsRest
    <3> QED BY <1>2, <3>1, <3>2
  <2> QED BY <1>3, <2>1 DEF QueueIsRest
<1> DEFINE shown == InputOf(d, read)
<1>6. InputOf(d, more) = shown \o Input(d, e) /\ shown \in Seq(Inputs)
  <2>1. InputOf(d, Append(read, e)) = InputOf(d, read) \o Input(d, e)
    BY <1>2, <1>4, InputOfAppend
  <2>2. InputOf(d, read) \in Seq(Inputs)
    BY <1>4, InputOfType
  <2> QED BY <1>4, <2>1, <2>2
<1> HIDE DEF k, read, more, e, shown
<1>7. Shows(Moved(state, Input(d, e)), InputOf(d, more))
  <2>1. CASE Input(d, e) = <<>>
    <3>1. shown \o <<>> = shown
      BY <1>6, ConcatEmptySeq
    <3>2. Moved(state, Input(d, e)) = state
      BY <2>1 DEF Moved
    <3>3. InputOf(d, more) = InputOf(d, read)
      BY <1>6, <2>1, <3>1 DEF shown
    <3> QED BY <1>1, <3>2, <3>3
  <2>2. ASSUME NEW r \in Inputs, Input(d, e) = <<r>>
        PROVE  Shows(Moved(state, Input(d, e)), InputOf(d, more))
    <3>1. InputOf(d, more) = Append(shown, r)
      <4>1. Append(shown, r) = shown \o <<r>>
        BY <1>6, AppendIsConcat
      <4> QED BY <1>6, <2>2, <4>1
    <3>2. Moved(state, Input(d, e)) = Moved(state, <<r>>)
      BY <2>2
    <3>3. ASSUME NEW c \in DOMAIN Moved(state, <<r>>),
                 Latest(Append(shown, r), c) # 0
          PROVE  Moved(state, <<r>>)[c]
                   = Append(shown, r)[Latest(Append(shown, r), c)].value
      <4>1. Latest(Append(shown, r), c)
              = IF r.control = c THEN Len(shown) + 1 ELSE Latest(shown, c)
        BY <1>6, LatestAppend
      <4>2. /\ Append(shown, r)[Len(shown) + 1] = r
            /\ \A i \in 1..Len(shown) : Append(shown, r)[i] = shown[i]
        BY <1>6
      <4>3. CASE r.control = c
        <5>1. Moved(state, <<r>>)[c] = r.value
          BY <4>3 DEF Moved
        <5> QED BY <4>1, <4>2, <4>3, <5>1
      <4>4. CASE r.control # c
        <5>1. c \in DOMAIN state /\ Moved(state, <<r>>)[c] = state[c]
          BY <4>4 DEF Moved
        <5>2. Latest(shown, c) \in 1..Len(shown)
          <6>1. Latest(shown, c) \in 0..Len(shown)
            BY <1>6, LatestType
          <6> QED BY <3>3, <4>1, <4>4, <6>1
        <5>3. state[c] = shown[Latest(shown, c)].value
          BY <1>1, <5>1, <5>2 DEF Shows, shown
        <5> QED BY <4>1, <4>2, <4>4, <5>1, <5>2, <5>3
      <4> QED BY <4>3, <4>4
    <3>4. Shows(Moved(state, <<r>>), Append(shown, r))
      BY <3>3 DEF Shows
    <3> QED BY <3>1, <3>2, <3>4
  <2> QED BY <1>2, <2>1, <2>2, InputType DEF e
<1> QED BY <1>3, <1>5, <1>7 DEF InOrder, more, e

-----------------------------------------------------------------------------
(* Nothing is open and nothing was sent.                                   *)
LEMMA OrderInit == HidAssumption /\ Init => OrderInv
<1> SUFFICES ASSUME HidAssumption, Init PROVE OrderInv
  OBVIOUS
<1>1. HidTypes
  BY DEF Init, HidTypes
<1> QED
  BY <1>1 DEF Init, OrderInv, ThreadFits, ClosedQuiet, OpenedInOrder, Polling

(* Most steps of both threads change none of what the order is about.      *)
LEMMA OtherStep ==
  ASSUME OrderInv, UNCHANGED orderVars, owner' = "open" => owner = "open",
         thread' \in Polling => thread \in Polling
  PROVE  OrderInv'
<1>1. HidTypes'
  BY DEF OrderInv, orderVars, HidTypes, Used
<1>2. ThreadFits'
  BY DEF OrderInv, orderVars, ThreadFits
<1>3. ClosedQuiet'
  BY DEF OrderInv, orderVars, ClosedQuiet
<1>4. OpenedInOrder'
  BY DEF OrderInv, orderVars, OpenedInOrder
<1> QED BY <1>1, <1>2, <1>3, <1>4 DEF OrderInv

(* An event that finds the queue full empties it, and is in order else.    *)
LEMMA EmitStep ==
  ASSUME OrderInv, NEW d \in Devices, NEW e \in Events[d], Emit(d, e)
  PROVE  OrderInv'
<1>1. /\ UNCHANGED <<driver, opened, owner, thread, channels, handled>> /\ d \in opened
      /\ sent' = [sent EXCEPT ![d] = Append(@, e)]
      /\ lost' = [lost EXCEPT ![d] = @ \/ Len(queue[d]) = KernelQueue]
      /\ queue' = [queue EXCEPT ![d] = IF Len(@) = KernelQueue THEN <<e>> ELSE Append(@, e)]
  BY DEF Emit, openVars, outVars
<1>2. e \in AllEvents
  BY DEF AllEvents, Devices
<1>3. HidTypes
  BY DEF OrderInv
<1>4. HidTypes'
  BY <1>1, <1>2, <1>3 DEF HidTypes, Used
<1>5. ThreadFits'
  BY <1>1 DEF OrderInv, ThreadFits
<1>6. ClosedQuiet'
  BY <1>1, <1>3 DEF OrderInv, ClosedQuiet, HidTypes
<1>7. ASSUME NEW d2 \in opened, ~lost'[d2]
      PROVE  InOrder(driver, channels, d2, queue'[d2], sent'[d2], handled[d2])
  <2>1. d2 \in Devices
    BY <1>3 DEF HidTypes, Used, Devices
  <2>2. ~lost[d2] => InOrder(driver, channels, d2, queue[d2], sent[d2], handled[d2])
    BY DEF OrderInv, OpenedInOrder
  <2>3. CASE d2 = d
    <3>1. ~lost[d] /\ queue'[d] = Append(queue[d], e) /\ sent'[d] = Append(sent[d], e)
      BY <1>1, <1>3, <1>7, <2>3 DEF HidTypes
    <3>2. /\ queue[d] \in Seq(AllEvents) /\ sent[d] \in Seq(AllEvents)
          /\ handled[d] \in Seq(Inputs)
      BY <1>3 DEF HidTypes
    <3>3. InOrder(driver, channels, d, queue[d], sent[d], handled[d])
      BY <2>2, <2>3, <3>1
    <3>4. InOrder(driver, channels, d, Append(queue[d], e), Append(sent[d], e), handled[d])
      BY <1>2, <3>2, <3>3, SentInOrder
    <3> QED BY <2>3, <3>1, <3>4
  <2>4. CASE d2 # d
    BY <1>1, <1>3, <1>7, <2>1, <2>2, <2>4 DEF HidTypes
  <2> QED BY <2>3, <2>4
<1>8. OpenedInOrder'
  BY <1>1, <1>7 DEF OpenedInOrder
<1> QED BY <1>4, <1>5, <1>6, <1>8 DEF OrderInv

(* A device that is gone has lost its queue.                               *)
LEMMA UnplugStep ==
  ASSUME OrderInv, NEW d \in Devices, Unplug(d)
  PROVE  OrderInv'
<1>1. /\ UNCHANGED <<driver, opened, owner, thread, channels, handled, sent>>
      /\ lost' = [lost EXCEPT ![d] = TRUE]
      /\ queue' = [queue EXCEPT ![d] = <<>>]
  BY DEF Unplug, openVars, outVars
<1>2. HidTypes
  BY DEF OrderInv
<1>3. HidTypes'
  BY <1>1, <1>2 DEF HidTypes, Used
<1>4. ThreadFits'
  BY <1>1 DEF OrderInv, ThreadFits
<1>5. ClosedQuiet'
  BY <1>1, <1>2 DEF OrderInv, ClosedQuiet, HidTypes
<1>6. ASSUME NEW d2 \in opened, ~lost'[d2]
      PROVE  d2 # d /\ ~lost[d2] /\ queue'[d2] = queue[d2]
  <2>1. d2 \in Devices
    BY <1>2 DEF HidTypes, Used, Devices
  <2> QED BY <1>1, <1>2, <1>6, <2>1 DEF HidTypes
<1>7. OpenedInOrder'
  BY <1>1, <1>6 DEF OrderInv, OpenedInOrder
<1> QED BY <1>3, <1>4, <1>5, <1>7 DEF OrderInv

(* A callback is given what the first event in the queue means.            *)
LEMMA CallbackStep ==
  ASSUME OrderInv, driver # "Joystick", NEW d \in Devices, queue[d] # <<>>,
         UNCHANGED <<driver, sent, lost, opened, owner, thread, channels>>,
         queue' = [queue EXCEPT ![d] = Tail(@)],
         handled' = [handled EXCEPT ![d] = @ \o Input(d, Head(queue[d]))]
  PROVE  OrderInv'
<1>1. HidTypes /\ Head(queue[d]) \in AllEvents /\ Tail(queue[d]) \in Seq(AllEvents)
      /\ queue[d] \in Seq(AllEvents) /\ sent[d] \in Seq(AllEvents)
      /\ handled[d] \in Seq(Inputs)
  BY DEF OrderInv, HidTypes
<1>2. /\ queue'[d] = Tail(queue[d])
      /\ handled'[d] = handled[d] \o Input(d, Head(queue[d]))
      /\ \A d2 \in Devices : d2 # d => queue'[d2] = queue[d2] /\ handled'[d2] = handled[d2]
  BY <1>1 DEF HidTypes
<1>3. HidTypes'
  <2>1. handled[d] \o Input(d, Head(queue[d])) \in Seq(Inputs)
    BY <1>1, InputType, ConcatProperties
  <2> QED BY <1>1, <2>1 DEF HidTypes, Used
<1>4. ThreadFits'
  BY DEF OrderInv, ThreadFits
<1>5. ClosedQuiet'
  BY <1>1, <1>2 DEF OrderInv, ClosedQuiet
<1>6. ASSUME NEW d2 \in opened, ~lost[d2]
      PROVE  InOrder(driver, channels, d2, queue'[d2], sent[d2], handled'[d2])
  <2>1. InOrder(driver, channels, d2, queue[d2], sent[d2], handled[d2])
    BY <1>6 DEF OrderInv, OpenedInOrder
  <2>2. CASE d2 = d
    <3>1. InOrder(driver, channels, d, queue[d], sent[d], handled[d])
      BY <2>1, <2>2
    <3>2. InOrder(driver, channels, d, Tail(queue[d]), sent[d],
                  handled[d] \o Input(d, Head(queue[d])))
      BY <1>1, <3>1, HandledInOrder
    <3> QED BY <1>2, <2>2, <3>2
  <2>3. CASE d2 # d
    <3>1. d2 \in Devices
      BY <1>1 DEF HidTypes, Used, Devices
    <3> QED BY <1>2, <2>1, <2>3, <3>1
  <2> QED BY <2>2, <2>3
<1>7. OpenedInOrder'
  BY <1>6 DEF OpenedInOrder
<1> QED BY <1>3, <1>4, <1>5, <1>7 DEF OrderInv

(* A polling driver opens its device, and starts afresh.                   *)
LEMMA OpenStep ==
  ASSUME OrderInv, Open
  PROVE  OrderInv'
<1>1. /\ UNCHANGED <<driver, queue, channels>> /\ driver # "HidEventListener"
      /\ owner' # "open" /\ opened = {}
      /\ sent' = [d \in Devices |-> <<>>] /\ lost' = [d \in Devices |-> FALSE]
      /\ handled' = [d \in Devices |-> <<>>]
  BY DEF Open, OrderInv, ClosedQuiet
<1>2. opened' = Used \/ opened' = {}
  BY <1>1 DEF Open
<1>3. HidTypes /\ \A d \in Devices : queue[d] = <<>>
  BY <1>1 DEF OrderInv, ClosedQuiet
<1>4. HidTypes'
  BY <1>1, <1>2, <1>3 DEF HidTypes, Used
<1>5. ThreadFits' /\ ClosedQuiet'
  BY <1>1, <1>3 DEF ThreadFits, ClosedQuiet
<1>6. \A d \in opened' : InOrder(driver, channels, d, queue'[d], sent'[d], handled'[d])
  <2>1. \A d \in opened' : d \in Devices
    BY <1>2 DEF Used, Devices
  <2> QED BY <1>1, <1>3, <2>1, FreshInOrder
<1>7. OpenedInOrder'
  BY <1>1, <1>6 DEF OpenedInOrder
<1> QED BY <1>4, <1>5, <1>7 DEF OrderInv

(* A handler that is opened has nothing queued and nothing handled.        *)
LEMMA OpenHandlerStep ==
  ASSUME OrderInv, OwnerInv, NEW d \in Devices, OpenHandler(d)
  PROVE  OrderInv'
<1>1. /\ UNCHANGED <<driver, queue, sent, lost, handled, channels, thread>>
      /\ owner = "open" /\ driver = "HidEventListener" /\ d \in Used \ opened
      /\ (opened' = opened \cup {d} \/ opened' = opened)
  BY DEF OpenHandler, deviceVars, outVars
<1>2. HidTypes'
  BY <1>1 DEF OrderInv, HidTypes, Used
<1>3. ThreadFits'
  BY <1>1 DEF OrderInv, ThreadFits
<1>4. ClosedQuiet'
  BY <1>1 DEF OrderInv, ClosedQuiet
<1>5. queue[d] = <<>> /\ sent[d] = <<>> /\ handled[d] = <<>>
  BY <1>1 DEF OrderInv, ClosedQuiet, OwnerInv, NothingHandled
<1>6. InOrder(driver, channels, d, queue[d], sent[d], handled[d])
  BY <1>5, FreshInOrder
<1>7. OpenedInOrder'
  BY <1>1, <1>6 DEF OrderInv, OpenedInOrder
<1> QED BY <1>2, <1>3, <1>4, <1>7 DEF OrderInv

(* Nothing is open after CloseDevices.                                     *)
LEMMA CloseDevicesStep ==
  ASSUME OrderInv, OwnerInv, CloseDevices
  PROVE  OrderInv'
<1>1. /\ UNCHANGED <<driver, sent, lost, handled, thread>>
      /\ opened' = {} /\ queue' = [d \in Devices |-> <<>>]
      /\ owner' = "done" \/ driver = "Joystick"
  BY DEF CloseDevices, outVars
<1>2. HidTypes'
  BY <1>1 DEF OrderInv, HidTypes, Used
<1>3. ThreadFits' /\ ClosedQuiet' /\ OpenedInOrder'
  BY <1>1 DEF OrderInv, ThreadFits, ClosedQuiet, OpenedInOrder
<1> QED BY <1>2, <1>3 DEF OrderInv

(* The thread of a polling driver reads the one device there is.           *)
LEMMA ReadStep ==
  ASSUME HidAssumption, OrderInv, NEW d \in Devices, ReadEvent(d)
  PROVE  OrderInv'
<1>1. CASE queue[d] = <<>>
  BY <1>1, OtherStep DEF ReadEvent, orderVars, openVars, outVars, Polling
<1>2. CASE queue[d] # <<>>
  <2> DEFINE e == Head(queue[d])
  <2>1. /\ UNCHANGED <<driver, sent, lost, opened, owner, thread>>
        /\ thread = "read" /\ d \in Used /\ queue' = [queue EXCEPT ![d] = Tail(@)]
    BY <1>2 DEF ReadEvent, openVars
  <2>2. HidTypes /\ e \in AllEvents /\ Tail(queue[d]) \in Seq(AllEvents)
        /\ queue[d] \in Seq(AllEvents) /\ sent[d] \in Seq(AllEvents)
        /\ handled[d] \in Seq(Inputs)
    BY <1>2 DEF OrderInv, HidTypes
  <2>3. CASE driver = "Joystick"
    <3>1. Used = {"js"} /\ d = "js" /\ JoystickInput(e) = Input(d, e)
      BY <2>1, <2>3 DEF Used, Input
    <3>2. handled' = handled /\ channels' = Moved(channels, Input(d, e))
      BY <1>2, <2>3, <3>1 DEF ReadEvent
    <3>3. HidTypes'
      BY <2>1, <2>2, <3>2 DEF HidTypes, Used
    <3>4. ThreadFits'
      BY <2>1 DEF OrderInv, ThreadFits
    <3>5. ClosedQuiet'
      BY <1>2, <2>1, <2>2 DEF OrderInv, ClosedQuiet, HidTypes
    <3>6. ASSUME d \in opened, ~lost[d]
          PROVE  InOrder("Joystick", channels', d, queue'[d], sent[d], handled[d])
      <4>1. InOrder("Joystick", channels, d, queue[d], sent[d], handled[d])
        BY <2>3, <3>6 DEF OrderInv, OpenedInOrder
      <4>2. queue'[d] = Tail(queue[d])
        BY <2>1, <2>2 DEF HidTypes
      <4> QED BY <1>2, <2>2, <3>2, <4>1, <4>2, MovedInOrder
    <3>7. \A d2 \in opened : d2 = d
      BY <2>2, <3>1 DEF HidTypes
    <3>8. OpenedInOrder'
      BY <2>1, <2>3, <3>2, <3>6, <3>7 DEF OpenedInOrder
    <3> QED BY <3>3, <3>4, <3>5, <3>8 DEF OrderInv
  <2>4. CASE driver # "Joystick"
    <3>1. driver = "Keyboard" /\ Used = {"kb"} /\ d = "kb" /\ KeyInput(e) = Input(d, e)
      <4>1. driver \in {"Joystick", "Keyboard", "HidEventListener"}
        BY <2>2 DEF HidTypes, HidAssumption
      <4>2. driver # "HidEventListener"
        BY <2>1 DEF OrderInv, ThreadFits, Polling
      <4> QED BY <2>1, <2>4, <4>1, <4>2 DEF Used, Input
    <3>2. channels' = channels /\ handled' = [handled EXCEPT ![d] = @ \o Input(d, e)]
      BY <1>2, <2>4, <3>1 DEF ReadEvent
    <3> QED BY <1>2, <2>1, <2>2, <2>4, <3>2, CallbackStep DEF e
  <2> QED BY <2>3, <2>4
<1> QED BY <1>1, <1>2

(* libevent's loop reads one event of the device whose turn it is.         *)
LEMMA OnInputStep ==
  ASSUME OrderInv, OwnerInv, NEW d \in Devices, OnInputEvent(d)
  PROVE  OrderInv'
<1>1. CASE queue[d] = <<>>
  BY <1>1, OtherStep DEF OnInputEvent, orderVars, openVars, Polling
<1>2. CASE queue[d] # <<>>
  <2>1. /\ UNCHANGED <<driver, sent, lost, opened, owner, thread, channels>>
        /\ queue' = [queue EXCEPT ![d] = Tail(@)]
        /\ handled' = [handled EXCEPT ![d] = @ \o Input(d, Head(queue[d]))]
    BY <1>2 DEF OnInputEvent, openVars
  <2>2. driver # "Joystick"
    BY DEF OnInputEvent, OwnerInv, Listening
  <2> QED BY <1>2, <2>1, <2>2, CallbackStep
<1> QED BY <1>1, <1>2

(* Every step keeps the order.                                             *)
LEMMA DeviceStep ==
  ASSUME HidAssumption, OrderInv, OwnerInv, [Next]_vars
  PROVE  OrderInv'
<1>1. CASE UNCHANGED vars
  BY <1>1, OtherStep DEF vars, deviceVars, openVars, outVars, orderVars
<1>2. CASE Open
  BY <1>2, OpenStep
<1>3. CASE StartListening
  BY <1>3, OtherStep DEF StartListening, deviceVars, openVars, outVars, orderVars, Polling
<1>4. CASE Join
  BY <1>4, OtherStep DEF Join, deviceVars, openVars, outVars, orderVars
<1>5. CASE CloseDevices
  BY <1>5, CloseDevicesStep
<1>6. ASSUME NEW d \in Devices, OpenHandler(d) PROVE OrderInv'
  BY <1>6, OpenHandlerStep
<1>7. ASSUME NEW d \in Devices, AddHidHandler(d) PROVE OrderInv'
  BY <1>7, OtherStep DEF AddHidHandler, deviceVars, outVars, orderVars
<1>8. CASE Close
  BY <1>8, OtherStep DEF Close, deviceVars, openVars, outVars, orderVars
<1>9. CASE LoopBreak
  BY <1>9, OtherStep DEF LoopBreak, deviceVars, openVars, outVars, orderVars
<1>10. ASSUME NEW d \in Devices, Unplug(d) PROVE OrderInv'
  BY <1>10, UnplugStep
<1>11. ASSUME NEW d \in Devices, NEW e \in Events[d], Emit(d, e) PROVE OrderInv'
  BY <1>11, EmitStep
<1>12. CASE TestKeepRunning
  BY <1>12, OtherStep
     DEF TestKeepRunning, deviceVars, openVars, outVars, orderVars, Polling
<1>13. CASE CheckDevice
  BY <1>13, OtherStep DEF CheckDevice, deviceVars, openVars, outVars, orderVars, Polling
<1>14. CASE Dispatch \/ TestBreak \/ NextTurn
  BY <1>14, OtherStep
     DEF Dispatch, TestBreak, NextTurn, deviceVars, openVars, outVars, orderVars, Polling
<1>15. CASE Wait
  <2>1. UNCHANGED <<deviceVars, openVars, outVars, driver, owner>> /\ thread' = "process"
    BY <1>15 DEF Wait
  <2> QED BY <2>1, OtherStep DEF deviceVars, openVars, outVars, orderVars, Polling
<1>16. ASSUME NEW d \in Devices, ReadEvent(d) PROVE OrderInv'
  BY <1>16, ReadStep
<1>17. ASSUME NEW d \in Devices, OnInputEvent(d) PROVE OrderInv'
  BY <1>17, OnInputStep
<1> QED
  BY <1>1, <1>2, <1>3, <1>4, <1>5, <1>6, <1>7, <1>8, <1>9, <1>10, <1>11, <1>12,
     <1>13, <1>14, <1>15, <1>16, <1>17, Zenon DEF Next, Owner, Thread

(* The invariant says what InputInOrder says, of what has been read.       *)
LEMMA OrderIsInput == OrderInv => InputInOrder
<1> SUFFICES ASSUME OrderInv PROVE InputInOrder
  OBVIOUS
<1>1. ASSUME NEW d \in opened, ~lost[d], driver = "Joystick",
             NEW c \in DOMAIN channels
      PROVE  LET inputs == InputOf(d, SubSeq(sent[d], 1, Len(sent[d]) - Len(queue[d])))
             IN  Latest(inputs, c) # 0 => channels[c] = inputs[Latest(inputs, c)].value
  BY <1>1 DEF OrderInv, OpenedInOrder, InOrder, Shows, Consumed
<1>2. ASSUME NEW d \in opened, ~lost[d], driver # "Joystick"
      PROVE  handled[d] \o InputOf(d, queue[d]) = InputOf(d, sent[d])
  BY <1>2 DEF OrderInv, OpenedInOrder, InOrder
<1> QED BY <1>1, <1>2 DEF InputInOrder, Latest

(* The order of the inputs holds for whatever the devices send, however    *)
(* the turns of the loop and of the kernel's queues come, and for every    *)
(* table of keys and range of axes.                                        *)
THEOREM OrderOfInput == Spec => []InputInOrder
<1>1. Init => OrderInv /\ OwnerInv
  BY HidAssumption, OrderInit, OwnerInit
<1>2. OrderInv /\ OwnerInv /\ [Next]_vars => (OrderInv /\ OwnerInv)'
  BY HidAssumption, DeviceStep, OwnerStep
<1>3. OrderInv /\ OwnerInv => InputInOrder
  BY OrderIsInput
<1> QED BY <1>1, <1>2, <1>3, PTL DEF Spec
-----------------------------------------------------------------------------
(* The rest of the types.                                                  *)
LoopTypes ==
  /\ plugged \subseteq Devices /\ notify \in BOOLEAN
  /\ \A d \in Devices : Len(queue[d]) <= KernelQueue
  /\ added \subseteq Used /\ opens \in Nat
  /\ owner \in {"open", "run", "join", "close", "done", "terminated"}
  /\ thread \in {"none", "loop", "poll", "read", "starting", "top", "wait",
                 "process", "exited", "terminated"}
  /\ active \in Seq(Devices)
  /\ keep_running \in BOOLEAN /\ event_break \in BOOLEAN

(* Whatever order libevent takes the ready devices in is a sequence.       *)
LEMMA ReadyType ==
  ASSUME NEW S \in SUBSET Devices, NEW s \in SetToSeqs(S)
  PROVE  s \in Seq(Devices)
<1>1. IsFiniteSet(Devices)
  <2>1. Devices = {"js"} \cup {"kb"}
    BY DEF Devices
  <2> QED BY <2>1, FS_Singleton, FS_AddElement
<1>2. Cardinality(S) \in Nat
  BY <1>1, FS_Subset, FS_CardinalityType
<1>3. s \in [1..Cardinality(S) -> S]
  BY DEF SetToSeqs
<1> QED BY <1>2, <1>3

(* Every step keeps them.                                                  *)
LEMMA LoopStep ==
  ASSUME HidTypes, LoopTypes, [Next]_vars
  PROVE  LoopTypes'
<1> USE DEF LoopTypes, deviceVars, openVars, loopVars, outVars
<1>1. CASE UNCHANGED vars
  <2>1. UNCHANGED <<driver, plugged, notify, queue, added, opens, owner, thread, active,
                    keep_running, event_break>>
    BY <1>1 DEF vars
  <2>2. Used' = Used
    BY <2>1 DEF Used
  <2> QED BY <2>1, <2>2
<1>2. CASE Open
  <2>1. Used' = Used /\ opens' \in Nat
    BY <1>2 DEF Open, Used
  <2>2. /\ UNCHANGED <<plugged, queue, added, active, event_break>>
        /\ notify' \in BOOLEAN /\ keep_running' \in BOOLEAN
        /\ owner' \in {"run", "done"} /\ thread' \in {"loop", thread}
    BY <1>2 DEF Open
  <2> QED BY <2>1, <2>2
<1>3. CASE StartListening
  BY <1>3 DEF StartListening, Used
<1>4. CASE Join
  BY <1>4 DEF Join, Used
<1>5. CASE CloseDevices
  <2>1. \A d \in Devices : queue'[d] = <<>>
    BY <1>5 DEF CloseDevices
  <2>2. \A d \in Devices : Len(queue'[d]) <= KernelQueue
    BY <2>1, HidAssumption
  <2> QED BY <1>5, <2>2 DEF CloseDevices, Used
<1>6. ASSUME NEW d \in Devices, OpenHandler(d) PROVE LoopTypes'
  BY <1>6 DEF OpenHandler, Used
<1>7. ASSUME NEW d \in Devices, AddHidHandler(d) PROVE LoopTypes'
  <2>1. added' \subseteq Used /\ UNCHANGED driver
    BY <1>7 DEF AddHidHandler
  <2> QED BY <1>7, <2>1 DEF AddHidHandler, Used
<1>8. CASE Close
  BY <1>8 DEF Close, Used
<1>9. CASE LoopBreak
  BY <1>9 DEF LoopBreak, Used
<1>10. ASSUME NEW d \in Devices, Unplug(d) PROVE LoopTypes'
  <2>1. \A k \in Devices : queue'[k] = queue[k] \/ queue'[k] = <<>>
    BY <1>10 DEF Unplug, HidTypes
  <2>2. \A k \in Devices : Len(queue'[k]) <= KernelQueue
    BY <2>1, HidAssumption
  <2> QED BY <1>10, <2>2 DEF Unplug, Used
<1>11. ASSUME NEW d \in Devices, NEW e \in Events[d], Emit(d, e) PROVE LoopTypes'
  <2>1. \A k \in Devices : \/ queue'[k] = queue[k]
                           \/ queue'[k] = <<e>>
                           \/ queue'[k] = Append(queue[k], e) /\ Len(queue[k]) # KernelQueue
    BY <1>11 DEF Emit, HidTypes
  <2>2. \A k \in Devices : Len(queue'[k]) <= KernelQueue
    <3> SUFFICES ASSUME NEW k \in Devices PROVE Len(queue'[k]) <= KernelQueue
      OBVIOUS
    <3>1. queue[k] \in Seq(AllEvents) /\ Len(queue[k]) <= KernelQueue
      BY DEF HidTypes
    <3>2. Len(<<e>>) = 1 /\ Len(Append(queue[k], e)) = Len(queue[k]) + 1
      BY <3>1
    <3>3. Len(queue[k]) \in Nat /\ KernelQueue \in Nat /\ KernelQueue >= 1
      BY <3>1, HidAssumption
    <3>4. \/ Len(queue'[k]) = Len(queue[k]) \/ Len(queue'[k]) = 1
          \/ Len(queue'[k]) = Len(queue[k]) + 1 /\ Len(queue[k]) # KernelQueue
      BY <2>1, <3>2
    <3> HIDE DEF LoopTypes
    <3>5. \A x \in Nat : \A y :
            /\ x <= KernelQueue
            /\ y = x \/ y = 1 \/ y = x - 1 \/ (y = x + 1 /\ x # KernelQueue)
            => y <= KernelQueue
      BY <3>3
    <3> QED BY <3>1, <3>3, <3>4, <3>5
  <2> QED BY <1>11, <2>2 DEF Emit, Used
<1>12. CASE TestKeepRunning
  BY <1>12 DEF TestKeepRunning, Used
<1>13. CASE CheckDevice
  BY <1>13 DEF CheckDevice, Used
<1>14. CASE Dispatch \/ TestBreak \/ NextTurn
  BY <1>14 DEF Dispatch, TestBreak, NextTurn, Used
<1>15. CASE Wait
  <2>1. Ready \in SUBSET Devices
    BY DEF Ready, Used, Devices
  <2>2. active' \in Seq(Devices)
    BY <1>15, <2>1, ReadyType DEF Wait
  <2> QED BY <1>15, <2>2 DEF Wait, Used
<1>16. ASSUME NEW d \in Devices, ReadEvent(d) \/ OnInputEvent(d) PROVE LoopTypes'
  <2>1. \A k \in Devices : \/ queue'[k] = queue[k]
                           \/ queue[k] # <<>> /\ queue'[k] = Tail(queue[k])
    BY <1>16 DEF ReadEvent, OnInputEvent, HidTypes
  <2>2. \A k \in Devices : Len(queue'[k]) <= KernelQueue
    <3> SUFFICES ASSUME NEW k \in Devices PROVE Len(queue'[k]) <= KernelQueue
      OBVIOUS
    <3>1. queue[k] \in Seq(AllEvents) /\ Len(queue[k]) <= KernelQueue
      BY DEF HidTypes
    <3>2. queue[k] # <<>> => Len(Tail(queue[k])) = Len(queue[k]) - 1
      BY <3>1
    <3>3. Len(queue[k]) \in Nat /\ KernelQueue \in Nat /\ KernelQueue >= 1
      BY <3>1, HidAssumption
    <3>4. \/ Len(queue'[k]) = Len(queue[k]) \/ Len(queue'[k]) = Len(queue[k]) - 1
      BY <2>1, <3>2
    <3> HIDE DEF LoopTypes
    <3>5. \A x \in Nat : \A y :
            /\ x <= KernelQueue
            /\ y = x \/ y = 1 \/ y = x - 1 \/ (y = x + 1 /\ x # KernelQueue)
            => y <= KernelQueue
      BY <3>3
    <3> QED BY <3>1, <3>3, <3>4, <3>5
  <2>3. active' \in Seq(Devices)
    <3>1. active' = active \/ active' = <<>> \/ (active # <<>> /\ active' = Tail(active))
      BY <1>16 DEF ReadEvent, OnInputEvent
    <3>2. active \in Seq(Devices)
      OBVIOUS
    <3>3. CASE active' = <<>>
      BY <3>3
    <3>4. CASE active # <<>> /\ active' = Tail(active)
      <4>1. Tail(active) \in Seq(Devices)
        BY <3>2, <3>4
      <4> QED BY <3>4, <4>1
    <3>5. CASE active' = active
      BY <3>2, <3>5
    <3> QED BY <3>1, <3>3, <3>4, <3>5
  <2>5. thread' = "loop" \/ thread' = thread
    BY <1>16 DEF ReadEvent, OnInputEvent
  <2>4. UNCHANGED <<driver, plugged, notify, opened, added, opens, owner,
                    keep_running, event_break>>
    BY <1>16 DEF ReadEvent, OnInputEvent
  <2> QED BY <2>2, <2>3, <2>4, <2>5 DEF Used
<1> QED
  BY <1>1, <1>2, <1>3, <1>4, <1>5, <1>6, <1>7, <1>8, <1>9, <1>10, <1>11, <1>12,
     <1>13, <1>14, <1>15, <1>16, Zenon DEF Next, Owner, Thread

(* Variables have their types, and the kernel's queues keep their bound.   *)
THEOREM TypeCorrect == Spec => []TypeOK
<1>1. Init => OrderInv /\ OwnerInv
  BY HidAssumption, OrderInit, OwnerInit
<1>2. Init => LoopTypes
  <2> SUFFICES ASSUME Init PROVE LoopTypes
    OBVIOUS
  <2>1. \A d \in Devices : Len(queue[d]) <= KernelQueue
    BY HidAssumption DEF Init
  <2>2. plugged \subseteq Devices /\ added \subseteq Used /\ active \in Seq(Devices)
    BY DEF Init
  <2> QED BY <2>1, <2>2 DEF Init, LoopTypes
<1>3. OrderInv /\ OwnerInv /\ [Next]_vars => (OrderInv /\ OwnerInv)'
  BY HidAssumption, DeviceStep, OwnerStep
<1>4. OrderInv /\ LoopTypes /\ [Next]_vars => LoopTypes'
  BY LoopStep DEF OrderInv
<1>5. OrderInv /\ LoopTypes => TypeOK
  BY DEF OrderInv, LoopTypes, HidTypes, TypeOK
<1> QED BY <1>1, <1>2, <1>3, <1>4, <1>5, PTL DEF Spec
=============================================================================
