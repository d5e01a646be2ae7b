-------------------------- MODULE FileWatch_proofs --------------------------
(***************************************************************************)
(* From a change of a file to its fingerprint, for any files, queue sizes  *)
(* and numbers of jobs: kinds are merged, a completion that read the file  *)
(* before the last event is rejected, and no change is forgotten.          *)
(***************************************************************************)
EXTENDS FileWatch, Integers, SequenceTheorems, FiniteSetTheorems, WellFoundedInduction, TLAPS

-----------------------------------------------------------------------------
(***************************************************************************)
(* The kernel's queue.                                                     *)
(***************************************************************************)
FileMask == {"create", "modify", "delete", "moved_from", "moved_to"}
KernelEvent == [path : Paths, mask : FileMask] \cup
               [path : {<<>>}, mask : {"overflow", "delete_self", "ignored"}]

LEMMA NoFileIsNameless == \A p \in Paths : p # <<>>
BY WatchAssumption

LEMMA KernelEvents ==
    /\ \A p \in Paths, mask \in FileMask : Event(p, mask) \in KernelEvent
    /\ \A mask \in {"overflow", "delete_self", "ignored"} : Nameless(mask) \in KernelEvent
BY DEF KernelEvent, Event, Nameless

\* The queue holds what it held, and hears nothing without a watch.
LEMMA EnqueuedKeeps ==
    ASSUME NEW q \in Seq(KernelEvent), NEW e \in KernelEvent
    PROVE  /\ Enqueued(q, e) \in Seq(KernelEvent)
           /\ PathsOf(q) \subseteq PathsOf(Enqueued(q, e))
           /\ ~watch => Enqueued(q, e) = q
<1>1. \/ Enqueued(q, e) = q
      \/ Enqueued(q, e) = Append(q, e)
      \/ Enqueued(q, e) = Append(q, Nameless("overflow"))
  BY DEF Enqueued
<1>2. ~watch => Enqueued(q, e) = q
  BY DEF Enqueued, Heard
<1>3. ASSUME NEW x \in KernelEvent
      PROVE  Append(q, x) \in Seq(KernelEvent) /\ PathsOf(q) \subseteq PathsOf(Append(q, x))
  <2>1. Append(q, x) \in Seq(KernelEvent) /\ Len(Append(q, x)) = Len(q) + 1
    OBVIOUS
  <2>2. \A i \in DOMAIN q : i \in DOMAIN Append(q, x) /\ Append(q, x)[i] = q[i]
    OBVIOUS
  <2> QED  BY <2>1, <2>2 DEF PathsOf
<1>4. Nameless("overflow") \in KernelEvent
  BY KernelEvents
<1> QED  BY <1>1, <1>2, <1>3, <1>4

-----------------------------------------------------------------------------
(***************************************************************************)
(* Induction, and what poll_events reads.                                  *)
(***************************************************************************)
LEMMA FromZeroOn ==
    ASSUME NEW S, S \subseteq Nat, 0 \in S, \A n \in S : n + 1 \in S
    PROVE  S = Nat
<1> SUFFICES ASSUME Nat \ S # {}
             PROVE  FALSE
  OBVIOUS
<1>1. IsWellFoundedOn(OpToRel(<, Nat), Nat)
  BY NatLessThanWellFounded
<1>2. PICK n \in Nat \ S : \A m \in Nat \ S : ~(<<m, n>> \in OpToRel(<, Nat))
  BY <1>1, WFMin
<1>3. \A m \in Nat \ S : ~(m < n)
  BY <1>2 DEF OpToRel
<1>4. n # 0 /\ n - 1 \in Nat /\ n - 1 \in S
  BY <1>3
<1> QED  BY <1>4

\* The loop of poll_events after each of the first k events.
WithEvent(s, e) == IF Named(e) THEN Append(s, FileEvent(e)) ELSE s
IsOut(f, q, k) ==
    /\ f = [i \in 0..k |-> f[i]]
    /\ f[0] = <<>>
    /\ \A i \in 1..k : f[i] = WithEvent(f[i - 1], q[i])
OutEquation(f, q) ==
    f = [i \in 0..Len(q) |->
            IF i = 0 THEN <<>>
            ELSE IF Named(q[i]) THEN Append(f[i - 1], FileEvent(q[i]))
            ELSE f[i - 1]]

LEMMA OutExists ==
    ASSUME NEW q, NEW k \in Nat
    PROVE  \E f : IsOut(f, q, k)
<1> DEFINE S == {n \in Nat : \E f : IsOut(f, q, n)}
<1>1. 0 \in S
  <2> DEFINE f == [i \in 0..0 |-> <<>>]
  <2>1. IsOut(f, q, 0)
    BY DEF IsOut
  <2> QED  BY <2>1
<1>2. ASSUME NEW n \in S
      PROVE  n + 1 \in S
  <2>1. PICK f : IsOut(f, q, n)
    OBVIOUS
  <2> DEFINE g == [i \in 0..(n + 1) |-> IF i <= n THEN f[i] ELSE WithEvent(f[n], q[n + 1])]
  <2>2. \A i \in 0..n : g[i] = f[i]
    OBVIOUS
  <2>3. g[n + 1] = WithEvent(f[n], q[n + 1])
    OBVIOUS
  <2>4. ASSUME NEW i \in 1..(n + 1)
        PROVE  g[i] = WithEvent(g[i - 1], q[i])
    <3>1. CASE i \in 1..n
      <4>1. i \in 0..n /\ i - 1 \in 0..n
        BY <3>1
      <4>2. f[i] = WithEvent(f[i - 1], q[i])
        BY <2>1, <3>1 DEF IsOut
      <4> QED  BY <2>2, <4>1, <4>2
    <3>2. CASE i = n + 1
      <4>1. i - 1 = n /\ n \in 0..n
        BY <3>2
      <4> QED  BY <2>2, <2>3, <3>2, <4>1
    <3> QED  BY <3>1, <3>2
  <2>5. g = [i \in 0..(n + 1) |-> g[i]] /\ g[0] = <<>>
    BY <2>1, <2>2 DEF IsOut
  <2>6. IsOut(g, q, n + 1)
    BY <2>4, <2>5 DEF IsOut
  <2> QED  BY <2>6
<1> HIDE DEF S
<1>3. S = Nat
  <2>1. S \subseteq Nat
    BY DEF S
  <2> QED  BY <2>1, <1>1, <1>2, FromZeroOn
<1> QED  BY <1>3 DEF S

LEMMA ReadIsOut ==
    ASSUME NEW q, Len(q) \in Nat
    PROVE  \E f : IsOut(f, q, Len(q)) /\ Read(q) = f[Len(q)]
<1>1. PICK f : IsOut(f, q, Len(q))
  BY OutExists
<1>2. OutEquation(f, q)
  <2> DEFINE body(i) == IF i = 0 THEN <<>>
                        ELSE IF Named(q[i]) THEN Append(f[i - 1], FileEvent(q[i]))
                        ELSE f[i - 1]
  <2>1. \A i \in 0..Len(q) : f[i] = body(i)
    <3>1. \A i \in 0..Len(q) : i = 0 \/ i \in 1..Len(q)
      OBVIOUS
    <3> QED  BY <3>1, <1>1 DEF IsOut, WithEvent
  <2>2. f = [i \in 0..Len(q) |-> f[i]]
    BY <1>1 DEF IsOut
  <2> HIDE DEF body
  <2>3. f = [i \in 0..Len(q) |-> body(i)]
    BY <2>1, <2>2
  <2> QED  BY <2>3 DEF OutEquation, body
<1>3. PICK g : g = CHOOSE h : OutEquation(h, q)
  OBVIOUS
<1>4. OutEquation(g, q)
  BY <1>2, <1>3
<1>5. Read(q) = g[Len(q)]
  BY <1>3 DEF Read, OutEquation
<1>6. IsOut(g, q, Len(q))
  <2> DEFINE body(i) == IF i = 0 THEN <<>>
                        ELSE IF Named(q[i]) THEN Append(g[i - 1], FileEvent(q[i]))
                        ELSE g[i - 1]
  <2>1. g = [i \in 0..Len(q) |-> body(i)]
    BY <1>4 DEF OutEquation
  <2> HIDE DEF body
  <2>2. \A i \in 0..Len(q) : g[i] = body(i)
    BY <2>1
  <2>3. g = [i \in 0..Len(q) |-> g[i]]
    BY <2>1
  <2>4. g[0] = <<>>
    BY <2>2 DEF body
  <2>5. \A i \in 1..Len(q) : i \in 0..Len(q) /\ i # 0
    OBVIOUS
  <2>6. \A i \in 1..Len(q) : g[i] = WithEvent(g[i - 1], q[i])
    BY <2>2, <2>5 DEF body, WithEvent
  <2> QED  BY <2>3, <2>4, <2>6 DEF IsOut
<1> QED  BY <1>5, <1>6

PolledEvent == [path : Paths, kind : FileEventKind]

\* poll_events returns an event for every file that the queue names.
LEMMA ReadKeepsPaths ==
    ASSUME NEW q \in Seq(KernelEvent)
    PROVE  Read(q) \in Seq(PolledEvent) /\ PathsOf(q) \subseteq PathsOf(Read(q))
<1>1. Len(q) \in Nat /\ DOMAIN q = 1..Len(q)
  OBVIOUS
<1>2. PICK f : IsOut(f, q, Len(q)) /\ Read(q) = f[Len(q)]
  BY <1>1, ReadIsOut
<1>3. ASSUME NEW i \in 1..Len(q)
      PROVE  /\ Named(q[i]) => FileEvent(q[i]) \in PolledEvent /\ FileEvent(q[i]).path = q[i].path
             /\ q[i].path \in Paths => Named(q[i])
  <2>1. q[i] \in KernelEvent
    OBVIOUS
  <2>2. CASE q[i] \in [path : Paths, mask : FileMask]
    <3>1. q[i].path \in Paths /\ q[i].path # <<>> /\ q[i].mask \in FileMask
      BY <2>2, NoFileIsNameless
    <3>2. map_kind(q[i].mask) \in FileEventKind /\ map_kind(q[i].mask) # "none"
      BY <3>1 DEF map_kind, FileMask, FileEventKind
    <3> QED  BY <3>1, <3>2 DEF Named, FileEvent, PolledEvent
  <2>3. CASE q[i] \in [path : {<<>>}, mask : {"overflow", "delete_self", "ignored"}]
    <3>1. q[i].path = <<>>
      BY <2>3
    <3> QED  BY <3>1, NoFileIsNameless DEF Named
  <2> QED  BY <2>1, <2>2, <2>3 DEF KernelEvent
<1> DEFINE Holds(k) ==
      /\ f[k] \in Seq(PolledEvent)
      /\ \A i \in 1..k : q[i].path \in Paths => \E j \in 1..Len(f[k]) : f[k][j].path = q[i].path
<1> DEFINE S == {k \in Nat : k <= Len(q) => Holds(k)}
<1>4. 0 \in S
  BY <1>2 DEF IsOut
<1>5. ASSUME NEW n \in S
      PROVE  n + 1 \in S
  <2> SUFFICES ASSUME n + 1 <= Len(q)
               PROVE  Holds(n + 1)
    OBVIOUS
  <2>1. Holds(n) /\ n + 1 \in 1..Len(q) /\ (n + 1) - 1 = n
    BY <1>1
  <2>2. f[n + 1] = WithEvent(f[n], q[n + 1])
    BY <2>1, <1>2 DEF IsOut
  <2>3. CASE Named(q[n + 1])
    <3>1. PICK e \in PolledEvent : e = FileEvent(q[n + 1])
      BY <2>1, <2>3, <1>3
    <3>2. e.path = q[n + 1].path
      BY <2>1, <2>3, <3>1, <1>3
    <3>3. f[n + 1] = Append(f[n], e)
      BY <2>2, <2>3, <3>1 DEF WithEvent
    <3>4. PICK s : s = f[n]
      OBVIOUS
    <3>5. PICK t : t = f[n + 1]
      OBVIOUS
    <3>6. s \in Seq(PolledEvent) /\ t = Append(s, e)
      BY <2>1, <3>3, <3>4, <3>5
    <3>7. /\ t \in Seq(PolledEvent) /\ Len(s) \in Nat /\ Len(t) = Len(s) + 1 /\ t[Len(s) + 1] = e
          /\ \A j \in 1..Len(s) : t[j] = s[j]
      BY <3>6
    <3>8. ASSUME NEW i \in 1..(n + 1), q[i].path \in Paths
          PROVE  \E j \in 1..Len(t) : t[j].path = q[i].path
      <4>1. CASE i = n + 1
        BY <4>1, <3>2, <3>7
      <4>2. CASE i \in 1..n
        <5>1. PICK j \in 1..Len(s) : s[j].path = q[i].path
          BY <2>1, <3>4, <3>8, <4>2
        <5> QED  BY <5>1, <3>7
      <4> QED  BY <4>1, <4>2
    <3> QED  BY <3>5, <3>7, <3>8
  <2>4. CASE ~Named(q[n + 1])
    <3>1. f[n + 1] = f[n]
      BY <2>2, <2>4 DEF WithEvent
    <3>2. q[n + 1].path \notin Paths
      BY <2>1, <2>4, <1>3
    <3>3. \A i \in 1..(n + 1) : q[i].path \in Paths => i \in 1..n
      BY <3>2
    <3> QED  BY <2>1, <3>1, <3>3
  <2> QED  BY <2>3, <2>4
<1>6. S = Nat
  <2>1. S \subseteq Nat
    OBVIOUS
  <2> HIDE DEF S
  <2> QED  BY <2>1, <1>4, <1>5, FromZeroOn
<1>7. Holds(Len(q))
  BY <1>1, <1>6
<1>8. PICK r : r = Read(q)
  OBVIOUS
<1>9. /\ r \in Seq(PolledEvent)
      /\ \A i \in 1..Len(q) : q[i].path \in Paths => \E j \in 1..Len(r) : r[j].path = q[i].path
  BY <1>2, <1>7, <1>8
<1>10. PathsOf(q) \subseteq PathsOf(r)
  <2>1. DOMAIN r = 1..Len(r)
    BY <1>9
  <2> QED  BY <2>1, <1>1, <1>9 DEF PathsOf
<1> QED  BY <1>8, <1>9, <1>10

-----------------------------------------------------------------------------
(***************************************************************************)
(* normalize leaves the path of a file as it is.                           *)
(***************************************************************************)
NormalEquation(f, parts) ==
    f = [i \in 0..Len(parts) |-> IF i = 0 THEN <<>> ELSE Step(f[i - 1], parts[i])]

LEMMA NormalOfPlain ==
    ASSUME NEW p, Plain(p)
    PROVE  lexically_normal(p) = p
<1>1. p \in Seq(STRING) /\ Len(p) \in Nat /\ DOMAIN p = 1..Len(p)
  BY DEF Plain
<1>2. ASSUME NEW n \in Nat, n + 1 <= Len(p)
      PROVE  Step(SubSeq(p, 1, n), p[n + 1]) = SubSeq(p, 1, n + 1)
  <2>1. n + 1 \in 1..Len(p)
    BY <1>1, <1>2
  <2>2. p[n + 1] \notin Here \cup {Up}
    BY <2>1, <1>1 DEF Plain
  <2>3. Step(SubSeq(p, 1, n), p[n + 1]) = Append(SubSeq(p, 1, n), p[n + 1])
    BY <2>2 DEF Step
  <2>4. Append(SubSeq(p, 1, n), p[n + 1]) = SubSeq(p, 1, n + 1)
    BY <2>1, <1>1
  <2> QED  BY <2>3, <2>4
<1>3. SubSeq(p, 1, 0) = <<>> /\ SubSeq(p, 1, Len(p)) = p
  BY <1>1
<1>4. \E f : NormalEquation(f, p)
  <2>1. PICK f : f = [i \in 0..Len(p) |-> SubSeq(p, 1, i)]
    OBVIOUS
  <2>2. \A i \in 0..Len(p) : f[i] = SubSeq(p, 1, i)
    BY <2>1
  <2> DEFINE body(i) == IF i = 0 THEN <<>> ELSE Step(f[i - 1], p[i])
  <2>3. ASSUME NEW i \in 0..Len(p)
        PROVE  SubSeq(p, 1, i) = body(i)
    <3>1. CASE i = 0
      BY <3>1, <1>3
    <3>2. CASE i # 0
      <4>1. i - 1 \in Nat /\ (i - 1) + 1 = i /\ i <= Len(p) /\ i - 1 \in 0..Len(p)
        BY <3>2, <1>1
      <4>2. Step(SubSeq(p, 1, i - 1), p[i]) = SubSeq(p, 1, i)
        BY <4>1, <1>2
      <4>3. f[i - 1] = SubSeq(p, 1, i - 1)
        BY <4>1, <2>2
      <4> QED  BY <3>2, <4>2, <4>3
    <3> QED  BY <3>1, <3>2
  <2> HIDE DEF body
  <2>4. f = [i \in 0..Len(p) |-> body(i)]
    BY <2>1, <2>3
  <2> QED  BY <2>4 DEF NormalEquation, body
<1>5. PICK g : g = CHOOSE h : NormalEquation(h, p)
  OBVIOUS
<1>6. NormalEquation(g, p)
  BY <1>4, <1>5
<1>7. lexically_normal(p) = g[Len(p)]
  BY <1>5 DEF lexically_normal, NormalEquation
<1>8. g[0] = <<>> /\ \A i \in 1..Len(p) : g[i] = Step(g[i - 1], p[i])
  <2> DEFINE body(i) == IF i = 0 THEN <<>> ELSE Step(g[i - 1], p[i])
  <2>1. g = [i \in 0..Len(p) |-> body(i)]
    BY <1>6 DEF NormalEquation
  <2> HIDE DEF body
  <2>2. \A i \in 0..Len(p) : g[i] = body(i)
    BY <2>1
  <2>3. 0 \in 0..Len(p) /\ \A i \in 1..Len(p) : i \in 0..Len(p) /\ i # 0
    BY <1>1
  <2> QED  BY <2>2, <2>3 DEF body
<1> DEFINE S == {k \in Nat : k <= Len(p) => g[k] = SubSeq(p, 1, k)}
<1>9. 0 \in S
  BY <1>3, <1>8
<1>10. ASSUME NEW n \in S
       PROVE  n + 1 \in S
  <2> SUFFICES ASSUME n + 1 <= Len(p)
               PROVE  g[n + 1] = SubSeq(p, 1, n + 1)
    OBVIOUS
  <2>1. g[n] = SubSeq(p, 1, n) /\ n + 1 \in 1..Len(p) /\ (n + 1) - 1 = n
    BY <1>1
  <2>2. g[n + 1] = Step(g[n], p[n + 1])
    BY <2>1, <1>8
  <2> QED  BY <2>1, <2>2, <1>2
<1> HIDE DEF S
<1>11. S = Nat
  <2>1. S \subseteq Nat
    BY DEF S
  <2> QED  BY <2>1, <1>9, <1>10, FromZeroOn
<1>12. g[Len(p)] = SubSeq(p, 1, Len(p))
  BY <1>1, <1>11 DEF S
<1> QED  BY <1>3, <1>7, <1>12

LEMMA FilesAreNormal ==
    ASSUME NEW p \in Paths
    PROVE  Normalize([absolute |-> FALSE, parts |-> p]) = p
<1>1. Plain(p) /\ p # <<>>
  BY WatchAssumption
<1>2. lexically_normal(p) = p
  BY <1>1, NormalOfPlain
<1>3. PICK path : path = [absolute |-> FALSE, parts |-> p]
  OBVIOUS
<1>4. path.absolute = FALSE /\ path.parts = p
  BY <1>3
<1>5. Normalize(path) = p
  BY <1>1, <1>2, <1>4 DEF Normalize, Plain
<1> QED  BY <1>3, <1>5

-----------------------------------------------------------------------------
(***************************************************************************)
(* What normalize makes of any spelling.                                   *)
(***************************************************************************)

\* A loop over n places that starts with b has a value at each of them.
LoopStays(F, A, n) == \A x \in A, i \in 1..n : F[<<x, i>>] \in A
IsLoop(f, F, A, b, n) ==
    f \in [0..n -> A] /\ f[0] = b /\ \A i \in 1..n : f[i] = F[<<f[i - 1], i>>]

LEMMA LoopExists ==
    ASSUME NEW A, NEW b \in A, NEW n \in Nat, NEW F, LoopStays(F, A, n)
    PROVE  \E f : IsLoop(f, F, A, b, n)
<1> DEFINE Loop(f, k) == IsLoop(f, F, A, b, k)
<1> DEFINE S == {k \in Nat : k <= n => \E f : Loop(f, k)}
<1>1. 0 \in S
  <2>1. PICK f : f = [i \in 0..0 |-> b]
    OBVIOUS
  <2>2. Loop(f, 0)
    BY <2>1 DEF IsLoop
  <2> QED  BY <2>2
<1>2. ASSUME NEW k \in S
      PROVE  k + 1 \in S
  <2> SUFFICES ASSUME k + 1 <= n
               PROVE  \E f : Loop(f, k + 1)
    OBVIOUS
  <2>1. PICK f : Loop(f, k)
    OBVIOUS
  <2>2. PICK x : x = F[<<f[k], k + 1>>]
    OBVIOUS
  <2>3. k \in 0..k /\ k + 1 \in 1..n /\ x \in A
    BY <2>1, <2>2 DEF LoopStays, IsLoop
  <2>4. PICK g : g = [i \in 0..(k + 1) |-> IF i <= k THEN f[i] ELSE x]
    OBVIOUS
  <2>5. g \in [0..(k + 1) -> A]
    BY <2>1, <2>3, <2>4 DEF IsLoop
  <2>6. g[k + 1] = x /\ \A i \in 0..k : g[i] = f[i]
    BY <2>4
  <2>7. ASSUME NEW i \in 1..(k + 1)
        PROVE  g[i] = F[<<g[i - 1], i>>]
    <3>1. CASE i = k + 1
      <4>1. i - 1 = k
        BY <3>1
      <4> QED  BY <3>1, <4>1, <2>2, <2>3, <2>6
    <3>2. CASE i \in 1..k
      <4>1. i \in 0..k /\ i - 1 \in 0..k
        BY <3>2
      <4>2. f[i] = F[<<f[i - 1], i>>]
        BY <2>1, <3>2 DEF IsLoop
      <4> QED  BY <4>1, <4>2, <2>6
    <3> QED  BY <3>1, <3>2
  <2>8. g[0] = b
    BY <2>1, <2>6 DEF IsLoop
  <2>9. Loop(g, k + 1)
    BY <2>5, <2>7, <2>8 DEF IsLoop
  <2> QED  BY <2>9
<1> HIDE DEF S
<1>3. S = Nat
  <2>1. S \subseteq Nat
    BY DEF S
  <2> QED  BY <2>1, <1>1, <1>2, FromZeroOn
<1>4. n \in S /\ n <= n
  BY <1>3
<1> QED  BY <1>4 DEF S

LEMMA StepIsSeq ==
    ASSUME NEW Part, NEW s \in Seq(Part), NEW part \in Part
    PROVE  Step(s, part) \in Seq(Part)
<1>1. s # <<>> => Front(s) \in Seq(Part)
  BY DEF Front
<1>2. Append(s, part) \in Seq(Part)
  OBVIOUS
<1>3. \/ Step(s, part) = s \/ Step(s, part) = Append(s, part)
      \/ s # <<>> /\ Step(s, part) = Front(s)
  BY DEF Step
<1> QED  BY <1>1, <1>2, <1>3

\* lexically_normal takes the components one by one.
LEMMA NormalIsLoop ==
    ASSUME NEW Part, NEW p \in Seq(Part)
    PROVE  \E g \in [0..Len(p) -> Seq(Part)] :
              /\ g[0] = <<>> /\ \A i \in 1..Len(p) : g[i] = Step(g[i - 1], p[i])
              /\ lexically_normal(p) = g[Len(p)]
<1>1. PICK n \in Nat : n = Len(p)
  OBVIOUS
<1>2. \A i \in 1..n : p[i] \in Part
  BY <1>1
<1>3. \E f : NormalEquation(f, p)
  <2>1. PICK F : F = [x \in Seq(Part) \X (1..n) |-> Step(x[1], p[x[2]])]
    OBVIOUS
  <2>2. \A x \in Seq(Part), i \in 1..n : F[<<x, i>>] = Step(x, p[i])
    BY <2>1
  <2>3. \A x \in Seq(Part), i \in 1..n : F[<<x, i>>] \in Seq(Part)
    BY <2>2, <1>2, StepIsSeq
  <2>4. <<>> \in Seq(Part)
    OBVIOUS
  <2>5. PICK f \in [0..n -> Seq(Part)] : f[0] = <<>> /\ \A i \in 1..n : f[i] = F[<<f[i - 1], i>>]
    <3>1. PICK A, b : A = Seq(Part) /\ b = <<>>
      OBVIOUS
    <3>2. b \in A /\ LoopStays(F, A, n)
      BY <2>3, <2>4, <3>1 DEF LoopStays
    <3>3. PICK f : IsLoop(f, F, A, b, n)
      BY <3>2, LoopExists
    <3> QED  BY <3>1, <3>3 DEF IsLoop
  <2> DEFINE body(i) == IF i = 0 THEN <<>> ELSE Step(f[i - 1], p[i])
  <2>6. ASSUME NEW i \in 0..n
        PROVE  f[i] = body(i)
    <3>1. CASE i = 0
      BY <3>1, <2>5
    <3>2. CASE i # 0
      <4>1. i \in 1..n /\ i - 1 \in 0..n
        BY <3>2
      <4>2. f[i - 1] \in Seq(Part)
        BY <4>1
      <4> QED  BY <3>2, <4>1, <4>2, <2>2, <2>5
    <3> QED  BY <3>1, <3>2
  <2> HIDE DEF body
  <2>7. f = [i \in 0..n |-> body(i)]
    BY <2>6
  <2> QED  BY <2>7, <1>1 DEF NormalEquation, body
<1>4. PICK g : g = CHOOSE h : NormalEquation(h, p)
  OBVIOUS
<1>5. NormalEquation(g, p)
  BY <1>3, <1>4
<1>6. lexically_normal(p) = g[n]
  BY <1>1, <1>4 DEF lexically_normal, NormalEquation
<1>7. /\ g[0] = <<>> /\ \A i \in 1..n : g[i] = Step(g[i - 1], p[i])
      /\ g = [i \in 0..n |-> g[i]]
  <2> DEFINE body(i) == IF i = 0 THEN <<>> ELSE Step(g[i - 1], p[i])
  <2>1. g = [i \in 0..n |-> body(i)]
    BY <1>1, <1>5 DEF NormalEquation
  <2> HIDE DEF body
  <2>2. (\A i \in 0..n : g[i] = body(i)) /\ g = [i \in 0..n |-> g[i]]
    BY <2>1
  <2>3. 0 \in 0..n /\ \A i \in 1..n : i \in 0..n /\ i # 0
    OBVIOUS
  <2> QED  BY <2>2, <2>3 DEF body
<1> DEFINE S == {k \in Nat : k <= n => g[k] \in Seq(Part)}
<1>8. 0 \in S
  BY <1>7
<1>9. ASSUME NEW k \in S
      PROVE  k + 1 \in S
  <2> SUFFICES ASSUME k + 1 <= n
               PROVE  g[k + 1] \in Seq(Part)
    OBVIOUS
  <2>1. g[k] \in Seq(Part) /\ k + 1 \in 1..n /\ (k + 1) - 1 = k
    OBVIOUS
  <2>2. g[k + 1] = Step(g[k], p[k + 1])
    BY <2>1, <1>7
  <2> QED  BY <2>1, <2>2, <1>2, StepIsSeq
<1> HIDE DEF S
<1>10. S = Nat
  <2>1. S \subseteq Nat
    BY DEF S
  <2> QED  BY <2>1, <1>8, <1>9, FromZeroOn
<1>11. \A i \in 0..n : g[i] \in Seq(Part)
  BY <1>10 DEF S
<1>12. g \in [0..n -> Seq(Part)]
  BY <1>7, <1>11
<1> QED  BY <1>1, <1>6, <1>7, <1>12

LEMMA FrontIs ==
    ASSUME NEW Part, NEW s \in Seq(Part), 0 < Len(s)
    PROVE  /\ Front(s) \in Seq(Part) /\ Len(Front(s)) = Len(s) - 1
           /\ \A i \in 1..Len(Front(s)) : Front(s)[i] = s[i]
<1>1. PICK n \in Nat : n = Len(s) - 1
  OBVIOUS
<1>2. PICK t : t = SubSeq(s, 1, n)
  OBVIOUS
<1>3. n <= Len(s) /\ \A i \in 1..n : i \in 1..Len(s)
  BY <1>1
<1>4. t \in Seq(Part) /\ Len(t) = n /\ \A i \in 1..n : t[i] = s[i]
  BY <1>2, <1>3
<1>5. Front(s) = t
  BY <1>1, <1>2 DEF Front
<1> QED  BY <1>1, <1>4, <1>5

LEMMA UpIsNoName == Up \notin Here
BY DEF Up, Here

LEMMA WalkIsSeq ==
    ASSUME NEW Part, NEW s \in Seq(Part), NEW part \in Part
    PROVE  Walk(s, part) \in Seq(Part)
<1>1. s # <<>> => Front(s) \in Seq(Part)
  BY DEF Front
<1>2. Append(s, part) \in Seq(Part) /\ <<>> \in Seq(Part)
  OBVIOUS
<1>3. \/ Walk(s, part) = s \/ Walk(s, part) = Append(s, part) \/ Walk(s, part) = <<>>
      \/ s # <<>> /\ Walk(s, part) = Front(s)
  BY UpIsNoName DEF Walk
<1> QED  BY <1>1, <1>2, <1>3

\* So does the walk to what a path denotes.
From(path) == IF path.absolute THEN <<>> ELSE Root
DenotedEquation(f, path) ==
    f = [i \in 0..Len(path.parts) |->
            IF i = 0 THEN IF path.absolute THEN <<>> ELSE Root
            ELSE Walk(f[i - 1], path.parts[i])]

LEMMA DenotedIsLoop ==
    ASSUME NEW Part, NEW path, path.parts \in Seq(Part), Root \in Seq(Part)
    PROVE  \E g \in [0..Len(path.parts) -> Seq(Part)] :
              /\ g[0] = From(path)
              /\ \A i \in 1..Len(path.parts) : g[i] = Walk(g[i - 1], path.parts[i])
              /\ Denoted(path) = g[Len(path.parts)]
<1>1. PICK p \in Seq(Part), n \in Nat : p = path.parts /\ n = Len(p)
  OBVIOUS
<1>2. \A i \in 1..n : p[i] \in Part
  BY <1>1
<1>3. \E f : DenotedEquation(f, path)
  <2>1. PICK F : F = [x \in Seq(Part) \X (1..n) |-> Walk(x[1], p[x[2]])]
    OBVIOUS
  <2>2. \A x \in Seq(Part), i \in 1..n : F[<<x, i>>] = Walk(x, p[i])
    BY <2>1
  <2>3. \A x \in Seq(Part), i \in 1..n : F[<<x, i>>] \in Seq(Part)
    BY <2>2, <1>2, WalkIsSeq
  <2>4. From(path) \in Seq(Part)
    BY DEF From
  <2>5. PICK f \in [0..n -> Seq(Part)] : f[0] = From(path) /\ \A i \in 1..n : f[i] = F[<<f[i - 1], i>>]
    <3>1. PICK A, b : A = Seq(Part) /\ b = From(path)
      OBVIOUS
    <3>2. b \in A /\ LoopStays(F, A, n)
      BY <2>3, <2>4, <3>1 DEF LoopStays
    <3>3. PICK f : IsLoop(f, F, A, b, n)
      BY <3>2, LoopExists
    <3> QED  BY <3>1, <3>3 DEF IsLoop
  <2> DEFINE body(i) == IF i = 0 THEN From(path) ELSE Walk(f[i - 1], p[i])
  <2>6. ASSUME NEW i \in 0..n
        PROVE  f[i] = body(i)
    <3>1. CASE i = 0
      BY <3>1, <2>5
    <3>2. CASE i # 0
      <4>1. i \in 1..n /\ i - 1 \in 0..n
        BY <3>2
      <4>2. f[i - 1] \in Seq(Part)
        BY <4>1
      <4> QED  BY <3>2, <4>1, <4>2, <2>2, <2>5
    <3> QED  BY <3>1, <3>2
  <2> HIDE DEF body
  <2>7. f = [i \in 0..n |-> body(i)]
    BY <2>6
  <2> QED  BY <2>7, <1>1 DEF DenotedEquation, From, body
<1>4. PICK g : g = CHOOSE h : DenotedEquation(h, path)
  OBVIOUS
<1>5. DenotedEquation(g, path)
  BY <1>3, <1>4
<1>6. Denoted(path) = g[n]
  BY <1>1, <1>4 DEF Denoted, DenotedEquation
<1>7. /\ g[0] = From(path) /\ \A i \in 1..n : g[i] = Walk(g[i - 1], p[i])
      /\ g = [i \in 0..n |-> g[i]]
  <2> DEFINE body(i) == IF i = 0 THEN From(path) ELSE Walk(g[i - 1], p[i])
  <2>1. g = [i \in 0..n |-> body(i)]
    BY <1>1, <1>5 DEF DenotedEquation, From
  <2> HIDE DEF body
  <2>2. (\A i \in 0..n : g[i] = body(i)) /\ g = [i \in 0..n |-> g[i]]
    BY <2>1
  <2>3. 0 \in 0..n /\ \A i \in 1..n : i \in 0..n /\ i # 0
    OBVIOUS
  <2> QED  BY <2>2, <2>3 DEF body
<1> DEFINE S == {k \in Nat : k <= n => g[k] \in Seq(Part)}
<1>8. 0 \in S
  <2>1. From(path) \in Seq(Part)
    BY DEF From
  <2> QED  BY <2>1, <1>7
<1>9. ASSUME NEW k \in S
      PROVE  k + 1 \in S
  <2> SUFFICES ASSUME k + 1 <= n
               PROVE  g[k + 1] \in Seq(Part)
    OBVIOUS
  <2>1. g[k] \in Seq(Part) /\ k + 1 \in 1..n /\ (k + 1) - 1 = k
    OBVIOUS
  <2>2. g[k + 1] = Walk(g[k], p[k + 1])
    BY <2>1, <1>7
  <2> QED  BY <2>1, <2>2, <1>2, WalkIsSeq
<1> HIDE DEF S
<1>10. S = Nat
  <2>1. S \subseteq Nat
    BY DEF S
  <2> QED  BY <2>1, <1>8, <1>9, FromZeroOn
<1>11. \A i \in 0..n : g[i] \in Seq(Part)
  BY <1>10 DEF S
<1>12. g \in [0..n -> Seq(Part)]
  BY <1>7, <1>11
<1> QED  BY <1>1, <1>6, <1>7, <1>12

\* A normal path goes up k times and then down along names.
IsName(part) == part \notin Here \cup {Up}
Shape(s, k) ==
    /\ k \in 0..Len(s)
    /\ \A i \in 1..k : s[i] = Up
    /\ \A i \in (k + 1)..Len(s) : IsName(s[i])
Rest(s, k) == SubSeq(s, k + 1, Len(s))

LEMMA RestIs ==
    ASSUME NEW Part, NEW s \in Seq(Part), NEW k \in Nat, k <= Len(s)
    PROVE  /\ Rest(s, k) \in Seq(Part) /\ Len(Rest(s, k)) = Len(s) - k
           /\ \A i \in 1..Len(Rest(s, k)) : Rest(s, k)[i] = s[i + k]
<1>1. Len(s) \in Nat
  OBVIOUS
<1>2. PICK r : r = Rest(s, k)
  OBVIOUS
<1>3. r \in Seq(Part) /\ Len(r) = Len(s) - k /\ \A i \in 1..Len(r) : r[i] = s[i + k]
  BY <1>1, <1>2 DEF Rest
<1> QED  BY <1>2, <1>3

LEMMA StepHere ==
    ASSUME NEW s, NEW part \in Here
    PROVE  Step(s, part) = s /\ Walk(s, part) = s
<1>1. part # Up
  BY UpIsNoName
<1> QED  BY <1>1 DEF Step, Walk

\* ".." takes a name back.
LEMMA StepBack ==
    ASSUME NEW Part, NEW s \in Seq(Part), NEW k \in Nat, Shape(s, k), k < Len(s), NEW t, t = Step(s, Up)
    PROVE  /\ t \in Seq(Part) /\ Len(t) = Len(s) - 1 /\ t = Front(s)
           /\ Shape(t, k) /\ Rest(t, k) = Walk(Rest(s, k), Up)
<1>1. Len(s) \in Nat /\ Len(s) \in (k + 1)..Len(s)
  OBVIOUS
<1>2. s # <<>> /\ Last(s) # Up
  BY <1>1 DEF Shape, Last, IsName
<1>3. t = Front(s)
  BY <1>2, UpIsNoName DEF Step
<1>4. /\ t \in Seq(Part) /\ Len(t) = Len(s) - 1
      /\ \A i \in 1..Len(t) : t[i] = s[i]
  BY <1>1, <1>3, FrontIs
<1>5. Shape(t, k)
  BY <1>1, <1>4 DEF Shape
<1>6. PICK r : r = Rest(s, k)
  OBVIOUS
<1>7. r \in Seq(Part) /\ Len(r) = Len(s) - k /\ \A i \in 1..Len(r) : r[i] = s[i + k]
  BY <1>1, <1>6 DEF Rest
<1>8. Walk(r, Up) = Front(r)
  BY <1>1, <1>7, UpIsNoName DEF Walk
<1>9. PICK u : u = Front(r)
  OBVIOUS
<1>10. u \in Seq(Part) /\ Len(u) = Len(r) - 1 /\ \A i \in 1..Len(u) : u[i] = r[i]
  <2>1. 0 < Len(r)
    BY <1>1, <1>7
  <2> QED  BY <2>1, <1>7, <1>9, FrontIs
<1>11. PICK v : v = Rest(t, k)
  OBVIOUS
<1>12. v \in Seq(Part) /\ Len(v) = Len(t) - k /\ \A i \in 1..Len(v) : v[i] = t[i + k]
  BY <1>1, <1>4, <1>11 DEF Rest
<1>13. u = v
  <2>1. Len(u) = Len(v)
    BY <1>1, <1>4, <1>7, <1>10, <1>12
  <2>2. ASSUME NEW i \in 1..Len(u)
        PROVE  u[i] = v[i]
    <3>1. i \in 1..Len(r) /\ i \in 1..Len(v) /\ i + k \in 1..Len(t)
      BY <1>1, <1>4, <1>7, <1>10, <1>12
    <3> QED  BY <3>1, <1>4, <1>7, <1>10, <1>12
  <2> QED  BY <2>1, <2>2, <1>10, <1>12, SeqEqual
<1> QED  BY <1>3, <1>4, <1>5, <1>6, <1>8, <1>9, <1>11, <1>13

\* ".." goes up where there is no name to take back.
LEMMA StepUp ==
    ASSUME NEW Part, NEW s \in Seq(Part), Up \in Part, NEW k \in Nat, Shape(s, k), k = Len(s), NEW t, t = Step(s, Up)
    PROVE  /\ t \in Seq(Part)
           /\ Shape(t, k + 1) /\ Rest(t, k + 1) = Walk(Rest(s, k), Up)
<1>1. s = <<>> \/ Last(s) = Up
  <2>1. CASE k = 0
    BY <2>1, EmptySeq
  <2>2. CASE k # 0
    <3>1. k \in 1..k
      BY <2>2
    <3> QED  BY <3>1 DEF Shape, Last
  <2> QED  BY <2>1, <2>2
<1>2. t = Append(s, Up)
  BY <1>1, UpIsNoName DEF Step
<1>3. /\ t \in Seq(Part) /\ Len(t) = Len(s) + 1 /\ t[Len(s) + 1] = Up
      /\ \A i \in 1..Len(s) : t[i] = s[i]
  BY <1>2
<1>4. Shape(t, k + 1)
  BY <1>3 DEF Shape
<1>5. Rest(s, k) = <<>> /\ Rest(t, k + 1) = <<>>
  BY <1>3 DEF Rest
<1>6. Walk(<<>>, Up) = <<>>
  BY UpIsNoName DEF Walk
<1> QED  BY <1>3, <1>4, <1>5, <1>6

LEMMA StepName ==
    ASSUME NEW Part, NEW s \in Seq(Part), NEW part \in Part, IsName(part),
           NEW k \in Nat, Shape(s, k), NEW t, t = Step(s, part)
    PROVE  /\ t \in Seq(Part) /\ Len(t) = Len(s) + 1 /\ t = Append(s, part)
           /\ Shape(t, k) /\ Rest(t, k) = Walk(Rest(s, k), part)
<1>1. t = Append(s, part) /\ Walk(Rest(s, k), part) = Append(Rest(s, k), part)
  BY DEF IsName, Step, Walk
<1>2. /\ t \in Seq(Part) /\ Len(t) = Len(s) + 1 /\ t[Len(s) + 1] = part
      /\ \A i \in 1..Len(s) : t[i] = s[i]
  BY <1>1
<1>3. Shape(t, k)
  BY <1>2 DEF Shape
<1>4. PICK r : r = Rest(s, k)
  OBVIOUS
<1>5. r \in Seq(Part) /\ Len(r) = Len(s) - k /\ \A i \in 1..Len(r) : r[i] = s[i + k]
  BY <1>4 DEF Rest, Shape
<1>6. PICK u : u = Append(r, part)
  OBVIOUS
<1>7. /\ u \in Seq(Part) /\ Len(u) = Len(r) + 1 /\ u[Len(r) + 1] = part
      /\ \A i \in 1..Len(r) : u[i] = r[i]
  BY <1>5, <1>6
<1>8. PICK v : v = Rest(t, k)
  OBVIOUS
<1>9. v \in Seq(Part) /\ Len(v) = Len(t) - k /\ \A i \in 1..Len(v) : v[i] = t[i + k]
  BY <1>2, <1>8 DEF Rest, Shape
<1>10. u = v
  <2>1. Len(u) = Len(v) /\ Len(r) \in Nat
    BY <1>2, <1>5, <1>7, <1>9
  <2>2. ASSUME NEW i \in 1..Len(u)
        PROVE  u[i] = v[i]
    <3>1. CASE i = Len(r) + 1
      <4>1. i \in 1..Len(v) /\ i + k = Len(s) + 1
        BY <3>1, <2>1, <1>5
      <4> QED  BY <3>1, <4>1, <1>2, <1>7, <1>9
    <3>2. CASE i \in 1..Len(r)
      <4>1. i \in 1..Len(v) /\ i + k \in 1..Len(s)
        BY <3>2, <2>1, <1>5, <1>7
      <4> QED  BY <3>2, <4>1, <1>2, <1>5, <1>7, <1>9
    <3> QED  BY <3>1, <3>2, <2>1, <1>7
  <2> QED  BY <2>1, <2>2, <1>7, <1>9, SeqEqual
<1> QED  BY <1>1, <1>2, <1>3, <1>4, <1>6, <1>8, <1>10

\* Below the root the walk and the normal path go together, as long as the
\* path does not leave.
LEMMA StepBelow ==
    ASSUME NEW Part, NEW s \in Seq(Part), NEW part \in Part, NEW root \in Seq(Part),
           ~(part = Up /\ s = <<>>), Shape(s, 0)
    PROVE  Walk(root \o s, part) = root \o Step(s, part)
<1>1. CASE part \in Here
  BY <1>1, StepHere
<1>2. CASE part = Up
  <2>1. Len(s) \in Nat /\ 0 < Len(s)
    BY <1>2
  <2>2. Step(s, part) = Front(s)
    BY <1>2, <2>1, StepBack
  <2>3. PICK w : w = root \o s
    OBVIOUS
  <2>4. /\ w \in Seq(Part) /\ Len(w) = Len(root) + Len(s) /\ Len(root) \in Nat
        /\ \A i \in 1..Len(w) : w[i] = IF i <= Len(root) THEN root[i] ELSE s[i - Len(root)]
    BY <2>3
  <2>5. w # <<>>
    BY <2>1, <2>4
  <2>6. Walk(w, part) = Front(w)
    BY <1>2, <2>5, UpIsNoName DEF Walk
  <2>7. PICK f, g : f = Front(s) /\ g = Front(w)
    OBVIOUS
  <2>8. f \in Seq(Part) /\ Len(f) = Len(s) - 1 /\ \A i \in 1..Len(f) : f[i] = s[i]
    BY <2>1, <2>7, FrontIs
  <2>9. g \in Seq(Part) /\ Len(g) = Len(w) - 1 /\ \A i \in 1..Len(g) : g[i] = w[i]
    <3>1. 0 < Len(w)
      BY <2>1, <2>4
    <3> QED  BY <3>1, <2>4, <2>7, FrontIs
  <2>10. PICK h : h = root \o f
    OBVIOUS
  <2>11. /\ h \in Seq(Part) /\ Len(h) = Len(root) + Len(f)
         /\ \A i \in 1..Len(h) : h[i] = IF i <= Len(root) THEN root[i] ELSE f[i - Len(root)]
    BY <2>8, <2>10, ConcatProperties
  <2>12. g = h
    <3>1. Len(g) = Len(h)
      BY <2>1, <2>4, <2>8, <2>9, <2>11
    <3>2. ASSUME NEW i \in 1..Len(g)
          PROVE  g[i] = h[i]
      <4>1. i \in 1..Len(w) /\ i \in 1..Len(h)
        BY <3>1, <2>1, <2>4, <2>9
      <4>2. CASE i <= Len(root)
        BY <4>1, <4>2, <2>4, <2>9, <2>11
      <4>3. CASE ~(i <= Len(root))
        <5>1. i - Len(root) \in 1..Len(f)
          BY <4>1, <4>3, <2>4, <2>8, <2>11
        <5> QED  BY <4>1, <4>3, <5>1, <2>4, <2>8, <2>9, <2>11
      <4> QED  BY <4>2, <4>3
    <3> QED  BY <3>1, <3>2, <2>9, <2>11, SeqEqual
  <2> QED  BY <2>2, <2>3, <2>6, <2>7, <2>10, <2>12
<1>3. CASE IsName(part)
  <2>1. Step(s, part) = Append(s, part) /\ Walk(root \o s, part) = Append(root \o s, part)
    BY <1>3 DEF IsName, Step, Walk
  <2>2. Append(root \o s, part) = root \o Append(s, part)
    OBVIOUS
  <2> QED  BY <2>1, <2>2
<1> QED  BY <1>1, <1>2, <1>3 DEF IsName

\* How deep the first n components lead, and whether they leave.
UpsOf(p, n) == {i \in 1..n : p[i] = Up}
StaysOf(p, n) == {i \in 1..n : p[i] \in Here}
Depth(p, n) == n - Cardinality(StaysOf(p, n)) - 2 * Cardinality(UpsOf(p, n))

LEMMA CountIsNat ==
    ASSUME NEW n \in Nat, NEW S \in SUBSET (1..n)
    PROVE  IsFiniteSet(S) /\ Cardinality(S) \in Nat
<1>1. 0 \in Int /\ 1 \in Int /\ n \in Int
  OBVIOUS
<1>2. IsFiniteSet(1..n)
  BY <1>1, FS_Interval
<1> QED  BY <1>2, FS_Subset, FS_CardinalityType

LEMMA CountNext ==
    ASSUME NEW n \in Nat, NEW S \in SUBSET (1..n)
    PROVE  Cardinality(S \cup {n + 1}) = Cardinality(S) + 1
<1>1. n + 1 \notin S
  OBVIOUS
<1>2. IsFiniteSet(S)
  BY CountIsNat
<1> QED  BY <1>1, <1>2, FS_AddElement

LEMMA DepthNext ==
    ASSUME NEW p, NEW n \in Nat
    PROVE  /\ Depth(p, n) \in Int /\ Depth(p, 0) = 0
           /\ p[n + 1] \in Here => Depth(p, n + 1) = Depth(p, n)
           /\ p[n + 1] = Up => Depth(p, n + 1) = Depth(p, n) - 1
           /\ IsName(p[n + 1]) => Depth(p, n + 1) = Depth(p, n) + 1
<1>1. PICK U, V : U = UpsOf(p, n) /\ V = StaysOf(p, n)
  OBVIOUS
<1>2. U \in SUBSET (1..n) /\ V \in SUBSET (1..n)
  BY <1>1 DEF UpsOf, StaysOf
<1>3. \A i \in 1..(n + 1) : i \in 1..n \/ i = n + 1
  OBVIOUS
<1>4. UpsOf(p, n + 1) = IF p[n + 1] = Up THEN U \cup {n + 1} ELSE U
  BY <1>1, <1>3 DEF UpsOf
<1>5. StaysOf(p, n + 1) = IF p[n + 1] \in Here THEN V \cup {n + 1} ELSE V
  BY <1>1, <1>3 DEF StaysOf
<1>6. Cardinality(U) \in Nat /\ Cardinality(V) \in Nat
  BY <1>2, CountIsNat
<1>7. Cardinality(U \cup {n + 1}) = Cardinality(U) + 1 /\ Cardinality(V \cup {n + 1}) = Cardinality(V) + 1
  BY <1>2, CountNext
<1>8. Depth(p, n) \in Int
  BY <1>1, <1>6 DEF Depth
<1>9. Depth(p, 0) = 0
  <2>1. UpsOf(p, 0) = {} /\ StaysOf(p, 0) = {}
    BY DEF UpsOf, StaysOf
  <2>2. Cardinality({}) = 0
    BY FS_EmptySet
  <2> QED  BY <2>1, <2>2 DEF Depth
<1>10. CASE p[n + 1] \in Here
  <2>1. p[n + 1] # Up /\ ~IsName(p[n + 1])
    BY <1>10, UpIsNoName DEF IsName
  <2>2. Cardinality(UpsOf(p, n + 1)) = Cardinality(U) /\ Cardinality(StaysOf(p, n + 1)) = Cardinality(V) + 1
    BY <1>10, <2>1, <1>4, <1>5, <1>7
  <2> QED  BY <1>10, <2>1, <2>2, <1>1, <1>6, <1>8, <1>9 DEF Depth
<1>11. CASE p[n + 1] = Up
  <2>1. p[n + 1] \notin Here /\ ~IsName(p[n + 1])
    BY <1>11, UpIsNoName DEF IsName
  <2>2. Cardinality(UpsOf(p, n + 1)) = Cardinality(U) + 1 /\ Cardinality(StaysOf(p, n + 1)) = Cardinality(V)
    BY <1>11, <2>1, <1>4, <1>5, <1>7
  <2> QED  BY <1>11, <2>1, <2>2, <1>1, <1>6, <1>8, <1>9 DEF Depth
<1>12. CASE IsName(p[n + 1])
  <2>1. p[n + 1] \notin Here /\ p[n + 1] # Up
    BY <1>12 DEF IsName
  <2>2. Cardinality(UpsOf(p, n + 1)) = Cardinality(U) /\ Cardinality(StaysOf(p, n + 1)) = Cardinality(V)
    BY <2>1, <1>4, <1>5
  <2> QED  BY <2>1, <2>2, <1>1, <1>6, <1>8, <1>9 DEF Depth
<1> QED  BY <1>10, <1>11, <1>12 DEF IsName

LEMMA LeavesIsDepth ==
    ASSUME NEW Part, NEW path, path.parts \in Seq(Part)
    PROVE  Leaves(path) <=> \E n \in 1..Len(path.parts) : Depth(path.parts, n) < 0
<1>1. PICK p \in Seq(Part) : p = path.parts
  OBVIOUS
<1>2. ASSUME NEW n \in 1..Len(p)
      PROVE  2 * Cardinality(UpsOf(p, n)) > n - Cardinality(StaysOf(p, n)) <=> Depth(p, n) < 0
  <2>1. n \in Nat /\ UpsOf(p, n) \in SUBSET (1..n) /\ StaysOf(p, n) \in SUBSET (1..n)
    BY DEF UpsOf, StaysOf
  <2>2. Cardinality(UpsOf(p, n)) \in Nat /\ Cardinality(StaysOf(p, n)) \in Nat
    BY <2>1, CountIsNat
  <2> QED  BY <2>1, <2>2 DEF Depth
<1>3. DOMAIN p = 1..Len(p)
  OBVIOUS
<1>4. Leaves(path) <=> \E n \in 1..Len(p) : 2 * Cardinality(UpsOf(p, n)) > n - Cardinality(StaysOf(p, n))
  BY <1>1, <1>3 DEF Leaves, UpsOf, StaysOf
<1> QED  BY <1>1, <1>2, <1>4

\* After the first n components: what normalize holds, s, and where the walk
\* is, w.
Along(path, n, s, w, k) ==
    /\ Shape(s, k)
    /\ k = 0 <=> \A j \in 1..n : Depth(path.parts, j) >= 0
    /\ k = 0 => Len(s) = Depth(path.parts, n)
    /\ path.absolute => w = Rest(s, k)
    /\ ~path.absolute /\ k = 0 => w = Root \o s

LEMMA AlongStarts ==
    ASSUME NEW Part, NEW path, path.absolute \in BOOLEAN, Root \in Seq(Part)
    PROVE  Along(path, 0, <<>>, From(path), 0)
<1>1. Shape(<<>>, 0) /\ Len(<<>>) = 0 /\ Rest(<<>>, 0) = <<>>
  BY DEF Shape, Rest
<1>2. Root \o <<>> = Root
  BY ConcatEmptySeq
<1>3. Depth(path.parts, 0) = 0
  BY DepthNext
<1> QED  BY <1>1, <1>2, <1>3 DEF Along, From

LEMMA AlongGoesOn ==
    ASSUME NEW Part, Root \in Seq(Part), NEW path, path.absolute \in BOOLEAN, path.parts \in Seq(Part),
           NEW n \in Nat, n + 1 <= Len(path.parts),
           NEW s \in Seq(Part), NEW w, NEW k \in Nat, Along(path, n, s, w, k)
    PROVE  \E l \in Nat : Along(path, n + 1, Step(s, path.parts[n + 1]), Walk(w, path.parts[n + 1]), l)
<1>1. PICK p \in Seq(Part) : p = path.parts
  OBVIOUS
<1>2. PICK part \in Part : part = p[n + 1]
  <2>1. n + 1 \in 1..Len(p)
    BY <1>1
  <2> QED  BY <2>1
<1>3. PICK t, v : t = Step(s, part) /\ v = Walk(w, part)
  OBVIOUS
<1>4. /\ Depth(p, n) \in Int
      /\ part \in Here => Depth(p, n + 1) = Depth(p, n)
      /\ part = Up => Depth(p, n + 1) = Depth(p, n) - 1
      /\ IsName(part) => Depth(p, n + 1) = Depth(p, n) + 1
  BY <1>2, DepthNext
<1>5. /\ Shape(s, k) /\ (k = 0 <=> \A j \in 1..n : Depth(p, j) >= 0)
      /\ k = 0 => Len(s) = Depth(p, n)
      /\ path.absolute => w = Rest(s, k)
      /\ ~path.absolute /\ k = 0 => w = Root \o s
  BY <1>1 DEF Along
<1>6. Len(s) \in Nat /\ (k <= Len(s))
  BY <1>5 DEF Shape
<1>7. (\A j \in 1..(n + 1) : Depth(p, j) >= 0) <=> (\A j \in 1..n : Depth(p, j) >= 0) /\ Depth(p, n + 1) >= 0
  <2>1. \A j \in 1..(n + 1) : j \in 1..n \/ j = n + 1
    OBVIOUS
  <2>2. n + 1 \in 1..(n + 1) /\ \A j \in 1..n : j \in 1..(n + 1)
    OBVIOUS
  <2> QED  BY <2>1, <2>2
<1>8. ~path.absolute /\ k = 0 /\ ~(part = Up /\ s = <<>>) => v = Root \o t
  <2>1. k = 0 => Shape(s, 0)
    BY <1>5
  <2> QED  BY <2>1, <1>3, <1>5, StepBelow
<1>9. CASE part \in Here
  <2>1. t = s /\ v = w /\ part # Up
    BY <1>3, <1>9, StepHere, UpIsNoName
  <2>2. Along(path, n + 1, t, v, k)
    BY <2>1, <1>1, <1>4, <1>5, <1>6, <1>7, <1>9 DEF Along
  <2> QED  BY <2>2, <1>1, <1>2, <1>3
<1>10. CASE part = Up /\ k < Len(s)
  <2>1. Len(t) = Len(s) - 1 /\ Shape(t, k) /\ Rest(t, k) = Walk(Rest(s, k), part)
    BY <1>3, <1>5, <1>10, StepBack
  <2>2. s # <<>>
    BY <1>10
  <2>3. Along(path, n + 1, t, v, k)
    <3>1. k = 0 => Len(t) = Depth(p, n + 1) /\ Depth(p, n + 1) >= 0
      BY <2>1, <1>4, <1>5, <1>6, <1>10
    <3>2. path.absolute => v = Rest(t, k)
      BY <2>1, <1>3, <1>5
    <3>3. ~path.absolute /\ k = 0 => v = Root \o t
      BY <2>2, <1>8
    <3> QED  BY <2>1, <3>1, <3>2, <3>3, <1>1, <1>5, <1>7 DEF Along
  <2> QED  BY <2>3, <1>1, <1>2, <1>3
<1>11. CASE part = Up /\ k = Len(s)
  <2>1. Shape(t, k + 1) /\ Rest(t, k + 1) = Walk(Rest(s, k), part)
    BY <1>3, <1>5, <1>11, StepUp
  <2>2. Along(path, n + 1, t, v, k + 1)
    <3>1. k = 0 => ~(Depth(p, n + 1) >= 0)
      <4>1. k = 0 => Depth(p, n) = 0
        BY <1>5, <1>11
      <4>2. Depth(p, n + 1) = Depth(p, n) - 1
        BY <1>4, <1>11
      <4> QED  BY <4>1, <4>2
    <3>2. ~(\A j \in 1..(n + 1) : Depth(p, j) >= 0)
      BY <3>1, <1>5, <1>7
    <3>3. path.absolute => v = Rest(t, k + 1)
      BY <2>1, <1>3, <1>5
    <3>4. k + 1 # 0
      OBVIOUS
    <3> QED  BY <2>1, <3>2, <3>3, <3>4, <1>1 DEF Along
  <2> QED  BY <2>2, <1>1, <1>2, <1>3
<1>12. CASE IsName(part)
  <2>1. Len(t) = Len(s) + 1 /\ Shape(t, k) /\ Rest(t, k) = Walk(Rest(s, k), part)
    BY <1>3, <1>5, <1>12, StepName
  <2>2. part # Up
    BY <1>12 DEF IsName
  <2>3. Along(path, n + 1, t, v, k)
    <3>1. k = 0 => Len(t) = Depth(p, n + 1) /\ Depth(p, n + 1) >= 0
      <4>1. k = 0 => Depth(p, n) = Len(s)
        BY <1>5
      <4>2. Depth(p, n + 1) = Depth(p, n) + 1
        BY <1>4, <1>12
      <4> QED  BY <2>1, <4>1, <4>2, <1>6
    <3>2. path.absolute => v = Rest(t, k)
      BY <2>1, <1>3, <1>5
    <3>3. ~path.absolute /\ k = 0 => v = Root \o t
      BY <2>2, <1>8
    <3> QED  BY <2>1, <3>1, <3>2, <3>3, <1>1, <1>5, <1>7 DEF Along
  <2> QED  BY <2>3, <1>1, <1>2, <1>3
<1> QED  BY <1>6, <1>9, <1>10, <1>11, <1>12 DEF IsName

LEMMA NormalAlong ==
    ASSUME NEW Part, Root \in Seq(Part), NEW path, path.absolute \in BOOLEAN, path.parts \in Seq(Part)
    PROVE  /\ lexically_normal(path.parts) \in Seq(Part) /\ Denoted(path) \in Seq(Part)
           /\ \E k \in Nat :
                 Along(path, Len(path.parts), lexically_normal(path.parts), Denoted(path), k)
<1>1. PICK p \in Seq(Part), m \in Nat : p = path.parts /\ m = Len(p)
  OBVIOUS
<1>2. PICK g \in [0..m -> Seq(Part)] :
          /\ g[0] = <<>> /\ \A i \in 1..m : g[i] = Step(g[i - 1], p[i])
          /\ lexically_normal(p) = g[m]
  BY <1>1, NormalIsLoop
<1>3. PICK d \in [0..m -> Seq(Part)] :
          /\ d[0] = From(path) /\ \A i \in 1..m : d[i] = Walk(d[i - 1], p[i])
          /\ Denoted(path) = d[m]
  BY <1>1, DenotedIsLoop
<1> DEFINE S == {n \in Nat : n <= m => \E k \in Nat : Along(path, n, g[n], d[n], k)}
<1>4. 0 \in S
  BY <1>2, <1>3, AlongStarts
<1>5. ASSUME NEW n \in S
      PROVE  n + 1 \in S
  <2> SUFFICES ASSUME n + 1 <= m
               PROVE  \E k \in Nat : Along(path, n + 1, g[n + 1], d[n + 1], k)
    OBVIOUS
  <2>1. PICK k \in Nat : Along(path, n, g[n], d[n], k)
    OBVIOUS
  <2>2. n + 1 \in 1..m /\ (n + 1) - 1 = n /\ n \in 0..m /\ g[n] \in Seq(Part)
    OBVIOUS
  <2>3. g[n + 1] = Step(g[n], p[n + 1]) /\ d[n + 1] = Walk(d[n], p[n + 1])
    BY <2>2, <1>2, <1>3
  <2>4. PICK s, w : s = g[n] /\ w = d[n]
    OBVIOUS
  <2>5. s \in Seq(Part) /\ Along(path, n, s, w, k)
    BY <2>1, <2>2, <2>4
  <2>6. \E l \in Nat : Along(path, n + 1, Step(s, p[n + 1]), Walk(w, p[n + 1]), l)
    BY <2>5, <1>1, AlongGoesOn
  <2> QED  BY <2>3, <2>4, <2>6
<1> HIDE DEF S
<1>6. S = Nat
  <2>1. S \subseteq Nat
    BY DEF S
  <2> QED  BY <2>1, <1>4, <1>5, FromZeroOn
<1>7. \E k \in Nat : Along(path, m, g[m], d[m], k)
  <2>1. m \in S /\ m <= m
    BY <1>6
  <2> QED  BY <2>1 DEF S
<1>8. m \in 0..m
  OBVIOUS
<1> QED  BY <1>1, <1>2, <1>3, <1>7, <1>8

AbsolutePath(path, Part) == path.absolute = TRUE /\ path.parts \in Seq(Part)
RelativePath(path, Part) == path.absolute = FALSE /\ path.parts \in Seq(Part)

\* A path that leaves begins with "..", one that does not has names alone and
\* is what it denotes below the root.
LEMMA NormalLeaves ==
    ASSUME NEW Part, Root \in Seq(Part), NEW path, RelativePath(path, Part),
           NEW s, s = lexically_normal(path.parts)
    PROVE  /\ s \in Seq(Part)
           /\ Leaves(path) => 1 \in DOMAIN s /\ s[1] = Up
           /\ ~Leaves(path) => \A i \in DOMAIN s : IsName(s[i])
           /\ ~Leaves(path) => Denoted(path) = Root \o s
<1>0. path.absolute \in BOOLEAN /\ path.parts \in Seq(Part) /\ ~path.absolute
  BY DEF RelativePath
<1>1. PICK k \in Nat : Along(path, Len(path.parts), s, Denoted(path), k)
  BY <1>0, NormalAlong
<1>2. s \in Seq(Part)
  BY <1>0, NormalAlong
<1>3. Len(s) \in Nat /\ DOMAIN s = 1..Len(s)
  BY <1>2
<1>4. Leaves(path) <=> \E n \in 1..Len(path.parts) : Depth(path.parts, n) < 0
  BY <1>0, LeavesIsDepth
<1>5. \A n \in 1..Len(path.parts) : Depth(path.parts, n) < 0 <=> ~(Depth(path.parts, n) >= 0)
  <2>1. ASSUME NEW n \in 1..Len(path.parts)
        PROVE  Depth(path.parts, n) < 0 <=> ~(Depth(path.parts, n) >= 0)
    <3>1. n \in Nat
      OBVIOUS
    <3>2. Depth(path.parts, n) \in Int
      BY <3>1, DepthNext
    <3> QED  BY <3>2
  <2> QED  BY <2>1
<1>6. ~Leaves(path) <=> k = 0
  BY <1>1, <1>4, <1>5 DEF Along
<1>7. Shape(s, k) /\ (k = 0 => Denoted(path) = Root \o s)
  BY <1>0, <1>1 DEF Along
<1>8. k # 0 => 1 \in DOMAIN s /\ s[1] = Up
  <2>1. k # 0 => 1 \in 1..k /\ 1 \in 1..Len(s)
    BY <1>3, <1>7 DEF Shape
  <2> QED  BY <2>1, <1>3, <1>7 DEF Shape
<1>9. k = 0 => \A i \in DOMAIN s : IsName(s[i])
  BY <1>3, <1>7 DEF Shape
<1> QED  BY <1>2, <1>6, <1>7, <1>8, <1>9

\* What an absolute path is brought to is what it denotes.
LEMMA AbsoluteDenotes ==
    ASSUME NEW Part, Root \in Seq(Part), NEW path, AbsolutePath(path, Part),
           NEW w, w = Denoted(path)
    PROVE  /\ w \in Seq(Part) /\ Absolute(path.parts) = w
           /\ \A i \in DOMAIN w : IsName(w[i])
<1>1. PICK s : s = lexically_normal(path.parts)
  OBVIOUS
<1>0. path.absolute \in BOOLEAN /\ path.parts \in Seq(Part)
  BY DEF AbsolutePath
<1>2. PICK k \in Nat : Along(path, Len(path.parts), s, w, k)
  BY <1>0, <1>1, NormalAlong
<1>3. s \in Seq(Part) /\ w \in Seq(Part)
  BY <1>0, <1>1, NormalAlong
<1>4. Shape(s, k) /\ w = Rest(s, k)
  <2>1. path.absolute
    BY DEF AbsolutePath
  <2> QED  BY <2>1, <1>2 DEF Along
<1>5. Len(s) \in Nat /\ DOMAIN s = 1..Len(s) /\ k <= Len(s)
  BY <1>3, <1>4 DEF Shape
<1>6. {i \in DOMAIN s : s[i] = Up} = 1..k
  <2>1. ASSUME NEW i \in 1..Len(s)
        PROVE  s[i] = Up <=> i \in 1..k
    <3>1. i \in 1..k \/ i \in (k + 1)..Len(s)
      BY <1>5
    <3> QED  BY <3>1, <1>4, <1>5 DEF Shape, IsName
  <2>2. \A i \in 1..k : i \in 1..Len(s)
    BY <1>5
  <2> QED  BY <2>1, <2>2, <1>5
<1>7. Cardinality(1..k) = k
  <2>1. 1 \in Int /\ k \in Int
    OBVIOUS
  <2>2. Cardinality(1..k) = IF 1 > k THEN 0 ELSE k - 1 + 1
    BY <2>1, FS_Interval
  <2> QED  BY <2>2
<1>8. Absolute(path.parts) = w
  <2>1. Absolute(path.parts) = SubSeq(s, Cardinality({i \in DOMAIN s : s[i] = Up}) + 1, Len(s))
    BY <1>1 DEF Absolute
  <2> QED  BY <2>1, <1>4, <1>6, <1>7 DEF Rest
<1>9. Len(w) = Len(s) - k /\ \A i \in 1..Len(w) : w[i] = s[i + k]
  <2>1. s \in Seq(Part) /\ k <= Len(s) /\ w = Rest(s, k)
    BY <1>3, <1>4, <1>5
  <2> QED  BY <2>1, RestIs
<1>10. ASSUME NEW i \in DOMAIN w
       PROVE  IsName(w[i])
  <2>1. i \in 1..Len(w) /\ i + k \in (k + 1)..Len(s)
    BY <1>3, <1>5, <1>9
  <2> QED  BY <2>1, <1>4, <1>9 DEF Shape
<1> QED  BY <1>3, <1>8, <1>10

-----------------------------------------------------------------------------
\* std::filesystem::relative.
LEMMA LeastNumber ==
    ASSUME NEW S, S \subseteq Nat, S # {}
    PROVE  \E n \in S : \A m \in S : n <= m
<1>1. IsWellFoundedOn(OpToRel(<, Nat), Nat)
  BY NatLessThanWellFounded
<1>2. PICK n \in S : \A m \in S : ~(<<m, n>> \in OpToRel(<, Nat))
  BY <1>1, WFMin
<1>3. \A m \in S : ~(m < n)
  BY <1>2 DEF OpToRel
<1> QED  BY <1>3

LEMMA PrefixIs ==
    ASSUME NEW Part, NEW s \in Seq(Part), NEW t \in Seq(Part)
    PROVE  IsPrefix(s, t) <=> Len(s) <= Len(t) /\ \A i \in 1..Len(s) : s[i] = t[i]
<1>1. Len(s) \in Nat /\ Len(t) \in Nat
  OBVIOUS
<1>2. SubSeq(s, 1, Len(s)) = s
  BY SubSeqFull
<1>3. ASSUME Len(s) <= Len(t)
      PROVE  SubSeq(t, 1, Len(s)) = s <=> \A i \in 1..Len(s) : s[i] = t[i]
  <2>1. PICK u : u = SubSeq(t, 1, Len(s))
    OBVIOUS
  <2>2. u \in Seq(Part) /\ Len(u) = Len(s) /\ \A i \in 1..Len(s) : u[i] = t[i]
    BY <1>1, <1>3, <2>1
  <2>3. (\A i \in 1..Len(s) : s[i] = t[i]) => u = s
    BY <2>2, SeqEqual
  <2> QED  BY <2>1, <2>2, <2>3
<1> QED  BY <1>2, <1>3 DEF IsPrefix

LEMMA CommonIs ==
    ASSUME NEW Part, NEW p \in Seq(Part), NEW r \in Seq(Part), NEW n, n = Len(LongestCommonPrefix({p, r}))
    PROVE  n \in 0..Len(r) /\ n <= Len(p) /\ (n = Len(r) <=> IsPrefix(r, p))
<1>1. PICK C : C = CommonPrefixes({p, r})
  OBVIOUS
<1>2. \A x \in C : x \in Seq(Part)
  <2>1. ASSUME NEW s \in {p, r}, NEW l \in 0..Len(s)
        PROVE  SubSeq(s, 1, l) \in Seq(Part)
    <3>1. s \in Seq(Part) /\ Len(s) \in Nat
      OBVIOUS
    <3> QED  BY <3>1
  <2>2. ASSUME NEW x \in UNION {Prefixes(s) : s \in {p, r}}
        PROVE  x \in Seq(Part)
    <3>1. PICK s \in {p, r} : x \in Prefixes(s)
      OBVIOUS
    <3>2. PICK l \in 0..Len(s) : x = SubSeq(s, 1, l)
      BY <3>1 DEF Prefixes
    <3> QED  BY <3>2, <2>1
  <2> QED  BY <2>2, <1>1 DEF CommonPrefixes
<1>3. \A x \in C : IsPrefix(x, p) /\ IsPrefix(x, r)
  BY <1>1 DEF CommonPrefixes
<1>4. ASSUME NEW l \in 0..Len(r), IsPrefix(SubSeq(r, 1, l), p), IsPrefix(SubSeq(r, 1, l), r)
      PROVE  SubSeq(r, 1, l) \in C
  <2>1. SubSeq(r, 1, l) \in Prefixes(r)
    BY DEF Prefixes
  <2> QED  BY <2>1, <1>1, <1>4 DEF CommonPrefixes
<1>5. Len(r) \in Nat /\ Len(p) \in Nat
  OBVIOUS
<1>6. <<>> \in C
  <2>1. SubSeq(r, 1, 0) = <<>> /\ 0 \in 0..Len(r)
    BY <1>5
  <2>2. IsPrefix(<<>>, p) /\ IsPrefix(<<>>, r)
    <3>1. PICK e : e = <<>>
      OBVIOUS
    <3>2. e \in Seq(Part) /\ Len(e) = 0
      BY <3>1
    <3>3. IsPrefix(e, p) /\ IsPrefix(e, r)
      <4>1. Len(e) <= Len(p) /\ Len(e) <= Len(r) /\ \A i \in 1..Len(e) : FALSE
        BY <3>2, <1>5
      <4>2. (\A i \in 1..Len(e) : e[i] = p[i]) /\ \A i \in 1..Len(e) : e[i] = r[i]
        BY <4>1
      <4> QED  BY <3>2, <4>1, <4>2, PrefixIs
    <3> QED  BY <3>1, <3>3
  <2> QED  BY <2>1, <2>2, <1>4
<1>7. \E x \in C : \A y \in C : Len(y) <= Len(x)
  <2>1. \A x \in C : Len(x) \in Nat /\ Len(x) <= Len(r)
    BY <1>2, <1>3 DEF IsPrefix
  <2>2. PICK S : S = {Len(r) - Len(x) : x \in C}
    OBVIOUS
  <2>3. S \subseteq Nat /\ S # {}
    BY <2>1, <2>2, <1>5, <1>6
  <2>4. PICK m \in S : \A k \in S : m <= k
    BY <2>3, LeastNumber
  <2>5. PICK x \in C : m = Len(r) - Len(x)
    BY <2>2, <2>4
  <2>6. ASSUME NEW y \in C
        PROVE  Len(y) <= Len(x)
    <3>1. Len(r) - Len(x) <= Len(r) - Len(y)
      BY <2>2, <2>4, <2>5
    <3> QED  BY <3>1, <2>1, <1>5
  <2> QED  BY <2>6
<1>8. PICK x : x = LongestCommonPrefix({p, r})
  OBVIOUS
<1>9. x \in C /\ \A y \in C : Len(y) <= Len(x)
  BY <1>1, <1>7, <1>8 DEF LongestCommonPrefix
<1>10. x \in Seq(Part) /\ n = Len(x) /\ IsPrefix(x, p) /\ IsPrefix(x, r)
  BY <1>2, <1>3, <1>8, <1>9
<1>11. n \in Nat /\ n <= Len(r) /\ n <= Len(p)
  BY <1>10 DEF IsPrefix
<1>12. ASSUME n = Len(r)
       PROVE  IsPrefix(r, p)
  <2>1. (\A i \in 1..Len(x) : x[i] = p[i]) /\ \A i \in 1..Len(x) : x[i] = r[i]
    BY <1>10, PrefixIs
  <2>2. Len(r) <= Len(p) /\ \A i \in 1..Len(r) : r[i] = p[i]
    BY <2>1, <1>10, <1>11, <1>12
  <2> QED  BY <2>2, PrefixIs
<1>13. ASSUME IsPrefix(r, p)
       PROVE  n = Len(r)
  <2>1. SubSeq(r, 1, Len(r)) = r /\ Len(r) \in 0..Len(r)
    BY <1>5, SubSeqFull
  <2>2. IsPrefix(r, r)
    BY <1>5, PrefixIs
  <2>3. r \in C
    BY <2>1, <2>2, <1>4, <1>13
  <2> QED  BY <2>3, <1>5, <1>9, <1>10, <1>11
<1> QED  BY <1>11, <1>12, <1>13

\* relative leads down from the root along names, or up at once.
LEMMA RelativeIs ==
    ASSUME NEW Part, Up \in Part, Root \in Seq(Part), NEW parts, NEW p, p = Absolute(parts), p \in Seq(Part)
    PROVE  /\ IsPrefix(Root, p) => relative(parts) = Rest(p, Len(Root))
           /\ ~IsPrefix(Root, p) => /\ relative(parts) \in Seq(Part)
                                    /\ Len(relative(parts)) > 0 /\ relative(parts)[1] = Up
<1>1. PICK n : n = Len(LongestCommonPrefix({p, Root}))
  OBVIOUS
<1>2. n \in Nat /\ n <= Len(Root) /\ n <= Len(p) /\ (n = Len(Root) <=> IsPrefix(Root, p))
  BY <1>1, CommonIs
<1>3. PICK m \in Nat : m = Len(Root) - n
  <2>1. Len(Root) \in Nat
    OBVIOUS
  <2> QED  BY <2>1, <1>2
<1>4. PICK u, d : u = [i \in 1..m |-> Up] /\ d = Rest(p, n)
  OBVIOUS
<1>5. relative(parts) = u \o d
  BY <1>1, <1>3, <1>4 DEF relative, Rest
<1>6. u \in Seq(Part) /\ Len(u) = m /\ \A i \in 1..m : u[i] = Up
  BY <1>4
<1>7. d \in Seq(Part)
  BY <1>2, <1>4, RestIs
<1>8. CASE IsPrefix(Root, p)
  <2>1. m = 0 /\ n = Len(Root)
    BY <1>2, <1>3, <1>8
  <2>2. u = <<>>
    BY <2>1, <1>6, EmptySeq
  <2>3. u \o d = d
    BY <2>2, <1>7, ConcatEmptySeq
  <2> QED  BY <2>1, <2>3, <1>4, <1>5, <1>8
<1>9. CASE ~IsPrefix(Root, p)
  <2>1. m > 0
    BY <1>2, <1>3, <1>9
  <2>2. PICK q : q = u \o d
    OBVIOUS
  <2>3. q \in Seq(Part) /\ Len(q) = Len(u) + Len(d) /\ q[1] = u[1]
    <3>1. /\ q \in Seq(Part) /\ Len(q) = Len(u) + Len(d)
          /\ \A i \in 1..(Len(u) + Len(d)) : q[i] = IF i <= Len(u) THEN u[i] ELSE d[i - Len(u)]
      BY <2>2, <1>6, <1>7, ConcatProperties
    <3>2. Len(d) \in Nat /\ 1 \in 1..(Len(u) + Len(d)) /\ 1 <= Len(u)
      BY <2>1, <1>6, <1>7
    <3> QED  BY <3>1, <3>2
  <2>4. Len(d) \in Nat
    BY <1>7
  <2>5. Len(q) > 0 /\ q[1] = Up
    BY <2>1, <2>3, <2>4, <1>6
  <2> QED  BY <2>2, <2>3, <2>5, <1>5, <1>9
<1> QED  BY <1>8, <1>9

-----------------------------------------------------------------------------
\* normalize.
Inside(path) == IsStrictPrefix(Root, Denoted(path)) /\ (path.absolute \/ ~Leaves(path))
Agrees(path) ==
    /\ Inside(path) <=> Normalize(path) # Escapes
    /\ Inside(path) => Root \o Normalize(path) = Denoted(path)

LEMMA BelowIsPrefix ==
    ASSUME NEW Part, NEW r \in Seq(Part), NEW s \in Seq(Part)
    PROVE  IsPrefix(r, r \o s) /\ (r # r \o s <=> s # <<>>)
<1>1. PICK w : w = r \o s
  OBVIOUS
<1>2. /\ w \in Seq(Part) /\ Len(w) = Len(r) + Len(s) /\ Len(r) \in Nat /\ Len(s) \in Nat
      /\ \A i \in 1..Len(r) : w[i] = r[i]
  BY <1>1
<1>3. IsPrefix(r, w)
  BY <1>2, PrefixIs
<1>4. r \o s = r <=> s = <<>>
  BY ConcatEqualIffEmpty
<1> QED  BY <1>1, <1>3, <1>4

LEMMA RestCompletes ==
    ASSUME NEW Part, NEW r \in Seq(Part), NEW w \in Seq(Part), IsPrefix(r, w)
    PROVE  /\ Rest(w, Len(r)) \in Seq(Part) /\ r \o Rest(w, Len(r)) = w
           /\ \A i \in DOMAIN Rest(w, Len(r)) : \E j \in DOMAIN w : Rest(w, Len(r))[i] = w[j]
<1>1. PICK n \in Nat : n = Len(r)
  OBVIOUS
<1>2. n <= Len(w) /\ \A i \in 1..n : r[i] = w[i]
  BY <1>1, PrefixIs
<1>3. PICK d : d = Rest(w, n)
  OBVIOUS
<1>4. d \in Seq(Part) /\ Len(d) = Len(w) - n /\ \A i \in 1..Len(d) : d[i] = w[i + n]
  BY <1>2, <1>3, RestIs
<1>5. PICK v : v = r \o d
  OBVIOUS
<1>6. /\ v \in Seq(Part) /\ Len(v) = n + Len(d)
      /\ \A i \in 1..(n + Len(d)) : v[i] = IF i <= n THEN r[i] ELSE d[i - n]
  BY <1>1, <1>4, <1>5, ConcatProperties
<1>7. v = w
  <2>1. Len(v) = Len(w) /\ Len(w) \in Nat
    BY <1>4, <1>6
  <2>2. ASSUME NEW i \in 1..Len(v)
        PROVE  v[i] = w[i]
    <3>1. CASE i <= n
      BY <3>1, <2>1, <1>2, <1>6
    <3>2. CASE ~(i <= n)
      <4>1. i - n \in 1..Len(d) /\ (i - n) + n = i
        BY <3>2, <2>1, <1>4
      <4> QED  BY <3>2, <4>1, <1>4, <1>6
    <3> QED  BY <3>1, <3>2
  <2> QED  BY <2>1, <2>2, <1>6, SeqEqual
<1>8. ASSUME NEW i \in DOMAIN d
      PROVE  \E j \in DOMAIN w : d[i] = w[j]
  <2>1. i \in 1..Len(d) /\ Len(w) \in Nat /\ DOMAIN w = 1..Len(w)
    BY <1>4
  <2>2. i + n \in DOMAIN w
    BY <2>1, <1>4
  <2> QED  BY <2>1, <2>2, <1>4
<1> QED  BY <1>1, <1>3, <1>4, <1>5, <1>7, <1>8

\* Where lexically_normal ends for normalize.
LEMMA NormalizeIs ==
    ASSUME NEW Part, NEW path, NEW s \in Seq(Part),
           s = lexically_normal(IF path.absolute THEN relative(path.parts) ELSE path.parts)
    PROVE  /\ s = <<>> => Normalize(path) = Escapes
           /\ 1 \in DOMAIN s /\ s[1] = Up => Normalize(path) = Escapes
           /\ s # <<>> /\ (\A i \in DOMAIN s : IsName(s[i])) => Normalize(path) = s /\ s # Escapes
<1>1. Normalize(path) = IF s = <<>> \/ \E i \in DOMAIN s : s[i] = Up THEN Escapes ELSE s
  BY DEF Normalize
<1>2. ASSUME s # <<>>, \A i \in DOMAIN s : IsName(s[i])
      PROVE  s # Escapes /\ ~(\E i \in DOMAIN s : s[i] = Up)
  <2>1. ~(\E i \in DOMAIN s : s[i] = Up)
    BY <1>2 DEF IsName
  <2>2. PICK e : e = Escapes
    OBVIOUS
  <2>3. 1 \in DOMAIN e /\ e[1] = Up
    BY <2>2 DEF Escapes
  <2> QED  BY <2>1, <2>2, <2>3
<1> QED  BY <1>1, <1>2

LEMMA RelativeAgrees ==
    ASSUME NEW Part, Root \in Seq(Part), NEW path, RelativePath(path, Part)
    PROVE  Agrees(path)
<1>0. ~path.absolute
  BY DEF RelativePath
<1>1. PICK s : s = lexically_normal(path.parts)
  OBVIOUS
<1>2. /\ s \in Seq(Part)
      /\ Leaves(path) => 1 \in DOMAIN s /\ s[1] = Up
      /\ ~Leaves(path) => \A i \in DOMAIN s : IsName(s[i])
      /\ ~Leaves(path) => Denoted(path) = Root \o s
  BY <1>1, NormalLeaves
<1>3. /\ s = <<>> => Normalize(path) = Escapes
      /\ 1 \in DOMAIN s /\ s[1] = Up => Normalize(path) = Escapes
      /\ s # <<>> /\ (\A i \in DOMAIN s : IsName(s[i])) => Normalize(path) = s /\ s # Escapes
  <2>1. s = lexically_normal(IF path.absolute THEN relative(path.parts) ELSE path.parts)
    BY <1>0, <1>1
  <2> QED  BY <2>1, <1>2, NormalizeIs
<1>4. CASE Leaves(path)
  BY <1>0, <1>2, <1>3, <1>4 DEF Agrees, Inside
<1>5. CASE ~Leaves(path)
  <2>1. IsPrefix(Root, Denoted(path)) /\ (Root # Denoted(path) <=> s # <<>>)
    BY <1>2, <1>5, BelowIsPrefix
  <2>2. Inside(path) <=> s # <<>>
    BY <2>1, <1>5 DEF Inside, IsStrictPrefix
  <2> QED  BY <2>2, <1>2, <1>3, <1>5 DEF Agrees
<1> QED  BY <1>4, <1>5

LEMMA AbsoluteAgrees ==
    ASSUME NEW Part, Up \in Part, Part \subseteq STRING, Root \in Seq(Part),
           NEW path, AbsolutePath(path, Part)
    PROVE  Agrees(path)
<1>0. path.absolute
  BY DEF AbsolutePath
<1>1. PICK w : w = Denoted(path)
  OBVIOUS
<1>2. w \in Seq(Part) /\ Absolute(path.parts) = w /\ \A i \in DOMAIN w : IsName(w[i])
  BY <1>1, AbsoluteDenotes
<1>3. PICK q : q = relative(path.parts)
  OBVIOUS
<1>4. /\ IsPrefix(Root, w) => q = Rest(w, Len(Root))
      /\ ~IsPrefix(Root, w) => q \in Seq(Part) /\ Len(q) > 0 /\ q[1] = Up
  BY <1>2, <1>3, RelativeIs
<1>5. PICK s : s = lexically_normal(q)
  OBVIOUS
<1>6. s = lexically_normal(IF path.absolute THEN relative(path.parts) ELSE path.parts)
  BY <1>0, <1>3, <1>5
<1>7. CASE IsPrefix(Root, w)
  <2>1. /\ q \in Seq(Part) /\ Root \o q = w
        /\ \A i \in DOMAIN q : \E j \in DOMAIN w : q[i] = w[j]
    <3>1. q = Rest(w, Len(Root)) /\ w \in Seq(Part)
      BY <1>2, <1>4, <1>7
    <3> QED  BY <3>1, <1>7, RestCompletes
  <2>2. \A i \in DOMAIN q : IsName(q[i])
    BY <2>1, <1>2
  <2>3. s = q
    <3>1. Plain(q)
      <4>1. q \in Seq(STRING)
        BY <2>1, SeqMonotonic
      <4> QED  BY <4>1, <2>2 DEF Plain, IsName
    <3> QED  BY <3>1, <1>5, NormalOfPlain
  <2>4. /\ q = <<>> => Normalize(path) = Escapes
        /\ q # <<>> => Normalize(path) = q /\ q # Escapes
    BY <2>1, <2>2, <2>3, <1>6, NormalizeIs
  <2>5. Root # w <=> q # <<>>
    BY <2>1, BelowIsPrefix
  <2>6. Inside(path) <=> q # <<>>
    BY <2>5, <1>0, <1>1, <1>7 DEF Inside, IsStrictPrefix
  <2> QED  BY <2>1, <2>4, <2>6, <1>1 DEF Agrees
<1>8. CASE ~IsPrefix(Root, w)
  <2>1. PICK low : low = [absolute |-> FALSE, parts |-> q]
    OBVIOUS
  <2>3. q \in Seq(Part) /\ Len(q) > 0 /\ q[1] = Up
    BY <1>4, <1>8
  <2>2. low.parts = q /\ RelativePath(low, Part)
    BY <2>1, <2>3 DEF RelativePath
  <2>4. Leaves(low)
    <3>1. Depth(q, 1) = -1
      <4>1. 0 \in Nat /\ 0 + 1 = 1
        OBVIOUS
      <4>2. Depth(q, 0 + 1) = Depth(q, 0) - 1 /\ Depth(q, 0) = 0
        BY <4>1, <2>3, DepthNext
      <4> QED  BY <4>1, <4>2
    <3>2. 1 \in 1..Len(q) /\ Depth(q, 1) < 0
      BY <3>1, <2>3
    <3> QED  BY <3>2, <2>2, <2>3, LeavesIsDepth
  <2>5. s \in Seq(Part) /\ 1 \in DOMAIN s /\ s[1] = Up
    BY <2>2, <2>3, <2>4, <1>5, NormalLeaves
  <2>6. Normalize(path) = Escapes
    BY <2>5, <1>6, NormalizeIs
  <2>7. ~Inside(path)
    BY <1>1, <1>8 DEF Inside, IsStrictPrefix
  <2> QED  BY <2>6, <2>7 DEF Agrees
<1> QED  BY <1>7, <1>8

\* A path of names denotes what it says.
LEMMA PlainDenotes ==
    ASSUME NEW p, Plain(p), Plain(Root)
    PROVE  Denoted([absolute |-> FALSE, parts |-> p]) = Root \o p
<1>1. PICK path : path = [absolute |-> FALSE, parts |-> p]
  OBVIOUS
<1>2. path.parts = p
  BY <1>1
<1>3. PICK Part : Part = STRING
  OBVIOUS
<1>4. p \in Seq(Part) /\ Root \in Seq(Part) /\ RelativePath(path, Part)
  BY <1>1, <1>3 DEF Plain, RelativePath
<1>5. lexically_normal(p) = p
  BY NormalOfPlain
<1>6. /\ Leaves(path) => 1 \in DOMAIN p /\ p[1] = Up
      /\ ~Leaves(path) => Denoted(path) = Root \o p
  BY <1>2, <1>4, <1>5, NormalLeaves
<1>7. ~(1 \in DOMAIN p /\ p[1] = Up)
  BY DEF Plain
<1> QED  BY <1>1, <1>6, <1>7

\* normalize, for all spellings there are.
LEMMA AllAgree == NormalizeDenotes
<1>1. PICK Part : Part = STRING
  OBVIOUS
<1>2. Root \in Seq(Part)
  BY <1>1, PolicyAssumption DEF Plain
<1>3. Up \in Part /\ Part \subseteq STRING
  BY <1>1, PolicyAssumption
<1>4. ASSUME NEW path \in Spellings
      PROVE  Agrees(path)
  <2>1. path.absolute \in BOOLEAN /\ path.parts \in Seq(Part)
    BY <1>1, WatchAssumption
  <2>2. AbsolutePath(path, Part) \/ RelativePath(path, Part)
    BY <2>1 DEF AbsolutePath, RelativePath
  <2> QED  BY <2>2, <1>2, <1>3, AbsoluteAgrees, RelativeAgrees
<1> QED  BY <1>4 DEF NormalizeDenotes, Agrees, Inside

\* What normalize returns is made of names.
LEMMA NormalizePlain ==
    ASSUME NEW path \in Calls, Normalize(path) # Escapes
    PROVE  Plain(Normalize(path))
<1>1. PICK Part : Part = STRING
  OBVIOUS
<1>2. Root \in Seq(Part)
  BY <1>1, PolicyAssumption DEF Plain
<1>3. Up \in Part /\ Part \subseteq STRING
  BY <1>1, PolicyAssumption
<1>4. path.absolute \in BOOLEAN /\ path.parts \in Seq(Part)
  BY <1>1, WatchAssumption
<1>5. ASSUME NEW low, RelativePath(low, Part), NEW s, s = lexically_normal(low.parts),
             Normalize(path) = IF s = <<>> \/ \E i \in DOMAIN s : s[i] = Up THEN Escapes ELSE s
      PROVE  Plain(Normalize(path))
  <2>1. /\ s \in Seq(Part)
        /\ Leaves(low) => 1 \in DOMAIN s /\ s[1] = Up
        /\ ~Leaves(low) => \A i \in DOMAIN s : IsName(s[i])
    BY <1>2, <1>5, NormalLeaves
  <2>2. Normalize(path) = s /\ ~(\E i \in DOMAIN s : s[i] = Up)
    BY <1>5
  <2>3. \A i \in DOMAIN s : IsName(s[i])
    BY <2>1, <2>2
  <2> QED  BY <2>1, <2>2, <2>3, <1>1 DEF Plain, IsName
<1>6. CASE RelativePath(path, Part)
  <2>1. ~path.absolute
    BY <1>6 DEF RelativePath
  <2>2. PICK s : s = lexically_normal(path.parts)
    OBVIOUS
  <2>3. Normalize(path) = IF s = <<>> \/ \E i \in DOMAIN s : s[i] = Up THEN Escapes ELSE s
    BY <2>1, <2>2 DEF Normalize
  <2> QED  BY <2>2, <2>3, <1>5, <1>6
<1>7. CASE AbsolutePath(path, Part)
  <2>1. path.absolute
    BY <1>7 DEF AbsolutePath
  <2>2. PICK low : low = [absolute |-> FALSE, parts |-> relative(path.parts)]
    OBVIOUS
  <2>3. PICK s : s = lexically_normal(relative(path.parts))
    OBVIOUS
  <2>4. Normalize(path) = IF s = <<>> \/ \E i \in DOMAIN s : s[i] = Up THEN Escapes ELSE s
    BY <2>1, <2>3 DEF Normalize
  <2>5. relative(path.parts) \in Seq(Part)
    <3>1. PICK w : w = Denoted(path)
      OBVIOUS
    <3>2. w \in Seq(Part) /\ Absolute(path.parts) = w
      BY <3>1, <1>2, <1>7, AbsoluteDenotes
    <3>3. IsPrefix(Root, w) => Rest(w, Len(Root)) \in Seq(Part)
      BY <3>2, <1>2, RestCompletes
    <3> QED  BY <3>2, <3>3, <1>2, <1>3, RelativeIs
  <2>6. RelativePath(low, Part) /\ s = lexically_normal(low.parts)
    BY <2>2, <2>3, <2>5 DEF RelativePath
  <2> QED  BY <2>4, <2>6, <1>5
<1>8. AbsolutePath(path, Part) \/ RelativePath(path, Part)
  BY <1>4 DEF AbsolutePath, RelativePath
<1> QED  BY <1>6, <1>7, <1>8


-----------------------------------------------------------------------------
(***************************************************************************)
(* The coalescer.                                                          *)
(***************************************************************************)
IsCoalescer(c) == c = [pending |-> c.pending, fingerprints |-> c.fingerprints]

\* push starts or continues a burst.
LEMMA PushedEffect ==
    ASSUME NEW c, IsCoalescer(c), NEW p, NEW k, NEW t, NEW r, r = Pushed(c, p, k, t)
    PROVE  /\ IsCoalescer(r) /\ r.fingerprints = c.fingerprints
           /\ DOMAIN r.pending = DOMAIN c.pending \cup {p}
           /\ \A q \in DOMAIN c.pending : q # p => r.pending[q] = c.pending[q]
           /\ r.pending[p] = [merged_kind |-> Entry(c, p).merged_kind \cup {k},
                              token |-> Entry(c, p).token + 1, due_time |-> t + debounce_ticks]
<1>0. PICK e : e = [merged_kind |-> Entry(c, p).merged_kind \cup {k},
                    token |-> Entry(c, p).token + 1, due_time |-> t + debounce_ticks]
  OBVIOUS
<1>1. PICK m : m = Put(c.pending, p, e)
  OBVIOUS
<1>2. r = [c EXCEPT !.pending = m]
  BY <1>0, <1>1 DEF Pushed, Merge, NextToken
<1>3. r.pending = m /\ r.fingerprints = c.fingerprints /\ IsCoalescer(r)
  BY <1>2 DEF IsCoalescer
<1>4. /\ DOMAIN m = DOMAIN c.pending \cup {p} /\ m[p] = e
      /\ \A q \in DOMAIN c.pending : q # p => m[q] = c.pending[q]
  <2>1. PICK map : map = c.pending
    OBVIOUS
  <2>2. m = Put(map, p, e)
    BY <2>1, <1>1
  <2>3. DOMAIN m = DOMAIN map \cup {p} /\ m[p] = e /\ \A q \in DOMAIN map : q # p => m[q] = map[q]
    BY <2>2 DEF Put
  <2> QED  BY <2>1, <2>3, Zenon
<1>5. /\ DOMAIN r.pending = DOMAIN c.pending \cup {p} /\ r.pending[p] = e
      /\ \A q \in DOMAIN c.pending : q # p => r.pending[q] = c.pending[q]
  BY <1>3, <1>4, Zenon
<1> QED  BY <1>0, <1>3, <1>5, Zenon

\* complete ends the burst.
LEMMA CompletedEffect ==
    ASSUME NEW c, NEW p, NEW x, NEW r, r = Completed(c, p, x)
    PROVE  /\ IsCoalescer(r)
           /\ DOMAIN r.pending = DOMAIN c.pending \ {p}
           /\ \A q \in DOMAIN r.pending : r.pending[q] = c.pending[q]
           /\ DOMAIN r.fingerprints = DOMAIN c.fingerprints \cup {p}
           /\ \A q \in DOMAIN c.fingerprints : q # p => r.fingerprints[q] = c.fingerprints[q]
           /\ r.fingerprints[p] =
                 [content |-> x,
                  epoch |-> IF p \in DOMAIN c.fingerprints THEN c.fingerprints[p].epoch + 1 ELSE 1]
<1>0. PICK f : f = [content |-> x,
                    epoch |-> IF p \in DOMAIN c.fingerprints THEN c.fingerprints[p].epoch + 1 ELSE 1]
  OBVIOUS
<1>1. PICK m : m = Put(c.fingerprints, p, f)
  OBVIOUS
<1>2. PICK n : n = Restrict(c.pending, DOMAIN c.pending \ {p})
  OBVIOUS
<1>3. r = [pending |-> n, fingerprints |-> m]
  BY <1>0, <1>1, <1>2 DEF Completed
<1>4. r.pending = n /\ r.fingerprints = m /\ IsCoalescer(r)
  BY <1>3 DEF IsCoalescer
<1>5. DOMAIN n = DOMAIN c.pending \ {p} /\ \A q \in DOMAIN n : n[q] = c.pending[q]
  BY <1>2 DEF Restrict
<1>6. /\ DOMAIN m = DOMAIN c.fingerprints \cup {p} /\ m[p] = f
      /\ \A q \in DOMAIN c.fingerprints : q # p => m[q] = c.fingerprints[q]
  <2>1. PICK map : map = c.fingerprints
    OBVIOUS
  <2>2. m = Put(map, p, f)
    BY <2>1, <1>1
  <2>3. DOMAIN m = DOMAIN map \cup {p} /\ m[p] = f /\ \A q \in DOMAIN map : q # p => m[q] = map[q]
    BY <2>2 DEF Put
  <2> QED  BY <2>1, <2>3, Zenon
<1> QED  BY <1>0, <1>4, <1>5, <1>6, Zenon

-----------------------------------------------------------------------------
(***************************************************************************)
(* The inductive invariant.                                                *)
(***************************************************************************)
Pending == coalescer.pending
Fingerprints == coalescer.fingerprints

\* An event of the file is in the queue or on its way to the coalescer, or its
\* loss is known.
Announced == PathsOf(queue) \cup PathsOf(polled) \cup missed

Known(p) == IF p \in DOMAIN Fingerprints THEN Fingerprints[p].content ELSE 0

WatchTypes ==
    /\ mode \in {"jobs", "file_event"}
    /\ (watch => fd) /\ (~fd => queue = <<>>)
    /\ queue \in Seq(KernelEvent) /\ polled \in Seq(PolledEvent)
    /\ content \in [Paths -> Nat] /\ changes \in Nat /\ now \in Nat
    /\ bursts \in [Paths -> Nat] /\ pushes \in [Paths -> Nat]
    /\ unseen \in [Paths -> SUBSET FileEventKind]
    /\ jobs \subseteq Job

CoalescerTypes ==
    /\ IsCoalescer(coalescer)
    /\ \A p \in DOMAIN Pending : p \in Paths /\ Pending[p] \in CoalescedEvent
    /\ \A p \in DOMAIN Fingerprints : Fingerprints[p] \in [content : Nat, epoch : Nat \ {0}]
    /\ mode = "file_event" => DOMAIN Pending = {} /\ jobs = {}

\* The kinds of a path are those of its pending event.
KindsInd == \A p \in Paths : unseen[p] = IF p \in DOMAIN Pending THEN Pending[p].merged_kind ELSE {}

\* A job of the path's burst: the token has moved on by one for each event
\* since, and if there was none, the job has read the content, or a change of
\* it is announced.
OfBurst(j) == j.burst = bursts[j.path]
JobInd(j) ==
    /\ j.burst <= bursts[j.path] /\ j.pushes <= pushes[j.path]
    /\ OfBurst(j) =>
          /\ j.path \in DOMAIN Pending
          /\ Pending[j.path].token + j.pushes = j.token + pushes[j.path]
          /\ j.pushes = pushes[j.path] => content[j.path] = j.content \/ j.path \in Announced
JobsInd == \A j \in jobs : JobInd(j)

\* A file with another fingerprint than that of its content.
Remembered(p) == content[p] # Known(p) => p \in Announced \/ p \in DOMAIN Pending
FilesInd == \A p \in Paths : Remembered(p)

WatchInd == WatchTypes /\ CoalescerTypes /\ KindsInd /\ JobsInd /\ FilesInd

LEMMA WatchStarts ==
    ASSUME Init
    PROVE  WatchInd
<1>1. /\ mode \in {"jobs", "file_event"} /\ fd = FALSE /\ watch = FALSE
      /\ queue = <<>> /\ polled = <<>> /\ jobs = {} /\ changes = 0 /\ now = 0
      /\ content = [p \in Paths |-> 0] /\ bursts = [p \in Paths |-> 0]
      /\ pushes = [p \in Paths |-> 0] /\ unseen = [p \in Paths |-> {}]
      /\ coalescer = NewCoalescer
  BY DEF Init
<1>2. Pending = <<>> /\ Fingerprints = <<>> /\ IsCoalescer(coalescer)
  BY <1>1 DEF NewCoalescer, Pending, Fingerprints, IsCoalescer
<1>3. DOMAIN Pending = {} /\ DOMAIN Fingerprints = {}
  BY <1>2
<1>4. queue \in Seq(KernelEvent) /\ polled \in Seq(PolledEvent)
  BY <1>1
<1>5. WatchTypes
  BY <1>1, <1>4 DEF WatchTypes
<1>6. CoalescerTypes
  BY <1>1, <1>2, <1>3 DEF CoalescerTypes
<1>7. KindsInd /\ JobsInd
  BY <1>1, <1>3 DEF KindsInd, JobsInd
<1>8. FilesInd
  BY <1>1, <1>3 DEF FilesInd, Remembered, Known
<1> QED  BY <1>5, <1>6, <1>7, <1>8 DEF WatchInd

\* A job of the burst whose completion is accepted has seen every event.
LEMMA AcceptedIsFresh ==
    ASSUME WatchInd, NEW j \in jobs, Accepts(coalescer, j.path, j.token), OfBurst(j)
    PROVE  j.pushes = pushes[j.path]
<1>1. j \in Job /\ JobInd(j)
  BY DEF WatchInd, WatchTypes, JobsInd
<1>2. j.path \in Paths /\ j.token \in Nat /\ j.pushes \in Nat
  BY <1>1 DEF Job
<1>3. pushes[j.path] \in Nat
  BY <1>2 DEF WatchInd, WatchTypes
<1>4. Pending[j.path].token + j.pushes = j.token + pushes[j.path] /\ Pending[j.path].token = j.token
  BY <1>1 DEF JobInd, Accepts, Pending
<1> QED  BY <1>2, <1>3, <1>4

LEMMA WatchIndImplies ==
    ASSUME WatchInd
    PROVE  CoalescerInvariant /\ StaleRejected /\ NothingForgotten
<1>1. TypeOK
  <2>1. PathsOf(polled) = {polled[i].path : i \in DOMAIN polled}
    <3>1. \A i \in DOMAIN polled : polled[i] \in PolledEvent
      BY DEF WatchInd, WatchTypes
    <3>2. \A i \in DOMAIN polled : polled[i].path \in Paths
      BY <3>1 DEF PolledEvent
    <3> QED  BY <3>2 DEF PathsOf
  <2> QED  BY <2>1 DEF TypeOK, WatchInd, WatchTypes, CoalescerTypes, Pending, Fingerprints
<1>2. KindsMerged
  BY DEF KindsMerged, WatchInd, KindsInd, CoalescerTypes, Pending
<1>3. StaleRejected
  BY AcceptedIsFresh DEF StaleRejected, OfBurst
<1>4. NothingForgotten
  BY DEF NothingForgotten, WatchInd, FilesInd, Remembered, Known, Announced, Pending, Fingerprints
<1> QED  BY <1>1, <1>2, <1>3, <1>4 DEF CoalescerInvariant

-----------------------------------------------------------------------------
(***************************************************************************)
(* The steps.                                                              *)
(***************************************************************************)

\* The files C have changed and are announced.
LEMMA DiskStep ==
    ASSUME WatchInd, UNCHANGED <<mode, coalescer, jobs, bursts, pushes, unseen>>, WatchTypes',
           NEW C, \A p \in Paths \ C : content'[p] = content[p],
           Announced \subseteq Announced', C \subseteq Announced'
    PROVE  WatchInd'
<1>1. Pending' = Pending /\ Fingerprints' = Fingerprints
  BY DEF Pending, Fingerprints
<1>2. CoalescerTypes' /\ KindsInd'
  BY <1>1 DEF WatchInd, CoalescerTypes, KindsInd, IsCoalescer
<1>3. ASSUME NEW j \in jobs
      PROVE  JobInd(j)'
  <2>1. JobInd(j) /\ j \in Job
    BY DEF WatchInd, JobsInd, WatchTypes
  <2>2. j.path \in Paths
    BY <2>1 DEF Job
  <2> QED  BY <2>1, <2>2, <1>1 DEF JobInd, OfBurst
<1>4. FilesInd'
  <2>1. \A p : Known(p)' = Known(p)
    BY <1>1 DEF Known
  <2> QED  BY <2>1, <1>1 DEF WatchInd, FilesInd, Remembered
<1>5. JobsInd'
  BY <1>3 DEF JobsInd
<1> QED  BY <1>2, <1>4, <1>5 DEF WatchInd

\* The kernel's queue grows, and what it has no room for is missed.
LEMMA NotifyAnnounces ==
    ASSUME WatchInd, NEW C, NEW q, Notify(C, q), q \in Seq(KernelEvent), PathsOf(queue) \subseteq PathsOf(q)
    PROVE  /\ queue' = q /\ polled' = polled /\ changes' \in Nat
           /\ Announced \subseteq Announced' /\ C \subseteq Announced'
           /\ UNCHANGED <<mode, fd, coalescer, now, jobs, bursts, pushes, unseen>>
<1>1. /\ queue' = q /\ missed' = (missed \cup C) \ PathsOf(q) /\ changes' = changes + 1
      /\ UNCHANGED <<mode, fd, polled, coalescer, now, jobs, bursts, pushes, unseen>>
  BY DEF Notify, history
<1>2. PathsOf(queue)' = PathsOf(q) /\ PathsOf(polled)' = PathsOf(polled)
  BY <1>1 DEF PathsOf
<1>3. changes' \in Nat
  BY <1>1 DEF WatchInd, WatchTypes
<1> QED  BY <1>1, <1>2, <1>3 DEF Announced

LEMMA NotifyInd ==
    ASSUME WatchInd, NEW C, NEW q, Notify(C, q), q \in Seq(KernelEvent), PathsOf(queue) \subseteq PathsOf(q),
           watch' => watch, ~watch => q = queue, content' \in [Paths -> Nat],
           \A p \in Paths \ C : content'[p] = content[p]
    PROVE  WatchInd'
<1>1. /\ queue' = q /\ polled' = polled /\ changes' \in Nat
      /\ Announced \subseteq Announced' /\ C \subseteq Announced'
      /\ UNCHANGED <<mode, fd, coalescer, now, jobs, bursts, pushes, unseen>>
  BY NotifyAnnounces
<1>2. WatchTypes'
  <2>1. WatchTypes
    BY DEF WatchInd
  <2>2. (watch' => fd') /\ (~fd' => queue' = <<>>)
    BY <2>1, <1>1 DEF WatchTypes
  <2> QED  BY <2>1, <2>2, <1>1 DEF WatchTypes, KernelEvent, PolledEvent, FileMask, FileEventKind, Job
<1> QED  BY <1>1, <1>2, DiskStep

\* Two events, one after the other.
LEMMA EnqueuedTwice ==
    ASSUME NEW q \in Seq(KernelEvent), NEW e \in KernelEvent, NEW f \in KernelEvent
    PROVE  /\ Enqueued(Enqueued(q, e), f) \in Seq(KernelEvent)
           /\ PathsOf(q) \subseteq PathsOf(Enqueued(Enqueued(q, e), f))
           /\ ~watch => Enqueued(Enqueued(q, e), f) = q
<1>1. PICK r : r = Enqueued(q, e)
  OBVIOUS
<1>2. r \in Seq(KernelEvent) /\ PathsOf(q) \subseteq PathsOf(r) /\ (~watch => r = q)
  BY <1>1, EnqueuedKeeps
<1>3. PICK s : s = Enqueued(r, f)
  OBVIOUS
<1>4. s \in Seq(KernelEvent) /\ PathsOf(r) \subseteq PathsOf(s) /\ (~watch => s = r)
  BY <1>2, <1>3, EnqueuedKeeps
<1>5. PathsOf(q) \subseteq PathsOf(s) /\ (~watch => s = q)
  BY <1>2, <1>4
<1> QED  BY <1>1, <1>3, <1>4, <1>5

LEMMA FileChangeInd ==
    ASSUME WatchInd,
           \/ \E p \in Paths : Write(p) \/ Delete(p) \/ \E q \in Paths : Rename(p, q)
           \/ RemoveRoot
    PROVE  WatchInd'
<1>1. queue \in Seq(KernelEvent) /\ content \in [Paths -> Nat] /\ changes \in Nat
  BY DEF WatchInd, WatchTypes
<1>2. ASSUME NEW p \in Paths, Write(p)
      PROVE  WatchInd'
  <2>1. PICK mask \in FileMask : mask = IF content[p] = 0 THEN "create" ELSE "modify"
    BY DEF FileMask
  <2>2. PICK q : q = Enqueued(queue, Event(p, mask))
    OBVIOUS
  <2>3. q \in Seq(KernelEvent) /\ PathsOf(queue) \subseteq PathsOf(q) /\ (~watch => q = queue)
    BY <2>2, <1>1, KernelEvents, EnqueuedKeeps
  <2>4. Notify({p}, q) /\ content' = [content EXCEPT ![p] = changes + 1] /\ watch' = watch
    BY <2>1, <2>2, <1>2 DEF Write
  <2>5. content' \in [Paths -> Nat] /\ \A f \in Paths \ {p} : content'[f] = content[f]
    BY <2>4, <1>1
  <2> QED  BY <2>3, <2>4, <2>5, NotifyInd
<1>3. ASSUME NEW p \in Paths, Delete(p)
      PROVE  WatchInd'
  <2>1. PICK q : q = Enqueued(queue, Event(p, "delete"))
    OBVIOUS
  <2>2. "delete" \in FileMask
    BY DEF FileMask
  <2>3. q \in Seq(KernelEvent) /\ PathsOf(queue) \subseteq PathsOf(q) /\ (~watch => q = queue)
    BY <2>1, <2>2, <1>1, KernelEvents, EnqueuedKeeps
  <2>4. Notify({p}, q) /\ content' = [content EXCEPT ![p] = 0] /\ watch' = watch
    BY <2>1, <1>3 DEF Delete
  <2>5. content' \in [Paths -> Nat] /\ \A f \in Paths \ {p} : content'[f] = content[f]
    BY <2>4, <1>1
  <2> QED  BY <2>3, <2>4, <2>5, NotifyInd
<1>4. ASSUME NEW p \in Paths, NEW r \in Paths, Rename(p, r)
      PROVE  WatchInd'
  <2>1. PICK q : q = Enqueued(Enqueued(queue, Event(p, "moved_from")), Event(r, "moved_to"))
    OBVIOUS
  <2>2. "moved_from" \in FileMask /\ "moved_to" \in FileMask
    BY DEF FileMask
  <2>3. q \in Seq(KernelEvent) /\ PathsOf(queue) \subseteq PathsOf(q) /\ (~watch => q = queue)
    BY <2>1, <2>2, <1>1, KernelEvents, EnqueuedTwice
  <2>4. Notify({p, r}, q) /\ content' = [content EXCEPT ![p] = 0, ![r] = content[p]] /\ watch' = watch
    BY <2>1, <1>4 DEF Rename
  <2>5. content' \in [Paths -> Nat] /\ \A f \in Paths \ {p, r} : content'[f] = content[f]
    BY <2>4, <1>1
  <2> QED  BY <2>3, <2>4, <2>5, NotifyInd
<1>5. ASSUME RemoveRoot
      PROVE  WatchInd'
  <2>1. PICK q : q = Enqueued(Enqueued(queue, Nameless("delete_self")), Nameless("ignored"))
    OBVIOUS
  <2>2. q \in Seq(KernelEvent) /\ PathsOf(queue) \subseteq PathsOf(q) /\ (~watch => q = queue)
    BY <2>1, <1>1, KernelEvents, EnqueuedTwice
  <2>3. Notify({}, q) /\ content' = content /\ watch' = FALSE
    BY <2>1, <1>5 DEF RemoveRoot
  <2>4. content' \in [Paths -> Nat] /\ \A f \in Paths \ {} : content'[f] = content[f]
    BY <2>3, <1>1
  <2> QED  BY <2>2, <2>3, <2>4, NotifyInd
<1> QED  BY <1>2, <1>3, <1>4, <1>5

\* start, stop, poll_events and the clock.
LEMMA WatcherInd ==
    ASSUME WatchInd, Start \/ Stop \/ Poll \/ Tick \/ UNCHANGED vars
    PROVE  WatchInd'
<1>1. WatchTypes
  BY DEF WatchInd
<1>2. UNCHANGED <<mode, coalescer, jobs, bursts, pushes, unseen, content, changes>>
  BY DEF Start, Stop, Poll, Tick, vars, disk, history, Watcher
<1>3. WatchTypes' /\ Announced \subseteq Announced'
  <2>1. CASE Start
    <3>1. UNCHANGED <<polled, queue, missed, now>> /\ fd' = TRUE /\ watch' = TRUE
      BY <2>1 DEF Start, disk
    <3>2. Announced' = Announced
      BY <3>1 DEF Announced, PathsOf
    <3> QED  BY <3>1, <3>2, <1>1, <1>2 DEF WatchTypes, KernelEvent, PolledEvent, FileMask, FileEventKind, Job
  <2>2. CASE Stop
    <3>1. /\ UNCHANGED <<polled, now>> /\ fd' = FALSE /\ watch' = FALSE
          /\ queue' = <<>> /\ missed' = missed \cup PathsOf(queue)
      BY <2>2 DEF Stop
    <3>2. Announced \subseteq Announced'
      <4>1. PathsOf(polled)' = PathsOf(polled)
        BY <3>1 DEF PathsOf
      <4> QED  BY <3>1, <4>1 DEF Announced
    <3>3. queue' \in Seq(KernelEvent)
      BY <3>1
    <3> QED  BY <3>1, <3>2, <3>3, <1>1, <1>2 DEF WatchTypes, KernelEvent, PolledEvent, FileMask, FileEventKind, Job
  <2>3. CASE Poll
    <3>1. /\ UNCHANGED <<fd, watch, missed, now>> /\ polled = <<>>
          /\ queue' = <<>> /\ polled' = Read(queue)
      BY <2>3 DEF Poll
    <3>2. polled' \in Seq(PolledEvent) /\ PathsOf(queue) \subseteq PathsOf(polled')
      BY <3>1, <1>1, ReadKeepsPaths DEF WatchTypes
    <3>3. PathsOf(polled) = {} /\ PathsOf(polled)' = PathsOf(polled')
      BY <3>1 DEF PathsOf
    <3>4. Announced \subseteq Announced'
      BY <3>1, <3>2, <3>3 DEF Announced
    <3>5. queue' \in Seq(KernelEvent)
      BY <3>1
    <3> QED  BY <3>1, <3>2, <3>4, <3>5, <1>1, <1>2 DEF WatchTypes, KernelEvent, PolledEvent, FileMask, FileEventKind, Job
  <2>4. CASE Tick \/ UNCHANGED vars
    <3>1. UNCHANGED <<fd, watch, polled, queue, missed>> /\ (now' = now \/ now' = now + 1)
      BY <2>4 DEF Tick, vars, disk, Watcher
    <3>2. Announced' = Announced
      BY <3>1 DEF Announced, PathsOf
    <3>3. now' \in Nat
      BY <3>1, <1>1 DEF WatchTypes
    <3> QED  BY <3>1, <3>2, <3>3, <1>1, <1>2 DEF WatchTypes, KernelEvent, PolledEvent, FileMask, FileEventKind, Job
  <2> QED  BY <2>1, <2>2, <2>3, <2>4
<1> QED  BY <1>2, <1>3, DiskStep

\* The first event that was polled is handed on.
LEMMA HandedOn ==
    ASSUME WatchInd, polled # <<>>, polled' = Tail(polled), UNCHANGED <<queue, missed>>
    PROVE  /\ Head(polled).path \in Paths /\ Head(polled).kind \in FileEventKind
           /\ polled' \in Seq(PolledEvent)
           /\ Announced \subseteq Announced' \cup {Head(polled).path}
<1>1. polled \in Seq(PolledEvent)
  BY DEF WatchInd, WatchTypes
<1>2. PICK e : e = Head(polled)
  OBVIOUS
<1>3. e \in PolledEvent /\ polled' \in Seq(PolledEvent) /\ polled[1] = e
  BY <1>1, <1>2
<1>4. e.path \in Paths /\ e.kind \in FileEventKind
  BY <1>3 DEF PolledEvent
<1>5. ASSUME NEW i \in DOMAIN polled, i # 1
      PROVE  i - 1 \in DOMAIN polled' /\ polled'[i - 1] = polled[i]
  BY <1>1, <1>5
<1>6. PathsOf(polled) \subseteq PathsOf(polled') \cup {e.path}
  <2>1. ASSUME NEW p \in PathsOf(polled)
        PROVE  p \in PathsOf(polled') \cup {e.path}
    <3>1. PICK i \in DOMAIN polled : p = polled[i].path
      BY <2>1 DEF PathsOf
    <3>2. p \in Paths
      BY <2>1 DEF PathsOf
    <3>3. CASE i = 1
      BY <3>1, <3>3, <1>3
    <3>4. CASE i # 1
      <4>1. i - 1 \in DOMAIN polled' /\ polled'[i - 1].path = p
        BY <3>1, <3>4, <1>5
      <4> QED  BY <3>2, <4>1 DEF PathsOf
    <3> QED  BY <3>3, <3>4
  <2> QED  BY <2>1
<1>7. PathsOf(queue)' = PathsOf(queue) /\ PathsOf(polled)' = PathsOf(polled')
  BY DEF PathsOf
<1> QED  BY <1>2, <1>3, <1>4, <1>6, <1>7 DEF Announced

LEMMA PushInd ==
    ASSUME WatchInd, Push
    PROVE  WatchInd'
<1>1. WatchTypes /\ CoalescerTypes
  BY DEF WatchInd
<1>2. PICK p, k : p = Head(polled).path /\ k = Head(polled).kind
  OBVIOUS
<1>3. /\ mode = "jobs" /\ polled # <<>> /\ polled' = Tail(polled)
      /\ coalescer' = Pushed(coalescer, p, k, now)
      /\ pushes' = [pushes EXCEPT ![p] = @ + 1]
      /\ unseen' = [unseen EXCEPT ![p] = @ \cup {k}]
      /\ UNCHANGED <<mode, fd, watch, queue, content, changes, missed, now, jobs, bursts>>
  BY <1>2 DEF Push, Watcher, disk
<1>4. /\ p \in Paths /\ k \in FileEventKind /\ polled' \in Seq(PolledEvent)
      /\ Announced \subseteq Announced' \cup {p}
  BY <1>2, <1>3, HandedOn
<1>5. PICK c : c = coalescer'
  OBVIOUS
<1>6. IsCoalescer(coalescer) /\ c = Pushed(coalescer, p, k, now)
  BY <1>1, <1>3, <1>5 DEF CoalescerTypes
<1>7. PICK e : e = Entry(coalescer, p)
  OBVIOUS
<1>8. /\ IsCoalescer(c) /\ c.fingerprints = coalescer.fingerprints
      /\ DOMAIN c.pending = DOMAIN coalescer.pending \cup {p}
      /\ \A q \in DOMAIN coalescer.pending : q # p => c.pending[q] = coalescer.pending[q]
      /\ c.pending[p] = [merged_kind |-> e.merged_kind \cup {k},
                         token |-> e.token + 1, due_time |-> now + debounce_ticks]
  BY <1>6, <1>7, PushedEffect
<1>9. /\ Fingerprints' = Fingerprints /\ Pending' = c.pending
      /\ DOMAIN Pending' = DOMAIN Pending \cup {p}
      /\ \A q \in DOMAIN Pending : q # p => Pending'[q] = Pending[q]
  BY <1>5, <1>8 DEF Pending, Fingerprints
<1>10. /\ e.merged_kind \subseteq FileEventKind /\ e.token \in Nat
       /\ unseen[p] = e.merged_kind
       /\ p \in DOMAIN Pending => e = Pending[p]
  <2>1. CASE p \in DOMAIN Pending
    <3>1. e = Pending[p] /\ e \in CoalescedEvent
      BY <2>1, <1>1, <1>7 DEF Entry, Pending, CoalescerTypes
    <3>2. unseen[p] = e.merged_kind
      BY <2>1, <3>1, <1>4 DEF WatchInd, KindsInd
    <3> QED  BY <3>1, <3>2 DEF CoalescedEvent
  <2>2. CASE p \notin DOMAIN Pending
    <3>1. e = [merged_kind |-> {}, token |-> 1, due_time |-> 0]
      BY <2>2, <1>7 DEF Entry, Pending
    <3>2. e.merged_kind = {} /\ e.token = 1
      BY <3>1
    <3>3. unseen[p] = {}
      BY <2>2, <1>4 DEF WatchInd, KindsInd
    <3> QED  BY <2>2, <3>2, <3>3
  <2> QED  BY <2>1, <2>2
<1>11. /\ Pending'[p] \in CoalescedEvent
       /\ Pending'[p].merged_kind = e.merged_kind \cup {k} /\ Pending'[p].token = e.token + 1
  <2>1. now + debounce_ticks \in Nat /\ e.token + 1 \in Nat /\ e.merged_kind \cup {k} \in SUBSET FileEventKind
    BY <1>1, <1>4, <1>10, CoalescerAssumption DEF WatchTypes
  <2>2. PICK x : x = c.pending[p]
    OBVIOUS
  <2>3. x \in CoalescedEvent /\ x.merged_kind = e.merged_kind \cup {k} /\ x.token = e.token + 1
    BY <2>1, <2>2, <1>8 DEF CoalescedEvent
  <2> QED  BY <2>2, <2>3, <1>9
<1>12. /\ pushes' \in [Paths -> Nat] /\ pushes'[p] = pushes[p] + 1 /\ pushes[p] \in Nat
       /\ \A q \in Paths : q # p => pushes'[q] = pushes[q]
  BY <1>1, <1>3, <1>4 DEF WatchTypes
<1>13. /\ unseen' \in [Paths -> SUBSET FileEventKind] /\ unseen'[p] = unseen[p] \cup {k}
       /\ \A q \in Paths : q # p => unseen'[q] = unseen[q]
  BY <1>1, <1>3, <1>4 DEF WatchTypes
<1>14. WatchTypes'
  BY <1>1, <1>3, <1>4, <1>12, <1>13 DEF WatchTypes, KernelEvent, PolledEvent, FileMask, FileEventKind, Job
<1>15. CoalescerTypes'
  <2>1. ASSUME NEW q \in DOMAIN Pending'
        PROVE  q \in Paths /\ Pending'[q] \in CoalescedEvent
    BY <1>1, <1>4, <1>9, <1>11 DEF CoalescerTypes
  <2>2. IsCoalescer(coalescer') /\ mode' = "jobs"
    BY <1>3, <1>5, <1>8
  <2>3. IsCoalescer(coalescer)'
    BY <2>2 DEF IsCoalescer
  <2> QED  BY <2>1, <2>2, <2>3, <1>1, <1>9 DEF CoalescerTypes, CoalescedEvent, FileEventKind
<1>16. KindsInd'
  <2>1. ASSUME NEW q \in Paths
        PROVE  unseen'[q] = IF q \in DOMAIN Pending' THEN Pending'[q].merged_kind ELSE {}
    <3>1. CASE q = p
      BY <3>1, <1>9, <1>10, <1>11, <1>13
    <3>2. CASE q # p
      <4>1. unseen[q] = IF q \in DOMAIN Pending THEN Pending[q].merged_kind ELSE {}
        BY DEF WatchInd, KindsInd
      <4> QED  BY <3>2, <4>1, <1>9, <1>13
    <3> QED  BY <3>1, <3>2
  <2> QED  BY <2>1 DEF KindsInd
<1>17. JobsInd'
  <2>1. ASSUME NEW j \in jobs
        PROVE  JobInd(j)'
    <3>1. JobInd(j) /\ j \in Job
      BY <1>1 DEF WatchInd, JobsInd, WatchTypes
    <3>2. j.path \in Paths /\ j.pushes \in Nat /\ j.token \in Nat
      BY <3>1 DEF Job
    <3>3. CASE j.path = p
      <4>1. j.pushes <= pushes'[p] /\ j.pushes # pushes'[p]
        BY <3>1, <3>2, <3>3, <1>12 DEF JobInd
      <4>2. OfBurst(j) => Pending'[p].token + j.pushes = j.token + pushes'[p]
        <5> SUFFICES ASSUME OfBurst(j)
                     PROVE  Pending'[p].token + j.pushes = j.token + pushes'[p]
          OBVIOUS
        <5>1. p \in DOMAIN Pending /\ Pending[p].token + j.pushes = j.token + pushes[p]
          BY <3>1, <3>3 DEF JobInd
        <5>2. e.token = Pending[p].token
          BY <5>1, <1>10
        <5> QED  BY <5>1, <5>2, <3>2, <1>10, <1>11, <1>12
      <4> QED  BY <3>1, <3>3, <4>1, <4>2, <1>3, <1>9 DEF JobInd, OfBurst
    <3>4. CASE j.path # p
      <4>1. j.path \in DOMAIN Pending => Pending'[j.path] = Pending[j.path] /\ j.path \in DOMAIN Pending'
        BY <3>4, <1>9
      <4>2. j.path \in Announced => j.path \in Announced'
        BY <3>4, <1>4
      <4>3. pushes'[j.path] = pushes[j.path]
        BY <3>2, <3>4, <1>12
      <4> QED  BY <3>1, <4>1, <4>2, <4>3, <1>3 DEF JobInd, OfBurst
    <3> QED  BY <3>3, <3>4
  <2> QED  BY <2>1, <1>3 DEF JobsInd
<1>18. FilesInd'
  <2>1. \A q : Known(q)' = Known(q)
    BY <1>9 DEF Known
  <2> QED  BY <2>1, <1>3, <1>4, <1>9 DEF WatchInd, FilesInd, Remembered
<1> QED  BY <1>14, <1>15, <1>16, <1>17, <1>18 DEF WatchInd

\* A new job is of the burst and has read the content.
LEMMA FingerprintInd ==
    ASSUME WatchInd, NEW p \in Paths, Fingerprint(p)
    PROVE  WatchInd'
<1>1. WatchTypes /\ CoalescerTypes
  BY DEF WatchInd
<1>2. PICK j : j = [path |-> p, token |-> coalescer.pending[p].token, content |-> content[p],
                    burst |-> bursts[p], pushes |-> pushes[p]]
  OBVIOUS
<1>3. /\ p \in DOMAIN Pending /\ jobs' = jobs \cup {j}
      /\ UNCHANGED <<mode, fd, watch, polled, queue, content, changes, missed, coalescer, now, bursts, pushes, unseen>>
  BY <1>2 DEF Fingerprint, Due, Pending, Watcher, disk, history
<1>4. Pending' = Pending /\ Fingerprints' = Fingerprints /\ Announced' = Announced
  BY <1>3 DEF Pending, Fingerprints, Announced, PathsOf
<1>5. Pending[p] \in CoalescedEvent
  BY <1>1, <1>3 DEF CoalescerTypes
<1>6. Pending[p].token \in Nat /\ content[p] \in Nat /\ bursts[p] \in Nat /\ pushes[p] \in Nat
  BY <1>1, <1>5 DEF CoalescedEvent, WatchTypes
<1>7. /\ j.path = p /\ j.token = Pending[p].token /\ j.content = content[p]
      /\ j.burst = bursts[p] /\ j.pushes = pushes[p]
  BY <1>2 DEF Pending
<1>8. j \in Job
  BY <1>2, <1>6 DEF Job, Pending
<1>9. JobInd(j)'
  BY <1>3, <1>4, <1>6, <1>7 DEF JobInd, OfBurst
<1>10. \A i \in jobs : JobInd(i)'
  BY <1>3, <1>4 DEF WatchInd, JobsInd, JobInd, OfBurst
<1>11. WatchTypes'
  <2>1. jobs' \subseteq Job
    BY <1>1, <1>3, <1>8 DEF WatchTypes
  <2> QED  BY <2>1, <1>1, <1>3 DEF WatchTypes, KernelEvent, PolledEvent, FileMask, FileEventKind, Job
<1>12. CoalescerTypes'
  <2>1. mode # "file_event"
    BY <1>1, <1>3 DEF CoalescerTypes
  <2> QED  BY <2>1, <1>1, <1>3, <1>4 DEF CoalescerTypes, IsCoalescer, CoalescedEvent, FileEventKind
<1>13. KindsInd' /\ FilesInd'
  <2>1. \A q : Known(q)' = Known(q)
    BY <1>4 DEF Known
  <2> QED  BY <2>1, <1>3, <1>4 DEF WatchInd, KindsInd, FilesInd, Remembered
<1>14. JobsInd'
  BY <1>3, <1>9, <1>10 DEF JobsInd
<1> QED  BY <1>11, <1>12, <1>13, <1>14 DEF WatchInd

\* What complete stores is a fingerprint.
LEMMA FingerprintType ==
    ASSUME CoalescerTypes, NEW p, NEW x \in Nat, NEW f,
           f = [content |-> x, epoch |-> IF p \in DOMAIN Fingerprints THEN Fingerprints[p].epoch + 1 ELSE 1]
    PROVE  f \in [content : Nat, epoch : Nat \ {0}] /\ f.content = x
<1>1. p \in DOMAIN Fingerprints => Fingerprints[p] \in [content : Nat, epoch : Nat \ {0}]
  BY DEF CoalescerTypes
<1>2. p \in DOMAIN Fingerprints => Fingerprints[p].epoch \in Nat
  BY <1>1
<1>3. PICK n \in Nat \ {0} : n = IF p \in DOMAIN Fingerprints THEN Fingerprints[p].epoch + 1 ELSE 1
  BY <1>2
<1> QED  BY <1>3

\* A completion that is taken ends the burst: its jobs belong to none.
LEMMA CompleteInd ==
    ASSUME WatchInd, NEW j \in jobs, Complete(j)
    PROVE  WatchInd'
<1>1. WatchTypes /\ CoalescerTypes /\ j \in Job /\ JobInd(j)
  BY DEF WatchInd, WatchTypes, JobsInd
<1>2. PICK p : p = j.path
  OBVIOUS
<1>3. p \in Paths /\ j.content \in Nat /\ j.burst \in Nat
  BY <1>1, <1>2 DEF Job
<1>4. /\ jobs' = jobs \ {j}
      /\ UNCHANGED <<mode, fd, watch, queue, polled, content, changes, now, pushes>>
  BY DEF Complete, Watcher
<1>5. mode # "file_event"
  BY <1>1 DEF CoalescerTypes
<1>6. CASE ~Accepts(coalescer, p, j.token)
  <2>1. UNCHANGED <<coalescer, bursts, unseen, missed>>
    BY <1>2, <1>6 DEF Complete
  <2>2. Pending' = Pending /\ Fingerprints' = Fingerprints /\ Announced' = Announced
    BY <2>1, <1>4 DEF Pending, Fingerprints, Announced, PathsOf
  <2>3. WatchTypes'
    <3>1. jobs' \subseteq Job
      BY <1>1, <1>4 DEF WatchTypes
    <3> QED  BY <2>1, <3>1, <1>1, <1>4 DEF WatchTypes, KernelEvent, PolledEvent, FileMask, FileEventKind, Job
  <2>4. CoalescerTypes'
    BY <2>1, <2>2, <1>1, <1>4, <1>5 DEF CoalescerTypes, IsCoalescer, CoalescedEvent, FileEventKind
  <2>5. KindsInd' /\ FilesInd'
    <3>1. \A q : Known(q)' = Known(q)
      BY <2>2 DEF Known
    <3> QED  BY <2>1, <2>2, <3>1, <1>4 DEF WatchInd, KindsInd, FilesInd, Remembered
  <2>6. JobsInd'
    <3>1. \A i \in jobs : JobInd(i)'
      BY <2>1, <2>2, <1>4 DEF WatchInd, JobsInd, JobInd, OfBurst
    <3> QED  BY <3>1, <1>4 DEF JobsInd
  <2> QED  BY <2>3, <2>4, <2>5, <2>6 DEF WatchInd
<1>7. CASE Accepts(coalescer, p, j.token)
  <2>1. /\ coalescer' = Completed(coalescer, p, j.content)
        /\ bursts' = [bursts EXCEPT ![p] = @ + 1]
        /\ unseen' = [unseen EXCEPT ![p] = {}]
        /\ missed' = IF j.burst # bursts[p] THEN missed \cup {p} ELSE missed
    BY <1>2, <1>7 DEF Complete
  <2>2. PICK c : c = coalescer'
    OBVIOUS
  <2>3. c = Completed(coalescer, p, j.content)
    BY <2>1, <2>2
  <2>4. PICK f : f = [content |-> j.content,
                      epoch |-> IF p \in DOMAIN Fingerprints THEN Fingerprints[p].epoch + 1 ELSE 1]
    OBVIOUS
  <2>5. /\ IsCoalescer(c)
        /\ DOMAIN c.pending = DOMAIN coalescer.pending \ {p}
        /\ \A q \in DOMAIN c.pending : c.pending[q] = coalescer.pending[q]
        /\ DOMAIN c.fingerprints = DOMAIN coalescer.fingerprints \cup {p}
        /\ \A q \in DOMAIN coalescer.fingerprints : q # p => c.fingerprints[q] = coalescer.fingerprints[q]
        /\ c.fingerprints[p] = f
    BY <2>3, <2>4, CompletedEffect DEF Fingerprints
  <2>6. /\ DOMAIN Pending' = DOMAIN Pending \ {p}
        /\ \A q \in DOMAIN Pending' : Pending'[q] = Pending[q]
        /\ DOMAIN Fingerprints' = DOMAIN Fingerprints \cup {p}
        /\ \A q \in DOMAIN Fingerprints : q # p => Fingerprints'[q] = Fingerprints[q]
        /\ Fingerprints'[p] = f
    BY <2>2, <2>5 DEF Pending, Fingerprints
  <2>7. f \in [content : Nat, epoch : Nat \ {0}] /\ f.content = j.content
    BY <2>4, <1>1, <1>3, FingerprintType
  <2>8. /\ bursts' \in [Paths -> Nat] /\ bursts[p] \in Nat /\ bursts'[p] = bursts[p] + 1
        /\ \A q \in Paths : q # p => bursts'[q] = bursts[q]
    BY <2>1, <1>1, <1>3 DEF WatchTypes
  <2>9. /\ unseen' \in [Paths -> SUBSET FileEventKind] /\ unseen'[p] = {}
        /\ \A q \in Paths : q # p => unseen'[q] = unseen[q]
    BY <2>1, <1>1, <1>3 DEF WatchTypes
  <2>10. Announced \subseteq Announced'
    <3>1. missed \subseteq missed' /\ PathsOf(queue)' = PathsOf(queue) /\ PathsOf(polled)' = PathsOf(polled)
      BY <2>1, <1>4 DEF PathsOf
    <3> QED  BY <3>1 DEF Announced
  <2>11. WatchTypes'
    <3>1. jobs' \subseteq Job
      BY <1>1, <1>4 DEF WatchTypes
    <3> QED  BY <2>8, <2>9, <3>1, <1>1, <1>4 DEF WatchTypes, KernelEvent, PolledEvent, FileMask, FileEventKind, Job
  <2>12. CoalescerTypes'
    <3>1. ASSUME NEW q \in DOMAIN Pending'
          PROVE  q \in Paths /\ Pending'[q] \in CoalescedEvent
      BY <2>6, <1>1 DEF CoalescerTypes
    <3>2. ASSUME NEW q \in DOMAIN Fingerprints'
          PROVE  Fingerprints'[q] \in [content : Nat, epoch : Nat \ {0}]
      BY <2>6, <2>7, <1>1 DEF CoalescerTypes
    <3>3. IsCoalescer(coalescer)'
      BY <2>2, <2>5 DEF IsCoalescer
    <3> QED  BY <3>1, <3>2, <3>3, <1>4, <1>5 DEF CoalescerTypes, CoalescedEvent, FileEventKind
  <2>13. KindsInd'
    <3>1. ASSUME NEW q \in Paths
          PROVE  unseen'[q] = IF q \in DOMAIN Pending' THEN Pending'[q].merged_kind ELSE {}
      <4>1. unseen[q] = IF q \in DOMAIN Pending THEN Pending[q].merged_kind ELSE {}
        BY DEF WatchInd, KindsInd
      <4> QED  BY <2>6, <2>9, <4>1
    <3> QED  BY <3>1 DEF KindsInd
  <2>14. ASSUME NEW i \in jobs
         PROVE  JobInd(i)'
    <3>1. JobInd(i) /\ i \in Job
      BY <1>1 DEF WatchInd, JobsInd, WatchTypes
    <3>2. i.path \in Paths /\ i.burst \in Nat
      BY <3>1 DEF Job
    <3>3. CASE i.path = p
      <4>1. i.burst <= bursts'[p] /\ i.burst # bursts'[p]
        BY <2>8, <3>1, <3>2, <3>3 DEF JobInd
      <4> QED  BY <3>1, <3>3, <4>1, <1>4 DEF JobInd, OfBurst
    <3>4. CASE i.path # p
      <4>1. i.path \in DOMAIN Pending => Pending'[i.path] = Pending[i.path] /\ i.path \in DOMAIN Pending'
        BY <2>6, <3>4
      <4>2. bursts'[i.path] = bursts[i.path]
        BY <2>8, <3>2, <3>4
      <4> QED  BY <2>10, <3>1, <4>1, <4>2, <1>4 DEF JobInd, OfBurst
    <3> QED  BY <3>3, <3>4
  <2>15. FilesInd'
    <3>1. ASSUME NEW q \in Paths, content[q] # Known(q)'
          PROVE  q \in Announced' \/ q \in DOMAIN Pending'
      <4>1. CASE q = p
        <5>1. content[p] # j.content
          BY <2>6, <2>7, <3>1, <4>1 DEF Known
        <5>2. CASE j.burst # bursts[p]
          <6>1. p \in missed'
            BY <2>1, <5>2
          <6> QED  BY <4>1, <6>1 DEF Announced
        <5>3. CASE j.burst = bursts[p]
          <6>1. OfBurst(j)
            BY <5>3, <1>2 DEF OfBurst
          <6>2. j.pushes = pushes[p]
            BY <6>1, <1>2, <1>7, AcceptedIsFresh
          <6>3. p \in Announced
            BY <5>1, <6>1, <6>2, <1>1, <1>2 DEF JobInd
          <6> QED  BY <4>1, <6>3, <2>10
        <5> QED  BY <5>2, <5>3
      <4>2. CASE q # p
        <5>1. Known(q)' = Known(q)
          BY <2>6, <4>2 DEF Known
        <5>2. q \in Announced \/ q \in DOMAIN Pending
          BY <3>1, <5>1 DEF WatchInd, FilesInd, Remembered
        <5> QED  BY <2>6, <2>10, <4>2, <5>2
      <4> QED  BY <4>1, <4>2
    <3> QED  BY <3>1, <1>4 DEF FilesInd, Remembered
  <2>16. JobsInd'
    BY <2>14, <1>4 DEF JobsInd
  <2> QED  BY <2>11, <2>12, <2>13, <2>15, <2>16 DEF WatchInd
<1> QED  BY <1>6, <1>7

\* WorkspaceCore::file_event leaves nothing pending.
LEMMA FileEventInd ==
    ASSUME WatchInd, mode = "file_event", NEW path, NEW kind, file_event(path, kind),
           polled' \in Seq(PolledEvent), Announced \subseteq Announced' \cup {Normalize(path)}
    PROVE  WatchInd'
<1>1. WatchTypes /\ CoalescerTypes /\ jobs = {} /\ DOMAIN Pending = {}
  BY DEF WatchInd, CoalescerTypes
<1>2. PICK p : p = Normalize(path)
  OBVIOUS
<1>3. PICK d : d = Pushed(coalescer, p, kind, now)
  OBVIOUS
<1>4. PICK x : x = fingerprint_path(p)
  OBVIOUS
<1>5. /\ coalescer' = Completed(d, p, x) /\ now' = now + advance_ticks
      /\ UNCHANGED <<mode, fd, watch, queue, content, changes, missed, jobs, bursts, pushes, unseen>>
  BY <1>2, <1>3, <1>4 DEF file_event, Watcher, disk, history
<1>6. x \in Nat /\ (p \in Paths => x = content[p])
  BY <1>1, <1>4 DEF fingerprint_path, WatchTypes
<1>7. d.fingerprints = coalescer.fingerprints /\ DOMAIN d.pending = {p}
  <2>1. IsCoalescer(coalescer)
    BY <1>1 DEF CoalescerTypes
  <2>2. PICK e : e = Entry(coalescer, p)
    OBVIOUS
  <2>3. /\ IsCoalescer(d) /\ d.fingerprints = coalescer.fingerprints
        /\ DOMAIN d.pending = DOMAIN coalescer.pending \cup {p}
        /\ \A q \in DOMAIN coalescer.pending : q # p => d.pending[q] = coalescer.pending[q]
        /\ d.pending[p] = [merged_kind |-> e.merged_kind \cup {kind},
                           token |-> e.token + 1, due_time |-> now + debounce_ticks]
    BY <2>1, <2>2, <1>3, PushedEffect
  <2> QED  BY <2>3, <1>1 DEF Pending
<1>8. PICK c : c = coalescer'
  OBVIOUS
<1>9. PICK f : f = [content |-> x,
                    epoch |-> IF p \in DOMAIN Fingerprints THEN Fingerprints[p].epoch + 1 ELSE 1]
  OBVIOUS
<1>10. /\ IsCoalescer(c) /\ DOMAIN c.pending = DOMAIN d.pending \ {p}
       /\ DOMAIN c.fingerprints = DOMAIN d.fingerprints \cup {p}
       /\ \A q \in DOMAIN d.fingerprints : q # p => c.fingerprints[q] = d.fingerprints[q]
       /\ c.fingerprints[p] = [content |-> x,
             epoch |-> IF p \in DOMAIN d.fingerprints THEN d.fingerprints[p].epoch + 1 ELSE 1]
  <2>1. c = Completed(d, p, x)
    BY <1>5, <1>8
  <2> QED  BY <2>1, CompletedEffect
<1>11. c.fingerprints[p] = f
  <2>1. PICK fp : fp = coalescer.fingerprints
    OBVIOUS
  <2>2. d.fingerprints = fp /\ Fingerprints = fp
    BY <2>1, <1>7 DEF Fingerprints
  <2> QED  BY <2>2, <1>9, <1>10
<1>12. /\ DOMAIN Pending' = {} /\ DOMAIN Fingerprints' = DOMAIN Fingerprints \cup {p}
       /\ \A q \in DOMAIN Fingerprints : q # p => Fingerprints'[q] = Fingerprints[q]
       /\ Fingerprints'[p] = f
  BY <1>7, <1>8, <1>10, <1>11 DEF Pending, Fingerprints
<1>13. f \in [content : Nat, epoch : Nat \ {0}] /\ f.content = x
  BY <1>1, <1>6, <1>9, FingerprintType
<1>14. WatchTypes'
  <2>1. now' \in Nat
    BY <1>1, <1>5, WatchAssumption DEF WatchTypes
  <2> QED  BY <2>1, <1>1, <1>5 DEF WatchTypes, KernelEvent, PolledEvent, FileMask, FileEventKind, Job
<1>15. CoalescerTypes'
  <2>1. ASSUME NEW q \in DOMAIN Fingerprints'
        PROVE  Fingerprints'[q] \in [content : Nat, epoch : Nat \ {0}]
    BY <1>1, <1>12, <1>13 DEF CoalescerTypes
  <2>2. IsCoalescer(coalescer)'
    BY <1>8, <1>10 DEF IsCoalescer
  <2> QED  BY <2>1, <2>2, <1>1, <1>5, <1>12 DEF CoalescerTypes
<1>16. KindsInd'
  BY <1>1, <1>5, <1>12 DEF WatchInd, KindsInd
<1>17. FilesInd'
  <2>1. ASSUME NEW q \in Paths, content[q] # Known(q)'
        PROVE  q \in Announced'
    <3>1. q # p
      BY <2>1, <1>6, <1>12, <1>13 DEF Known
    <3>2. Known(q)' = Known(q)
      BY <3>1, <1>12 DEF Known
    <3>3. q \in Announced
      BY <2>1, <3>2, <1>1 DEF WatchInd, FilesInd, Remembered
    <3> QED  BY <3>1, <3>3, <1>2
  <2> QED  BY <2>1, <1>5 DEF FilesInd, Remembered
<1>18. JobsInd'
  BY <1>1, <1>5 DEF JobsInd
<1> QED  BY <1>14, <1>15, <1>16, <1>17, <1>18 DEF WatchInd

LEMMA HandOnInd ==
    ASSUME WatchInd, HandOn
    PROVE  WatchInd'
<1>1. PICK p : p = Head(polled).path
  OBVIOUS
<1>2. PICK path : path = [absolute |-> FALSE, parts |-> p]
  OBVIOUS
<1>3. /\ mode = "file_event" /\ polled # <<>> /\ polled' = Tail(polled)
      /\ file_event(path, Head(polled).kind)
  BY <1>1, <1>2 DEF HandOn
<1>4. UNCHANGED <<queue, missed>>
  BY <1>3 DEF file_event, disk
<1>5. p \in Paths /\ polled' \in Seq(PolledEvent) /\ Announced \subseteq Announced' \cup {p}
  BY <1>1, <1>3, <1>4, HandedOn
<1>6. Normalize(path) = p
  BY <1>2, <1>5, FilesAreNormal
<1> QED  BY <1>3, <1>5, <1>6, FileEventInd

LEMMA CalledInd ==
    ASSUME WatchInd, NEW path, Called(path)
    PROVE  WatchInd'
<1>1. mode = "file_event" /\ file_event(path, "modify") /\ polled' = polled
  BY DEF Called
<1>2. UNCHANGED <<queue, missed>>
  BY <1>1 DEF file_event, disk
<1>3. Announced' = Announced
  BY <1>1, <1>2 DEF Announced, PathsOf
<1>4. polled' \in Seq(PolledEvent)
  BY <1>1 DEF WatchInd, WatchTypes
<1> QED  BY <1>1, <1>3, <1>4, FileEventInd

LEMMA WatchStep ==
    ASSUME WatchInd, [Next]_vars
    PROVE  WatchInd'
BY FileChangeInd, WatcherInd, PushInd, FingerprintInd, CompleteInd, HandOnInd, CalledInd DEF Next

-----------------------------------------------------------------------------
(***************************************************************************)
(* The theorems.                                                           *)
(***************************************************************************)
LEMMA WatchIndHolds == Spec => []WatchInd
<1>1. Init => WatchInd
  BY WatchStarts
<1>2. WatchInd /\ [Next]_vars => WatchInd'
  BY WatchStep
<1> QED  BY <1>1, <1>2, PTL DEF Spec

\* However many files, events and jobs there are: the entries of the coalescer
\* have their types, and push merges the kinds of all events of a path since
\* the last completion, and none from before it.
THEOREM KindsAreMerged == Spec => []CoalescerInvariant
<1>1. WatchInd => CoalescerInvariant
  BY WatchIndImplies
<1> QED  BY <1>1, WatchIndHolds, PTL

\* complete takes the result of a job of the burst only if the job read the
\* file after the last event that was pushed.
THEOREM StaleJobsRejected == Spec => []StaleRejected
<1>1. WatchInd => StaleRejected
  BY WatchIndImplies
<1> QED  BY <1>1, WatchIndHolds, PTL

\* A file whose fingerprint is not that of its content has an event that is
\* still to come, or is among the known exceptions.
THEOREM ChangesRemembered == Spec => []NothingForgotten
<1>1. WatchInd => NothingForgotten
  BY WatchIndImplies
<1> QED  BY <1>1, WatchIndHolds, PTL

-----------------------------------------------------------------------------
\* Fingerprints are kept under paths of names alone.
NamesInd == \A p \in DOMAIN coalescer.fingerprints : Plain(p)

LEMMA PushedFingerprints ==
    ASSUME NEW c, IsCoalescer(c), NEW p, NEW k, NEW t, NEW r, r = Pushed(c, p, k, t)
    PROVE  r.fingerprints = c.fingerprints
<1>1. r = [c EXCEPT !.pending = r.pending]
  BY DEF Pushed, IsCoalescer
<1> QED  BY <1>1 DEF IsCoalescer

LEMMA CompletedFingerprints ==
    ASSUME NEW c, NEW p, NEW x, NEW r, r = Completed(c, p, x)
    PROVE  DOMAIN r.fingerprints = DOMAIN c.fingerprints \cup {p}
BY DEF Completed, Put

LEMMA FileEventNames ==
    ASSUME WatchInd, NamesInd, NEW path, NEW kind, file_event(path, kind), Plain(Normalize(path))
    PROVE  NamesInd'
<1>1. PICK p, d : p = Normalize(path) /\ d = Pushed(coalescer, p, kind, now)
  OBVIOUS
<1>2. coalescer' = Completed(d, p, fingerprint_path(p))
  BY <1>1 DEF file_event
<1>3. d.fingerprints = coalescer.fingerprints
  <2>1. IsCoalescer(coalescer)
    BY DEF WatchInd, CoalescerTypes
  <2> QED  BY <2>1, <1>1, PushedFingerprints
<1>4. DOMAIN coalescer'.fingerprints = DOMAIN d.fingerprints \cup {p}
  <2>1. PICK r, x : r = coalescer' /\ x = fingerprint_path(p)
    OBVIOUS
  <2>2. r = Completed(d, p, x)
    BY <2>1, <1>2
  <2>3. DOMAIN r.fingerprints = DOMAIN d.fingerprints \cup {p}
    BY <2>2, CompletedFingerprints
  <2> QED  BY <2>1, <2>3
<1> QED  BY <1>1, <1>3, <1>4 DEF NamesInd

LEMMA NamesStep ==
    ASSUME WatchInd, NamesInd, [Next]_vars
    PROVE  NamesInd'
<1>1. CASE UNCHANGED coalescer
  BY <1>1 DEF NamesInd
<1>2. CASE Push
  <2>1. PICK e : e = Head(polled)
    OBVIOUS
  <2>2. PICK r : r = coalescer'
    OBVIOUS
  <2>3. r = Pushed(coalescer, e.path, e.kind, now)
    BY <1>2, <2>1, <2>2 DEF Push
  <2>4. r.fingerprints = coalescer.fingerprints
    <3>1. IsCoalescer(coalescer)
      BY DEF WatchInd, CoalescerTypes
    <3>2. PICK c, q, k, t : c = coalescer /\ q = e.path /\ k = e.kind /\ t = now
      OBVIOUS
    <3>3. IsCoalescer(c) /\ r = Pushed(c, q, k, t)
      BY <2>3, <3>1, <3>2
    <3>4. r.fingerprints = c.fingerprints
      BY <3>3, PushedFingerprints
    <3> QED  BY <3>2, <3>4
  <2> QED  BY <2>2, <2>4 DEF NamesInd
<1>3. ASSUME NEW j \in jobs, Complete(j)
      PROVE  NamesInd'
  <2>1. j.path \in Paths
    BY DEF WatchInd, WatchTypes, Job
  <2>2. Plain(j.path)
    BY <2>1, WatchAssumption
  <2>3. UNCHANGED coalescer \/ coalescer' = Completed(coalescer, j.path, j.content)
    BY <1>3 DEF Complete
  <2>4. CASE coalescer' = Completed(coalescer, j.path, j.content)
    <3>1. PICK r, c, q, x : r = coalescer' /\ c = coalescer /\ q = j.path /\ x = j.content
      OBVIOUS
    <3>2. r = Completed(c, q, x)
      BY <3>1, <2>4
    <3>3. DOMAIN r.fingerprints = DOMAIN c.fingerprints \cup {q}
      BY <3>2, CompletedFingerprints
    <3> QED  BY <3>1, <3>3, <2>2 DEF NamesInd
  <2> QED  BY <2>3, <2>4, <1>1
<1>4. CASE HandOn
  <2>1. PICK path : path = [absolute |-> FALSE, parts |-> Head(polled).path]
    OBVIOUS
  <2>2. file_event(path, Head(polled).kind) /\ polled # <<>>
    BY <1>4, <2>1 DEF HandOn
  <2>3. Head(polled).path \in Paths
    <3>1. polled \in Seq(PolledEvent)
      BY DEF WatchInd, WatchTypes
    <3>2. Head(polled) \in PolledEvent
      BY <3>1, <2>2
    <3> QED  BY <3>2 DEF PolledEvent
  <2>4. Normalize(path) = Head(polled).path
    BY <2>1, <2>3, FilesAreNormal
  <2>5. Plain(Normalize(path))
    BY <2>3, <2>4, WatchAssumption
  <2> QED  BY <2>2, <2>5, FileEventNames
<1>5. ASSUME NEW path \in Calls, Called(path)
      PROVE  NamesInd'
  <2>1. file_event(path, "modify")
    BY <1>5 DEF Called
  <2>2. Normalize(path) # Escapes
    BY <2>1 DEF file_event
  <2>3. Plain(Normalize(path))
    BY <2>2, NormalizePlain
  <2> QED  BY <2>1, <2>3, FileEventNames
<1>6. ASSUME NEW p \in Paths, Write(p) \/ Delete(p) \/ (\E q \in Paths : Rename(p, q)) \/ Fingerprint(p)
      PROVE  UNCHANGED coalescer
  BY <1>6 DEF Write, Delete, Rename, Notify, Fingerprint
<1>7. ASSUME RemoveRoot \/ Start \/ Stop \/ Poll \/ Tick \/ UNCHANGED vars
      PROVE  UNCHANGED coalescer
  BY <1>7 DEF RemoveRoot, Notify, Start, Stop, Poll, Tick, vars
<1> QED  BY <1>1, <1>2, <1>3, <1>4, <1>5, <1>6, <1>7 DEF Next

\* PathPolicy::normalize, for any workspace and any spelling of a path, takes
\* what lies in the workspace, unless a relative path leaves it on its way, and
\* brings all spellings of a file to the one path of it; file_event and the
\* watcher keep a fingerprint under no other.
THEOREM OnePathPerFile == Spec => []SpellingsAgree
<1>1. Init => NamesInd
  BY DEF Init, NewCoalescer, NamesInd
<1>2. WatchInd /\ NamesInd /\ [Next]_vars => NamesInd'
  BY NamesStep
<1>3. NamesInd => SpellingsAgree
  BY AllAgree, PlainDenotes, PolicyAssumption DEF NamesInd, SpellingsAgree
<1> QED  BY <1>1, <1>2, <1>3, WatchIndHolds, PTL DEF Spec

=============================================================================
