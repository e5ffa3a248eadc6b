------------------------------ MODULE DataFacts -----------------------------
(***************************************************************************)
(* What the proofs about data keep needing: induction over the naturals in *)
(* a form without an operator for a parameter, division by a positive      *)
(* number, slices of sequences, what stands where in sequences put one     *)
(* behind another, and what FlattenSeq makes of them.                      *)
(***************************************************************************)
EXTENDS Integers, Sequences, SequencesExt, FiniteSetTheorems, SequenceTheorems, TLAPS

(* A set of naturals that is not empty has a least element.  Else a step   *)
(* down maps the finite set of its lower bounds onto itself with 0 and 1   *)
(* both going to 0.                                                        *)
LEMMA NatLeast ==
    ASSUME NEW S \in SUBSET Nat, S # {}
    PROVE  \E m \in S : \A k \in S : m <= k
<1> SUFFICES ASSUME \A m \in S : \E k \in S : k < m
             PROVE  FALSE
  BY SMT
<1> PICK top \in S : TRUE
  OBVIOUS
<1> DEFINE below == {k \in 0 .. top : \A j \in S : k <= j}
           back == [k \in below |-> IF k = 0 THEN 0 ELSE k - 1]
<1>1. 0 \in below /\ 1 \in below
  OBVIOUS
<1>2. \A k \in below : k + 1 \in below /\ k \in Nat
  OBVIOUS
<1>3. IsFiniteSet(below)
  <2>1. IsFiniteSet(0 .. top)
    BY FS_Interval
  <2> QED
    BY <2>1, FS_Subset
<1>4. back \in [below -> below]
  OBVIOUS
<1>5. \A k \in below : \E j \in below : back[j] = k
  <2> TAKE k \in below
  <2>1. k + 1 \in below /\ back[k + 1] = k
    BY <1>2
  <2> QED
    BY <2>1
<1>6. back \in Surjection(below, below)
  BY <1>4, <1>5 DEF Surjection
<1>7. back \in Injection(below, below)
  BY <1>3, <1>6, FS_SurjSameCardinalityImpliesInj
<1>8. back[0] = 0 /\ back[1] = 0 /\ DOMAIN back = below
  BY <1>1
<1> HIDE DEF back
<1>9. \A a, b \in below : back[a] = back[b] => a = b
  BY <1>7, <1>8 DEF Injection, IsInjective
<1> QED
  BY <1>1, <1>8, <1>9

(* Induction: a set that has 0 and the successor of each of its naturals   *)
(* has them all.                                                           *)
LEMMA NatByInduction ==
    ASSUME NEW S, 0 \in S, \A n \in Nat : n \in S => n + 1 \in S
    PROVE  Nat \subseteq S
<1> DEFINE missing == {n \in Nat : n \notin S}
<1> SUFFICES ASSUME missing # {}
             PROVE  FALSE
  OBVIOUS
<1>1. PICK m \in missing : \A k \in missing : m <= k
  BY NatLeast
<1>2. m # 0 /\ m - 1 \in Nat /\ m - 1 \in S
  BY <1>1
<1> QED
  BY <1>2

(* Quotient and remainder, and that they are the only ones. *)
LEMMA DivMod ==
    ASSUME NEW a \in Int, NEW b \in Nat \ {0}
    PROVE  /\ a \div b \in Int
           /\ a % b \in 0 .. b - 1
           /\ a = (b * (a \div b)) + (a % b)
           /\ a \in Nat => a \div b \in Nat /\ b * (a \div b) <= a
OBVIOUS

(* A number written as a multiple of n and a rest below n has that          *)
(* quotient and that rest.                                                  *)
LEMMA DivModUnique ==
    ASSUME NEW a \in Int, NEW b \in Nat \ {0}, NEW q \in Int, NEW r \in 0 .. b - 1,
           a = (b * q) + r
    PROVE  a \div b = q /\ a % b = r
OBVIOUS

(* A slice that lies in the sequence. *)
LEMMA Slice ==
    ASSUME NEW S, NEW s \in Seq(S), NEW m \in 1 .. Len(s) + 1, NEW n \in m - 1 .. Len(s)
    PROVE  /\ SubSeq(s, m, n) \in Seq(S)
           /\ Len(SubSeq(s, m, n)) = n - m + 1
           /\ \A i \in 1 .. n - m + 1 : SubSeq(s, m, n)[i] = s[m + i - 1]
<1>1. Len(s) \in Nat /\ \A i \in 1 .. Len(s) : s[i] \in S
  BY LenProperties, ElementOfSeq
<1>2. \A i \in m .. n : s[i] \in S
  BY <1>1
<1> QED
  BY <1>1, <1>2, SubSeqProperties
(* The n elements after the first b. *)
LEMMA SliceAt ==
    ASSUME NEW S, NEW s \in Seq(S), NEW b \in Nat, NEW n \in Nat, b + n <= Len(s)
    PROVE  /\ SubSeq(s, b + 1, b + n) \in Seq(S)
           /\ Len(SubSeq(s, b + 1, b + n)) = n
           /\ \A i \in 1 .. n : SubSeq(s, b + 1, b + n)[i] = s[b + i]
<1> DEFINE from == b + 1
           to == b + n
<1>1. from \in 1 .. Len(s) + 1 /\ to \in from - 1 .. Len(s) /\ to - from + 1 = n
  OBVIOUS
<1>2. \A i \in 1 .. n : from + i - 1 = b + i
  OBVIOUS
<1> HIDE DEF from, to
<1>3. /\ SubSeq(s, from, to) \in Seq(S)
      /\ Len(SubSeq(s, from, to)) = n
      /\ \A i \in 1 .. n : SubSeq(s, from, to)[i] = s[from + i - 1]
  BY <1>1, Slice
<1> QED
  BY <1>2, <1>3 DEF from, to

(* Two sequences one behind the other. *)
LEMMA Behind ==
    ASSUME NEW S, NEW s \in Seq(S), NEW t \in Seq(S)
    PROVE  /\ s \o t \in Seq(S) /\ Len(s \o t) = Len(s) + Len(t)
           /\ \A i \in 1 .. Len(s) : (s \o t)[i] = s[i]
           /\ \A i \in 1 .. Len(t) : (s \o t)[Len(s) + i] = t[i]
OBVIOUS

(* The two bytes of a number. *)
LEMMA TwoBytes ==
    ASSUME NEW n \in Nat
    PROVE  n % 256 \in 0 .. 255 /\ n \div 256 \in Nat /\ n = (256 * (n \div 256)) + (n % 256)
OBVIOUS

(* Three one-element sequences one behind the other. *)
LEMMA Three ==
    ASSUME NEW x, NEW y, NEW z
    PROVE  <<x>> \o (<<y>> \o (<<z>> \o <<>>)) = <<x, y, z>>
<1> DEFINE S == {x, y, z}
<1>1. x \in S /\ y \in S /\ z \in S
  OBVIOUS
<1> HIDE DEF S
<1>2. <<z>> \o <<>> = <<z>>
  OBVIOUS
<1>3. PICK r : r = <<y>> \o <<z>>
  OBVIOUS
<1>4. r \in Seq(S) /\ Len(r) = 2 /\ r[1] = y /\ r[2] = z
  BY <1>1, <1>3
<1>5. PICK v : v = <<x>> \o r
  OBVIOUS
<1>6. v \in Seq(S) /\ Len(v) = 3 /\ v[1] = x /\ v[2] = y /\ v[3] = z
  <2>1. PICK q : q = <<x>>
    OBVIOUS
  <2>2. q \in Seq(S) /\ Len(q) = 1 /\ q[1] = x
    BY <1>1, <2>1
  <2>3. /\ q \o r \in Seq(S) /\ Len(q \o r) = Len(q) + Len(r)
        /\ \A i \in 1 .. Len(q) : (q \o r)[i] = q[i]
        /\ \A i \in 1 .. Len(r) : (q \o r)[Len(q) + i] = r[i]
    BY ONLY <1>4, <2>2, Behind
  <2>4. v = q \o r
    BY <1>5, <2>1
  <2>5. v \in Seq(S) /\ Len(v) = 3
    BY ONLY <1>4, <2>2, <2>3, <2>4
  <2>6. v[1] = x
    BY ONLY <2>2, <2>3, <2>4
  <2>7. (\A i \in 1 .. 2 : v[1 + i] = r[i]) /\ 1 + 1 = 2 /\ 1 + 2 = 3
    BY ONLY <1>4, <2>2, <2>3, <2>4
  <2> QED
    BY ONLY <1>4, <2>5, <2>6, <2>7
<1>7. PICK w : w = <<x, y, z>>
  OBVIOUS
<1>8. w \in Seq(S) /\ Len(w) = 3 /\ w[1] = x /\ w[2] = y /\ w[3] = z
  BY <1>1, <1>7
<1>9. \A i \in 1 .. 3 : v[i] = w[i]
  BY <1>6, <1>8
<1>10. v = w
  BY <1>6, <1>8, <1>9, SeqEqual
<1> QED
  BY <1>2, <1>3, <1>5, <1>7, <1>10

-----------------------------------------------------------------------------
(* u has t behind its first b elements. *)
Has(u, b, t) ==
    /\ {b, Len(t), Len(u)} \subseteq Nat
    /\ b + Len(t) <= Len(u)
    /\ \A i \in 1 .. Len(t) : u[b + i] = t[i]

(* A sequence behind another: both are there whole. *)
LEMMA HasBoth ==
    ASSUME NEW S, NEW s \in Seq(S), NEW t \in Seq(S)
    PROVE  /\ s \o t \in Seq(S) /\ Len(s \o t) = Len(s) + Len(t)
           /\ Has(s \o t, 0, s) /\ Has(s \o t, Len(s), t)
<1>1. Len(s) \in Nat /\ Len(t) \in Nat
  OBVIOUS
<1>2. /\ s \o t \in Seq(S) /\ Len(s \o t) = Len(s) + Len(t)
      /\ \A i \in 1 .. Len(s) : (s \o t)[i] = s[i]
      /\ \A i \in 1 .. Len(t) : (s \o t)[Len(s) + i] = t[i]
  BY Behind
<1>3. PICK u \in Seq(S), m \in Nat, n \in Nat : u = s \o t /\ m = Len(s) /\ n = Len(t)
  BY <1>1, <1>2
<1>4. Has(u, 0, s)
  <2>1. \A i \in 1 .. m : 0 + i = i
    OBVIOUS
  <2> QED
    BY <1>2, <1>3, <2>1 DEF Has
<1>5. Has(u, m, t)
  BY <1>2, <1>3 DEF Has
<1> QED
  BY <1>2, <1>3, <1>4, <1>5

(* What is in a part is in the whole. *)
LEMMA HasWithin ==
    ASSUME NEW w, NEW u, NEW t, NEW b, NEW c, Has(w, b, u), Has(u, c, t)
    PROVE  \A d : d = b + c => Has(w, d, t)
<1>1. {b, c, Len(t), Len(u), Len(w)} \subseteq Nat
  BY DEF Has
<1>2. PICK l \in Nat, m \in Nat, n \in Nat, d \in Nat :
         l = Len(t) /\ m = Len(u) /\ n = Len(w) /\ d = b + c
  BY <1>1
<1>3. c + l <= m /\ b + m <= n
  BY <1>2 DEF Has
<1>4. d + l <= n /\ \A i \in 1 .. l : c + i \in 1 .. m /\ b + (c + i) = d + i
  BY <1>1, <1>2, <1>3
<1>5. \A i \in 1 .. l : u[c + i] = t[i]
  BY <1>2 DEF Has
<1>6. \A i \in 1 .. m : w[b + i] = u[i]
  BY <1>2 DEF Has
<1>7. \A i \in 1 .. l : w[d + i] = t[i]
  BY <1>4, <1>5, <1>6
<1>8. Has(w, d, t)
  BY <1>2, <1>4, <1>7 DEF Has
<1> QED
  BY <1>2, <1>8

(* A part can be cut out again. *)
LEMMA HasSlice ==
    ASSUME NEW S, NEW u \in Seq(S), NEW t \in Seq(S), NEW b, Has(u, b, t)
    PROVE  \A m, n : m = b + 1 /\ n = b + Len(t) => SubSeq(u, m, n) = t
<1>1. PICK l \in Nat, c \in Nat : l = Len(t) /\ c = b
  BY DEF Has
<1>2. c + l <= Len(u) /\ \A i \in 1 .. l : u[c + i] = t[i]
  BY <1>1 DEF Has
<1>3. /\ SubSeq(u, c + 1, c + l) \in Seq(S) /\ Len(SubSeq(u, c + 1, c + l)) = l
      /\ \A i \in 1 .. l : SubSeq(u, c + 1, c + l)[i] = u[c + i]
  <2>1. c + l <= Len(u)
    BY <1>2
  <2> QED
    BY <2>1, SliceAt, SMT
<1>4. SubSeq(u, c + 1, c + l) = t
  BY <1>1, <1>2, <1>3, SeqEqual
<1> QED
  BY <1>1, <1>4

(* F has, for each k to n, the first k of seqs one behind the other.       *)
LaidOut(F, seqs, n, S) ==
    /\ \A i \in 1 .. n : seqs[i] \in Seq(S)
    /\ F \in [0 .. n -> Seq(S)]
    /\ F[0] = <<>>
    /\ \A j, k \in 0 .. n : k = j + 1 => F[k] = F[j] \o seqs[k]

(* A sequence of elements of a set is one of elements of a larger set. *)
LEMMA SeqWider ==
    ASSUME NEW A, NEW B, A \subseteq B, NEW s \in Seq(A)
    PROVE  s \in Seq(B)
<1>1. s \in [1 .. Len(s) -> A] /\ Len(s) \in Nat
  OBVIOUS
<1>2. s \in [1 .. Len(s) -> B]
  BY <1>1
<1> QED
  BY <1>1, <1>2, SeqDef

(* What FlattenSeq recurses to, for the first n. *)
FlattensTo(f, seqs, n) ==
    f = [i \in 1 .. n |-> IF i = 1 THEN seqs[i] ELSE f[i - 1] \o seqs[i]]

(* One more sequence can always be laid out. *)
LEMMA LayoutExtends ==
    ASSUME NEW S, NEW seqs, NEW m \in Nat, NEW F, LaidOut(F, seqs, m, S),
           NEW l \in Nat, l = m + 1, seqs[l] \in Seq(S)
    PROVE  \E G : LaidOut(G, seqs, l, S)
<1> DEFINE G == [k \in 0 .. l |-> IF k = l THEN F[m] \o seqs[l] ELSE F[k]]
<1>1. m \in 0 .. m /\ (\A k \in 0 .. l : k = l \/ k \in 0 .. m) /\ \A k \in 0 .. m : k \in 0 .. l /\ k # l
  OBVIOUS
<1>2. F[m] \in Seq(S) /\ \A k \in 0 .. m : F[k] \in Seq(S)
  BY <1>1 DEF LaidOut
<1>3. F[m] \o seqs[l] \in Seq(S)
  BY <1>2
<1>4. G \in [0 .. l -> Seq(S)]
  BY <1>1, <1>2, <1>3
<1>5. G[l] = F[m] \o seqs[l] /\ \A k \in 0 .. m : G[k] = F[k]
  <2>1. l \in 0 .. l
    OBVIOUS
  <2> QED
    BY <1>1, <2>1
<1> HIDE DEF G
<1>6. G[0] = <<>>
  BY <1>1, <1>5 DEF LaidOut
<1>7. ASSUME NEW j \in 0 .. l, NEW k \in 0 .. l, k = j + 1
      PROVE  G[k] = G[j] \o seqs[k]
  <2>1. CASE k = l
    <3>1. j = m /\ j \in 0 .. m
      BY <1>7, <2>1
    <3> QED
      BY <1>5, <2>1, <3>1
  <2>2. CASE k # l
    <3>1. j \in 0 .. m /\ k \in 0 .. m
      BY <1>1, <1>7, <2>2
    <3>2. F[k] = F[j] \o seqs[k]
      BY <1>7, <3>1 DEF LaidOut
    <3> QED
      BY <1>5, <3>1, <3>2
  <2> QED
    BY <2>1, <2>2
<1>8. \A i \in 1 .. l : seqs[i] \in Seq(S)
  <2>1. \A i \in 1 .. l : i = l \/ i \in 1 .. m
    OBVIOUS
  <2> QED
    BY <2>1 DEF LaidOut
<1>9. LaidOut(G, seqs, l, S)
  BY <1>4, <1>6, <1>7, <1>8 DEF LaidOut
<1> QED
  BY <1>9

(* Sequences can be laid out, however many there are: by induction. *)
LEMMA LayoutExists ==
    ASSUME NEW S, NEW seqs \in Seq(Seq(S))
    PROVE  \E F : LaidOut(F, seqs, Len(seqs), S)
<1> DEFINE P == {m \in Nat : m <= Len(seqs) => \E F : LaidOut(F, seqs, m, S)}
<1>1. 0 \in P
  <2> DEFINE none == [k \in 0 .. 0 |-> <<>>]
  <2>1. none \in [0 .. 0 -> Seq(S)] /\ none[0] = <<>>
    OBVIOUS
  <2>2. \A j, k \in 0 .. 0 : k # j + 1
    OBVIOUS
  <2> HIDE DEF none
  <2>3. LaidOut(none, seqs, 0, S)
    BY <2>1, <2>2 DEF LaidOut
  <2> QED
    BY <2>3
<1>2. ASSUME NEW m \in Nat, m \in P
      PROVE  m + 1 \in P
  <2>1. PICK l \in Nat : l = m + 1
    OBVIOUS
  <2>2. ASSUME l <= Len(seqs)
        PROVE  \E F : LaidOut(F, seqs, l, S)
    <3>1. PICK F : LaidOut(F, seqs, m, S)
      BY <1>2, <2>1, <2>2
    <3>2. seqs[l] \in Seq(S)
      BY <2>1, <2>2
    <3> QED
      BY <2>1, <3>1, <3>2, LayoutExtends
  <2> QED
    BY <2>1, <2>2
<1> HIDE DEF P
<1>3. Len(seqs) \in P
  BY <1>1, <1>2, NatByInduction
<1> QED
  BY <1>3 DEF P

(* FlattenSeq is the last of the layout. *)
LEMMA FlattenIsLayout ==
    ASSUME NEW S, NEW seqs \in Seq(Seq(S)), NEW F, LaidOut(F, seqs, Len(seqs), S)
    PROVE  FlattenSeq(seqs) = F[Len(seqs)]
<1> DEFINE n == Len(seqs)
<1>1. n \in Nat /\ \A i \in 1 .. n : seqs[i] \in Seq(S)
  OBVIOUS
<1>2. CASE n = 0
  <2>1. seqs = <<>>
    BY <1>2
  <2> QED
    BY <1>2, <2>1 DEF FlattenSeq, LaidOut
<1>3. CASE n > 0
  <2> DEFINE f == CHOOSE f : FlattensTo(f, seqs, n)
             g == [i \in 1 .. n |-> F[i]]
  <2>1. FlattenSeq(seqs) = f[n]
    BY <1>3 DEF FlattenSeq, FlattensTo
  <2> HIDE DEF n, f
  <2>2. LaidOut(F, seqs, n, S)
    BY DEF n
  <2>3. FlattensTo(g, seqs, n)
    <3>1. ASSUME NEW i \in 1 .. n
          PROVE  g[i] = IF i = 1 THEN seqs[i] ELSE g[i - 1] \o seqs[i]
      <4>1. PICK j \in 0 .. n : i = j + 1 /\ j = i - 1 /\ i \in 0 .. n
        BY <1>1
      <4>2. F[i] = F[j] \o seqs[i] /\ g[i] = F[i]
        BY <2>2, <4>1 DEF LaidOut
      <4>3. CASE i = 1
        <5>1. F[j] = <<>> /\ seqs[i] \in Seq(S)
          BY <1>1, <2>2, <4>1, <4>3 DEF LaidOut
        <5>2. <<>> \o seqs[i] = seqs[i]
          BY <5>1
        <5> QED
          BY <4>2, <4>3, <5>1, <5>2
      <4>4. CASE i # 1
        <5>1. j \in 1 .. n /\ g[j] = F[j]
          BY <1>1, <4>1, <4>4
        <5> QED
          BY <4>1, <4>2, <4>4, <5>1
      <4> QED
        BY <4>3, <4>4
    <3>2. g = [i \in 1 .. n |-> g[i]]
      OBVIOUS
    <3> HIDE DEF g
    <3> QED
      BY <3>1, <3>2 DEF FlattensTo
  <2>4. FlattensTo(f, seqs, n)
    BY <2>3 DEF f
  <2> HIDE DEF f
  <2>5. \A i \in 1 .. n : f[i] = IF i = 1 THEN seqs[i] ELSE f[i - 1] \o seqs[i]
    BY <2>4 DEF FlattensTo
  <2> DEFINE P == {m \in Nat : m \in 1 .. n => f[m] = F[m]}
  <2>6. 0 \in P
    BY <1>1
  <2>7. ASSUME NEW m \in Nat, m \in P
        PROVE  m + 1 \in P
    <3>1. PICK l \in Nat : l = m + 1 /\ m = l - 1
      OBVIOUS
    <3>2. ASSUME l \in 1 .. n
          PROVE  f[l] = F[l]
      <4>1. m \in 0 .. n /\ l \in 0 .. n
        BY <1>1, <3>1, <3>2
      <4>2. F[l] = F[m] \o seqs[l]
        BY <2>2, <3>1, <4>1 DEF LaidOut
      <4>3. CASE l = 1
        <5>1. F[m] = <<>> /\ seqs[l] \in Seq(S) /\ f[l] = seqs[l]
          BY <1>1, <2>2, <2>5, <3>1, <3>2, <4>3 DEF LaidOut
        <5>2. <<>> \o seqs[l] = seqs[l]
          BY <5>1
        <5> QED
          BY <4>2, <5>1, <5>2
      <4>4. CASE l # 1
        <5>1. m \in 1 .. n
          BY <1>1, <3>1, <3>2, <4>4
        <5>2. f[m] = F[m]
          BY <2>7, <5>1
        <5>3. f[l] = f[m] \o seqs[l]
          BY <2>5, <3>1, <3>2, <4>4
        <5> QED
          BY <4>2, <5>2, <5>3
      <4> QED
        BY <4>3, <4>4
    <3> QED
      BY <3>1, <3>2
  <2> HIDE DEF P
  <2>8. n \in P
    BY <1>1, <2>6, <2>7, NatByInduction
  <2>9. f[n] = F[n]
    BY <1>1, <1>3, <2>8 DEF P, n
  <2> QED
    BY <2>1, <2>9 DEF n
<1> QED
  BY <1>1, <1>2, <1>3

(* u is s with t behind it. *)
Joins(u, s, t) ==
    /\ Len(u) = Len(s) + Len(t)
    /\ \A i \in 1 .. Len(s) : u[i] = s[i]
    /\ \A i \in 1 .. Len(t) : u[Len(s) + i] = t[i]

(* One sequence more keeps what is laid out. *)
LEMMA LayoutGrows ==
    ASSUME NEW S, NEW seqs, NEW n \in Nat, NEW F, LaidOut(F, seqs, n, S)
    PROVE  \A j \in 0 .. n, k \in 1 .. n : k = j + 1 =>
              /\ F[j] \in Seq(S) /\ F[k] \in Seq(S) /\ Len(F[j]) \in Nat /\ Len(seqs[k]) \in Nat
              /\ Joins(F[k], F[j], seqs[k])
<1> SUFFICES ASSUME NEW j \in 0 .. n, NEW k \in 1 .. n, k = j + 1
             PROVE  /\ F[j] \in Seq(S) /\ F[k] \in Seq(S) /\ Len(F[j]) \in Nat /\ Len(seqs[k]) \in Nat
                    /\ Joins(F[k], F[j], seqs[k])
  OBVIOUS
<1>1. k \in 0 .. n /\ seqs[k] \in Seq(S)
  BY DEF LaidOut
<1>2. F[j] \in Seq(S) /\ F[k] \in Seq(S)
  BY <1>1 DEF LaidOut
<1>3. F[k] = F[j] \o seqs[k]
  BY <1>1 DEF LaidOut
<1>4. PICK s \in Seq(S), t \in Seq(S) : s = F[j] /\ t = seqs[k]
  BY <1>1, <1>2
<1>5. /\ s \o t \in Seq(S) /\ Len(s \o t) = Len(s) + Len(t)
      /\ \A i \in 1 .. Len(s) : (s \o t)[i] = s[i]
      /\ \A i \in 1 .. Len(t) : (s \o t)[Len(s) + i] = t[i]
  BY Behind
<1>6. Len(s) \in Nat /\ Len(t) \in Nat
  OBVIOUS
<1> QED
  BY <1>2, <1>3, <1>4, <1>5, <1>6 DEF Joins

(* t begins with s. *)
Begins(s, t) == Len(s) <= Len(t) /\ \A i \in 1 .. Len(s) : t[i] = s[i]

(* What is laid out first stays in front. *)
LEMMA LayoutBegins ==
    ASSUME NEW S, NEW seqs, NEW n \in Nat, NEW F, LaidOut(F, seqs, n, S),
           NEW k \in 0 .. n
    PROVE  \A m \in k .. n : Begins(F[k], F[m])
<1> DEFINE P == {m \in Nat : m \in k .. n => Begins(F[k], F[m])}
<1>1. \A m \in 0 .. n : F[m] \in Seq(S) /\ Len(F[m]) \in Nat
  BY DEF LaidOut
<1>2. 0 \in P
  BY <1>1 DEF Begins
<1>3. ASSUME NEW m \in Nat, m \in P
      PROVE  m + 1 \in P
  <2>1. PICK l \in Nat : l = m + 1
    OBVIOUS
  <2>2. ASSUME l \in k .. n
        PROVE  Begins(F[k], F[l])
    <3>1. CASE l = k
      BY <1>1, <3>1 DEF Begins
    <3>2. CASE l # k
      <4>1. m \in k .. n /\ m \in 0 .. n /\ l \in 0 .. n /\ l \in 1 .. n
        BY <2>1, <2>2, <3>2
      <4>2. Begins(F[k], F[m])
        BY <1>3, <4>1
      <4>3. /\ Len(F[l]) = Len(F[m]) + Len(seqs[l]) /\ Len(F[m]) \in Nat
            /\ \A i \in 1 .. Len(F[m]) : F[l][i] = F[m][i]
        <5>1. Joins(F[l], F[m], seqs[l]) /\ Len(F[m]) \in Nat
          BY <2>1, <4>1, LayoutGrows
        <5> QED
          BY <5>1 DEF Joins
      <4>4. Len(seqs[l]) \in Nat /\ Len(F[k]) \in Nat
        BY <1>1, <4>1 DEF LaidOut
      <4>5. PICK a \in Nat, b \in Nat, c \in Nat :
               a = Len(F[k]) /\ b = Len(F[m]) /\ c = Len(seqs[l])
        BY <4>3, <4>4
      <4>6. a <= b /\ \A i \in 1 .. a : F[m][i] = F[k][i]
        BY <4>2, <4>5 DEF Begins
      <4>7. a <= Len(F[l]) /\ \A i \in 1 .. a : F[l][i] = F[k][i]
        <5>1. a <= b + c /\ \A i \in 1 .. a : i \in 1 .. b
          BY <4>6
        <5>2. Len(F[l]) = b + c /\ \A i \in 1 .. b : F[l][i] = F[m][i]
          BY <4>3, <4>5
        <5> QED
          BY <4>6, <5>1, <5>2
      <4> QED
        BY <4>5, <4>7 DEF Begins
    <3> QED
      BY <3>1, <3>2
  <2> QED
    BY <2>1, <2>2
<1> HIDE DEF P
<1>4. \A m \in Nat : m \in P
  BY <1>2, <1>3, NatByInduction
<1> QED
  BY <1>4 DEF P

(* In a layout each sequence stands whole behind those before it. *)
LEMMA LaidOutAt ==
    ASSUME NEW S, NEW seqs, NEW n \in Nat, NEW F, LaidOut(F, seqs, n, S)
    PROVE  \A j \in 0 .. n, k \in 1 .. n : k = j + 1 =>
              /\ Len(F[j]) \in Nat /\ Len(seqs[k]) \in Nat
              /\ Len(F[k]) = Len(F[j]) + Len(seqs[k])
              /\ Has(F[n], Len(F[j]), seqs[k])
<1> SUFFICES ASSUME NEW j \in 0 .. n, NEW k \in 1 .. n, k = j + 1
             PROVE  /\ Len(F[j]) \in Nat /\ Len(seqs[k]) \in Nat
                    /\ Len(F[k]) = Len(F[j]) + Len(seqs[k])
                    /\ Has(F[n], Len(F[j]), seqs[k])
  OBVIOUS
<1>1. k \in 0 .. n /\ n \in k .. n /\ n \in 0 .. n
  OBVIOUS
<1>2. Joins(F[k], F[j], seqs[k]) /\ Len(F[j]) \in Nat /\ Len(seqs[k]) \in Nat
  BY LayoutGrows
<1>3. Begins(F[k], F[n]) /\ Len(F[n]) \in Nat /\ Len(F[k]) \in Nat
  <2>1. F[n] \in Seq(S) /\ F[k] \in Seq(S)
    BY <1>1 DEF LaidOut
  <2>2. Len(F[n]) \in Nat /\ Len(F[k]) \in Nat
    BY <2>1
  <2>3. \A m \in k .. n : Begins(F[k], F[m])
    BY <1>1, LayoutBegins
  <2> QED
    BY <1>1, <2>2, <2>3
<1>4. PICK a \in Nat, b \in Nat, c \in Nat, d \in Nat :
         a = Len(F[j]) /\ b = Len(seqs[k]) /\ c = Len(F[k]) /\ d = Len(F[n])
  BY <1>2, <1>3
<1>5. c = a + b
  BY <1>2, <1>4 DEF Joins
<1>6. c <= d /\ \A i \in 1 .. c : F[n][i] = F[k][i]
  BY <1>3, <1>4 DEF Begins
<1>7. \A i \in 1 .. b : F[k][a + i] = seqs[k][i]
  BY <1>2, <1>4 DEF Joins
<1>8. a + b <= d /\ \A i \in 1 .. b : a + i \in 1 .. c
  BY <1>6, <1>5
<1>9. \A i \in 1 .. b : F[n][a + i] = seqs[k][i]
  BY <1>6, <1>7, <1>8
<1> QED
  BY <1>4, <1>8, <1>9, <1>5 DEF Has

(* What the first of the sequences flatten to. *)
LEMMA FlattenBeginning ==
    ASSUME NEW S, NEW seqs, NEW n \in Nat, NEW F, LaidOut(F, seqs, n, S),
           NEW t \in Seq(Seq(S)), Len(t) \in 0 .. n, Begins(t, seqs)
    PROVE  FlattenSeq(t) = F[Len(t)]
<1> DEFINE k == Len(t)
           G == [i \in 0 .. k |-> F[i]]
<1>1. k \in 0 .. n /\ k \in Nat
  OBVIOUS
<1>2. \A i \in 1 .. k : t[i] = seqs[i] /\ t[i] \in Seq(S)
  BY DEF Begins
<1> HIDE DEF k
<1>3. G \in [0 .. k -> Seq(S)] /\ \A i \in 0 .. k : G[i] = F[i] /\ i \in 0 .. n
  BY <1>1 DEF LaidOut
<1>4. 0 \in 0 .. k /\ k \in 0 .. k
  BY <1>1
<1> HIDE DEF G
<1>5. G[0] = <<>> /\ G[k] = F[k]
  BY <1>3, <1>4 DEF LaidOut
<1>6. ASSUME NEW i \in 0 .. k, NEW j \in 0 .. k, j = i + 1
      PROVE  G[j] = G[i] \o t[j]
  <2>1. j \in 1 .. k
    BY <1>1, <1>6
  <2>2. F[j] = F[i] \o seqs[j]
    BY <1>3, <1>6 DEF LaidOut
  <2> QED
    BY <1>2, <1>3, <2>1, <2>2
<1>7. LaidOut(G, t, k, S)
  BY <1>2, <1>3, <1>5, <1>6 DEF LaidOut
<1>8. FlattenSeq(t) = G[k]
  BY <1>7, FlattenIsLayout DEF k
<1> QED
  BY <1>5, <1>8 DEF k

(* A bounded sequence. *)
LEMMA SeqOfShape ==
    ASSUME NEW S, NEW m \in Nat, NEW s \in SeqOf(S, m)
    PROVE  s \in Seq(S) /\ Len(s) \in 0 .. m
<1>1. PICK k \in 0 .. m : s \in [1 .. k -> S]
  BY DEF SeqOf
<1> QED
  BY <1>1

(* Sequences flatten to one. *)
LEMMA FlattenTyped ==
    ASSUME NEW S, NEW seqs \in Seq(Seq(S))
    PROVE  FlattenSeq(seqs) \in Seq(S)
<1>1. PICK F : LaidOut(F, seqs, Len(seqs), S)
  BY LayoutExists
<1>2. Len(seqs) \in 0 .. Len(seqs)
  OBVIOUS
<1> QED
  BY <1>1, <1>2, FlattenIsLayout DEF LaidOut

(* Where the sequences start that stand behind b others. *)
Starts(start, b, seqs, n) ==
    /\ start = [k \in 1 .. n + 1 |-> start[k]]
    /\ \A j \in 0 .. n, k \in 1 .. n + 1 :
          k = j + 1 => start[k] = b + Len(FlattenSeq(SubSeq(seqs, 1, j)))

(* The sequences stand in a file in order, each whole, to its end. *)
Stand(file, start, b, seqs, n) ==
    /\ \A k \in 1 .. n + 1 : start[k] \in Nat
    /\ start[1] = b
    /\ \A j, k \in 1 .. n + 1 : k = j + 1 => start[k] = start[j] + Len(seqs[j])
    /\ \A j, k \in 1 .. n + 1 : j <= k => start[j] <= start[k]
    /\ Len(file) = start[n + 1]
    /\ \A k \in 1 .. n : Has(file, start[k], seqs[k])

(* Flattened behind a header, they do. *)
LEMMA FlattenedStand ==
    ASSUME NEW S, NEW h \in Seq(S), NEW seqs \in Seq(Seq(S)),
           NEW start, Starts(start, Len(h), seqs, Len(seqs))
    PROVE  /\ h \o FlattenSeq(seqs) \in Seq(S)
           /\ Has(h \o FlattenSeq(seqs), 0, h)
           /\ Stand(h \o FlattenSeq(seqs), start, Len(h), seqs, Len(seqs))
<1>1. PICK n \in Nat, b \in Nat : n = Len(seqs) /\ b = Len(h)
  OBVIOUS
<1>2. PICK F : LaidOut(F, seqs, n, S)
  BY <1>1, LayoutExists
<1>3. \A k \in 0 .. n : F[k] \in Seq(S) /\ Len(F[k]) \in Nat
  <2>1. \A k \in 0 .. n : F[k] \in Seq(S)
    BY <1>2 DEF LaidOut
  <2> QED
    BY <2>1
<1>4. ASSUME NEW j \in 0 .. n
      PROVE  FlattenSeq(SubSeq(seqs, 1, j)) = F[j]
  <2>1. PICK t : t = SubSeq(seqs, 1, j)
    OBVIOUS
  <2>2. t \in Seq(Seq(S)) /\ Len(t) = j /\ \A i \in 1 .. j : t[i] = seqs[i]
    BY <1>1, <2>1
  <2>3. Begins(t, seqs)
    BY <1>1, <2>2 DEF Begins
  <2>4. Len(t) \in 0 .. n
    BY <2>2
  <2>5. FlattenSeq(t) = F[Len(t)]
    BY ONLY <1>1, <1>2, <2>2, <2>3, <2>4, FlattenBeginning
  <2> QED
    BY <2>1, <2>2, <2>5
<1>5. \A j \in 0 .. n, k \in 1 .. n + 1 : k = j + 1 => start[k] = b + Len(F[j])
  <2>1. \A j \in 0 .. n, k \in 1 .. n + 1 :
           k = j + 1 => start[k] = b + Len(FlattenSeq(SubSeq(seqs, 1, j)))
    BY <1>1 DEF Starts
  <2> QED
    BY <1>4, <2>1
<1>6. ASSUME NEW k \in 1 .. n + 1
      PROVE  \E j \in 0 .. n : k = j + 1 /\ start[k] = b + Len(F[j])
  <2>1. PICK j \in 0 .. n : k = j + 1
    OBVIOUS
  <2> QED
    BY <1>5, <2>1
<1>7. \A k \in 1 .. n + 1 : start[k] \in Nat
  BY <1>3, <1>6
<1>8. FlattenSeq(seqs) = F[n] /\ n \in 0 .. n
  BY <1>1, <1>2, FlattenIsLayout
<1>9. PICK t \in Seq(S) : t = FlattenSeq(seqs) /\ Len(t) = Len(F[n])
  BY <1>3, <1>8
<1>10. /\ h \o t \in Seq(S) /\ Len(h \o t) = Len(h) + Len(t)
       /\ Has(h \o t, 0, h) /\ Has(h \o t, Len(h), t)
  BY HasBoth
<1>11. Len(h \o t) = start[n + 1]
  <2>1. PICK k \in 1 .. n + 1 : k = n + 1
    OBVIOUS
  <2> QED
    BY <1>1, <1>5, <1>8, <1>9, <1>10, <2>1
<1>12. start[1] = b
  <2>1. PICK one \in 1 .. n + 1 : one = 1
    OBVIOUS
  <2>2. PICK zero \in 0 .. n : zero = 0 /\ one = zero + 1
    BY <2>1
  <2>3. Len(F[zero]) = 0
    BY <1>2, <2>2 DEF LaidOut
  <2>4. start[one] = b + Len(F[zero])
    BY <1>5, <2>2
  <2> QED
    BY <2>1, <2>3, <2>4
<1>13. \A x \in 0 .. n, y \in 1 .. n : y = x + 1 =>
          /\ Len(F[x]) \in Nat /\ Len(seqs[y]) \in Nat
          /\ Len(F[y]) = Len(F[x]) + Len(seqs[y])
          /\ Has(F[n], Len(F[x]), seqs[y])
  BY <1>2, LaidOutAt
<1>14. ASSUME NEW j \in 1 .. n + 1, NEW k \in 1 .. n + 1, k = j + 1
       PROVE  start[k] = start[j] + Len(seqs[j])
  <2>1. PICK i \in 0 .. n : j = i + 1 /\ j \in 1 .. n /\ j \in 0 .. n
    BY <1>14
  <2>2. Len(F[j]) = Len(F[i]) + Len(seqs[j]) /\ Len(F[i]) \in Nat /\ Len(seqs[j]) \in Nat
    BY <1>13, <2>1
  <2>3. start[k] = b + Len(F[j]) /\ start[j] = b + Len(F[i])
    BY <1>5, <1>14, <2>1
  <2>4. PICK x \in Nat, y \in Nat : x = Len(F[i]) /\ y = Len(seqs[j])
    BY <2>2
  <2>5. start[k] = b + (x + y) /\ start[j] = b + x
    BY <2>2, <2>3, <2>4
  <2>6. b + (x + y) = (b + x) + y
    OBVIOUS
  <2> QED
    BY <2>4, <2>5, <2>6
<1>15. ASSUME NEW j \in 1 .. n + 1, NEW k \in 1 .. n + 1, j <= k
       PROVE  start[j] <= start[k]
  <2>1. PICK x \in 0 .. n, y \in 0 .. n : j = x + 1 /\ k = y + 1 /\ y \in x .. n
    BY <1>15
  <2>2. Begins(F[x], F[y])
    BY <1>2, <2>1, LayoutBegins
  <2>3. Len(F[x]) <= Len(F[y]) /\ Len(F[x]) \in Nat /\ Len(F[y]) \in Nat
    BY <1>3, <2>2 DEF Begins
  <2>4. start[j] = b + Len(F[x]) /\ start[k] = b + Len(F[y])
    BY <1>5, <2>1
  <2> QED
    BY <2>3, <2>4
<1>16. ASSUME NEW k \in 1 .. n
       PROVE  Has(h \o t, start[k], seqs[k])
  <2>1. PICK j \in 0 .. n : k = j + 1 /\ k \in 1 .. n + 1
    OBVIOUS
  <2>2. Has(t, Len(F[j]), seqs[k])
    BY <1>8, <1>9, <1>13, <2>1
  <2>3. \A d : d = Len(h) + Len(F[j]) => Has(h \o t, d, seqs[k])
    BY <1>10, <2>2, HasWithin
  <2> QED
    BY <1>1, <1>5, <2>1, <2>3
<1>17. Stand(h \o t, start, b, seqs, n)
  BY <1>7, <1>11, <1>12, <1>14, <1>15, <1>16 DEF Stand
<1> QED
  BY <1>1, <1>9, <1>10, <1>17

(* s is a sequence of n elements. *)
Sized(S, s, n) == s \in Seq(S) /\ n \in Nat /\ Len(s) = n

(* What is appended stands behind, and all that was there stays. *)
LEMMA Appended ==
    ASSUME NEW S, NEW s, NEW t, NEW m, NEW n, Sized(S, s, m), Sized(S, t, n)
    PROVE  /\ \A l : l = m + n => Sized(S, s \o t, l)
           /\ Has(s \o t, 0, s) /\ Has(s \o t, m, t)
           /\ \A b, r : Has(s, b, r) => Has(s \o t, b, r)
<1>1. s \in Seq(S) /\ t \in Seq(S) /\ m \in Nat /\ n \in Nat /\ Len(s) = m /\ Len(t) = n
  BY DEF Sized
<1>2. /\ s \o t \in Seq(S) /\ Len(s \o t) = Len(s) + Len(t)
      /\ Has(s \o t, 0, s) /\ Has(s \o t, Len(s), t)
  BY <1>1, HasBoth
<1>3. ASSUME NEW b, NEW r, Has(s, b, r)
      PROVE  Has(s \o t, b, r)
  <2>1. \A d : d = 0 + b => Has(s \o t, d, r)
    BY <1>2, <1>3, HasWithin
  <2>2. b = 0 + b
    BY <1>3 DEF Has
  <2> QED
    BY <2>1, <2>2
<1> QED
  BY <1>1, <1>2, <1>3 DEF Sized

(* What is cut at the end still has what ends before the cut. *)
LEMMA CutHas ==
    ASSUME NEW S, NEW u \in Seq(S), NEW w, Begins(u, w),
           NEW b, NEW t, Has(w, b, t), b + Len(t) <= Len(u)
    PROVE  Has(u, b, t)
<1>1. PICK c \in Nat, l \in Nat, m \in Nat : c = b /\ l = Len(t) /\ m = Len(u)
  BY DEF Has
<1>2. c + l <= m
  BY <1>1
<1>3. \A i \in 1 .. l : w[c + i] = t[i] /\ c + i \in 1 .. m
  BY <1>1, <1>2 DEF Has
<1>4. \A i \in 1 .. l : u[c + i] = t[i]
  BY <1>1, <1>3 DEF Begins
<1> QED
  BY <1>1, <1>2, <1>4 DEF Has

(* The sequences that g makes of the elements of es. *)
Mapped(es, g) == [i \in DOMAIN es |-> g[es[i]]]

Maps(g, T, S) == g \in [T -> S]

(* Those of the first elements are the first of those of all. *)
LEMMA MappedPrefix ==
    ASSUME NEW S, NEW T, NEW g, Maps(g, T, S), NEW es \in Seq(T)
    PROVE  /\ Mapped(es, g) \in Seq(S) /\ Len(Mapped(es, g)) = Len(es)
           /\ \A k \in 1 .. Len(es) : Mapped(es, g)[k] = g[es[k]]
           /\ \A k \in 0 .. Len(es) : Mapped(SubSeq(es, 1, k), g) = SubSeq(Mapped(es, g), 1, k)
<1>1. Len(es) \in Nat /\ DOMAIN es = 1 .. Len(es) /\ \A i \in 1 .. Len(es) : es[i] \in T
  OBVIOUS
<1>2. \A i \in 1 .. Len(es) : g[es[i]] \in S
  BY <1>1 DEF Maps
<1>3. /\ Mapped(es, g) \in Seq(S) /\ Len(Mapped(es, g)) = Len(es)
      /\ \A k \in 1 .. Len(es) : Mapped(es, g)[k] = g[es[k]]
  BY <1>1, <1>2 DEF Mapped
<1>4. ASSUME NEW k \in 0 .. Len(es)
      PROVE  Mapped(SubSeq(es, 1, k), g) = SubSeq(Mapped(es, g), 1, k)
  <2>1. PICK some : some = SubSeq(es, 1, k)
    OBVIOUS
  <2>2. some \in Seq(T) /\ Len(some) = k /\ \A i \in 1 .. k : some[i] = es[i] /\ i \in 1 .. Len(es)
    BY <1>1, <2>1
  <2>3. DOMAIN some = 1 .. k
    BY <2>2
  <2>4. /\ Mapped(some, g) \in Seq(S) /\ Len(Mapped(some, g)) = k
        /\ \A i \in 1 .. k : Mapped(some, g)[i] = Mapped(es, g)[i]
    <3>1. \A i \in 1 .. k : g[some[i]] \in S /\ g[some[i]] = Mapped(es, g)[i]
      BY <1>2, <1>3, <2>2
    <3>2. Mapped(some, g) = [i \in 1 .. k |-> g[some[i]]]
      BY <2>3 DEF Mapped
    <3> QED
      BY <3>1, <3>2
  <2>5. PICK all \in Seq(S) : all = Mapped(es, g) /\ Len(all) = Len(es)
    BY <1>3
  <2>6. /\ SubSeq(all, 1, k) \in Seq(S) /\ Len(SubSeq(all, 1, k)) = k
        /\ \A i \in 1 .. k : SubSeq(all, 1, k)[i] = all[i]
    BY <1>1, <2>5
  <2>7. Mapped(some, g) = SubSeq(all, 1, k)
    BY <2>4, <2>5, <2>6, SeqEqual
  <2> QED
    BY <2>1, <2>5, <2>7
<1> QED
  BY <1>3, <1>4

(* Each element starts where a file of those before it would end. *)
EndStarts(start, h, es, g, n) ==
    start = [k \in 1 .. n + 1 |-> Len(h \o FlattenSeq(Mapped(SubSeq(es, 1, k - 1), g)))]

Filed(S, file, start, h, seqs, es, g) ==
    /\ file \in Seq(S)
    /\ Has(file, 0, h)
    /\ \A k \in 1 .. Len(es) : seqs[k] = g[es[k]]
    /\ Stand(file, start, Len(h), seqs, Len(es))

(* Then they stand in the file in order, each whole. *)
LEMMA MappedStand ==
    ASSUME NEW S, NEW T, NEW g, Maps(g, T, Seq(S)), NEW h \in Seq(S), NEW es \in Seq(T),
           NEW start, EndStarts(start, h, es, g, Len(es))
    PROVE  Filed(S, h \o FlattenSeq(Mapped(es, g)), start, h, Mapped(es, g), es, g)
<1>1. PICK seqs \in Seq(Seq(S)), n \in Nat :
         /\ seqs = Mapped(es, g) /\ n = Len(es) /\ Len(seqs) = n
         /\ \A k \in 1 .. n : seqs[k] = g[es[k]]
         /\ \A k \in 0 .. n : Mapped(SubSeq(es, 1, k), g) = SubSeq(seqs, 1, k)
  <2>1. PICK R : R = Seq(S) /\ Maps(g, T, R)
    OBVIOUS
  <2>2. /\ Mapped(es, g) \in Seq(R) /\ Len(Mapped(es, g)) = Len(es)
        /\ \A k \in 1 .. Len(es) : Mapped(es, g)[k] = g[es[k]]
        /\ \A k \in 0 .. Len(es) : Mapped(SubSeq(es, 1, k), g) = SubSeq(Mapped(es, g), 1, k)
    BY <2>1, MappedPrefix
  <2>3. PICK seqs, n : seqs = Mapped(es, g) /\ n = Len(es)
    OBVIOUS
  <2>4. n \in Nat
    BY <2>3
  <2> QED
    BY <2>1, <2>2, <2>3, <2>4
<1>2. Starts(start, Len(h), seqs, n)
  <2>1. ASSUME NEW j \in 0 .. n, NEW k \in 1 .. n + 1, k = j + 1
        PROVE  start[k] = Len(h) + Len(FlattenSeq(SubSeq(seqs, 1, j)))
    <3>1. start[k] = Len(h \o FlattenSeq(Mapped(SubSeq(es, 1, k - 1), g))) /\ k - 1 = j
      BY <1>1, <2>1 DEF EndStarts
    <3>2. SubSeq(seqs, 1, j) \in Seq(Seq(S))
      BY <1>1
    <3>3. PICK t \in Seq(S) : t = FlattenSeq(SubSeq(seqs, 1, j))
      BY <3>2, FlattenTyped
    <3>4. Len(h \o t) = Len(h) + Len(t)
      BY ONLY <3>3, h \in Seq(S), Behind
    <3> QED
      BY <1>1, <3>1, <3>3, <3>4
  <2>2. start = [k \in 1 .. n + 1 |-> start[k]]
    BY <1>1 DEF EndStarts
  <2> QED
    BY <2>1, <2>2 DEF Starts
<1>3. PICK file : file = h \o FlattenSeq(seqs)
  OBVIOUS
<1>4. file \in Seq(S) /\ Has(file, 0, h) /\ Stand(file, start, Len(h), seqs, n)
  BY <1>1, <1>2, <1>3, FlattenedStand
<1>5. Filed(S, file, start, h, seqs, es, g)
  BY <1>1, <1>4 DEF Filed
<1> QED
  BY <1>1, <1>3, <1>5

IsSlice(t, u, m, n) == SubSeq(u, m, n) = t

(* A part of known length can be cut out again. *)
LEMMA SizedSlice ==
    ASSUME NEW S, NEW u \in Seq(S), NEW t, NEW l, Sized(S, t, l), NEW b, Has(u, b, t)
    PROVE  \A m, n : m = b + 1 /\ n = b + l => IsSlice(t, u, m, n)
<1>1. t \in Seq(S) /\ l = Len(t)
  BY DEF Sized
<1>2. \A m, n : m = b + 1 /\ n = b + Len(t) => SubSeq(u, m, n) = t
  BY <1>1, HasSlice
<1> QED
  BY <1>1, <1>2 DEF IsSlice

(* A part of known length that ends before the cut is still there. *)
LEMMA SizedCut ==
    ASSUME NEW S, NEW u \in Seq(S), NEW w, Begins(u, w),
           NEW b, NEW t, NEW l, Sized(S, t, l), Has(w, b, t)
    PROVE  b + l <= Len(u) => Has(u, b, t)
BY CutHas DEF Sized

(* Appending does not mind the order. *)
Associate(s, t, u) == (s \o t) \o u = s \o (t \o u)

(* Concatenation is associative. *)
LEMMA Associated ==
    ASSUME NEW S, NEW s \in Seq(S), NEW t \in Seq(S), NEW u \in Seq(S)
    PROVE  Associate(s, t, u)
<1>1. PICK v, w : v = (s \o t) \o u /\ w = s \o (t \o u)
  OBVIOUS
<1>2. v = w
  BY <1>1
<1> QED
  BY ONLY <1>1, <1>2 DEF Associate

(* Sequences of one length stand at its multiples. *)
Multiples(start, b, c, n) ==
    /\ start[1] = b
    /\ \A j, k \in 1 .. n + 1 : k = j + 1 => start[k] = start[j] + c

(* Equal steps add up to multiples. *)
LEMMA MultiplesAt ==
    ASSUME NEW start, NEW b \in Nat, NEW c \in Nat, NEW n \in Nat, Multiples(start, b, c, n)
    PROVE  \A k \in 1 .. n + 1 : start[k] = b + c * (k - 1)
<1> DEFINE T == {k \in Nat : k <= n => start[k + 1] = b + c * k}
<1>1. 0 \in T
  BY DEF Multiples
<1>2. ASSUME NEW k \in Nat, k \in T
      PROVE  k + 1 \in T
  <2> SUFFICES ASSUME k + 1 <= n
               PROVE  start[(k + 1) + 1] = b + c * (k + 1)
    OBVIOUS
  <2>1. PICK i \in 1 .. n + 1, j \in 1 .. n + 1 : i = k + 1 /\ j = i + 1
    <3>1. k + 1 \in 1 .. n + 1 /\ (k + 1) + 1 \in 1 .. n + 1
      OBVIOUS
    <3> QED
      BY <3>1
  <2>2. start[j] = start[i] + c
    BY <2>1 DEF Multiples
  <2>3. start[i] = b + c * k
    BY <1>2, <2>1
  <2>4. c * (k + 1) = c * k + c /\ c * k \in Nat
    OBVIOUS
  <2> QED
    BY <2>1, <2>2, <2>3, <2>4
<1>3. Nat \subseteq T
  <2> HIDE DEF T
  <2> QED
    BY <1>1, <1>2, NatByInduction
<1> QED
  <2> SUFFICES ASSUME NEW k \in 1 .. n + 1
               PROVE  start[k] = b + c * (k - 1)
    OBVIOUS
  <2>1. PICK j \in Nat : j = k - 1 /\ j <= n /\ k = j + 1
    <3>1. k - 1 \in Nat /\ k - 1 <= n /\ k = (k - 1) + 1
      OBVIOUS
    <3> QED
      BY <3>1
  <2>2. start[j + 1] = b + c * j
    BY <1>3, <2>1
  <2> QED
    BY <2>1, <2>2

(* Sequences of four elements behind a header. *)
FoursStand(u, b, seqs, n) ==
    /\ Len(u) = b + 4 * n
    /\ \A k \in 1 .. n : Has(u, b + 4 * (k - 1), seqs[k])

(* Entries of four bytes stand four apart when flattened. *)
LEMMA FoursFlattened ==
    ASSUME NEW S, NEW h, NEW b, Sized(S, h, b), NEW seqs, NEW n, Sized(Seq(S), seqs, n),
           \A k \in 1 .. n : Len(seqs[k]) = 4
    PROVE  /\ h \o FlattenSeq(seqs) \in Seq(S)
           /\ Has(h \o FlattenSeq(seqs), 0, h)
           /\ FoursStand(h \o FlattenSeq(seqs), b, seqs, n)
<1>1. h \in Seq(S) /\ b \in Nat /\ Len(h) = b /\ seqs \in Seq(Seq(S)) /\ n \in Nat /\ Len(seqs) = n
  BY DEF Sized
<1>2. PICK u : u = h \o FlattenSeq(seqs)
  OBVIOUS
<1>3. PICK start : start = [k \in 1 .. n + 1 |-> b + Len(FlattenSeq(SubSeq(seqs, 1, k - 1)))]
  OBVIOUS
<1>4. Starts(start, b, seqs, n)
  <2>1. start = [k \in 1 .. n + 1 |-> start[k]]
    BY <1>3
  <2>2. ASSUME NEW j \in 0 .. n, NEW k \in 1 .. n + 1, k = j + 1
        PROVE  start[k] = b + Len(FlattenSeq(SubSeq(seqs, 1, j)))
    <3>1. k - 1 = j
      BY <1>1, <2>2
    <3> QED
      BY ONLY <1>3, <3>1, k \in 1 .. n + 1
  <2> QED
    BY <2>1, <2>2 DEF Starts
<1>5. u \in Seq(S) /\ Has(u, 0, h) /\ Stand(u, start, b, seqs, n)
  BY <1>1, <1>2, <1>4, FlattenedStand
<1>6. Multiples(start, b, 4, n)
  <2>1. start[1] = b
    BY <1>5 DEF Stand
  <2>2. ASSUME NEW j \in 1 .. n + 1, NEW k \in 1 .. n + 1, k = j + 1
        PROVE  start[k] = start[j] + 4
    <3>1. j \in 1 .. n
      BY <1>1, <2>2
    <3>2. start[k] = start[j] + Len(seqs[j])
      BY <1>5, <2>2 DEF Stand
    <3> QED
      BY <3>1, <3>2
  <2> QED
    BY <2>1, <2>2 DEF Multiples
<1>7. \A k \in 1 .. n + 1 : start[k] = b + 4 * (k - 1)
  <2>1. 4 \in Nat
    OBVIOUS
  <2> QED
    BY <1>1, <1>6, <2>1, MultiplesAt
<1>8. Len(u) = b + 4 * n
  <2>1. Len(u) = start[n + 1]
    BY <1>5 DEF Stand
  <2>2. n + 1 \in 1 .. n + 1 /\ (n + 1) - 1 = n
    BY <1>1
  <2>3. start[n + 1] = b + 4 * ((n + 1) - 1)
    BY ONLY <1>7, <2>2
  <2> QED
    BY ONLY <2>1, <2>2, <2>3
<1>9. ASSUME NEW k \in 1 .. n
      PROVE  Has(u, b + 4 * (k - 1), seqs[k])
  <2>1. k \in 1 .. n + 1 /\ Has(u, start[k], seqs[k])
    BY <1>1, <1>5 DEF Stand
  <2> QED
    BY <1>7, <2>1
<1>10. FoursStand(u, b, seqs, n)
  BY <1>8, <1>9 DEF FoursStand
<1> QED
  BY <1>2, <1>5, <1>10
=============================================================================
