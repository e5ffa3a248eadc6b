------------------------------ MODULE WpaProofs -----------------------------
(***************************************************************************)
(* The cryptography computes what the standards define, for every length.  *)
(*                                                                         *)
(*   - A hasher (Sha1) has always absorbed exactly what it was given: its   *)
(*     compressed blocks and its buffer are the message, cut into blocks.   *)
(*     So however a message is split over calls of update, the digest is    *)
(*     the standard's, and HMAC over it is RFC 2104's.                      *)
(*   - A key under derivation (KeyDerivation) is always the standard's key  *)
(*     up to the block reached, and the chain and the sum of that block are *)
(*     the standard's up to the iteration reached.                          *)
(*   - A frame on the air (Ccm) is the sealed one, which opens to its text, *)
(*     or an altered one, which does not open.                              *)
(***************************************************************************)
EXTENDS KeyDerivation, Ccm, DataFacts

-----------------------------------------------------------------------------
(* The bytes of a number of blocks.  The proofs about blocks never look    *)
(* into it: they use how blocks follow one another.                        *)
Bytes(k, n) == k * n

(* What the proofs use of Bytes: none for no block, one block for one, and  *)
(* numbers of blocks add up.                                                *)
LEMMA BytesFollow ==
    ASSUME NEW n \in Nat \ {0}
    PROVE  /\ Bytes(0, n) = 0 /\ Bytes(1, n) = n
           /\ \A k \in Nat : Bytes(k, n) \in Nat
           /\ \A i, j, k \in Nat : k = i + j => Bytes(k, n) = Bytes(i, n) + Bytes(j, n)
BY DEF Bytes

(* Every length is a number of blocks and a rest, in one way. *)
LEMMA BlocksAndRest ==
    ASSUME NEW a \in Nat, NEW n \in Nat \ {0}
    PROVE  \E q \in Nat, r \in 0 .. n - 1 : a = Bytes(q, n) + r
<1>1. a \div n \in Nat /\ a % n \in 0 .. n - 1 /\ a = (a \div n) * n + (a % n)
  OBVIOUS
<1> QED
  BY <1>1 DEF Bytes

(* ... and that way is division: a length written as blocks and a rest has  *)
(* no other quotient or remainder.                                          *)
LEMMA BlocksAndRestUnique ==
    ASSUME NEW q \in Nat, NEW n \in Nat \ {0}, NEW r \in 0 .. n - 1, NEW a,
           a = Bytes(q, n) + r
    PROVE  a \div n = q /\ a % n = r
<1>1. a = n * q + r
  BY DEF Bytes
<1>2. (n * q + r) \div n = q /\ (n * q + r) % n = r
  OBVIOUS
<1> QED
  BY <1>1, <1>2

(* The chunks c of a sequence of q blocks and a rest, byte by byte. *)
AreChunks(c, m, n, q, B) ==
    /\ c \in Seq(Seq(B))
    /\ Len(c) = q
    /\ \A j, k \in Nat : j < q /\ k = j + 1 =>
          /\ c[k] \in Seq(B)
          /\ Len(c[k]) = n
          /\ Bytes(j, n) + n <= Len(m)
          /\ \A i \in 1 .. n : c[k][i] = m[Bytes(j, n) + i]

(* The chunks of a sequence are its bytes, n at a time, the rest left out. *)
LEMMA ChunksShape ==
    ASSUME NEW B, NEW m \in Seq(B), NEW n \in Nat \ {0},
           NEW q \in Nat, NEW r \in 0 .. n - 1, Len(m) = Bytes(q, n) + r
    PROVE  AreChunks(Chunks(m, n), m, n, q, B)
<1>1. Len(m) \in Nat /\ Len(m) \div n = q
  BY BlocksAndRestUnique
<1>2. Chunks(m, n) = [k \in 1 .. q |-> SubSeq(m, (k - 1) * n + 1, k * n)]
  BY <1>1 DEF Chunks
<1>3. ASSUME NEW j \in Nat, NEW k \in Nat, j < q, k = j + 1
      PROVE  /\ Chunks(m, n)[k] \in Seq(B)
             /\ Len(Chunks(m, n)[k]) = n
             /\ Bytes(j, n) + n <= Len(m)
             /\ \A i \in 1 .. n : Chunks(m, n)[k][i] = m[Bytes(j, n) + i]
  <2>1. k * n = Bytes(k, n) /\ (k - 1) * n = Bytes(j, n)
    BY <1>3 DEF Bytes
  <2>2. Bytes(k, n) = Bytes(j, n) + n /\ Bytes(j, n) \in Nat
    BY <1>3 DEF Bytes
  <2>3. Bytes(q, n) = Bytes(k, n) + Bytes(q - k, n) /\ Bytes(q - k, n) \in Nat
    BY <1>3 DEF Bytes
  <2>4. k \in 1 .. q
    BY <1>3
  <2>5. Chunks(m, n)[k] = SubSeq(m, Bytes(j, n) + 1, Bytes(j, n) + n)
    BY <1>2, <2>1, <2>2, <2>4
  <2>6. PICK from \in Nat, to \in Nat :
           from = Bytes(j, n) + 1 /\ to = Bytes(j, n) + n /\ to <= Len(m)
    BY <1>1, <2>2, <2>3
  <2>7. from \in 1 .. Len(m) + 1 /\ to \in from - 1 .. Len(m) /\ to - from + 1 = n
    <3>1. to = from - 1 + n /\ from >= 1 /\ to <= Len(m)
      BY <2>2, <2>6
    <3> QED
      BY <3>1
  <2>8. /\ SubSeq(m, from, to) \in Seq(B)
        /\ Len(SubSeq(m, from, to)) = n
        /\ \A i \in 1 .. n : SubSeq(m, from, to)[i] = m[from + i - 1]
    BY <2>7, Slice
  <2>9. \A i \in 1 .. n : from + i - 1 = Bytes(j, n) + i
    BY <2>2, <2>6
  <2>10. Chunks(m, n)[k] = SubSeq(m, from, to)
    BY <2>5, <2>6
  <2> QED
    BY <2>6, <2>8, <2>9, <2>10
<1>4. \A k \in 1 .. q : Chunks(m, n)[k] \in Seq(B)
  <2> TAKE k \in 1 .. q
  <2>1. k - 1 \in Nat /\ k - 1 < q /\ k = (k - 1) + 1 /\ k \in Nat
    OBVIOUS
  <2> QED
    BY <1>3, <2>1
<1>5. Chunks(m, n) \in [1 .. q -> Seq(B)]
  BY <1>2, <1>4
<1>6. Chunks(m, n) \in Seq(Seq(B)) /\ Len(Chunks(m, n)) = q
  BY <1>5
<1> QED
  BY <1>3, <1>6 DEF AreChunks

(* Two sequences of the same chunks are the same. *)
LEMMA SameChunks ==
    ASSUME NEW B, NEW m, NEW n \in Nat, NEW q \in Nat, NEW c, NEW d,
           AreChunks(c, m, n, q, B), AreChunks(d, m, n, q, B)
    PROVE  c = d
<1>1. ASSUME NEW k \in 1 .. q
      PROVE  c[k] = d[k]
  <2> DEFINE j == k - 1
  <2>1. j \in Nat /\ k \in Nat /\ j < q /\ k = j + 1
    OBVIOUS
  <2> HIDE DEF j
  <2>2. /\ c[k] \in Seq(B) /\ Len(c[k]) = n /\ d[k] \in Seq(B) /\ Len(d[k]) = n
        /\ \A i \in 1 .. n : c[k][i] = m[Bytes(j, n) + i] /\ d[k][i] = m[Bytes(j, n) + i]
    BY <2>1 DEF AreChunks
  <2> QED
    BY <2>2, SeqEqual
<1> QED
  BY <1>1, SeqEqual DEF AreChunks

(* The chunks of a whole number of blocks and what follows. *)
LEMMA ChunksConcat ==
    ASSUME NEW B, NEW m \in Seq(B), NEW d \in Seq(B), NEW n \in Nat \ {0},
           NEW p \in Nat, Len(m) = Bytes(p, n)
    PROVE  Chunks(m \o d, n) = Chunks(m, n) \o Chunks(d, n)
<1> DEFINE c == Chunks(m, n)
           e == Chunks(d, n)
           both == c \o e
<1>1. /\ Len(m) \in Nat /\ Len(d) \in Nat
      /\ m \o d \in Seq(B) /\ Len(m \o d) = Len(m) + Len(d)
  OBVIOUS
<1>2. /\ \A i \in 1 .. Len(m) : (m \o d)[i] = m[i]
      /\ \A i \in 1 .. Len(d) : (m \o d)[Len(m) + i] = d[i]
  OBVIOUS
<1>3. PICK q \in Nat, r \in 0 .. n - 1 : Len(d) = Bytes(q, n) + r
  BY <1>1, BlocksAndRest
<1>4. Bytes(p + q, n) = Bytes(p, n) + Bytes(q, n) /\ Bytes(q, n) \in Nat
  BY DEF Bytes
<1>5. Len(m \o d) = Bytes(p + q, n) + r /\ p + q \in Nat
  BY <1>1, <1>3, <1>4
<1>6. AreChunks(c, m, n, p, B)
  <2>1. Len(m) = Bytes(p, n) + 0 /\ 0 \in 0 .. n - 1
    BY <1>1
  <2> QED
    BY <2>1, ChunksShape
<1>7. AreChunks(e, d, n, q, B)
  BY <1>3, ChunksShape
<1>8. AreChunks(Chunks(m \o d, n), m \o d, n, p + q, B)
  BY <1>1, <1>5, ChunksShape
<1> HIDE DEF c, e
<1>9. AreChunks(both, m \o d, n, p + q, B)
  <2>1. c \in Seq(Seq(B)) /\ Len(c) = p /\ e \in Seq(Seq(B)) /\ Len(e) = q
    BY <1>6, <1>7 DEF AreChunks
  <2>2. both \in Seq(Seq(B)) /\ Len(both) = p + q
    BY <2>1, ConcatProperties
  <2>4. /\ \A k \in 1 .. p : both[k] = c[k]
        /\ \A h \in 1 .. q : both[p + h] = e[h]
    BY <2>1
  <2> HIDE DEF both
  <2>3. ASSUME NEW j \in Nat, NEW k \in Nat, j < p + q, k = j + 1
        PROVE  /\ both[k] \in Seq(B)
               /\ Len(both[k]) = n
               /\ Bytes(j, n) + n <= Len(m \o d)
               /\ \A i \in 1 .. n : both[k][i] = (m \o d)[Bytes(j, n) + i]
    <3>1. Bytes(j, n) \in Nat
      BY BytesFollow
    <3>2. CASE j < p
      <4>1. both[k] = c[k]
        BY <2>4, <2>3, <3>2
      <4>2. /\ c[k] \in Seq(B) /\ Len(c[k]) = n /\ Bytes(j, n) + n <= Len(m)
            /\ \A i \in 1 .. n : c[k][i] = m[Bytes(j, n) + i]
        BY <1>6, <2>3, <3>2 DEF AreChunks
      <4>3. \A i \in 1 .. n : (m \o d)[Bytes(j, n) + i] = m[Bytes(j, n) + i]
        BY <1>1, <1>2, <3>1, <4>2
      <4> QED
        BY <1>1, <3>1, <4>1, <4>2, <4>3
    <3>3. CASE j >= p
      <4> DEFINE l == j - p
                 h == k - p
      <4>1. l \in Nat /\ h \in Nat /\ l < q /\ h = l + 1 /\ j = p + l /\ k = p + h
        BY <2>3, <3>3
      <4> HIDE DEF l, h
      <4>2. both[k] = e[h]
        BY <2>4, <4>1
      <4>3. /\ e[h] \in Seq(B) /\ Len(e[h]) = n /\ Bytes(l, n) + n <= Len(d)
            /\ \A i \in 1 .. n : e[h][i] = d[Bytes(l, n) + i]
        BY <1>7, <4>1 DEF AreChunks
      <4>4. Bytes(j, n) = Len(m) + Bytes(l, n) /\ Bytes(l, n) \in Nat
        BY <4>1 DEF Bytes
      <4>5. \A i \in 1 .. n : (m \o d)[Bytes(j, n) + i] = d[Bytes(l, n) + i]
        <5> TAKE i \in 1 .. n
        <5>1. Bytes(l, n) + i \in 1 .. Len(d) /\ Bytes(j, n) + i = Len(m) + (Bytes(l, n) + i)
          BY <1>1, <4>3, <4>4
        <5> QED
          BY <1>2, <5>1
      <4>6. Bytes(j, n) + n <= Len(m \o d)
        BY <1>1, <4>3, <4>4
      <4>7. \A i \in 1 .. n : both[k][i] = (m \o d)[Bytes(j, n) + i]
        BY <4>2, <4>3, <4>5
      <4> QED
        BY <4>2, <4>3, <4>6, <4>7
    <3>4. j < p \/ j >= p
      OBVIOUS
    <3> QED
      BY <3>2, <3>3, <3>4
  <2> QED
    BY <2>2, <2>3 DEF AreChunks
<1> QED
  BY <1>5, <1>8, <1>9, SameChunks DEF c, e

(* The same chunks are those of the sequence with something behind it. *)
LEMMA ChunksOfPrefix ==
    ASSUME NEW B, NEW m \in Seq(B), NEW h \in Seq(B), NEW n \in Nat \ {0}, NEW q \in Nat, NEW c,
           AreChunks(c, m, n, q, B)
    PROVE  AreChunks(c, m \o h, n, q, B)
<1>1. /\ Len(m) \in Nat /\ Len(h) \in Nat /\ Len(m \o h) = Len(m) + Len(h)
      /\ \A i \in 1 .. Len(m) : (m \o h)[i] = m[i]
  OBVIOUS
<1>2. ASSUME NEW j \in Nat, NEW k \in Nat, j < q, k = j + 1
      PROVE  /\ Bytes(j, n) + n <= Len(m \o h)
             /\ \A i \in 1 .. n : c[k][i] = (m \o h)[Bytes(j, n) + i]
  <2>1. Bytes(j, n) \in Nat
    BY DEF Bytes
  <2>2. Bytes(j, n) + n <= Len(m) /\ \A i \in 1 .. n : c[k][i] = m[Bytes(j, n) + i]
    BY <1>2 DEF AreChunks
  <2>3. \A i \in 1 .. n : (m \o h)[Bytes(j, n) + i] = m[Bytes(j, n) + i]
    BY <1>1, <2>1, <2>2
  <2> QED
    BY <1>1, <2>1, <2>2, <2>3
<1> QED
  BY <1>2 DEF AreChunks

(* A block more. *)
LEMMA ChunksAppend ==
    ASSUME NEW B, NEW m \in Seq(B), NEW n \in Nat \ {0}, NEW q \in Nat, NEW c,
           AreChunks(c, m, n, q, B),
           NEW b \in Seq(B), Len(b) = n, Bytes(q, n) + n <= Len(m),
           \A i \in 1 .. n : b[i] = m[Bytes(q, n) + i]
    PROVE  AreChunks(Append(c, b), m, n, q + 1, B)
<1> DEFINE longer == Append(c, b)
<1>1. c \in Seq(Seq(B)) /\ Len(c) = q
  BY DEF AreChunks
<1>2. /\ longer \in Seq(Seq(B)) /\ Len(longer) = q + 1
      /\ longer[q + 1] = b
      /\ \A k \in 1 .. q : longer[k] = c[k]
  BY <1>1, AppendProperties
<1> HIDE DEF longer
<1>3. ASSUME NEW j \in Nat, NEW k \in Nat, j < q + 1, k = j + 1
      PROVE  /\ longer[k] \in Seq(B)
             /\ Len(longer[k]) = n
             /\ Bytes(j, n) + n <= Len(m)
             /\ \A i \in 1 .. n : longer[k][i] = m[Bytes(j, n) + i]
  <2>1. CASE j < q
    <3>1. longer[k] = c[k]
      BY <1>2, <1>3, <2>1
    <3>2. /\ c[k] \in Seq(B) /\ Len(c[k]) = n /\ Bytes(j, n) + n <= Len(m)
          /\ \A i \in 1 .. n : c[k][i] = m[Bytes(j, n) + i]
      BY <1>3, <2>1 DEF AreChunks
    <3> QED
      BY <3>1, <3>2
  <2>2. CASE j = q
    BY <1>2, <1>3, <2>2
  <2>3. j < q \/ j = q
    BY <1>3
  <2> QED
    BY <2>1, <2>2, <2>3
<1> QED
  BY <1>2, <1>3 DEF AreChunks, longer

-----------------------------------------------------------------------------

(* The hasher's block is not empty (SHA1_BLOCK_SIZE). *)
LEMMA BlockSize == SHA1_BLOCK_SIZE \in Nat \ {0}
BY Sha1SizeAssumption

(* What a hasher has to do with the bytes m it was given: the blocks are   *)
(* the chunks of m, and the buffer begins with what is left of it.         *)
Hashers(B) == [blocks : Seq(Seq(B)), buffer : [1 .. SHA1_BLOCK_SIZE -> B], buf_len : Nat]

Holds(s, m, p) ==
    /\ Len(m) = Bytes(p, SHA1_BLOCK_SIZE) + s.buf_len
    /\ \A i \in 1 .. s.buf_len : s.buffer[i] = m[Bytes(p, SHA1_BLOCK_SIZE) + i]

Absorbed(s, m, B) ==
    /\ s \in Hashers(B)
    /\ s.buf_len < SHA1_BLOCK_SIZE
    /\ \E p \in Nat : /\ Holds(s, m, p)
                      /\ AreChunks(s.blocks, m, SHA1_BLOCK_SIZE, p, B)

(* What a hasher has compressed is the blocks of what it has absorbed. *)
LEMMA AbsorbedBlocks ==
    ASSUME NEW B, NEW m \in Seq(B), NEW s, Absorbed(s, m, B)
    PROVE  s.blocks = Chunks(m, SHA1_BLOCK_SIZE)
<1>1. PICK p \in Nat : Holds(s, m, p) /\ AreChunks(s.blocks, m, SHA1_BLOCK_SIZE, p, B)
  BY DEF Absorbed
<1>2. s.buf_len \in 0 .. SHA1_BLOCK_SIZE - 1
  BY BlockSize DEF Absorbed, Hashers
<1>3. AreChunks(Chunks(m, SHA1_BLOCK_SIZE), m, SHA1_BLOCK_SIZE, p, B)
  BY <1>1, <1>2, BlockSize, ChunksShape DEF Holds
<1> QED
  BY <1>1, <1>3, BlockSize, SameChunks

(* The buffer as Refill leaves it. *)
LEMMA RefillHolds ==
    ASSUME NEW B, NEW s \in Hashers(B), NEW m \in Seq(B), NEW p \in Nat, Holds(s, m, p),
           NEW h \in Seq(B), s.buf_len + Len(h) <= SHA1_BLOCK_SIZE
    PROVE  /\ Refill(s, h) \in Hashers(B)
           /\ Refill(s, h).blocks = s.blocks
           /\ Refill(s, h).buf_len = s.buf_len + Len(h)
           /\ Holds(Refill(s, h), m \o h, p)
<1> DEFINE at == s.buf_len
           buf == Overwrite(s.buffer, at, h)
           base == Bytes(p, SHA1_BLOCK_SIZE)
<1>1. /\ at \in Nat /\ Len(h) \in Nat /\ DOMAIN h = 1 .. Len(h)
      /\ \A i \in 1 .. Len(h) : h[i] \in B
      /\ s.buffer \in [1 .. SHA1_BLOCK_SIZE -> B]
  BY DEF Hashers
<1>2. buf = [i \in 1 .. SHA1_BLOCK_SIZE |-> IF i - at \in 1 .. Len(h) THEN h[i - at] ELSE s.buffer[i]]
  BY <1>1 DEF Overwrite
<1>3. buf \in [1 .. SHA1_BLOCK_SIZE -> B]
  BY <1>1, <1>2
<1>4. Refill(s, h) = [s EXCEPT !.buffer = buf, !.buf_len = at + Len(h)]
  BY DEF Refill
<1> HIDE DEF buf
<1>5. /\ Refill(s, h) \in Hashers(B)
      /\ Refill(s, h).blocks = s.blocks
      /\ Refill(s, h).buffer = buf
      /\ Refill(s, h).buf_len = at + Len(h)
  <2>1. at + Len(h) \in Nat
    BY <1>1
  <2>2. Refill(s, h) = [blocks |-> s.blocks, buffer |-> buf, buf_len |-> at + Len(h)]
    BY <1>4 DEF Hashers
  <2>3. s.blocks \in Seq(Seq(B))
    BY DEF Hashers
  <2> QED
    BY <1>3, <2>1, <2>2, <2>3 DEF Hashers
<1>6. base \in Nat
  BY BlockSize DEF Bytes
<1>7. /\ Len(m) = base + at
      /\ \A i \in 1 .. at : s.buffer[i] = m[base + i]
  BY DEF Holds
<1> HIDE DEF base
<1>8. /\ Len(m \o h) = Len(m) + Len(h)
      /\ \A i \in 1 .. Len(m) : (m \o h)[i] = m[i]
      /\ \A i \in 1 .. Len(h) : (m \o h)[Len(m) + i] = h[i]
  OBVIOUS
<1>9. ASSUME NEW i \in 1 .. at + Len(h)
      PROVE  buf[i] = (m \o h)[base + i]
  <2>1. i \in 1 .. SHA1_BLOCK_SIZE
    BY <1>1, BlockSize
  <2>2. CASE i <= at
    <3>1. buf[i] = s.buffer[i] /\ i \in 1 .. at
      BY <1>1, <1>2, <2>1, <2>2
    <3>2. base + i \in 1 .. Len(m)
      BY <1>1, <1>6, <1>7, <3>1
    <3> QED
      BY <1>7, <1>8, <3>1, <3>2
  <2>3. CASE i > at
    <3> DEFINE j == i - at
    <3>1. j \in 1 .. Len(h)
      BY <1>1, <2>3
    <3>2. buf[i] = h[j]
      BY <1>2, <2>1, <3>1
    <3>3. base + i = Len(m) + j
      BY <1>1, <1>6, <1>7
    <3> HIDE DEF j
    <3> QED
      BY <1>8, <3>1, <3>2, <3>3
  <2>4. i <= at \/ i > at
    BY <1>1
  <2> QED
    BY <2>2, <2>3, <2>4
<1>10. Len(m \o h) = base + (at + Len(h))
  BY <1>1, <1>6, <1>7, <1>8
<1> QED
  BY <1>5, <1>9, <1>10 DEF Holds, base

(* The first half of update: the buffer takes some bytes and is compressed *)
(* when they fill it.                                                      *)
LEMMA FillAbsorbs ==
    ASSUME NEW B, NEW m \in Seq(B), NEW s, Absorbed(s, m, B),
           NEW h \in Seq(B), s.buf_len + Len(h) <= SHA1_BLOCK_SIZE
    PROVE  /\ Absorbed(Flush(Refill(s, h)), m \o h, B)
           /\ Flush(Refill(s, h)).buf_len = IF s.buf_len + Len(h) = SHA1_BLOCK_SIZE
                                            THEN 0 ELSE s.buf_len + Len(h)
<1> DEFINE n == SHA1_BLOCK_SIZE
           r == Refill(s, h)
           long == m \o h
<1>1. PICK p \in Nat : Holds(s, m, p) /\ AreChunks(s.blocks, m, n, p, B)
  BY DEF Absorbed
<1>2. s \in Hashers(B) /\ s.buf_len \in Nat /\ long \in Seq(B) /\ Len(h) \in Nat
  BY DEF Absorbed, Hashers
<1>3. /\ r \in Hashers(B) /\ r.blocks = s.blocks
      /\ r.buf_len = s.buf_len + Len(h) /\ Holds(r, long, p)
  BY <1>1, <1>2, RefillHolds
<1>4. AreChunks(r.blocks, long, n, p, B)
  BY <1>1, <1>3, BlockSize, ChunksOfPrefix
<1> HIDE DEF r, long
<1>5. CASE r.buf_len = n
  <2>1. Flush(r) = [r EXCEPT !.blocks = Append(r.blocks, r.buffer), !.buf_len = 0]
    BY <1>5 DEF Flush
  <2>2. r.buffer \in [1 .. n -> B] /\ n \in Nat /\ r.blocks \in Seq(Seq(B))
    BY <1>3, BlockSize DEF Hashers
  <2>3. r.buffer \in Seq(B) /\ Len(r.buffer) = n
    BY <2>2
  <2>4. /\ Len(long) = Bytes(p, n) + n
        /\ \A i \in 1 .. n : r.buffer[i] = long[Bytes(p, n) + i]
    BY <1>3, <1>5 DEF Holds
  <2>5. Bytes(p, n) \in Nat /\ Bytes(p + 1, n) = Bytes(p, n) + n
    BY BlockSize DEF Bytes
  <2>6. AreChunks(Append(r.blocks, r.buffer), long, n, p + 1, B)
    <3>1. Bytes(p, n) + n <= Len(long)
      BY <2>4, <2>5, BlockSize
    <3> QED
      BY <1>2, <1>4, <2>3, <2>4, <3>1, BlockSize, ChunksAppend
  <2>7. Append(r.blocks, r.buffer) \in Seq(Seq(B))
    BY <2>2, <2>3, AppendProperties
  <2>8. /\ Flush(r) \in Hashers(B) /\ Flush(r).buf_len = 0
        /\ Flush(r).blocks = Append(r.blocks, r.buffer)
    <3>1. Flush(r) = [blocks |-> Append(r.blocks, r.buffer), buffer |-> r.buffer, buf_len |-> 0]
      BY <1>3, <2>1 DEF Hashers
    <3> QED
      BY <2>2, <2>7, <3>1 DEF Hashers
  <2>9. Holds(Flush(r), long, p + 1)
    BY <2>4, <2>5, <2>8 DEF Holds
  <2>10. Absorbed(Flush(r), long, B)
    BY <2>6, <2>8, <2>9, BlockSize DEF Absorbed
  <2> QED
    BY <1>3, <1>5, <2>8, <2>10 DEF r, long
<1>6. CASE r.buf_len # n
  <2>1. Flush(r) = r
    BY <1>6 DEF Flush
  <2>2. r.buf_len < n
    BY <1>2, <1>3, <1>6, BlockSize
  <2>3. Absorbed(r, long, B)
    BY <1>3, <1>4, <2>2 DEF Absorbed
  <2> QED
    BY <1>3, <1>6, <2>1, <2>3 DEF r, long
<1> QED
  BY <1>5, <1>6

(* The second half: whole blocks from the data itself, the rest kept. *)
LEMMA RestShape ==
    ASSUME NEW B, NEW d \in Seq(B), NEW q \in Nat, NEW r \in 0 .. SHA1_BLOCK_SIZE - 1,
           Len(d) = Bytes(q, SHA1_BLOCK_SIZE) + r
    PROVE  /\ Rest(d) \in Seq(B)
           /\ Len(Rest(d)) = r
           /\ \A i \in 1 .. r : Rest(d)[i] = d[Bytes(q, SHA1_BLOCK_SIZE) + i]
<1> DEFINE base == Bytes(q, SHA1_BLOCK_SIZE)
<1>1. Len(d) % SHA1_BLOCK_SIZE = r
  BY BlockSize, BlocksAndRestUnique
<1>2. base \in Nat /\ r \in Nat
  BY BlockSize DEF Bytes
<1>3. Len(d) = base + r
  OBVIOUS
<1> HIDE DEF base
<1>4. Rest(d) = SubSeq(d, base + 1, Len(d))
  <2>1. Len(d) - r + 1 = base + 1
    BY <1>2, <1>3
  <2> QED
    BY <1>1, <2>1 DEF Rest
<1>5. PICK from \in Nat : from = base + 1
  BY <1>2
<1>6. from \in 1 .. Len(d) + 1 /\ Len(d) \in from - 1 .. Len(d) /\ Len(d) - from + 1 = r
  BY <1>2, <1>3, <1>5
<1>7. /\ SubSeq(d, from, Len(d)) \in Seq(B)
      /\ Len(SubSeq(d, from, Len(d))) = r
      /\ \A i \in 1 .. r : SubSeq(d, from, Len(d))[i] = d[from + i - 1]
  BY <1>6, Slice
<1>8. \A i \in 1 .. r : from + i - 1 = base + i
  BY <1>2, <1>5
<1> QED
  BY <1>4, <1>5, <1>7, <1>8 DEF base

(* The second half of update, reached with an empty buffer: compressing     *)
(* the whole blocks of the data and keeping the rest absorbs the data.      *)
LEMMA TailAbsorbs ==
    ASSUME NEW B, NEW m \in Seq(B), NEW s, Absorbed(s, m, B), s.buf_len = 0,
           NEW d \in Seq(B)
    PROVE  Absorbed(KeepRest(Compress(s, d), Rest(d)), m \o d, B)
<1> DEFINE n == SHA1_BLOCK_SIZE
           c == Compress(s, d)
           k == KeepRest(c, Rest(d))
           long == m \o d
<1>1. PICK p \in Nat : Holds(s, m, p) /\ AreChunks(s.blocks, m, n, p, B)
  BY DEF Absorbed
<1>2. s \in Hashers(B) /\ Bytes(p, n) \in Nat /\ Len(m) = Bytes(p, n)
  <2>1. Bytes(p, n) \in Nat
    BY BlockSize DEF Bytes
  <2> QED
    BY <1>1, <2>1 DEF Absorbed, Holds
<1>3. PICK q \in Nat, r \in 0 .. n - 1 : Len(d) = Bytes(q, n) + r
  <2>1. Len(d) \in Nat
    OBVIOUS
  <2> QED
    BY <2>1, BlockSize, BlocksAndRest
<1>4. /\ Rest(d) \in Seq(B) /\ Len(Rest(d)) = r
      /\ \A i \in 1 .. r : Rest(d)[i] = d[Bytes(q, n) + i]
  BY <1>3, RestShape
<1>5. PICK t \in Nat :
         Bytes(q, n) \in Nat /\ Bytes(t, n) = Bytes(p, n) + Bytes(q, n) /\ r \in Nat
  <2>1. p + q \in Nat /\ Bytes(q, n) \in Nat /\ Bytes(p + q, n) = Bytes(p, n) + Bytes(q, n)
    BY BlockSize DEF Bytes
  <2> QED
    BY <2>1
<1>6. /\ long \in Seq(B) /\ Len(long) = Len(m) + Len(d)
      /\ \A i \in 1 .. Len(d) : long[Len(m) + i] = d[i]
  OBVIOUS
<1>7. Len(long) = Bytes(t, n) + r
  BY <1>2, <1>3, <1>5, <1>6
<1>8. s.blocks \o Chunks(d, n) = Chunks(long, n)
  <2>1. s.blocks = Chunks(m, n)
    BY AbsorbedBlocks
  <2>2. Chunks(long, n) = Chunks(m, n) \o Chunks(d, n)
    BY <1>2, BlockSize, ChunksConcat
  <2> QED
    BY <2>1, <2>2
<1>9. AreChunks(Chunks(long, n), long, n, t, B)
  BY <1>6, <1>7, BlockSize, ChunksShape
<1>10. Chunks(long, n) \in Seq(Seq(B))
  BY <1>9 DEF AreChunks
<1> HIDE DEF long
<1>11. c = [blocks |-> Chunks(long, n), buffer |-> s.buffer, buf_len |-> 0]
  <2>1. c = [s EXCEPT !.blocks = Chunks(long, n)]
    BY <1>8 DEF Compress
  <2> QED
    BY <1>2, <2>1 DEF Hashers
<1>12. s.buffer \in [1 .. n -> B]
  BY <1>2 DEF Hashers
<1> HIDE DEF c
<1>13. CASE Rest(d) = <<>>
  <2>1. k = c /\ r = 0
    BY <1>4, <1>13 DEF KeepRest
  <2>2. k \in Hashers(B) /\ k.buf_len = 0 /\ k.blocks = Chunks(long, n)
    BY <1>10, <1>11, <1>12, <2>1 DEF Hashers
  <2>3. Holds(k, long, t)
    BY <1>5, <1>7, <2>1, <2>2 DEF Holds
  <2> HIDE DEF k
  <2>4. Absorbed(k, long, B)
    BY <1>9, <2>2, <2>3, BlockSize DEF Absorbed
  <2> QED
    BY <2>4 DEF k, c, long
<1>14. CASE Rest(d) # <<>>
  <2> DEFINE buf == Overwrite(c.buffer, 0, Rest(d))
  <2>1. k = [c EXCEPT !.buffer = buf, !.buf_len = r]
    BY <1>4, <1>14 DEF KeepRest
  <2>2. DOMAIN Rest(d) = 1 .. r /\ \A i \in 1 .. r : Rest(d)[i] \in B
    BY <1>4
  <2>3. buf = [i \in 1 .. n |-> IF i \in 1 .. r THEN Rest(d)[i] ELSE s.buffer[i]]
    <3>1. \A i \in 1 .. n : i - 0 = i
      BY BlockSize
    <3> QED
      BY <1>11, <2>2, <3>1 DEF Overwrite
  <2>4. buf \in [1 .. n -> B]
    BY <1>12, <2>2, <2>3
  <2> HIDE DEF buf
  <2>5. k = [blocks |-> Chunks(long, n), buffer |-> buf, buf_len |-> r]
    BY <1>11, <2>1
  <2>6. k \in Hashers(B) /\ k.buf_len = r /\ k.blocks = Chunks(long, n) /\ k.buffer = buf
    BY <1>5, <1>10, <2>4, <2>5 DEF Hashers
  <2>7. \A i \in 1 .. r : buf[i] = long[Bytes(t, n) + i]
    <3> TAKE i \in 1 .. r
    <3>1. buf[i] = d[Bytes(q, n) + i]
      BY <1>4, <2>3, BlockSize
    <3>2. PICK j \in 1 .. Len(d) : j = Bytes(q, n) + i
      BY <1>3, <1>5
    <3>3. Bytes(t, n) + i = Len(m) + j
      BY <1>2, <1>5, <3>2
    <3> QED
      BY <1>6, <3>1, <3>2, <3>3
  <2>8. Holds(k, long, t)
    BY <1>7, <2>6, <2>7 DEF Holds
  <2>9. r < n
    BY BlockSize
  <2> HIDE DEF k
  <2>10. Absorbed(k, long, B)
    BY <1>9, <2>6, <2>8, <2>9 DEF Absorbed
  <2> QED
    BY <2>10 DEF k, c, long
<1> QED
  BY <1>13, <1>14

(* update as a whole: what it is given follows what it was given before,   *)
(* whatever the two lengths are.                                           *)
THEOREM UpdateAbsorbs ==
    ASSUME NEW B, NEW m \in Seq(B), NEW s, Absorbed(s, m, B), NEW d \in Seq(B)
    PROVE  Absorbed(Update(s, d), m \o d, B)
<1> DEFINE n == SHA1_BLOCK_SIZE
           at == s.buf_len
           copied == IF at > 0 THEN Least(Len(d), n - at) ELSE 0
           head == SubSeq(d, 1, copied)
           later == SubSeq(d, copied + 1, Len(d))
           filled == Flush(Refill(s, head))
<1>1. Update(s, d) = KeepRest(Compress(filled, later), Rest(later))
  BY DEF Update
<1>2. at \in Nat /\ at < n /\ Len(d) \in Nat /\ n \in Nat
  BY BlockSize DEF Absorbed, Hashers
<1>3. /\ copied \in 0 .. Len(d) /\ at + copied <= n
      /\ copied = Len(d) \/ at + copied = n \/ (at = 0 /\ copied = 0)
  BY <1>2 DEF Least
<1> HIDE DEF copied
<1>4. /\ head \in Seq(B) /\ Len(head) = copied
      /\ \A i \in 1 .. copied : head[i] = d[i]
  BY <1>2, <1>3
<1>5. /\ later \in Seq(B) /\ Len(later) = Len(d) - copied
      /\ \A i \in 1 .. Len(d) - copied : later[i] = d[copied + i]
  <2>1. PICK from \in Nat : from = copied + 1
    BY <1>3
  <2>2. from \in 1 .. Len(d) + 1 /\ Len(d) \in from - 1 .. Len(d)
    BY <1>2, <1>3, <2>1
  <2>3. /\ SubSeq(d, from, Len(d)) \in Seq(B)
        /\ Len(SubSeq(d, from, Len(d))) = Len(d) - from + 1
        /\ \A i \in 1 .. Len(d) - from + 1 : SubSeq(d, from, Len(d))[i] = d[from + i - 1]
    BY <2>2, Slice
  <2>4. /\ later = SubSeq(d, from, Len(d)) /\ Len(d) - from + 1 = Len(d) - copied
        /\ \A i \in 1 .. Len(d) - copied : from + i - 1 = copied + i
    BY <1>2, <1>3, <2>1
  <2> QED
    BY <2>3, <2>4
<1> HIDE DEF head, later
<1>6. d = head \o later
  <2>1. head \o later \in Seq(B) /\ Len(head \o later) = Len(d)
    <3>1. head \o later \in Seq(B) /\ Len(head \o later) = Len(head) + Len(later)
      BY <1>4, <1>5, ConcatProperties
    <3> QED
      BY <1>2, <1>3, <1>4, <1>5, <3>1
  <2>2. ASSUME NEW i \in 1 .. Len(d)
        PROVE  (head \o later)[i] = d[i]
    <3>1. CASE i <= copied
      BY <1>3, <1>4, <1>5, <3>1
    <3>2. CASE i > copied
      <4>1. (head \o later)[i] = later[i - copied]
        BY <1>3, <1>4, <1>5, <3>2
      <4>2. i - copied \in 1 .. Len(d) - copied /\ copied + (i - copied) = i
        BY <1>2, <1>3, <3>2
      <4> QED
        BY <1>5, <4>1, <4>2
    <3>3. i <= copied \/ i > copied
      BY <1>3
    <3> QED
      BY <3>1, <3>2, <3>3
  <2> QED
    BY <2>1, <2>2, SeqEqual
<1>7. /\ Absorbed(filled, m \o head, B)
      /\ filled.buf_len = IF at + copied = n THEN 0 ELSE at + copied
  BY <1>3, <1>4, FillAbsorbs
<1> HIDE DEF filled
<1>8. (m \o head) \o later = m \o d
  <2>1. m \in Seq(B) /\ head \in Seq(B) /\ later \in Seq(B)
    BY <1>4, <1>5
  <2>2. (m \o head) \o later = m \o (head \o later)
    BY ONLY <2>1, ConcatAssociative
  <2> QED
    BY <1>6, <2>2
<1>9. m \o head \in Seq(B)
  BY <1>4
<1>10. CASE filled.buf_len = 0
  BY <1>1, <1>5, <1>7, <1>8, <1>9, <1>10, TailAbsorbs
<1>11. CASE filled.buf_len # 0
  <2>1. later = <<>>
    <3>1. Len(later) = 0
      BY <1>2, <1>3, <1>5, <1>7, <1>11
    <3> QED
      BY <1>5, <3>1
  <2>2. m \o d = m \o head
    BY <1>8, <1>9, <2>1, ConcatEmptySeq
  <2>3. Rest(later) = <<>> /\ Chunks(later, n) = <<>>
    <3>1. Len(later) % n = 0 /\ Len(later) \div n = 0
      BY <2>1, BlockSize
    <3>2. Rest(later) = SubSeq(later, 1, 0)
      BY <2>1, <3>1 DEF Rest
    <3>3. Chunks(later, n) = [k \in 1 .. 0 |-> SubSeq(later, (k - 1) * n + 1, k * n)]
      BY <3>1 DEF Chunks
    <3> QED
      BY <3>2, <3>3
  <2>4. filled.blocks \in Seq(Seq(B)) /\ filled \in Hashers(B)
    BY <1>7 DEF Absorbed, Hashers
  <2>5. Compress(filled, later) = [filled EXCEPT !.blocks = filled.blocks]
    BY <2>3, <2>4, ConcatEmptySeq DEF Compress
  <2>6. Compress(filled, later) = filled
    BY <2>4, <2>5 DEF Hashers
  <2>7. Update(s, d) = filled
    BY <1>1, <2>3, <2>6 DEF KeepRest
  <2> QED
    BY <1>7, <2>2, <2>7
<1> QED
  BY <1>10, <1>11

(* A hasher that was given nothing. *)
LEMMA NewAbsorbs ==
    ASSUME NEW B, Zero \in B,
           NEW s, s = [blocks |-> <<>>, buffer |-> [i \in 1 .. SHA1_BLOCK_SIZE |-> Zero], buf_len |-> 0]
    PROVE  Absorbed(s, <<>>, B)
<1>1. s \in Hashers(B) /\ s.buf_len = 0 /\ s.blocks = <<>>
  BY DEF Hashers
<1>2. Bytes(0, SHA1_BLOCK_SIZE) = 0
  BY BlockSize DEF Bytes
<1>3. Holds(s, <<>>, 0)
  BY <1>1, <1>2 DEF Holds
<1>4. AreChunks(s.blocks, <<>>, SHA1_BLOCK_SIZE, 0, B)
  BY <1>1 DEF AreChunks
<1> QED
  BY <1>1, <1>3, <1>4, BlockSize DEF Absorbed

(* The padding of a buffer of n bytes is a marker and the fewest zeros     *)
(* that leave just the length to a whole number of blocks.                 *)
LEMMA PaddingShape ==
    ASSUME NEW B, Zero \in B, Marker \in B, NEW n \in 0 .. SHA1_BLOCK_SIZE - 1
    PROVE  \E z \in 0 .. SHA1_BLOCK_SIZE - 1, k \in 1 .. 2 :
              /\ Padding(n) = <<Marker>> \o [i \in 1 .. z |-> Zero]
              /\ Padding(n) \in Seq(B)
              /\ Len(Padding(n)) = 1 + z
              /\ n + 1 + z + SHA1_LENGTH_SIZE = Bytes(k, SHA1_BLOCK_SIZE)
<1>1. PICK bs \in Nat \ {0}, ls \in Nat \ {0} :
         bs = SHA1_BLOCK_SIZE /\ ls = SHA1_LENGTH_SIZE /\ ls < bs
  BY BlockSize, Sha1SizeAssumption
<1>2. PICK z \in 0 .. bs - 1 : PadLen(n) = 1 + z /\ (n + 1 + z + ls = bs \/ n + 1 + z + ls = 2 * bs)
  <2>1. CASE n < bs - ls
    <3>1. bs - ls - n - 1 \in 0 .. bs - 1 /\ PadLen(n) = 1 + (bs - ls - n - 1)
      BY <1>1, <2>1 DEF PadLen, Room
    <3> QED
      BY <1>1, <3>1
  <2>2. CASE ~ (n < bs - ls)
    <3>1. PICK y \in 0 .. bs - 1 : y = bs + bs - ls - n - 1
      BY <1>1, <2>2
    <3>2. PadLen(n) = 1 + y
      BY <1>1, <2>2, <3>1 DEF PadLen, Room
    <3>3. n + 1 + y + ls = 2 * bs
      BY <1>1, <3>1
    <3> QED
      BY <3>2, <3>3
  <2> QED
    BY <2>1, <2>2
<1>3. PICK k \in 1 .. 2 : n + 1 + z + ls = Bytes(k, bs)
  BY <1>1, <1>2 DEF Bytes
<1> DEFINE zeros == [i \in 1 .. z |-> Zero]
<1>4. zeros \in Seq(B) /\ Len(zeros) = z /\ \A i \in 1 .. z : zeros[i] = Zero
  BY <1>1
<1> HIDE DEF zeros
<1>5. Padding(n) = [i \in 1 .. 1 + z |-> IF i = 1 THEN Marker ELSE Zero]
  BY <1>2 DEF Padding
<1>6. Padding(n) \in Seq(B) /\ Len(Padding(n)) = 1 + z
  <2>1. Padding(n) \in [1 .. 1 + z -> B] /\ 1 + z \in Nat
    BY <1>1, <1>5
  <2> QED
    BY <2>1
<1>7. <<Marker>> \o zeros \in Seq(B) /\ Len(<<Marker>> \o zeros) = 1 + z
  BY <1>4
<1>8. ASSUME NEW i \in 1 .. 1 + z
      PROVE  (<<Marker>> \o zeros)[i] = Padding(n)[i]
  <2>1. CASE i = 1
    BY <1>4, <1>5, <2>1
  <2>2. CASE i > 1
    BY <1>4, <1>5, <2>2
  <2>3. i = 1 \/ i > 1
    BY <1>1
  <2> QED
    BY <2>1, <2>2, <2>3
<1>9. Padding(n) = <<Marker>> \o zeros
  BY <1>6, <1>7, <1>8, SeqEqual
<1> QED
  BY <1>1, <1>3, <1>6, <1>9 DEF zeros

(* finalize compresses what the standard asks for, whatever was absorbed   *)
(* before.                                                                 *)
LEMMA FinalizedAsStandard ==
    ASSUME NEW B, Zero \in B, Marker \in B, NEW m \in Seq(B),
           \A i \in 1 .. SHA1_LENGTH_SIZE : LengthByte(i, Len(m)) \in B,
           NEW s, Absorbed(s, m, B)
    PROVE  /\ Finalized(s, Len(m)).blocks = StandardBlocks(m)
           /\ Finalized(s, Len(m)).buf_len = 0
<1> DEFINE n == SHA1_BLOCK_SIZE
           at == s.buf_len
           pad == Padding(at)
           field == LengthField(Len(m))
           f == Finalized(s, Len(m))
           long == (m \o pad) \o field
<1>1. at \in 0 .. n - 1
  BY BlockSize DEF Absorbed, Hashers
<1>2. PICK z \in 0 .. n - 1, k \in 1 .. 2 :
         /\ pad = <<Marker>> \o [i \in 1 .. z |-> Zero]
         /\ pad \in Seq(B)
         /\ Len(pad) = 1 + z
         /\ at + 1 + z + SHA1_LENGTH_SIZE = Bytes(k, n)
  BY <1>1, PaddingShape
<1>3. field \in Seq(B) /\ Len(field) = SHA1_LENGTH_SIZE
  <2>1. field \in [1 .. SHA1_LENGTH_SIZE -> B] /\ SHA1_LENGTH_SIZE \in Nat
    BY Sha1SizeAssumption DEF LengthField
  <2> QED
    BY <2>1
<1>4. PICK p \in Nat : Len(m) = Bytes(p, n) + at
  BY DEF Absorbed, Holds
<1>5. PICK q \in Nat : Bytes(q, n) = Bytes(p, n) + Bytes(k, n) /\ Bytes(p, n) \in Nat /\ Bytes(q, n) \in Nat
  <2>1. p + k \in Nat /\ Bytes(p + k, n) = Bytes(p, n) + Bytes(k, n) /\ Bytes(p, n) \in Nat /\ Bytes(p + k, n) \in Nat
    BY BlockSize DEF Bytes
  <2> QED
    BY <2>1
<1> HIDE DEF pad, field
<1>6. long \in Seq(B) /\ m \o pad \in Seq(B) /\ Len(long) = Bytes(q, n)
  <2>1. m \o pad \in Seq(B) /\ Len(m \o pad) = Len(m) + Len(pad)
    BY <1>2
  <2>2. long \in Seq(B) /\ Len(long) = Len(m \o pad) + Len(field)
    BY <1>3, <2>1
  <2>3. SHA1_LENGTH_SIZE \in Nat /\ at \in Nat /\ z \in Nat
    BY <1>1, Sha1SizeAssumption
  <2>4. Len(long) = Bytes(p, n) + at + (1 + z) + SHA1_LENGTH_SIZE
    BY <1>2, <1>3, <1>4, <2>1, <2>2
  <2>5. Bytes(p, n) \in Nat /\ Bytes(q, n) \in Nat /\ Bytes(q, n) = Bytes(p, n) + Bytes(k, n)
    BY <1>5
  <2>6. Bytes(k, n) = at + 1 + z + SHA1_LENGTH_SIZE
    BY <1>2
  <2>7. Bytes(p, n) + at + (1 + z) + SHA1_LENGTH_SIZE = Bytes(p, n) + (at + 1 + z + SHA1_LENGTH_SIZE)
    <3>1. PICK a \in Nat, b \in Nat, c \in Nat, e \in Nat :
             a = Bytes(p, n) /\ b = at /\ c = z /\ e = SHA1_LENGTH_SIZE
      BY <2>3, <2>5
    <3>2. a + b + (1 + c) + e = a + (b + 1 + c + e)
      OBVIOUS
    <3> QED
      BY <3>1, <3>2
  <2> HIDE DEF long
  <2> QED
    BY <2>1, <2>2, <2>4, <2>5, <2>6, <2>7
<1>7. Absorbed(f, long, B)
  <2>1. Absorbed(Update(s, pad), m \o pad, B)
    BY <1>2, UpdateAbsorbs
  <2>2. Absorbed(Update(Update(s, pad), field), long, B)
    BY <1>3, <1>6, <2>1, UpdateAbsorbs
  <2> QED
    BY <2>2 DEF Finalized, pad, field
<1> HIDE DEF long, f
<1>8. f.blocks = Chunks(long, n)
  BY <1>6, <1>7, AbsorbedBlocks
<1>9. f.buf_len = 0
  <2>1. PICK t \in Nat : Len(long) = Bytes(t, n) + f.buf_len
    BY <1>7 DEF Absorbed, Holds
  <2>2. f.buf_len \in 0 .. n - 1
    BY <1>7, BlockSize DEF Absorbed, Hashers
  <2>3. Len(long) % n = f.buf_len
    BY <2>1, <2>2, BlockSize, BlocksAndRestUnique
  <2>4. Len(long) % n = 0
    <3>1. Len(long) = Bytes(q, n) + 0 /\ 0 \in 0 .. n - 1
      BY <1>5, <1>6, BlockSize
    <3> QED
      BY <3>1, BlockSize, BlocksAndRestUnique
  <2> QED
    BY <2>3, <2>4
<1> DEFINE zeros == (-(Len(m) + 1 + SHA1_LENGTH_SIZE)) % n
<1>10. zeros = z
  <2>1. Len(m) + 1 + SHA1_LENGTH_SIZE + z = q * n
    <3>1. Len(m) \in Nat /\ SHA1_LENGTH_SIZE \in Nat
      BY Sha1SizeAssumption
    <3>2. Len(m) + 1 + SHA1_LENGTH_SIZE + z = Bytes(q, n)
      <4>1. Len(m) = Bytes(p, n) + at
        BY <1>4
      <4>2. at + 1 + z + SHA1_LENGTH_SIZE = Bytes(k, n)
        BY <1>2
      <4>3. Bytes(q, n) = Bytes(p, n) + Bytes(k, n)
        BY <1>5
      <4>4. PICK a \in Nat, b \in Nat, c \in Nat, e \in Nat, l \in Nat :
               a = Bytes(p, n) /\ b = at /\ c = z /\ e = SHA1_LENGTH_SIZE /\ l = Len(m)
        <5>1. at \in Nat /\ z \in Nat /\ Bytes(p, n) \in Nat
          BY <1>1, <1>5, BlockSize
        <5> QED
          BY <3>1, <5>1
      <4>5. l = a + b => l + 1 + e + c = a + (b + 1 + c + e)
        OBVIOUS
      <4> QED
        BY <4>1, <4>2, <4>3, <4>4, <4>5
    <3> QED
      BY <3>2 DEF Bytes
  <2>2. -(Len(m) + 1 + SHA1_LENGTH_SIZE) = n * (-q) + z /\ -(Len(m) + 1 + SHA1_LENGTH_SIZE) \in Int
    <3>1. Len(m) \in Nat /\ SHA1_LENGTH_SIZE \in Nat
      BY Sha1SizeAssumption
    <3>2. q * n = n * q /\ n * (-q) = -(n * q) /\ n * q \in Int
      BY BlockSize
    <3> QED
      BY <2>1, <3>1, <3>2
  <2>3. -q \in Int
    OBVIOUS
  <2> QED
    BY <2>2, <2>3, BlockSize, DivModUnique
<1>11. StandardBlocks(m) = Chunks(long, n)
  <2>1. StandardBlocks(m) = Chunks(m \o <<Marker>> \o [i \in 1 .. zeros |-> Zero] \o field, n)
    BY DEF StandardBlocks, field
  <2>2. m \o pad = m \o <<Marker>> \o [i \in 1 .. z |-> Zero]
    <3> DEFINE zs == [i \in 1 .. z |-> Zero]
    <3>1. zs \in Seq(B) /\ <<Marker>> \in Seq(B)
      BY BlockSize
    <3> HIDE DEF zs
    <3>2. m \o (<<Marker>> \o zs) = (m \o <<Marker>>) \o zs
      BY <3>1, ConcatAssociative
    <3> QED
      BY <1>2, <3>2 DEF zs, pad
  <2> QED
    BY <1>10, <2>1, <2>2 DEF long
<1> QED
  BY <1>8, <1>9, <1>11 DEF f

(* The bytes that come up in hashing a message over B. *)
HashBytes(B) ==
    B \union {Zero, Marker} \union {LengthByte(i, len) : i \in Nat, len \in Nat}

(* The alphabet of a padded message holds the message's bytes, the          *)
(* padding's and the length field's.                                        *)
LEMMA HashBytesHold ==
    ASSUME NEW B
    PROVE  /\ Zero \in HashBytes(B) /\ Marker \in HashBytes(B) /\ B \subseteq HashBytes(B)
           /\ \A m \in Seq(B) : m \in Seq(HashBytes(B))
           /\ \A len \in Nat : \A i \in 1 .. SHA1_LENGTH_SIZE : LengthByte(i, len) \in HashBytes(B)
<1>1. SHA1_LENGTH_SIZE \in Nat
  BY Sha1SizeAssumption
<1>2. B \subseteq HashBytes(B) /\ Zero \in HashBytes(B) /\ Marker \in HashBytes(B)
  BY DEF HashBytes
<1>3. \A m \in Seq(B) : m \in Seq(HashBytes(B))
  BY <1>2
<1>4. \A len \in Nat : \A i \in 1 .. SHA1_LENGTH_SIZE : LengthByte(i, len) \in HashBytes(B)
  BY <1>1 DEF HashBytes
<1> QED
  BY <1>2, <1>3, <1>4

(* What the hasher holds is what it was given. *)
Given == [i \in 1 .. message_len |-> Message(i)]
Messages == {Message(i) : i \in Nat}

HashInv ==
    /\ message_len \in Nat
    /\ hashed \in BOOLEAN
    /\ ~ hashed =>
          /\ total_len = message_len
          /\ Absorbed(Hasher, Given, HashBytes(Messages))
    /\ HashedAsStandard

(* A new hasher has absorbed the empty message. *)
LEMMA HashInvInit == HashInit => HashInv
<1> SUFFICES ASSUME HashInit PROVE HashInv
  OBVIOUS
<1>1. message_len = 0 /\ total_len = 0 /\ hashed = FALSE
  BY DEF HashInit
<1>2. Given = <<>>
  BY <1>1 DEF Given
<1>3. Absorbed(Hasher, <<>>, HashBytes(Messages))
  <2>1. Zero \in HashBytes(Messages)
    BY HashBytesHold
  <2>2. Hasher = [blocks |-> <<>>, buffer |-> [i \in 1 .. SHA1_BLOCK_SIZE |-> Zero], buf_len |-> 0]
    BY DEF HashInit, Hasher
  <2> QED
    BY <2>1, <2>2, NewAbsorbs
<1> QED
  BY <1>1, <1>2, <1>3 DEF HashInv, HashedAsStandard

(* Each update leaves the hasher with everything given so far absorbed. *)
LEMMA UpdateByKeeps ==
    ASSUME HashInv, NEW n \in 0 .. MaxTotal, UpdateBy(n)
    PROVE  HashInv'
<1> DEFINE B == HashBytes(Messages)
           data == [i \in 1 .. n |-> Message(total_len + i)]
<1>1. /\ message_len \in Nat /\ total_len = message_len /\ ~ hashed /\ hashed' = hashed /\ hashed \in BOOLEAN /\ n \in Nat
      /\ Absorbed(Hasher, Given, B)
      /\ total_len' = total_len + n /\ message_len' = message_len + n
      /\ Becomes(Update(Hasher, data))
  BY TotalAssumption DEF HashInv, UpdateBy
<1>2. /\ Given \in Seq(B) /\ Len(Given) = message_len
      /\ \A i \in 1 .. message_len : Given[i] = Message(i)
  <2>1. Given \in [1 .. message_len -> Messages]
    BY <1>1 DEF Given, Messages
  <2>2. Given \in Seq(Messages) /\ Len(Given) = message_len
    BY <1>1, <2>1
  <2>3. Given \in Seq(B)
    BY <2>2, HashBytesHold
  <2> QED
    BY <2>2, <2>3 DEF Given
<1>3. /\ data \in Seq(B) /\ Len(data) = n
      /\ \A i \in 1 .. n : data[i] = Message(message_len + i)
  <2>1. \A i \in 1 .. n : message_len + i \in Nat
    BY <1>1
  <2>2. data \in [1 .. n -> Messages]
    BY <1>1, <2>1 DEF Messages
  <2>3. data \in Seq(Messages) /\ Len(data) = n
    <3> HIDE DEF data
    <3> QED
      BY <1>1, <2>2
  <2>4. data \in Seq(B)
    BY <2>3, HashBytesHold
  <2> QED
    BY <1>1, <2>3, <2>4
<1> HIDE DEF data
<1>4. Absorbed(Update(Hasher, data), Given \o data, B)
  BY <1>1, <1>2, <1>3, UpdateAbsorbs
<1>5. Hasher' = Update(Hasher, data)
  <2>1. Update(Hasher, data) \in Hashers(B)
    BY <1>4 DEF Absorbed
  <2> QED
    BY <1>1, <2>1 DEF Becomes, Hasher, Hashers
<1>6. Given' = Given \o data
  <2>1. Given' = [i \in 1 .. message_len + n |-> Message(i)]
    BY <1>1 DEF Given
  <2>2. Given' \in [1 .. message_len + n -> Messages]
    BY <1>1, <2>1 DEF Messages
  <2>3. Given' \in Seq(Messages) /\ Len(Given') = message_len + n
    BY <1>1, <2>2
  <2>4. Given \o data \in Seq(B) /\ Len(Given \o data) = message_len + n
    BY <1>2, <1>3
  <2>5. ASSUME NEW i \in 1 .. message_len + n
        PROVE  (Given \o data)[i] = Given'[i]
    <3>1. CASE i <= message_len
      BY <1>1, <1>2, <1>3, <2>1, <3>1
    <3>2. CASE i > message_len
      <4>1. PICK h \in 1 .. n : i = message_len + h
        <5>1. i - message_len \in 1 .. n /\ i = message_len + (i - message_len)
          BY <1>1, <3>2
        <5> QED
          BY <5>1
      <4>2. (Given \o data)[Len(Given) + h] = data[h]
        BY <1>2, <1>3
      <4> QED
        BY <1>2, <1>3, <2>1, <4>1, <4>2
    <3>3. i <= message_len \/ i > message_len
      BY <1>1
    <3> QED
      BY <3>1, <3>2, <3>3
  <2>6. Given' \in Seq(B)
    BY <2>3, HashBytesHold
  <2> QED
    BY <2>3, <2>4, <2>5, <2>6, SeqEqual
<1>7. Absorbed(Hasher, Given, B)'
  BY <1>4, <1>5, <1>6
<1> QED
  BY <1>1, <1>7 DEF HashInv, HashedAsStandard

(* finalize ends with the standard's blocks, and starts over. *)
LEMMA FinalizeKeeps ==
    ASSUME HashInv, HashFinalize
    PROVE  HashInv'
<1> DEFINE B == HashBytes(Messages)
<1>1. /\ message_len \in Nat /\ total_len = message_len /\ hashed' = TRUE
      /\ message_len' = message_len
      /\ Absorbed(Hasher, Given, B)
      /\ Becomes(Finalized(Hasher, message_len))
  BY DEF HashInv, HashFinalize
<1>2. Given \in Seq(B) /\ Len(Given) = message_len
  <2>1. Given \in [1 .. message_len -> Messages]
    BY <1>1 DEF Given, Messages
  <2>2. Given \in Seq(Messages) /\ Len(Given) = message_len
    BY <1>1, <2>1
  <2> QED
    BY <2>2, HashBytesHold
<1>3. /\ Finalized(Hasher, message_len).blocks = StandardBlocks(Given)
      /\ Finalized(Hasher, message_len).buf_len = 0
  <2>1. \A i \in 1 .. SHA1_LENGTH_SIZE : LengthByte(i, Len(Given)) \in B
    BY <1>1, <1>2, HashBytesHold
  <2>2. Zero \in B /\ Marker \in B
    BY HashBytesHold
  <2> QED
    BY <1>1, <1>2, <2>1, <2>2, FinalizedAsStandard
<1>4. blocks' = StandardBlocks(Given) /\ buf_len' = 0
  BY <1>1, <1>3 DEF Becomes
<1> QED
  BY <1>1, <1>4 DEF HashInv, HashedAsStandard, Given

(* Whatever the sizes and however the message is cut into updates, what    *)
(* the hasher has compressed when it finalizes is the message padded as    *)
(* the standard asks (Sha1::update, Sha1::finalize, wpa.rs).               *)
THEOREM HashIsStandard == HashSpec => []HashedAsStandard
<1>1. HashInv /\ [HashNext]_hashVars => HashInv'
  <2> SUFFICES ASSUME HashInv, [HashNext]_hashVars
               PROVE  HashInv'
    OBVIOUS
  <2>1. CASE UNCHANGED hashVars
    BY <2>1 DEF HashInv, HashedAsStandard, Given, Hasher, hashVars
  <2> QED
    BY <2>1, UpdateByKeeps, FinalizeKeeps DEF HashNext
<1>2. HashInv => HashedAsStandard
  BY DEF HashInv
<1> QED
  BY <1>1, <1>2, HashInvInit, PTL DEF HashSpec

-----------------------------------------------------------------------------
(* A message given at once, or in two parts. *)
LEMMA DigestIsStandard ==
    ASSUME NEW A, NEW m \in Seq(A), NEW s, Absorbed(s, m, HashBytes(A))
    PROVE  Digest(s, Len(m)) = StandardHash(m)
<1> DEFINE B == HashBytes(A)
<1>1. /\ Zero \in B /\ Marker \in B /\ m \in Seq(B) /\ Len(m) \in Nat
      /\ \A i \in 1 .. SHA1_LENGTH_SIZE : LengthByte(i, Len(m)) \in B
  BY HashBytesHold
<1>2. Finalized(s, Len(m)).blocks = StandardBlocks(m)
  <2> HIDE DEF B
  <2>1. Absorbed(s, m, B)
    BY DEF B
  <2> QED
    BY <1>1, <2>1, FinalizedAsStandard
<1> QED
  BY <1>2 DEF Digest, StandardHash

(* A message given to a new hasher in one update is hashed as the standard  *)
(* says.                                                                    *)
LEMMA HashAsStandard ==
    ASSUME NEW A, NEW m \in Seq(A)
    PROVE  Hash(m) = StandardHash(m)
<1>1. Zero \in HashBytes(A) /\ m \in Seq(HashBytes(A))
  BY HashBytesHold
<1>2. Absorbed(NewHasher, <<>>, HashBytes(A))
  BY <1>1, NewAbsorbs DEF NewHasher
<1>3. <<>> \in Seq(HashBytes(A)) /\ <<>> \o m = m
  OBVIOUS
<1>4. Absorbed(Update(NewHasher, m), m, HashBytes(A))
  BY <1>1, <1>2, <1>3, UpdateAbsorbs
<1> QED
  BY <1>4, DigestIsStandard DEF Hash

(* So is one given in two updates, as hmac gives its pad and its data:      *)
(* where it is cut makes no difference.                                     *)
LEMMA HashBothAsStandard ==
    ASSUME NEW A, NEW m \in Seq(A), NEW d \in Seq(A)
    PROVE  HashBoth(m, d) = StandardHash(m \o d)
<1>1. Zero \in HashBytes(A) /\ m \in Seq(HashBytes(A)) /\ d \in Seq(HashBytes(A))
  BY HashBytesHold
<1>2. Absorbed(NewHasher, <<>>, HashBytes(A))
  BY <1>1, NewAbsorbs DEF NewHasher
<1>3. <<>> \in Seq(HashBytes(A)) /\ <<>> \o m = m
  OBVIOUS
<1>4. Absorbed(Update(NewHasher, m), m, HashBytes(A))
  BY <1>1, <1>2, <1>3, UpdateAbsorbs
<1>5. Absorbed(Update(Update(NewHasher, m), d), m \o d, HashBytes(A))
  BY <1>1, <1>4, UpdateAbsorbs
<1>6. m \o d \in Seq(A) /\ Len(m \o d) = Len(m) + Len(d)
  OBVIOUS
<1> QED
  BY <1>5, <1>6, DigestIsStandard DEF HashBoth

(* hmac_sha1 is RFC 2104's HMAC over the standard's SHA-1, for every key,   *)
(* short or longer than a block, and every message.                         *)
LEMMA HmacSha1AsStandard ==
    ASSUME NEW A, NEW k \in Seq(A), NEW data \in Seq(A)
    PROVE  HmacSha1(k, data) = StandardHmac(k, data)
<1> DEFINE padded == PaddedKey(k)
           inner_key == Masked(padded, Ipad)
           outer_key == Masked(padded, Opad)
           inner == StandardHash(inner_key \o data)
           C == A \union {inner_key[i] : i \in 1 .. SHA1_BLOCK_SIZE}
           D == {outer_key[i] : i \in 1 .. SHA1_BLOCK_SIZE} \union {inner[i] : i \in 1 .. SHA1_DIGEST_SIZE}
<1>1. padded = Padded(IF Len(k) <= SHA1_BLOCK_SIZE THEN k ELSE StandardHash(k), SHA1_BLOCK_SIZE)
  <2>1. Len(k) \in Nat /\ SHA1_BLOCK_SIZE \in Nat
    BY BlockSize
  <2>2. Hash(k) = StandardHash(k)
    BY HashAsStandard
  <2>3. Hashed(k) <=> ~ (Len(k) <= SHA1_BLOCK_SIZE)
    BY <2>1 DEF Hashed
  <2> QED
    BY <2>2, <2>3 DEF PaddedKey
<1>2. inner_key \in Seq(C) /\ data \in Seq(C)
  <2>1. inner_key \in [1 .. SHA1_BLOCK_SIZE -> C]
    BY DEF Masked
  <2> HIDE DEF inner_key
  <2>2. inner_key \in Seq(C)
    BY <2>1, BlockSize
  <2>3. A \subseteq C
    OBVIOUS
  <2> HIDE DEF C
  <2> QED
    BY <2>2, <2>3
<1>3. outer_key \in Seq(D) /\ inner \in Seq(D)
  <2>1. outer_key \in [1 .. SHA1_BLOCK_SIZE -> D]
    BY DEF Masked
  <2>2. inner \in [1 .. SHA1_DIGEST_SIZE -> D]
    BY DEF StandardHash, DigestOf
  <2>3. SHA1_BLOCK_SIZE \in Nat /\ SHA1_DIGEST_SIZE \in Nat
    BY BlockSize, DigestAssumption
  <2> HIDE DEF outer_key, inner, D
  <2> QED
    BY <2>1, <2>2, <2>3
<1> HIDE DEF C, D
<1>4. HashBoth(inner_key, data) = inner
  BY <1>2, HashBothAsStandard
<1>5. HashBoth(outer_key, inner) = StandardHash(outer_key \o inner)
  BY <1>3, HashBothAsStandard
<1> QED
  BY <1>1, <1>4, <1>5 DEF HmacSha1, StandardHmac

(* hmac_sha1 is the HMAC of the standard for every key, every text and     *)
(* every size of block, digest and length field that the assumptions allow *)
(* (hmac_sha1, wpa.rs).                                                    *)
THEOREM HmacIsStandard == HmacSpec => []HmacAsStandard
<1>1. HmacInit => HmacAsStandard
  BY DEF HmacInit, HmacAsStandard
<1>2. HmacAsStandard /\ [HmacNext]_hmacVars => HmacAsStandard'
  <2> SUFFICES ASSUME HmacAsStandard, [HmacNext]_hmacVars
               PROVE  HmacAsStandard'
    OBVIOUS
  <2>1. CASE UNCHANGED hmacVars
    BY <2>1 DEF HmacAsStandard, hmacVars
  <2>2. ASSUME NEW n \in 0 .. MaxKey, NEW len \in 0 .. MaxTotal, Authenticate(n, len)
        PROVE  HmacAsStandard'
    <3> DEFINE A == {KeyByte(i) : i \in Nat} \union {Message(i) : i \in Nat}
    <3>1. n \in Nat /\ len \in Nat
      BY DigestAssumption, TotalAssumption
    <3>2. key' = [i \in 1 .. n |-> KeyByte(i)] /\ text' = [i \in 1 .. len |-> Message(i)]
      BY <2>2 DEF Authenticate
    <3>3. key' \in [1 .. n -> A] /\ text' \in [1 .. len -> A]
      BY <3>1, <3>2
    <3> HIDE DEF A
    <3>4. key' \in Seq(A) /\ text' \in Seq(A)
      BY <3>1, <3>3
    <3>5. hmac' = HmacSha1(key', text')
      BY <2>2 DEF Authenticate
    <3> QED
      BY <3>4, <3>5, HmacSha1AsStandard DEF HmacAsStandard
  <2> QED
    BY <2>1, <2>2 DEF HmacNext
<1> QED
  BY <1>1, <1>2, PTL DEF HmacSpec

-----------------------------------------------------------------------------

(* A digest is not empty (SHA1_DIGEST_SIZE). *)
LEMMA DigestSize == SHA1_DIGEST_SIZE \in Nat \ {0}
BY BlockSize, DigestAssumption

(* The chain of the U exists, up to any length. *)
LEMMA ChainExists ==
    ASSUME NEW b
    PROVE  \A n \in Nat : \E f :
              f = [j \in 1 .. n |-> HmacOf(Passphrase, IF j = 1 THEN Salt(b) ELSE f[j - 1])]
<1> DEFINE IsChain(f, n) ==
              f = [j \in 1 .. n |-> HmacOf(Passphrase, IF j = 1 THEN Salt(b) ELSE f[j - 1])]
           S == {n \in Nat : \E f : IsChain(f, n)}
<1>1. 0 \in S
  <2>1. IsChain([j \in 1 .. 0 |-> Zero], 0)
    OBVIOUS
  <2> QED
    BY <2>1
<1>2. ASSUME NEW n \in Nat, n \in S
      PROVE  n + 1 \in S
  <2>1. PICK f : IsChain(f, n)
    BY <1>2
  <2> DEFINE longer == [j \in 1 .. n + 1 |->
                           IF j \in 1 .. n THEN f[j]
                           ELSE HmacOf(Passphrase, IF j = 1 THEN Salt(b) ELSE f[j - 1])]
  <2>2. ASSUME NEW j \in 1 .. n + 1
        PROVE  longer[j] = HmacOf(Passphrase, IF j = 1 THEN Salt(b) ELSE longer[j - 1])
    <3>1. CASE j = 1
      BY <2>1, <3>1
    <3>2. CASE j > 1
      <4>1. j - 1 \in 1 .. n /\ j - 1 \in 1 .. n + 1
        BY <3>2
      <4>2. longer[j - 1] = f[j - 1]
        BY <4>1
      <4>3. longer[j] = HmacOf(Passphrase, f[j - 1])
        BY <2>1, <3>2
      <4> QED
        BY <3>2, <4>2, <4>3
    <3>3. j = 1 \/ j > 1
      OBVIOUS
    <3> QED
      BY <3>1, <3>2, <3>3
  <2>3. longer = [j \in 1 .. n + 1 |-> longer[j]]
    OBVIOUS
  <2> HIDE DEF longer
  <2>4. IsChain(longer, n + 1)
    BY <2>2, <2>3
  <2> QED
    BY <2>4
<1> HIDE DEF S
<1>3. Nat \subseteq S
  BY <1>1, <1>2, NatByInduction
<1> QED
  BY <1>3 DEF S

(* What the recursion of StandardU says of each of them. *)
LEMMA StandardUShape ==
    ASSUME NEW b
    PROVE  /\ MaxIterations \in Nat
           /\ DOMAIN StandardU(b) = 1 .. MaxIterations + 1
           /\ StandardU(b)[1] = HmacOf(Passphrase, Salt(b))
           /\ \A j, k \in 1 .. MaxIterations + 1 :
                 k = j + 1 => StandardU(b)[k] = HmacOf(Passphrase, StandardU(b)[j])
<1> DEFINE n == MaxIterations + 1
           U == StandardU(b)
<1>1. MaxIterations \in Nat /\ n \in Nat
  BY KeySizeAssumption
<1>2. U = CHOOSE f : f = [j \in 1 .. n |-> HmacOf(Passphrase, IF j = 1 THEN Salt(b) ELSE f[j - 1])]
  BY DEF StandardU
<1>3. U = [j \in 1 .. n |-> HmacOf(Passphrase, IF j = 1 THEN Salt(b) ELSE U[j - 1])]
  <2>1. \E f : f = [j \in 1 .. n |-> HmacOf(Passphrase, IF j = 1 THEN Salt(b) ELSE f[j - 1])]
    BY <1>1, ChainExists
  <2> HIDE DEF n, U
  <2> QED
    BY <1>2, <2>1
<1> HIDE DEF U
<1>4. DOMAIN U = 1 .. n /\ U[1] = HmacOf(Passphrase, Salt(b))
  BY <1>1, <1>3
<1>5. ASSUME NEW j \in 1 .. n, NEW k \in 1 .. n, k = j + 1
      PROVE  U[k] = HmacOf(Passphrase, U[j])
  <2>1. k # 1 /\ k - 1 = j
    BY <1>1, <1>5
  <2> QED
    BY <1>3, <2>1
<1> QED
  BY <1>1, <1>4, <1>5 DEF U, n

(* HMAC, as it is abstracted, tells its inputs apart. *)
LEMMA HmacInjective ==
    ASSUME NEW k, NEW x, NEW y, NEW i \in 1 .. SHA1_DIGEST_SIZE, HmacOf(k, x)[i] = HmacOf(k, y)[i]
    PROVE  x = y
<1>1. {<<"hmac", k, x, i>>} = {<<"hmac", k, y, i>>}
  BY DEF HmacOf
<1>2. <<"hmac", k, x, i>> = <<"hmac", k, y, i>>
  BY <1>1
<1>3. <<"hmac", k, x, i>>[3] = x /\ <<"hmac", k, y, i>>[3] = y
  OBVIOUS
<1> QED
  BY <1>2, <1>3

(* What pbkdf2 starts a block's chain from is not one of the chain's own    *)
(* values.                                                                  *)
LEMMA SaltIsNoHmac ==
    ASSUME NEW b, NEW k, NEW x
    PROVE  Salt(b) # HmacOf(k, x)
<1> SUFFICES ASSUME Salt(b) = HmacOf(k, x) PROVE FALSE
  OBVIOUS
<1>1. Salt(b)[1] = {<<"ssid", 0>>}
  BY DEF Salt, Byte
<1>2. HmacOf(k, x)[1] = {<<"hmac", k, x, 1>>}
  BY DigestSize DEF HmacOf
<1>3. <<"ssid", 0>> = <<"hmac", k, x, 1>>
  BY <1>1, <1>2
<1> QED
  BY <1>3

(* No two of the chain agree in a byte: else the ones before them would be *)
(* equal too, back to the salt.                                            *)
LEMMA ChainDistinct ==
    ASSUME NEW b, NEW j \in 1 .. MaxIterations + 1, NEW k \in 1 .. MaxIterations + 1, j < k,
           NEW i \in 1 .. SHA1_DIGEST_SIZE
    PROVE  StandardU(b)[j][i] # StandardU(b)[k][i]
<1> DEFINE U == StandardU(b)
           N == MaxIterations + 1
           S == {n \in Nat : \A h \in 1 .. N, l \in 1 .. N : h <= n /\ h < l => U[h][i] # U[l][i]}
<1>1. /\ MaxIterations \in Nat /\ N \in Nat
      /\ U[1] = HmacOf(Passphrase, Salt(b))
      /\ \A h, l \in 1 .. N : l = h + 1 => U[l] = HmacOf(Passphrase, U[h])
  BY StandardUShape
<1> HIDE DEF U, N
<1>2. 0 \in S
  BY <1>1
<1>3. ASSUME NEW n \in Nat, n \in S
      PROVE  n + 1 \in S
  <2>1. ASSUME NEW h \in 1 .. N, NEW l \in 1 .. N, h <= n + 1, h < l, U[h][i] = U[l][i]
        PROVE  FALSE
    <3>1. PICK pl \in 1 .. N : l = pl + 1 /\ U[l] = HmacOf(Passphrase, U[pl]) /\ h <= pl
      <4>1. l - 1 \in 1 .. N /\ l = (l - 1) + 1 /\ h <= l - 1
        BY <1>1, <2>1
      <4> QED
        BY <1>1, <4>1
    <3>2. CASE h = 1
      <4>1. Salt(b) = U[pl]
        BY <1>1, <2>1, <3>1, <3>2, HmacInjective
      <4>2. CASE pl = 1
        BY <1>1, <4>1, <4>2, SaltIsNoHmac
      <4>3. CASE pl > 1
        <5>1. pl - 1 \in 1 .. N /\ pl = (pl - 1) + 1
          BY <1>1, <4>3
        <5>2. U[pl] = HmacOf(Passphrase, U[pl - 1])
          BY <1>1, <5>1
        <5> QED
          BY <4>1, <5>2, SaltIsNoHmac
      <4>4. pl = 1 \/ pl > 1
        OBVIOUS
      <4> QED
        BY <4>2, <4>3, <4>4
    <3>3. CASE h > 1
      <4>1. PICK ph \in 1 .. N : h = ph + 1 /\ U[h] = HmacOf(Passphrase, U[ph])
        <5>1. h - 1 \in 1 .. N /\ h = (h - 1) + 1
          BY <1>1, <3>3
        <5> QED
          BY <1>1, <5>1
      <4>2. U[ph] = U[pl]
        BY <2>1, <3>1, <4>1, HmacInjective
      <4>3. ph <= n /\ ph < pl
        BY <2>1, <3>1, <4>1
      <4> QED
        BY <1>3, <4>2, <4>3
    <3>4. h = 1 \/ h > 1
      OBVIOUS
    <3> QED
      BY <3>2, <3>3, <3>4
  <2> QED
    BY <2>1
<1>4. Nat \subseteq S
  <2> HIDE DEF S
  <2> QED
    BY <1>2, <1>3, NatByInduction
<1>5. j \in S
  BY <1>1, <1>4 DEF N
<1> QED
  BY <1>5 DEF U, N

(* The first n of the chain XORed, as the standard's sum. *)
ChainXor(b, n) ==
    [i \in 1 .. SHA1_DIGEST_SIZE |-> UNION {StandardU(b)[j][i] : j \in 1 .. n}]

(* Every value of the standard's chain is an HMAC under the passphrase. *)
LEMMA ChainByte ==
    ASSUME NEW b, NEW j \in 1 .. MaxIterations + 1
    PROVE  \E x : StandardU(b)[j] = HmacOf(Passphrase, x)
<1>1. MaxIterations \in Nat
  BY StandardUShape
<1>2. CASE j = 1
  BY <1>2, StandardUShape
<1>3. CASE j > 1
  <2>1. PICK h \in 1 .. MaxIterations + 1 : j = h + 1
    <3>1. j - 1 \in 1 .. MaxIterations + 1 /\ j = (j - 1) + 1
      BY <1>1, <1>3
    <3> QED
      BY <3>1
  <2>2. StandardU(b)[j] = HmacOf(Passphrase, StandardU(b)[h])
    BY <2>1, StandardUShape
  <2> QED
    BY <2>2
<1>4. j = 1 \/ j > 1
  BY <1>1
<1> QED
  BY <1>2, <1>3, <1>4

(* The sum over the first value of a chain is that value. *)
LEMMA ChainXorStarts ==
    ASSUME NEW b
    PROVE  HmacOf(Passphrase, Salt(b)) = ChainXor(b, 1)
<1> DEFINE U == StandardU(b)
<1>1. U[1] = HmacOf(Passphrase, Salt(b))
  BY StandardUShape
<1> HIDE DEF U
<1>2. \A i \in 1 .. SHA1_DIGEST_SIZE : UNION {U[j][i] : j \in 1 .. 1} = U[1][i]
  <2> TAKE i \in 1 .. SHA1_DIGEST_SIZE
  <2>1. {U[j][i] : j \in 1 .. 1} = {U[1][i]}
    OBVIOUS
  <2> QED
    BY <2>1
<1>3. U[1] = [i \in 1 .. SHA1_DIGEST_SIZE |-> U[1][i]]
  BY <1>1 DEF HmacOf
<1>4. ChainXor(b, 1) = [i \in 1 .. SHA1_DIGEST_SIZE |-> UNION {U[j][i] : j \in 1 .. 1}]
  BY DEF ChainXor, U
<1> QED
  BY <1>1, <1>2, <1>3, <1>4

(* XOR adds the next of the chain to the sum, and cancels nothing. *)
LEMMA ChainXorFollows ==
    ASSUME NEW b, NEW n \in Nat \ {0}, NEW m \in 1 .. MaxIterations + 1, m = n + 1
    PROVE  XORSeq(ChainXor(b, n), StandardU(b)[m]) = ChainXor(b, m)
<1> DEFINE U == StandardU(b)
           N == MaxIterations + 1
           Xn == ChainXor(b, n)
           Xm == ChainXor(b, m)
<1>1. /\ MaxIterations \in Nat
      /\ \A j \in 1 .. n : j \in 1 .. N /\ j < m
      /\ 1 .. m = 1 .. n \union {m}
  <2>1. MaxIterations \in Nat
    BY StandardUShape
  <2> QED
    BY <2>1
<1>2. PICK x : U[m] = HmacOf(Passphrase, x)
  BY ChainByte
<1>3. ASSUME NEW i \in 1 .. SHA1_DIGEST_SIZE
      PROVE  XOR(Xn[i], U[m][i]) = Xm[i]
  <2> DEFINE atom == <<"hmac", Passphrase, x, i>>
             sum == UNION {U[j][i] : j \in 1 .. n}
  <2>1. U[m][i] = {atom}
    BY <1>2 DEF HmacOf
  <2>2. ASSUME NEW j \in 1 .. n
        PROVE  atom \notin U[j][i]
    <3>1. j \in 1 .. N /\ j < m /\ m \in 1 .. N
      BY <1>1
    <3>2. U[j][i] # U[m][i]
      BY <3>1, ChainDistinct
    <3>3. PICK y : U[j] = HmacOf(Passphrase, y)
      BY <3>1, ChainByte
    <3>4. U[j][i] = {<<"hmac", Passphrase, y, i>>}
      BY <3>3 DEF HmacOf
    <3> QED
      BY <2>1, <3>2, <3>4
  <2> HIDE DEF atom, U
  <2>3. atom \notin sum
    BY <2>2
  <2>4. Xn[i] = sum /\ Xm[i] = UNION {U[j][i] : j \in 1 .. m}
    BY DEF ChainXor, U
  <2>5. UNION {U[j][i] : j \in 1 .. m} = sum \union U[m][i]
    BY <1>1
  <2> HIDE DEF sum, Xn, Xm
  <2>6. XOR(sum, {atom}) = sum \union {atom}
    BY <2>3 DEF XOR, SymDiff
  <2> QED
    BY <2>1, <2>4, <2>5, <2>6
<1>4. DOMAIN Xn = 1 .. SHA1_DIGEST_SIZE /\ Xm = [i \in 1 .. SHA1_DIGEST_SIZE |-> Xm[i]]
  BY DEF ChainXor
<1> HIDE DEF U, Xn, Xm
<1>5. XORSeq(Xn, U[m]) = [i \in 1 .. SHA1_DIGEST_SIZE |-> XOR(Xn[i], U[m][i])]
  BY <1>4 DEF XORSeq
<1>6. XORSeq(Xn, U[m]) = Xm
  BY <1>3, <1>4, <1>5
<1> QED
  BY <1>6 DEF U, Xn, Xm

-----------------------------------------------------------------------------
(* Blocks of a digest follow one another until the length asked for is     *)
(* reached; the last is cut.  full is what the standard says.              *)
Derived(bytes, full, blocks_done, len) ==
    \E o \in 0 .. len : /\ o = Least(Bytes(blocks_done, SHA1_DIGEST_SIZE), len)
                        /\ bytes = [i \in 1 .. o |-> full[i]]

(* Which digest a key's byte falls into, and where in it. *)
LEMMA PlaceInBlock ==
    ASSUME NEW b \in Nat, NEW j \in 1 .. SHA1_DIGEST_SIZE
    PROVE  BlockOf(Bytes(b, SHA1_DIGEST_SIZE) + j) = b + 1 /\ PlaceOf(Bytes(b, SHA1_DIGEST_SIZE) + j) = j
<1>1. PICK t \in 0 .. SHA1_DIGEST_SIZE - 1 : j = t + 1
  BY DigestSize
<1>2. Bytes(b, SHA1_DIGEST_SIZE) \in Nat
  BY DigestSize DEF Bytes
<1>3. PICK a \in Nat : a = Bytes(b, SHA1_DIGEST_SIZE) + t
  BY <1>2, DigestSize
<1>4. Bytes(b, SHA1_DIGEST_SIZE) + j - 1 = a
  BY <1>1, <1>2, <1>3, DigestSize
<1>5. a \div SHA1_DIGEST_SIZE = b /\ a % SHA1_DIGEST_SIZE = t
  BY <1>3, DigestSize, BlocksAndRestUnique
<1>6. PICK e \in Nat : e = Bytes(b, SHA1_DIGEST_SIZE) + j /\ e - 1 = a
  BY <1>2, <1>4
<1>7. BlockOf(e) = b + 1 /\ PlaceOf(e) = t + 1
  BY <1>5, <1>6 DEF BlockOf, PlaceOf
<1> QED
  BY <1>1, <1>6, <1>7

(* Appending the next digest, cut to the length asked for, extends a key    *)
(* derived block by block to the next block.                                *)
LEMMA CutFollows ==
    ASSUME NEW len \in Nat, NEW full, NEW b \in Nat, NEW bytes, Derived(bytes, full, b, len),
           Len(bytes) < len,
           NEW R, NEW r \in [1 .. SHA1_DIGEST_SIZE -> R],
           \A j \in 1 .. SHA1_DIGEST_SIZE :
              Bytes(b, SHA1_DIGEST_SIZE) + j <= len => full[Bytes(b, SHA1_DIGEST_SIZE) + j] = r[j]
    PROVE  Derived(bytes \o Cut(r, Len(bytes), len), full, b + 1, len)
<1>1. PICK size \in Nat \ {0}, base \in Nat :
         size = SHA1_DIGEST_SIZE /\ base = Bytes(b, SHA1_DIGEST_SIZE)
  BY DigestSize DEF Bytes
<1>2. Bytes(b + 1, SHA1_DIGEST_SIZE) = base + size
  BY <1>1 DEF Bytes
<1>3. PICK o \in 0 .. len : o = Least(base, len) /\ bytes = [i \in 1 .. o |-> full[i]]
  BY <1>1 DEF Derived
<1>4. Len(bytes) = o /\ o = base /\ base < len
  <2>1. Len(bytes) = o
    BY <1>3
  <2> QED
    BY <1>3, <2>1 DEF Least
<1>5. PICK more \in 1 .. size : more = Least(len - base, size) /\ base + more \in 0 .. len
  <2>1. PICK gap \in Nat \ {0} : gap = len - base
    BY <1>4
  <2>2. Least(gap, size) \in 1 .. size /\ Least(gap, size) <= gap
    BY DEF Least
  <2> QED
    BY <2>1, <2>2
<1>6. base + more = Least(base + size, len)
  BY <1>4, <1>5 DEF Least
<1> DEFINE A == {full[i] : i \in 1 .. len}
           added == SubSeq(r, 1, more)
<1>7. r \in Seq(R) /\ Len(r) = size
  <2>1. r \in [1 .. size -> R]
    BY <1>1
  <2> QED
    BY <2>1
<1>8. Cut(r, Len(bytes), len) = added
  BY <1>1, <1>4, <1>5 DEF Cut
<1>9. added \in Seq(R) /\ Len(added) = more /\ \A j \in 1 .. more : added[j] = r[j]
  <2>1. PICK from \in Nat : from = 1
    OBVIOUS
  <2>2. from \in 1 .. Len(r) + 1 /\ more \in from - 1 .. Len(r) /\ more - from + 1 = more
    BY <1>7, <2>1
  <2>3. /\ SubSeq(r, from, more) \in Seq(R) /\ Len(SubSeq(r, from, more)) = more - from + 1
        /\ \A j \in 1 .. more - from + 1 : SubSeq(r, from, more)[j] = r[from + j - 1]
    BY <1>7, <2>2, Slice
  <2>4. \A j \in 1 .. more : from + j - 1 = j
    BY <2>1
  <2> QED
    BY <2>1, <2>2, <2>3, <2>4
<1> HIDE DEF added
<1>10. \A j \in 1 .. more : added[j] = full[base + j]
  <2> TAKE j \in 1 .. more
  <2>1. j \in 1 .. size /\ base + j <= len
    BY <1>5
  <2>2. full[base + j] = r[j]
    BY <1>1, <2>1
  <2> QED
    BY <1>9, <2>2
<1> DEFINE want == [i \in 1 .. base + more |-> full[i]]
<1>11. bytes \in Seq(A) /\ Len(bytes) = base /\ \A i \in 1 .. base : bytes[i] = full[i]
  <2>1. bytes \in [1 .. base -> A]
    BY <1>3, <1>4
  <2> QED
    BY <1>3, <1>4, <2>1
<1>12. Len(want) = base + more /\ want \in Seq(A) /\ \A i \in 1 .. base + more : want[i] = full[i]
  <2>1. want \in [1 .. base + more -> A] /\ base + more \in Nat
    BY <1>5
  <2>2. \A i \in 1 .. base + more : want[i] = full[i]
    OBVIOUS
  <2> HIDE DEF want, A
  <2> QED
    BY <2>1, <2>2
<1> HIDE DEF want
<1>13. bytes \o added = want
  <2>1. added \in Seq(A)
    <3>1. \A j \in 1 .. more : added[j] \in A
      BY <1>4, <1>5, <1>10
    <3> QED
      BY <1>9, <3>1
  <2> HIDE DEF A
  <2>2. /\ bytes \o added \in Seq(A) /\ Len(bytes \o added) = base + more
        /\ \A i \in 1 .. base : (bytes \o added)[i] = bytes[i]
        /\ \A j \in 1 .. more : (bytes \o added)[base + j] = added[j]
    <3>1. bytes \in Seq(A) /\ Len(bytes) = base /\ Len(added) = more
      BY <1>9, <1>11
    <3> QED
      BY <2>1, <3>1
  <2>3. ASSUME NEW i \in 1 .. base + more
        PROVE  (bytes \o added)[i] = want[i]
    <3>1. CASE i <= base
      <4>1. i \in 1 .. base
        BY <3>1
      <4> QED
        BY <1>11, <1>12, <2>2, <4>1
    <3>2. CASE i > base
      <4>1. PICK j \in 1 .. more : i = base + j
        <5>1. i - base \in 1 .. more /\ i = base + (i - base)
          BY <3>2
        <5> QED
          BY <5>1
      <4> QED
        BY <1>10, <1>12, <2>2, <4>1
    <3>3. i <= base \/ i > base
      OBVIOUS
    <3> QED
      BY <3>1, <3>2, <3>3
  <2> QED
    BY <1>12, <2>2, <2>3, SeqEqual
<1> QED
  BY <1>2, <1>5, <1>6, <1>8, <1>13 DEF Derived, want

(* The state of the loops: output holds the blocks before this one, result *)
(* the XOR of the chain up to u; then ptk_data the blocks before counter.  *)
Total(n) == IF n = 0 THEN 1 ELSE n

PskInv ==
    /\ iterations \in 0 .. MaxIterations /\ key_len \in Nat
    /\ block \in Nat \ {0} /\ left \in Nat
    /\ Derived(output, StandardPsk(iterations, key_len), block - 1, key_len)
    /\ u = <<>> => left = 0
    /\ u # <<>> =>
          /\ Len(output) < key_len
          /\ \E n \in 1 .. Total(iterations) :
                /\ n + left = Total(iterations)
                /\ u = StandardU(block)[n]
                /\ result = ChainXor(block, n)
    /\ kd_pc = "idle" => output = <<>> /\ block = 1 /\ u = <<>>

PtkInv ==
    /\ {aa, spa, anonce, snonce, counter} \subseteq Nat
    /\ kd_pc \in {"idle", "psk"} => counter = 0 /\ ptk_data = <<>>
    /\ kd_pc \notin {"idle", "psk"} =>
          /\ u = <<>>
          /\ Derived(ptk_data, StandardPtk(output, Data), counter, 3 * KEY_SIZE)
    /\ kd_pc = "done" =>
          /\ Len(ptk_data) = 3 * KEY_SIZE
          /\ keys = [kck |-> SubSeq(ptk_data, 1, KEY_SIZE),
                     kek |-> SubSeq(ptk_data, KEY_SIZE + 1, 2 * KEY_SIZE),
                     tk |-> SubSeq(ptk_data, 2 * KEY_SIZE + 1, 3 * KEY_SIZE)]

KeyInv == PskInv /\ PtkInv

(* Before the first block the key is empty, as far as it is derived. *)
LEMMA NothingDerived ==
    ASSUME NEW full, NEW len \in Nat
    PROVE  Derived(<<>>, full, 0, len)
<1>1. Bytes(0, SHA1_DIGEST_SIZE) = 0
  BY DigestSize DEF Bytes
<1>2. Least(0, len) = 0 /\ 0 \in 0 .. len
  BY DEF Least
<1>3. <<>> = [i \in 1 .. 0 |-> full[i]]
  OBVIOUS
<1> QED
  BY <1>1, <1>2, <1>3 DEF Derived

(* Before any call nothing is derived. *)
LEMMA KeyInvInit == KeyDerivationInit => KeyInv
<1> SUFFICES ASSUME KeyDerivationInit PROVE KeyInv
  OBVIOUS
<1>1. MaxIterations \in Nat
  BY KeySizeAssumption
<1>2. Derived(output, StandardPsk(iterations, key_len), block - 1, key_len)
  <2>1. output = <<>> /\ block - 1 = 0 /\ key_len \in Nat
    BY DEF KeyDerivationInit
  <2> QED
    BY <2>1, NothingDerived
<1>3. PskInv
  BY <1>1, <1>2 DEF PskInv, KeyDerivationInit
<1>4. PtkInv
  BY DEF PtkInv, KeyDerivationInit
<1> QED
  BY <1>3, <1>4 DEF KeyInv

(* A call of pbkdf2_sha1 starts with no block derived. *)
LEMMA Pbkdf2Keeps ==
    ASSUME KeyInv, NEW n \in 0 .. MaxIterations, NEW len \in 0 .. MaxKeyLen, Pbkdf2(n, len)
    PROVE  KeyInv'
<1>1. len \in Nat
  BY KeySizeAssumption
<1>2. /\ kd_pc = "idle" /\ kd_pc' = "psk" /\ iterations' = n /\ key_len' = len
      /\ UNCHANGED <<loopVars, ptkVars>>
  BY DEF Pbkdf2
<1>3. /\ output' = output /\ block' = block /\ u' = u /\ left' = left
      /\ output = <<>> /\ block = 1 /\ u = <<>> /\ left = 0
  BY <1>2 DEF loopVars, KeyInv, PskInv
<1>4. Derived(output', StandardPsk(n, len), block' - 1, len)
  <2>1. output' = <<>> /\ block' - 1 = 0
    BY <1>3
  <2> QED
    BY <1>1, <2>1, NothingDerived
<1>5. PskInv'
  BY <1>1, <1>2, <1>3, <1>4 DEF PskInv
<1>6. PtkInv'
  BY <1>2, <1>3 DEF KeyInv, PtkInv, ptkVars
<1> QED
  BY <1>5, <1>6 DEF KeyInv

(* An HMAC is a digest of its own, never the empty sequence. *)
LEMMA HmacShape ==
    ASSUME NEW k, NEW x
    PROVE  /\ HmacOf(k, x) # <<>>
           /\ \E R : HmacOf(k, x) \in [1 .. SHA1_DIGEST_SIZE -> R]
<1> DEFINE h == HmacOf(k, x)
           R == {h[i] : i \in 1 .. SHA1_DIGEST_SIZE}
<1>1. h \in [1 .. SHA1_DIGEST_SIZE -> R]
  BY DEF HmacOf
<1>2. DOMAIN h = 1 .. SHA1_DIGEST_SIZE
  BY DEF HmacOf
<1>3. 1 \in DOMAIN h
  BY <1>2, DigestSize
<1>4. h # <<>>
  BY <1>3
<1> QED
  BY <1>1, <1>4

(* The first iteration leaves the block's sum at the chain's first value. *)
LEMMA FirstUKeeps ==
    ASSUME KeyInv, FirstU
    PROVE  KeyInv'
<1>1. /\ kd_pc = "psk" /\ kd_pc' = kd_pc /\ u = <<>> /\ Len(output) < key_len
      /\ u' = HmacOf(Passphrase, Salt(block)) /\ result' = u' /\ left' = Iterations(iterations)
      /\ UNCHANGED <<iterations, key_len, block, output>> /\ UNCHANGED ptkVars
  BY DEF FirstU, pskVars
<1>2. /\ iterations \in 0 .. MaxIterations /\ key_len \in Nat /\ block \in Nat \ {0}
      /\ Derived(output, StandardPsk(iterations, key_len), block - 1, key_len)
  BY DEF KeyInv, PskInv
<1>3. u' # <<>>
  BY <1>1, HmacShape
<1>4. /\ 1 \in 1 .. Total(iterations) /\ left' \in Nat
      /\ 1 + left' = Total(iterations)
  <2>1. iterations \in Nat
    BY <1>2
  <2>2. 1 + Iterations(iterations) = Total(iterations) /\ Iterations(iterations) \in Nat
    BY <2>1 DEF Iterations, Total
  <2>3. 1 \in 1 .. Total(iterations)
    BY <2>1 DEF Total
  <2> QED
    BY <1>1, <2>2, <2>3
<1>5. u' = StandardU(block)[1] /\ result' = ChainXor(block, 1)
  BY <1>1, StandardUShape, ChainXorStarts
<1>6. PskInv'
  BY <1>1, <1>2, <1>3, <1>4, <1>5 DEF PskInv
<1>7. PtkInv'
  BY <1>1 DEF KeyInv, PtkInv, ptkVars
<1> QED
  BY <1>6, <1>7 DEF KeyInv

(* Each further iteration adds the chain's next value to the sum. *)
LEMMA NextUKeeps ==
    ASSUME KeyInv, NextU
    PROVE  KeyInv'
<1>1. /\ left > 0 /\ left' = left - 1 /\ kd_pc' = kd_pc
      /\ u' = HmacOf(Passphrase, u) /\ result' = XORSeq(result, u')
      /\ UNCHANGED <<iterations, key_len, block, output>> /\ UNCHANGED ptkVars
  BY DEF NextU, pskVars
<1>2. /\ iterations \in 0 .. MaxIterations /\ key_len \in Nat /\ block \in Nat \ {0}
      /\ left \in Nat /\ u # <<>> /\ Len(output) < key_len /\ kd_pc # "idle"
      /\ Derived(output, StandardPsk(iterations, key_len), block - 1, key_len)
  BY <1>1 DEF KeyInv, PskInv
<1>3. PICK n \in 1 .. Total(iterations) :
         /\ n + left = Total(iterations)
         /\ u = StandardU(block)[n]
         /\ result = ChainXor(block, n)
  BY <1>2 DEF KeyInv, PskInv
<1>4. /\ Total(iterations) \in Nat /\ Total(iterations) <= MaxIterations + 1
      /\ MaxIterations \in Nat
  BY <1>2, KeySizeAssumption DEF Total
<1>5. PICK m \in 1 .. Total(iterations) : m = n + 1
  <2>1. n + 1 \in 1 .. Total(iterations)
    BY <1>1, <1>2, <1>3, <1>4
  <2> QED
    BY <2>1
<1>6. m + left' = Total(iterations) /\ left' \in Nat
  BY <1>1, <1>2, <1>3, <1>4, <1>5
<1>7. n \in 1 .. MaxIterations + 1 /\ m \in 1 .. MaxIterations + 1
  BY <1>3, <1>4, <1>5
<1>8. u' = StandardU(block)[m]
  BY <1>1, <1>3, <1>5, <1>7, StandardUShape
<1>9. result' = ChainXor(block, m)
  <2>1. n \in Nat \ {0}
    BY <1>3
  <2>2. XORSeq(ChainXor(block, n), StandardU(block)[m]) = ChainXor(block, m)
    BY <1>5, <1>7, <2>1, ChainXorFollows
  <2> QED
    BY <1>1, <1>3, <1>8, <2>2
<1>10. u' # <<>>
  BY <1>1, HmacShape
<1>11. PskInv'
  BY <1>1, <1>2, <1>6, <1>8, <1>9, <1>10 DEF PskInv
<1>12. PtkInv'
  BY <1>1, <1>2 DEF KeyInv, PtkInv, ptkVars
<1> QED
  BY <1>11, <1>12 DEF KeyInv

(* A finished block's sum is the standard's block, and the copy appends     *)
(* it, cut at the length asked for.                                         *)
LEMMA BlockEndsKeeps ==
    ASSUME KeyInv, BlockEnds
    PROVE  KeyInv'
<1>1. /\ u # <<>> /\ left = 0 /\ left' = left /\ u' = <<>> /\ block' = block + 1
      /\ output' = output \o Cut(result, Len(output), key_len)
      /\ kd_pc' = kd_pc
      /\ UNCHANGED <<iterations, key_len>> /\ UNCHANGED ptkVars
  BY DEF BlockEnds, pskVars
<1>2. /\ iterations \in 0 .. MaxIterations /\ key_len \in Nat /\ block \in Nat \ {0}
      /\ Len(output) < key_len /\ kd_pc # "idle"
      /\ Derived(output, StandardPsk(iterations, key_len), block - 1, key_len)
  BY <1>1 DEF KeyInv, PskInv
<1>3. result = ChainXor(block, Total(iterations))
  <2>1. PICK n \in 1 .. Total(iterations) : n + left = Total(iterations) /\ result = ChainXor(block, n)
    BY <1>1 DEF KeyInv, PskInv
  <2>2. n = Total(iterations)
    BY <1>1, <2>1
  <2> QED
    BY <2>1, <2>2
<1> DEFINE size == SHA1_DIGEST_SIZE
           full == StandardPsk(iterations, key_len)
           R == {result[i] : i \in 1 .. size}
<1>4. PICK b \in Nat : b = block - 1 /\ block = b + 1
  BY <1>2
<1>5. \A j \in 1 .. size : Bytes(b, size) + j <= key_len => full[Bytes(b, size) + j] = result[j]
  <2> SUFFICES ASSUME NEW j \in 1 .. size, Bytes(b, size) + j <= key_len
               PROVE  full[Bytes(b, size) + j] = result[j]
    OBVIOUS
  <2>1. PICK i \in 1 .. key_len : i = Bytes(b, size) + j
    <3>1. Bytes(b, size) \in Nat
      BY DigestSize DEF Bytes
    <3>2. Bytes(b, size) + j \in 1 .. key_len
      BY <1>2, <3>1, DigestSize
    <3> QED
      BY <3>2
  <2>2. BlockOf(i) = block /\ PlaceOf(i) = j
    BY <1>4, <2>1, PlaceInBlock
  <2>3. full[i] = UNION {StandardU(BlockOf(i))[t][PlaceOf(i)] : t \in 1 .. Total(iterations)}
    BY DEF StandardPsk, Total
  <2>4. result[j] = UNION {StandardU(block)[t][j] : t \in 1 .. Total(iterations)}
    BY <1>3 DEF ChainXor
  <2> QED
    BY <2>1, <2>2, <2>3, <2>4
<1>6. result \in [1 .. size -> R]
  BY <1>3 DEF ChainXor
<1> HIDE DEF full, R
<1>7. Derived(output', full, b + 1, key_len)
  <2>1. Derived(output, full, b, key_len)
    BY <1>2, <1>4 DEF full
  <2>2. Derived(output \o Cut(result, Len(output), key_len), full, b + 1, key_len)
    BY <1>2, <1>5, <1>6, <2>1, CutFollows
  <2> QED
    BY <1>1, <2>2
<1>8. Derived(output', StandardPsk(iterations', key_len'), block' - 1, key_len')
  <2>1. block' - 1 = b + 1
    BY <1>1, <1>4
  <2> QED
    BY <1>1, <1>7, <2>1 DEF full
<1>9. PskInv'
  BY <1>1, <1>2, <1>8 DEF PskInv
<1>10. PtkInv'
  BY <1>1, <1>2 DEF KeyInv, PtkInv, ptkVars
<1> QED
  BY <1>9, <1>10 DEF KeyInv

(* derive_ptk starts the PRF with the addresses and nonces ordered as the   *)
(* standard orders them.                                                    *)
LEMMA DerivePtkKeeps ==
    ASSUME KeyInv, NEW a \in Addresses, NEW s \in Addresses,
           NEW an \in NonceValues, NEW sn \in NonceValues, DerivePtk(a, s, an, sn)
    PROVE  KeyInv'
<1>1. /\ kd_pc = "psk" /\ Len(output) = key_len /\ kd_pc' = "ptk"
      /\ aa' = a /\ spa' = s /\ anonce' = an /\ snonce' = sn
      /\ counter' = 0 /\ ptk_data' = ptk_data
      /\ UNCHANGED <<iterations, key_len, block, left, u, result, output>>
  BY DEF DerivePtk, PrfStart, pskVars, loopVars
<1>2. u = <<>>
  BY <1>1 DEF KeyInv, PskInv
<1>3. ptk_data = <<>>
  BY <1>1 DEF KeyInv, PtkInv
<1>4. 3 * KEY_SIZE \in Nat /\ Addresses \subseteq Nat /\ NonceValues \subseteq Nat
  BY KeySizeAssumption
<1>5. Derived(ptk_data', StandardPtk(output', Data'), counter', 3 * KEY_SIZE)
  BY <1>1, <1>3, <1>4, NothingDerived
<1>6. PskInv'
  BY <1>1 DEF KeyInv, PskInv
<1>7. PtkInv'
  BY <1>1, <1>2, <1>4, <1>5 DEF PtkInv
<1> QED
  BY <1>6, <1>7 DEF KeyInv

(* The code's input of a digest is the standard's. *)
LEMMA InputIsStandard ==
    ASSUME NEW c \in Nat
    PROVE  PrfInput(Data, c) = StandardInput(Data, c)
<1>1. PICK a1, a2, n1, n2 : Data = <<a1, a2, n1, n2>>
  BY DEF Data
<1>2. PICK l, s, x : l = Byte("label", 0) /\ s = Byte("separator", 0) /\ x = Byte("counter", c)
  OBVIOUS
<1>3. PrfInput(Data, c) = <<l, s>> \o <<a1, a2, n1, n2>> \o <<x>>
  BY <1>1, <1>2 DEF PrfInput
<1>4. StandardInput(Data, c) = <<l, s, a1, a2, n1, n2, x>>
  BY <1>1, <1>2 DEF StandardInput
<1> DEFINE S == {l, s, a1, a2, n1, n2, x}
           front == <<l, s>> \o <<a1, a2, n1, n2>>
<1>5. /\ front \in Seq(S) /\ Len(front) = 6
      /\ front[1] = l /\ front[2] = s /\ front[3] = a1
      /\ front[4] = a2 /\ front[5] = n1 /\ front[6] = n2
  <2>1. <<l, s>> \in Seq(S) /\ <<a1, a2, n1, n2>> \in Seq(S)
    OBVIOUS
  <2> HIDE DEF S
  <2> QED
    BY <2>1, Behind
<1>6. /\ front \o <<x>> \in Seq(S) /\ Len(front \o <<x>>) = 7
      /\ \A i \in 1 .. 6 : (front \o <<x>>)[i] = front[i]
      /\ (front \o <<x>>)[7] = x
  <2>1. <<x>> \in Seq(S) /\ Len(<<x>>) = 1 /\ <<x>>[1] = x
    OBVIOUS
  <2> HIDE DEF S, front
  <2> DEFINE last == <<x>>
  <2> HIDE DEF last
  <2>2. last \in Seq(S) /\ Len(last) = 1 /\ last[1] = x
    BY <2>1 DEF last
  <2>3. /\ front \o last \in Seq(S) /\ Len(front \o last) = 7
        /\ \A i \in 1 .. 6 : (front \o last)[i] = front[i]
        /\ (front \o last)[6 + 1] = x
    <3>0. front \in Seq(S) /\ last \in Seq(S)
      BY <1>5, <2>2
    <3>1. /\ front \o last \in Seq(S) /\ Len(front \o last) = Len(front) + Len(last)
          /\ \A i \in 1 .. Len(front) : (front \o last)[i] = front[i]
          /\ \A i \in 1 .. Len(last) : (front \o last)[Len(front) + i] = last[i]
      BY <3>0, Behind
    <3>2. 1 \in 1 .. Len(last) /\ Len(front) = 6
      BY <1>5, <2>2
    <3> QED
      BY <2>2, <3>1, <3>2
  <2> QED
    BY <2>3 DEF last
<1>7. front \o <<x>> = <<l, s, a1, a2, n1, n2, x>>
  <2> DEFINE all == <<l, s, a1, a2, n1, n2, x>>
  <2>1. /\ all \in Seq(S) /\ Len(all) = 7
        /\ all[1] = l /\ all[2] = s /\ all[3] = a1 /\ all[4] = a2
        /\ all[5] = n1 /\ all[6] = n2 /\ all[7] = x
    OBVIOUS
  <2> HIDE DEF front, S, all
  <2>2. \A i \in 1 .. 7 : (front \o <<x>>)[i] = all[i]
    <3>1. \A i \in 1 .. 7 : i \in {1, 2, 3, 4, 5, 6, 7}
      OBVIOUS
    <3> QED
      BY <1>5, <1>6, <2>1, <3>1
  <2>3. front \o <<x>> = all
    BY <1>6, <2>1, <2>2, SeqEqual
  <2> QED
    BY <2>3 DEF all
<1> QED
  BY <1>3, <1>4, <1>7

(* Each round of the PRF appends the standard's next digest. *)
LEMMA PrfBlockKeeps ==
    ASSUME KeyInv, PrfBlock
    PROVE  KeyInv'
<1> DEFINE h == HmacOf(output, PrfInput(Data, counter))
           size == SHA1_DIGEST_SIZE
           full == StandardPtk(output, Data)
           len == 3 * KEY_SIZE
<1>1. /\ kd_pc = "ptk" /\ kd_pc' = kd_pc /\ Len(ptk_data) < len
      /\ ptk_data' = ptk_data \o Cut(h, Len(ptk_data), len)
      /\ counter' = counter + 1
      /\ UNCHANGED <<iterations, key_len, block, left, u, result, output>>
      /\ UNCHANGED <<aa, spa, anonce, snonce, keys>>
  BY DEF PrfBlock, pskVars, loopVars
<1>2. /\ counter \in Nat /\ u = <<>> /\ Derived(ptk_data, full, counter, len)
      /\ {aa, spa, anonce, snonce} \subseteq Nat
  BY <1>1 DEF KeyInv, PtkInv
<1>3. len \in Nat
  BY KeySizeAssumption
<1>4. ASSUME NEW j \in 1 .. size, Bytes(counter, size) + j <= len
      PROVE  full[Bytes(counter, size) + j] = h[j]
  <2>1. PICK i \in 1 .. len : i = Bytes(counter, size) + j
    <3>1. Bytes(counter, size) \in Nat
      BY <1>2, DigestSize DEF Bytes
    <3> HIDE DEF len
    <3>2. Bytes(counter, size) + j \in 1 .. len
      BY <1>3, <1>4, <3>1, DigestSize
    <3> QED
      BY <3>2
  <2>2. BlockOf(i) = counter + 1 /\ PlaceOf(i) = j
    BY <1>2, <2>1, PlaceInBlock
  <2>3. BlockOf(i) - 1 = counter
    BY <1>2, <2>2
  <2>4. full[i] = HmacOf(output, StandardInput(Data, BlockOf(i) - 1))[PlaceOf(i)]
    BY DEF StandardPtk
  <2>5. StandardInput(Data, counter) = PrfInput(Data, counter)
    BY <1>2, InputIsStandard
  <2> QED
    BY <2>1, <2>2, <2>3, <2>4, <2>5
<1>5. PICK R : h \in [1 .. size -> R]
  BY HmacShape
<1> HIDE DEF h, full, len
<1>6. Derived(ptk_data', full, counter', len)
  BY <1>1, <1>2, <1>3, <1>4, <1>5, CutFollows
<1>7. Data' = Data
  BY <1>1 DEF Data
<1>8. Derived(ptk_data', StandardPtk(output', Data'), counter', 3 * KEY_SIZE)
  BY <1>1, <1>6, <1>7 DEF full, len
<1>9. PskInv'
  BY <1>1 DEF KeyInv, PskInv
<1>10. PtkInv'
  BY <1>1, <1>2, <1>8 DEF PtkInv
<1> QED
  BY <1>9, <1>10 DEF KeyInv

(* The last round leaves the key complete, and its parts where the          *)
(* standard cuts it.                                                        *)
LEMMA PtkDerivedKeeps ==
    ASSUME KeyInv, PtkDerived
    PROVE  KeyInv'
<1>1. /\ kd_pc = "ptk" /\ Len(ptk_data) = 3 * KEY_SIZE /\ kd_pc' = "done"
      /\ keys' = [kck |-> SubSeq(ptk_data, 1, KEY_SIZE),
                  kek |-> SubSeq(ptk_data, KEY_SIZE + 1, 2 * KEY_SIZE),
                  tk |-> SubSeq(ptk_data, 2 * KEY_SIZE + 1, 3 * KEY_SIZE)]
      /\ UNCHANGED <<iterations, key_len, block, left, u, result, output>>
      /\ UNCHANGED <<aa, spa, anonce, snonce, counter, ptk_data>>
  BY DEF PtkDerived, pskVars, loopVars
<1>2. Data' = Data
  BY <1>1 DEF Data
<1>3. PskInv'
  BY <1>1 DEF KeyInv, PskInv
<1>4. PtkInv'
  BY <1>1, <1>2 DEF KeyInv, PtkInv
<1> QED
  BY <1>3, <1>4 DEF KeyInv

(* Every step of a derivation keeps what is derived so far a prefix of the  *)
(* standard's key.                                                          *)
LEMMA KeyInvStep ==
    ASSUME KeyInv, [KeyDerivationNext]_derivationVars
    PROVE  KeyInv'
<1>1. CASE UNCHANGED derivationVars
  BY <1>1 DEF KeyInv, PskInv, PtkInv, Data, derivationVars
<1>2. CASE \E n \in 0 .. MaxIterations, len \in 0 .. MaxKeyLen : Pbkdf2(n, len)
  BY <1>2, Pbkdf2Keeps
<1>3. CASE FirstU
  BY <1>3, FirstUKeeps
<1>4. CASE NextU
  BY <1>4, NextUKeeps
<1>5. CASE BlockEnds
  BY <1>5, BlockEndsKeeps
<1>6. CASE \E a, s \in Addresses, an, sn \in NonceValues : DerivePtk(a, s, an, sn)
  BY <1>6, DerivePtkKeeps
<1>7. CASE PrfBlock
  BY <1>7, PrfBlockKeeps
<1>8. CASE PtkDerived
  BY <1>8, PtkDerivedKeeps
<1> QED
  BY <1>1, <1>2, <1>3, <1>4, <1>5, <1>6, <1>7, <1>8 DEF KeyDerivationNext

(* The output of pbkdf2_sha1 is at every moment the start of the           *)
(* standard's, for every number of iterations, every length and every size *)
(* of digest (pbkdf2_sha1, wpa.rs).                                        *)
THEOREM PskIsStandard == KeyDerivationSpec => []PskAsStandard
<1>1. KeyInv => PskAsStandard
  <2> SUFFICES ASSUME KeyInv PROVE PskAsStandard
    OBVIOUS
  <2> DEFINE full == StandardPsk(iterations, key_len)
  <2>1. PICK o \in 0 .. key_len : output = [i \in 1 .. o |-> full[i]]
    BY DEF KeyInv, PskInv, Derived
  <2>2. key_len \in Nat
    BY DEF KeyInv, PskInv
  <2> HIDE DEF full
  <2>3. Len(output) = o /\ o <= key_len
    BY <2>1, <2>2
  <2>4. SubSeq(full, 1, o) = [i \in 1 .. o |-> full[i]]
    <3>1. \A i \in 1 .. o : 1 + i - 1 = i
      OBVIOUS
    <3> QED
      BY <3>1
  <2> QED
    BY <2>1, <2>3, <2>4 DEF PskAsStandard, full
<1> QED
  BY <1>1, KeyInvInit, KeyInvStep, PTL DEF KeyDerivationSpec

(* The order of derive_ptk is the standard's, from either end. *)
LEMMA InOrderIsStandard ==
    ASSUME NEW x \in Nat, NEW y \in Nat
    PROVE  /\ InOrder(x, y) = InOrder(y, x)
           /\ InOrder(x, y)[1] = CHOOSE z \in {x, y} : z <= x /\ z <= y
           /\ InOrder(x, y)[2] = CHOOSE z \in {x, y} : z >= x /\ z >= y
<1> DEFINE low == CHOOSE z \in {x, y} : z <= x /\ z <= y
           high == CHOOSE z \in {x, y} : z >= x /\ z >= y
<1>1. \E z \in {x, y} : z <= x /\ z <= y
  OBVIOUS
<1>2. \E z \in {x, y} : z >= x /\ z >= y
  OBVIOUS
<1>3. low \in {x, y} /\ low <= x /\ low <= y
  BY <1>1
<1>4. high \in {x, y} /\ high >= x /\ high >= y
  BY <1>2
<1> HIDE DEF low, high
<1>5. CASE x < y
  <2>1. InOrder(x, y) = <<x, y>> /\ InOrder(y, x) = <<x, y>>
    BY <1>5 DEF InOrder
  <2>2. low = x /\ high = y
    BY <1>3, <1>4, <1>5
  <2> QED
    BY <2>1, <2>2 DEF low, high
<1>6. CASE y < x
  <2>1. InOrder(x, y) = <<y, x>> /\ InOrder(y, x) = <<y, x>>
    BY <1>6 DEF InOrder
  <2>2. low = y /\ high = x
    BY <1>3, <1>4, <1>6
  <2> QED
    BY <2>1, <2>2 DEF low, high
<1>7. CASE x = y
  <2>1. InOrder(x, y) = <<x, x>> /\ InOrder(y, x) = <<x, x>>
    BY <1>7 DEF InOrder
  <2>2. low = x /\ high = x
    BY <1>3, <1>4, <1>7
  <2> QED
    BY <2>1, <2>2 DEF low, high
<1> QED
  BY <1>5, <1>6, <1>7

(* The PRF's data is the standard's from either side: both ends of the      *)
(* link order the addresses and the nonces alike.                           *)
LEMMA DataIsStandard ==
    ASSUME {aa, spa, anonce, snonce} \subseteq Nat
    PROVE  /\ StandardData(aa, spa, anonce, snonce) = Data
           /\ StandardData(spa, aa, snonce, anonce) = Data
<1>1. aa \in Nat /\ spa \in Nat /\ anonce \in Nat /\ snonce \in Nat
  OBVIOUS
<1> DEFINE built(p, q) == <<Byte("address", p[1]), Byte("address", p[2]),
                            Byte("nonce", q[1]), Byte("nonce", q[2])>>
<1>2. ASSUME NEW a \in Nat, NEW s \in Nat, NEW an \in Nat, NEW sn \in Nat
      PROVE  StandardData(a, s, an, sn) = built(InOrder(a, s), InOrder(an, sn))
  BY InOrderIsStandard, Zenon DEF StandardData
<1>3. Data = built(InOrder(aa, spa), InOrder(anonce, snonce))
  BY DEF Data
<1>4. InOrder(spa, aa) = InOrder(aa, spa) /\ InOrder(snonce, anonce) = InOrder(anonce, snonce)
  BY <1>1, InOrderIsStandard
<1> HIDE DEF built
<1>5. StandardData(aa, spa, anonce, snonce) = built(InOrder(aa, spa), InOrder(anonce, snonce))
  BY <1>1, <1>2
<1>6. StandardData(spa, aa, snonce, anonce) = built(InOrder(spa, aa), InOrder(snonce, anonce))
  BY <1>1, <1>2
<1> QED
  BY <1>3, <1>4, <1>5, <1>6

(* The three keys are all the bytes of the standard's PRF, in order, over  *)
(* data that both ends build alike (derive_ptk, prf, wpa.rs).              *)
THEOREM KeysAreStandard == KeyDerivationSpec => []KeysAsStandard
<1>1. KeyInv => KeysAsStandard
  <2> SUFFICES ASSUME KeyInv, kd_pc = "done"
               PROVE  /\ keys.kck \o keys.kek \o keys.tk =
                            StandardPtk(output, StandardData(aa, spa, anonce, snonce))
                      /\ StandardData(aa, spa, anonce, snonce) = Data
                      /\ StandardData(spa, aa, snonce, anonce) = Data
    <3>1. ASSUME NEW end \in {<<aa, spa, anonce, snonce>>, <<spa, aa, snonce, anonce>>},
                 StandardData(aa, spa, anonce, snonce) = Data,
                 StandardData(spa, aa, snonce, anonce) = Data
          PROVE  StandardData(end[1], end[2], end[3], end[4]) = Data
      <4>1. \/ end[1] = aa /\ end[2] = spa /\ end[3] = anonce /\ end[4] = snonce
            \/ end[1] = spa /\ end[2] = aa /\ end[3] = snonce /\ end[4] = anonce
        OBVIOUS
      <4> QED
        BY <3>1, <4>1
    <3> QED
      BY <3>1 DEF KeysAsStandard
  <2>1. StandardData(aa, spa, anonce, snonce) = Data /\ StandardData(spa, aa, snonce, anonce) = Data
    BY DataIsStandard DEF KeyInv, PtkInv
  <2> DEFINE full == StandardPtk(output, Data)
             len == 3 * KEY_SIZE
             A == {full[i] : i \in 1 .. len}
  <2>2. /\ Len(ptk_data) = len
        /\ \E o \in 0 .. len : ptk_data = [i \in 1 .. o |-> full[i]]
        /\ keys = [kck |-> SubSeq(ptk_data, 1, KEY_SIZE),
                   kek |-> SubSeq(ptk_data, KEY_SIZE + 1, 2 * KEY_SIZE),
                   tk |-> SubSeq(ptk_data, 2 * KEY_SIZE + 1, 3 * KEY_SIZE)]
    BY DEF KeyInv, PtkInv, Derived
  <2>3. PICK k \in Nat, k2 \in Nat, k3 \in Nat :
           k = KEY_SIZE /\ k2 = 2 * KEY_SIZE /\ k3 = 3 * KEY_SIZE /\ k2 = k + k /\ k3 = k2 + k
    BY KeySizeAssumption
  <2>4. full = [i \in 1 .. len |-> full[i]]
    BY DEF StandardPtk
  <2>5. ptk_data = [i \in 1 .. k3 |-> full[i]]
    <3>1. PICK o \in 0 .. len : ptk_data = [i \in 1 .. o |-> full[i]]
      BY <2>2
    <3> HIDE DEF full
    <3>2. o \in Nat
      BY <2>3
    <3>3. Len(ptk_data) = o
      BY <3>1, <3>2
    <3> QED
      BY <2>2, <2>3, <3>1, <3>3
  <2>6. ptk_data = full
    BY <2>3, <2>4, <2>5
  <2>7. ptk_data \in Seq(A) /\ Len(ptk_data) = k3
    <3>1. ptk_data \in [1 .. k3 -> A]
      BY <2>3, <2>5
    <3> HIDE DEF A, full
    <3> QED
      BY <3>1
  <2> DEFINE x == SubSeq(ptk_data, 1, k)
             y == SubSeq(ptk_data, k + 1, k2)
             z == SubSeq(ptk_data, k2 + 1, k3)
  <2> HIDE DEF full, len, A
  <2>8. x \in Seq(A) /\ Len(x) = k /\ \A i \in 1 .. k : x[i] = ptk_data[i]
    BY <2>3, <2>7
  <2>9. y \in Seq(A) /\ Len(y) = k /\ \A i \in 1 .. k : y[i] = ptk_data[k + i]
    <3>1. k + k <= Len(ptk_data)
      BY <2>3, <2>7
    <3>2. /\ SubSeq(ptk_data, k + 1, k + k) \in Seq(A)
          /\ Len(SubSeq(ptk_data, k + 1, k + k)) = k
          /\ \A i \in 1 .. k : SubSeq(ptk_data, k + 1, k + k)[i] = ptk_data[k + i]
      BY <2>7, <3>1, SliceAt
    <3> QED
      BY <2>3, <3>2
  <2>10. z \in Seq(A) /\ Len(z) = k /\ \A i \in 1 .. k : z[i] = ptk_data[k2 + i]
    <3>1. k2 + k <= Len(ptk_data)
      BY <2>3, <2>7
    <3>2. /\ SubSeq(ptk_data, k2 + 1, k2 + k) \in Seq(A)
          /\ Len(SubSeq(ptk_data, k2 + 1, k2 + k)) = k
          /\ \A i \in 1 .. k : SubSeq(ptk_data, k2 + 1, k2 + k)[i] = ptk_data[k2 + i]
      BY <2>7, <3>1, SliceAt
    <3> QED
      BY <2>3, <3>2
  <2> HIDE DEF x, y, z
  <2>11. x \o y \o z = ptk_data
    <3>1. x \o y \in Seq(A) /\ Len(x \o y) = k2
      BY <2>3, <2>8, <2>9
    <3>2. x \o y \o z \in Seq(A) /\ Len(x \o y \o z) = k3
      BY <2>3, <2>10, <3>1
    <3>3. /\ \A i \in 1 .. k : (x \o y)[i] = x[i]
          /\ \A i \in 1 .. k : (x \o y)[k + i] = y[i]
          /\ \A i \in 1 .. k2 : (x \o y \o z)[i] = (x \o y)[i]
          /\ \A i \in 1 .. k : (x \o y \o z)[k2 + i] = z[i]
      <4>1. /\ \A i \in 1 .. k : (x \o y)[i] = x[i]
            /\ \A i \in 1 .. k : (x \o y)[k + i] = y[i]
        BY <2>8, <2>9
      <4> DEFINE xy == x \o y
      <4> HIDE DEF xy
      <4>2. xy \in Seq(A) /\ Len(xy) = k2
        BY <3>1 DEF xy
      <4>3. /\ \A i \in 1 .. k2 : (xy \o z)[i] = xy[i]
            /\ \A i \in 1 .. k : (xy \o z)[k2 + i] = z[i]
        BY <2>10, <4>2
      <4> QED
        BY <4>1, <4>3 DEF xy
    <3>4. ASSUME NEW i \in 1 .. k3
          PROVE  (x \o y \o z)[i] = ptk_data[i]
      <4>1. CASE i <= k
        BY <2>3, <2>8, <3>3, <4>1
      <4>2. CASE k < i /\ i <= k2
        <5>1. PICK j \in 1 .. k : i = k + j
          <6>1. i - k \in 1 .. k /\ i = k + (i - k)
            BY <2>3, <4>2
          <6> QED
            BY <6>1
        <5>2. i \in 1 .. k2
          BY <4>2
        <5> QED
          BY <2>9, <3>3, <5>1, <5>2
      <4>3. CASE k2 < i
        <5>1. PICK j \in 1 .. k : i = k2 + j
          <6>1. i - k2 \in 1 .. k /\ i = k2 + (i - k2)
            BY <2>3, <4>3
          <6> QED
            BY <6>1
        <5> QED
          BY <2>10, <3>3, <5>1
      <4>4. i <= k \/ (k < i /\ i <= k2) \/ k2 < i
        OBVIOUS
      <4> QED
        BY <4>1, <4>2, <4>3, <4>4
    <3> QED
      BY <2>7, <3>2, <3>4, SeqEqual
  <2>12. keys.kck = x /\ keys.kek = y /\ keys.tk = z
    BY <2>2, <2>3 DEF x, y, z
  <2>13. keys.kck \o keys.kek \o keys.tk = full
    BY <2>6, <2>11, <2>12
  <2> QED
    BY <2>1, <2>13 DEF full
<1> QED
  BY <1>1, KeyInvInit, KeyInvStep, PTL DEF KeyDerivationSpec

-----------------------------------------------------------------------------

(* The sizes of CCM: a block, a tag within it, and the counter's range. *)
LEMMA CcmSizes ==
    /\ AES_BLOCK_SIZE \in Nat \ {0}
    /\ MIC_SIZE \in 1 .. AES_BLOCK_SIZE /\ MIC_SIZE \in Nat
    /\ CTR_MOD \in Nat \ {0}
<1>1. AES_BLOCK_SIZE \in Nat \ {0} /\ MIC_SIZE \in 1 .. AES_BLOCK_SIZE /\ MIC_SIZE \in Nat
  BY CcmSizeAssumption
<1>2. CTR_MOD # 0
  <2> SUFFICES ASSUME CTR_MOD = 0 PROVE FALSE
    OBVIOUS
  <2>1. AES_BLOCK_SIZE * (CTR_MOD - 1) = -AES_BLOCK_SIZE
    BY <1>1
  <2> QED
    BY <1>1, <2>1, CcmSizeAssumption
<1> QED
  BY <1>1, <1>2, CcmSizeAssumption

(* The recursion of Tags has a solution. *)
IsRun(f, tag, blks, n) ==
    f = [k \in 0 .. n |-> IF k = 0 THEN tag ELSE EncryptBlock(XORSeq(f[k - 1], blks[k]))]

(* The tags of a chain of blocks exist, whatever its length: by induction   *)
(* on it.                                                                   *)
LEMMA TagsExist ==
    ASSUME NEW tag, NEW blks, NEW n \in Nat
    PROVE  \E f : IsRun(f, tag, blks, n)
<1> DEFINE S == {m \in Nat : \E f : IsRun(f, tag, blks, m)}
<1>1. 0 \in S
  <2>1. IsRun([k \in 0 .. 0 |-> tag], tag, blks, 0)
    BY DEF IsRun
  <2> QED
    BY <2>1
<1>2. ASSUME NEW m \in Nat, m \in S
      PROVE  m + 1 \in S
  <2>1. PICK f : IsRun(f, tag, blks, m)
    BY <1>2
  <2> DEFINE longer == [k \in 0 .. m + 1 |->
                           IF k \in 0 .. m THEN f[k] ELSE EncryptBlock(XORSeq(f[k - 1], blks[k]))]
  <2>2. ASSUME NEW k \in 0 .. m + 1
        PROVE  longer[k] = IF k = 0 THEN tag ELSE EncryptBlock(XORSeq(longer[k - 1], blks[k]))
    <3>1. CASE k = 0
      BY <2>1, <3>1 DEF IsRun
    <3>2. CASE k > 0
      <4>1. k - 1 \in 0 .. m /\ k - 1 \in 0 .. m + 1
        BY <3>2
      <4>2. longer[k - 1] = f[k - 1]
        BY <4>1
      <4>3. longer[k] = EncryptBlock(XORSeq(f[k - 1], blks[k]))
        BY <2>1, <3>2 DEF IsRun
      <4> QED
        BY <3>2, <4>2, <4>3
    <3>3. k = 0 \/ k > 0
      OBVIOUS
    <3> QED
      BY <3>1, <3>2, <3>3
  <2>3. longer = [k \in 0 .. m + 1 |-> longer[k]]
    OBVIOUS
  <2> HIDE DEF longer
  <2>4. IsRun(longer, tag, blks, m + 1)
    BY <2>2, <2>3 DEF IsRun
  <2> QED
    BY <2>4
<1> HIDE DEF S
<1>3. Nat \subseteq S
  BY <1>1, <1>2, NatByInduction
<1> QED
  BY <1>3 DEF S

(* The tag before the first block, and the tag after each. *)
LEMMA TagsShape ==
    ASSUME NEW tag, NEW blks, Len(blks) \in Nat
    PROVE  /\ Tags(tag, blks)[0] = tag
           /\ \A j, k \in 0 .. Len(blks) :
                 k = j + 1 => Tags(tag, blks)[k] = EncryptBlock(XORSeq(Tags(tag, blks)[j], blks[k]))
<1> DEFINE n == Len(blks)
           T == Tags(tag, blks)
<1>1. T = CHOOSE f : IsRun(f, tag, blks, n)
  BY DEF Tags, IsRun
<1>2. T = [k \in 0 .. n |-> IF k = 0 THEN tag ELSE EncryptBlock(XORSeq(T[k - 1], blks[k]))]
  <2>1. \E f : IsRun(f, tag, blks, n)
    <3>1. n \in Nat
      OBVIOUS
    <3> HIDE DEF n
    <3> QED
      BY <3>1, TagsExist, Zenon
  <2>2. IsRun(T, tag, blks, n)
    <3> HIDE DEF n, T
    <3> QED
      BY <1>1, <2>1
  <2> QED
    BY <2>2 DEF IsRun
<1> HIDE DEF T
<1>3. T[0] = tag
  BY <1>2
<1>4. ASSUME NEW j \in 0 .. n, NEW k \in 0 .. n, k = j + 1
      PROVE  T[k] = EncryptBlock(XORSeq(T[j], blks[k]))
  <2>1. k # 0 /\ k - 1 = j
    BY <1>4
  <2> QED
    BY <1>2, <2>1
<1> QED
  BY <1>3, <1>4 DEF T, n

(* A tag is the first block encrypted or a chained one.  Its bytes are     *)
(* atoms of the MAC; bytes without such atoms are plain.                   *)
MacAtom(x) == x[1] = "chain" \/ (x[1] = "header" /\ x[2] = "b0")
Plain(byte) == \A x \in byte : ~ MacAtom(x)
IsStart(tag) == \E n, word : tag = EncryptHeader("b0", n, word)
IsChained(tag) == \E block_in : tag = EncryptBlock(block_in)
IsTag(tag) == IsStart(tag) \/ IsChained(tag)

(* The atom of a byte of a tag names its place and all that went into it. *)
LEMMA TagBytes ==
    ASSUME NEW tag, IsTag(tag), NEW i \in 1 .. AES_BLOCK_SIZE
    PROVE  /\ DOMAIN tag = 1 .. AES_BLOCK_SIZE
           /\ \E x : tag[i] = {x} /\ MacAtom(x)
<1>1. CASE IsStart(tag)
  <2>1. PICK n, word : tag = EncryptHeader("b0", n, word)
    BY <1>1 DEF IsStart
  <2>2. tag[i] = {<<"header", "b0", n, word, i>>} /\ DOMAIN tag = 1 .. AES_BLOCK_SIZE
    BY <2>1 DEF EncryptHeader
  <2>3. MacAtom(<<"header", "b0", n, word, i>>)
    BY DEF MacAtom
  <2> QED
    BY <2>2, <2>3
<1>2. CASE IsChained(tag)
  <2>1. PICK b : tag = EncryptBlock(b)
    BY <1>2 DEF IsChained
  <2>2. tag[i] = {<<"chain", b, i>>} /\ DOMAIN tag = 1 .. AES_BLOCK_SIZE
    BY <2>1 DEF EncryptBlock
  <2>3. MacAtom(<<"chain", b, i>>)
    BY DEF MacAtom
  <2> QED
    BY <2>2, <2>3
<1> QED
  BY <1>1, <1>2 DEF IsTag

(* Two blocks whose encryptions share a byte at one place are the same      *)
(* block: the cipher is ideal.                                              *)
LEMMA EncryptInjective ==
    ASSUME NEW a, NEW b, NEW i \in 1 .. AES_BLOCK_SIZE, EncryptBlock(a)[i] = EncryptBlock(b)[i]
    PROVE  a = b
<1>1. {<<"chain", a, i>>} = {<<"chain", b, i>>}
  BY DEF EncryptBlock
<1>2. <<"chain", a, i>> = <<"chain", b, i>>
  BY <1>1
<1>3. <<"chain", a, i>>[2] = a /\ <<"chain", b, i>>[2] = b
  OBVIOUS
<1> QED
  BY <1>2, <1>3

(* So are two formatted first blocks and counters: kind, nonce and value. *)
LEMMA HeaderInjective ==
    ASSUME NEW f, NEW g, NEW n, NEW m, NEW v, NEW w, NEW i \in 1 .. AES_BLOCK_SIZE,
           EncryptHeader(f, n, v)[i] = EncryptHeader(g, m, w)[i]
    PROVE  f = g /\ n = m /\ v = w
<1>1. {<<"header", f, n, v, i>>} = {<<"header", g, m, w, i>>}
  BY DEF EncryptHeader
<1>2. <<"header", f, n, v, i>> = <<"header", g, m, w, i>>
  BY <1>1
<1>3. /\ <<"header", f, n, v, i>>[2] = f /\ <<"header", g, m, w, i>>[2] = g
      /\ <<"header", f, n, v, i>>[3] = n /\ <<"header", g, m, w, i>>[3] = m
      /\ <<"header", f, n, v, i>>[4] = v /\ <<"header", g, m, w, i>>[4] = w
  OBVIOUS
<1> QED
  BY <1>2, <1>3

(* A formatted block's encryption is none of a chained one. *)
LEMMA StartIsNotChained ==
    ASSUME NEW f, NEW n, NEW w, NEW b, NEW i \in 1 .. AES_BLOCK_SIZE
    PROVE  EncryptHeader(f, n, w)[i] # EncryptBlock(b)[i]
<1> SUFFICES ASSUME EncryptHeader(f, n, w)[i] = EncryptBlock(b)[i] PROVE FALSE
  OBVIOUS
<1>1. {<<"header", f, n, w, i>>} = {<<"chain", b, i>>}
  BY DEF EncryptHeader, EncryptBlock
<1>2. <<"header", f, n, w, i>> = <<"chain", b, i>>
  BY <1>1
<1>3. <<"header", f, n, w, i>>[1] = "header" /\ <<"chain", b, i>>[1] = "chain"
  OBVIOUS
<1> QED
  BY <1>2, <1>3

(* One byte of a tag gives the whole of it. *)
LEMMA TagByByte ==
    ASSUME NEW s, NEW t, IsTag(s), IsTag(t), NEW i \in 1 .. AES_BLOCK_SIZE, s[i] = t[i]
    PROVE  s = t
<1>1. CASE IsStart(s) /\ IsStart(t)
  <2>1. PICK n, v : s = EncryptHeader("b0", n, v)
    BY <1>1 DEF IsStart
  <2>2. PICK m, w : t = EncryptHeader("b0", m, w)
    BY <1>1 DEF IsStart
  <2>3. n = m /\ v = w
    BY <2>1, <2>2, HeaderInjective
  <2> QED
    BY <2>1, <2>2, <2>3
<1>2. CASE IsChained(s) /\ IsChained(t)
  <2>1. PICK a : s = EncryptBlock(a)
    BY <1>2 DEF IsChained
  <2>2. PICK b : t = EncryptBlock(b)
    BY <1>2 DEF IsChained
  <2>3. a = b
    BY <2>1, <2>2, EncryptInjective
  <2> QED
    BY <2>1, <2>2, <2>3
<1>3. CASE IsStart(s) /\ IsChained(t)
  BY <1>3, StartIsNotChained DEF IsStart, IsChained
<1>4. CASE IsChained(s) /\ IsStart(t)
  BY <1>4, StartIsNotChained DEF IsStart, IsChained
<1> QED
  BY <1>1, <1>2, <1>3, <1>4 DEF IsTag

(* XOR with plain bytes hides neither a tag nor the bytes. *)
LEMMA ByteSeparates ==
    ASSUME NEW a, NEW b, NEW x, NEW y, MacAtom(x), MacAtom(y), Plain(a), Plain(b),
           XOR({x}, a) = XOR({y}, b)
    PROVE  x = y /\ a = b
<1>1. x \notin a /\ y \notin b /\ x \notin b /\ y \notin a
  BY DEF Plain
<1>2. XOR({x}, a) = {x} \union a /\ XOR({y}, b) = {y} \union b
  BY <1>1 DEF XOR, SymDiff
<1>3. x = y
  BY <1>1, <1>2
<1>4. a = b
  BY <1>1, <1>2, <1>3
<1> QED
  BY <1>3, <1>4

(* A tag added to a block of plain bytes tells both: the sum of another     *)
(* tag and block is another sum.                                            *)
LEMMA BlockSeparates ==
    ASSUME NEW B, \A x \in B : Plain(x),
           NEW s, NEW t, IsTag(s), IsTag(t), NEW a \in Seq(B), NEW b \in Seq(B),
           Len(a) = AES_BLOCK_SIZE, Len(b) = AES_BLOCK_SIZE,
           XORSeq(s, a) = XORSeq(t, b)
    PROVE  s = t /\ a = b
<1>1. DOMAIN s = 1 .. AES_BLOCK_SIZE /\ DOMAIN t = 1 .. AES_BLOCK_SIZE
  <2>1. 1 \in 1 .. AES_BLOCK_SIZE
    BY CcmSizes
  <2> QED
    BY <2>1, TagBytes
<1>2. ASSUME NEW i \in 1 .. AES_BLOCK_SIZE
      PROVE  s[i] = t[i] /\ a[i] = b[i]
  <2>1. XOR(s[i], a[i]) = XOR(t[i], b[i])
    <3>1. XORSeq(s, a)[i] = XOR(s[i], a[i])
      BY <1>1 DEF XORSeq
    <3>2. XORSeq(t, b)[i] = XOR(t[i], b[i])
      BY <1>1 DEF XORSeq
    <3> QED
      BY <3>1, <3>2
  <2>2. PICK x : s[i] = {x} /\ MacAtom(x)
    BY TagBytes
  <2>3. PICK y : t[i] = {y} /\ MacAtom(y)
    BY TagBytes
  <2>4. a[i] \in B /\ b[i] \in B
    BY CcmSizes
  <2>5. Plain(a[i]) /\ Plain(b[i])
    BY <2>4
  <2> QED
    BY <2>1, <2>2, <2>3, <2>5, ByteSeparates
<1>3. a = b
  BY <1>2, SeqEqual
<1>4. s = t
  <2>1. 1 \in 1 .. AES_BLOCK_SIZE
    BY CcmSizes
  <2> QED
    BY <1>2, <2>1, TagByByte
<1> QED
  BY <1>3, <1>4

Blocks(B) == {c \in Seq(Seq(B)) : \A k \in 1 .. Len(c) : Len(c[k]) = AES_BLOCK_SIZE}

(* Every value of a chain is a tag, and every one but the first an          *)
(* encrypted block.                                                         *)
LEMMA AllTags ==
    ASSUME NEW g, IsTag(g), NEW c, Len(c) \in Nat, NEW k \in 0 .. Len(c)
    PROVE  /\ IsTag(Tags(g, c)[k])
           /\ k > 0 => IsChained(Tags(g, c)[k])
<1>1. CASE k = 0
  BY <1>1, TagsShape
<1>2. CASE k > 0
  <2>1. PICK j \in 0 .. Len(c) : k = j + 1
    <3>1. k - 1 \in 0 .. Len(c) /\ k = (k - 1) + 1
      BY <1>2
    <3> QED
      BY <3>1
  <2>2. Tags(g, c)[k] = EncryptBlock(XORSeq(Tags(g, c)[j], c[k]))
    BY <2>1, TagsShape
  <2> QED
    BY <2>2 DEF IsTag, IsChained
<1> QED
  BY <1>1, <1>2

(* A step back: equal tags come from equal tags and equal blocks. *)
LEMMA StepBack ==
    ASSUME NEW B, \A x \in B : Plain(x), NEW g, IsTag(g), NEW h, IsTag(h),
           NEW c \in Blocks(B), NEW d \in Blocks(B),
           NEW j \in 0 .. Len(c), NEW k \in 1 .. Len(c), k = j + 1,
           NEW l \in 0 .. Len(d), NEW m \in 1 .. Len(d), m = l + 1,
           Tags(g, c)[k] = Tags(h, d)[m]
    PROVE  Tags(g, c)[j] = Tags(h, d)[l] /\ c[k] = d[m]
<1> DEFINE s == Tags(g, c)[j]
           t == Tags(h, d)[l]
<1>1. Len(c) \in Nat /\ Len(d) \in Nat
  BY DEF Blocks
<1>2. Tags(g, c)[k] = EncryptBlock(XORSeq(s, c[k])) /\ Tags(h, d)[m] = EncryptBlock(XORSeq(t, d[m]))
  BY <1>1, TagsShape
<1>3. IsTag(s) /\ IsTag(t)
  BY <1>1, AllTags
<1>4. /\ c[k] \in Seq(B) /\ Len(c[k]) = AES_BLOCK_SIZE
      /\ d[m] \in Seq(B) /\ Len(d[m]) = AES_BLOCK_SIZE
  BY DEF Blocks
<1> HIDE DEF s, t
<1>5. XORSeq(s, c[k]) = XORSeq(t, d[m])
  <2>1. 1 \in 1 .. AES_BLOCK_SIZE
    BY CcmSizes
  <2> QED
    BY <1>2, <2>1, EncryptInjective
<1>6. s = t /\ c[k] = d[m]
  BY <1>3, <1>4, <1>5, BlockSeparates
<1> QED
  BY <1>6 DEF s, t

(* e more than m. *)
Exceeds(n, m, e) == e \in Nat /\ n = m + e

(* Runs that end in the same tag agree from the end back to the start of   *)
(* the shorter one.                                                        *)
LEMMA RunsAlign ==
    ASSUME NEW B, \A x \in B : Plain(x), NEW g, IsTag(g), NEW h, IsTag(h),
           NEW c \in Blocks(B), NEW d \in Blocks(B),
           NEW e, Exceeds(Len(d), Len(c), e),
           Tags(g, c)[Len(c)] = Tags(h, d)[Len(d)]
    PROVE  /\ g = Tags(h, d)[e]
           /\ \A k \in 1 .. Len(c), m \in 1 .. Len(d) : m = k + e => c[k] = d[m]
<1> DEFINE S == {n \in Nat : \A p \in 0 .. Len(c), q \in 0 .. Len(d) :
                     p + n = Len(c) /\ q = p + e => Tags(g, c)[p] = Tags(h, d)[q]}
<1>1. Len(c) \in Nat /\ Len(d) \in Nat /\ e \in Nat /\ Len(d) = Len(c) + e
  BY DEF Blocks, Exceeds
<1>2. 0 \in S
  <2>1. ASSUME NEW p \in 0 .. Len(c), NEW q \in 0 .. Len(d), p + 0 = Len(c), q = p + e
        PROVE  Tags(g, c)[p] = Tags(h, d)[q]
    <3>1. p = Len(c) /\ q = Len(d)
      BY <1>1, <2>1
    <3> QED
      BY <3>1
  <2> QED
    BY <2>1
<1>3. ASSUME NEW n \in Nat, n \in S
      PROVE  n + 1 \in S
  <2>1. ASSUME NEW p \in 0 .. Len(c), NEW q \in 0 .. Len(d), p + (n + 1) = Len(c), q = p + e
        PROVE  Tags(g, c)[p] = Tags(h, d)[q]
    <3>1. PICK k \in 1 .. Len(c) : k = p + 1
      <4>1. p + 1 \in 1 .. Len(c)
        BY <1>1, <2>1
      <4> QED
        BY <4>1
    <3>2. PICK m \in 1 .. Len(d) : m = q + 1
      <4>1. q + 1 \in 1 .. Len(d)
        BY <1>1, <2>1
      <4> QED
        BY <4>1
    <3>3. k \in 0 .. Len(c) /\ m \in 0 .. Len(d) /\ k + n = Len(c) /\ m = k + e
      BY <1>1, <2>1, <3>1, <3>2
    <3>4. Tags(g, c)[k] = Tags(h, d)[m]
      BY <1>3, <3>3
    <3> QED
      BY <3>1, <3>2, <3>4, StepBack
  <2> QED
    BY <2>1
<1> HIDE DEF S
<1>4. Nat \subseteq S
  BY <1>2, <1>3, NatByInduction
<1>5. ASSUME NEW p \in 0 .. Len(c), NEW q \in 0 .. Len(d), q = p + e
      PROVE  Tags(g, c)[p] = Tags(h, d)[q]
  <2>1. PICK n \in Nat : p + n = Len(c)
    <3>1. Len(c) - p \in Nat /\ p + (Len(c) - p) = Len(c)
      BY <1>1
    <3> QED
      BY <3>1
  <2>2. n \in S
    BY <1>4
  <2> QED
    BY <1>5, <2>1, <2>2 DEF S
<1>6. g = Tags(h, d)[e]
  <2>1. 0 \in 0 .. Len(c) /\ e \in 0 .. Len(d) /\ e = 0 + e
    BY <1>1
  <2>2. Tags(g, c)[0] = Tags(h, d)[e]
    BY <1>5, <2>1
  <2>3. Tags(g, c)[0] = g
    BY <1>1, TagsShape
  <2> QED
    BY <2>2, <2>3
<1>7. ASSUME NEW k \in 1 .. Len(c), NEW m \in 1 .. Len(d), m = k + e
      PROVE  c[k] = d[m]
  <2>1. PICK j \in 0 .. Len(c) : k = j + 1
    <3>1. k - 1 \in 0 .. Len(c) /\ k = (k - 1) + 1
      BY <1>1
    <3> QED
      BY <3>1
  <2>2. PICK l \in 0 .. Len(d) : m = l + 1
    <3>1. m - 1 \in 0 .. Len(d) /\ m = (m - 1) + 1
      BY <1>1
    <3> QED
      BY <3>1
  <2>3. Tags(g, c)[k] = Tags(h, d)[m]
    BY <1>1, <1>5, <1>7
  <2> QED
    BY <2>1, <2>2, <2>3, StepBack
<1> QED
  BY <1>6, <1>7

(* A run that begins with a frame's first block is not the end of a longer *)
(* one.                                                                    *)
LEMMA NoLongerRun ==
    ASSUME NEW B, \A x \in B : Plain(x), NEW g, IsStart(g), NEW h, IsTag(h),
           NEW c \in Blocks(B), NEW d \in Blocks(B),
           NEW e, e > 0, Exceeds(Len(d), Len(c), e),
           Tags(g, c)[Len(c)] = Tags(h, d)[Len(d)]
    PROVE  FALSE
<1>1. IsTag(g) /\ Len(c) \in Nat /\ Len(d) \in Nat
  BY DEF IsTag, Blocks
<1>2. g = Tags(h, d)[e]
  BY <1>1, RunsAlign
<1>3. Len(d) \in Nat /\ e \in 0 .. Len(d)
  <2>1. Len(c) \in Nat /\ Len(d) \in Nat /\ e \in Nat /\ Len(d) = Len(c) + e
    BY DEF Blocks, Exceeds
  <2> QED
    BY <2>1
<1>4. IsChained(g)
  BY <1>2, <1>3, AllTags
<1>5. 1 \in 1 .. AES_BLOCK_SIZE
  BY CcmSizes
<1> QED
  BY <1>4, <1>5, StartIsNotChained DEF IsStart, IsChained

(* From the first blocks of two frames, then, only the same blocks lead to *)
(* the same tag.                                                           *)
LEMMA SameRun ==
    ASSUME NEW B, \A x \in B : Plain(x), NEW g, IsStart(g), NEW h, IsStart(h),
           NEW c \in Blocks(B), NEW d \in Blocks(B),
           Tags(g, c)[Len(c)] = Tags(h, d)[Len(d)]
    PROVE  g = h /\ c = d
<1>1. Len(c) \in Nat /\ Len(d) \in Nat /\ IsTag(g) /\ IsTag(h)
  BY DEF Blocks, IsTag
<1>2. \A m, n \in Nat : m < n => \E e : e > 0 /\ Exceeds(n, m, e)
  <2> SUFFICES ASSUME NEW m \in Nat, NEW n \in Nat, m < n
               PROVE  \E e : e > 0 /\ Exceeds(n, m, e)
    OBVIOUS
  <2>1. n - m > 0 /\ Exceeds(n, m, n - m)
    BY DEF Exceeds
  <2> QED
    BY <2>1
<1>4. ~ (Len(c) < Len(d))
  <2> SUFFICES ASSUME Len(c) < Len(d) PROVE FALSE
    OBVIOUS
  <2>1. PICK e : e > 0 /\ Exceeds(Len(d), Len(c), e)
    BY <1>1, <1>2
  <2> QED
    BY <1>1, <2>1, NoLongerRun
<1>5. ~ (Len(d) < Len(c))
  <2> SUFFICES ASSUME Len(d) < Len(c) PROVE FALSE
    OBVIOUS
  <2>1. PICK e : e > 0 /\ Exceeds(Len(c), Len(d), e)
    BY <1>1, <1>2
  <2> QED
    BY <1>1, <2>1, NoLongerRun
<1>6. Len(d) = Len(c) + 0 /\ 0 \in Nat
  BY <1>1, <1>4, <1>5
<1>7. g = Tags(h, d)[0] /\ \A k \in 1 .. Len(c), m \in 1 .. Len(d) : m = k + 0 => c[k] = d[m]
  BY <1>1, <1>6, RunsAlign DEF Exceeds
<1>8. g = h
  BY <1>1, <1>7, TagsShape
<1>9. \A k \in 1 .. Len(c) : c[k] = d[k]
  BY <1>1, <1>6, <1>7
<1>10. c = d
  <2>1. Len(c) = Len(d) /\ c \in Seq(Seq(B)) /\ d \in Seq(Seq(B))
    BY <1>1, <1>6 DEF Blocks
  <2> QED
    BY <1>9, <2>1, SeqEqual
<1> QED
  BY <1>8, <1>10

(* The run over two parts is the run over them both. *)
LEMMA RunOfConcat ==
    ASSUME NEW B, NEW g, NEW c \in Blocks(B), NEW d \in Blocks(B)
    PROVE  /\ c \o d \in Blocks(B)
           /\ Len(c \o d) = Len(c) + Len(d)
           /\ Tags(g, c \o d)[Len(c \o d)] = Tags(Tags(g, c)[Len(c)], d)[Len(d)]
<1> DEFINE both == c \o d
           mid == Tags(g, c)[Len(c)]
<1>1. /\ Len(c) \in Nat /\ Len(d) \in Nat /\ c \in Seq(Seq(B)) /\ d \in Seq(Seq(B))
  BY DEF Blocks
<1>2. both \in Seq(Seq(B)) /\ Len(both) = Len(c) + Len(d)
  BY <1>1, ConcatProperties
<1>3. /\ \A k \in 1 .. Len(c) : both[k] = c[k]
      /\ \A k \in 1 .. Len(d) : both[Len(c) + k] = d[k]
  BY <1>1
<1> HIDE DEF both
<1>4. both \in Blocks(B)
  <2>1. ASSUME NEW k \in 1 .. Len(both)
        PROVE  Len(both[k]) = AES_BLOCK_SIZE
    <3>1. CASE k <= Len(c)
      BY <1>1, <1>3, <3>1 DEF Blocks
    <3>2. CASE k > Len(c)
      <4>1. PICK j \in 1 .. Len(d) : k = Len(c) + j
        <5>1. k - Len(c) \in 1 .. Len(d) /\ k = Len(c) + (k - Len(c))
          BY <1>1, <1>2, <3>2
        <5> QED
          BY <5>1
      <4> QED
        BY <1>3, <4>1 DEF Blocks
    <3>3. k <= Len(c) \/ k > Len(c)
      BY <1>1
    <3> QED
      BY <3>1, <3>2, <3>3
  <2> QED
    BY <1>2, <2>1 DEF Blocks
<1>5. /\ Len(both) \in Nat
      /\ Tags(g, both)[0] = g
      /\ \A j, k \in 0 .. Len(both) :
            k = j + 1 => Tags(g, both)[k] = EncryptBlock(XORSeq(Tags(g, both)[j], both[k]))
  <2>1. Len(both) \in Nat
    BY <1>1, <1>2
  <2> QED
    BY <2>1, TagsShape
<1>6. /\ Tags(g, c)[0] = g
      /\ \A j, k \in 0 .. Len(c) :
            k = j + 1 => Tags(g, c)[k] = EncryptBlock(XORSeq(Tags(g, c)[j], c[k]))
  BY <1>1, TagsShape
<1>7. /\ Tags(mid, d)[0] = mid
      /\ \A j, k \in 0 .. Len(d) :
            k = j + 1 => Tags(mid, d)[k] = EncryptBlock(XORSeq(Tags(mid, d)[j], d[k]))
  <2> HIDE DEF mid
  <2> QED
    BY <1>1, TagsShape
<1>8. \A k \in 0 .. Len(c) : Tags(g, both)[k] = Tags(g, c)[k]
  <2> DEFINE S == {n \in Nat : n <= Len(c) => Tags(g, both)[n] = Tags(g, c)[n]}
  <2>1. 0 \in S
    BY <1>5, <1>6
  <2>2. ASSUME NEW n \in Nat, n \in S
        PROVE  n + 1 \in S
    <3>1. ASSUME NEW m \in Nat, m = n + 1, m <= Len(c)
          PROVE  Tags(g, both)[m] = Tags(g, c)[m]
      <4>1. /\ n \in 0 .. Len(c) /\ m \in 0 .. Len(c) /\ m \in 1 .. Len(c)
            /\ n \in 0 .. Len(both) /\ m \in 0 .. Len(both)
        BY <1>1, <1>2, <3>1
      <4>2. Tags(g, both)[n] = Tags(g, c)[n]
        BY <2>2, <4>1
      <4>3. both[m] = c[m]
        BY <1>3, <4>1
      <4>4. Tags(g, both)[m] = EncryptBlock(XORSeq(Tags(g, both)[n], both[m]))
        BY <1>5, <3>1, <4>1
      <4>5. Tags(g, c)[m] = EncryptBlock(XORSeq(Tags(g, c)[n], c[m]))
        BY <1>6, <3>1, <4>1
      <4> QED
        BY <4>2, <4>3, <4>4, <4>5
    <3> QED
      BY <3>1
  <2> HIDE DEF S
  <2>3. Nat \subseteq S
    BY <2>1, <2>2, NatByInduction
  <2> QED
    BY <2>3 DEF S
<1>9. \A k \in 0 .. Len(d) : Tags(g, both)[Len(c) + k] = Tags(mid, d)[k]
  <2> DEFINE S == {n \in Nat : n <= Len(d) => Tags(g, both)[Len(c) + n] = Tags(mid, d)[n]}
  <2>1. 0 \in S
    <3>1. Len(c) + 0 = Len(c) /\ Len(c) \in 0 .. Len(c)
      BY <1>1
    <3>2. Tags(g, both)[Len(c) + 0] = Tags(mid, d)[0]
      BY <1>7, <1>8, <3>1
    <3> HIDE DEF mid
    <3> QED
      BY <3>2
  <2>2. ASSUME NEW n \in Nat, n \in S
        PROVE  n + 1 \in S
    <3> HIDE DEF mid
    <3>1. ASSUME NEW m \in Nat, m = n + 1, m <= Len(d)
          PROVE  Tags(g, both)[Len(c) + m] = Tags(mid, d)[m]
      <4>1. PICK a \in 0 .. Len(both), b \in 0 .. Len(both) :
               a = Len(c) + n /\ b = Len(c) + m /\ b = a + 1
        <5>1. Len(c) + n \in 0 .. Len(both) /\ Len(c) + m \in 0 .. Len(both)
              /\ Len(c) + m = Len(c) + n + 1
          BY <1>1, <1>2, <3>1
        <5> QED
          BY <5>1
      <4>2. n \in 0 .. Len(d) /\ m \in 0 .. Len(d) /\ m \in 1 .. Len(d)
        BY <1>1, <3>1
      <4>3. Tags(g, both)[a] = Tags(mid, d)[n]
        BY <2>2, <4>1, <4>2
      <4>4. both[b] = d[m]
        BY <1>3, <4>1, <4>2
      <4>5. Tags(g, both)[b] = EncryptBlock(XORSeq(Tags(g, both)[a], both[b]))
        BY <1>5, <4>1
      <4>6. Tags(mid, d)[m] = EncryptBlock(XORSeq(Tags(mid, d)[n], d[m]))
        BY <1>7, <3>1, <4>2
      <4> QED
        BY <4>1, <4>3, <4>4, <4>5, <4>6
    <3> QED
      BY <3>1
  <2> HIDE DEF S, mid
  <2>3. Nat \subseteq S
    BY <2>1, <2>2, NatByInduction
  <2> QED
    BY <2>3 DEF S
<1>10. Tags(g, both)[Len(both)] = Tags(mid, d)[Len(d)]
  BY <1>1, <1>2, <1>9
<1> QED
  BY <1>2, <1>4, <1>10 DEF both

(* A sequence is padded with zeros to whole blocks, as few as its length   *)
(* asks for.                                                               *)
PaddedLen(n) == n + ((-n) % AES_BLOCK_SIZE)

(* Padding a text to whole blocks keeps its bytes. *)
LEMMA PadShape ==
    ASSUME NEW B, Zero \in B, NEW s \in Seq(B)
    PROVE  /\ Pad(s) \in Seq(B) /\ Len(Pad(s)) = PaddedLen(Len(s)) /\ Len(s) <= PaddedLen(Len(s))
           /\ \A i \in 1 .. Len(s) : Pad(s)[i] = s[i]
           /\ \E q \in Nat : Len(Pad(s)) = Bytes(q, AES_BLOCK_SIZE)
<1> DEFINE n == AES_BLOCK_SIZE
           z == (-Len(s)) % n
           zeros == [i \in 1 .. z |-> Zero]
<1>1. Len(s) \in Nat /\ -Len(s) \in Int /\ n \in Nat \ {0}
  BY CcmSizes
<1>2. z \in Nat /\ -Len(s) = n * ((-Len(s)) \div n) + z /\ (-Len(s)) \div n \in Int
  BY <1>1, DivMod
<1> HIDE DEF z
<1>3. (Len(s) + z) - Len(s) = z /\ Len(s) + z \in Nat /\ Len(s) <= Len(s) + z
  BY <1>1, <1>2
<1>4. Pad(s) = s \o zeros
  <2>1. Pad(s) = s \o [i \in 1 .. (Len(s) + z) - Len(s) |-> Zero]
    BY DEF Pad, Padded, z
  <2> QED
    BY <1>3, <2>1
<1>5. zeros \in Seq(B) /\ Len(zeros) = z
  <2>1. zeros \in [1 .. z -> B]
    OBVIOUS
  <2> HIDE DEF zeros
  <2> QED
    BY <1>2, <2>1
<1> HIDE DEF zeros
<1>6. /\ Pad(s) \in Seq(B) /\ Len(Pad(s)) = Len(s) + z
      /\ \A i \in 1 .. Len(s) : Pad(s)[i] = s[i]
  <2>1. s \o zeros \in Seq(B) /\ Len(s \o zeros) = Len(s) + Len(zeros)
    BY <1>5
  <2>2. \A i \in 1 .. Len(s) : (s \o zeros)[i] = s[i]
    BY <1>5
  <2> QED
    BY <1>4, <1>5, <2>1, <2>2
<1>7. Len(s) + z = PaddedLen(Len(s))
  BY DEF PaddedLen, z
<1>8. \E q \in Nat : Len(s) + z = Bytes(q, n)
  <2>1. PICK d \in Int : -Len(s) = n * d + z
    BY <1>2
  <2>2. Len(s) + z = n * (-d)
    <3>1. n * d \in Int /\ n * (-d) = -(n * d)
      BY <1>1
    <3> QED
      BY <1>1, <1>2, <2>1, <3>1
  <2>3. -d \in Nat
    <3> SUFFICES ASSUME -d < 0 PROVE FALSE
      OBVIOUS
    <3>1. PICK e \in Nat : -d = -(e + 1)
      <4>1. d - 1 \in Nat /\ -d = -((d - 1) + 1)
        OBVIOUS
      <4> QED
        BY <4>1
    <3>2. n * (-(e + 1)) < 0
      <4>1. n * (-(e + 1)) = -(n * e + n) /\ n * e \in Nat
        BY <1>1
      <4> QED
        BY <1>1, <4>1
    <3> QED
      BY <1>3, <2>2, <3>1, <3>2
  <2>4. PICK q \in Nat : q = -d
    BY <2>3
  <2>5. Len(s) + z = Bytes(q, n)
    <3>1. n * q = q * n
      BY <1>1
    <3> QED
      BY <2>2, <2>4, <3>1 DEF Bytes
  <2> QED
    BY <2>5
<1> QED
  BY <1>3, <1>6, <1>7, <1>8

(* The blocks of a padded text are blocks of plain bytes, as many as its    *)
(* padded length has.                                                       *)
LEMMA PadBlocks ==
    ASSUME NEW B, Zero \in B, NEW s \in Seq(B)
    PROVE  /\ Chunks(Pad(s), AES_BLOCK_SIZE) \in Blocks(B)
           /\ Len(Chunks(Pad(s), AES_BLOCK_SIZE)) = PaddedLen(Len(s)) \div AES_BLOCK_SIZE
           /\ \E q \in Nat : /\ Len(Pad(s)) = Bytes(q, AES_BLOCK_SIZE)
                             /\ AreChunks(Chunks(Pad(s), AES_BLOCK_SIZE), Pad(s), AES_BLOCK_SIZE, q, B)
<1> DEFINE n == AES_BLOCK_SIZE
           c == Chunks(Pad(s), n)
<1>1. PICK q \in Nat : Len(Pad(s)) = Bytes(q, n)
  BY PadShape
<1>2. Pad(s) \in Seq(B) /\ Len(Pad(s)) = PaddedLen(Len(s)) /\ n \in Nat \ {0}
  BY PadShape, CcmSizes
<1>3. Len(Pad(s)) = Bytes(q, n) + 0 /\ 0 \in 0 .. n - 1 /\ Bytes(q, n) \in Nat
  <2>1. Bytes(q, n) \in Nat
    BY <1>2 DEF Bytes
  <2> QED
    BY <1>1, <1>2, <2>1
<1>4. AreChunks(c, Pad(s), n, q, B)
  BY <1>2, <1>3, ChunksShape
<1>5. Len(Pad(s)) \div n = q
  BY <1>2, <1>3, BlocksAndRestUnique
<1>6. c \in Blocks(B) /\ Len(c) = q
  <2> HIDE DEF c
  <2>1. c \in Seq(Seq(B)) /\ Len(c) = q
    BY <1>4 DEF AreChunks
  <2>2. ASSUME NEW k \in 1 .. Len(c)
        PROVE  Len(c[k]) = n
    <3>1. PICK j \in Nat : j < q /\ k = j + 1 /\ k \in Nat
      <4>1. k - 1 \in Nat /\ k - 1 < q /\ k = (k - 1) + 1 /\ k \in Nat
        BY <2>1
      <4> QED
        BY <4>1
    <3> QED
      BY <1>4, <3>1 DEF AreChunks
  <2> QED
    BY <2>1, <2>2 DEF Blocks
<1> QED
  BY <1>1, <1>2, <1>4, <1>5, <1>6

(* The blocks and the length give the sequence back; a byte is in its      *)
(* block.                                                                  *)
LEMMA PadByte ==
    ASSUME NEW B, Zero \in B, NEW s \in Seq(B), NEW i \in 1 .. Len(s)
    PROVE  \E k, p \in Nat :
              /\ k = ((i - 1) \div AES_BLOCK_SIZE) + 1 /\ p = ((i - 1) % AES_BLOCK_SIZE) + 1
              /\ Chunks(Pad(s), AES_BLOCK_SIZE)[k][p] = s[i]
              /\ k \in 1 .. Len(Chunks(Pad(s), AES_BLOCK_SIZE))
<1> DEFINE n == AES_BLOCK_SIZE
           c == Chunks(Pad(s), n)
<1>1. n \in Nat \ {0} /\ Len(s) \in Nat
  BY CcmSizes
<1>2. PICK q \in Nat : Len(Pad(s)) = Bytes(q, n) /\ AreChunks(c, Pad(s), n, q, B)
  BY PadBlocks
<1>3. PICK h \in Nat : h = i - 1
  BY <1>1
<1>4. PICK j \in Nat, r \in 0 .. n - 1 : h = Bytes(j, n) + r
  BY <1>1, <1>3, BlocksAndRest
<1>5. h \div n = j /\ h % n = r
  BY <1>1, <1>4, BlocksAndRestUnique
<1>6. i <= Bytes(q, n)
  <2>1. Len(s) <= Len(Pad(s))
    BY PadShape
  <2>2. Bytes(q, n) \in Nat
    BY <1>1 DEF Bytes
  <2> QED
    BY <1>1, <1>2, <2>1, <2>2
<1>7. j < q
  <2> SUFFICES ASSUME q <= j PROVE FALSE
    OBVIOUS
  <2>1. PICK d \in Nat : j = q + d
    <3>1. j - q \in Nat /\ j = q + (j - q)
      OBVIOUS
    <3> QED
      BY <3>1
  <2>2. Bytes(j, n) = Bytes(q, n) + Bytes(d, n) /\ Bytes(q, n) \in Nat /\ Bytes(d, n) \in Nat
    BY <1>1, <2>1 DEF Bytes
  <2> QED
    BY <1>1, <1>3, <1>4, <1>6, <2>2
<1>8. PICK k \in Nat, p \in 1 .. n : k = j + 1 /\ p = r + 1
  BY <1>1
<1>9. Bytes(j, n) + p = i
  <2>1. Bytes(j, n) \in Nat
    BY <1>1 DEF Bytes
  <2> QED
    BY <1>1, <1>3, <1>4, <1>8, <2>1
<1> HIDE DEF c
<1>10. c[k][p] = Pad(s)[Bytes(j, n) + p] /\ Len(c) = q
  BY <1>2, <1>7, <1>8 DEF AreChunks
<1>11. Pad(s)[i] = s[i]
  BY PadShape
<1>12. c[k][p] = s[i]
  BY <1>9, <1>10, <1>11
<1>13. k \in 1 .. Len(c) /\ p \in Nat
  BY <1>1, <1>7, <1>8, <1>10
<1>14. k = ((i - 1) \div n) + 1 /\ p = ((i - 1) % n) + 1
  BY <1>3, <1>5, <1>8
<1> QED
  BY <1>12, <1>13, <1>14 DEF c

(* Texts of one length with the same padded blocks are the same text. *)
LEMMA SamePad ==
    ASSUME NEW B, Zero \in B, NEW s \in Seq(B), NEW t \in Seq(B), Len(s) = Len(t),
           Chunks(Pad(s), AES_BLOCK_SIZE) = Chunks(Pad(t), AES_BLOCK_SIZE)
    PROVE  s = t
<1>1. ASSUME NEW i \in 1 .. Len(s)
      PROVE  s[i] = t[i]
  <2>1. PICK k \in Nat, p \in Nat :
           /\ k = ((i - 1) \div AES_BLOCK_SIZE) + 1 /\ p = ((i - 1) % AES_BLOCK_SIZE) + 1
           /\ Chunks(Pad(s), AES_BLOCK_SIZE)[k][p] = s[i]
    BY PadByte
  <2>2. i \in 1 .. Len(t)
    OBVIOUS
  <2>3. PICK l \in Nat, m \in Nat :
           /\ l = ((i - 1) \div AES_BLOCK_SIZE) + 1 /\ m = ((i - 1) % AES_BLOCK_SIZE) + 1
           /\ Chunks(Pad(t), AES_BLOCK_SIZE)[l][m] = t[i]
    BY <2>2, PadByte
  <2>4. k = l /\ p = m
    BY <2>1, <2>3
  <2> QED
    BY <2>1, <2>3, <2>4
<1> QED
  BY <1>1, SeqEqual

(* The header is given with its length in front. *)
LEMMA AuthenticatedShape ==
    ASSUME NEW B, \A i \in 1 .. 2, n \in Nat : AadLength(i, n) \in B,
           NEW x \in Seq(B), x # <<>>
    PROVE  /\ Authenticated(x) \in Seq(B) /\ Len(Authenticated(x)) = 2 + Len(x)
           /\ Authenticated(x)[1] = AadLength(1, Len(x))
           /\ \A i \in 1 .. Len(x) : Authenticated(x)[2 + i] = x[i]
           /\ Len(x) \in Nat
<1>1. AadLength(1, Len(x)) \in B /\ AadLength(2, Len(x)) \in B /\ Len(x) \in Nat
  OBVIOUS
<1>2. PICK two : two = <<AadLength(1, Len(x)), AadLength(2, Len(x))>>
  OBVIOUS
<1>3. two \in Seq(B) /\ Len(two) = 2 /\ two[1] = AadLength(1, Len(x))
  BY <1>1, <1>2
<1>4. Authenticated(x) = two \o x
  BY <1>2 DEF Authenticated, AadBlocks
<1>5. /\ two \o x \in Seq(B) /\ Len(two \o x) = Len(two) + Len(x)
      /\ \A i \in 1 .. Len(two) : (two \o x)[i] = two[i]
      /\ \A i \in 1 .. Len(x) : (two \o x)[Len(two) + i] = x[i]
  <2>1. two \in Seq(B)
    BY <1>3
  <2> QED
    BY <2>1, Behind
<1> QED
  BY <1>1, <1>3, <1>4, <1>5

(* So no two headers are given alike. *)
LEMMA SameHeader ==
    ASSUME NEW B, Zero \in B, \A i \in 1 .. 2, n \in Nat : AadLength(i, n) \in B,
           NEW a \in Seq(B), NEW b \in Seq(B),
           Chunks(Pad(Authenticated(a)), AES_BLOCK_SIZE) = Chunks(Pad(Authenticated(b)), AES_BLOCK_SIZE)
    PROVE  a = b
<1>1. ASSUME NEW x \in Seq(B), x # <<>>
      PROVE  /\ Authenticated(x) \in Seq(B) /\ Len(Authenticated(x)) = 2 + Len(x)
             /\ Authenticated(x)[1] = AadLength(1, Len(x))
             /\ \A i \in 1 .. Len(x) : Authenticated(x)[2 + i] = x[i]
             /\ Len(x) \in Nat
  BY <1>1, AuthenticatedShape
<1>2. ASSUME NEW x \in Seq(B), x # <<>>
      PROVE  \E k, p \in Nat :
                /\ k = ((1 - 1) \div AES_BLOCK_SIZE) + 1 /\ p = ((1 - 1) % AES_BLOCK_SIZE) + 1
                /\ Chunks(Pad(Authenticated(x)), AES_BLOCK_SIZE)[k][p] = AadLength(1, Len(x))
                /\ k \in 1 .. Len(Chunks(Pad(Authenticated(x)), AES_BLOCK_SIZE))
  <2> DEFINE s == Authenticated(x)
  <2>1. s \in Seq(B) /\ 1 \in 1 .. Len(s) /\ s[1] = AadLength(1, Len(x))
    BY <1>1, <1>2
  <2> HIDE DEF s
  <2>2. \A i \in 1 .. Len(s) : \E k, p \in Nat :
           /\ k = ((i - 1) \div AES_BLOCK_SIZE) + 1 /\ p = ((i - 1) % AES_BLOCK_SIZE) + 1
           /\ Chunks(Pad(s), AES_BLOCK_SIZE)[k][p] = s[i]
           /\ k \in 1 .. Len(Chunks(Pad(s), AES_BLOCK_SIZE))
    BY <2>1, PadByte
  <2> QED
    BY <2>1, <2>2 DEF s
<1>3. Authenticated(<<>>) = <<>>
  BY DEF Authenticated, AadBlocks
<1>4. Len(Chunks(Pad(<<>>), AES_BLOCK_SIZE)) = 0
  <2>1. PaddedLen(0) = 0 /\ 0 \div AES_BLOCK_SIZE = 0
    BY CcmSizes DEF PaddedLen
  <2>2. <<>> \in Seq(B) /\ Len(<<>>) = 0
    OBVIOUS
  <2> QED
    BY <2>1, <2>2, PadBlocks
<1>5. CASE a = <<>> /\ b = <<>>
  BY <1>5
<1>6. CASE a = <<>> /\ b # <<>>
  BY <1>2, <1>3, <1>4, <1>6
<1>7. CASE a # <<>> /\ b = <<>>
  BY <1>2, <1>3, <1>4, <1>7
<1>8. CASE a # <<>> /\ b # <<>>
  <2>1. AadLength(1, Len(a)) = AadLength(1, Len(b))
    BY <1>2, <1>8
  <2>2. Len(a) = Len(b)
    <3>1. <<"length", 1, Len(a)>> = <<"length", 1, Len(b)>>
      BY <2>1 DEF AadLength
    <3>2. <<"length", 1, Len(a)>>[3] = Len(a) /\ <<"length", 1, Len(b)>>[3] = Len(b)
      OBVIOUS
    <3> QED
      BY <3>1, <3>2
  <2>3. Authenticated(a) = Authenticated(b)
    BY <1>1, <1>8, <2>2, SamePad
  <2>4. ASSUME NEW i \in 1 .. Len(a)
        PROVE  a[i] = b[i]
    <3>1. Authenticated(a)[2 + i] = a[i]
      BY <1>1, <1>8
    <3>2. Authenticated(b)[2 + i] = b[i]
      BY <1>1, <1>8, <2>2
    <3> QED
      BY <2>3, <3>1, <3>2
  <2> QED
    BY <2>2, <2>4, SeqEqual
<1> QED
  BY <1>5, <1>6, <1>7, <1>8

(* Bytes the MAC may be given: those it adds are among them.  Of plain     *)
(* ones more is known.                                                     *)
MacBytes(B) == Zero \in B /\ \A i \in 1 .. 2, n \in Nat : AadLength(i, n) \in B
PlainBytes(B) == MacBytes(B) /\ \A x \in B : Plain(x)

MacBlocks(a, msg) ==
    Chunks(Pad(Authenticated(a)), AES_BLOCK_SIZE) \o Chunks(Pad(msg), AES_BLOCK_SIZE)

(* The two chains are one run over the blocks of the header and the text,  *)
(* and the MAC begins the tag it ends in.                                  *)
LEMMA MacShape ==
    ASSUME NEW B, MacBytes(B), NEW n, NEW a \in Seq(B), NEW msg \in Seq(B)
    PROVE  /\ Chunks(Pad(Authenticated(a)), AES_BLOCK_SIZE) \in Blocks(B)
           /\ Chunks(Pad(msg), AES_BLOCK_SIZE) \in Blocks(B)
           /\ MacBlocks(a, msg) \in Blocks(B)
           /\ \E tag :
                 /\ IsTag(tag)
                 /\ tag = Tags(EncryptHeader("b0", n, Len(msg)), MacBlocks(a, msg))[Len(MacBlocks(a, msg))]
                 /\ CbcMac(n, a, msg) = [i \in 1 .. MIC_SIZE |-> tag[i]]
<1> DEFINE g == EncryptHeader("b0", n, Len(msg))
           c == Chunks(Pad(Authenticated(a)), AES_BLOCK_SIZE)
           d == Chunks(Pad(msg), AES_BLOCK_SIZE)
           both == MacBlocks(a, msg)
           tag == Tags(g, both)[Len(both)]
<1>1. Authenticated(a) \in Seq(B)
  <2>1. CASE a = <<>>
    BY <2>1 DEF Authenticated, AadBlocks
  <2>2. CASE a # <<>>
    BY <2>2, AuthenticatedShape DEF MacBytes
  <2> QED
    BY <2>1, <2>2
<1>2. c \in Blocks(B) /\ d \in Blocks(B)
  BY <1>1, PadBlocks DEF MacBytes
<1>3. both = c \o d
  BY DEF MacBlocks
<1> HIDE DEF g, c, d, both
<1>4. /\ both \in Blocks(B)
      /\ tag = Tags(Tags(g, c)[Len(c)], d)[Len(d)]
  BY <1>2, <1>3, RunOfConcat
<1>5. IsTag(tag)
  <2>1. IsTag(g)
    BY DEF IsTag, IsStart, g
  <2>2. Len(both) \in Nat
    BY <1>4 DEF Blocks
  <2>3. Len(both) \in 0 .. Len(both)
    BY <2>2
  <2> QED
    BY <2>1, <2>2, <2>3, AllTags
<1>6. CbcMac(n, a, msg) = CutTag(tag)
  BY <1>4 DEF CbcMac, Chain, g, c, d
<1> HIDE DEF tag
<1>7. CutTag(tag) = [i \in 1 .. MIC_SIZE |-> tag[i]]
  <2>1. SubSeq(tag, 1, MIC_SIZE) = [i \in 1 .. MIC_SIZE |-> tag[i]]
    <3>1. MIC_SIZE \in Nat /\ \A i \in 1 .. MIC_SIZE : 1 + i - 1 = i
      BY CcmSizes
    <3> QED
      BY <3>1
  <2> QED
    BY <2>1 DEF CutTag
<1>8. IsTag(tag) /\ tag = Tags(g, both)[Len(both)] /\ CbcMac(n, a, msg) = [i \in 1 .. MIC_SIZE |-> tag[i]]
  BY <1>5, <1>6, <1>7 DEF tag
<1> QED
  BY <1>2, <1>4, <1>8 DEF g, c, d, both

(* A chain's start tells the nonce and the length it was formatted from. *)
LEMMA StartInjective ==
    ASSUME NEW n, NEW m, NEW v, NEW w, EncryptHeader("b0", n, v) = EncryptHeader("b0", m, w)
    PROVE  n = m /\ v = w
<1>1. 1 \in 1 .. AES_BLOCK_SIZE
  BY CcmSizes
<1> QED
  BY <1>1, HeaderInjective

SameMicByte(i, n, a, s, m, b, t) == CbcMac(n, a, s)[i] = CbcMac(m, b, t)[i]

(* A byte of the MAC gives the nonce, the header and the text: no other    *)
(* frame of plain bytes has it.                                            *)
LEMMA MacByByte ==
    ASSUME NEW B, PlainBytes(B),
           NEW n, NEW a \in Seq(B), NEW s \in Seq(B),
           NEW m, NEW b \in Seq(B), NEW t \in Seq(B),
           NEW i \in 1 .. MIC_SIZE, SameMicByte(i, n, a, s, m, b, t)
    PROVE  n = m /\ a = b /\ s = t
<1> DEFINE g == EncryptHeader("b0", n, Len(s))
           h == EncryptHeader("b0", m, Len(t))
           ca == Chunks(Pad(Authenticated(a)), AES_BLOCK_SIZE)
           cb == Chunks(Pad(Authenticated(b)), AES_BLOCK_SIZE)
           cs == Chunks(Pad(s), AES_BLOCK_SIZE)
           ct == Chunks(Pad(t), AES_BLOCK_SIZE)
<1>1. i \in 1 .. AES_BLOCK_SIZE /\ 1 \in 1 .. AES_BLOCK_SIZE
  BY CcmSizes
<1>2. PICK x : /\ IsTag(x)
               /\ x = Tags(g, MacBlocks(a, s))[Len(MacBlocks(a, s))]
               /\ CbcMac(n, a, s) = [k \in 1 .. MIC_SIZE |-> x[k]]
  BY MacShape DEF PlainBytes
<1>3. PICK y : /\ IsTag(y)
               /\ y = Tags(h, MacBlocks(b, t))[Len(MacBlocks(b, t))]
               /\ CbcMac(m, b, t) = [k \in 1 .. MIC_SIZE |-> y[k]]
  BY MacShape DEF PlainBytes
<1>4. x = y
  BY <1>1, <1>2, <1>3, TagByByte DEF SameMicByte
<1>5. /\ MacBlocks(a, s) \in Blocks(B) /\ MacBlocks(b, t) \in Blocks(B)
      /\ ca \in Blocks(B) /\ cs \in Blocks(B) /\ cb \in Blocks(B) /\ ct \in Blocks(B)
  BY MacShape DEF PlainBytes
<1>6. g = h /\ MacBlocks(a, s) = MacBlocks(b, t)
  <2>1. IsStart(g) /\ IsStart(h)
    BY DEF IsStart
  <2>2. \A z \in B : Plain(z)
    BY DEF MacBytes, PlainBytes
  <2>3. PICK c \in Blocks(B), d \in Blocks(B) : c = MacBlocks(a, s) /\ d = MacBlocks(b, t)
    BY <1>5
  <2> HIDE DEF g, h
  <2>4. Tags(g, c)[Len(c)] = Tags(h, d)[Len(d)]
    BY <1>2, <1>3, <1>4, <2>3
  <2>5. g = h /\ c = d
    BY <2>1, <2>2, <2>4, SameRun
  <2> QED
    BY <2>3, <2>5
<1>7. n = m /\ Len(s) = Len(t)
  <2>1. EncryptHeader("b0", n, Len(s)) = EncryptHeader("b0", m, Len(t))
    BY <1>6
  <2> QED
    BY <2>1, StartInjective
<1>8. Zero \in B /\ \A j \in 1 .. 2, l \in Nat : AadLength(j, l) \in B
  BY DEF MacBytes, PlainBytes
<1>9. Len(cs) = Len(ct)
  <2>1. Len(cs) = PaddedLen(Len(s)) \div AES_BLOCK_SIZE /\ Len(ct) = PaddedLen(Len(t)) \div AES_BLOCK_SIZE
    BY <1>8, PadBlocks
  <2> QED
    BY <1>7, <2>1
<1>10. ca \o cs = cb \o ct
  BY <1>6 DEF MacBlocks
<1>11. /\ ca \in Seq(Seq(B)) /\ cs \in Seq(Seq(B)) /\ cb \in Seq(Seq(B)) /\ ct \in Seq(Seq(B))
  BY <1>5 DEF Blocks
<1> HIDE DEF ca, cb, cs, ct
<1>12. ca = cb /\ cs = ct
  <2>1. /\ Len(ca \o cs) = Len(ca) + Len(cs)
        /\ \A j \in 1 .. Len(ca) : (ca \o cs)[j] = ca[j]
        /\ \A j \in 1 .. Len(cs) : (ca \o cs)[Len(ca) + j] = cs[j]
    BY <1>11, Behind
  <2>2. /\ Len(cb \o ct) = Len(cb) + Len(ct)
        /\ \A j \in 1 .. Len(cb) : (cb \o ct)[j] = cb[j]
        /\ \A j \in 1 .. Len(ct) : (cb \o ct)[Len(cb) + j] = ct[j]
    BY <1>11, Behind
  <2>3. Len(ca) \in Nat /\ Len(cb) \in Nat /\ Len(cs) \in Nat /\ Len(ct) \in Nat
    BY <1>11
  <2>4. Len(ca) = Len(cb)
    BY <1>9, <1>10, <2>1, <2>2, <2>3
  <2>5. \A j \in 1 .. Len(ca) : ca[j] = cb[j]
    BY <1>10, <2>1, <2>2, <2>4
  <2>6. \A j \in 1 .. Len(cs) : cs[j] = ct[j]
    BY <1>9, <1>10, <2>1, <2>2, <2>4
  <2> QED
    BY <1>9, <1>11, <2>4, <2>5, <2>6, SeqEqual
<1>13. s = t
  BY <1>7, <1>8, <1>12, SamePad DEF cs, ct
<1>14. a = b
  BY <1>8, <1>12, SameHeader DEF ca, cb
<1> QED
  BY <1>7, <1>13, <1>14

-----------------------------------------------------------------------------
(* The byte of the keystream that masks a byte of the text, and of the MIC. *)
TextAtom(n, i) ==
    <<"header", "ctr", n, (FirstCounter + ((i - 1) \div AES_BLOCK_SIZE)) % CTR_MOD,
      ((i - 1) % AES_BLOCK_SIZE) + 1>>
MicAtom(n, j) == <<"header", "ctr", n, 0 % CTR_MOD, j>>
CtrAtom(x) == x[1] = "header" /\ x[2] = "ctr"
CtrAtoms(byte) == {x \in byte : CtrAtom(x)}

(* Bytes that the texts a nonce masks are made of, masked or not. *)
MaskedSet(n, B) == B \union {XOR(b, {TextAtom(n, i)}) : b \in B, i \in Nat}

(* Masking twice is not masking. *)
LEMMA MaskTwice ==
    ASSUME NEW a, NEW b, NEW c
    PROVE  /\ XOR(XOR(a, c), c) = a
           /\ XOR(a, c) = XOR(b, c) => a = b
<1>1. ASSUME NEW z
      PROVE  XOR(XOR(z, c), c) = z
  <2>1. ASSUME NEW x
        PROVE  x \in XOR(XOR(z, c), c) <=> x \in z
    BY DEF XOR, SymDiff
  <2> QED
    BY <2>1
<1>2. XOR(XOR(a, c), c) = a /\ XOR(XOR(b, c), c) = b
  BY <1>1
<1> QED
  BY <1>2

(* The atoms of the keystream are none of the MAC's. *)
LEMMA CtrIsNotMac ==
    /\ \A n, i : CtrAtom(TextAtom(n, i)) /\ CtrAtom(MicAtom(n, i))
    /\ \A x : CtrAtom(x) => ~ MacAtom(x)
<1>1. \A n, i : CtrAtom(TextAtom(n, i)) /\ CtrAtom(MicAtom(n, i))
  BY DEF CtrAtom, TextAtom, MicAtom
<1>2. ASSUME NEW x, CtrAtom(x)
      PROVE  ~ MacAtom(x)
  <2>1. x[1] = "header" /\ x[2] = "ctr" /\ "header" # "chain" /\ "ctr" # "b0"
    BY <1>2 DEF CtrAtom
  <2> QED
    BY <2>1 DEF MacAtom
<1> QED
  BY <1>1, <1>2

(* Plain bytes stay plain under the mask, and the bytes the MAC adds are   *)
(* still there.                                                            *)
LEMMA MaskedBytes ==
    ASSUME NEW B, NEW n
    PROVE  /\ B \subseteq MaskedSet(n, B)
           /\ MacBytes(B) => MacBytes(MaskedSet(n, B))
           /\ PlainBytes(B) => PlainBytes(MaskedSet(n, B))
<1>1. B \subseteq MaskedSet(n, B)
  BY DEF MaskedSet
<1>2. MacBytes(B) => MacBytes(MaskedSet(n, B))
  BY <1>1 DEF MacBytes
<1>3. ASSUME \A x \in B : Plain(x), NEW y \in MaskedSet(n, B)
      PROVE  Plain(y)
  <2>1. CASE y \in B
    BY <1>3, <2>1
  <2>2. CASE y \in {XOR(b, {TextAtom(n, i)}) : b \in B, i \in Nat}
    <3>1. PICK b \in B, i \in Nat : y = XOR(b, {TextAtom(n, i)})
      BY <2>2
    <3>2. Plain(b) /\ ~ MacAtom(TextAtom(n, i))
      BY <1>3, CtrIsNotMac
    <3>3. \A x \in y : x \in b \/ x = TextAtom(n, i)
      BY <3>1 DEF XOR, SymDiff
    <3> QED
      BY <3>2, <3>3 DEF Plain
  <2> QED
    BY <2>1, <2>2 DEF MaskedSet
<1> QED
  BY <1>1, <1>2, <1>3 DEF PlainBytes

(* A byte under the keystream is a masked byte of its nonce. *)
LEMMA MaskedByte ==
    ASSUME NEW B, NEW n, NEW b \in B, NEW i \in Nat
    PROVE  XOR(b, {TextAtom(n, i)}) \in MaskedSet(n, B)
BY DEF MaskedSet

(* The counter mode masks each byte with its own of the keystream. *)
LEMMA CtrEncryptShape ==
    ASSUME NEW B, NEW n, NEW s \in Seq(B)
    PROVE  /\ CtrEncrypt(n, s) \in Seq(MaskedSet(n, B))
           /\ Len(CtrEncrypt(n, s)) = Len(s)
           /\ \A i \in 1 .. Len(s) : CtrEncrypt(n, s)[i] = XOR(s[i], {TextAtom(n, i)})
<1>1. Len(s) \in Nat /\ DOMAIN s = 1 .. Len(s) /\ \A i \in 1 .. Len(s) : s[i] \in B
  OBVIOUS
<1>2. ASSUME NEW i \in 1 .. Len(s)
      PROVE  /\ CtrEncrypt(n, s)[i] = XOR(s[i], {TextAtom(n, i)})
             /\ CtrEncrypt(n, s)[i] \in MaskedSet(n, B)
  <2>1. PICK c, p : /\ c = FirstCounter + ((i - 1) \div AES_BLOCK_SIZE)
                    /\ p = ((i - 1) % AES_BLOCK_SIZE) + 1
    OBVIOUS
  <2>2. p \in 1 .. AES_BLOCK_SIZE
    <3>1. i - 1 \in Int /\ AES_BLOCK_SIZE \in Nat \ {0}
      BY <1>1, CcmSizes
    <3>2. (i - 1) % AES_BLOCK_SIZE \in 0 .. AES_BLOCK_SIZE - 1
      BY <3>1, DivMod
    <3> QED
      BY <2>1, <3>1, <3>2
  <2>3. KeystreamBlock(n, c)[p] = {<<"header", "ctr", n, c % CTR_MOD, p>>}
    BY <2>2 DEF KeystreamBlock, EncryptHeader
  <2>4. CtrEncrypt(n, s)[i] = XOR(s[i], KeystreamBlock(n, c)[p])
    BY <1>1, <2>1 DEF CtrEncrypt
  <2>5. TextAtom(n, i) = <<"header", "ctr", n, c % CTR_MOD, p>>
    BY <2>1 DEF TextAtom
  <2>6. CtrEncrypt(n, s)[i] = XOR(s[i], {TextAtom(n, i)})
    BY <2>3, <2>4, <2>5
  <2>7. s[i] \in B /\ i \in Nat
    BY <1>1
  <2>8. XOR(s[i], {TextAtom(n, i)}) \in MaskedSet(n, B)
    BY <2>7, MaskedByte
  <2> QED
    BY <2>6, <2>8
<1>3. CtrEncrypt(n, s) = [i \in 1 .. Len(s) |-> CtrEncrypt(n, s)[i]]
  BY <1>1 DEF CtrEncrypt
<1>4. CtrEncrypt(n, s) \in [1 .. Len(s) -> MaskedSet(n, B)]
  BY <1>2, <1>3
<1>5. CtrEncrypt(n, s) \in Seq(MaskedSet(n, B)) /\ Len(CtrEncrypt(n, s)) = Len(s)
  BY <1>1, <1>4
<1> QED
  BY <1>2, <1>5

(* And the MIC with those of the counter 0. *)
LEMMA MaskMicShape ==
    ASSUME NEW n, NEW mic, DOMAIN mic = 1 .. MIC_SIZE
    PROVE  MaskMic(n, mic) = [j \in 1 .. MIC_SIZE |-> XOR(mic[j], {MicAtom(n, j)})]
<1>1. ASSUME NEW j \in 1 .. MIC_SIZE
      PROVE  KeystreamBlock(n, 0)[j] = {MicAtom(n, j)}
  <2>1. j \in 1 .. AES_BLOCK_SIZE
    BY CcmSizes
  <2> QED
    BY <2>1 DEF KeystreamBlock, EncryptHeader, MicAtom
<1> QED
  BY <1>1 DEF MaskMic

-----------------------------------------------------------------------------
(* The frame data is the text under the masks and behind it its MAC under  *)
(* those of the MIC.                                                       *)
Opens(n, a, data, msg) ==
    /\ Len(data) = Len(msg) + MIC_SIZE
    /\ \A i \in 1 .. Len(msg) : msg[i] = XOR(data[i], {TextAtom(n, i)})
    /\ \A j \in 1 .. MIC_SIZE : CbcMac(n, a, msg)[j] = XOR(data[Len(msg) + j], {MicAtom(n, j)})

(* What ccmp_encrypt makes is that. *)
LEMMA SealedShape ==
    ASSUME NEW B, MacBytes(B), NEW n, NEW a \in Seq(B), NEW msg \in Seq(B)
    PROVE  /\ Opens(n, a, CcmpEncrypt(n, a, msg), msg)
           /\ \E D : CcmpEncrypt(n, a, msg) \in Seq(D)
<1> DEFINE mac == CbcMac(n, a, msg)
           front == CtrEncrypt(n, msg)
           back == MaskMic(n, mac)
           D == MaskedSet(n, B) \union {back[j] : j \in 1 .. MIC_SIZE}
<1>1. DOMAIN mac = 1 .. MIC_SIZE
  BY MacShape
<1>2. back = [j \in 1 .. MIC_SIZE |-> XOR(mac[j], {MicAtom(n, j)})]
  <2> HIDE DEF mac
  <2> QED
    BY <1>1, MaskMicShape
<1>3. /\ front \in Seq(MaskedSet(n, B)) /\ Len(front) = Len(msg)
      /\ \A i \in 1 .. Len(msg) : front[i] = XOR(msg[i], {TextAtom(n, i)})
  BY CtrEncryptShape
<1>4. CcmpEncrypt(n, a, msg) = front \o back
  BY DEF CcmpEncrypt
<1> HIDE DEF front, mac
<1>5. back \in Seq(D) /\ Len(back) = MIC_SIZE
  <2>1. back \in [1 .. MIC_SIZE -> D]
    BY <1>2
  <2> HIDE DEF back, D
  <2> QED
    BY <2>1, CcmSizes
<1>6. front \in Seq(D)
  BY <1>3
<1> HIDE DEF back, D
<1>7. /\ front \o back \in Seq(D) /\ Len(front \o back) = Len(front) + Len(back)
      /\ \A i \in 1 .. Len(front) : (front \o back)[i] = front[i]
      /\ \A j \in 1 .. Len(back) : (front \o back)[Len(front) + j] = back[j]
  BY <1>5, <1>6, Behind
<1>8. ASSUME NEW i \in 1 .. Len(msg)
      PROVE  msg[i] = XOR((front \o back)[i], {TextAtom(n, i)})
  <2>1. (front \o back)[i] = XOR(msg[i], {TextAtom(n, i)})
    BY <1>3, <1>7
  <2> QED
    BY <2>1, MaskTwice
<1>9. ASSUME NEW j \in 1 .. MIC_SIZE
      PROVE  mac[j] = XOR((front \o back)[Len(msg) + j], {MicAtom(n, j)})
  <2>1. (front \o back)[Len(msg) + j] = XOR(mac[j], {MicAtom(n, j)})
    BY <1>2, <1>3, <1>5, <1>7
  <2> QED
    BY <2>1, MaskTwice
<1>10. Len(front \o back) = Len(msg) + MIC_SIZE
  BY <1>3, <1>5, <1>7
<1> QED
  BY <1>4, <1>7, <1>8, <1>9, <1>10 DEF Opens, mac

HoldsText(data, l) == l \in Nat /\ Len(data) = l + MIC_SIZE

(* The text whose MAC is compared with the MIC that came. *)
Judges(n, a, data, l, msg) ==
    /\ Len(msg) = l
    /\ \A i \in 1 .. l : msg[i] = XOR(data[i], {TextAtom(n, i)})
    /\ Opens(n, a, data, msg) => CcmpDecrypt(n, a, data) = Some(msg)
    /\ ~ Opens(n, a, data, msg) => CcmpDecrypt(n, a, data) = Rejected

(* What ccmp_decrypt does with a frame that is long enough for a MIC. *)
LEMMA OpenedShape ==
    ASSUME NEW B, MacBytes(B), NEW n, NEW a \in Seq(B), NEW data \in Seq(B),
           NEW l \in Nat, HoldsText(data, l)
    PROVE  \E msg \in Seq(MaskedSet(n, B)) : Judges(n, a, data, l, msg)
<1> DEFINE cipher == SubSeq(data, 1, Len(data) - MIC_SIZE)
           tail == SubSeq(data, Len(data) - MIC_SIZE + 1, Len(data))
           received == MaskMic(n, tail)
           msg == CtrEncrypt(n, cipher)
<1>1. /\ MIC_SIZE \in Nat /\ ~ (Len(data) < MIC_SIZE) /\ Len(data) - MIC_SIZE = l
      /\ Len(data) = l + MIC_SIZE
  BY CcmSizes DEF HoldsText
<1>2. cipher \in Seq(B) /\ Len(cipher) = l /\ \A i \in 1 .. l : cipher[i] = data[i]
  <2>1. cipher = SubSeq(data, 0 + 1, 0 + l)
    BY <1>1
  <2>2. 0 \in Nat /\ 0 + l <= Len(data)
    BY <1>1
  <2>3. PICK z \in Nat : z = 0
    OBVIOUS
  <2>4. /\ SubSeq(data, z + 1, z + l) \in Seq(B)
        /\ Len(SubSeq(data, z + 1, z + l)) = l
        /\ \A i \in 1 .. l : SubSeq(data, z + 1, z + l)[i] = data[z + i]
    <3>1. z + l <= Len(data)
      BY <2>2, <2>3
    <3> QED
      BY <3>1, SliceAt
  <2>5. \A i \in 1 .. l : z + i = i
    BY <2>3
  <2> HIDE DEF cipher
  <2> QED
    BY <2>1, <2>3, <2>4, <2>5
<1>3. tail \in Seq(B) /\ Len(tail) = MIC_SIZE /\ \A j \in 1 .. MIC_SIZE : tail[j] = data[l + j]
  <2>1. tail = SubSeq(data, l + 1, l + MIC_SIZE)
    BY <1>1
  <2> HIDE DEF tail
  <2> QED
    BY <1>1, <2>1, SliceAt
<1> HIDE DEF cipher, tail
<1>4. /\ msg \in Seq(MaskedSet(n, B)) /\ Len(msg) = l
      /\ \A i \in 1 .. l : msg[i] = XOR(data[i], {TextAtom(n, i)})
  <2>1. /\ CtrEncrypt(n, cipher) \in Seq(MaskedSet(n, B))
        /\ Len(CtrEncrypt(n, cipher)) = Len(cipher)
        /\ \A i \in 1 .. Len(cipher) : CtrEncrypt(n, cipher)[i] = XOR(cipher[i], {TextAtom(n, i)})
    <3>1. cipher \in Seq(B)
      BY <1>2
    <3> QED
      BY <3>1, CtrEncryptShape
  <2> HIDE DEF msg
  <2>2. /\ msg \in Seq(MaskedSet(n, B))
        /\ Len(msg) = Len(cipher)
        /\ \A i \in 1 .. Len(cipher) : msg[i] = XOR(cipher[i], {TextAtom(n, i)})
    BY <2>1 DEF msg
  <2> QED
    BY <1>2, <2>2
<1>5. received = [j \in 1 .. MIC_SIZE |-> XOR(data[l + j], {MicAtom(n, j)})]
  <2>1. DOMAIN tail = 1 .. MIC_SIZE
    BY <1>3
  <2>2. received = [j \in 1 .. MIC_SIZE |-> XOR(tail[j], {MicAtom(n, j)})]
    BY <2>1, MaskMicShape
  <2> HIDE DEF received
  <2> QED
    BY <1>3, <2>2
<1>6. CcmpDecrypt(n, a, data) = IF received = CbcMac(n, a, msg) THEN Some(msg) ELSE Rejected
  BY <1>1 DEF CcmpDecrypt, cipher, tail
<1> HIDE DEF received, msg
<1>7. \E tag : CbcMac(n, a, msg) = [j \in 1 .. MIC_SIZE |-> tag[j]]
  <2>1. MacBytes(MaskedSet(n, B)) /\ a \in Seq(MaskedSet(n, B))
    BY MaskedBytes
  <2> QED
    BY <1>4, <2>1, MacShape
<1>8. Opens(n, a, data, msg) <=> received = CbcMac(n, a, msg)
  <2>1. Opens(n, a, data, msg) <=> \A j \in 1 .. MIC_SIZE : CbcMac(n, a, msg)[j] = received[j]
    BY <1>1, <1>4, <1>5 DEF Opens
  <2> QED
    BY <1>5, <1>7, <2>1
<1>9. Judges(n, a, data, l, msg)
  BY <1>4, <1>6, <1>8 DEF Judges
<1> QED
  BY <1>4, <1>9

-----------------------------------------------------------------------------
(* A text and its frame data give each other. *)
LEMMA SameFrame ==
    ASSUME NEW B, NEW n, NEW a, NEW s \in Seq(B), NEW d \in Seq(B), NEW msg, Len(msg) \in Nat,
           Opens(n, a, s, msg), Opens(n, a, d, msg)
    PROVE  s = d
<1> DEFINE l == Len(msg)
<1>1. /\ Len(s) = l + MIC_SIZE /\ Len(d) = l + MIC_SIZE
      /\ \A i \in 1 .. l : XOR(s[i], {TextAtom(n, i)}) = XOR(d[i], {TextAtom(n, i)})
      /\ \A j \in 1 .. MIC_SIZE : XOR(s[l + j], {MicAtom(n, j)}) = XOR(d[l + j], {MicAtom(n, j)})
  BY DEF Opens
<1>2. l \in Nat /\ MIC_SIZE \in Nat
  BY CcmSizes
<1> HIDE DEF l
<1>3. ASSUME NEW i \in 1 .. Len(s)
      PROVE  s[i] = d[i]
  <2>1. CASE i <= l
    <3>1. i \in 1 .. l
      BY <1>2, <2>1
    <3>2. XOR(s[i], {TextAtom(n, i)}) = XOR(d[i], {TextAtom(n, i)})
      BY <1>1, <3>1
    <3> QED
      BY <3>2, MaskTwice
  <2>2. CASE l < i
    <3>1. PICK j \in 1 .. MIC_SIZE : i = l + j
      <4>1. i - l \in 1 .. MIC_SIZE /\ i = l + (i - l)
        BY <1>1, <1>2, <2>2
      <4> QED
        BY <4>1
    <3>2. XOR(s[i], {MicAtom(n, j)}) = XOR(d[i], {MicAtom(n, j)})
      BY <1>1, <3>1
    <3> QED
      BY <3>2, MaskTwice
  <2>3. i <= l \/ l < i
    BY <1>2
  <2> QED
    BY <2>1, <2>2, <2>3
<1> QED
  BY <1>1, <1>3, SeqEqual

ShareMicByte(j, s, l, d, m) == s[l + j] = d[m + j]

(* Two frames that open under a nonce and have a byte of the MIC in common *)
(* are one: the text and the header are the same.                          *)
LEMMA FrameByMicByte ==
    ASSUME NEW P, PlainBytes(P), NEW n,
           NEW a \in Seq(P), NEW b \in Seq(P), NEW s, NEW d, NEW t \in Seq(P), NEW alt \in Seq(P),
           Opens(n, a, s, t), Opens(n, b, d, alt),
           NEW j \in 1 .. MIC_SIZE, ShareMicByte(j, s, Len(t), d, Len(alt))
    PROVE  a = b /\ t = alt
<1>1. CbcMac(n, a, t)[j] = CbcMac(n, b, alt)[j]
  BY DEF Opens, ShareMicByte
<1>2. SameMicByte(j, n, a, t, n, b, alt)
  BY <1>1 DEF SameMicByte
<1> QED
  BY <1>2, MacByByte

(* A byte that has one atom of the keystream, over bytes that have none. *)
Carries(byte, under, atom) == byte = under \union {atom} /\ CtrAtoms(byte) = {atom}

(* The MIC of a frame that opens carries the masks of the MIC. *)
LEMMA MicMask ==
    ASSUME NEW B, MacBytes(B), NEW n, NEW a \in Seq(B), NEW msg \in Seq(B), NEW data,
           Opens(n, a, data, msg), NEW j \in 1 .. MIC_SIZE
    PROVE  Carries(data[Len(msg) + j], CbcMac(n, a, msg)[j], MicAtom(n, j))
<1>1. PICK tag : IsTag(tag) /\ CbcMac(n, a, msg) = [k \in 1 .. MIC_SIZE |-> tag[k]]
  BY MacShape
<1>2. j \in 1 .. AES_BLOCK_SIZE
  BY CcmSizes
<1>3. PICK x : tag[j] = {x} /\ MacAtom(x)
  BY <1>1, <1>2, TagBytes
<1>4. data[Len(msg) + j] = XOR({x}, {MicAtom(n, j)})
  <2>1. XOR(data[Len(msg) + j], {MicAtom(n, j)}) = {x}
    BY <1>1, <1>3 DEF Opens
  <2> QED
    BY <2>1, MaskTwice
<1>5. ~ CtrAtom(x) /\ CtrAtom(MicAtom(n, j)) /\ x # MicAtom(n, j)
  BY <1>3, CtrIsNotMac
<1>6. data[Len(msg) + j] = {x} \union {MicAtom(n, j)}
  BY <1>4, <1>5 DEF XOR, SymDiff
<1>7. CtrAtoms(data[Len(msg) + j]) = {MicAtom(n, j)}
  BY <1>5, <1>6 DEF CtrAtoms
<1> QED
  BY <1>1, <1>3, <1>6, <1>7 DEF Carries

(* The text carries those of the text. *)
LEMMA TextMask ==
    ASSUME NEW n, NEW a, NEW data, NEW msg, Opens(n, a, data, msg),
           NEW i \in 1 .. Len(msg), CtrAtoms(msg[i]) = {}
    PROVE  Carries(data[i], msg[i], TextAtom(n, i))
<1>1. data[i] = XOR(msg[i], {TextAtom(n, i)})
  <2>1. msg[i] = XOR(data[i], {TextAtom(n, i)})
    BY DEF Opens
  <2> QED
    BY <2>1, MaskTwice
<1>2. CtrAtom(TextAtom(n, i))
  BY CtrIsNotMac
<1>3. TextAtom(n, i) \notin msg[i]
  BY <1>2 DEF CtrAtoms
<1>4. data[i] = msg[i] \union {TextAtom(n, i)}
  BY <1>1, <1>3 DEF XOR, SymDiff
<1> QED
  BY <1>2, <1>4 DEF CtrAtoms, Carries

(* Within the texts a frame can carry the counter does not come round. *)
LEMMA CounterOf ==
    ASSUME NEW n, NEW i \in 1 .. MaxText
    PROVE  \E q \in Nat, r \in 0 .. AES_BLOCK_SIZE - 1 :
              /\ i = Bytes(q, AES_BLOCK_SIZE) + r + 1
              /\ TextAtom(n, i) = <<"header", "ctr", n, q + 1, r + 1>>
<1> DEFINE bs == AES_BLOCK_SIZE
<1>1. bs \in Nat \ {0} /\ CTR_MOD \in Nat \ {0} /\ MaxText \in Nat
  BY CcmSizes, CcmSizeAssumption
<1>2. PICK h \in Nat : h = i - 1
  BY <1>1
<1>3. PICK q \in Nat, r \in 0 .. bs - 1 : h = Bytes(q, bs) + r
  BY <1>1, <1>2, BlocksAndRest
<1>4. h \div bs = q /\ h % bs = r
  BY <1>1, <1>3, BlocksAndRestUnique
<1>5. PICK m \in Nat : m = CTR_MOD - 1
  BY <1>1
<1>6. h < Bytes(m, bs)
  <2>1. bs * m = Bytes(m, bs)
    BY <1>1 DEF Bytes
  <2>2. MaxText <= Bytes(m, bs)
    BY <1>5, <2>1, CcmSizeAssumption
  <2>3. Bytes(m, bs) \in Nat
    BY <1>1 DEF Bytes
  <2> QED
    BY <1>1, <1>2, <2>2, <2>3
<1>7. q < m
  <2> SUFFICES ASSUME m <= q PROVE FALSE
    OBVIOUS
  <2>1. PICK d \in Nat : q = m + d
    <3>1. q - m \in Nat /\ q = m + (q - m)
      OBVIOUS
    <3> QED
      BY <3>1
  <2>2. Bytes(q, bs) = Bytes(m, bs) + Bytes(d, bs) /\ Bytes(m, bs) \in Nat /\ Bytes(d, bs) \in Nat
    BY <1>1, <2>1 DEF Bytes
  <2> QED
    BY <1>1, <1>3, <1>6, <2>2
<1>8. (FirstCounter + q) % CTR_MOD = q + 1
  <2>1. FirstCounter + q = q + 1 /\ q + 1 \in 0 .. CTR_MOD - 1
    BY <1>1, <1>5, <1>7 DEF FirstCounter
  <2> QED
    BY <1>1, <2>1
<1>9. TextAtom(n, i) = <<"header", "ctr", n, q + 1, r + 1>>
  <2>1. (i - 1) \div AES_BLOCK_SIZE = q /\ (i - 1) % AES_BLOCK_SIZE = r
    BY <1>2, <1>4
  <2> QED
    BY <1>8, <2>1 DEF TextAtom
<1>10. i = Bytes(q, bs) + r + 1
  <2>1. Bytes(q, bs) \in Nat
    BY <1>1 DEF Bytes
  <2> QED
    BY <1>1, <1>2, <1>3, <2>1
<1> QED
  BY <1>9, <1>10

(* The mask of each byte of a frame of l bytes of text: all are different. *)
MaskAt(n, l, i) == IF i <= l THEN TextAtom(n, i) ELSE MicAtom(n, i - l)

(* No two places of a frame, its tag's included, are under the same         *)
(* keystream byte.                                                          *)
LEMMA MasksDiffer ==
    ASSUME NEW n, NEW l \in 0 .. MaxText, NEW i \in 1 .. l + MIC_SIZE, NEW k \in 1 .. l + MIC_SIZE,
           MaskAt(n, l, i) = MaskAt(n, l, k)
    PROVE  i = k
<1>1. MaxText \in Nat /\ MIC_SIZE \in Nat /\ CTR_MOD \in Nat \ {0} /\ 0 % CTR_MOD = 0
  BY CcmSizes, CcmSizeAssumption
<1>2. ASSUME NEW x \in 1 .. l, NEW y \in 1 .. l, TextAtom(n, x) = TextAtom(n, y)
      PROVE  x = y
  <2>1. x \in 1 .. MaxText /\ y \in 1 .. MaxText
    BY <1>1
  <2>2. PICK q \in Nat, r \in 0 .. AES_BLOCK_SIZE - 1 :
           /\ x = Bytes(q, AES_BLOCK_SIZE) + r + 1
           /\ TextAtom(n, x) = <<"header", "ctr", n, q + 1, r + 1>>
    BY <2>1, CounterOf
  <2>3. PICK p \in Nat, o \in 0 .. AES_BLOCK_SIZE - 1 :
           /\ y = Bytes(p, AES_BLOCK_SIZE) + o + 1
           /\ TextAtom(n, y) = <<"header", "ctr", n, p + 1, o + 1>>
    BY <2>1, CounterOf
  <2>4. q + 1 = p + 1 /\ r + 1 = o + 1
    BY <1>2, <2>2, <2>3
  <2>5. q = p /\ r = o
    BY <2>4
  <2> QED
    BY <2>2, <2>3, <2>5
<1>3. ASSUME NEW x \in 1 .. l, NEW y
      PROVE  TextAtom(n, x) # MicAtom(n, y)
  <2>1. x \in 1 .. MaxText
    BY <1>1
  <2>2. PICK q \in Nat, r \in 0 .. AES_BLOCK_SIZE - 1 :
           TextAtom(n, x) = <<"header", "ctr", n, q + 1, r + 1>>
    BY <2>1, CounterOf
  <2>3. MicAtom(n, y) = <<"header", "ctr", n, 0, y>>
    BY <1>1 DEF MicAtom
  <2>4. q + 1 # 0
    OBVIOUS
  <2>5. <<"header", "ctr", n, q + 1, r + 1>>[4] = q + 1 /\ <<"header", "ctr", n, 0, y>>[4] = 0
    OBVIOUS
  <2> QED
    BY <2>2, <2>3, <2>4, <2>5
<1>4. ASSUME NEW x, NEW y, MicAtom(n, x) = MicAtom(n, y)
      PROVE  x = y
  <2>1. MicAtom(n, x)[5] = x /\ MicAtom(n, y)[5] = y
    BY DEF MicAtom
  <2> QED
    BY <1>4, <2>1
<1>5. CASE i <= l /\ k <= l
  <2>1. i \in 1 .. l /\ k \in 1 .. l
    BY <1>1, <1>5
  <2>2. TextAtom(n, i) = TextAtom(n, k)
    BY <1>5 DEF MaskAt
  <2> QED
    BY <1>2, <2>1, <2>2
<1>6. CASE i <= l /\ l < k
  <2>1. i \in 1 .. l /\ ~ (k <= l)
    BY <1>1, <1>6
  <2>2. TextAtom(n, i) = MicAtom(n, k - l)
    BY <1>6, <2>1 DEF MaskAt
  <2> QED
    BY <1>3, <2>1, <2>2
<1>7. CASE l < i /\ k <= l
  <2>1. k \in 1 .. l /\ ~ (i <= l)
    BY <1>1, <1>7
  <2>2. TextAtom(n, k) = MicAtom(n, i - l)
    BY <1>7, <2>1 DEF MaskAt
  <2> QED
    BY <1>3, <2>1, <2>2
<1>8. CASE l < i /\ l < k
  <2>1. ~ (i <= l) /\ ~ (k <= l)
    BY <1>1, <1>8
  <2>2. MicAtom(n, i - l) = MicAtom(n, k - l)
    BY <2>1 DEF MaskAt
  <2>3. i - l = k - l
    BY <1>4, <2>2
  <2> QED
    BY <1>1, <2>3
<1>9. (i <= l \/ l < i) /\ (k <= l \/ l < k)
  BY <1>1
<1> QED
  BY <1>5, <1>6, <1>7, <1>8, <1>9

-----------------------------------------------------------------------------
(* Two bytes of a tag have nothing in common: they name their places. *)
LEMMA TagPlaces ==
    ASSUME NEW tag, IsTag(tag), NEW i \in 1 .. AES_BLOCK_SIZE, NEW k \in 1 .. AES_BLOCK_SIZE,
           NEW x, x \in tag[i], x \in tag[k]
    PROVE  i = k
<1>1. CASE IsStart(tag)
  <2>1. PICK n, word : tag = EncryptHeader("b0", n, word)
    BY <1>1 DEF IsStart
  <2>2. x = <<"header", "b0", n, word, i>> /\ x = <<"header", "b0", n, word, k>>
    BY <2>1 DEF EncryptHeader
  <2>3. <<"header", "b0", n, word, i>>[5] = i /\ <<"header", "b0", n, word, k>>[5] = k
    OBVIOUS
  <2> QED
    BY <2>2, <2>3
<1>2. CASE IsChained(tag)
  <2>1. PICK b : tag = EncryptBlock(b)
    BY <1>2 DEF IsChained
  <2>2. x = <<"chain", b, i>> /\ x = <<"chain", b, k>>
    BY <2>1 DEF EncryptBlock
  <2>3. <<"chain", b, i>>[3] = i /\ <<"chain", b, k>>[3] = k
    OBVIOUS
  <2> QED
    BY <2>2, <2>3
<1> QED
  BY <1>1, <1>2 DEF IsTag

(* The bytes of the texts and headers of the model, with those the MAC adds. *)
Frame == TextBytes \union {AadLength(i, n) : i \in 1 .. 2, n \in Nat}

(* What a frame is made of carries nothing of the cipher. *)
LEMMA FrameIsPlain ==
    /\ PlainBytes(Frame)
    /\ \A byte \in TextBytes : CtrAtoms(byte) = {} /\ CipherAtoms(byte) = {}
    /\ CtrAtoms(Flip) = {} /\ Plain(Flip)
<1>1. ASSUME NEW byte \in TextBytes \union {Flip}, NEW x \in byte
      PROVE  ~ MacAtom(x) /\ ~ CtrAtom(x) /\ x[1] \notin {"header", "chain"}
  <2>1. x = <<"letter", 0>> \/ x = <<"flip", 0>>
    BY <1>1 DEF TextBytes, Letter, Zero, Flip
  <2>2. x[1] = "letter" \/ x[1] = "flip"
    BY <2>1
  <2> QED
    BY <2>2 DEF MacAtom, CtrAtom
<1>2. ASSUME NEW i \in 1 .. 2, NEW n \in Nat
      PROVE  Plain(AadLength(i, n))
  <2>1. <<"length", i, n>>[1] = "length"
    OBVIOUS
  <2> QED
    BY <2>1 DEF AadLength, Plain, MacAtom
<1>3. ASSUME NEW byte \in TextBytes \union {Flip}
      PROVE  Plain(byte) /\ CtrAtoms(byte) = {} /\ CipherAtoms(byte) = {}
  BY <1>1 DEF Plain, CtrAtoms, CipherAtoms
<1>4. Zero \in Frame /\ \A i \in 1 .. 2, n \in Nat : AadLength(i, n) \in Frame
  BY DEF Frame, TextBytes
<1>5. \A byte \in Frame : Plain(byte)
  BY <1>2, <1>3 DEF Frame
<1> QED
  BY <1>3, <1>4, <1>5 DEF PlainBytes, MacBytes

(* What is sealed, as it goes on the air. *)
SealedAs(n, a, msg, s) ==
    /\ a \in Seq(TextBytes) /\ msg \in Seq(TextBytes) /\ Len(msg) \in 0 .. MaxText
    /\ Opens(n, a, s, msg)
    /\ \E D : s \in Seq(D)

(* ccmp_encrypt seals: what it returns is the text under the nonce's        *)
(* keystream, followed by the masked tag.                                   *)
LEMMA SealedIs ==
    ASSUME NEW n, NEW a \in Seq(TextBytes), NEW msg \in Seq(TextBytes), Len(msg) \in 0 .. MaxText
    PROVE  SealedAs(n, a, msg, CcmpEncrypt(n, a, msg))
<1>1. a \in Seq(Frame) /\ msg \in Seq(Frame) /\ MacBytes(Frame)
  BY FrameIsPlain DEF Frame, PlainBytes
<1> QED
  BY <1>1, SealedShape DEF SealedAs

(* Every byte of it has its own mask and no other. *)
LEMMA SealMasks ==
    ASSUME NEW n, NEW a, NEW msg, NEW s, SealedAs(n, a, msg, s), NEW i \in 1 .. Len(s)
    PROVE  \/ /\ i \in 1 .. Len(msg) /\ Plain(s[i]) /\ msg[i] \in TextBytes
              /\ Carries(s[i], msg[i], MaskAt(n, Len(msg), i))
           \/ \E j \in 1 .. MIC_SIZE :
                 /\ i = Len(msg) + j
                 /\ Carries(s[i], CbcMac(n, a, msg)[j], MaskAt(n, Len(msg), i))
<1>1. /\ Opens(n, a, s, msg) /\ Len(msg) \in Nat /\ MIC_SIZE \in Nat
      /\ a \in Seq(Frame) /\ msg \in Seq(Frame) /\ msg \in Seq(TextBytes) /\ MacBytes(Frame)
  <2>1. /\ Opens(n, a, s, msg) /\ a \in Seq(TextBytes) /\ msg \in Seq(TextBytes)
    BY DEF SealedAs
  <2>2. TextBytes \subseteq Frame /\ MacBytes(Frame)
    BY FrameIsPlain DEF Frame, PlainBytes
  <2>3. Len(msg) \in Nat /\ MIC_SIZE \in Nat
    BY <2>1, CcmSizes
  <2> QED
    BY <2>1, <2>2, <2>3
<1>2. Len(s) = Len(msg) + MIC_SIZE
  BY <1>1 DEF Opens
<1>3. CASE i <= Len(msg)
  <2>1. i \in 1 .. Len(msg)
    BY <1>1, <1>3
  <2>2. msg[i] \in TextBytes
    BY <1>1, <2>1
  <2>3. CtrAtoms(msg[i]) = {} /\ Plain(msg[i])
    BY <2>2, FrameIsPlain DEF Frame, PlainBytes
  <2>4. Carries(s[i], msg[i], TextAtom(n, i))
    BY <1>1, <2>1, <2>3, TextMask
  <2>5. Plain(s[i])
    <3>1. ~ MacAtom(TextAtom(n, i))
      BY CtrIsNotMac
    <3> QED
      BY <2>3, <2>4, <3>1 DEF Plain, Carries
  <2> QED
    BY <1>3, <2>1, <2>2, <2>4, <2>5 DEF MaskAt
<1>4. CASE Len(msg) < i
  <2>1. PICK j \in 1 .. MIC_SIZE : i = Len(msg) + j
    <3>1. i - Len(msg) \in 1 .. MIC_SIZE /\ i = Len(msg) + (i - Len(msg))
      BY <1>1, <1>2, <1>4
    <3> QED
      BY <3>1
  <2>2. Carries(s[Len(msg) + j], CbcMac(n, a, msg)[j], MicAtom(n, j))
    BY <1>1, MicMask
  <2>3. ~ (i <= Len(msg)) /\ i - Len(msg) = j
    BY <1>1, <1>4, <2>1
  <2> QED
    BY <2>1, <2>2, <2>3 DEF MaskAt
<1>5. i <= Len(msg) \/ Len(msg) < i
  BY <1>1
<1> QED
  BY <1>3, <1>4, <1>5

MaskedBy(byte, atom) == CtrAtoms(byte) = {atom}

(* No two bytes of it have the same mask. *)
LEMMA SealMasksDiffer ==
    ASSUME NEW n, NEW a, NEW msg, NEW s, SealedAs(n, a, msg, s), NEW i \in 1 .. Len(s)
    PROVE  /\ MaskedBy(s[i], MaskAt(n, Len(msg), i))
           /\ \A k \in 1 .. Len(s) : MaskAt(n, Len(msg), i) = MaskAt(n, Len(msg), k) => i = k
<1>1. MaskedBy(s[i], MaskAt(n, Len(msg), i))
  <2>1. \E under : Carries(s[i], under, MaskAt(n, Len(msg), i))
    BY SealMasks
  <2> QED
    BY <2>1 DEF Carries, MaskedBy
<1>2. Len(msg) \in 0 .. MaxText /\ Len(s) = Len(msg) + MIC_SIZE
  BY DEF SealedAs, Opens
<1>3. ASSUME NEW k \in 1 .. Len(s), MaskAt(n, Len(msg), i) = MaskAt(n, Len(msg), k)
      PROVE  i = k
  BY <1>2, <1>3, MasksDiffer
<1> QED
  BY <1>1, <1>3

(* A sealed frame has the tag of its own nonce, header and text. *)
LEMMA SealHasTag ==
    ASSUME NEW n, NEW a, NEW msg, NEW s, SealedAs(n, a, msg, s)
    PROVE  \E tag : IsTag(tag) /\ CbcMac(n, a, msg) = [j \in 1 .. MIC_SIZE |-> tag[j]]
<1>1. MacBytes(Frame) /\ a \in Seq(Frame) /\ msg \in Seq(Frame)
  BY FrameIsPlain DEF SealedAs, Frame, PlainBytes
<1> QED
  BY <1>1, MacShape

(* Neither the keystream's bytes nor the MAC's come twice in it. *)
LEMMA SealUsesOnce ==
    ASSUME NEW n, NEW a, NEW msg, NEW s, SealedAs(n, a, msg, s),
           NEW i \in 1 .. Len(s), NEW k \in 1 .. Len(s),
           NEW x, x \in CipherAtoms(s[i]), x \in CipherAtoms(s[k])
    PROVE  i = k
<1>1. x \in s[i] /\ x \in s[k] /\ x[1] \in {"header", "chain"}
  BY DEF CipherAtoms
<1>2. CASE CtrAtom(x)
  <2>1. x \in CtrAtoms(s[i]) /\ x \in CtrAtoms(s[k])
    BY <1>1, <1>2 DEF CtrAtoms
  <2>2. \A p \in 1 .. Len(s) : x \in CtrAtoms(s[p]) => x = MaskAt(n, Len(msg), p)
    <3>1. \A p \in 1 .. Len(s) : MaskedBy(s[p], MaskAt(n, Len(msg), p))
      BY SealMasksDiffer
    <3> QED
      BY <3>1 DEF MaskedBy
  <2>3. MaskAt(n, Len(msg), i) = MaskAt(n, Len(msg), k)
    BY <2>1, <2>2
  <2> QED
    BY <2>3, SealMasksDiffer
<1>3. CASE ~ CtrAtom(x)
  <2>2. PICK tag : IsTag(tag) /\ CbcMac(n, a, msg) = [j \in 1 .. MIC_SIZE |-> tag[j]]
    BY SealHasTag
  <2>3. ASSUME NEW p
        PROVE  x # MaskAt(n, Len(msg), p)
    BY <1>3, CtrIsNotMac DEF MaskAt
  <2>4. ASSUME NEW p \in 1 .. Len(s), x \in s[p]
        PROVE  \E j \in 1 .. MIC_SIZE : p = Len(msg) + j /\ x \in tag[j]
    <3>1. ASSUME msg[p] \in TextBytes, Carries(s[p], msg[p], MaskAt(n, Len(msg), p))
          PROVE  FALSE
      <4>1. x \in msg[p]
        BY <2>3, <2>4, <3>1 DEF Carries
      <4>2. x \in CipherAtoms(msg[p])
        BY <1>1, <4>1 DEF CipherAtoms
      <4> QED
        BY <3>1, <4>2, FrameIsPlain
    <3>2. ASSUME NEW j \in 1 .. MIC_SIZE, Carries(s[p], CbcMac(n, a, msg)[j], MaskAt(n, Len(msg), p))
          PROVE  x \in tag[j]
      <4>1. x \in CbcMac(n, a, msg)[j]
        BY <2>3, <2>4, <3>2 DEF Carries
      <4> QED
        BY <2>2, <4>1
    <3> QED
      BY <3>1, <3>2, SealMasks
  <2>5. PICK j \in 1 .. MIC_SIZE : i = Len(msg) + j /\ x \in tag[j]
    BY <1>1, <2>4
  <2>6. PICK m \in 1 .. MIC_SIZE : k = Len(msg) + m /\ x \in tag[m]
    BY <1>1, <2>4
  <2>7. j \in 1 .. AES_BLOCK_SIZE /\ m \in 1 .. AES_BLOCK_SIZE
    BY CcmSizes
  <2>8. j = m
    BY <2>2, <2>5, <2>6, <2>7, TagPlaces
  <2> QED
    BY <2>5, <2>6, <2>8
<1> QED
  BY <1>2, <1>3

-----------------------------------------------------------------------------
(* Bytes of a frame, whatever they are, and those the MAC adds. *)
LEMMA AnyFrame ==
    ASSUME NEW D
    PROVE  MacBytes(D \union Frame)
BY FrameIsPlain DEF PlainBytes, MacBytes

(* The text that ccmp_decrypt judges. *)
LEMMA Judged ==
    ASSUME NEW n, NEW a \in Seq(TextBytes), NEW D, NEW data \in Seq(D),
           NEW l \in Nat, HoldsText(data, l)
    PROVE  \E B, msg : msg \in Seq(B) /\ MacBytes(B) /\ a \in Seq(B) /\ Judges(n, a, data, l, msg)
<1> DEFINE B == D \union Frame
<1>1. MacBytes(B) /\ a \in Seq(B) /\ data \in Seq(B)
  <2>1. TextBytes \subseteq B /\ D \subseteq B
    BY DEF Frame
  <2>2. MacBytes(D \union Frame)
    BY AnyFrame
  <2> QED
    BY <2>1, <2>2
<1> HIDE DEF B
<1>2. MacBytes(MaskedSet(n, B)) /\ a \in Seq(MaskedSet(n, B))
  BY <1>1, MaskedBytes
<1>3. \E msg \in Seq(MaskedSet(n, B)) : Judges(n, a, data, l, msg)
  BY <1>1, OpenedShape
<1> QED
  BY <1>2, <1>3

(* Sealed data opens as the text. *)
LEMMA SealedOpens ==
    ASSUME NEW n, NEW a, NEW msg, NEW s, SealedAs(n, a, msg, s)
    PROVE  CcmpDecrypt(n, a, s) = Some(msg)
<1>1. /\ a \in Seq(TextBytes) /\ msg \in Seq(TextBytes) /\ Len(msg) \in Nat
      /\ Opens(n, a, s, msg)
  BY DEF SealedAs
<1>2. PICK D : s \in Seq(D)
  BY DEF SealedAs
<1>3. /\ Len(s) = Len(msg) + MIC_SIZE
      /\ \A i \in 1 .. Len(msg) : msg[i] = XOR(s[i], {TextAtom(n, i)})
      /\ HoldsText(s, Len(msg))
  BY <1>1 DEF Opens, HoldsText
<1>4. PICK B, alt : alt \in Seq(B) /\ Judges(n, a, s, Len(msg), alt)
  BY <1>1, <1>2, <1>3, Judged
<1>5. alt = msg
  <2>1. \A i \in 1 .. Len(msg) : alt[i] = msg[i]
    BY <1>3, <1>4 DEF Judges
  <2>2. Len(alt) = Len(msg)
    BY <1>4 DEF Judges
  <2> QED
    BY <1>1, <1>4, <2>1, <2>2, SeqEqual
<1> QED
  BY <1>1, <1>4, <1>5 DEF Judges

(* A frame whose MIC does not carry the masks of the MIC is rejected. *)
LEMMA RejectsUnmasked ==
    ASSUME NEW n, NEW a \in Seq(TextBytes), NEW D, NEW data \in Seq(D),
           NEW l \in Nat, HoldsText(data, l),
           NEW j \in 1 .. MIC_SIZE, ~ MaskedBy(data[l + j], MicAtom(n, j))
    PROVE  CcmpDecrypt(n, a, data) = Rejected
<1>1. PICK B, msg : msg \in Seq(B) /\ MacBytes(B) /\ a \in Seq(B) /\ Judges(n, a, data, l, msg)
  BY Judged
<1>2. ~ Opens(n, a, data, msg)
  <2> SUFFICES ASSUME Opens(n, a, data, msg) PROVE FALSE
    OBVIOUS
  <2>1. Carries(data[Len(msg) + j], CbcMac(n, a, msg)[j], MicAtom(n, j))
    BY <1>1, MicMask
  <2> QED
    BY <1>1, <2>1 DEF Carries, MaskedBy, Judges
<1> QED
  BY <1>1, <1>2 DEF Judges

(* One that has a byte of another's MIC, with no byte of a MAC before its  *)
(* own MIC, is rejected, unless it is that frame under that header.        *)
LEMMA RejectsUnlike ==
    ASSUME NEW n, NEW a, NEW msg, NEW s, SealedAs(n, a, msg, s),
           NEW b \in Seq(TextBytes), NEW D, NEW data \in Seq(D),
           NEW l \in Nat, HoldsText(data, l),
           \A i \in 1 .. l : Plain(data[i]),
           NEW j \in 1 .. MIC_SIZE, ShareMicByte(j, s, Len(msg), data, l),
           data # s \/ b # a
    PROVE  CcmpDecrypt(n, b, data) = Rejected
<1>0. PICK B, alt : alt \in Seq(B) /\ Judges(n, b, data, l, alt)
  BY Judged
<1>1. /\ alt \in Seq(B) /\ Len(alt) = l
      /\ \A i \in 1 .. l : alt[i] = XOR(data[i], {TextAtom(n, i)})
      /\ ~ Opens(n, b, data, alt) => CcmpDecrypt(n, b, data) = Rejected
  BY <1>0 DEF Judges
<1> SUFFICES ASSUME Opens(n, b, data, alt) PROVE FALSE
  BY <1>1
<1> DEFINE P == Frame \union {alt[i] : i \in 1 .. l}
<1>2. PlainBytes(P)
  <2>1. ASSUME NEW i \in 1 .. l
        PROVE  Plain(alt[i])
    <3>1. Plain(data[i]) /\ ~ MacAtom(TextAtom(n, i)) /\ alt[i] = XOR(data[i], {TextAtom(n, i)})
      BY <1>1, CtrIsNotMac
    <3>2. \A x \in alt[i] : x \in data[i] \/ x = TextAtom(n, i)
      BY <3>1 DEF XOR, SymDiff
    <3> QED
      BY <3>1, <3>2 DEF Plain
  <2> QED
    BY <2>1, FrameIsPlain DEF PlainBytes, MacBytes
<1>3. /\ a \in Seq(P) /\ b \in Seq(P) /\ msg \in Seq(P) /\ alt \in Seq(P)
      /\ Opens(n, a, s, msg) /\ msg \in Seq(TextBytes)
  <2>1. a \in Seq(TextBytes) /\ msg \in Seq(TextBytes) /\ TextBytes \subseteq P /\ Opens(n, a, s, msg)
    BY DEF SealedAs, Frame
  <2>2. alt \in Seq(P)
    <3>1. \A i \in 1 .. Len(alt) : alt[i] \in P
      BY <1>1
    <3>2. alt \in [1 .. Len(alt) -> P] /\ Len(alt) \in Nat
      BY <1>1, <3>1
    <3> QED
      BY <3>2
  <2> HIDE DEF P
  <2>3. a \in Seq(P) /\ msg \in Seq(P)
    BY <2>1
  <2>4. b \in Seq(P)
    BY <2>1
  <2> QED
    BY <2>1, <2>2, <2>3, <2>4
<1> HIDE DEF P
<1>4. ShareMicByte(j, s, Len(msg), data, Len(alt))
  BY <1>1 DEF ShareMicByte
<1>5. a = b /\ msg = alt
  BY <1>2, <1>3, <1>4, FrameByMicByte
<1>6. PICK E : s \in Seq(E)
  BY DEF SealedAs
<1>7. s = data
  <2>1. s \in Seq(D \union E) /\ data \in Seq(D \union E) /\ Len(alt) \in Nat
    BY <1>6
  <2>2. Opens(n, a, s, alt) /\ Opens(n, a, data, alt)
    BY <1>3, <1>5
  <2> QED
    BY <2>1, <2>2, SameFrame
<1> QED
  BY <1>5, <1>7

(* And so is one that differs in the MIC alone. *)
LEMMA RejectsOtherMic ==
    ASSUME NEW n, NEW a, NEW msg, NEW s, SealedAs(n, a, msg, s),
           NEW D, NEW data \in Seq(D), HoldsText(data, Len(msg)),
           \A i \in 1 .. Len(msg) : data[i] = s[i],
           data # s
    PROVE  CcmpDecrypt(n, a, data) = Rejected
<1>1. /\ Opens(n, a, s, msg) /\ msg \in Seq(TextBytes) /\ a \in Seq(TextBytes) /\ Len(msg) \in Nat
  BY DEF SealedAs
<1>2. \A i \in 1 .. Len(msg) : msg[i] = XOR(s[i], {TextAtom(n, i)})
  BY <1>1 DEF Opens
<1>3. PICK B, alt : alt \in Seq(B) /\ Judges(n, a, data, Len(msg), alt)
  BY <1>1, <1>2, Judged
<1>4. alt = msg
  <2>1. Len(alt) = Len(msg) /\ \A i \in 1 .. Len(alt) : alt[i] = msg[i]
    BY <1>2, <1>3 DEF Judges
  <2> QED
    BY <1>1, <1>3, <2>1, SeqEqual
<1>5. PICK E : s \in Seq(E)
  BY DEF SealedAs
<1>6. ~ Opens(n, a, data, msg)
  <2>1. s \in Seq(D \union E) /\ data \in Seq(D \union E)
    BY <1>5
  <2> QED
    BY <1>1, <2>1, SameFrame
<1> QED
  BY <1>3, <1>4, <1>6 DEF Judges

-----------------------------------------------------------------------------
(* The frame that was sealed, and its bytes. *)
LEMMA SealedBytes ==
    ASSUME NEW n, NEW a, NEW msg, NEW s, SealedAs(n, a, msg, s)
    PROVE  /\ HoldsText(s, Len(msg)) /\ Len(msg) \in Nat /\ Len(s) = Len(msg) + MIC_SIZE
           /\ MIC_SIZE \in Nat \ {0} /\ a \in Seq(TextBytes)
           /\ DOMAIN s = 1 .. Len(s)
           /\ \A i \in 1 .. Len(msg) : Plain(s[i]) /\ ~ (\E j \in 1 .. MIC_SIZE : i = Len(msg) + j)
<1>1. /\ HoldsText(s, Len(msg)) /\ Len(msg) \in Nat /\ Len(s) = Len(msg) + MIC_SIZE
      /\ MIC_SIZE \in Nat \ {0} /\ a \in Seq(TextBytes)
  BY CcmSizes DEF SealedAs, Opens, HoldsText
<1>2. DOMAIN s = 1 .. Len(s)
  BY DEF SealedAs
<1>3. ASSUME NEW i \in 1 .. Len(msg)
      PROVE  ~ (\E j \in 1 .. MIC_SIZE : i = Len(msg) + j) /\ i \in 1 .. Len(s)
  BY <1>1
<1>4. ASSUME NEW i \in 1 .. Len(msg)
      PROVE  Plain(s[i])
  BY <1>3, SealMasks
<1> QED
  BY <1>1, <1>2, <1>3, <1>4

(* A sequence with one byte changed. *)
IsChange(s, i, byte, data) ==
    /\ Len(data) = Len(s)
    /\ \A k \in 1 .. Len(s) : data[k] = IF k = i THEN byte ELSE s[k]

(* One byte overwritten changes that byte and no other. *)
LEMMA ChangeShape ==
    ASSUME NEW D, NEW s \in Seq(D), NEW i \in 1 .. Len(s), NEW byte
    PROVE  /\ [s EXCEPT ![i] = byte] \in Seq(D \union {byte})
           /\ IsChange(s, i, byte, [s EXCEPT ![i] = byte])
<1>1. Len(s) \in Nat /\ DOMAIN s = 1 .. Len(s) /\ \A k \in 1 .. Len(s) : s[k] \in D
  OBVIOUS
<1>2. PICK data : data = [k \in 1 .. Len(s) |-> IF k = i THEN byte ELSE s[k]]
  OBVIOUS
<1>3. data = [s EXCEPT ![i] = byte]
  BY <1>1, <1>2
<1>4. data \in [1 .. Len(s) -> D \union {byte}]
  BY <1>1, <1>2
<1>5. data \in Seq(D \union {byte}) /\ Len(data) = Len(s)
  BY <1>1, <1>4
<1> QED
  BY <1>2, <1>3, <1>5 DEF IsChange

(* One byte changed is not accepted: in the text, by the MIC, and in the   *)
(* MIC, by the text.                                                       *)
LEMMA RejectsChange ==
    ASSUME NEW n, NEW a, NEW msg, NEW s, SealedAs(n, a, msg, s),
           NEW i \in 1 .. Len(s), NEW byte, Plain(byte) \/ Len(msg) < i,
           NEW E, NEW data \in Seq(E), IsChange(s, i, byte, data), data # s
    PROVE  CcmpDecrypt(n, a, data) = Rejected
<1>1. /\ Len(msg) \in Nat /\ Len(s) = Len(msg) + MIC_SIZE
      /\ MIC_SIZE \in Nat \ {0} /\ a \in Seq(TextBytes)
  BY SealedBytes
<1>2. HoldsText(data, Len(msg))
  BY <1>1 DEF HoldsText, IsChange
<1>3. CASE i <= Len(msg)
  <2>1. ASSUME NEW k \in 1 .. Len(msg)
        PROVE  Plain(data[k])
    <3>1. k \in 1 .. Len(s) /\ Plain(s[k])
      BY <1>1, SealedBytes
    <3>2. Plain(byte)
      BY <1>1, <1>3
    <3> QED
      BY <3>1, <3>2 DEF IsChange
  <2>2. PICK j \in 1 .. MIC_SIZE : j = 1
    BY <1>1
  <2>3. ShareMicByte(j, s, Len(msg), data, Len(msg))
    <3>1. Len(msg) + j \in 1 .. Len(s) /\ Len(msg) + j # i
      BY <1>1, <1>3, <2>2
    <3> QED
      BY <3>1 DEF ShareMicByte, IsChange
  <2> QED
    BY <1>1, <1>2, <2>1, <2>3, RejectsUnlike
<1>4. CASE Len(msg) < i
  <2>1. \A k \in 1 .. Len(msg) : data[k] = s[k]
    <3>1. \A k \in 1 .. Len(msg) : k \in 1 .. Len(s) /\ k # i
      BY <1>1, <1>4
    <3> QED
      BY <3>1 DEF IsChange
  <2> QED
    BY <1>2, <2>1, RejectsOtherMic
<1>5. i <= Len(msg) \/ Len(msg) < i
  BY <1>1
<1> QED
  BY <1>3, <1>4, <1>5

-----------------------------------------------------------------------------
(* Frame data as long as that sealed, with a byte moved to a place of the  *)
(* MIC, is not accepted: each byte has the mask of its own place.          *)
LEMMA RejectsMoved ==
    ASSUME NEW n, NEW a, NEW msg, NEW s, SealedAs(n, a, msg, s),
           NEW E, NEW data \in Seq(E), NEW l \in Nat, HoldsText(data, l),
           NEW i \in 1 .. Len(s), NEW k \in 1 .. Len(s), NEW j \in 1 .. MIC_SIZE, k = l + j,
           data[k] = s[i],
           MaskAt(n, Len(msg), i) # MicAtom(n, j)
    PROVE  CcmpDecrypt(n, a, data) = Rejected
<1>1. a \in Seq(TextBytes)
  BY SealedBytes
<1>2. MaskedBy(s[i], MaskAt(n, Len(msg), i))
  BY SealMasksDiffer
<1>3. ~ MaskedBy(data[l + j], MicAtom(n, j))
  BY <1>2 DEF MaskedBy
<1> QED
  BY <1>1, <1>3, RejectsUnmasked

(* Two bytes that change places. *)
IsSwap(s, i, k, data) ==
    /\ Len(data) = Len(s) /\ data[i] = s[k] /\ data[k] = s[i]
    /\ \A p \in 1 .. Len(s) : p # i /\ p # k => data[p] = s[p]

(* Two bytes exchanged change those two and no other. *)
LEMMA SwapShape ==
    ASSUME NEW D, NEW s \in Seq(D), NEW i \in 1 .. Len(s), NEW k \in 1 .. Len(s)
    PROVE  /\ [s EXCEPT ![i] = s[k], ![k] = s[i]] \in Seq(D)
           /\ IsSwap(s, i, k, [s EXCEPT ![i] = s[k], ![k] = s[i]])
           /\ i = k => [s EXCEPT ![i] = s[k], ![k] = s[i]] = s
<1>1. Len(s) \in Nat /\ DOMAIN s = 1 .. Len(s) /\ \A p \in 1 .. Len(s) : s[p] \in D
  OBVIOUS
<1>2. PICK data : data = [p \in 1 .. Len(s) |-> IF p = k THEN s[i] ELSE IF p = i THEN s[k] ELSE s[p]]
  OBVIOUS
<1>3. s = [p \in 1 .. Len(s) |-> s[p]]
  BY <1>1
<1>4. data = [s EXCEPT ![i] = s[k], ![k] = s[i]]
  BY <1>1, <1>2
<1>5. data \in [1 .. Len(s) -> D]
  BY <1>1, <1>2
<1>6. data \in Seq(D) /\ Len(data) = Len(s)
  BY <1>1, <1>5
<1>7. i = k => data = s
  BY <1>2, <1>3
<1> QED
  BY <1>2, <1>4, <1>6, <1>7 DEF IsSwap

(* Bytes exchanged within a sealed frame are rejected, unless they were     *)
(* equal and nothing changed.                                               *)
LEMMA RejectsSwap ==
    ASSUME NEW n, NEW a, NEW msg, NEW s, SealedAs(n, a, msg, s),
           NEW i \in 1 .. Len(s), NEW k \in 1 .. Len(s), i # k,
           NEW E, NEW data \in Seq(E), IsSwap(s, i, k, data), data # s
    PROVE  CcmpDecrypt(n, a, data) = Rejected
<1>1. /\ Len(msg) \in Nat /\ Len(s) = Len(msg) + MIC_SIZE
      /\ MIC_SIZE \in Nat \ {0} /\ a \in Seq(TextBytes)
  BY SealedBytes
<1>2. HoldsText(data, Len(msg)) /\ Len(msg) <= Len(msg)
  BY <1>1 DEF HoldsText, IsSwap
<1>3. ASSUME NEW p \in 1 .. Len(s), NEW q \in 1 .. Len(s), p # q, data[p] = s[q], Len(msg) < p
      PROVE  CcmpDecrypt(n, a, data) = Rejected
  <2>1. PICK j \in 1 .. MIC_SIZE : p = Len(msg) + j
    <3>1. p - Len(msg) \in 1 .. MIC_SIZE /\ p = Len(msg) + (p - Len(msg))
      BY <1>1, <1>3
    <3> QED
      BY <3>1
  <2>2. MaskAt(n, Len(msg), p) = MicAtom(n, j)
    <3>1. ~ (p <= Len(msg)) /\ p - Len(msg) = j
      BY <1>1, <1>3, <2>1
    <3> QED
      BY <3>1 DEF MaskAt
  <2>3. MaskAt(n, Len(msg), q) # MicAtom(n, j)
    BY <1>3, <2>2, SealMasksDiffer
  <2> QED
    BY <1>1, <1>2, <1>3, <2>1, <2>3, RejectsMoved
<1>4. CASE i <= Len(msg) /\ k <= Len(msg)
  <2>1. ASSUME NEW p \in 1 .. Len(msg)
        PROVE  Plain(data[p])
    <3>1. p \in 1 .. Len(s) /\ i \in 1 .. Len(msg) /\ k \in 1 .. Len(msg)
      BY <1>1, <1>4
    <3>2. Plain(s[p]) /\ Plain(s[i]) /\ Plain(s[k])
      BY <3>1, SealedBytes
    <3> QED
      BY <3>1, <3>2 DEF IsSwap
  <2>2. PICK j \in 1 .. MIC_SIZE : j = 1
    BY <1>1
  <2>3. ShareMicByte(j, s, Len(msg), data, Len(msg))
    <3>1. Len(msg) + j \in 1 .. Len(s) /\ Len(msg) + j # i /\ Len(msg) + j # k
      BY <1>1, <1>4, <2>2
    <3> QED
      BY <3>1 DEF ShareMicByte, IsSwap
  <2> QED
    BY <1>1, <1>2, <2>1, <2>3, RejectsUnlike
<1>5. CASE Len(msg) < i
  BY <1>3, <1>5 DEF IsSwap
<1>6. CASE Len(msg) < k
  BY <1>3, <1>6 DEF IsSwap
<1>7. (i <= Len(msg) /\ k <= Len(msg)) \/ Len(msg) < i \/ Len(msg) < k
  BY <1>1
<1> QED
  BY <1>4, <1>5, <1>6, <1>7

(* A frame lengthened by a zero has at its end a byte without a mask. *)
LEMMA RejectsLonger ==
    ASSUME NEW n, NEW a, NEW msg, NEW s, SealedAs(n, a, msg, s)
    PROVE  CcmpDecrypt(n, a, Append(s, Zero)) = Rejected
<1>1. /\ Len(msg) \in Nat /\ Len(s) = Len(msg) + MIC_SIZE
      /\ MIC_SIZE \in Nat \ {0} /\ a \in Seq(TextBytes)
  BY SealedBytes
<1>2. PICK D : s \in Seq(D)
  BY DEF SealedAs
<1>3. PICK E, data : E = D \union {Zero} /\ data = Append(s, Zero)
  OBVIOUS
<1>4. data \in Seq(E) /\ Len(data) = Len(s) + 1 /\ data[Len(s) + 1] = Zero
  <2>1. s \in Seq(E) /\ Zero \in E
    BY <1>2, <1>3
  <2> QED
    BY <1>3, <2>1
<1>5. PICK l \in Nat, j \in 1 .. MIC_SIZE : l = Len(msg) + 1 /\ j = MIC_SIZE
  BY <1>1
<1>6. HoldsText(data, l) /\ l + j = Len(s) + 1
  BY <1>1, <1>4, <1>5 DEF HoldsText
<1>7. ~ MaskedBy(data[l + j], MicAtom(n, j))
  BY <1>4, <1>6 DEF MaskedBy, CtrAtoms, Zero
<1> QED
  BY <1>1, <1>3, <1>4, <1>6, <1>7, RejectsUnmasked

(* One too short for a MIC. *)
LEMMA RejectsShort ==
    ASSUME NEW n, NEW a, NEW data, Len(data) < MIC_SIZE
    PROVE  CcmpDecrypt(n, a, data) = Rejected
BY DEF CcmpDecrypt

(* One that has lost its first byte has the MIC of a longer text. *)
LEMMA RejectsTail ==
    ASSUME NEW n, NEW a, NEW msg, NEW s, SealedAs(n, a, msg, s)
    PROVE  CcmpDecrypt(n, a, SubSeq(s, 2, Len(s))) = Rejected
<1>1. /\ Len(msg) \in Nat /\ Len(s) = Len(msg) + MIC_SIZE
      /\ MIC_SIZE \in Nat \ {0} /\ a \in Seq(TextBytes)
  BY SealedBytes
<1>2. PICK D : s \in Seq(D)
  BY DEF SealedAs
<1>3. PICK data : data = SubSeq(s, 2, Len(s))
  OBVIOUS
<1>4. PICK z \in Nat, m \in Nat : z = 1 /\ m + 1 = Len(s)
  <2>1. Len(s) - 1 \in Nat /\ (Len(s) - 1) + 1 = Len(s)
    BY <1>1
  <2> QED
    BY <2>1
<1>5. data \in Seq(D) /\ Len(data) = m /\ \A i \in 1 .. m : data[i] = s[z + i]
  <2>1. z + m <= Len(s) /\ z + 1 = 2 /\ z + m = Len(s)
    BY <1>1, <1>4
  <2>2. /\ SubSeq(s, z + 1, z + m) \in Seq(D)
        /\ Len(SubSeq(s, z + 1, z + m)) = m
        /\ \A i \in 1 .. m : SubSeq(s, z + 1, z + m)[i] = s[z + i]
    BY <1>2, <2>1, SliceAt
  <2>3. data = SubSeq(s, z + 1, z + m)
    BY <1>3, <2>1
  <2> QED
    BY <2>2, <2>3
<1>6. CASE Len(msg) = 0
  <2>1. Len(data) < MIC_SIZE
    BY <1>1, <1>4, <1>5, <1>6
  <2> QED
    BY <1>3, <2>1, RejectsShort
<1>7. CASE Len(msg) # 0
  <2>1. PICK l \in Nat, j \in 1 .. MIC_SIZE : l + 1 = Len(msg) /\ j = 1
    <3>1. Len(msg) - 1 \in Nat /\ (Len(msg) - 1) + 1 = Len(msg) /\ 1 \in 1 .. MIC_SIZE
      BY <1>1, <1>7
    <3> QED
      BY <3>1
  <2>2. HoldsText(data, l) /\ l < Len(msg)
    BY <1>1, <1>4, <1>5, <2>1 DEF HoldsText
  <2>3. ASSUME NEW i \in 1 .. l
        PROVE  Plain(data[i])
    <3>1. z + i \in 1 .. Len(msg) /\ i \in 1 .. m
      BY <1>1, <1>4, <2>1
    <3>2. Plain(s[z + i])
      BY <3>1, SealedBytes
    <3> QED
      BY <1>5, <3>1, <3>2
  <2>4. ShareMicByte(j, s, Len(msg), data, l)
    <3>1. l + j \in 1 .. m /\ z + (l + j) = Len(msg) + j
      BY <1>1, <1>4, <2>1
    <3>2. data[l + j] = s[z + (l + j)]
      BY <1>5, <3>1
    <3> QED
      BY <3>1, <3>2 DEF ShareMicByte
  <2>5. data # s
    BY <1>1, <1>4, <1>5
  <2>6. CcmpDecrypt(n, a, data) = Rejected
    BY <1>1, <1>5, <2>2, <2>3, <2>4, <2>5, RejectsUnlike
  <2> QED
    BY <1>3, <2>6
<1> QED
  BY <1>6, <1>7

(* One that has lost its last byte has a byte of the text in its MIC. *)
LEMMA RejectsFront ==
    ASSUME NEW n, NEW a, NEW msg, NEW s, SealedAs(n, a, msg, s)
    PROVE  CcmpDecrypt(n, a, SubSeq(s, 1, Len(s) - 1)) = Rejected
<1>1. /\ Len(msg) \in Nat /\ Len(s) = Len(msg) + MIC_SIZE
      /\ MIC_SIZE \in Nat \ {0} /\ a \in Seq(TextBytes)
  BY SealedBytes
<1>2. PICK D : s \in Seq(D)
  BY DEF SealedAs
<1>3. PICK data : data = SubSeq(s, 1, Len(s) - 1)
  OBVIOUS
<1>4. PICK z \in Nat, m \in Nat : z = 0 /\ m + 1 = Len(s)
  <2>1. Len(s) - 1 \in Nat /\ (Len(s) - 1) + 1 = Len(s)
    BY <1>1
  <2> QED
    BY <2>1
<1>5. data \in Seq(D) /\ Len(data) = m /\ \A i \in 1 .. m : data[i] = s[i]
  <2>1. z + m <= Len(s) /\ z + 1 = 1 /\ z + m = Len(s) - 1 /\ \A i \in 1 .. m : z + i = i
    BY <1>1, <1>4
  <2>2. /\ SubSeq(s, z + 1, z + m) \in Seq(D)
        /\ Len(SubSeq(s, z + 1, z + m)) = m
        /\ \A i \in 1 .. m : SubSeq(s, z + 1, z + m)[i] = s[z + i]
    BY <1>2, <2>1, SliceAt
  <2>3. data = SubSeq(s, z + 1, z + m)
    BY <1>3, <2>1
  <2> QED
    BY <2>1, <2>2, <2>3
<1>6. CASE Len(msg) = 0
  <2>1. Len(data) < MIC_SIZE
    BY <1>1, <1>4, <1>5, <1>6
  <2> QED
    BY <1>3, <2>1, RejectsShort
<1>7. CASE Len(msg) # 0
  <2>1. PICK l \in Nat, j \in 1 .. MIC_SIZE : l + 1 = Len(msg) /\ j = 1
    <3>1. Len(msg) - 1 \in Nat /\ (Len(msg) - 1) + 1 = Len(msg) /\ 1 \in 1 .. MIC_SIZE
      BY <1>1, <1>7
    <3> QED
      BY <3>1
  <2>2. HoldsText(data, l) /\ l <= Len(msg)
    BY <1>1, <1>4, <1>5, <2>1 DEF HoldsText
  <2>3. PICK p \in 1 .. Len(s) : p = Len(msg)
    BY <1>1, <1>7
  <2>4. p = l + j /\ data[p] = s[p]
    <3>1. p \in 1 .. m
      BY <1>1, <1>4, <1>7, <2>3
    <3> QED
      BY <1>5, <2>1, <2>3, <3>1
  <2>5. PICK q \in 1 .. Len(s) : q = Len(msg) + j
    BY <1>1
  <2>6. MaskAt(n, Len(msg), q) = MicAtom(n, j)
    <3>1. ~ (q <= Len(msg)) /\ q - Len(msg) = j
      BY <1>1, <2>1, <2>5
    <3> QED
      BY <3>1 DEF MaskAt
  <2>7. p # q
    BY <1>1, <2>1, <2>3, <2>5
  <2>8. MaskAt(n, Len(msg), p) # MicAtom(n, j)
    BY <2>6, <2>7, SealMasksDiffer
  <2>9. CcmpDecrypt(n, a, data) = Rejected
    BY <1>5, <2>2, <2>4, <2>8, RejectsMoved
  <2> QED
    BY <1>3, <2>9
<1> QED
  BY <1>6, <1>7

(* No altered frame is accepted. *)
LEMMA RejectsAltered ==
    ASSUME NEW n, NEW a, NEW msg, NEW s, SealedAs(n, a, msg, s),
           NEW data \in Alterations(s), data # s
    PROVE  CcmpDecrypt(n, a, data) = Rejected
<1>1. /\ Len(msg) \in Nat /\ Len(s) = Len(msg) + MIC_SIZE
      /\ MIC_SIZE \in Nat \ {0} /\ a \in Seq(TextBytes) /\ DOMAIN s = 1 .. Len(s)
  BY SealedBytes
<1>2. PICK D : s \in Seq(D)
  BY DEF SealedAs
<1>3. ASSUME NEW i \in DOMAIN s, NEW mask \in {Flip, Letter}, data = [s EXCEPT ![i] = XOR(s[i], mask)]
      PROVE  CcmpDecrypt(n, a, data) = Rejected
  <2>1. PICK byte, E : byte = XOR(s[i], mask) /\ E = D \union {byte}
    OBVIOUS
  <2>2. i \in 1 .. Len(s)
    BY <1>1, <1>3
  <2>3. data \in Seq(E) /\ IsChange(s, i, byte, data)
    <3>1. /\ [s EXCEPT ![i] = byte] \in Seq(D \union {byte})
          /\ IsChange(s, i, byte, [s EXCEPT ![i] = byte])
      BY <1>2, <2>2, ChangeShape
    <3> QED
      BY <1>3, <2>1, <3>1
  <2>4. Plain(byte) \/ Len(msg) < i
    <3>1. CASE i <= Len(msg)
      <4>1. i \in 1 .. Len(msg)
        BY <1>1, <2>2, <3>1
      <4>2. Plain(s[i])
        BY <4>1, SealedBytes
      <4>3. Plain(mask)
        BY FrameIsPlain DEF Frame, TextBytes, PlainBytes
      <4>4. \A x \in byte : x \in s[i] \/ x \in mask
        BY <2>1 DEF XOR, SymDiff
      <4> QED
        BY <4>2, <4>3, <4>4 DEF Plain
    <3>2. i <= Len(msg) \/ Len(msg) < i
      BY <1>1, <2>2
    <3> QED
      BY <3>1, <3>2
  <2> QED
    BY <2>2, <2>3, <2>4, RejectsChange
<1>4. ASSUME NEW i \in DOMAIN s, NEW k \in DOMAIN s, data = [s EXCEPT ![i] = s[k], ![k] = s[i]]
      PROVE  CcmpDecrypt(n, a, data) = Rejected
  <2>1. i \in 1 .. Len(s) /\ k \in 1 .. Len(s)
    BY <1>1, <1>4
  <2>2. data \in Seq(D) /\ IsSwap(s, i, k, data) /\ (i = k => data = s)
    <3>1. /\ [s EXCEPT ![i] = s[k], ![k] = s[i]] \in Seq(D)
          /\ IsSwap(s, i, k, [s EXCEPT ![i] = s[k], ![k] = s[i]])
          /\ i = k => [s EXCEPT ![i] = s[k], ![k] = s[i]] = s
      BY <1>2, <2>1, SwapShape
    <3> QED
      BY <1>4, <3>1
  <2>3. i # k
    BY <2>2
  <2> QED
    BY <2>1, <2>2, <2>3, RejectsSwap
<1>5. CASE data = Append(s, Zero)
  BY <1>5, RejectsLonger
<1>6. CASE data = SubSeq(s, 2, Len(s))
  BY <1>6, RejectsTail
<1>7. CASE data = SubSeq(s, 1, Len(s) - 1)
  BY <1>7, RejectsFront
<1>8. CASE data = <<>>
  <2>1. Len(data) < MIC_SIZE
    BY <1>1, <1>8
  <2> QED
    BY <2>1, RejectsShort
<1> QED
  BY <1>3, <1>4, <1>5, <1>6, <1>7, <1>8 DEF Alterations

(* Nor is the frame under another header or another nonce. *)
LEMMA RejectsOtherHeader ==
    ASSUME NEW n, NEW a, NEW msg, NEW s, SealedAs(n, a, msg, s),
           NEW b \in Seq(TextBytes), b # a
    PROVE  CcmpDecrypt(n, b, s) = Rejected
<1>1. /\ HoldsText(s, Len(msg)) /\ Len(msg) \in Nat /\ MIC_SIZE \in Nat \ {0}
      /\ \A i \in 1 .. Len(msg) : Plain(s[i])
  BY SealedBytes
<1>2. PICK D : s \in Seq(D)
  BY DEF SealedAs
<1>3. PICK j \in 1 .. MIC_SIZE : j = 1
  BY <1>1
<1>4. ShareMicByte(j, s, Len(msg), s, Len(msg))
  BY DEF ShareMicByte
<1> QED
  BY <1>1, <1>2, <1>4, RejectsUnlike

(* A frame opened with another packet number than it was sealed with is     *)
(* rejected.                                                                *)
LEMMA RejectsOtherNonce ==
    ASSUME NEW n, NEW a, NEW msg, NEW s, SealedAs(n, a, msg, s), NEW m, m # n
    PROVE  CcmpDecrypt(m, a, s) = Rejected
<1>1. /\ HoldsText(s, Len(msg)) /\ Len(msg) \in Nat /\ MIC_SIZE \in Nat \ {0}
      /\ Len(s) = Len(msg) + MIC_SIZE /\ a \in Seq(TextBytes)
  BY SealedBytes
<1>2. PICK D : s \in Seq(D)
  BY DEF SealedAs
<1>3. PICK j \in 1 .. MIC_SIZE, i \in 1 .. Len(s) : j = 1 /\ i = Len(msg) + j
  <2>1. 1 \in 1 .. MIC_SIZE /\ Len(msg) + 1 \in 1 .. Len(s)
    BY <1>1
  <2> QED
    BY <2>1
<1>4. MaskAt(n, Len(msg), i) = MicAtom(n, j)
  <2>1. ~ (i <= Len(msg)) /\ i - Len(msg) = j
    BY <1>1, <1>3
  <2> QED
    BY <2>1 DEF MaskAt
<1>5. MicAtom(n, j) # MicAtom(m, j)
  <2>1. MicAtom(n, j)[3] = n /\ MicAtom(m, j)[3] = m
    BY DEF MicAtom
  <2> QED
    BY <2>1
<1>6. MaskedBy(s[i], MicAtom(n, j))
  BY <1>4, SealMasksDiffer
<1>7. ~ MaskedBy(s[i], MicAtom(m, j))
  BY <1>5, <1>6 DEF MaskedBy
<1>8. ~ MaskedBy(s[Len(msg) + j], MicAtom(m, j))
  BY <1>3, <1>7
<1> QED
  BY <1>1, <1>2, <1>8, RejectsUnmasked

-----------------------------------------------------------------------------
(* What is on the air is what was sealed, or data that ccmp_decrypt will   *)
(* reject under the header and the nonce the receiver has.                 *)
OnAir ==
    IF altered
    THEN CcmpDecrypt(rx_nonce, rx_aad, sealed) = Rejected
    ELSE SealedAs(nonce, aad, plaintext, sealed) /\ rx_nonce = nonce /\ rx_aad = aad

CcmInv ==
    /\ ccmp_pc \in {"encrypt", "air", "done"}
    /\ ccmp_pc = "encrypt" => ~ altered /\ rx_nonce = nonce
    /\ ccmp_pc = "air" => OnAir
    /\ ccmp_pc = "done" => opened = IF altered THEN Rejected ELSE Some(plaintext)

(* Before the first frame nothing is on the air. *)
LEMMA CcmInvInit == CcmpInit => CcmInv
BY DEF CcmpInit, CcmInv

(* What the model's headers and texts are. *)
LEMMA BoundedText ==
    ASSUME NEW S, NEW m \in Nat, NEW s \in SeqOf(S, m)
    PROVE  s \in Seq(S) /\ Len(s) \in 0 .. m
<1>1. PICK k \in 0 .. m : s \in [1 .. k -> S]
  BY DEF SeqOf
<1> QED
  BY <1>1

(* Encrypting puts a sealed frame on the air, its nonce and header with it. *)
LEMMA EncryptKeeps ==
    ASSUME CcmInv, NEW header \in SeqOf(TextBytes, MaxAad), NEW msg \in SeqOf(TextBytes, MaxText),
           Encrypt(header, msg)
    PROVE  CcmInv'
<1>1. /\ ccmp_pc = "encrypt" /\ ccmp_pc' = "air" /\ aad' = header /\ rx_aad' = header
      /\ plaintext' = msg /\ sealed' = CcmpEncrypt(nonce, header, msg)
      /\ nonce' = nonce /\ rx_nonce' = rx_nonce /\ altered' = altered
  BY DEF Encrypt
<1>2. header \in Seq(TextBytes) /\ msg \in Seq(TextBytes) /\ Len(msg) \in 0 .. MaxText
  BY BoundedText, CcmSizeAssumption
<1>3. SealedAs(nonce, header, msg, CcmpEncrypt(nonce, header, msg))
  BY <1>2, SealedIs
<1>4. ~ altered /\ rx_nonce = nonce
  BY <1>1 DEF CcmInv
<1>5. OnAir'
  <2>1. SealedAs(nonce', aad', plaintext', sealed')
    BY <1>1, <1>3
  <2> QED
    BY <1>1, <1>4, <2>1 DEF OnAir
<1> QED
  BY <1>1, <1>5 DEF CcmInv

(* Altering leaves a frame on the air that is still the sealed one or that  *)
(* will be rejected.                                                        *)
LEMMA AlterKeeps ==
    ASSUME CcmInv, Alter
    PROVE  CcmInv'
<1>1. /\ ccmp_pc = "air" /\ ~ altered /\ altered' = TRUE /\ ccmp_pc' = ccmp_pc
      /\ nonce' = nonce /\ aad' = aad /\ plaintext' = plaintext
  BY DEF Alter
<1>2. /\ SealedAs(nonce, aad, plaintext, sealed) /\ rx_nonce = nonce /\ rx_aad = aad
  BY <1>1 DEF CcmInv, OnAir
<1>3. CASE sealed' \in Alterations(sealed) \ {sealed} /\ UNCHANGED <<rx_nonce, rx_aad>>
  <2>1. CcmpDecrypt(nonce, aad, sealed') = Rejected
    BY <1>2, <1>3, RejectsAltered
  <2> QED
    BY <1>1, <1>2, <1>3, <2>1 DEF CcmInv, OnAir
<1>4. CASE rx_aad' \in SeqOf(TextBytes, MaxAad) \ {aad} /\ UNCHANGED <<rx_nonce, sealed>>
  <2>1. rx_aad' \in Seq(TextBytes) /\ rx_aad' # aad
    BY <1>4, BoundedText, CcmSizeAssumption
  <2>2. CcmpDecrypt(nonce, rx_aad', sealed) = Rejected
    BY <1>2, <2>1, RejectsOtherHeader
  <2> QED
    BY <1>1, <1>2, <1>4, <2>2 DEF CcmInv, OnAir
<1>5. CASE rx_nonce' \in Nonces \ {nonce} /\ UNCHANGED <<rx_aad, sealed>>
  <2>1. CcmpDecrypt(rx_nonce', aad, sealed) = Rejected
    BY <1>2, <1>5, RejectsOtherNonce
  <2> QED
    BY <1>1, <1>2, <1>5, <2>1 DEF CcmInv, OnAir
<1> QED
  BY <1>3, <1>4, <1>5 DEF Alter

(* Decrypting returns the sealed text, or nothing if the frame was altered. *)
LEMMA DecryptKeeps ==
    ASSUME CcmInv, Decrypt
    PROVE  CcmInv'
<1>1. /\ ccmp_pc = "air" /\ ccmp_pc' = "done" /\ opened' = CcmpDecrypt(rx_nonce, rx_aad, sealed)
      /\ altered' = altered /\ plaintext' = plaintext
  BY DEF Decrypt
<1>2. OnAir
  BY <1>1 DEF CcmInv
<1>3. CcmpDecrypt(rx_nonce, rx_aad, sealed) = IF altered THEN Rejected ELSE Some(plaintext)
  BY <1>2, SealedOpens DEF OnAir
<1> QED
  BY <1>1, <1>3 DEF CcmInv

(* Every step keeps the invariant. *)
LEMMA CcmInvStep == CcmInv /\ [CcmpNext]_ccmpVars => CcmInv'
<1> SUFFICES ASSUME CcmInv, [CcmpNext]_ccmpVars
             PROVE  CcmInv'
  OBVIOUS
<1>1. CASE UNCHANGED ccmpVars
  BY <1>1 DEF ccmpVars, CcmInv, OnAir
<1>2. CASE CcmpNext
  BY <1>2, EncryptKeeps, AlterKeeps, DecryptKeeps DEF CcmpNext
<1> QED
  BY <1>1, <1>2

(* Sealed data opens as the text that was sealed, and no altered one opens *)
(* at all: not with a byte changed, moved, added or cut off, not under     *)
(* another header and not under another nonce, whatever the sizes of the   *)
(* block and the MIC (ccmp_encrypt, ccmp_decrypt).                         *)
THEOREM SealedOpensUnaltered == CcmpSpec => []OpensOnlyAsSealed
<1>1. CcmInv => OpensOnlyAsSealed
  BY DEF CcmInv, OpensOnlyAsSealed
<1> QED
  BY <1>1, CcmInvInit, CcmInvStep, PTL DEF CcmpSpec

(* No byte of the cipher masks two bytes of a frame, for every length of   *)
(* text for which the counter does not come round (ccm_ctr_encrypt).       *)
THEOREM KeystreamIsUsedOnce == CcmpSpec => []KeystreamUsedOnce
<1>1. ASSUME CcmInv
      PROVE  KeystreamUsedOnce
  <2> SUFFICES ASSUME ccmp_pc = "air", ~ altered, NEW i \in DOMAIN sealed, NEW j \in DOMAIN sealed, i # j
               PROVE  CipherAtoms(sealed[i]) \intersect CipherAtoms(sealed[j]) = {}
    BY DEF KeystreamUsedOnce
  <2>1. SealedAs(nonce, aad, plaintext, sealed)
    BY <1>1 DEF CcmInv, OnAir
  <2>2. i \in 1 .. Len(sealed) /\ j \in 1 .. Len(sealed)
    BY <2>1, SealedBytes
  <2>3. ASSUME NEW x, x \in CipherAtoms(sealed[i]), x \in CipherAtoms(sealed[j])
        PROVE  FALSE
    BY <2>1, <2>2, <2>3, SealUsesOnce
  <2> QED
    BY <2>3
<1> QED
  BY <1>1, CcmInvInit, CcmInvStep, PTL DEF CcmpSpec
=============================================================================
