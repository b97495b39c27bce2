-------------------------- MODULE NonceStringProofs --------------------------
(***************************************************************************)
(* TLAPS proofs about NonceString, for every length, charset, batch size   *)
(* and number of batches.                                                  *)
(***************************************************************************)
EXTENDS NonceString, SequenceTheorems, WellFoundedInduction, TLAPS

\* What the type invariant and the length accounting need to be inductive: a
\* batch being scanned is complete, and the loop is left only at zero.
NonceInv ==
    /\ TypeOK
    /\ Len(result) + remainingLength = Length
    /\ pc = "append" => Len(randoms) = BatchSize
    /\ pc = "done" => remainingLength = 0

LEMMA NonceInit == Init => NonceInv
  BY NonceAssumption DEF Init, NonceInv, TypeOK

LEMMA NonceStep == NonceInv /\ [Next]_vars => NonceInv'
  <1> SUFFICES ASSUME NonceInv, [Next]_vars PROVE NonceInv'
    OBVIOUS
  <1> USE NonceAssumption DEF NonceInv, TypeOK, Byte, Char
  <1>1. CASE Draw
    <2> PICK batch \in [1 .. BatchSize -> Byte] :
            randoms' = batch /\ stream' = stream \o batch
      BY <1>1 DEF Draw
    <2>1. batch \in Seq(Byte) /\ Len(batch) = BatchSize
      <3>1. batch \in Seq(Byte)
        BY SeqDef
      <3>2. Len(batch) \in Nat /\ DOMAIN batch = 1 .. Len(batch)
        BY <3>1, LenProperties
      <3> QED
        BY <3>1, <3>2
    <2>2. stream' \in Seq(Byte)
      BY <2>1
    <2> QED
      BY <1>1, <2>1, <2>2 DEF Draw
  <1>2. CASE DrawFails
    BY <1>2 DEF DrawFails
  <1>3. CASE AppendByte
    <2>1. randoms[next] \in Byte
      <3>1. next \in 1 .. Len(randoms)
        BY <1>3 DEF AppendByte
      <3> QED
        BY <3>1, ElementOfSeq
    <2>2. CASE Accepts(randoms[next])
      <3>1. /\ result' = Append(result, randoms[next])
            /\ randoms[next] \in Char
        BY <1>3, <2>1, <2>2 DEF AppendByte, Accepts
      <3>2. result' \in Seq(Char) /\ Len(result') = Len(result) + 1
        BY <3>1, AppendProperties
      <3>3. /\ remainingLength' \in 0 .. Length
            /\ Len(result') + remainingLength' = Length
        <4>1. remainingLength' = remainingLength - 1 /\ remainingLength # 0
          BY <1>3, <2>2 DEF AppendByte, Accepts
        <4>2. /\ Len(result) \in Nat /\ Length \in Nat
              /\ remainingLength \in 0 .. Length
              /\ Len(result) + remainingLength = Length
          BY LenProperties
        <4> QED
          BY ONLY <4>1, <4>2, <3>2
      <3>4. /\ pc = "append" /\ next' \in 1 .. BatchSize + 1
            /\ UNCHANGED <<pc, randoms, stream>>
        BY <1>3 DEF AppendByte
      <3> QED
        BY <3>2, <3>3, <3>4
    <2>3. CASE ~Accepts(randoms[next])
      BY <1>3, <2>3 DEF AppendByte
    <2> QED
      BY <2>2, <2>3
  <1>4. CASE EndBatch
    BY <1>4 DEF EndBatch
  <1>5. CASE UNCHANGED vars
    BY <1>5 DEF vars
  <1> QED
    BY <1>1, <1>2, <1>3, <1>4, <1>5 DEF Next

\* The loop keeps its counter, its batch and its result within their types:
\* no charset index is ever out of range and the counter never goes negative.
THEOREM NonceTypeCorrect == Spec => []TypeOK
  <1>1. NonceInv => TypeOK
    BY DEF NonceInv
  <1> QED
    BY NonceInit, NonceStep, <1>1, PTL DEF Spec

\* randomNonceString returns exactly length characters, whatever bytes
\* SecRandomCopyBytes produces and however many batches it takes.
THEOREM NonceLength == Spec => []LengthAccounting
  <1>1. NonceInv => LengthAccounting
    BY NonceAssumption DEF NonceInv, TypeOK, LengthAccounting
  <1> QED
    BY NonceInit, NonceStep, <1>1, PTL DEF Spec

-----------------------------------------------------------------------------
(* Rejection sampling *)

\* Every set of natural numbers has a least element.
LEMMA SmallestNumber ==
    ASSUME NEW T \in SUBSET Nat, T # {}
    PROVE  \E x \in T : \A y \in T : x <= y
<1> DEFINE R == {p \in Nat \X Nat : p[1] < p[2]}
<1>1. IsWellFoundedOn(R, Nat)
  BY NatLessThanWellFounded DEF OpToRel
<1>2. PICK x \in T : \A y \in T : ~ (<<y, x>> \in R)
  <2>1. T \subseteq Nat
    OBVIOUS
  <2> HIDE DEF R
  <2> QED
    BY <1>1, <2>1, WFMin
<1>3. \A y \in T : ~ (y < x)
  BY <1>2
<1> QED
  BY <1>3

\* The valid indices v with the byte r after them.
Sift(v, r) == IF r < CharsetCount THEN Append(v, r) ELSE v

\* The valid indices of the first k bytes of s, for every k up to n.
Sifted(f, s, n) ==
    f = [k \in 0 .. n |-> IF k = 0 THEN <<>> ELSE Sift(f[k - 1], s[k])]

\* They exist, whatever the length.
LEMMA SiftedExists ==
    ASSUME NEW s, NEW n \in Nat
    PROVE  \E f : Sifted(f, s, n)
<1> DEFINE T == {k \in Nat : ~ \E f : Sifted(f, s, k)}
<1>1. SUFFICES ASSUME T # {} PROVE FALSE
  OBVIOUS
<1>2. PICK k \in T : \A y \in T : k <= y
  BY <1>1, SmallestNumber
<1>3. CASE k = 0
  <2> DEFINE g == [i \in 0 .. 0 |-> <<>>]
  <2>1. g = [i \in 0 .. 0 |-> IF i = 0 THEN <<>> ELSE Sift(g[i - 1], s[i])]
    OBVIOUS
  <2>2. Sifted(g, s, 0)
    BY <2>1 DEF Sifted
  <2> QED
    BY <1>3, <2>2
<1>4. CASE k # 0
  <2>1. k \in Nat /\ k - 1 \in Nat /\ ~(k - 1 \in T)
    BY <1>2, <1>4
  <2>2. PICK f : Sifted(f, s, k - 1)
    BY <2>1
  <2> DEFINE h == [i \in 0 .. k |-> IF i = k THEN Sift(f[k - 1], s[k]) ELSE f[i]]
  <2>3. ASSUME NEW i \in 0 .. k
        PROVE  h[i] = IF i = 0 THEN <<>> ELSE Sift(h[i - 1], s[i])
    <3>1. \A j \in 0 .. k - 1 :
             h[j] = f[j] /\ f[j] = IF j = 0 THEN <<>> ELSE Sift(f[j - 1], s[j])
      BY <2>1, <2>2 DEF Sifted
    <3>2. h[k] = Sift(f[k - 1], s[k])
      BY <2>1
    <3> HIDE DEF h
    <3>3. CASE i = k
      BY <1>4, <2>1, <3>1, <3>2, <3>3
    <3>4. CASE i # k
      <4>1. i \in 0 .. k - 1 /\ (i # 0 => i - 1 \in 0 .. k - 1)
        BY <2>1, <3>4
      <4> QED
        BY <3>1, <4>1
    <3> QED
      BY <3>3, <3>4
  <2>4. h = [i \in 0 .. k |-> h[i]]
    OBVIOUS
  <2> HIDE DEF h
  <2>5. Sifted(h, s, k)
    BY <2>3, <2>4 DEF Sifted
  <2> QED
    BY <1>2, <2>5
<1> QED
  BY <1>3, <1>4

\* ValidIndices is the last of them.
LEMMA ValidSifted ==
    ASSUME NEW s, Len(s) \in Nat
    PROVE  \E f : Sifted(f, s, Len(s)) /\ ValidIndices(s) = f[Len(s)]
<1> DEFINE upTo == CHOOSE f : Sifted(f, s, Len(s))
<1>1. Sifted(upTo, s, Len(s))
  BY SiftedExists
<1>2. ValidIndices(s) = upTo[Len(s)]
  BY DEF ValidIndices, Sifted, Sift
<1> QED
  BY <1>1, <1>2

\* Two ways to sift the same bytes agree.
LEMMA SiftedAgree ==
    ASSUME NEW s, NEW t, NEW m \in Nat, NEW n \in Nat, m <= n,
           NEW f, NEW g, Sifted(f, s, m), Sifted(g, t, n),
           \A i \in 1 .. m : s[i] = t[i]
    PROVE  f[m] = g[m]
<1> DEFINE T == {k \in 0 .. m : f[k] # g[k]}
<1>1. T = {}
  <2> SUFFICES ASSUME T # {} PROVE FALSE
    OBVIOUS
  <2>1. T \in SUBSET Nat
    OBVIOUS
  <2>2. PICK k \in T : \A y \in T : k <= y
    BY <2>1, SmallestNumber
  <2>3. k \in 0 .. m /\ f[k] # g[k] /\ k \in 0 .. n
    OBVIOUS
  <2>4. /\ f[k] = IF k = 0 THEN <<>> ELSE Sift(f[k - 1], s[k])
        /\ g[k] = IF k = 0 THEN <<>> ELSE Sift(g[k - 1], t[k])
    BY <2>3 DEF Sifted
  <2>5. k # 0
    BY <2>3, <2>4
  <2>6. k - 1 \in 0 .. m /\ ~(k - 1 \in T) /\ k \in 1 .. m
    BY <2>2, <2>3, <2>5
  <2>7. f[k - 1] = g[k - 1] /\ s[k] = t[k]
    BY <2>6
  <2> QED
    BY <2>3, <2>4, <2>5, <2>7
<1> QED
  BY <1>1

\* ValidIndices, byte by byte.
LEMMA ValidAppend ==
    ASSUME NEW s \in Seq(Byte), NEW r \in Byte
    PROVE  ValidIndices(Append(s, r)) = Sift(ValidIndices(s), r)
<1> DEFINE t == Append(s, r)
           n == Len(s)
<1>1. /\ n \in Nat /\ Len(t) = n + 1 /\ t[n + 1] = r
      /\ \A i \in 1 .. n : s[i] = t[i]
  BY AppendProperties, LenProperties
<1> HIDE DEF t, n
<1>2. PICK f : Sifted(f, s, n) /\ ValidIndices(s) = f[n]
  BY <1>1, ValidSifted DEF n
<1>3. PICK g : Sifted(g, t, n + 1) /\ ValidIndices(t) = g[n + 1]
  BY <1>1, ValidSifted
<1>4. f[n] = g[n]
  BY <1>1, <1>2, <1>3, SiftedAgree
<1>5. g[n + 1] = Sift(g[n], r)
  <2>1. n + 1 \in 0 .. n + 1 /\ n + 1 # 0 /\ n + 1 - 1 = n
    BY <1>1
  <2>2. \A k \in 0 .. n + 1 :
           g[k] = IF k = 0 THEN <<>> ELSE Sift(g[k - 1], t[k])
    BY <1>3 DEF Sifted
  <2> QED
    BY <1>1, <2>1, <2>2
<1> QED
  BY <1>2, <1>3, <1>4, <1>5 DEF t

\* The valid indices are characters.
LEMMA ValidChars ==
    ASSUME NEW s \in Seq(Byte)
    PROVE  ValidIndices(s) \in Seq(Char)
<1> DEFINE n == Len(s)
<1>1. n \in Nat /\ \A i \in 1 .. n : s[i] \in Byte
  BY LenProperties, ElementOfSeq
<1>2. PICK f : Sifted(f, s, n) /\ ValidIndices(s) = f[n]
  BY <1>1, ValidSifted
<1> HIDE DEF n
<1> DEFINE T == {k \in 0 .. n : f[k] \notin Seq(Char)}
<1>3. T = {}
  <2> SUFFICES ASSUME T # {} PROVE FALSE
    OBVIOUS
  <2>1. T \in SUBSET Nat
    BY <1>1
  <2>2. PICK k \in T : \A y \in T : k <= y
    BY <2>1, SmallestNumber
  <2>3. k \in 0 .. n /\ f[k] \notin Seq(Char)
    OBVIOUS
  <2>4. f[k] = IF k = 0 THEN <<>> ELSE Sift(f[k - 1], s[k])
    BY <1>2, <2>3 DEF Sifted
  <2>5. k # 0
    BY <2>3, <2>4, EmptySeq
  <2>6. k - 1 \in 0 .. n /\ ~(k - 1 \in T) /\ k \in 1 .. n
    BY <1>1, <2>2, <2>3, <2>5
  <2>7. f[k - 1] \in Seq(Char) /\ s[k] \in Byte
    BY <1>1, <2>6
  <2>8. s[k] < CharsetCount => s[k] \in Char
    BY <2>7, NonceAssumption DEF Byte, Char
  <2>9. Sift(f[k - 1], s[k]) \in Seq(Char)
    BY <2>7, <2>8, AppendProperties DEF Sift
  <2> QED
    BY <2>3, <2>4, <2>5, <2>9
<1> QED
  BY <1>1, <1>2, <1>3

\* The prefixes of a sequence.
LEMMA PrefixFacts ==
    ASSUME NEW S, NEW s \in Seq(S), NEW n \in Nat
    PROVE  /\ Prefix(s, n) \in Seq(S)
           /\ n >= Len(s) => Prefix(s, n) = s
           /\ n <= Len(s) => /\ Len(Prefix(s, n)) = n
                             /\ \A i \in 1 .. n : Prefix(s, n)[i] = s[i]
<1>1. Len(s) \in Nat /\ DOMAIN s = 1 .. Len(s)
  BY LenProperties
<1> DEFINE k == IF n < Len(s) THEN n ELSE Len(s)
           p == SubSeq(s, 1, k)
<1>2. k \in Nat /\ k <= Len(s)
  BY <1>1
<1> HIDE DEF k
<1>3. \A i \in 1 .. k : s[i] \in S
  BY <1>1, <1>2, ElementOfSeq
<1>4. p \in Seq(S) /\ Len(p) = k /\ \A i \in 1 .. k : p[i] = s[i]
  BY <1>2, <1>3, SubSeqProperties
<1> HIDE DEF p
<1>5. k = Len(s) => p = s
  BY <1>4, SeqEqual
<1>6. Prefix(s, n) = p
  BY DEF Prefix, p, k
<1>7. /\ n >= Len(s) => k = Len(s)
      /\ n <= Len(s) => k = n
  <2> DEFINE m == Len(s)
  <2>1. m \in Nat /\ k = IF n < m THEN n ELSE m
    BY <1>1 DEF k
  <2> HIDE DEF m
  <2>2. /\ n >= m => k = m
        /\ n <= m => k = n
    BY <2>1
  <2> QED
    BY <2>2 DEF m
<1> QED
  BY <1>4, <1>5, <1>6, <1>7

\* A prefix grows by the next element.
LEMMA PrefixNext ==
    ASSUME NEW S, NEW s \in Seq(S), NEW n \in Nat, n < Len(s)
    PROVE  Prefix(s, n + 1) = Append(Prefix(s, n), s[n + 1])
<1> DEFINE p == Prefix(s, n)
           q == Prefix(s, n + 1)
<1>1. Len(s) \in Nat /\ n + 1 \in Nat /\ n <= Len(s) /\ n + 1 <= Len(s)
      /\ s[n + 1] \in S
  BY LenProperties, ElementOfSeq
<1>2. /\ p \in Seq(S) /\ Len(p) = n /\ \A i \in 1 .. n : p[i] = s[i]
      /\ q \in Seq(S) /\ Len(q) = n + 1 /\ \A i \in 1 .. n + 1 : q[i] = s[i]
  BY <1>1, PrefixFacts
<1> HIDE DEF p, q
<1>3. /\ Append(p, s[n + 1]) \in Seq(S) /\ Len(Append(p, s[n + 1])) = n + 1
      /\ \A i \in 1 .. n : Append(p, s[n + 1])[i] = p[i]
      /\ Append(p, s[n + 1])[n + 1] = s[n + 1]
  BY <1>1, <1>2, AppendProperties
<1>4. \A i \in 1 .. n + 1 : q[i] = Append(p, s[n + 1])[i]
  BY <1>2, <1>3
<1> QED
  BY <1>2, <1>3, <1>4, SeqEqual DEF p, q

\* A nonce of length n takes one more character unless it is complete.
LEMMA PrefixAppend ==
    ASSUME NEW v \in Seq(Char), NEW r \in Char, NEW n \in Nat
    PROVE  /\ Len(v) < n => /\ Prefix(v, n) = v
                            /\ Prefix(Append(v, r), n) = Append(v, r)
           /\ Len(v) >= n => /\ Len(Prefix(v, n)) = n
                             /\ Prefix(Append(v, r), n) = Prefix(v, n)
<1> DEFINE w == Append(v, r)
<1>1. /\ Len(v) \in Nat /\ w \in Seq(Char) /\ Len(w) = Len(v) + 1
      /\ \A i \in 1 .. Len(v) : w[i] = v[i]
  BY AppendProperties, LenProperties
<1> HIDE DEF w
<1>2. /\ Prefix(v, n) \in Seq(Char) /\ Prefix(w, n) \in Seq(Char)
      /\ n >= Len(v) => Prefix(v, n) = v
      /\ n >= Len(w) => Prefix(w, n) = w
      /\ n <= Len(v) => /\ Len(Prefix(v, n)) = n
                        /\ \A i \in 1 .. n : Prefix(v, n)[i] = v[i]
      /\ n <= Len(w) => /\ Len(Prefix(w, n)) = n
                        /\ \A i \in 1 .. n : Prefix(w, n)[i] = w[i]
  BY <1>1, PrefixFacts
<1>3. CASE Len(v) < n
  BY <1>1, <1>2, <1>3 DEF w
<1>4. CASE Len(v) >= n
  <2>1. /\ Len(Prefix(v, n)) = n /\ Len(Prefix(w, n)) = n
        /\ \A i \in 1 .. n : Prefix(w, n)[i] = Prefix(v, n)[i]
    BY <1>1, <1>2, <1>4
  <2>2. Prefix(w, n) = Prefix(v, n)
    BY <1>2, <2>1, SeqEqual
  <2> QED
    BY <1>1, <1>4, <2>1, <2>2 DEF w
<1> QED
  BY <1>1, <1>3, <1>4

\* The current batch is the end of the stream, and outside the forEach all
\* of it is scanned.
SampleInv ==
    /\ Len(randoms) <= Len(stream)
    /\ \A i \in 1 .. Len(randoms) :
          stream[Len(stream) - Len(randoms) + i] = randoms[i]
    /\ next <= Len(randoms) + 1
    /\ pc # "append" => next = Len(randoms) + 1
    /\ ResultIsAcceptedPrefix

\* Nothing is drawn and nothing is accepted at first.
LEMMA SampleInit == Init => SampleInv
<1> SUFFICES ASSUME Init PROVE SampleInv
  OBVIOUS
<1>1. /\ result = <<>> /\ randoms = <<>> /\ stream = <<>> /\ next = 1
  BY DEF Init
<1> DEFINE e == <<>>
<1>2. e \in Seq(Byte) /\ Len(e) = 0 /\ Length \in Nat
  BY EmptySeq, NonceAssumption
<1> HIDE DEF e
<1>3. Prefix(e, 0) = e /\ Prefix(e, Length) = e
  <2>1. 0 \in Nat /\ 0 >= Len(e) /\ Length >= Len(e)
    BY <1>2
  <2> QED
    BY <1>2, <2>1, PrefixFacts
<1>4. Scanned = e
  <2>1. /\ randoms = e /\ stream = e /\ next = 1
    BY <1>1 DEF e
  <2>2. Len(e) - Len(e) + 1 - 1 = 0
    BY <1>2
  <2> QED
    BY <1>3, <2>1, <2>2 DEF Scanned
<1>5. ValidIndices(e) = e
  <2>1. PICK f : Sifted(f, e, 0) /\ ValidIndices(e) = f[0]
    BY <1>2, ValidSifted
  <2> QED
    BY <2>1 DEF Sifted, e
<1>6. ResultIsAcceptedPrefix
  BY <1>1, <1>3, <1>4, <1>5 DEF ResultIsAcceptedPrefix, e
<1>7. /\ Len(randoms) = 0 /\ Len(stream) = 0
  BY <1>1, <1>2 DEF e
<1> QED
  BY <1>1, <1>6, <1>7 DEF SampleInv

\* A batch is drawn when all before it is scanned.
LEMMA SampleDraw ==
    ASSUME NonceInv, SampleInv, Draw
    PROVE  SampleInv'
<1>1. PICK batch \in [1 .. BatchSize -> Byte] :
          randoms' = batch /\ stream' = stream \o batch
  BY DEF Draw
<1>2. batch \in Seq(Byte) /\ Len(batch) = BatchSize /\ BatchSize \in Nat
  <2>1. BatchSize \in Nat
    BY NonceAssumption
  <2>2. batch \in Seq(Byte)
    BY <2>1, SeqDef
  <2>3. Len(batch) \in Nat /\ DOMAIN batch = 1 .. Len(batch)
    BY <2>2, LenProperties
  <2> QED
    BY <2>1, <2>2, <2>3
<1>3. /\ stream \in Seq(Byte) /\ randoms \in Seq(Byte) /\ next' = 1
      /\ result' = result /\ pc' = "append" /\ next = Len(randoms) + 1
      /\ result = Prefix(ValidIndices(Scanned), Length)
  BY DEF Draw, NonceInv, TypeOK, SampleInv, ResultIsAcceptedPrefix
<1>4. /\ Len(stream) \in Nat /\ Len(randoms) \in Nat /\ Len(randoms) <= Len(stream)
  BY <1>3, LenProperties DEF SampleInv
<1> DEFINE t == stream \o batch
<1>5. /\ t \in Seq(Byte) /\ Len(t) = Len(stream) + BatchSize
      /\ \A i \in 1 .. Len(stream) : t[i] = stream[i]
      /\ \A i \in 1 .. BatchSize : t[Len(stream) + i] = batch[i]
  <2>1. t \in Seq(Byte) /\ Len(t) = Len(stream) + Len(batch)
    BY <1>2, <1>3, ConcatProperties
  <2>2. \A i \in 1 .. Len(stream) + Len(batch) :
           t[i] = IF i <= Len(stream) THEN stream[i] ELSE batch[i - Len(stream)]
    BY <1>2, <1>3, ConcatProperties
  <2>3. ASSUME NEW i \in 1 .. BatchSize
        PROVE  t[Len(stream) + i] = batch[i]
    <3>1. /\ Len(stream) + i \in 1 .. Len(stream) + Len(batch)
          /\ ~(Len(stream) + i <= Len(stream)) /\ Len(stream) + i - Len(stream) = i
      BY <1>2, <1>4
    <3> QED
      BY <2>2, <3>1
  <2> QED
    BY <1>2, <1>4, <2>1, <2>2, <2>3
<1> HIDE DEF t
<1>6. Scanned = stream
  <2>1. Len(stream) - Len(randoms) + next - 1 = Len(stream)
    BY <1>3, <1>4
  <2> QED
    BY <1>3, <1>4, <2>1, PrefixFacts DEF Scanned
<1>7. Scanned' = stream
  <2>1. Len(t) - Len(batch) + 1 - 1 = Len(stream)
    BY <1>2, <1>4, <1>5
  <2>2. /\ Prefix(t, Len(stream)) \in Seq(Byte)
        /\ Len(Prefix(t, Len(stream))) = Len(stream)
        /\ \A i \in 1 .. Len(stream) : Prefix(t, Len(stream))[i] = t[i]
    <3> DEFINE m == Len(stream)
    <3>1. m \in Nat /\ m <= Len(t)
      BY <1>2, <1>4, <1>5
    <3> HIDE DEF m
    <3>2. /\ Prefix(t, m) \in Seq(Byte) /\ Len(Prefix(t, m)) = m
          /\ \A i \in 1 .. m : Prefix(t, m)[i] = t[i]
      BY <1>5, <3>1, PrefixFacts
    <3> QED
      BY <3>2 DEF m
  <2>3. Prefix(t, Len(stream)) = stream
    BY <1>3, <1>5, <2>2, SeqEqual
  <2> QED
    BY <1>1, <1>3, <2>1, <2>3 DEF Scanned, t
<1>8. ResultIsAcceptedPrefix'
  BY <1>3, <1>6, <1>7 DEF ResultIsAcceptedPrefix
<1>9. \A i \in 1 .. BatchSize : t[Len(t) - Len(batch) + i] = batch[i]
  <2>1. Len(t) - Len(batch) = Len(stream)
    BY <1>2, <1>4, <1>5
  <2> QED
    BY <1>5, <2>1
<1>10. Len(batch) <= Len(t) /\ 1 <= Len(batch) + 1
  BY <1>2, <1>4, <1>5
<1> QED
  BY <1>1, <1>2, <1>3, <1>8, <1>9, <1>10 DEF SampleInv, t

\* The forEach takes or skips the next byte of the stream.
LEMMA SampleAppend ==
    ASSUME NonceInv, SampleInv, AppendByte
    PROVE  SampleInv'
<1> DEFINE past == Len(stream) - Len(randoms) + next - 1
           r == randoms[next]
           v == ValidIndices(Scanned)
<1>1. /\ stream \in Seq(Byte) /\ randoms \in Seq(Byte) /\ result \in Seq(Char)
      /\ pc = "append" /\ Len(randoms) = BatchSize /\ next <= BatchSize
      /\ next \in 1 .. BatchSize + 1 /\ next' = next + 1
      /\ UNCHANGED <<pc, randoms, stream>>
      /\ Length \in Nat /\ BatchSize \in Nat
      /\ remainingLength \in 0 .. Length
      /\ Len(result) + remainingLength = Length
  BY NonceAssumption DEF NonceInv, TypeOK, AppendByte
<1>2. /\ Len(stream) \in Nat /\ Len(randoms) <= Len(stream) /\ Len(result) \in Nat
      /\ \A i \in 1 .. Len(randoms) :
            stream[Len(stream) - Len(randoms) + i] = randoms[i]
      /\ result = Prefix(v, Length)
  BY <1>1, LenProperties DEF SampleInv, ResultIsAcceptedPrefix
<1>3. past \in Nat /\ past < Len(stream) /\ past + 1 = Len(stream) - Len(randoms) + next
  BY <1>1, <1>2
<1>4. r = stream[past + 1] /\ r \in Byte /\ Scanned \in Seq(Byte)
  <2>1. next \in 1 .. Len(randoms)
    BY <1>1
  <2>2. r = stream[past + 1]
    BY <1>2, <1>3, <2>1
  <2>3. r \in Byte
    BY <1>1, <2>1, ElementOfSeq
  <2>4. Scanned \in Seq(Byte)
    BY <1>1, <1>3, PrefixFacts DEF Scanned
  <2> QED
    BY <2>2, <2>3, <2>4
<1>5. Scanned' = Append(Scanned, r)
  <2>1. Len(stream) - Len(randoms) + (next + 1) - 1 = past + 1
    BY <1>1, <1>2
  <2>2. Scanned = Prefix(stream, past) /\ Scanned' = Prefix(stream, past + 1)
    BY <1>1, <2>1 DEF Scanned
  <2> HIDE DEF past, r
  <2> QED
    BY <1>1, <1>3, <1>4, <2>2, PrefixNext
<1> HIDE DEF r
<1>6. ValidIndices(Scanned') = Sift(v, r) /\ v \in Seq(Char)
  BY <1>4, <1>5, ValidAppend, ValidChars
<1> HIDE DEF v
<1>7. result' = Prefix(Sift(v, r), Length)
  <2>1. CASE ~(r < CharsetCount)
    BY <1>2, <2>1 DEF AppendByte, Accepts, Sift, r
  <2>2. CASE r < CharsetCount
    <3>1. r \in Char /\ Sift(v, r) = Append(v, r) /\ Len(v) \in Nat
      BY <1>4, <1>6, <2>2, NonceAssumption, LenProperties DEF Byte, Char, Sift
    <3>2. /\ Len(v) < Length => /\ Prefix(v, Length) = v
                                /\ Prefix(Append(v, r), Length) = Append(v, r)
          /\ Len(v) >= Length => /\ Len(Prefix(v, Length)) = Length
                                 /\ Prefix(Append(v, r), Length) = Prefix(v, Length)
      BY <1>1, <1>6, <3>1, PrefixAppend
    <3>3. CASE Len(v) < Length
      <4>1. result = v /\ remainingLength # 0
        BY <1>1, <1>2, <3>2, <3>3
      <4>2. result' = Append(result, r)
        BY <2>2, <4>1 DEF AppendByte, Accepts, r
      <4> QED
        BY <3>1, <3>2, <3>3, <4>1, <4>2
    <3>4. CASE Len(v) >= Length
      <4>1. remainingLength = 0
        BY <1>1, <1>2, <3>2, <3>4
      <4>2. result' = result
        BY <4>1 DEF AppendByte, Accepts
      <4> QED
        BY <1>2, <3>1, <3>2, <3>4, <4>2
    <3> QED
      BY <1>1, <3>1, <3>3, <3>4
  <2> QED
    BY <2>1, <2>2
<1>8. ResultIsAcceptedPrefix'
  BY <1>6, <1>7 DEF ResultIsAcceptedPrefix
<1>9. next + 1 <= Len(randoms) + 1
  BY <1>1
<1> QED
  BY <1>1, <1>2, <1>8, <1>9 DEF SampleInv

\* The other steps scan nothing.
LEMMA SampleNext == NonceInv /\ SampleInv /\ [Next]_vars => SampleInv'
<1> SUFFICES ASSUME NonceInv, SampleInv, [Next]_vars
             PROVE  SampleInv'
  OBVIOUS
<1>1. CASE DrawFails \/ EndBatch \/ UNCHANGED vars
  <2>1. /\ UNCHANGED <<result, randoms, next, stream>>
        /\ pc' # "append" => pc # "append" \/ next > BatchSize
    BY <1>1 DEF DrawFails, EndBatch, vars
  <2>2. Scanned' = Scanned
    BY <2>1 DEF Scanned
  <2>3. pc' # "append" => next = Len(randoms) + 1
    <3>1. CASE pc # "append"
      BY <3>1 DEF SampleInv
    <3>2. CASE pc = "append"
      BY <2>1, <3>2, NonceAssumption DEF SampleInv, NonceInv, TypeOK
    <3> QED
      BY <3>1, <3>2
  <2> QED
    BY <2>1, <2>2, <2>3 DEF SampleInv, ResultIsAcceptedPrefix
<1> QED
  BY <1>1, SampleDraw, SampleAppend DEF Next

\* Rejection sampling takes every valid index once, in the order of the
\* stream, and stops at length: no byte is folded into the charset.
THEOREM NonceIsAcceptedPrefix == Spec => []ResultIsAcceptedPrefix
<1>1. SampleInv => ResultIsAcceptedPrefix
  BY DEF SampleInv
<1> QED
  BY <1>1, NonceInit, NonceStep, SampleInit, SampleNext, PTL DEF Spec

=============================================================================
