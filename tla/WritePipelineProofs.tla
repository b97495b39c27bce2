------------------------- MODULE WritePipelineProofs -------------------------
(***************************************************************************)
(* TLAPS proofs about WritePipeline, for any accounts, any size of the     *)
(* pipeline and any number of writes and faults.                           *)
(***************************************************************************)
EXTENDS WritePipeline, SequenceTheorems, WellFoundedInduction, TLAPS

\* A client while a handler runs: its counters are not bounded yet.
ClientRec ==
    [enabled : BOOLEAN, pipeline : Seq(Batch), state : StreamState,
     handshake : BOOLEAN, idle : BOOLEAN, closes : Nat, creds : SUBSET Nat,
     out : Seq(Message), in : Seq(Message), status : Status,
     failing : {"no", "armed", "ready"}, fatal : BOOLEAN]

\* The pipeline is the front of q, the user's queue.
PipelineOK(s, q) ==
    /\ IsPrefix(s.pipeline, q) /\ Len(s.pipeline) <= kMaxPendingWrites
    /\ IsStarted(s) /\ ~(IsOpen(s) /\ s.handshake) => s.pipeline # <<>>
    /\ s.idle => IsOpen(s) /\ s.handshake /\ s.pipeline = <<>>

\* A token is outstanding for the current start, and for no later one.
CredsOK(s) ==
    /\ \A n \in s.creds : n <= s.closes
    /\ s.closes \in s.creds <=> s.state = "Starting"

\* What the call carries: nothing without one, the handshake alone until it
\* is answered, then the pipeline.
CallOK(s) ==
    /\ ~IsOpen(s) => /\ s.out = <<>> /\ s.in = <<>>
                     /\ s.status = "ok" /\ s.failing = "no"
    /\ IsOpen(s) /\ ~s.handshake =>
          \/ s.in = <<Hello>> /\ s.out = <<>> /\ s.status # "permanent"
          \/ s.in = <<>> /\ s.out = <<Hello>>
          \/ s.in = <<>> /\ s.status = "transient"
    /\ IsOpen(s) /\ s.handshake =>
          /\ IsPrefix(s.in, s.pipeline)
          /\ s.status # "transient" => s.in \o s.out = s.pipeline
    /\ ~WriteRace => s.failing = "no"

\* What holds of the client inside a handler too, before the stream is
\* started again and the handshake forgotten.
ClientMid(s, q) ==
    /\ s \in ClientRec
    /\ s.enabled /\ ~s.fatal
    /\ PipelineOK(s, q) /\ CredsOK(s) /\ CallOK(s)

\* And between two handlers: whatever is to be sent has a stream.
ClientInv(s, q) ==
    /\ ClientMid(s, q)
    /\ ~IsStarted(s) => s.pipeline = <<>>
    /\ s.handshake => IsOpen(s)

\* Batch ids and writes grow along a queue.
Increasing(q) ==
    \A i, j \in DOMAIN q : i < j => q[i].id < q[j].id /\ q[i].w < q[j].w

\* The queues hold each write once, with its owner, in the order of issue,
\* and a completion waits for a batch of its user's queue.
StoreInv ==
    /\ owner \in Seq(Users) /\ Len(owner) <= MaxWrites
    /\ queue \in [Users -> Seq(Batch)] /\ user \in Users
    /\ nextId \in Nat \ {0} /\ nextId <= Len(owner) + 1
    /\ callbacks \subseteq Users \X Batch
    /\ done \in [Writes -> {"none", "ok", "error"}]
    /\ \A u \in Users : Increasing(queue[u])
    /\ \A u \in Users : \A i \in DOMAIN queue[u] :
          /\ queue[u][i].id < nextId
          /\ queue[u][i].w <= Len(owner)
          /\ owner[queue[u][i].w] = u
    /\ \A p \in callbacks : p[2] \in BatchesOf(queue[p[1]])

ServerInv ==
    /\ committed \subseteq Writes /\ refused \subseteq Writes
    /\ over \subseteq Writes \X Writes

\* A close is paid for by a fault.
ClosesInv ==
    /\ faults \in 0 .. MaxFaults
    /\ c.closes + (IF c.status = "ok" THEN 0 ELSE 1) <= faults

\* The message that made the server end the call is the next unanswered.
RefusedInv ==
    c.handshake /\ c.status = "permanent" =>
        c.out # <<>> /\ Head(c.out).w \in refused

\* The inductive invariant of the pipeline.
PipeInv ==
    /\ StoreInv /\ ServerInv /\ ClosesInv /\ RefusedInv
    /\ ClientInv(c, queue[user])

\* Of the writes of a user, those still queued are the last.
SuffixOK(o, p) ==
    \A u \in Users : \A i \in DOMAIN p[u] : \A w \in 1 .. Len(o) :
        o[w] = u /\ w >= p[u][i] => \E j \in DOMAIN p[u] : p[u][j] = w

\* A write told to have succeeded is settled, or the oldest in its queue.
ToldOK(p, d) ==
    \A u \in Users : \A j \in DOMAIN p[u] : d[p[u][j]] = "ok" => j = 1

\* A write that an earlier one of its user was committed over was not told to
\* have succeeded, and will not be before it is committed again.
OverOK(o, p, u, k, ov, d) ==
    \A x \in ov : x[2] < x[1] /\ o[x[2]] = o[x[1]] =>
        /\ d[x[1]] # "ok"
        /\ o[x[1]] = u => \A j \in DOMAIN p[u] : p[u][j] = x[1] => j > k

\* What is promised about acknowledged writes, and what it rests on: o owns,
\* p is pending, u is sent, k acknowledgements are in flight.
Acks(o, p, u, k, cm, ov, d) ==
    /\ cm \subseteq 1 .. Len(o)
    /\ ov \subseteq (1 .. Len(o)) \X (1 .. Len(o))
    /\ SuffixOK(o, p) /\ ToldOK(p, d) /\ OverOK(o, p, u, k, ov, d)
    /\ \A w \in Writes : d[w] = "ok" => w <= Len(o)

AckInv == Acks(owner, Pending, user, Cursor, committed, over, done)

\* The pending writes are owned by their users and in the order of issue.
Ordered(o, p) ==
    /\ o \in Seq(Users) /\ Len(o) <= MaxWrites
    /\ p \in [Users -> Seq(Writes)]
    /\ \A u \in Users : \A i \in DOMAIN p[u] :
          p[u][i] \in 1 .. Len(o) /\ o[p[u][i]] = u
    /\ \A u \in Users : \A i, j \in DOMAIN p[u] : i < j => p[u][i] < p[u][j]

-----------------------------------------------------------------------------
(* Numbers and sequences *)

\* Every set of natural numbers has a least element.
LEMMA LeastElement ==
    ASSUME NEW T \in SUBSET Nat, T # {}
    PROVE  \E x \in T : \A y \in T : x <= y
<1> DEFINE R == {p \in Nat \X Nat : p[1] < p[2]}
<1>1. IsWellFoundedOn(R, Nat)
  BY NatLessThanWellFounded DEF OpToRel
<1>2. T \subseteq Nat
  OBVIOUS
<1>3. PICK x \in T : \A y \in T : ~ (<<y, x>> \in R)
  <2> HIDE DEF R
  <2> QED
    BY <1>1, <1>2, WFMin
<1>4. ASSUME NEW y \in T
      PROVE  x <= y
  <2>1. ~ (<<y, x>> \in R)
    BY <1>3
  <2>2. ~ (y < x)
    BY <2>1
  <2> QED
    BY <2>2
<1> QED
  BY <1>4

\* A bounded one has a greatest, which Max returns.
LEMMA GreatestElement ==
    ASSUME NEW S \in SUBSET Nat, NEW n \in Nat, S # {}, \A x \in S : x <= n
    PROVE  Max(S) \in S /\ \A y \in S : Max(S) >= y
<1> DEFINE T == {n - x : x \in S}
<1>1. T \in SUBSET Nat /\ T # {}
  <2>1. \A x \in S : n - x \in Nat
    OBVIOUS
  <2> QED
    BY <2>1
<1>2. PICK z \in T : \A y \in T : z <= y
  BY <1>1, LeastElement
<1>3. PICK x \in S : z = n - x
  BY <1>2
<1>4. ASSUME NEW y \in S
      PROVE  x >= y
  <2>1. z <= n - y
    BY <1>2
  <2> QED
    BY <1>3, <2>1
<1> QED
  BY <1>3, <1>4 DEF Max

\* IsPrefix, element by element.
LEMMA PrefixFacts ==
    ASSUME NEW S, NEW s \in Seq(S), NEW t \in Seq(S)
    PROVE  IsPrefix(s, t)
               <=> Len(s) <= Len(t) /\ \A i \in 1 .. Len(s) : s[i] = t[i]
  BY DEF IsPrefix

\* A prefix continued.
LEMMA PrefixConcat ==
    ASSUME NEW S, NEW s \in Seq(S), NEW t \in Seq(S)
    PROVE  s \o t \in Seq(S) /\ IsPrefix(s, s \o t) /\ IsPrefix(<<>>, s)
<1> DEFINE r == s \o t
           e == <<>>
<1>1. /\ r \in Seq(S) /\ Len(s) \in Nat /\ Len(t) \in Nat
      /\ Len(r) = Len(s) + Len(t)
      /\ \A i \in 1 .. Len(s) : r[i] = s[i]
  BY ConcatProperties, LenProperties
<1>2. e \in Seq(S) /\ Len(e) = 0
  BY EmptySeq
<1> HIDE DEF r, e
<1>3. Len(s) <= Len(r) /\ Len(e) <= Len(s) /\ \A i \in 1 .. Len(e) : e[i] = s[i]
  BY <1>1, <1>2
<1>4. IsPrefix(s, r)
  BY <1>1, <1>3, PrefixFacts
<1>5. IsPrefix(e, s)
  BY <1>2, <1>3, PrefixFacts
<1> QED
  BY <1>1, <1>4, <1>5 DEF r, e

\* A prefix of a prefix.
LEMMA PrefixTrans ==
    ASSUME NEW S, NEW r \in Seq(S), NEW s \in Seq(S), NEW t \in Seq(S),
           IsPrefix(r, s), IsPrefix(s, t)
    PROVE  IsPrefix(r, t)
<1>1. Len(r) \in Nat /\ Len(s) \in Nat /\ Len(t) \in Nat
  BY LenProperties
<1> QED
  BY <1>1, PrefixFacts

\* What Tail and Head do to a sequence that is not empty.
LEMMA TailFacts ==
    ASSUME NEW S, NEW s \in Seq(S), s # <<>>
    PROVE  /\ Tail(s) \in Seq(S) /\ Head(s) \in S /\ Head(s) = s[1]
           /\ Len(s) \in Nat \ {0} /\ DOMAIN s = 1 .. Len(s)
           /\ Len(Tail(s)) = Len(s) - 1
           /\ DOMAIN Tail(s) = 1 .. Len(s) - 1
           /\ \A i \in 1 .. Len(s) - 1 : Tail(s)[i] = s[i + 1]
<1>1. /\ Len(s) \in Nat \ {0} /\ DOMAIN s = 1 .. Len(s)
      /\ Tail(s) \in Seq(S) /\ Head(s) \in S /\ Head(s) = s[1]
      /\ Len(Tail(s)) = Len(s) - 1
      /\ \A i \in 1 .. Len(s) - 1 : Tail(s)[i] = s[i + 1]
  BY HeadTailProperties, LenProperties, EmptySeq
<1>2. DOMAIN Tail(s) = 1 .. Len(s) - 1
  BY <1>1, LenProperties
<1> QED
  BY <1>1, <1>2

\* The tails of a prefix and of its sequence.
LEMMA TailPrefix ==
    ASSUME NEW S, NEW s \in Seq(S), NEW t \in Seq(S), s # <<>>, IsPrefix(s, t)
    PROVE  /\ t # <<>> /\ Head(s) = Head(t)
           /\ Tail(s) \in Seq(S) /\ Tail(t) \in Seq(S)
           /\ IsPrefix(Tail(s), Tail(t))
<1>1. Len(s) <= Len(t) /\ \A i \in 1 .. Len(s) : s[i] = t[i]
  BY PrefixFacts
<1>2. Len(s) \in Nat \ {0} /\ Len(t) \in Nat /\ Len(<<>>) = 0
  BY TailFacts, LenProperties, EmptySeq
<1>3. t # <<>>
  BY <1>1, <1>2
<1> DEFINE a == Tail(s)
           b == Tail(t)
<1>4. /\ a \in Seq(S) /\ b \in Seq(S)
      /\ Head(s) = s[1] /\ Head(t) = t[1]
      /\ Len(a) = Len(s) - 1 /\ Len(b) = Len(t) - 1
      /\ \A i \in 1 .. Len(s) - 1 : a[i] = s[i + 1]
      /\ \A i \in 1 .. Len(t) - 1 : b[i] = t[i + 1]
  BY <1>3, TailFacts
<1> HIDE DEF a, b
<1>5. Len(a) <= Len(b) /\ \A i \in 1 .. Len(a) : a[i] = b[i]
  BY <1>1, <1>2, <1>4
<1>6. IsPrefix(a, b)
  BY <1>4, <1>5, PrefixFacts
<1> QED
  BY <1>1, <1>2, <1>3, <1>4, <1>6 DEF a, b

\* The first message leaves a sequence.
LEMMA TailConcat ==
    ASSUME NEW S, NEW s \in Seq(S), NEW t \in Seq(S), s # <<>>
    PROVE  Tail(s) \o t = Tail(s \o t) /\ s \o t # <<>>
<1> DEFINE a == Tail(s)
           r == s \o t
           l == Tail(r)
           m == a \o t
<1>1. /\ a \in Seq(S) /\ Len(s) \in Nat \ {0} /\ Len(a) = Len(s) - 1
      /\ \A i \in 1 .. Len(s) - 1 : a[i] = s[i + 1]
  BY TailFacts
<1>2. Len(t) \in Nat /\ Len(<<>>) = 0
  BY LenProperties, EmptySeq
<1> HIDE DEF a
<1>3. /\ r \in Seq(S) /\ Len(r) = Len(s) + Len(t)
      /\ \A i \in 1 .. Len(s) + Len(t) :
             r[i] = IF i <= Len(s) THEN s[i] ELSE t[i - Len(s)]
  BY ConcatProperties
<1>4. /\ m \in Seq(S) /\ Len(m) = Len(a) + Len(t)
      /\ \A i \in 1 .. Len(a) + Len(t) :
             m[i] = IF i <= Len(a) THEN a[i] ELSE t[i - Len(a)]
  BY <1>1, ConcatProperties
<1>5. r # <<>>
  BY <1>1, <1>2, <1>3
<1> HIDE DEF r, m
<1>6. /\ l \in Seq(S) /\ Len(l) = Len(r) - 1
      /\ \A i \in 1 .. Len(r) - 1 : l[i] = r[i + 1]
  BY <1>3, <1>5, TailFacts
<1> HIDE DEF l
<1>7. Len(l) = Len(m) /\ \A i \in 1 .. Len(l) : l[i] = m[i]
  BY <1>1, <1>2, <1>3, <1>4, <1>6
<1>8. l = m
  BY <1>4, <1>6, <1>7, SeqEqual
<1> QED
  BY <1>5, <1>8 DEF l, m, r, a

\* The first message of one sequence becomes the last of another.
LEMMA ConcatMoves ==
    ASSUME NEW S, NEW s \in Seq(S), NEW t \in Seq(S), t # <<>>
    PROVE  /\ Append(s, Head(t)) \in Seq(S) /\ Tail(t) \in Seq(S)
           /\ Append(s, Head(t)) \o Tail(t) = s \o t
<1> DEFINE h == Head(t)
           l == Tail(t)
<1>1. h \in S /\ l \in Seq(S)
  BY TailFacts
<1>2. t = <<h>> \o l
  OBVIOUS
<1>3. <<h>> \in Seq(S)
  BY <1>1
<1> HIDE DEF h, l
<1>4. Append(s, h) = s \o <<h>> /\ Append(s, h) \in Seq(S)
  BY <1>1, AppendIsConcat, AppendProperties
<1>5. (s \o <<h>>) \o l = s \o (<<h>> \o l)
  BY <1>1, <1>3, ConcatAssociative
<1> QED
  BY <1>1, <1>2, <1>4, <1>5 DEF h, l

-----------------------------------------------------------------------------
(* Filling the pipeline *)

\* The numbers of a batch, and that it is not the handshake.
LEMMA BatchFacts ==
    ASSUME NEW b \in Batch
    PROVE  /\ b.id \in 1 .. MaxWrites /\ b.w \in Writes
           /\ b.id \in Nat \ {0} /\ b.w \in Nat \ {0}
           /\ b # Hello
  BY WritePipelineAssumption DEF Batch, Writes, Hello

\* NextMutationBatches continues the pipeline along the queue.
LEMMA NextBatches ==
    ASSUME NEW s \in ClientRec, NEW q \in Seq(Batch), Increasing(q), s.enabled,
           IsPrefix(s.pipeline, q), Len(s.pipeline) <= kMaxPendingWrites
    PROVE  LET new == NextMutationBatches(s, q)
           IN  /\ new \in Seq(Batch)
               /\ IsPrefix(s.pipeline \o new, q)
               /\ Len(s.pipeline \o new) <= kMaxPendingWrites
               /\ q # <<>> => s.pipeline \o new # <<>>
<1> DEFINE p == s.pipeline
           n == Len(p)
           last == IF p = <<>> THEN 0 ELSE Last(p).id
           Skips(k) == \A i \in 1 .. Len(q) : q[i].id > last <=> i > k
           skip == CHOOSE k \in 0 .. Len(q) : Skips(k)
           room == IF s.enabled THEN kMaxPendingWrites - Len(p) ELSE 0
           m == Min({skip + room, Len(q)})
           new == SubSeq(q, skip + 1, m)
           t == p \o new
<1>1. NextMutationBatches(s, q) = new
  BY DEF NextMutationBatches
<1>2. /\ p \in Seq(Batch) /\ n \in Nat /\ Len(q) \in Nat
      /\ DOMAIN q = 1 .. Len(q) /\ DOMAIN p = 1 .. Len(p)
      /\ kMaxPendingWrites \in Nat \ {0}
  BY LenProperties, WritePipelineAssumption DEF ClientRec
<1>3. \A i \in 1 .. Len(q) : q[i] \in Batch /\ q[i].id \in Nat \ {0}
  BY ElementOfSeq, BatchFacts
<1>4. n <= Len(q) /\ \A i \in 1 .. n : p[i] = q[i]
  BY <1>2, PrefixFacts
<1>5. /\ n = 0 => last = 0
      /\ n # 0 => last = q[n].id
  BY <1>2, <1>4, EmptySeq DEF Last
<1>6. Skips(n)
  <2> SUFFICES ASSUME NEW i \in 1 .. Len(q)
               PROVE  q[i].id > last <=> i > n
    OBVIOUS
  <2> HIDE DEF last, n
  <2>1. CASE n = 0
    BY <1>3, <1>5, <2>1
  <2>2. CASE n # 0
    <3>1. n \in 1 .. Len(q) /\ last = q[n].id
      BY <1>2, <1>4, <1>5, <2>2
    <3>2. /\ i < n => q[i].id < q[n].id
          /\ n < i => q[n].id < q[i].id
      BY <1>2, <3>1 DEF Increasing
    <3> QED
      BY <1>2, <1>3, <3>1, <3>2
  <2> QED
    BY <2>1, <2>2
<1>7. ASSUME NEW k \in 0 .. Len(q), Skips(k)
      PROVE  k = n
  <2> HIDE DEF last, n
  <2>1. ~ (k < n)
    <3> SUFFICES ASSUME k < n
                 PROVE  FALSE
      OBVIOUS
    <3>1. k + 1 \in 1 .. Len(q) /\ k + 1 > k /\ ~ (k + 1 > n)
      BY <1>2, <1>4
    <3> QED
      BY <1>6, <1>7, <3>1
  <2>2. ~ (k > n)
    <3> SUFFICES ASSUME k > n
                 PROVE  FALSE
      OBVIOUS
    <3>1. n + 1 \in 1 .. Len(q) /\ n + 1 > n /\ ~ (n + 1 > k)
      BY <1>2, <1>4
    <3> QED
      BY <1>6, <1>7, <3>1
  <2> QED
    BY <1>2, <2>1, <2>2
<1>8. skip = n
  <2>1. n \in 0 .. Len(q)
    BY <1>2, <1>4
  <2> HIDE DEF n, Skips
  <2> QED
    BY <1>6, <1>7, <2>1
<1> HIDE DEF skip, last
<1>9. m \in {skip + room, Len(q)} /\ m <= skip + room /\ m <= Len(q)
  <2>1. skip + room \in Nat
    BY <1>2, <1>8
  <2> HIDE DEF room
  <2>2. \E x \in {skip + room, Len(q)} : \A y \in {skip + room, Len(q)} : x <= y
    BY <1>2, <2>1
  <2> QED
    BY <1>2, <2>1, <2>2 DEF Min
<1>10. /\ m \in Nat /\ n <= m /\ m <= Len(q) /\ m <= kMaxPendingWrites
       /\ (Len(q) # 0 => m # 0)
  BY <1>2, <1>4, <1>8, <1>9
<1> HIDE DEF m, n, room
<1>11. /\ new \in Seq(Batch)
       /\ Len(new) = m - n
       /\ \A i \in 1 .. m - n : new[i] = q[n + i]
  <2>1. \A i \in n + 1 .. m : q[i] \in Batch
    BY <1>2, <1>3, <1>10
  <2>2. n + 1 \in Int /\ m \in Int
    BY <1>2, <1>10
  <2>3. /\ SubSeq(q, n + 1, m) \in Seq(Batch)
        /\ Len(SubSeq(q, n + 1, m)) = IF n + 1 <= m THEN m - (n + 1) + 1 ELSE 0
        /\ \A i \in 1 .. m - (n + 1) + 1 : SubSeq(q, n + 1, m)[i] = q[n + 1 + i - 1]
    BY <2>1, <2>2, SubSeqProperties
  <2> QED
    BY <1>2, <1>8, <1>10, <2>3
<1> HIDE DEF new
<1>12. /\ t \in Seq(Batch) /\ Len(t) = m
       /\ \A i \in 1 .. m : t[i] = IF i <= n THEN p[i] ELSE new[i - n]
  <2> HIDE DEF p
  <2>1. /\ t \in Seq(Batch) /\ Len(t) = Len(p) + Len(new)
        /\ \A i \in 1 .. Len(p) + Len(new) :
               t[i] = IF i <= Len(p) THEN p[i] ELSE new[i - Len(p)]
    BY <1>2, <1>11, ConcatProperties
  <2> QED
    BY <1>2, <1>10, <1>11, <2>1 DEF n
<1> HIDE DEF t
<1>13. \A i \in 1 .. m : t[i] = q[i]
  <2> SUFFICES ASSUME NEW i \in 1 .. m
               PROVE  t[i] = q[i]
    OBVIOUS
  <2> HIDE DEF p
  <2>1. CASE i <= n
    BY <1>2, <1>4, <1>10, <1>12, <2>1
  <2>2. CASE ~ (i <= n)
    <3>1. i - n \in 1 .. m - n /\ n + (i - n) = i
      BY <1>2, <1>10, <2>2
    <3> QED
      BY <1>11, <1>12, <2>2, <3>1
  <2> QED
    BY <2>1, <2>2
<1>14. IsPrefix(t, q)
  BY <1>10, <1>12, <1>13, PrefixFacts
<1>15. q # <<>> => t # <<>>
  BY <1>10, <1>12, EmptySeq
<1> QED
  BY <1>1, <1>10, <1>11, <1>12, <1>14, <1>15 DEF t

\* An assertion that holds changes nothing.
LEMMA AssertHolds ==
    ASSUME NEW s \in ClientRec, ~s.fatal, NEW holds \in BOOLEAN, holds
    PROVE  HardAssert(s, holds) = s
  BY DEF HardAssert, ClientRec

\* A batch is a message.
LEMMA BatchesAreMessages ==
    ASSUME NEW q \in Seq(Batch)
    PROVE  q \in Seq(Message)
  BY SeqMonotonic DEF Message

\* What Send does to each part of an open stream.
Sent(s, t, ms) ==
    /\ t \in ClientRec /\ ~t.fatal
    /\ t.enabled = s.enabled /\ t.pipeline = s.pipeline
    /\ t.state = s.state /\ t.handshake = s.handshake
    /\ t.closes = s.closes /\ t.creds = s.creds
    /\ t.in = s.in /\ t.status = s.status
    /\ t.out = s.out \o ms
    /\ t.idle => s.idle /\ ms = <<>>
    /\ ~WriteRace => t.failing = s.failing

\* Messages are handed to an open call.
LEMMA SendFields ==
    ASSUME NEW s \in ClientRec, ~s.fatal, IsOpen(s), NEW ms \in Seq(Message)
    PROVE  Sent(s, Send(s, ms), ms)
<1>1. s.out \o ms \in Seq(Message)
  BY ConcatProperties DEF ClientRec
<1>2. CASE ms = <<>>
  <2>1. s.out \o ms = s.out
    BY <1>2, ConcatEmptySeq DEF ClientRec
  <2>2. Send(s, ms) = s
    BY <1>2 DEF Send
  <2> QED
    BY <1>2, <2>1, <2>2 DEF ClientRec, Sent
<1>3. CASE ms # <<>>
  <2>1. HardAssert(s, IsOpen(s)) = s
    BY AssertHolds DEF IsOpen
  <2> DEFINE f == IF ~WriteRace \/ s.status = "ok" \/ s.failing # "no" THEN s.failing
                  ELSE IF s.in = <<>> THEN "ready" ELSE "armed"
  <2>2. f \in {"no", "armed", "ready"} /\ (~WriteRace => f = s.failing)
    BY DEF ClientRec
  <2>3. Send(s, ms) = [s EXCEPT !.idle = FALSE, !.out = s.out \o ms, !.failing = f]
    BY <1>3, <2>1 DEF Send
  <2> HIDE DEF f
  <2> QED
    BY <1>1, <1>3, <2>2, <2>3 DEF ClientRec, Sent
<1> QED
  BY <1>2, <1>3

\* What FillWritePipeline does to each part of the client.
Filled(s, t, new) ==
    LET sends == IsOpen(s) /\ s.handshake
    IN  /\ t \in ClientRec /\ t.enabled /\ ~t.fatal
        /\ t.pipeline = s.pipeline \o new
        /\ t.handshake = s.handshake /\ t.closes = s.closes
        /\ t.in = s.in /\ t.status = s.status
        /\ t.out = IF sends THEN s.out \o new ELSE s.out
        /\ ~sends \/ ~WriteRace => t.failing = s.failing
        /\ t.idle => \/ s.idle /\ (new = <<>> \/ ~sends)
                     \/ t.pipeline = <<>> /\ IsOpen(s)
        /\ IsStarted(s) \/ t.pipeline = <<>> =>
               t.state = s.state /\ t.creds = s.creds
        /\ ~IsStarted(s) /\ t.pipeline # <<>> =>
               \/ /\ s.state = "Error" /\ t.state = "Backoff"
                  /\ t.creds = s.creds
               \/ /\ s.state = "Initial" /\ t.state = "Starting"
                  /\ t.creds = s.creds \cup {s.closes}

\* FillWritePipeline, for the batches it finds.
LEMMA FillFields ==
    ASSUME NEW s \in ClientRec, s.enabled, ~s.fatal, NEW q,
           NEW new \in Seq(Batch), new = NextMutationBatches(s, q)
    PROVE  Filled(s, FillWritePipeline(s, q), new)
<1> DEFINE sends == IsOpen(s) /\ s.handshake
           filled == [s EXCEPT !.pipeline = s.pipeline \o new]
           sent == IF sends THEN WriteMutations(filled, new) ELSE filled
           marked == IF s.enabled /\ sent.pipeline = <<>> THEN MarkIdle(sent)
                     ELSE sent
<1>1. FillWritePipeline(s, q) = MaybeStart(marked)
  BY DEF FillWritePipeline
<1>2. /\ filled \in ClientRec /\ filled.pipeline = s.pipeline \o new
      /\ filled.enabled = s.enabled /\ filled.state = s.state
      /\ filled.handshake = s.handshake /\ filled.closes = s.closes
      /\ filled.creds = s.creds /\ filled.in = s.in /\ filled.out = s.out
      /\ filled.status = s.status /\ filled.idle = s.idle
      /\ filled.failing = s.failing /\ filled.fatal = s.fatal
  <2>1. s.pipeline \o new \in Seq(Batch)
    BY ConcatProperties DEF ClientRec
  <2> QED
    BY <2>1 DEF ClientRec
<1> HIDE DEF filled
<1>3. /\ sent \in ClientRec /\ ~sent.fatal
      /\ sent.pipeline = s.pipeline \o new
      /\ sent.enabled = s.enabled /\ sent.state = s.state
      /\ sent.handshake = s.handshake /\ sent.closes = s.closes
      /\ sent.creds = s.creds /\ sent.in = s.in /\ sent.status = s.status
      /\ sent.out = IF sends THEN s.out \o new ELSE s.out
      /\ sent.idle => s.idle /\ (new = <<>> \/ ~sends)
      /\ ~sends \/ ~WriteRace => sent.failing = s.failing
  <2>1. CASE sends
    <3>1. HardAssert(filled, filled.handshake) = filled
      BY <1>2, <2>1, AssertHolds DEF ClientRec
    <3>2. sent = Send(filled, new) /\ IsOpen(filled) /\ new \in Seq(Message)
      BY <1>2, <2>1, <3>1, BatchesAreMessages DEF WriteMutations, IsOpen
    <3>3. Sent(filled, sent, new)
      BY <1>2, <3>2, SendFields
    <3> HIDE DEF sent
    <3> QED
      BY <1>2, <2>1, <3>3 DEF Sent
  <2>2. CASE ~sends
    BY <1>2, <2>2
  <2> QED
    BY <2>1, <2>2
<1> HIDE DEF sent
<1>4. /\ marked \in ClientRec /\ ~marked.fatal
      /\ marked.pipeline = s.pipeline \o new
      /\ marked.enabled = s.enabled /\ marked.state = s.state
      /\ marked.handshake = s.handshake /\ marked.closes = s.closes
      /\ marked.creds = s.creds /\ marked.in = s.in /\ marked.status = s.status
      /\ marked.out = sent.out /\ marked.failing = sent.failing
      /\ marked.idle => sent.idle \/ (marked.pipeline = <<>> /\ IsOpen(s))
  <2>1. CASE sent.pipeline = <<>>
    <3>1. marked = [sent EXCEPT !.idle = sent.idle \/ IsOpen(sent)]
      BY <2>1 DEF MarkIdle
    <3>2. (IsOpen(sent) <=> IsOpen(s)) /\ IsOpen(sent) \in BOOLEAN
      BY <1>3 DEF IsOpen
    <3> QED
      BY <1>3, <2>1, <3>1, <3>2 DEF ClientRec
  <2>2. CASE sent.pipeline # <<>>
    BY <1>3, <2>2
  <2> QED
    BY <2>1, <2>2
<1> HIDE DEF marked
<1> DEFINE t == MaybeStart(marked)
<1>5. IsStarted(marked) <=> IsStarted(s)
  BY <1>4 DEF IsStarted, IsOpen
<1>6. CASE IsStarted(s) \/ marked.pipeline = <<>>
  <2>1. t = marked
    BY <1>5, <1>6 DEF MaybeStart, ShouldStartWriteStream
  <2> HIDE DEF t, Filled
  <2>2. t.pipeline = marked.pipeline
    BY <2>1
  <2> QED
    BY <1>1, <1>3, <1>4, <1>6, <2>1, <2>2 DEF t, Filled
<1>7. CASE ~IsStarted(s) /\ marked.pipeline # <<>>
  <2>1. t = Start(marked)
    BY <1>4, <1>5, <1>7 DEF MaybeStart, ShouldStartWriteStream
  <2>2. s.state \in {"Initial", "Error"}
    BY <1>7 DEF ClientRec, StreamState, IsStarted, IsOpen
  <2>3. CASE s.state = "Error"
    <3>1. t = [marked EXCEPT !.state = "Backoff"]
      BY <1>4, <2>1, <2>3 DEF Start
    <3>2. /\ t \in ClientRec /\ ~t.fatal /\ t.enabled = s.enabled
          /\ t.pipeline = marked.pipeline /\ t.handshake = s.handshake
          /\ t.closes = s.closes /\ t.in = s.in /\ t.status = s.status
          /\ t.out = sent.out /\ t.failing = sent.failing
          /\ t.idle = marked.idle /\ t.state = "Backoff" /\ t.creds = s.creds
      BY <1>4, <3>1 DEF ClientRec, StreamState
    <3> HIDE DEF t, Filled
    <3> QED
      BY <1>1, <1>3, <1>4, <1>7, <2>3, <3>2 DEF t, Filled
  <2>4. CASE s.state = "Initial"
    <3>1. HardAssert(marked, marked.state = "Initial") = marked
      BY <1>4, <2>4, AssertHolds
    <3>2. t = [marked EXCEPT !.state = "Starting",
                             !.creds = marked.creds \cup {marked.closes}]
      BY <1>4, <2>1, <2>4, <3>1 DEF Start
    <3>3. /\ t \in ClientRec /\ ~t.fatal /\ t.enabled = s.enabled
          /\ t.pipeline = marked.pipeline /\ t.handshake = s.handshake
          /\ t.closes = s.closes /\ t.in = s.in /\ t.status = s.status
          /\ t.out = sent.out /\ t.failing = sent.failing
          /\ t.idle = marked.idle /\ t.state = "Starting"
          /\ t.creds = s.creds \cup {s.closes}
      <4> DEFINE n == marked.creds \cup {marked.closes}
      <4>1. n \in SUBSET Nat /\ n = s.creds \cup {s.closes}
        BY <1>4 DEF ClientRec
      <4> HIDE DEF n, t
      <4>2. t = [marked EXCEPT !.state = "Starting", !.creds = n]
        BY <3>2 DEF n
      <4> QED
        BY <1>4, <4>1, <4>2 DEF ClientRec, StreamState
    <3> HIDE DEF t, Filled
    <3> QED
      BY <1>1, <1>3, <1>4, <1>7, <2>4, <3>3 DEF t, Filled
  <2> QED
    BY <2>2, <2>3, <2>4
<1> QED
  BY <1>6, <1>7

\* What a fill keeps of the client: all that a handler relies on.
Refilled(s, t, q) ==
    /\ ClientMid(t, q)
    /\ ~IsStarted(t) => t.pipeline = <<>>
    /\ IsStarted(s) => t.state = s.state
    /\ ~IsStarted(s) => ~IsOpen(t)
    /\ (t.handshake <=> s.handshake) /\ t.closes = s.closes
    /\ t.in = s.in /\ t.status = s.status
    /\ s.out # <<>> => t.out # <<>> /\ Head(t.out) = Head(s.out)
    /\ ~IsOpen(t) => t.out = <<>>

\* A sequence that is not empty keeps its head when it is continued.
LEMMA HeadConcat ==
    ASSUME NEW S, NEW s \in Seq(S), NEW t \in Seq(S), s # <<>>
    PROVE  s \o t # <<>> /\ Head(s \o t) = Head(s)
<1> DEFINE r == s \o t
<1>1. /\ r \in Seq(S) /\ Len(r) = Len(s) + Len(t)
      /\ \A i \in 1 .. Len(s) : r[i] = s[i]
  BY ConcatProperties
<1>2. /\ Len(s) \in Nat \ {0} /\ Len(t) \in Nat /\ Len(<<>>) = 0
      /\ Head(s) = s[1]
  BY TailFacts, LenProperties, EmptySeq
<1> HIDE DEF r
<1>3. r # <<>> /\ r[1] = s[1]
  BY <1>1, <1>2
<1>4. Head(r) = r[1]
  BY <1>1, <1>3, TailFacts
<1> QED
  BY <1>2, <1>3, <1>4 DEF r

\* FillWritePipeline keeps what the handlers rely on.
LEMMA FillInv ==
    ASSUME NEW s, NEW q \in Seq(Batch), Increasing(q), ClientMid(s, q)
    PROVE  Refilled(s, FillWritePipeline(s, q), q)
<1> DEFINE new == NextMutationBatches(s, q)
           t == FillWritePipeline(s, q)
           tp == s.pipeline \o new
<1>1. /\ s \in ClientRec /\ s.enabled /\ ~s.fatal
      /\ IsPrefix(s.pipeline, q) /\ Len(s.pipeline) <= kMaxPendingWrites
  BY DEF ClientMid, PipelineOK
<1>2. /\ new \in Seq(Batch) /\ IsPrefix(tp, q)
      /\ Len(tp) <= kMaxPendingWrites
  BY <1>1, NextBatches
<1>3. /\ s.pipeline \in Seq(Batch) /\ s.in \in Seq(Message)
      /\ s.out \in Seq(Message) /\ s.closes \in Nat /\ s.creds \subseteq Nat
      /\ s.pipeline \in Seq(Message) /\ new \in Seq(Message)
      /\ s.state \in StreamState
  BY <1>1, <1>2, BatchesAreMessages DEF ClientRec
<1>4. Filled(s, t, new)
  BY <1>1, <1>2, FillFields
<1> HIDE DEF new, t
<1>5. /\ tp \in Seq(Batch) /\ IsPrefix(s.pipeline, tp)
      /\ tp \in Seq(Message)
  <2>1. tp \in Seq(Batch)
    BY <1>2, <1>3, PrefixConcat
  <2>2. IsPrefix(s.pipeline, tp)
    BY <1>2, <1>3, PrefixConcat
  <2> QED
    BY <2>1, <2>2, BatchesAreMessages
<1>6. s.pipeline # <<>> => tp # <<>>
  BY <1>2, <1>3, HeadConcat
<1>7. /\ IsStarted(s) => t.state = s.state
      /\ ~IsStarted(s) => ~IsOpen(t) /\ ~IsOpen(s)
      /\ IsOpen(t) <=> IsOpen(s)
      /\ ~IsStarted(t) => t.pipeline = <<>>
  BY <1>3, <1>4 DEF Filled, IsStarted, IsOpen, StreamState
<1>8. t.pipeline = tp /\ (t.handshake <=> s.handshake)
  BY <1>4 DEF Filled
<1>9. PipelineOK(t, q)
  <2>1. ASSUME IsStarted(t), ~(IsOpen(t) /\ t.handshake)
        PROVE  t.pipeline # <<>>
    <3>1. CASE IsStarted(s)
      <4>1. ~(IsOpen(s) /\ s.handshake)
        BY <1>7, <1>8, <2>1
      <4>2. s.pipeline # <<>>
        BY <3>1, <4>1 DEF ClientMid, PipelineOK
      <4> QED
        BY <1>6, <1>8, <4>2
    <3>2. CASE ~IsStarted(s)
      <4>1. SUFFICES ASSUME t.pipeline = <<>>
                     PROVE  FALSE
        OBVIOUS
      <4>2. t.state = s.state
        BY <1>4, <4>1 DEF Filled
      <4> QED
        BY <2>1, <3>2, <4>2 DEF IsStarted, IsOpen
    <3> QED
      BY <3>1, <3>2
  <2>2. ASSUME t.idle
        PROVE  IsOpen(t) /\ t.handshake /\ t.pipeline = <<>>
    <3>1. CASE s.idle /\ (new = <<>> \/ ~(IsOpen(s) /\ s.handshake))
      <4>1. IsOpen(s) /\ s.handshake /\ s.pipeline = <<>>
        BY <3>1 DEF ClientMid, PipelineOK
      <4>2. new = <<>>
        BY <3>1, <4>1
      <4> QED
        BY <1>7, <1>8, <4>1, <4>2
    <3>2. CASE t.pipeline = <<>> /\ IsOpen(s)
      <4>1. s.pipeline = <<>> /\ IsStarted(s)
        BY <1>6, <1>8, <3>2 DEF IsStarted
      <4>2. s.handshake
        BY <4>1 DEF ClientMid, PipelineOK
      <4> QED
        BY <1>7, <1>8, <3>2, <4>2
    <3> QED
      BY <1>4, <2>2, <3>1, <3>2 DEF Filled
  <2> QED
    BY <1>2, <1>8, <2>1, <2>2 DEF PipelineOK
<1>10. CredsOK(t)
  <2>1. /\ \A n \in s.creds : n <= s.closes
        /\ (s.closes \in s.creds <=> s.state = "Starting")
    BY DEF ClientMid, CredsOK
  <2>2. t.closes = s.closes
    BY <1>4 DEF Filled
  <2>3. CASE t.state = s.state /\ t.creds = s.creds
    BY <2>1, <2>2, <2>3 DEF CredsOK
  <2>4. CASE s.state = "Error" /\ t.state = "Backoff" /\ t.creds = s.creds
    BY <2>1, <2>2, <2>4 DEF CredsOK
  <2>5. CASE /\ s.state = "Initial" /\ t.state = "Starting"
             /\ t.creds = s.creds \cup {s.closes}
    BY <1>3, <2>1, <2>2, <2>5 DEF CredsOK
  <2> QED
    BY <1>4, <2>3, <2>4, <2>5 DEF Filled
<1>11. CallOK(t)
  <2>1. /\ ~IsOpen(s) => /\ s.out = <<>> /\ s.in = <<>>
                         /\ s.status = "ok" /\ s.failing = "no"
        /\ IsOpen(s) /\ ~s.handshake =>
              \/ s.in = <<Hello>> /\ s.out = <<>> /\ s.status # "permanent"
              \/ s.in = <<>> /\ s.out = <<Hello>>
              \/ s.in = <<>> /\ s.status = "transient"
        /\ IsOpen(s) /\ s.handshake =>
              /\ IsPrefix(s.in, s.pipeline)
              /\ s.status # "transient" => s.in \o s.out = s.pipeline
        /\ ~WriteRace => s.failing = "no"
    BY DEF ClientMid, CallOK
  <2>2. /\ t.in = s.in /\ t.status = s.status
        /\ ~WriteRace => t.failing = s.failing
    BY <1>4 DEF Filled
  <2>3. CASE IsOpen(s) /\ s.handshake
    <3>1. t.out = s.out \o new
      BY <1>4, <2>3 DEF Filled
    <3>2. IsPrefix(s.in, tp)
      BY <1>3, <1>5, <2>1, <2>3, PrefixTrans
    <3>3. s.in \o (s.out \o new) = (s.in \o s.out) \o new
      <4>1. \A x, y, z \in Seq(Message) : (x \o y) \o z = x \o (y \o z)
        BY ConcatAssociative
      <4> QED
        BY <1>3, <4>1
    <3>4. s.status # "transient" => s.in \o t.out = tp
      BY <2>1, <2>3, <3>1, <3>3
    <3> QED
      BY <1>7, <1>8, <2>1, <2>2, <2>3, <3>2, <3>4 DEF CallOK
  <2>4. CASE ~(IsOpen(s) /\ s.handshake)
    <3>1. t.out = s.out /\ t.failing = s.failing
      BY <1>4, <2>4 DEF Filled
    <3> QED
      BY <1>7, <1>8, <2>1, <2>2, <2>4, <3>1 DEF CallOK
  <2> QED
    BY <2>3, <2>4
<1>12. ClientMid(t, q)
  BY <1>4, <1>9, <1>10, <1>11 DEF ClientMid, Filled
<1>13. s.out # <<>> => t.out # <<>> /\ Head(t.out) = Head(s.out)
  <2>1. t.out = s.out \/ t.out = s.out \o new
    BY <1>4 DEF Filled
  <2> QED
    BY <1>3, <2>1, HeadConcat
<1>14. ~IsOpen(t) => t.out = <<>>
  BY <1>11 DEF CallOK
<1>15. t.closes = s.closes /\ t.in = s.in /\ t.status = s.status
  BY <1>4 DEF Filled
<1> QED
  BY <1>7, <1>8, <1>12, <1>13, <1>14, <1>15 DEF Refilled, t

-----------------------------------------------------------------------------
(* Closing the stream *)

\* The stream as Close leaves it to OnWriteStreamClose.
Severed(s, status) ==
    [s EXCEPT !.idle = FALSE, !.closes = s.closes + 1,
              !.out = <<>>, !.in = <<>>, !.status = "ok", !.failing = "no",
              !.state = IF status = "ok" THEN "Initial" ELSE "Error"]

\* t is s without its call.
NoCall(s, t) ==
    /\ t \in ClientRec /\ ~t.fatal
    /\ t.enabled = s.enabled /\ t.closes = s.closes + 1 /\ t.creds = s.creds
    /\ ~t.idle /\ t.out = <<>> /\ t.in = <<>>
    /\ t.status = "ok" /\ t.failing = "no"

\* The empty sequence is one of everything.
LEMMA EmptyIsSeq ==
    ASSUME NEW S
    PROVE  <<>> \in Seq(S)
  BY EmptySeq

\* Close, its assertion passed.
LEMMA CloseFields ==
    ASSUME NEW s \in ClientRec, ~s.fatal, IsStarted(s), NEW q,
           NEW status \in Status
    PROVE  LET d == Severed(s, status)
           IN  /\ Close(s, status, q)
                    = [OnWriteStreamClose(d, status, q) EXCEPT !.handshake = FALSE]
               /\ NoCall(s, d) /\ d.pipeline = s.pipeline
               /\ d.handshake = s.handshake
               /\ d.state = IF status = "ok" THEN "Initial" ELSE "Error"
<1>1. HardAssert(s, IsStarted(s)) = s
  BY AssertHolds DEF IsStarted, IsOpen
<1> DEFINE d == Severed(s, status)
<1>2. Close(s, status, q)
         = [OnWriteStreamClose(d, status, q) EXCEPT !.handshake = FALSE]
  BY <1>1 DEF Close, Severed
<1>3. <<>> \in Seq(Message) /\ s.closes + 1 \in Nat
  BY EmptyIsSeq DEF ClientRec
<1>4. d \in ClientRec
  BY <1>3 DEF ClientRec, Severed, Status, StreamState
<1>5. NoCall(s, d)
  BY <1>3, <1>4 DEF NoCall, ClientRec, Severed
<1>6. /\ d.pipeline = s.pipeline /\ d.handshake = s.handshake
      /\ d.state = IF status = "ok" THEN "Initial" ELSE "Error"
  BY DEF Severed, ClientRec
<1> QED
  BY <1>2, <1>5, <1>6

\* Without a call the tokens asked for are stale.
LEMMA NoCallFacts ==
    ASSUME NEW s \in ClientRec, NEW t, NoCall(s, t),
           \A n \in s.creds : n <= s.closes, t.state # "Starting",
           ~IsOpen(t)
    PROVE  CredsOK(t) /\ CallOK(t)
<1>1. /\ s.closes \in Nat /\ s.creds \subseteq Nat
      /\ \A n \in s.creds : n <= s.closes
  BY DEF ClientRec
<1>2. t.closes = s.closes + 1 /\ t.creds = s.creds
  BY DEF NoCall
<1>3. CredsOK(t)
  BY <1>1, <1>2 DEF CredsOK
<1>4. CallOK(t)
  BY DEF CallOK, NoCall
<1> QED
  BY <1>3, <1>4

\* What a close ends in.
Closed(s, t, q) ==
    /\ ClientInv(t, q)
    /\ t.closes = s.closes + 1
    /\ t.status = "ok" /\ t.in = <<>> /\ ~t.handshake

\* An error that is not charged to a batch: the stream waits for its backoff.
LEMMA CloseError ==
    ASSUME NEW s \in ClientRec, NEW q, s.enabled, ~s.fatal, IsStarted(s),
           PipelineOK(s, q), \A n \in s.creds : n <= s.closes,
           NEW status \in Status, status # "ok", ~RejectsFront(s, status)
    PROVE  Closed(s, Close(s, status, q), q)
<1> DEFINE d == Severed(s, status)
           e == OnWriteStreamClose(d, status, q)
           t == Close(s, status, q)
<1>2. /\ t = [e EXCEPT !.handshake = FALSE]
      /\ NoCall(s, d) /\ d.pipeline = s.pipeline
      /\ d.handshake = s.handshake /\ d.state = "Error"
  BY CloseFields
<1> HIDE DEF d, t
<1>3. /\ d \in ClientRec /\ ~d.fatal /\ d.enabled
  BY <1>2 DEF NoCall
<1>4. HardAssert(d, status = "ok" => ~ShouldStartWriteStream(d)) = d
  BY <1>3, AssertHolds
<1>5. ~RejectsFront(d, status)
  BY <1>2 DEF RejectsFront
<1>6. e = MaybeStart(d)
  BY <1>4, <1>5 DEF OnWriteStreamClose
<1>7. ~IsStarted(d) /\ ~IsOpen(d)
  BY <1>2 DEF IsStarted, IsOpen
<1>8. e = IF d.pipeline = <<>> THEN d ELSE [d EXCEPT !.state = "Backoff"]
  BY <1>2, <1>3, <1>6, <1>7 DEF MaybeStart, ShouldStartWriteStream, Start
<1> HIDE DEF e
<1>9. /\ t \in ClientRec /\ NoCall(s, t) /\ t.pipeline = s.pipeline
      /\ ~t.handshake
      /\ t.state = IF s.pipeline = <<>> THEN "Error" ELSE "Backoff"
  <2>1. CASE d.pipeline = <<>>
    <3>1. t = [d EXCEPT !.handshake = FALSE]
      BY <1>2, <1>8, <2>1
    <3> QED
      BY <1>2, <1>3, <2>1, <3>1 DEF NoCall, ClientRec
  <2>2. CASE d.pipeline # <<>>
    <3>1. t = [d EXCEPT !.state = "Backoff", !.handshake = FALSE]
      BY <1>2, <1>3, <1>8, <2>2 DEF ClientRec
    <3> QED
      BY <1>2, <1>3, <2>2, <3>1 DEF NoCall, ClientRec, StreamState
  <2> QED
    BY <2>1, <2>2
<1>10. CredsOK(t) /\ CallOK(t)
  BY <1>9, NoCallFacts DEF IsOpen
<1>11. PipelineOK(t, q)
  <2>1. IsPrefix(t.pipeline, q) /\ Len(t.pipeline) <= kMaxPendingWrites
    BY <1>9 DEF PipelineOK
  <2>2. ~t.idle
    BY <1>9 DEF NoCall
  <2> QED
    BY <1>9, <2>1, <2>2 DEF PipelineOK, IsStarted, IsOpen
<1>12. ClientMid(t, q)
  BY <1>9, <1>10, <1>11 DEF ClientMid, NoCall
<1>13. ClientInv(t, q)
  BY <1>9, <1>12 DEF ClientInv, IsStarted, IsOpen
<1> QED
  BY <1>9, <1>13 DEF Closed, NoCall, t

\* An error charged to the front batch: it leaves the pipeline as it leaves
\* the queue, and the stream starts at once for the others.
LEMMA CloseReject ==
    ASSUME NEW s, NEW q \in Seq(Batch), ClientMid(s, q), IsStarted(s),
           Increasing(Tail(q)),
           NEW status \in Status, RejectsFront(s, status)
    PROVE  Closed(s, Close(s, status, Tail(q)), Tail(q))
<1> DEFINE r == Tail(q)
           d == Severed(s, status)
           p == [d EXCEPT !.pipeline = Tail(d.pipeline)]
           m == InhibitBackoff(p)
           f == FillWritePipeline(m, r)
           t == Close(s, status, r)
<1>1. s \in ClientRec /\ s.enabled /\ ~s.fatal /\ PipelineOK(s, q) /\ CredsOK(s)
  BY DEF ClientMid
<1>2. status = "permanent" /\ s.pipeline # <<>> /\ s.pipeline \in Seq(Batch)
  BY <1>1 DEF RejectsFront, ClientRec
<1>3. /\ t = [OnWriteStreamClose(d, status, r) EXCEPT !.handshake = FALSE]
      /\ NoCall(s, d) /\ d.pipeline = s.pipeline
      /\ d.handshake = s.handshake /\ d.state = "Error"
  BY <1>1, <1>2, CloseFields
<1> HIDE DEF d
<1>4. /\ d \in ClientRec /\ ~d.fatal /\ d.enabled
  BY <1>1, <1>3 DEF NoCall
<1>5. HardAssert(d, status = "ok" => ~ShouldStartWriteStream(d)) = d
  BY <1>2, <1>4, AssertHolds
<1>6. RejectsFront(d, status)
  BY <1>3 DEF RejectsFront
<1>7. OnWriteStreamClose(d, status, r) = MaybeStart(f)
  BY <1>5, <1>6 DEF OnWriteStreamClose
<1>8. /\ Tail(s.pipeline) \in Seq(Batch) /\ r \in Seq(Batch)
      /\ IsPrefix(Tail(s.pipeline), r)
      /\ Len(Tail(s.pipeline)) <= kMaxPendingWrites
  <2>1. IsPrefix(s.pipeline, q) /\ Len(s.pipeline) <= kMaxPendingWrites
    BY <1>1 DEF PipelineOK
  <2>2. /\ Tail(s.pipeline) \in Seq(Batch) /\ r \in Seq(Batch)
        /\ IsPrefix(Tail(s.pipeline), r)
    BY <1>2, <2>1, TailPrefix
  <2>3. Len(s.pipeline) \in Nat /\ Len(Tail(s.pipeline)) = Len(s.pipeline) - 1
    BY <1>2, TailFacts
  <2> QED
    BY <2>1, <2>2, <2>3, WritePipelineAssumption
<1>9. /\ p \in ClientRec /\ ~p.fatal /\ p.state = "Error" /\ NoCall(s, p)
      /\ p.pipeline = Tail(s.pipeline) /\ p.handshake = s.handshake
  BY <1>3, <1>4, <1>8 DEF ClientRec, NoCall
<1> HIDE DEF p
<1>10. HardAssert(p, ~IsStarted(p)) = p
  BY <1>9, AssertHolds DEF IsStarted, IsOpen
<1>11. m = [p EXCEPT !.state = "Initial"]
  BY <1>10 DEF InhibitBackoff
<1>12. /\ NoCall(s, m) /\ m.state = "Initial"
       /\ m.pipeline = Tail(s.pipeline) /\ m.handshake = s.handshake
  BY <1>9, <1>11 DEF ClientRec, NoCall, StreamState
<1> HIDE DEF m
<1>13. CredsOK(m) /\ CallOK(m) /\ ~IsStarted(m) /\ ~IsOpen(m)
  BY <1>1, <1>12, NoCallFacts DEF IsOpen, IsStarted, CredsOK
<1>14. ClientMid(m, r)
  <2>1. PipelineOK(m, r)
    BY <1>8, <1>12, <1>13 DEF PipelineOK, NoCall
  <2> QED
    BY <1>1, <1>12, <1>13, <2>1 DEF ClientMid, NoCall
<1>15. Refilled(m, f, r)
  <2> HIDE DEF r
  <2> QED
    BY <1>8, <1>14, FillInv DEF r
<1> HIDE DEF f, r
<1>16. /\ ClientMid(f, r) /\ ~IsOpen(f) /\ (~IsStarted(f) => f.pipeline = <<>>)
       /\ f.closes = s.closes + 1 /\ f.in = <<>> /\ f.status = "ok"
  BY <1>12, <1>13, <1>15 DEF Refilled, NoCall
<1>17. MaybeStart(f) = f
  BY <1>16 DEF MaybeStart, ShouldStartWriteStream
<1>18. t = [f EXCEPT !.handshake = FALSE] /\ f \in ClientRec
  BY <1>3, <1>7, <1>16, <1>17 DEF ClientMid
<1> HIDE DEF t
<1>19. /\ t \in ClientRec /\ ~t.handshake
       /\ t.enabled = f.enabled /\ t.fatal = f.fatal /\ t.idle = f.idle
       /\ t.pipeline = f.pipeline /\ t.state = f.state /\ t.creds = f.creds
       /\ t.closes = f.closes /\ t.out = f.out /\ t.in = f.in
       /\ t.status = f.status /\ t.failing = f.failing
  BY <1>18 DEF ClientRec
<1>20. /\ ~IsOpen(t) /\ (IsStarted(t) <=> IsStarted(f))
  BY <1>16, <1>19 DEF IsOpen, IsStarted
<1>21. PipelineOK(t, r)
  BY <1>16, <1>19, <1>20 DEF ClientMid, PipelineOK
<1>22. CredsOK(t) /\ CallOK(t)
  BY <1>16, <1>19, <1>20 DEF ClientMid, CredsOK, CallOK
<1>23. ClientMid(t, r)
  BY <1>16, <1>19, <1>21, <1>22 DEF ClientMid
<1> QED
  BY <1>16, <1>19, <1>20, <1>23 DEF Closed, ClientInv, t, r

\* A stream that is closed on purpose: the network is being disabled, or
\* there is nothing to send.
LEMMA CloseOk ==
    ASSUME NEW s \in ClientRec, ~s.fatal, IsStarted(s), NEW q,
           ~s.enabled \/ s.pipeline = <<>>
    PROVE  LET t == Close(s, "ok", q)
           IN  /\ NoCall(s, t) /\ t.pipeline = s.pipeline
               /\ ~t.handshake /\ t.state = "Initial"
<1> DEFINE d == Severed(s, "ok")
           e == OnWriteStreamClose(d, "ok", q)
           t == Close(s, "ok", q)
<1>1. /\ t = [e EXCEPT !.handshake = FALSE]
      /\ NoCall(s, d) /\ d.pipeline = s.pipeline
      /\ d.handshake = s.handshake /\ d.state = "Initial"
  BY CloseFields DEF Status
<1> HIDE DEF d
<1>2. d \in ClientRec /\ ~d.fatal /\ d.enabled = s.enabled
  BY <1>1 DEF NoCall
<1>3. ~ShouldStartWriteStream(d)
  BY <1>1, <1>2 DEF ShouldStartWriteStream
<1>4. HardAssert(d, "ok" = "ok" => ~ShouldStartWriteStream(d)) = d
  <2> DEFINE h == "ok" = "ok" => ~ShouldStartWriteStream(d)
  <2>1. h /\ h \in BOOLEAN
    BY <1>3
  <2> HIDE DEF h
  <2>2. HardAssert(d, h) = d
    BY <1>2, <2>1, AssertHolds
  <2> QED
    BY <2>2 DEF h
<1>5. e = d
  BY <1>3, <1>4 DEF OnWriteStreamClose, RejectsFront, MaybeStart
<1>6. t = [d EXCEPT !.handshake = FALSE]
  BY <1>1, <1>5
<1> HIDE DEF t
<1> QED
  BY <1>1, <1>2, <1>6 DEF NoCall, ClientRec, t

\* A client with nothing in its pipeline and no stream.
Blank(s) ==
    /\ s \in ClientRec /\ s.enabled /\ ~s.fatal
    /\ s.pipeline = <<>> /\ s.state = "Initial"
    /\ ~s.handshake /\ ~s.idle /\ s.out = <<>> /\ s.in = <<>>
    /\ s.status = "ok" /\ s.failing = "no"
    /\ \A n \in s.creds : n < s.closes

\* Such a client is filled from any queue.
LEMMA FillBlank ==
    ASSUME NEW s, Blank(s), NEW q \in Seq(Batch), Increasing(q)
    PROVE  LET t == FillWritePipeline(s, q)
           IN  /\ ClientInv(t, q) /\ t.closes = s.closes
               /\ t.status = "ok" /\ t.in = <<>> /\ ~t.handshake
<1> DEFINE t == FillWritePipeline(s, q)
<1>1. ~IsStarted(s) /\ ~IsOpen(s)
  BY DEF Blank, IsStarted, IsOpen
<1>2. IsPrefix(s.pipeline, q) /\ Len(s.pipeline) <= kMaxPendingWrites
  <2>1. IsPrefix(<<>>, q)
    BY PrefixConcat
  <2>2. Len(<<>>) <= kMaxPendingWrites
    BY EmptySeq, WritePipelineAssumption
  <2> QED
    BY <2>1, <2>2 DEF Blank
<1>3. PipelineOK(s, q)
  BY <1>1, <1>2 DEF PipelineOK, Blank
<1>4. CredsOK(s)
  <2>1. s.closes \in Nat /\ s.creds \subseteq Nat /\ \A n \in s.creds : n < s.closes
    BY DEF Blank, ClientRec
  <2>2. s.closes \notin s.creds /\ \A n \in s.creds : n <= s.closes
    BY <2>1
  <2> QED
    BY <2>2 DEF CredsOK, Blank
<1>5. CallOK(s)
  BY <1>1 DEF CallOK, Blank
<1>6. Refilled(s, t, q)
  BY <1>3, <1>4, <1>5, FillInv DEF ClientMid, Blank
<1> HIDE DEF t
<1> QED
  BY <1>1, <1>6 DEF Refilled, ClientInv, Blank, t

\* RestartNetwork, with the queue it fills the pipeline from.
LEMMA RestartInv ==
    ASSUME NEW s, NEW p, ClientInv(s, p), NEW q \in Seq(Batch), Increasing(q)
    PROVE  LET t == Restart(s, q)
           IN  /\ ClientInv(t, q)
               /\ t.closes \in {s.closes, s.closes + 1}
               /\ t.status = "ok" /\ t.in = <<>> /\ ~t.handshake
<1> DEFINE d == [s EXCEPT !.enabled = FALSE]
           e == Stop(d, q)
           f == [e EXCEPT !.pipeline = <<>>]
           g == InhibitBackoff(f)
           h == [g EXCEPT !.enabled = TRUE]
<1>1. Restart(s, q) = FillWritePipeline(h, q)
  BY DEF Restart
<1>2. /\ s \in ClientRec /\ ~s.fatal /\ PipelineOK(s, p) /\ CredsOK(s)
      /\ CallOK(s) /\ (s.handshake => IsOpen(s))
  BY DEF ClientInv, ClientMid
<1>3. /\ d \in ClientRec /\ ~d.fatal /\ ~d.enabled
      /\ d.closes = s.closes /\ d.creds = s.creds /\ d.state = s.state
      /\ d.handshake = s.handshake /\ d.idle = s.idle
      /\ d.out = s.out /\ d.in = s.in /\ d.status = s.status
      /\ d.failing = s.failing
  BY <1>2 DEF ClientRec
<1> HIDE DEF d
<1>4. (IsStarted(d) <=> IsStarted(s)) /\ (IsOpen(d) <=> IsOpen(s))
  BY <1>3 DEF IsStarted, IsOpen
<1>5. /\ s.closes \in Nat /\ s.creds \subseteq Nat /\ s.state \in StreamState
      /\ \A n \in s.creds : n <= s.closes
      /\ (s.closes \in s.creds => s.state = "Starting")
  BY <1>2 DEF CredsOK, ClientRec
<1>6. /\ e \in ClientRec /\ ~e.fatal /\ e.state \in {"Initial", "Error"}
      /\ ~e.handshake /\ ~e.idle /\ e.out = <<>> /\ e.in = <<>>
      /\ e.status = "ok" /\ e.failing = "no"
      /\ e.closes \in {s.closes, s.closes + 1}
      /\ \A n \in e.creds : n < e.closes
  <2>1. CASE IsStarted(s)
    <3>1. e = Close(d, "ok", q)
      BY <1>4, <2>1 DEF Stop
    <3>2. NoCall(d, e) /\ ~e.handshake /\ e.state = "Initial"
      BY <1>3, <1>4, <2>1, <3>1, CloseOk
    <3> HIDE DEF e
    <3>3. e.closes = s.closes + 1 /\ e.creds = s.creds
      BY <1>3, <3>2 DEF NoCall
    <3>4. \A n \in e.creds : n < e.closes
      BY <1>5, <3>3
    <3> QED
      BY <3>2, <3>3, <3>4 DEF NoCall
  <2>2. CASE ~IsStarted(s)
    <3>1. e = d
      BY <1>4, <2>2 DEF Stop
    <3> HIDE DEF e
    <3>2. s.state \in {"Initial", "Error"} /\ ~IsOpen(s)
      BY <1>5, <2>2 DEF StreamState, IsStarted, IsOpen
    <3>3. ~s.handshake /\ ~s.idle
      BY <1>2, <3>2 DEF PipelineOK
    <3>4. s.out = <<>> /\ s.in = <<>> /\ s.status = "ok" /\ s.failing = "no"
      BY <1>2, <3>2 DEF CallOK
    <3>5. \A n \in s.creds : n < s.closes
      <4> SUFFICES ASSUME NEW n \in s.creds
                   PROVE  n < s.closes
        OBVIOUS
      <4>1. n <= s.closes /\ n \in Nat /\ n # s.closes
        BY <1>5, <3>2
      <4> QED
        BY <1>5, <4>1
    <3> QED
      BY <1>3, <3>1, <3>2, <3>3, <3>4, <3>5
  <2> QED
    BY <2>1, <2>2
<1> HIDE DEF e
<1>7. /\ f \in ClientRec /\ ~f.fatal /\ f.state = e.state /\ f.pipeline = <<>>
      /\ ~f.handshake /\ ~f.idle /\ f.out = <<>> /\ f.in = <<>>
      /\ f.status = "ok" /\ f.failing = "no"
      /\ f.closes = e.closes /\ f.creds = e.creds
  <2>1. <<>> \in Seq(Batch)
    BY EmptyIsSeq
  <2> QED
    BY <1>6, <2>1 DEF ClientRec
<1> HIDE DEF f
<1>8. HardAssert(f, ~IsStarted(f)) = f
  BY <1>6, <1>7, AssertHolds DEF IsStarted, IsOpen
<1>9. h = [f EXCEPT !.state = "Initial", !.enabled = TRUE]
  BY <1>7, <1>8 DEF InhibitBackoff, ClientRec
<1> HIDE DEF h
<1>10. Blank(h) /\ h.closes = e.closes
  <2>1. /\ h \in ClientRec /\ h.enabled /\ ~h.fatal
        /\ h.pipeline = <<>> /\ h.state = "Initial"
        /\ ~h.handshake /\ ~h.idle /\ h.out = <<>> /\ h.in = <<>>
        /\ h.status = "ok" /\ h.failing = "no"
        /\ h.creds = e.creds /\ h.closes = e.closes
    BY <1>7, <1>9 DEF ClientRec, StreamState
  <2> QED
    BY <1>6, <2>1 DEF Blank
<1> DEFINE t == FillWritePipeline(h, q)
<1>11. /\ ClientInv(t, q) /\ t.closes = h.closes
       /\ t.status = "ok" /\ t.in = <<>> /\ ~t.handshake
  BY <1>10, FillBlank
<1> HIDE DEF t
<1> QED
  BY <1>1, <1>6, <1>10, <1>11 DEF t

\* A launch, with the queue found on disk.
LEMMA LaunchInv ==
    ASSUME NEW q \in Seq(Batch), Increasing(q)
    PROVE  LET t == Launch(q)
           IN  /\ ClientInv(t, q) /\ t.closes = 0
               /\ t.status = "ok" /\ t.in = <<>> /\ ~t.handshake
<1> DEFINE s == [enabled |-> TRUE, pipeline |-> <<>>, state |-> "Initial",
                 handshake |-> FALSE, idle |-> FALSE, closes |-> 0,
                 creds |-> {}, out |-> <<>>, in |-> <<>>, status |-> "ok",
                 failing |-> "no", fatal |-> FALSE]
           t == FillWritePipeline(s, q)
<1>1. <<>> \in Seq(Batch) /\ <<>> \in Seq(Message)
  BY EmptyIsSeq
<1>2. Blank(s) /\ s.closes = 0
  BY <1>1 DEF Blank, ClientRec, StreamState, Status
<1> HIDE DEF s
<1>3. /\ ClientInv(t, q) /\ t.closes = s.closes
      /\ t.status = "ok" /\ t.in = <<>> /\ ~t.handshake
  BY <1>2, FillBlank
<1>4. Launch(q) = t
  BY DEF Launch, s
<1> HIDE DEF t
<1> QED
  BY <1>2, <1>3, <1>4

-----------------------------------------------------------------------------
(* The local store *)

\* A batch of a queue, its numbers and its owner.
LEMMA QueueFacts ==
    ASSUME StoreInv, NEW u \in Users
    PROVE  /\ queue[u] \in Seq(Batch) /\ Len(queue[u]) \in Nat
           /\ DOMAIN queue[u] = 1 .. Len(queue[u])
           /\ Len(owner) \in Nat /\ Increasing(queue[u])
           /\ \A i \in 1 .. Len(queue[u]) :
                 /\ queue[u][i] \in Batch
                 /\ queue[u][i].id \in Nat \ {0} /\ queue[u][i].id < nextId
                 /\ queue[u][i].w \in Nat \ {0} /\ queue[u][i].w \in Writes
                 /\ queue[u][i].w <= Len(owner)
                 /\ owner[queue[u][i].w] = u
<1>1. /\ queue[u] \in Seq(Batch) /\ Len(queue[u]) \in Nat
      /\ DOMAIN queue[u] = 1 .. Len(queue[u])
      /\ Len(owner) \in Nat /\ Increasing(queue[u])
  BY LenProperties DEF StoreInv
<1>2. ASSUME NEW i \in 1 .. Len(queue[u])
      PROVE  /\ queue[u][i] \in Batch
             /\ queue[u][i].id \in Nat \ {0} /\ queue[u][i].id < nextId
             /\ queue[u][i].w \in Nat \ {0} /\ queue[u][i].w \in Writes
             /\ queue[u][i].w <= Len(owner)
             /\ owner[queue[u][i].w] = u
  <2>1. queue[u][i] \in Batch
    BY <1>1, ElementOfSeq
  <2>2. /\ queue[u][i].id < nextId /\ queue[u][i].w <= Len(owner)
        /\ owner[queue[u][i].w] = u
    BY <1>1 DEF StoreInv
  <2> QED
    BY <2>1, <2>2, BatchFacts
<1> QED
  BY <1>1, <1>2

\* The id a new batch gets after a change of user or a restart.
LEMMA NextIdFacts ==
    ASSUME StoreInv
    PROVE  LET n == LoadNextBatchId(queue)
           IN  /\ n \in Nat \ {0} /\ n <= Len(owner) + 1
               /\ \A u \in Users : \A i \in DOMAIN queue[u] : queue[u][i].id < n
<1> DEFINE S == {0} \cup UNION {{queue[u][i].id : i \in DOMAIN queue[u]} : u \in Users}
<1>1. Len(owner) \in Nat /\ nextId \in Nat \ {0} /\ nextId <= Len(owner) + 1
  BY LenProperties DEF StoreInv
<1>2. ASSUME NEW u \in Users, NEW i \in DOMAIN queue[u]
      PROVE  /\ queue[u][i].id \in S /\ queue[u][i].id \in Nat
             /\ queue[u][i].id <= Len(owner)
  <2>1. i \in 1 .. Len(queue[u])
    BY QueueFacts
  <2>2. queue[u][i].id \in Nat \ {0} /\ queue[u][i].id < nextId
    BY <2>1, QueueFacts
  <2> QED
    BY <1>1, <2>2
<1>3. S \in SUBSET Nat /\ S # {} /\ \A x \in S : x <= Len(owner)
  <2>1. ASSUME NEW x \in S
        PROVE  x \in Nat /\ x <= Len(owner)
    <3>1. CASE x = 0
      BY <1>1, <3>1
    <3>2. CASE x # 0
      <4>1. PICK u \in Users : x \in {queue[u][i].id : i \in DOMAIN queue[u]}
        BY <3>2
      <4>2. PICK i \in DOMAIN queue[u] : x = queue[u][i].id
        BY <4>1
      <4> QED
        BY <1>2, <4>2
    <3> QED
      BY <3>1, <3>2
  <2> QED
    BY <2>1
<1> HIDE DEF S
<1>4. Max(S) \in S /\ \A y \in S : Max(S) >= y
  BY <1>1, <1>3, GreatestElement
<1>5. LoadNextBatchId(queue) = 1 + Max(S)
  BY DEF LoadNextBatchId, S
<1>6. Max(S) \in Nat /\ Max(S) <= Len(owner)
  BY <1>3, <1>4
<1>7. ASSUME NEW u \in Users, NEW i \in DOMAIN queue[u]
      PROVE  queue[u][i].id < 1 + Max(S)
  <2>1. queue[u][i].id \in S /\ queue[u][i].id \in Nat
    BY <1>2
  <2>2. Max(S) >= queue[u][i].id
    BY <1>4, <2>1
  <2> QED
    BY <1>6, <2>1, <2>2
<1>8. 1 + Max(S) \in Nat \ {0} /\ 1 + Max(S) <= Len(owner) + 1
  BY <1>1, <1>6
<1> QED
  BY <1>5, <1>7, <1>8

\* Removing the batch at the front of the user's queue.
LEMMA RemoveFront ==
    ASSUME StoreInv, queue[user] # <<>>
    PROVE  LET b == Head(queue[user])
           IN  Exists(b) /\ RemoveMutationBatch(b)
                              = [queue EXCEPT ![user] = Tail(queue[user])]
<1> DEFINE q == queue[user]
           b == Head(q)
<1>1. /\ user \in Users /\ q \in Seq(Batch) /\ DOMAIN q = 1 .. Len(q)
      /\ queue \in [Users -> Seq(Batch)]
  BY QueueFacts DEF StoreInv
<1>2. Len(q) \in Nat \ {0} /\ b = q[1] /\ 1 \in DOMAIN q
  <2> HIDE DEF q
  <2> QED
    BY <1>1, TailFacts DEF q
<1>3. ASSUME NEW i \in DOMAIN q, q[i] = b
      PROVE  i = 1
  <2>1. Increasing(q) /\ i \in 1 .. Len(q) /\ q[i].id \in Nat
    BY <1>1, QueueFacts
  <2>2. 1 < i => q[1].id < q[i].id
    BY <1>2, <2>1 DEF Increasing
  <2> QED
    BY <1>2, <1>3, <2>1, <2>2
<1>4. (CHOOSE i \in DOMAIN q : q[i] = b) = 1
  <2> HIDE DEF q, b
  <2> QED
    BY <1>2, <1>3
<1>5. RemoveAt(q, 1) = Tail(q)
  <2> DEFINE x == SubSeq(q, 1, 0)
             y == SubSeq(q, 2, Len(q))
  <2> HIDE DEF q
  <2>1. x = <<>>
    <3>1. x \in Seq(Batch) /\ Len(x) = 0
      <4>1. \A i \in 1 .. 0 : q[i] \in Batch
        OBVIOUS
      <4> QED
        BY <1>1, <4>1, SubSeqProperties
    <3> QED
      BY <3>1, EmptySeq
  <2>2. /\ y \in Seq(Batch) /\ Len(y) = Len(q) - 1
        /\ \A i \in 1 .. Len(q) - 1 : y[i] = q[i + 1]
    <3>1. \A i \in 2 .. Len(q) : q[i] \in Batch
      BY <1>1, <1>2, ElementOfSeq
    <3>2. /\ y \in Seq(Batch)
          /\ Len(y) = IF 2 <= Len(q) THEN Len(q) - 2 + 1 ELSE 0
          /\ \A i \in 1 .. Len(q) - 2 + 1 : y[i] = q[2 + i - 1]
      BY <1>2, <3>1, SubSeqProperties
    <3> HIDE DEF y
    <3>3. Len(y) = Len(q) - 1
      <4> DEFINE n == Len(q)
                 k == Len(y)
      <4>1. n \in Nat \ {0} /\ k = IF 2 <= n THEN n - 2 + 1 ELSE 0
        BY <1>2, <3>2
      <4> HIDE DEF n, k
      <4>2. k = n - 1
        BY <4>1
      <4> QED
        BY <4>2 DEF n, k
    <3>4. \A i \in 1 .. Len(q) - 1 : y[i] = q[i + 1]
      <4> SUFFICES ASSUME NEW i \in 1 .. Len(q) - 1
                   PROVE  y[i] = q[i + 1]
        OBVIOUS
      <4>1. i \in 1 .. Len(q) - 2 + 1 /\ 2 + i - 1 = i + 1
        BY <1>2
      <4> QED
        BY <3>2, <4>1
    <3> QED
      BY <3>2, <3>3, <3>4
  <2>3. /\ Tail(q) \in Seq(Batch) /\ Len(Tail(q)) = Len(q) - 1
        /\ \A i \in 1 .. Len(q) - 1 : Tail(q)[i] = q[i + 1]
    BY <1>1, TailFacts DEF q
  <2> DEFINE z == Tail(q)
  <2>4. z \in Seq(Batch) /\ Len(z) = Len(y) /\ \A i \in 1 .. Len(z) : z[i] = y[i]
    BY <1>2, <2>2, <2>3
  <2> HIDE DEF y, z
  <2>5. y = z
    BY <2>2, <2>4, SeqEqual
  <2>6. RemoveAt(q, 1) = x \o y
    BY DEF RemoveAt, y
  <2>7. <<>> \o y = y
    BY <2>2, ConcatEmptySeq
  <2> QED
    BY <2>1, <2>5, <2>6, <2>7 DEF z
<1>6. Exists(b)
  BY <1>2 DEF Exists
<1>7. RemoveMutationBatch(b) = [queue EXCEPT ![user] = Tail(q)]
  <2>1. RemoveMutationBatch(b)
          = [queue EXCEPT ![user] = RemoveAt(q, CHOOSE i \in DOMAIN q : q[i] = b)]
    BY <1>6 DEF RemoveMutationBatch
  <2> QED
    BY <1>4, <1>5, <2>1
<1> QED
  BY <1>6, <1>7

\* The head of what is left to answer is a batch of the pipeline.
LEMMA UnansweredHead ==
    ASSUME NEW x \in Seq(Message), NEW y \in Seq(Message), y # <<>>,
           NEW p \in Seq(Batch), x \o y = p
    PROVE  /\ Head(y) \in Batch /\ Len(x) \in Nat /\ Len(p) \in Nat
           /\ Len(x) < Len(p) /\ Head(y) = p[Len(x) + 1]
<1>1. /\ Len(p) = Len(x) + Len(y)
      /\ \A i \in 1 .. Len(x) + Len(y) :
             p[i] = IF i <= Len(x) THEN x[i] ELSE y[i - Len(x)]
  BY ConcatProperties
<1>2. Len(x) \in Nat /\ Len(y) \in Nat \ {0} /\ Head(y) = y[1]
  BY TailFacts, LenProperties
<1>3. Len(x) + 1 \in 1 .. Len(p) /\ ~(Len(x) + 1 <= Len(x))
      /\ Len(x) + 1 - Len(x) = 1 /\ Len(p) \in Nat
  BY <1>1, <1>2
<1>4. p[Len(x) + 1] = y[1]
  BY <1>1, <1>3
<1>5. p[Len(x) + 1] \in Batch
  BY <1>3, ElementOfSeq
<1> QED
  BY <1>1, <1>2, <1>3, <1>4, <1>5

\* A queue without its front is in order.
LEMMA IncreasingTail ==
    ASSUME NEW q \in Seq(Batch), Increasing(q), q # <<>>
    PROVE  Increasing(Tail(q))
<1> DEFINE r == Tail(q)
<1>1. /\ Len(q) \in Nat \ {0} /\ DOMAIN q = 1 .. Len(q)
      /\ DOMAIN r = 1 .. Len(q) - 1
      /\ \A i \in 1 .. Len(q) - 1 : r[i] = q[i + 1]
  BY TailFacts
<1> HIDE DEF r
<1>2. ASSUME NEW i \in DOMAIN r, NEW j \in DOMAIN r, i < j
      PROVE  r[i].id < r[j].id /\ r[i].w < r[j].w
  <2>1. i + 1 \in DOMAIN q /\ j + 1 \in DOMAIN q /\ i + 1 < j + 1
    BY <1>1, <1>2
  <2>2. r[i] = q[i + 1] /\ r[j] = q[j + 1]
    BY <1>1
  <2> QED
    BY <2>1, <2>2 DEF Increasing
<1>3. Increasing(r)
  BY <1>2 DEF Increasing
<1> QED
  BY <1>3 DEF r

\* The front batch is settled: it leaves the queue and its completion, if it
\* still waits, runs with r.
LEMMA SettleStore ==
    ASSUME StoreInv, queue[user] # <<>>, NEW r \in {"ok", "error"},
           queue' = [queue EXCEPT ![user] = Tail(queue[user])],
           NotifyUser(Head(queue[user]), r),
           UNCHANGED <<owner, nextId, user>>
    PROVE  StoreInv' /\ queue'[user] = Tail(queue[user])
<1> DEFINE q == queue[user]
           b == Head(q)
<1>1. /\ user \in Users /\ queue \in [Users -> Seq(Batch)]
      /\ q \in Seq(Batch) /\ Increasing(q)
      /\ callbacks \subseteq Users \X Batch
      /\ \A p \in callbacks : p[2] \in BatchesOf(queue[p[1]])
  BY QueueFacts DEF StoreInv
<1>2. /\ Tail(q) \in Seq(Batch) /\ b = q[1] /\ b \in Batch
      /\ Len(q) \in Nat \ {0} /\ DOMAIN q = 1 .. Len(q)
      /\ DOMAIN Tail(q) = 1 .. Len(q) - 1
      /\ \A i \in 1 .. Len(q) - 1 : Tail(q)[i] = q[i + 1]
  <2> HIDE DEF q
  <2> QED
    BY <1>1, TailFacts DEF q
<1>3. /\ queue' \in [Users -> Seq(Batch)] /\ queue'[user] = Tail(q)
      /\ \A u \in Users : u # user => queue'[u] = queue[u]
  BY <1>1, <1>2
<1>4. \A u \in Users : Increasing(queue'[u])
  <2>1. Increasing(Tail(q))
    BY <1>1, IncreasingTail
  <2> QED
    BY <1>3, <2>1 DEF StoreInv
<1>5. ASSUME NEW u \in Users, NEW i \in DOMAIN queue'[u]
      PROVE  \E j \in DOMAIN queue[u] : queue'[u][i] = queue[u][j]
  <2>1. CASE u # user
    BY <1>3, <2>1
  <2>2. CASE u = user
    <3>1. i \in 1 .. Len(q) - 1
      BY <1>2, <1>3, <2>2
    <3>2. i + 1 \in DOMAIN q /\ queue'[u][i] = q[i + 1]
      BY <1>2, <1>3, <2>2, <3>1
    <3> QED
      BY <2>2, <3>2
  <2> QED
    BY <2>1, <2>2
<1>6. \A u \in Users : \A i \in DOMAIN queue'[u] :
          /\ queue'[u][i].id < nextId
          /\ queue'[u][i].w <= Len(owner)
          /\ owner[queue'[u][i].w] = u
  BY <1>5 DEF StoreInv
<1>7. callbacks' = callbacks \ {<<user, b>>}
  BY DEF NotifyUser
<1>8. ASSUME NEW p \in callbacks'
      PROVE  p[2] \in BatchesOf(queue'[p[1]])
  <2>1. p \in callbacks /\ p \in Users \X Batch /\ p # <<user, b>>
    BY <1>1, <1>7
  <2>2. p[2] \in BatchesOf(queue[p[1]]) /\ p[1] \in Users
    BY <1>1, <2>1
  <2>3. CASE p[1] # user
    BY <1>3, <2>2, <2>3
  <2>4. CASE p[1] = user
    <3>1. p[2] # b
      BY <2>1, <2>4
    <3>2. PICK i \in DOMAIN q : q[i] = p[2]
      BY <2>2, <2>4 DEF BatchesOf
    <3>3. i # 1 /\ i \in 1 .. Len(q)
      BY <1>2, <3>1, <3>2
    <3>4. i - 1 \in 1 .. Len(q) - 1 /\ (i - 1) + 1 = i
      BY <1>2, <3>3
    <3>5. Tail(q)[i - 1] = p[2] /\ i - 1 \in DOMAIN Tail(q)
      BY <1>2, <3>2, <3>4
    <3> QED
      BY <1>3, <2>4, <3>5 DEF BatchesOf
  <2> QED
    BY <2>3, <2>4
<1>9. done' \in [Writes -> {"none", "ok", "error"}]
  <2>1. b.w \in Writes
    BY <1>2, BatchFacts
  <2>2. done \in [Writes -> {"none", "ok", "error"}]
    BY DEF StoreInv
  <2>3. done' = done \/ done' = [done EXCEPT ![b.w] = r]
    BY DEF NotifyUser
  <2> QED
    BY <2>1, <2>2, <2>3
<1>10. callbacks' \subseteq Users \X Batch
  BY <1>1, <1>7
<1> QED
  BY <1>3, <1>4, <1>6, <1>8, <1>9, <1>10 DEF StoreInv

\* A new batch joins the user's queue.
LEMMA IssueStore ==
    ASSUME StoreInv, Write
    PROVE  /\ StoreInv'
           /\ IsPrefix(queue[user], queue'[user'])
           /\ user' = user /\ queue'[user'] \in Seq(Batch)
           /\ Increasing(queue'[user'])
<1> DEFINE q == queue[user]
           b == [id |-> nextId, w |-> Len(owner) + 1]
           a == Append(q, b)
<1>1. /\ user \in Users /\ queue \in [Users -> Seq(Batch)]
      /\ q \in Seq(Batch) /\ Increasing(q) /\ Len(q) \in Nat
      /\ DOMAIN q = 1 .. Len(q)
      /\ callbacks \subseteq Users \X Batch
      /\ \A p \in callbacks : p[2] \in BatchesOf(queue[p[1]])
  BY QueueFacts DEF StoreInv
<1>2. /\ Len(owner) \in Nat /\ Len(owner) < MaxWrites /\ owner \in Seq(Users)
      /\ nextId \in Nat \ {0} /\ nextId <= Len(owner) + 1 /\ MaxWrites \in Nat
      /\ DOMAIN owner = 1 .. Len(owner)
  BY LenProperties, WritePipelineAssumption DEF StoreInv, Write
<1>3. b \in Batch /\ b.id = nextId /\ b.w = Len(owner) + 1
  BY <1>2 DEF Batch, Writes
<1>4. /\ owner' \in Seq(Users) /\ Len(owner') = Len(owner) + 1
      /\ \A w \in 1 .. Len(owner) : owner'[w] = owner[w]
      /\ owner'[Len(owner) + 1] = user
  <2>1. owner' = Append(owner, user)
    BY DEF Write
  <2> QED
    BY <1>1, <1>2, <2>1, AppendProperties
<1>5. /\ queue' = [queue EXCEPT ![user] = a]
      /\ callbacks' = callbacks \cup {<<user, b>>}
      /\ nextId' = nextId + 1 /\ user' = user /\ done' = done
  BY DEF Write
<1> HIDE DEF b
<1>6. /\ a \in Seq(Batch) /\ Len(a) = Len(q) + 1 /\ DOMAIN a = 1 .. Len(q) + 1
      /\ \A i \in 1 .. Len(q) : a[i] = q[i]
      /\ a[Len(q) + 1] = b
  <2> HIDE DEF q
  <2>1. /\ a \in Seq(Batch) /\ Len(a) = Len(q) + 1
        /\ \A i \in 1 .. Len(q) : a[i] = q[i]
        /\ a[Len(q) + 1] = b
    BY <1>1, <1>3, AppendProperties
  <2>2. DOMAIN a = 1 .. Len(a)
    BY <2>1, LenProperties
  <2> QED
    BY <2>1, <2>2
<1> HIDE DEF a
<1>7. /\ queue' \in [Users -> Seq(Batch)] /\ queue'[user] = a
      /\ \A u \in Users : u # user => queue'[u] = queue[u]
  BY <1>1, <1>5, <1>6
<1>8. \A i \in 1 .. Len(q) :
          /\ q[i].id \in Nat /\ q[i].id < nextId
          /\ q[i].w \in Nat \ {0} /\ q[i].w <= Len(owner) /\ owner[q[i].w] = user
  BY <1>1, QueueFacts
<1>9. Increasing(a)
  <2> SUFFICES ASSUME NEW i \in DOMAIN a, NEW j \in DOMAIN a, i < j
               PROVE  a[i].id < a[j].id /\ a[i].w < a[j].w
    BY DEF Increasing
  <2>1. i \in 1 .. Len(q) /\ a[i] = q[i]
    BY <1>1, <1>6
  <2>2. CASE j \in 1 .. Len(q)
    BY <1>1, <1>6, <2>1, <2>2 DEF Increasing
  <2>3. CASE j = Len(q) + 1
    <3>1. a[j].id = nextId /\ a[j].w = Len(owner) + 1
      BY <1>3, <1>6, <2>3
    <3>2. q[i].id < nextId /\ q[i].w \in Nat /\ q[i].w <= Len(owner)
      BY <1>8, <2>1
    <3> QED
      BY <1>2, <2>1, <3>1, <3>2
  <2> QED
    BY <1>1, <1>6, <2>2, <2>3
<1>10. \A u \in Users : Increasing(queue'[u])
  BY <1>7, <1>9 DEF StoreInv
<1>11. ASSUME NEW u \in Users, NEW i \in DOMAIN queue'[u]
       PROVE  /\ queue'[u][i].id < nextId'
              /\ queue'[u][i].w <= Len(owner')
              /\ owner'[queue'[u][i].w] = u
  <2>1. ASSUME i \in 1 .. Len(queue[u]), queue'[u][i] = queue[u][i]
        PROVE  /\ queue'[u][i].id < nextId'
               /\ queue'[u][i].w <= Len(owner')
               /\ owner'[queue'[u][i].w] = u
    <3>1. /\ queue[u][i].id \in Nat /\ queue[u][i].id < nextId
          /\ queue[u][i].w \in Nat \ {0} /\ queue[u][i].w <= Len(owner)
          /\ owner[queue[u][i].w] = u
      BY <2>1, QueueFacts
    <3>2. queue[u][i].w \in 1 .. Len(owner)
      BY <1>2, <3>1
    <3> QED
      BY <1>2, <1>4, <1>5, <2>1, <3>1, <3>2
  <2>2. CASE u # user
    BY <1>7, <2>1, <2>2, QueueFacts
  <2>3. CASE u = user /\ i \in 1 .. Len(q)
    BY <1>6, <1>7, <2>1, <2>3
  <2>4. CASE u = user /\ i = Len(q) + 1
    BY <1>2, <1>3, <1>4, <1>5, <1>6, <1>7, <2>4
  <2>5. u = user => i \in 1 .. Len(q) \/ i = Len(q) + 1
    BY <1>1, <1>6, <1>7
  <2> QED
    BY <2>2, <2>3, <2>4, <2>5
<1>12. ASSUME NEW p \in callbacks'
       PROVE  p \in Users \X Batch /\ p[2] \in BatchesOf(queue'[p[1]])
  <2>1. CASE p = <<user, b>>
    <3>1. Len(q) + 1 \in DOMAIN a
      BY <1>1, <1>6
    <3> QED
      BY <1>1, <1>3, <1>6, <1>7, <2>1, <3>1 DEF BatchesOf
  <2>2. CASE p \in callbacks
    <3>1. /\ p \in Users \X Batch /\ p[1] \in Users
          /\ p[2] \in BatchesOf(queue[p[1]])
      BY <1>1, <2>2
    <3>2. CASE p[1] # user
      BY <1>7, <3>1, <3>2
    <3>3. CASE p[1] = user
      <4>1. PICK i \in DOMAIN q : q[i] = p[2]
        BY <3>1, <3>3 DEF BatchesOf
      <4>2. i \in DOMAIN a /\ a[i] = p[2]
        BY <1>1, <1>6, <4>1
      <4> QED
        BY <1>7, <3>1, <3>3, <4>2 DEF BatchesOf
    <3> QED
      BY <3>1, <3>2, <3>3
  <2> QED
    BY <1>5, <2>1, <2>2
<1>13. IsPrefix(q, a)
  <2> HIDE DEF q
  <2> QED
    BY <1>1, <1>6, PrefixFacts
<1>14. Len(owner') <= MaxWrites
  BY <1>2, <1>4
<1>15. StoreInv'
  <2>1. /\ nextId' \in Nat \ {0} /\ nextId' <= Len(owner') + 1
        /\ user' \in Users /\ done' \in [Writes -> {"none", "ok", "error"}]
    BY <1>1, <1>2, <1>4, <1>5 DEF StoreInv
  <2>2. callbacks' \subseteq Users \X Batch
    BY <1>12
  <2> QED
    BY <1>4, <1>7, <1>10, <1>11, <1>12, <1>14, <2>1, <2>2 DEF StoreInv
<1> QED
  BY <1>5, <1>6, <1>7, <1>9, <1>13, <1>15

-----------------------------------------------------------------------------
(* The inductive invariant, one action at a time *)

\* The parts of the invariant that most steps use.
LEMMA InvFacts ==
    ASSUME PipeInv
    PROVE  /\ StoreInv /\ ServerInv /\ ClientMid(c, queue[user])
           /\ c \in ClientRec /\ c.enabled /\ ~c.fatal
           /\ PipelineOK(c, queue[user]) /\ CredsOK(c) /\ CallOK(c)
           /\ (~IsStarted(c) => c.pipeline = <<>>) /\ (c.handshake => IsOpen(c))
           /\ user \in Users /\ queue[user] \in Seq(Batch)
           /\ Increasing(queue[user])
           /\ c.pipeline \in Seq(Batch) /\ c.pipeline \in Seq(Message)
           /\ c.in \in Seq(Message) /\ c.out \in Seq(Message)
           /\ c.closes \in Nat /\ c.creds \subseteq Nat
           /\ faults \in Nat /\ faults <= MaxFaults /\ c.closes <= faults
           /\ (c.status # "ok" => c.closes + 1 <= faults)
<1>1. /\ StoreInv /\ ServerInv /\ ClientInv(c, queue[user]) /\ ClosesInv
  BY DEF PipeInv
<1>2. /\ ClientMid(c, queue[user])
      /\ (~IsStarted(c) => c.pipeline = <<>>) /\ (c.handshake => IsOpen(c))
  BY <1>1 DEF ClientInv
<1>3. /\ c \in ClientRec /\ c.enabled /\ ~c.fatal
      /\ PipelineOK(c, queue[user]) /\ CredsOK(c) /\ CallOK(c)
  BY <1>2 DEF ClientMid
<1>4. user \in Users /\ queue[user] \in Seq(Batch) /\ Increasing(queue[user])
  BY <1>1 DEF StoreInv
<1>5. /\ c.pipeline \in Seq(Batch) /\ c.in \in Seq(Message)
      /\ c.out \in Seq(Message) /\ c.closes \in Nat /\ c.creds \subseteq Nat
  BY <1>3 DEF ClientRec
<1>6. c.pipeline \in Seq(Message)
  BY <1>5, BatchesAreMessages
<1>7. /\ faults \in Nat /\ faults <= MaxFaults /\ c.closes <= faults
      /\ (c.status # "ok" => c.closes + 1 <= faults)
  BY <1>1, <1>5, WritePipelineAssumption DEF ClosesInv
<1> QED
  BY <1>1, <1>2, <1>3, <1>4, <1>5, <1>6, <1>7

\* A step of the stream alone leaves the store as it is.
LEMMA StoreKept ==
    ASSUME StoreInv, UNCHANGED queueVars
    PROVE  StoreInv' /\ queue'[user'] = queue[user]
  BY DEF StoreInv, queueVars

\* And a step of the client leaves the server as it is.
LEMMA ServerKept ==
    ASSUME ServerInv, UNCHANGED serverVars
    PROVE  ServerInv'
  BY DEF ServerInv, serverVars

\* The faults that pay for the closes.
LEMMA ClosesKept ==
    ASSUME faults' \in 0 .. MaxFaults,
           c'.closes \in Nat, c'.closes <= faults',
           c'.status # "ok" => c'.closes + 1 <= faults'
    PROVE  ClosesInv'
  BY DEF ClosesInv

\* A fill answers the invariant's demands on the client and its call.
LEMMA RefillKeeps ==
    ASSUME PipeInv, NEW s, NEW q, Refilled(s, c', q),
           s.handshake => IsOpen(s), c.handshake <=> s.handshake,
           s.closes = c.closes, s.status = c.status, s.out = c.out,
           c.state = s.state, faults' = faults, refused' = refused
    PROVE  ClientInv(c', q) /\ ClosesInv' /\ RefusedInv'
<1>1. /\ ClientMid(c', q) /\ (~IsStarted(c') => c'.pipeline = <<>>)
      /\ (c'.handshake <=> s.handshake) /\ c'.closes = s.closes
      /\ c'.status = s.status
      /\ (s.out # <<>> => c'.out # <<>> /\ Head(c'.out) = Head(s.out))
      /\ (IsStarted(s) => c'.state = s.state)
  BY DEF Refilled
<1>2. c'.handshake => IsOpen(c')
  <2> SUFFICES ASSUME c'.handshake
               PROVE  IsOpen(c')
    OBVIOUS
  <2>1. IsOpen(s)
    BY <1>1
  <2> QED
    BY <1>1, <2>1 DEF IsOpen, IsStarted
<1>3. ClosesInv'
  <2>1. faults' \in 0 .. MaxFaults
    BY DEF PipeInv, ClosesInv
  <2> QED
    BY <1>1, <2>1, InvFacts, ClosesKept
<1>4. RefusedInv'
  BY <1>1 DEF RefusedInv, PipeInv
<1> QED
  BY <1>1, <1>2, <1>3, <1>4 DEF ClientInv

\* The app writes.
LEMMA WriteKeeps ==
    ASSUME PipeInv, Write
    PROVE  PipeInv' /\ Cursor' = Cursor
<1> DEFINE q == queue'[user']
<1>1. /\ StoreInv' /\ IsPrefix(queue[user], q) /\ user' = user
      /\ q \in Seq(Batch) /\ Increasing(q)
  BY IssueStore DEF PipeInv
<1>2. c' = FillWritePipeline(c, q) /\ faults' = faults /\ refused' = refused
  BY <1>1 DEF Write, serverVars
<1>3. ServerInv'
  BY ServerKept, InvFacts DEF Write
<1> HIDE DEF q
<1>4. ClientMid(c, q)
  <2>1. IsPrefix(c.pipeline, queue[user])
    BY InvFacts DEF PipelineOK
  <2>2. IsPrefix(c.pipeline, q)
    BY <1>1, <2>1, InvFacts, PrefixTrans
  <2>3. PipelineOK(c, q)
    BY <2>2, InvFacts DEF PipelineOK
  <2> QED
    BY <2>3, InvFacts DEF ClientMid
<1>5. Refilled(c, c', q)
  BY <1>1, <1>2, <1>4, FillInv
<1>6. ClientInv(c', q) /\ ClosesInv' /\ RefusedInv'
  BY <1>2, <1>5, InvFacts, RefillKeeps
<1>7. Cursor' = Cursor
  BY <1>5 DEF Refilled, Cursor
<1> QED
  BY <1>1, <1>3, <1>6, <1>7 DEF PipeInv, q

\* A response is read: the front batch leaves the pipeline and the queue.
LEMMA MutationResultKeeps ==
    ASSUME PipeInv, MutationResult
    PROVE  PipeInv' /\ Cursor > 0 /\ Cursor' = Cursor - 1
<1> DEFINE q == queue[user]
           b == Head(c.pipeline)
           r == Tail(q)
           f == IF c.failing = "armed" THEN "ready" ELSE c.failing
           s == [c EXCEPT !.in = Tail(c.in), !.pipeline = Tail(c.pipeline),
                          !.failing = f]
<1>1. /\ c.in # <<>> /\ c.handshake /\ c.pipeline # <<>> /\ IsOpen(c)
      /\ IsPrefix(c.pipeline, q) /\ IsPrefix(c.in, c.pipeline)
      /\ (c.status # "transient" => c.in \o c.out = c.pipeline)
      /\ (~WriteRace => c.failing = "no")
      /\ Len(c.pipeline) <= kMaxPendingWrites /\ ~c.idle
  BY InvFacts DEF MutationResult, PipelineOK, CallOK
<1>2. /\ q # <<>> /\ b = Head(q)
      /\ Tail(c.pipeline) \in Seq(Batch) /\ r \in Seq(Batch)
      /\ IsPrefix(Tail(c.pipeline), r)
  BY <1>1, InvFacts, TailPrefix
<1>3. Exists(b) /\ RemoveMutationBatch(b) = [queue EXCEPT ![user] = r]
  BY <1>2, InvFacts, RemoveFront
<1>4. StoreInv' /\ queue'[user] = r /\ user' = user
  <2>1. /\ queue' = [queue EXCEPT ![user] = Tail(queue[user])]
        /\ NotifyUser(Head(queue[user]), "ok")
        /\ UNCHANGED <<owner, nextId, user>>
    BY <1>2, <1>3 DEF MutationResult
  <2> QED
    BY <1>2, <2>1, InvFacts, SettleStore
<1>5. HardAssert(AfterResult, Exists(b)) = s
  <2>1. HardAssert(c, c.pipeline # <<>>) = c
    BY <1>1, InvFacts, AssertHolds
  <2>2. AfterResult = s
    BY <2>1, InvFacts DEF AfterResult, ClientRec
  <2>3. s \in ClientRec /\ ~s.fatal
    <3>1. Tail(c.in) \in Seq(Message)
      BY <1>1, InvFacts, TailFacts
    <3>2. f \in {"no", "armed", "ready"}
      BY InvFacts DEF ClientRec
    <3> HIDE DEF f
    <3> QED
      BY <1>2, <3>1, <3>2, InvFacts DEF ClientRec
  <2> HIDE DEF s
  <2> QED
    BY <1>3, <2>2, <2>3, AssertHolds DEF Exists
<1>6. c' = FillWritePipeline(s, r)
  BY <1>4, <1>5 DEF MutationResult
<1>7. /\ s \in ClientRec /\ s.enabled /\ ~s.fatal
      /\ s.pipeline = Tail(c.pipeline) /\ s.state = c.state
      /\ s.handshake /\ ~s.idle /\ s.closes = c.closes /\ s.creds = c.creds
      /\ s.out = c.out /\ s.in = Tail(c.in) /\ s.status = c.status
      /\ (~WriteRace => s.failing = "no")
  <2>1. Tail(c.in) \in Seq(Message)
    BY <1>1, InvFacts, TailFacts
  <2>2. f \in {"no", "armed", "ready"} /\ (~WriteRace => f = "no")
    BY <1>1, InvFacts DEF ClientRec
  <2> HIDE DEF f
  <2> QED
    BY <1>1, <1>2, <2>1, <2>2, InvFacts DEF ClientRec
<1> HIDE DEF s, r
<1>8. IsOpen(s)
  BY <1>1, <1>7 DEF IsOpen
<1>9. PipelineOK(s, r)
  <2>1. Len(Tail(c.pipeline)) <= kMaxPendingWrites
    <3>1. Len(c.pipeline) \in Nat /\ Len(Tail(c.pipeline)) = Len(c.pipeline) - 1
      BY <1>1, InvFacts, TailFacts
    <3> QED
      BY <1>1, <3>1, WritePipelineAssumption
  <2> QED
    BY <1>2, <1>7, <1>8, <2>1 DEF PipelineOK
<1>10. CallOK(s)
  <2>1. IsPrefix(Tail(c.in), Tail(c.pipeline))
    BY <1>1, InvFacts, TailPrefix
  <2>2. Tail(c.in) \o c.out = Tail(c.in \o c.out)
    BY <1>1, InvFacts, TailConcat
  <2>3. c.status # "transient" => Tail(c.in) \o c.out = Tail(c.pipeline)
    BY <1>1, <2>2
  <2> QED
    BY <1>7, <1>8, <2>1, <2>3 DEF CallOK
<1>11. CredsOK(s)
  <2>1. CredsOK(c)
    BY InvFacts
  <2> QED
    BY <1>7, <2>1 DEF CredsOK
<1>12. ClientMid(s, r)
  BY <1>7, <1>9, <1>10, <1>11 DEF ClientMid
<1>13. Increasing(r)
  BY <1>2, InvFacts, IncreasingTail DEF r
<1>14. Refilled(s, c', r)
  BY <1>2, <1>6, <1>12, <1>13, FillInv
<1>15. faults' = faults /\ refused' = refused
  BY DEF MutationResult, serverVars
<1>16. ClientInv(c', r) /\ ClosesInv' /\ RefusedInv'
  BY <1>1, <1>7, <1>8, <1>14, <1>15, RefillKeeps
<1>17. ServerInv'
  BY ServerKept, InvFacts DEF MutationResult
<1>18. Cursor > 0 /\ Cursor' = Cursor - 1
  <2>1. c'.handshake /\ c'.in = Tail(c.in)
    BY <1>7, <1>14 DEF Refilled
  <2>2. Len(c.in) \in Nat \ {0} /\ Len(Tail(c.in)) = Len(c.in) - 1
    BY <1>1, InvFacts, TailFacts
  <2> QED
    BY <1>1, <2>1, <2>2 DEF Cursor
<1> QED
  BY <1>4, <1>16, <1>17, <1>18 DEF PipeInv

\* After a close, the client's part of the invariant.
LEMMA ClosedKeeps ==
    ASSUME PipeInv, NEW q, NEW s, Closed(s, c', q), s.closes = c.closes,
           \/ c.status # "ok" /\ faults' = faults
           \/ Fault
    PROVE  ClientInv(c', q) /\ ClosesInv' /\ RefusedInv'
<1>1. /\ ClientInv(c', q) /\ c'.closes = c.closes + 1
      /\ c'.status = "ok" /\ c'.in = <<>> /\ ~c'.handshake
  BY DEF Closed
<1>2. /\ faults' \in 0 .. MaxFaults /\ c'.closes <= faults' /\ c'.closes \in Nat
  BY <1>1, InvFacts, WritePipelineAssumption DEF Fault
<1>3. ClosesInv'
  BY <1>1, <1>2, ClosesKept
<1>4. RefusedInv'
  BY <1>1 DEF RefusedInv
<1> QED
  BY <1>1, <1>3, <1>4

\* The call ends with an error.
LEMMA StreamFinishKeeps ==
    ASSUME PipeInv, StreamFinish
    PROVE  PipeInv' /\ Cursor' = 0
<1> DEFINE q == queue[user]
           b == Head(c.pipeline)
           r == Tail(q)
<1>1. c.status # "ok" /\ IsOpen(c) /\ IsStarted(c) /\ c.status \in Status
  BY InvFacts DEF StreamFinish, CallOK, IsStarted, ClientRec
<1>2. ServerInv'
  BY ServerKept, InvFacts DEF StreamFinish
<1>3. user' = user /\ faults' = faults
  BY DEF StreamFinish
<1>4. CASE RejectsFront(c, c.status)
  <2>1. c.pipeline # <<>> /\ IsPrefix(c.pipeline, q)
    BY <1>4, InvFacts DEF RejectsFront, PipelineOK
  <2>2. q # <<>> /\ b = Head(q)
    BY <2>1, InvFacts, TailPrefix
  <2>3. Exists(b) /\ RemoveMutationBatch(b) = [queue EXCEPT ![user] = r]
    BY <2>2, InvFacts, RemoveFront
  <2>4. StoreInv' /\ queue'[user] = r
    <3>1. /\ queue' = [queue EXCEPT ![user] = Tail(queue[user])]
          /\ NotifyUser(Head(queue[user]), "error")
          /\ UNCHANGED <<owner, nextId, user>>
      BY <1>4, <2>2, <2>3 DEF StreamFinish
    <3> QED
      BY <2>2, <3>1, InvFacts, SettleStore
  <2>5. HardAssert(c, Exists(b)) = c
    BY <2>3, InvFacts, AssertHolds DEF Exists
  <2>6. c' = Close(c, c.status, Tail(q))
    BY <1>4, <2>4, <2>5 DEF StreamFinish
  <2>7. Increasing(Tail(q))
    BY <2>2, InvFacts, IncreasingTail
  <2>8. Closed(c, c', Tail(q))
    BY <1>1, <1>4, <2>6, <2>7, InvFacts, CloseReject
  <2>9. ClientInv(c', Tail(q)) /\ ClosesInv' /\ RefusedInv'
    BY <1>1, <1>3, <2>8, ClosedKeeps
  <2>10. Cursor' = 0
    BY <2>8 DEF Closed, Cursor
  <2> QED
    BY <1>2, <1>3, <2>4, <2>9, <2>10 DEF PipeInv
<1>5. CASE ~RejectsFront(c, c.status)
  <2>1. c' = Close(c, c.status, q) /\ UNCHANGED queueVars
    BY <1>5 DEF StreamFinish, queueVars
  <2>2. StoreInv' /\ queue'[user'] = q
    BY <2>1, InvFacts, StoreKept
  <2>3. Closed(c, c', q)
    BY <1>1, <1>5, <2>1, InvFacts, CloseError DEF CredsOK
  <2>4. ClientInv(c', q) /\ ClosesInv' /\ RefusedInv'
    BY <1>1, <1>3, <2>3, ClosedKeeps
  <2>10. Cursor' = 0
    BY <2>3 DEF Closed, Cursor
  <2> QED
    BY <1>2, <2>2, <2>4, <2>10 DEF PipeInv
<1> QED
  BY <1>4, <1>5

\* A token, or the error that there is none, reaches the stream.
LEMMA CredentialsKeeps ==
    ASSUME PipeInv, NEW n, NEW ok \in BOOLEAN, Credentials(n, ok)
    PROVE  PipeInv' /\ Cursor' = Cursor
<1> DEFINE q == queue[user]
           s == [c EXCEPT !.creds = c.creds \ {n}]
           resumed == HardAssert(s, s.state = "Starting")
           opened == [resumed EXCEPT !.state = "Open"]
<1>1. /\ n \in c.creds /\ UNCHANGED queueVars /\ UNCHANGED serverVars
      /\ (ok => faults' = faults) /\ (~ok => Fault)
      /\ c' = IF n # c.closes THEN s
              ELSE IF ok THEN WriteHandshake(opened)
              ELSE Close(resumed, "transient", q)
  BY DEF Credentials
<1>2. StoreInv' /\ queue'[user'] = q /\ ServerInv'
  BY <1>1, InvFacts, StoreKept, ServerKept
<1>3. refused' = refused
  BY <1>1 DEF serverVars
<1>4. /\ \A m \in c.creds : m <= c.closes
      /\ (c.closes \in c.creds <=> c.state = "Starting")
  BY InvFacts DEF CredsOK
<1>5. /\ s \in ClientRec /\ s.enabled /\ ~s.fatal
      /\ s.pipeline = c.pipeline /\ s.state = c.state
      /\ s.handshake = c.handshake /\ s.idle = c.idle
      /\ s.closes = c.closes /\ s.creds = c.creds \ {n}
      /\ s.out = c.out /\ s.in = c.in /\ s.status = c.status
      /\ s.failing = c.failing
  <2> DEFINE d == c.creds \ {n}
  <2>1. d \in SUBSET Nat /\ s = [c EXCEPT !.creds = d]
    BY InvFacts
  <2> HIDE DEF d, s
  <2> QED
    BY <2>1, InvFacts DEF ClientRec, d
<1> HIDE DEF s
<1>6. faults' \in 0 .. MaxFaults /\ faults <= faults' /\ faults' \in Nat
  BY <1>1, InvFacts, WritePipelineAssumption DEF Fault
<1>7. CASE n # c.closes
  <2>1. c' = s
    BY <1>1, <1>7
  <2>2. (IsOpen(c') <=> IsOpen(c)) /\ (IsStarted(c') <=> IsStarted(c))
    BY <1>5, <2>1 DEF IsOpen, IsStarted
  <2>3. PipelineOK(c', q)
    BY <1>5, <2>1, <2>2, InvFacts DEF PipelineOK
  <2>4. CredsOK(c')
    BY <1>4, <1>5, <1>7, <2>1 DEF CredsOK
  <2>5. CallOK(c')
    BY <1>5, <2>1, <2>2, InvFacts DEF CallOK
  <2>6. ClientInv(c', q)
    BY <1>5, <2>1, <2>2, <2>3, <2>4, <2>5, InvFacts DEF ClientInv, ClientMid
  <2>7. ClosesInv'
    BY <1>5, <1>6, <2>1, InvFacts, ClosesKept
  <2>8. RefusedInv'
    BY <1>3, <1>5, <2>1 DEF PipeInv, RefusedInv
  <2>9. Cursor' = Cursor
    BY <1>5, <2>1 DEF Cursor
  <2> QED
    BY <1>2, <2>6, <2>7, <2>8, <2>9 DEF PipeInv
<1>8. CASE n = c.closes
  <2>1. /\ c.state = "Starting" /\ ~IsOpen(c) /\ IsStarted(c)
    BY <1>1, <1>4, <1>8 DEF IsOpen, IsStarted
  <2>2. resumed = s
    BY <1>5, <2>1, AssertHolds
  <2>3. /\ c.out = <<>> /\ c.in = <<>> /\ c.status = "ok" /\ c.failing = "no"
        /\ ~c.handshake /\ ~c.idle /\ c.pipeline # <<>>
    BY <2>1, InvFacts DEF CallOK, PipelineOK
  <2>4. CASE ok
    <3> DEFINE o == [s EXCEPT !.state = "Open"]
    <3>1. /\ o \in ClientRec /\ o.enabled /\ ~o.fatal /\ o.state = "Open"
          /\ o.pipeline = c.pipeline /\ ~o.handshake /\ ~o.idle
          /\ o.closes = c.closes /\ o.creds = c.creds \ {n}
          /\ o.out = <<>> /\ o.in = <<>> /\ o.status = "ok" /\ o.failing = "no"
      BY <1>5, <2>3 DEF ClientRec, StreamState
    <3> HIDE DEF o
    <3>2. HardAssert(o, ~o.handshake) = o /\ IsOpen(o)
      BY <3>1, AssertHolds DEF IsOpen
    <3>3. c' = Send(o, <<Hello>>)
      BY <1>1, <1>8, <2>2, <2>4, <3>2 DEF WriteHandshake, o
    <3>4. <<Hello>> \in Seq(Message)
      BY DEF Message
    <3>5. Sent(o, c', <<Hello>>)
      BY <3>1, <3>2, <3>3, <3>4, SendFields
    <3>6. <<>> \o <<Hello>> = <<Hello>>
      BY <3>4, ConcatEmptySeq
    <3>7. /\ c' \in ClientRec /\ c'.enabled /\ ~c'.fatal /\ c'.state = "Open"
          /\ c'.pipeline = c.pipeline /\ ~c'.handshake /\ ~c'.idle
          /\ c'.closes = c.closes /\ c'.creds = c.creds \ {n}
          /\ c'.out = <<Hello>> /\ c'.in = <<>> /\ c'.status = "ok"
          /\ (~WriteRace => c'.failing = "no")
      BY <3>1, <3>5, <3>6 DEF Sent
    <3>8. IsOpen(c') /\ IsStarted(c')
      BY <3>7 DEF IsOpen, IsStarted
    <3>9. PipelineOK(c', q)
      BY <2>3, <3>7, InvFacts DEF PipelineOK
    <3>10. CredsOK(c')
      BY <1>4, <1>8, <3>7 DEF CredsOK
    <3>11. CallOK(c')
      BY <3>7, <3>8 DEF CallOK
    <3>12. ClientInv(c', q)
      BY <3>7, <3>8, <3>9, <3>10, <3>11 DEF ClientInv, ClientMid
    <3>13. ClosesInv'
      BY <1>1, <1>6, <2>4, <3>7, InvFacts, ClosesKept
    <3>14. RefusedInv'
      BY <3>7 DEF RefusedInv
    <3>15. Cursor' = Cursor
      BY <2>3, <3>7 DEF Cursor
    <3> QED
      BY <1>2, <3>12, <3>13, <3>14, <3>15 DEF PipeInv
  <2>5. CASE ~ok
    <3>1. c' = Close(s, "transient", q)
      BY <1>1, <1>8, <2>2, <2>5
    <3>2. IsStarted(s) /\ (IsOpen(s) <=> IsOpen(c))
      BY <1>5, <2>1 DEF IsOpen, IsStarted
    <3>3. PipelineOK(s, q)
      BY <1>5, <2>1, <3>2, InvFacts DEF PipelineOK
    <3>4. \A m \in s.creds : m <= s.closes
      BY <1>4, <1>5
    <3>5. ~RejectsFront(s, "transient") /\ "transient" \in Status
      BY DEF RejectsFront, Status
    <3>6. Closed(s, c', q)
      BY <1>5, <3>1, <3>2, <3>3, <3>4, <3>5, CloseError
    <3>7. ClientInv(c', q) /\ ClosesInv' /\ RefusedInv'
      BY <1>1, <1>5, <2>5, <3>6, ClosedKeeps
    <3>8. Cursor' = Cursor
      BY <2>3, <3>6 DEF Closed, Cursor
    <3> QED
      BY <1>2, <3>7, <3>8 DEF PipeInv
  <2> QED
    BY <2>4, <2>5
<1> QED
  BY <1>7, <1>8

\* The handshake is answered: the pipeline is sent.
LEMMA HandshakeCompleteKeeps ==
    ASSUME PipeInv, HandshakeComplete
    PROVE  PipeInv' /\ Cursor' = Cursor
<1> DEFINE q == queue[user]
           s == [c EXCEPT !.in = Tail(c.in), !.handshake = TRUE]
<1>1. /\ c.in # <<>> /\ ~c.handshake /\ faults' = faults
      /\ UNCHANGED queueVars /\ UNCHANGED serverVars
      /\ c' = WriteMutations(s, s.pipeline)
  BY DEF HandshakeComplete
<1>2. StoreInv' /\ queue'[user'] = q /\ ServerInv'
  BY <1>1, InvFacts, StoreKept, ServerKept
<1>3. IsOpen(c) /\ IsStarted(c)
  BY <1>1, InvFacts DEF CallOK, IsStarted
<1>4. c.in = <<Hello>> /\ c.out = <<>> /\ c.status # "permanent"
  BY <1>1, <1>3, InvFacts DEF CallOK
<1>5. Tail(c.in) = <<>> /\ <<>> \in Seq(Message)
  BY <1>4, EmptyIsSeq
<1>6. /\ s \in ClientRec /\ s.enabled /\ ~s.fatal /\ s.state = c.state
      /\ s.pipeline = c.pipeline /\ s.handshake /\ s.idle = c.idle
      /\ s.closes = c.closes /\ s.creds = c.creds
      /\ s.out = <<>> /\ s.in = <<>> /\ s.status = c.status
      /\ s.failing = c.failing
  BY <1>4, <1>5, InvFacts DEF ClientRec
<1> HIDE DEF s
<1>7. HardAssert(s, s.handshake) = s /\ IsOpen(s)
  BY <1>3, <1>6, AssertHolds DEF IsOpen, ClientRec
<1>8. c' = Send(s, c.pipeline)
  BY <1>1, <1>6, <1>7 DEF WriteMutations
<1>9. Sent(s, c', c.pipeline)
  BY <1>6, <1>7, <1>8, InvFacts, SendFields
<1>10. ~c.idle /\ c.pipeline # <<>>
  BY <1>1, <1>3, InvFacts DEF PipelineOK
<1>11. <<>> \o c.pipeline = c.pipeline
  BY InvFacts, ConcatEmptySeq
<1>12. /\ c' \in ClientRec /\ c'.enabled /\ ~c'.fatal /\ c'.state = c.state
       /\ c'.pipeline = c.pipeline /\ c'.handshake /\ ~c'.idle
       /\ c'.closes = c.closes /\ c'.creds = c.creds
       /\ c'.out = c.pipeline /\ c'.in = <<>> /\ c'.status = c.status
       /\ (~WriteRace => c'.failing = c.failing)
  BY <1>6, <1>9, <1>10, <1>11, InvFacts DEF Sent
<1>13. IsOpen(c')
  BY <1>3, <1>12 DEF IsOpen
<1>14. PipelineOK(c', q)
  BY <1>10, <1>12, <1>13, InvFacts DEF PipelineOK
<1>15. CredsOK(c')
  BY <1>12, InvFacts DEF CredsOK
<1>16. CallOK(c')
  <2>1. IsPrefix(<<>>, c.pipeline)
    BY InvFacts, PrefixConcat
  <2> QED
    BY <1>11, <1>12, <1>13, <2>1, InvFacts DEF CallOK
<1>17. ClientInv(c', q)
  BY <1>12, <1>13, <1>14, <1>15, <1>16 DEF ClientInv, ClientMid, IsStarted
<1>18. ClosesInv'
  <2>1. faults' \in 0 .. MaxFaults
    BY <1>1 DEF PipeInv, ClosesInv
  <2> QED
    BY <1>1, <1>12, <2>1, InvFacts, ClosesKept
<1>19. RefusedInv'
  BY <1>4, <1>12 DEF RefusedInv
<1>20. Cursor' = Cursor
  BY <1>1, <1>12, EmptySeq DEF Cursor
<1> QED
  BY <1>2, <1>17, <1>18, <1>19, <1>20 DEF PipeInv

\* The backoff is over: the stream asks for a token.
LEMMA BackoffElapsedKeeps ==
    ASSUME PipeInv, BackoffElapsed
    PROVE  PipeInv' /\ Cursor' = Cursor
<1> DEFINE q == queue[user]
           s == [c EXCEPT !.state = "Initial"]
           d == c.creds \cup {c.closes}
<1>1. /\ c.state = "Backoff" /\ faults' = faults /\ c' = Start(s)
      /\ UNCHANGED queueVars /\ UNCHANGED serverVars
  BY DEF BackoffElapsed
<1>2. StoreInv' /\ queue'[user'] = q /\ ServerInv'
  BY <1>1, InvFacts, StoreKept, ServerKept
<1>3. IsStarted(c) /\ ~IsOpen(c)
  BY <1>1 DEF IsStarted, IsOpen
<1>4. /\ s \in ClientRec /\ ~s.fatal /\ s.state = "Initial"
      /\ s.closes = c.closes /\ s.creds = c.creds
  BY InvFacts DEF ClientRec, StreamState
<1>5. HardAssert(s, s.state = "Initial") = s
  BY <1>4, AssertHolds
<1>6. c' = [c EXCEPT !.state = "Starting", !.creds = d]
  <2>1. c' = [s EXCEPT !.state = "Starting", !.creds = d]
    BY <1>1, <1>4, <1>5 DEF Start
  <2> HIDE DEF d
  <2> QED
    BY <2>1, InvFacts DEF ClientRec
<1>7. d \in SUBSET Nat
  BY InvFacts
<1> HIDE DEF d
<1>8. /\ c' \in ClientRec /\ c'.enabled /\ ~c'.fatal /\ c'.state = "Starting"
      /\ c'.pipeline = c.pipeline /\ c'.handshake = c.handshake
      /\ c'.idle = c.idle /\ c'.closes = c.closes /\ c'.creds = d
      /\ c'.out = c.out /\ c'.in = c.in /\ c'.status = c.status
      /\ c'.failing = c.failing
  BY <1>6, <1>7, InvFacts DEF ClientRec, StreamState
<1>9. IsStarted(c') /\ ~IsOpen(c')
  BY <1>8 DEF IsStarted, IsOpen
<1>10. PipelineOK(c', q)
  BY <1>3, <1>8, <1>9, InvFacts DEF PipelineOK
<1>11. CredsOK(c')
  <2>1. \A n \in c.creds : n <= c.closes
    BY InvFacts DEF CredsOK
  <2>2. \A n \in d : n <= c.closes
    BY <2>1, InvFacts DEF d
  <2>3. c.closes \in d
    BY DEF d
  <2> QED
    BY <1>8, <2>2, <2>3 DEF CredsOK
<1>12. CallOK(c')
  BY <1>3, <1>8, <1>9, InvFacts DEF CallOK
<1>13. ClientInv(c', q)
  BY <1>3, <1>8, <1>9, <1>10, <1>11, <1>12, InvFacts DEF ClientInv, ClientMid
<1>14. ClosesInv'
  BY <1>1, <1>8 DEF PipeInv, ClosesInv
<1>15. RefusedInv'
  BY <1>3, <1>8, InvFacts DEF RefusedInv
<1>16. Cursor' = Cursor
  BY <1>8 DEF Cursor
<1> QED
  BY <1>2, <1>13, <1>14, <1>15, <1>16 DEF PipeInv

\* An open stream turns out healthy.
LEMMA HealthCheckKeeps ==
    ASSUME PipeInv, HealthCheck
    PROVE  PipeInv' /\ Cursor' = Cursor
<1> DEFINE q == queue[user]
<1>1. /\ c.state = "Open" /\ faults' = faults
      /\ c' = [c EXCEPT !.state = "Healthy"]
      /\ UNCHANGED queueVars /\ UNCHANGED serverVars
  BY DEF HealthCheck
<1>2. StoreInv' /\ queue'[user'] = q /\ ServerInv' /\ refused' = refused
  BY <1>1, InvFacts, StoreKept, ServerKept DEF serverVars
<1>3. /\ c' \in ClientRec /\ c'.enabled /\ ~c'.fatal /\ c'.state = "Healthy"
      /\ c'.pipeline = c.pipeline /\ c'.handshake = c.handshake
      /\ c'.idle = c.idle /\ c'.closes = c.closes /\ c'.creds = c.creds
      /\ c'.out = c.out /\ c'.in = c.in /\ c'.status = c.status
      /\ c'.failing = c.failing
  BY <1>1, InvFacts DEF ClientRec, StreamState
<1>4. IsOpen(c) /\ IsOpen(c') /\ IsStarted(c) /\ IsStarted(c')
  BY <1>1, <1>3 DEF IsStarted, IsOpen
<1>5. PipelineOK(c', q)
  BY <1>3, <1>4, InvFacts DEF PipelineOK
<1>6. CredsOK(c')
  BY <1>1, <1>3, InvFacts DEF CredsOK
<1>7. CallOK(c')
  BY <1>3, <1>4, InvFacts DEF CallOK
<1>8. ClientInv(c', q)
  BY <1>3, <1>4, <1>5, <1>6, <1>7 DEF ClientInv, ClientMid
<1>9. ClosesInv'
  BY <1>1, <1>3 DEF PipeInv, ClosesInv
<1>10. RefusedInv'
  BY <1>2, <1>3 DEF PipeInv, RefusedInv
<1>11. Cursor' = Cursor
  BY <1>3 DEF Cursor
<1> QED
  BY <1>2, <1>8, <1>9, <1>10, <1>11 DEF PipeInv

\* An idle stream is closed.
LEMMA IdleTimeoutKeeps ==
    ASSUME PipeInv, IdleTimeout
    PROVE  PipeInv' /\ Cursor' = 0
<1> DEFINE q == queue[user]
<1>1. /\ c.idle /\ Fault /\ c' = Stop(c, q)
      /\ UNCHANGED queueVars /\ UNCHANGED serverVars
  BY DEF IdleTimeout
<1>2. StoreInv' /\ queue'[user'] = q /\ ServerInv'
  BY <1>1, InvFacts, StoreKept, ServerKept
<1>3. IsStarted(c) /\ c.pipeline = <<>>
  BY <1>1, InvFacts DEF PipelineOK, IsStarted
<1>4. c' = Close(c, "ok", q)
  BY <1>1, <1>3 DEF Stop
<1>5. /\ NoCall(c, c') /\ c'.pipeline = c.pipeline
      /\ ~c'.handshake /\ c'.state = "Initial"
  BY <1>3, <1>4, InvFacts, CloseOk
<1>6. ~IsOpen(c') /\ ~IsStarted(c') /\ c'.state # "Starting"
  BY <1>5 DEF IsOpen, IsStarted
<1>7. CredsOK(c') /\ CallOK(c')
  BY <1>5, <1>6, InvFacts, NoCallFacts DEF CredsOK
<1>8. PipelineOK(c', q)
  BY <1>5, <1>6, InvFacts DEF PipelineOK, NoCall
<1>9. ClientInv(c', q)
  BY <1>3, <1>5, <1>6, <1>7, <1>8, InvFacts DEF ClientInv, ClientMid, NoCall
<1>10. Closed(c, c', q)
  BY <1>5, <1>9 DEF Closed, NoCall
<1>11. ClosesInv' /\ RefusedInv'
  BY <1>1, <1>10, ClosedKeeps
<1>12. Cursor' = 0
  BY <1>5 DEF Cursor
<1> QED
  BY <1>2, <1>9, <1>11, <1>12 DEF PipeInv

\* A restart of the stream or the process, which a fault pays for.
LEMMA RestartedKeeps ==
    ASSUME PipeInv, Fault, NEW q, ClientInv(c', q),
           c'.closes \in {0, c.closes, c.closes + 1},
           c'.status = "ok", ~c'.handshake
    PROVE  ClosesInv' /\ RefusedInv'
<1>1. faults' \in 0 .. MaxFaults /\ c'.closes <= faults' /\ c'.closes \in Nat
  BY InvFacts, WritePipelineAssumption DEF Fault
<1>2. ClosesInv'
  BY <1>1, ClosesKept
<1>3. RefusedInv'
  BY DEF RefusedInv
<1> QED
  BY <1>2, <1>3

\* The network is restarted.
LEMMA RestartNetworkKeeps ==
    ASSUME PipeInv, RestartNetwork
    PROVE  PipeInv' /\ Cursor' = 0
<1> DEFINE q == queue[user]
<1>1. /\ Fault /\ c' = Restart(c, q)
      /\ UNCHANGED queueVars /\ UNCHANGED serverVars
  BY DEF RestartNetwork
<1>2. StoreInv' /\ queue'[user'] = q /\ ServerInv'
  BY <1>1, InvFacts, StoreKept, ServerKept
<1>3. ClientInv(c, q)
  BY DEF PipeInv
<1>4. /\ ClientInv(c', q) /\ c'.closes \in {c.closes, c.closes + 1}
      /\ c'.status = "ok" /\ c'.in = <<>> /\ ~c'.handshake
  BY <1>1, <1>3, InvFacts, RestartInv
<1>5. ClosesInv' /\ RefusedInv'
  BY <1>1, <1>4, RestartedKeeps
<1>6. Cursor' = 0
  BY <1>4 DEF Cursor
<1> QED
  BY <1>2, <1>4, <1>5, <1>6 DEF PipeInv

\* Another user signs in.
LEMMA CredentialChangeKeeps ==
    ASSUME PipeInv, NEW u \in Users, CredentialChange(u)
    PROVE  PipeInv' /\ Cursor' = 0
<1>1. /\ Fault /\ c' = Restart(c, queue[u]) /\ user' = u
      /\ nextId' = LoadNextBatchId(queue)
      /\ UNCHANGED <<owner, queue, callbacks, done>> /\ UNCHANGED serverVars
  BY DEF CredentialChange
<1>2. StoreInv'
  <2>1. /\ nextId' \in Nat \ {0} /\ nextId' <= Len(owner) + 1
        /\ \A v \in Users : \A i \in DOMAIN queue[v] : queue[v][i].id < nextId'
    BY <1>1, InvFacts, NextIdFacts
  <2> QED
    BY <1>1, <2>1, InvFacts DEF StoreInv
<1>3. ServerInv'
  BY <1>1, InvFacts, ServerKept
<1>4. queue[u] \in Seq(Batch) /\ Increasing(queue[u])
  BY InvFacts, QueueFacts
<1>5. ClientInv(c, queue[user])
  BY DEF PipeInv
<1>6. /\ ClientInv(c', queue[u]) /\ c'.closes \in {c.closes, c.closes + 1}
      /\ c'.status = "ok" /\ c'.in = <<>> /\ ~c'.handshake
  BY <1>1, <1>4, <1>5, RestartInv
<1>7. ClosesInv' /\ RefusedInv'
  BY <1>1, <1>6, RestartedKeeps
<1>8. Cursor' = 0
  BY <1>6 DEF Cursor
<1> QED
  BY <1>1, <1>2, <1>3, <1>6, <1>7, <1>8 DEF PipeInv

\* The process is launched again.
LEMMA RelaunchKeeps ==
    ASSUME PipeInv, Fault, Relaunch,
           done' \in [Writes -> {"none", "ok", "error"}]
    PROVE  PipeInv' /\ Cursor' = 0
<1>1. /\ c' = Launch(queue[user]) /\ callbacks' = {}
      /\ nextId' = LoadNextBatchId(queue)
      /\ UNCHANGED <<owner, queue, user>> /\ UNCHANGED serverVars
  BY DEF Relaunch
<1>2. StoreInv'
  <2>1. /\ nextId' \in Nat \ {0} /\ nextId' <= Len(owner) + 1
        /\ \A v \in Users : \A i \in DOMAIN queue[v] : queue[v][i].id < nextId'
    BY <1>1, InvFacts, NextIdFacts
  <2> QED
    BY <1>1, <2>1, InvFacts DEF StoreInv
<1>3. ServerInv'
  BY <1>1, InvFacts, ServerKept
<1>4. /\ ClientInv(c', queue[user]) /\ c'.closes = 0
      /\ c'.status = "ok" /\ c'.in = <<>> /\ ~c'.handshake
  BY <1>1, InvFacts, LaunchInv
<1>5. ClosesInv' /\ RefusedInv'
  BY <1>4, RestartedKeeps
<1>6. Cursor' = 0
  BY <1>4 DEF Cursor
<1> QED
  BY <1>1, <1>2, <1>3, <1>4, <1>5, <1>6 DEF PipeInv

\* The process ends between two handlers, or inside one.
LEMMA KillKeeps ==
    ASSUME PipeInv, Kill \/ KillInResult
    PROVE  PipeInv' /\ Cursor' = 0
<1>1. Fault /\ Relaunch
  BY DEF Kill, KillInResult
<1>2. done' \in [Writes -> {"none", "ok", "error"}]
  <2>1. done \in [Writes -> {"none", "ok", "error"}]
    BY InvFacts DEF StoreInv
  <2>2. CASE Kill
    BY <2>1, <2>2 DEF Kill
  <2>3. CASE KillInResult
    <3>1. Head(c.pipeline) \in Batch
      BY <2>3, InvFacts, TailFacts DEF KillInResult
    <3>2. Head(c.pipeline).w \in Writes
      BY <3>1, BatchFacts
    <3> QED
      BY <2>1, <2>3, <3>2 DEF KillInResult
  <2> QED
    BY <2>2, <2>3
<1> QED
  BY <1>1, <1>2, RelaunchKeeps

\* A call that is up has the handshake or the pipeline to answer.
LEMMA ServingFacts ==
    ASSUME PipeInv, Serving
    PROVE  /\ IsOpen(c) /\ IsStarted(c) /\ c.status = "ok" /\ c.out # <<>>
           /\ ~c.handshake => c.in = <<>> /\ c.out = <<Hello>>
           /\ c.handshake => /\ c.in \o c.out = c.pipeline
                             /\ Head(c.out) \in Batch
                             /\ Len(c.in) \in Nat /\ Len(c.pipeline) \in Nat
                             /\ Len(c.in) < Len(c.pipeline)
                             /\ Head(c.out) = c.pipeline[Len(c.in) + 1]
<1>1. /\ IsOpen(c) /\ IsStarted(c) /\ c.status = "ok" /\ c.out # <<>>
      /\ (~c.handshake => c.in = <<>> /\ c.out = <<Hello>>)
      /\ (c.handshake => c.in \o c.out = c.pipeline)
  BY InvFacts DEF Serving, CallOK, IsStarted
<1>2. ASSUME c.handshake
      PROVE  /\ Head(c.out) \in Batch
             /\ Len(c.in) \in Nat /\ Len(c.pipeline) \in Nat
             /\ Len(c.in) < Len(c.pipeline)
             /\ Head(c.out) = c.pipeline[Len(c.in) + 1]
  BY <1>1, <1>2, InvFacts, UnansweredHead
<1> QED
  BY <1>1, <1>2

\* A step of the server or the network changes the call alone.
LEMMA CallKeeps ==
    ASSUME PipeInv, UNCHANGED queueVars, IsOpen(c), IsOpen(c'),
           c' \in ClientRec, CallOK(c'),
           c'.enabled = c.enabled, c'.pipeline = c.pipeline,
           c'.state = c.state, c'.handshake = c.handshake,
           c'.idle = c.idle, c'.closes = c.closes, c'.creds = c.creds,
           c'.fatal = c.fatal
    PROVE  StoreInv' /\ ClientInv(c', queue'[user'])
<1>1. StoreInv' /\ queue'[user'] = queue[user]
  BY InvFacts, StoreKept
<1>2. PipelineOK(c', queue[user])
  BY InvFacts DEF PipelineOK, IsStarted
<1>3. CredsOK(c')
  BY InvFacts DEF CredsOK
<1>4. ClientInv(c', queue[user])
  BY <1>2, <1>3, InvFacts DEF ClientInv, ClientMid, IsStarted
<1> QED
  BY <1>1, <1>4

\* The server answers the handshake.
LEMMA ServerHandshakeKeeps ==
    ASSUME PipeInv, ServerHandshake
    PROVE  PipeInv' /\ Cursor' = Cursor
<1>1. /\ Serving /\ Head(c.out) = Hello /\ faults' = faults
      /\ c' = [c EXCEPT !.out = Tail(c.out), !.in = Append(c.in, Hello)]
      /\ UNCHANGED queueVars /\ UNCHANGED serverVars
  BY DEF ServerHandshake
<1>2. ~c.handshake
  BY <1>1, ServingFacts, BatchFacts
<1>3. IsOpen(c) /\ c.status = "ok" /\ c.in = <<>> /\ c.out = <<Hello>>
  BY <1>1, <1>2, ServingFacts
<1>4. Tail(c.out) = <<>> /\ Append(c.in, Hello) = <<Hello>>
  BY <1>3
<1>5. <<Hello>> \in Seq(Message) /\ <<>> \in Seq(Message)
  BY EmptyIsSeq DEF Message
<1>6. /\ c' \in ClientRec /\ c'.enabled = c.enabled
      /\ c'.pipeline = c.pipeline /\ c'.state = c.state
      /\ c'.handshake = c.handshake /\ c'.idle = c.idle
      /\ c'.closes = c.closes /\ c'.creds = c.creds /\ c'.fatal = c.fatal
      /\ c'.status = c.status /\ c'.failing = c.failing
      /\ c'.in = <<Hello>> /\ c'.out = <<>>
  BY <1>1, <1>4, <1>5, InvFacts DEF ClientRec
<1>7. IsOpen(c')
  BY <1>3, <1>6 DEF IsOpen
<1>8. CallOK(c')
  BY <1>2, <1>3, <1>6, <1>7, InvFacts DEF CallOK
<1>9. StoreInv' /\ ClientInv(c', queue'[user'])
  BY <1>1, <1>3, <1>6, <1>7, <1>8, CallKeeps
<1>10. ClosesInv' /\ RefusedInv' /\ ServerInv'
  <2>1. ClosesInv'
    BY <1>1, <1>6 DEF PipeInv, ClosesInv
  <2>2. RefusedInv'
    BY <1>3, <1>6 DEF RefusedInv
  <2> QED
    BY <1>1, <2>1, <2>2, InvFacts, ServerKept
<1>11. Cursor' = Cursor
  BY <1>2, <1>6 DEF Cursor
<1> QED
  BY <1>2, <1>6, <1>9, <1>10, <1>11 DEF PipeInv

\* The server commits the first batch it has not answered.
LEMMA ServerCommitKeeps ==
    ASSUME PipeInv, ServerCommit
    PROVE  /\ PipeInv' /\ Cursor' = Cursor + 1
           /\ Cursor \in Nat /\ Cursor < Len(queue[user])
           /\ Head(c.out) = queue[user][Cursor + 1]
<1> DEFINE b == Head(c.out)
           x == Append(c.in, b)
           y == Tail(c.out)
<1>1. /\ Serving /\ b # Hello /\ faults' = faults /\ refused' = refused
      /\ c' = [c EXCEPT !.out = y, !.in = x]
      /\ UNCHANGED queueVars
      /\ committed' = committed \cup {b.w}
      /\ over' = {p \in over : p[1] # b.w} \cup ((committed \ {b.w}) \X {b.w})
  BY DEF ServerCommit
<1>2. c.handshake /\ c.out # <<>>
  BY <1>1, ServingFacts
<1>3. /\ IsOpen(c) /\ c.status = "ok" /\ c.in \o c.out = c.pipeline
      /\ b \in Batch
  BY <1>1, <1>2, ServingFacts
<1>4. x \in Seq(Message) /\ y \in Seq(Message) /\ x \o y = c.pipeline
  <2>1. c.in \in Seq(Message) /\ c.out \in Seq(Message)
    BY InvFacts
  <2>2. x \in Seq(Message) /\ y \in Seq(Message) /\ x \o y = c.in \o c.out
    BY <1>2, <2>1, ConcatMoves
  <2> QED
    BY <1>3, <2>2
<1> HIDE DEF x, y
<1>5. IsPrefix(x, c.pipeline)
  <2>1. IsPrefix(x, x \o y)
    BY <1>4, PrefixConcat
  <2> QED
    BY <1>4, <2>1
<1>6. /\ c' \in ClientRec /\ c'.enabled = c.enabled
      /\ c'.pipeline = c.pipeline /\ c'.state = c.state
      /\ c'.handshake = c.handshake /\ c'.idle = c.idle
      /\ c'.closes = c.closes /\ c'.creds = c.creds /\ c'.fatal = c.fatal
      /\ c'.status = c.status /\ c'.failing = c.failing
      /\ c'.in = x /\ c'.out = y
  BY <1>1, <1>4, InvFacts DEF ClientRec
<1>7. IsOpen(c')
  BY <1>3, <1>6 DEF IsOpen
<1>8. CallOK(c')
  BY <1>2, <1>3, <1>4, <1>5, <1>6, <1>7, InvFacts DEF CallOK
<1>9. StoreInv' /\ ClientInv(c', queue'[user'])
  BY <1>1, <1>3, <1>6, <1>7, <1>8, CallKeeps
<1>10. ClosesInv'
  BY <1>1, <1>6 DEF PipeInv, ClosesInv
<1>11. RefusedInv'
  BY <1>3, <1>6 DEF RefusedInv
<1>12. ServerInv'
  <2>1. b.w \in Writes
    BY <1>3, BatchFacts
  <2>2. /\ committed \subseteq Writes /\ refused \subseteq Writes
        /\ over \subseteq Writes \X Writes
    BY InvFacts DEF ServerInv
  <2> HIDE DEF b
  <2>3. committed' \subseteq Writes /\ refused' \subseteq Writes
    BY <1>1, <2>1, <2>2
  <2>4. (committed \ {b.w}) \X {b.w} \subseteq Writes \X Writes
    BY <2>1, <2>2
  <2>5. over' \subseteq Writes \X Writes
    BY <1>1, <2>2, <2>4
  <2> QED
    BY <2>3, <2>5 DEF ServerInv
<1>13. /\ Cursor' = Cursor + 1
        /\ Cursor \in Nat /\ Cursor < Len(queue[user])
        /\ Head(c.out) = queue[user][Cursor + 1]
  <2>1. /\ Len(c.in) \in Nat /\ Len(c.pipeline) \in Nat
        /\ Len(c.in) < Len(c.pipeline)
        /\ Head(c.out) = c.pipeline[Len(c.in) + 1]
    BY <1>1, <1>2, ServingFacts
  <2>2. IsPrefix(c.pipeline, queue[user])
    BY InvFacts DEF PipelineOK
  <2>3. /\ Len(c.pipeline) <= Len(queue[user]) /\ Len(queue[user]) \in Nat
        /\ \A i \in 1 .. Len(c.pipeline) : c.pipeline[i] = queue[user][i]
    BY <2>2, InvFacts, PrefixFacts, LenProperties
  <2>4. Len(x) = Len(c.in) + 1
    BY <1>3, InvFacts, AppendProperties DEF x, Message
  <2>5. Cursor = Len(c.in) /\ Cursor' = Len(x)
    BY <1>2, <1>6 DEF Cursor
  <2>6. Len(c.in) + 1 \in 1 .. Len(c.pipeline)
    BY <2>1
  <2> QED
    BY <2>1, <2>3, <2>4, <2>5, <2>6
<1> QED
  BY <1>2, <1>6, <1>9, <1>10, <1>11, <1>12, <1>13 DEF PipeInv, x

\* The server refuses the first message it has not answered.
LEMMA ServerRefuseKeeps ==
    ASSUME PipeInv, ServerRefuse
    PROVE  PipeInv' /\ Cursor' = Cursor
<1>1. /\ Serving /\ Fault /\ c' = [c EXCEPT !.status = "permanent"]
      /\ refused' = refused \cup ({Head(c.out).w} \ {0})
      /\ UNCHANGED queueVars /\ UNCHANGED <<committed, over>>
  BY DEF ServerRefuse
<1>2. IsOpen(c) /\ c.status = "ok" /\ c.out # <<>>
  BY <1>1, ServingFacts
<1>3. /\ c' \in ClientRec /\ c'.enabled = c.enabled
      /\ c'.pipeline = c.pipeline /\ c'.state = c.state
      /\ c'.handshake = c.handshake /\ c'.idle = c.idle
      /\ c'.closes = c.closes /\ c'.creds = c.creds /\ c'.fatal = c.fatal
      /\ c'.status = "permanent" /\ c'.failing = c.failing
      /\ c'.in = c.in /\ c'.out = c.out
  BY <1>1, InvFacts DEF ClientRec, Status
<1>4. IsOpen(c')
  BY <1>2, <1>3 DEF IsOpen
<1>5. CallOK(c')
  <2>1. ~c.handshake => c.in = <<>> /\ c.out = <<Hello>>
    BY <1>1, ServingFacts
  <2> QED
    BY <1>2, <1>3, <1>4, <2>1, InvFacts DEF CallOK
<1>6. StoreInv' /\ ClientInv(c', queue'[user'])
  BY <1>1, <1>2, <1>3, <1>4, <1>5, CallKeeps
<1>7. ClosesInv'
  <2>1. faults' \in 0 .. MaxFaults /\ c.closes + 1 <= faults' /\ c.closes <= faults'
    BY <1>1, InvFacts, WritePipelineAssumption DEF Fault
  <2> QED
    BY <1>3, <2>1, InvFacts, ClosesKept
<1>8. c.handshake => Head(c.out).w \in Writes \ {0}
  BY <1>1, ServingFacts, BatchFacts
<1>9. RefusedInv'
  BY <1>1, <1>2, <1>3, <1>8 DEF RefusedInv
<1>10. ServerInv'
  <2>1. Head(c.out).w \in Writes \cup {0}
    <3>1. CASE c.handshake
      BY <1>8, <3>1
    <3>2. CASE ~c.handshake
      <4>1. c.out = <<Hello>>
        BY <1>1, <3>2, ServingFacts
      <4> QED
        BY <4>1 DEF Hello
    <3> QED
      BY <3>1, <3>2
  <2> QED
    BY <1>1, <2>1, InvFacts DEF ServerInv
<1>11. Cursor' = Cursor
  BY <1>3 DEF Cursor
<1> QED
  BY <1>3, <1>6, <1>7, <1>9, <1>10, <1>11 DEF PipeInv

\* The call breaks.
LEMMA BreakKeeps ==
    ASSUME PipeInv, Break
    PROVE  PipeInv' /\ Cursor' \in 0 .. Cursor
<1>1. PICK k \in 0 .. Len(c.in) :
          c' = [c EXCEPT !.status = "transient", !.in = SubSeq(c.in, 1, k)]
  BY DEF Break
<1>2. /\ IsOpen(c) /\ c.status = "ok" /\ Fault
      /\ UNCHANGED queueVars /\ UNCHANGED serverVars
  BY DEF Break
<1> DEFINE x == SubSeq(c.in, 1, k)
<1>3. /\ x \in Seq(Message) /\ Len(x) = k
      /\ \A i \in 1 .. k : x[i] = c.in[i]
  <2>1. Len(c.in) \in Nat /\ \A i \in 1 .. k : c.in[i] \in Message
    BY InvFacts, LenProperties, ElementOfSeq
  <2>2. /\ x \in Seq(Message) /\ Len(x) = IF 1 <= k THEN k - 1 + 1 ELSE 0
        /\ \A i \in 1 .. k - 1 + 1 : x[i] = c.in[1 + i - 1]
    BY <2>1, SubSeqProperties
  <2> HIDE DEF x
  <2>3. k \in Nat /\ k - 1 + 1 = k /\ \A i \in 1 .. k : 1 + i - 1 = i
    BY <2>1
  <2> QED
    BY <2>2, <2>3
<1>4. Len(c.in) \in Nat
  BY InvFacts, LenProperties
<1> HIDE DEF x
<1>5. IsPrefix(x, c.in)
  BY <1>3, <1>4, InvFacts, PrefixFacts
<1>6. /\ c' \in ClientRec /\ c'.enabled = c.enabled
      /\ c'.pipeline = c.pipeline /\ c'.state = c.state
      /\ c'.handshake = c.handshake /\ c'.idle = c.idle
      /\ c'.closes = c.closes /\ c'.creds = c.creds /\ c'.fatal = c.fatal
      /\ c'.status = "transient" /\ c'.failing = c.failing
      /\ c'.in = x /\ c'.out = c.out
  BY <1>1, <1>3, InvFacts DEF ClientRec, Status, x
<1>7. IsOpen(c')
  BY <1>2, <1>6 DEF IsOpen
<1>8. CallOK(c')
  <2>1. CASE c.handshake
    <3>1. IsPrefix(c.in, c.pipeline)
      BY <1>2, <2>1, InvFacts DEF CallOK
    <3>2. IsPrefix(x, c.pipeline)
      BY <1>3, <1>5, <3>1, InvFacts, PrefixTrans
    <3> QED
      BY <1>6, <1>7, <2>1, <3>2, InvFacts DEF CallOK
  <2>2. CASE ~c.handshake
    <3>1. \/ c.in = <<Hello>> /\ c.out = <<>>
          \/ c.in = <<>>
      BY <1>2, <2>2, InvFacts DEF CallOK
    <3>2. CASE k = 0
      <4>1. x = <<>>
        BY <1>3, <3>2, EmptySeq
      <4> QED
        BY <1>6, <1>7, <2>2, <4>1, InvFacts DEF CallOK
    <3>3. CASE k # 0
      <4>1. c.in # <<>>
        BY <1>4, <3>3, EmptySeq
      <4>2. c.in = <<Hello>> /\ c.out = <<>>
        BY <3>1, <4>1
      <4>3. Len(c.in) = 1
        BY <4>2
      <4>4. k = Len(c.in)
        BY <3>3, <4>3
      <4>5. x = c.in
        BY <1>3, <4>4, InvFacts, SeqEqual
      <4> QED
        BY <1>6, <1>7, <2>2, <4>2, <4>5, InvFacts DEF CallOK
    <3> QED
      BY <3>2, <3>3
  <2> QED
    BY <2>1, <2>2
<1>9. StoreInv' /\ ClientInv(c', queue'[user'])
  BY <1>2, <1>6, <1>7, <1>8, CallKeeps
<1>10. ClosesInv'
  <2>1. faults' \in 0 .. MaxFaults /\ c.closes + 1 <= faults' /\ c.closes <= faults'
    BY <1>2, InvFacts, WritePipelineAssumption DEF Fault
  <2> QED
    BY <1>6, <2>1, InvFacts, ClosesKept
<1>11. RefusedInv'
  BY <1>6 DEF RefusedInv
<1>12. ServerInv'
  BY <1>2, InvFacts, ServerKept
<1>13. Cursor' \in 0 .. Cursor
  BY <1>3, <1>4, <1>6 DEF Cursor
<1> QED
  BY <1>9, <1>10, <1>11, <1>12, <1>13 DEF PipeInv

\* The invariant holds at first.
LEMMA PipeInvInit ==
    ASSUME Init
    PROVE  PipeInv
<1>1. /\ owner = <<>> /\ queue = [u \in Users |-> <<>>] /\ nextId = 1
      /\ user \in Users /\ callbacks = {} /\ done = [w \in Writes |-> "none"]
      /\ c = Launch(<<>>) /\ committed = {} /\ over = {} /\ refused = {}
      /\ faults = 0
  BY DEF Init
<1>2. /\ <<>> \in Seq(Users) /\ <<>> \in Seq(Batch) /\ Len(<<>>) = 0
      /\ DOMAIN <<>> = {}
  BY EmptyIsSeq, EmptySeq
<1>3. Increasing(<<>>)
  BY <1>2 DEF Increasing
<1>4. \A u \in Users : queue[u] = <<>>
  BY <1>1
<1>5. StoreInv
  <2>1. queue \in [Users -> Seq(Batch)]
    BY <1>1, <1>2
  <2>2. Len(owner) = 0 /\ owner \in Seq(Users)
    BY <1>1, <1>2
  <2>3. 0 <= MaxWrites
    BY WritePipelineAssumption
  <2>4. \A u \in Users : Increasing(queue[u]) /\ DOMAIN queue[u] = {}
    BY <1>2, <1>3, <1>4
  <2>5. nextId \in Nat \ {0} /\ nextId <= Len(owner) + 1
    BY <1>1, <2>2
  <2> QED
    BY <1>1, <2>1, <2>2, <2>3, <2>4, <2>5 DEF StoreInv
<1>6. ServerInv
  BY <1>1 DEF ServerInv
<1>7. /\ ClientInv(c, <<>>) /\ c.closes = 0 /\ c.status = "ok" /\ ~c.handshake
  BY <1>1, <1>2, <1>3, LaunchInv
<1>8. ClosesInv
  BY <1>1, <1>7, WritePipelineAssumption DEF ClosesInv
<1>9. RefusedInv
  BY <1>7 DEF RefusedInv
<1> QED
  BY <1>1, <1>4, <1>5, <1>6, <1>7, <1>8, <1>9 DEF PipeInv

\* Every step keeps the invariant.
LEMMA PipeInvNext ==
    ASSUME PipeInv, [Next]_vars
    PROVE  PipeInv'
<1>1. CASE Write
  BY <1>1, WriteKeeps
<1>2. CASE ClientStep
  <2>1. ASSUME NEW n \in c.creds, Credentials(n, TRUE)
        PROVE  PipeInv'
    BY <2>1, CredentialsKeeps
  <2> QED
    BY <1>2, <2>1, HandshakeCompleteKeeps, MutationResultKeeps,
       StreamFinishKeeps, BackoffElapsedKeeps DEF ClientStep
<1>3. CASE HealthCheck
  BY <1>3, HealthCheckKeeps
<1>4. CASE ServerStep
  BY <1>4, ServerHandshakeKeeps, ServerCommitKeeps DEF ServerStep
<1>5. CASE Disturbance
  <2>1. ASSUME NEW n \in c.creds, Credentials(n, FALSE)
        PROVE  PipeInv'
    BY <2>1, CredentialsKeeps
  <2>2. ASSUME NEW u \in Users, CredentialChange(u)
        PROVE  PipeInv'
    BY <2>2, CredentialChangeKeeps
  <2> QED
    BY <1>5, <2>1, <2>2, IdleTimeoutKeeps, RestartNetworkKeeps, KillKeeps,
       ServerRefuseKeeps, BreakKeeps DEF Disturbance
<1>6. CASE UNCHANGED vars
  <2>1. /\ owner' = owner /\ queue' = queue /\ nextId' = nextId /\ user' = user
        /\ callbacks' = callbacks /\ done' = done /\ c' = c
        /\ committed' = committed /\ over' = over /\ refused' = refused
        /\ faults' = faults
    BY <1>6 DEF vars
  <2>2. UNCHANGED queueVars /\ UNCHANGED serverVars
    BY <2>1 DEF queueVars, serverVars
  <2>3. StoreInv' /\ ServerInv'
    BY <2>2, InvFacts, StoreKept, ServerKept
  <2>4. ClosesInv' /\ RefusedInv' /\ ClientInv(c', queue'[user'])
    BY <2>1 DEF PipeInv, ClosesInv, RefusedInv
  <2> QED
    BY <2>3, <2>4 DEF PipeInv
<1> QED
  BY <1>1, <1>2, <1>3, <1>4, <1>5, <1>6 DEF Next

\* PipeInv is an invariant of the pipeline, with and without the write race.
THEOREM PipeInvariant == Spec => []PipeInv
<1>1. Init => PipeInv
  BY PipeInvInit
<1>2. PipeInv /\ [Next]_vars => PipeInv'
  BY PipeInvNext
<1> QED
  BY <1>1, <1>2, PTL DEF Spec

\* The close counter and the token requests stay within the faults.
LEMMA ClientTyped ==
    ASSUME PipeInv
    PROVE  c \in Client
<1>1. c.closes \in 0 .. MaxFaults
  BY InvFacts, WritePipelineAssumption
<1>2. c.creds \in SUBSET (0 .. MaxFaults)
  <2> SUFFICES ASSUME NEW n \in c.creds
               PROVE  n \in 0 .. MaxFaults
    OBVIOUS
  <2>1. n \in Nat /\ n <= c.closes
    BY InvFacts DEF CredsOK
  <2> QED
    BY <1>1, <2>1, WritePipelineAssumption
<1> QED
  BY <1>1, <1>2, InvFacts DEF Client, ClientRec

\* The variables keep their types, the bounds on the ids, on the close counter
\* and on the token requests included.
THEOREM TypeCorrect == Spec => []TypeOK
<1>1. PipeInv => TypeOK
  <2> SUFFICES ASSUME PipeInv
               PROVE  TypeOK
    OBVIOUS
  <2>1. nextId \in 1 .. MaxWrites + 1
    <3>1. Len(owner) \in Nat /\ nextId \in Nat \ {0} /\ nextId <= Len(owner) + 1
          /\ Len(owner) <= MaxWrites
      BY InvFacts, LenProperties DEF StoreInv
    <3> QED
      BY <3>1, WritePipelineAssumption
  <2>2. faults \in 0 .. MaxFaults
    BY DEF PipeInv, ClosesInv
  <2> QED
    BY <2>1, <2>2, InvFacts, ClientTyped DEF TypeOK, StoreInv, ServerInv
<1> QED
  BY <1>1, PipeInvariant, PTL

\* No HARD_ASSERT of the stream, the pipeline or the mutation queue fails.
THEOREM NoAssertFails == Spec => []NoHardAssert
<1>1. PipeInv => NoHardAssert
  BY InvFacts DEF NoHardAssert
<1> QED
  BY <1>1, PipeInvariant, PTL

\* The call carries the pipeline, and the pipeline is the front of the queue:
\* the unread responses answer its front, in order.
THEOREM ResponsesMatchPipeline == Spec => []StreamCarriesPipeline
<1>1. PipeInv => StreamCarriesPipeline
  <2> SUFFICES ASSUME PipeInv
               PROVE  StreamCarriesPipeline
    OBVIOUS
  <2>1. IsPrefix(c.pipeline, queue[user])
    BY InvFacts DEF PipelineOK
  <2>2. c.handshake => IsOpen(c)
    BY InvFacts
  <2>3. c.handshake =>
            /\ IsPrefix(c.in, c.pipeline)
            /\ c.status # "transient" => c.in \o c.out = c.pipeline
    BY <2>2, InvFacts DEF CallOK
  <2> QED
    BY <2>1, <2>3 DEF StreamCarriesPipeline
<1> QED
  BY <1>1, PipeInvariant, PTL

\* A completion waits for a batch of its user's queue, and no queue holds one
\* id twice, though ids are used again.
THEOREM CompletionsTracked == Spec => []CompletionsTrackQueue
<1>1. PipeInv => CompletionsTrackQueue
  BY InvFacts DEF CompletionsTrackQueue, StoreInv, Increasing
<1> QED
  BY <1>1, PipeInvariant, PTL

-----------------------------------------------------------------------------
(* Refusals *)

\* The batch the server refused is the first without an answer: the front of
\* the pipeline, or the one behind it when a failed Write overtakes a response.
LEMMA RejectedFront ==
    ASSUME PipeInv, StreamFinish, RejectsFront(c, c.status)
    PROVE  /\ Cursor = 0 \/ (WriteRace /\ Cursor = 1)
           /\ Cursor \in Nat /\ Cursor < Len(queue[user])
           /\ queue[user][Cursor + 1].w \in refused
<1>1. c.handshake /\ c.status = "permanent" /\ c.pipeline # <<>>
  BY DEF RejectsFront
<1>2. IsOpen(c) /\ c.in \o c.out = c.pipeline
  BY <1>1, InvFacts DEF CallOK
<1>3. c.out # <<>> /\ Head(c.out).w \in refused
  BY <1>1 DEF PipeInv, RefusedInv
<1>4. /\ Len(c.in) \in Nat /\ Len(c.pipeline) \in Nat
      /\ Len(c.in) < Len(c.pipeline) /\ Head(c.out) = c.pipeline[Len(c.in) + 1]
  BY <1>2, <1>3, InvFacts, UnansweredHead
<1>5. IsPrefix(c.pipeline, queue[user])
  BY InvFacts DEF PipelineOK
<1>6. /\ Len(c.pipeline) <= Len(queue[user]) /\ Len(queue[user]) \in Nat
      /\ \A i \in 1 .. Len(c.pipeline) : c.pipeline[i] = queue[user][i]
  BY <1>5, InvFacts, PrefixFacts, LenProperties
<1>7. Len(c.in) = 0 \/ (WriteRace /\ Len(c.in) = 1)
  <2>1. c.in = <<>> \/ (c.failing = "ready" /\ Len(c.in) = 1)
    BY DEF StreamFinish
  <2>2. ~WriteRace => c.failing = "no"
    BY InvFacts DEF CallOK
  <2> QED
    BY <2>1, <2>2, EmptySeq
<1>8. Cursor = Len(c.in)
  BY <1>1 DEF Cursor
<1>9. Len(c.in) + 1 \in 1 .. Len(c.pipeline)
  BY <1>4
<1> QED
  BY <1>3, <1>4, <1>6, <1>7, <1>8, <1>9

-----------------------------------------------------------------------------
(* The promise of WriteQueue *)

\* The writes of the queues q.
PendingOf(q) == [u \in Users |-> [i \in DOMAIN q[u] |-> q[u][i].w]]

\* They are as many, in the same order.
LEMMA PendingFacts ==
    ASSUME NEW q \in [Users -> Seq(Batch)], NEW u \in Users
    PROVE  /\ PendingOf(q)[u] \in Seq(Writes)
           /\ Len(PendingOf(q)[u]) = Len(q[u]) /\ Len(q[u]) \in Nat
           /\ DOMAIN PendingOf(q)[u] = 1 .. Len(q[u])
           /\ \A i \in 1 .. Len(q[u]) : PendingOf(q)[u][i] = q[u][i].w
           /\ (PendingOf(q)[u] = <<>> <=> q[u] = <<>>)
<1> DEFINE p == PendingOf(q)[u]
<1>1. /\ q[u] \in Seq(Batch) /\ Len(q[u]) \in Nat /\ DOMAIN q[u] = 1 .. Len(q[u])
  BY LenProperties
<1>2. p = [i \in 1 .. Len(q[u]) |-> q[u][i].w]
  BY <1>1 DEF PendingOf
<1>3. \A i \in 1 .. Len(q[u]) : q[u][i].w \in Writes
  <2>1. \A i \in 1 .. Len(q[u]) : q[u][i] \in Batch
    BY <1>1, ElementOfSeq
  <2> QED
    BY <2>1, BatchFacts
<1> HIDE DEF p
<1>4. p \in Seq(Writes) /\ Len(p) = Len(q[u])
  <2>1. p \in [1 .. Len(q[u]) -> Writes]
    BY <1>2, <1>3
  <2>2. p \in Seq(Writes)
    BY <1>1, <2>1, SeqDef
  <2> QED
    BY <1>1, <2>1, <2>2, LenProperties
<1>5. DOMAIN p = 1 .. Len(q[u]) /\ \A i \in 1 .. Len(q[u]) : p[i] = q[u][i].w
  BY <1>2
<1>6. p = <<>> <=> q[u] = <<>>
  BY <1>1, <1>4, EmptySeq
<1> QED
  BY <1>1, <1>4, <1>5, <1>6 DEF p

\* x joins the queue of u.
Joined(q, u, x) == [q EXCEPT ![u] = Append(q[u], x)]

\* A batch joins a queue.
LEMMA PendingAppend ==
    ASSUME NEW q \in [Users -> Seq(Batch)], NEW u \in Users, NEW b \in Batch,
           NEW r, r = Joined(q, u, b)
    PROVE  PendingOf(r) = Joined(PendingOf(q), u, b.w)
<1> DEFINE a == Append(q[u], b)
           x == PendingOf(r)[u]
           p == PendingOf(q)[u]
           y == Append(p, b.w)
<1>1. b.w \in Writes /\ q[u] \in Seq(Batch) /\ Len(q[u]) \in Nat
  BY BatchFacts, LenProperties
<1>2. /\ a \in Seq(Batch) /\ Len(a) = Len(q[u]) + 1
      /\ \A i \in 1 .. Len(q[u]) : a[i] = q[u][i]
      /\ a[Len(q[u]) + 1] = b
  BY <1>1, AppendProperties
<1> HIDE DEF a
<1>3. /\ r \in [Users -> Seq(Batch)] /\ r[u] = a
      /\ \A v \in Users : v # u => r[v] = q[v]
  BY <1>2 DEF a, Joined
<1>4. /\ x \in Seq(Writes) /\ Len(x) = Len(q[u]) + 1
      /\ \A i \in 1 .. Len(q[u]) + 1 : x[i] = a[i].w
  <2>1. /\ x \in Seq(Writes) /\ Len(x) = Len(r[u])
        /\ \A i \in 1 .. Len(r[u]) : x[i] = r[u][i].w
    BY <1>3, PendingFacts
  <2> HIDE DEF x
  <2> QED
    BY <1>2, <1>3, <2>1
<1>5. /\ p \in Seq(Writes) /\ Len(p) = Len(q[u])
      /\ \A i \in 1 .. Len(q[u]) : p[i] = q[u][i].w
  BY PendingFacts
<1> HIDE DEF x, p
<1>6. /\ y \in Seq(Writes) /\ Len(y) = Len(q[u]) + 1
      /\ \A i \in 1 .. Len(q[u]) : y[i] = p[i]
      /\ y[Len(q[u]) + 1] = b.w
  BY <1>1, <1>5, AppendProperties
<1> HIDE DEF y
<1>7. \A i \in 1 .. Len(x) : x[i] = y[i]
  <2> SUFFICES ASSUME NEW i \in 1 .. Len(q[u]) + 1
               PROVE  x[i] = y[i]
    BY <1>4
  <2>1. CASE i = Len(q[u]) + 1
    BY <1>2, <1>4, <1>6, <2>1
  <2>2. CASE i \in 1 .. Len(q[u])
    BY <1>2, <1>4, <1>5, <1>6, <2>2
  <2> QED
    BY <1>1, <2>1, <2>2
<1>8. x = y
  BY <1>4, <1>6, <1>7, SeqEqual
<1>9. \A v \in Users : v # u => PendingOf(r)[v] = PendingOf(q)[v]
  BY <1>3 DEF PendingOf
<1>10. PendingOf(r) = [PendingOf(q) EXCEPT ![u] = y]
  <2>1. /\ PendingOf(r) = [v \in Users |-> PendingOf(r)[v]]
        /\ PendingOf(q) = [v \in Users |-> PendingOf(q)[v]]
    BY DEF PendingOf
  <2> QED
    BY <1>8, <1>9, <2>1 DEF x
<1> QED
  BY <1>10 DEF y, p, Joined

\* The front batch leaves a queue.
LEMMA PendingTail ==
    ASSUME NEW q \in [Users -> Seq(Batch)], NEW u \in Users, q[u] # <<>>
    PROVE  /\ PendingOf([q EXCEPT ![u] = Tail(q[u])])
                = [PendingOf(q) EXCEPT ![u] = Tail(PendingOf(q)[u])]
           /\ Head(PendingOf(q)[u]) = Head(q[u]).w
<1> DEFINE a == Tail(q[u])
           r == [q EXCEPT ![u] = a]
           x == PendingOf(r)[u]
           p == PendingOf(q)[u]
           y == Tail(p)
<1>1. /\ q[u] \in Seq(Batch) /\ Len(q[u]) \in Nat \ {0}
      /\ a \in Seq(Batch) /\ Len(a) = Len(q[u]) - 1
      /\ \A i \in 1 .. Len(q[u]) - 1 : a[i] = q[u][i + 1]
      /\ Head(q[u]) = q[u][1]
  BY TailFacts
<1> HIDE DEF a
<1>2. /\ r \in [Users -> Seq(Batch)] /\ r[u] = a
      /\ \A v \in Users : v # u => r[v] = q[v]
  BY <1>1
<1> HIDE DEF r
<1>3. /\ x \in Seq(Writes) /\ Len(x) = Len(q[u]) - 1
      /\ \A i \in 1 .. Len(q[u]) - 1 : x[i] = a[i].w
  <2>1. /\ x \in Seq(Writes) /\ Len(x) = Len(r[u])
        /\ \A i \in 1 .. Len(r[u]) : x[i] = r[u][i].w
    BY <1>2, PendingFacts
  <2> HIDE DEF x
  <2> QED
    BY <1>1, <1>2, <2>1
<1>4. /\ p \in Seq(Writes) /\ Len(p) = Len(q[u]) /\ p # <<>>
      /\ \A i \in 1 .. Len(q[u]) : p[i] = q[u][i].w
  BY PendingFacts
<1> HIDE DEF x, p
<1>5. /\ y \in Seq(Writes) /\ Len(y) = Len(q[u]) - 1 /\ Head(p) = p[1]
      /\ \A i \in 1 .. Len(q[u]) - 1 : y[i] = p[i + 1]
  BY <1>4, TailFacts
<1> HIDE DEF y
<1>6. \A i \in 1 .. Len(x) : x[i] = y[i]
  <2> SUFFICES ASSUME NEW i \in 1 .. Len(q[u]) - 1
               PROVE  x[i] = y[i]
    BY <1>3
  <2>1. i + 1 \in 1 .. Len(q[u])
    BY <1>1
  <2> QED
    BY <1>1, <1>3, <1>4, <1>5, <2>1
<1>7. x = y
  BY <1>3, <1>5, <1>6, SeqEqual
<1>8. \A v \in Users : v # u => PendingOf(r)[v] = PendingOf(q)[v]
  BY <1>2 DEF PendingOf
<1>9. PendingOf(r) = [PendingOf(q) EXCEPT ![u] = y]
  <2>1. /\ PendingOf(r) = [v \in Users |-> PendingOf(r)[v]]
        /\ PendingOf(q) = [v \in Users |-> PendingOf(q)[v]]
    BY DEF PendingOf
  <2> QED
    BY <1>7, <1>8, <2>1 DEF x
<1>10. Head(p) = Head(q[u]).w
  BY <1>1, <1>4, <1>5
<1> QED
  BY <1>9, <1>10 DEF r, a, y, p

\* A write has one batch, so its completion is found by the batch.
LEMMA WriteIdentifies ==
    ASSUME StoreInv, queue[user] # <<>>
    PROVE  LET b == Head(queue[user])
           IN  /\ b.w \in Writes
               /\ \A p \in callbacks : p[2].w = b.w => p = <<user, b>>
               /\ (<<user, b>> \in callbacks <=> b.w \in Waiting)
               /\ {p[2].w : p \in callbacks \ {<<user, b>>}} = Waiting \ {b.w}
<1> DEFINE b == Head(queue[user])
<1>1. user \in Users /\ callbacks \subseteq Users \X Batch
  BY DEF StoreInv
<1>2. b = queue[user][1] /\ 1 \in 1 .. Len(queue[user])
  BY <1>1, QueueFacts, TailFacts
<1>3. b.w \in Writes /\ b.w \in Nat /\ owner[b.w] = user
  BY <1>1, <1>2, QueueFacts
<1> HIDE DEF b
<1>4. ASSUME NEW p \in callbacks, p[2].w = b.w
      PROVE  p = <<user, b>>
  <2>1. p \in Users \X Batch /\ p[1] \in Users /\ p = <<p[1], p[2]>>
    BY <1>1
  <2>2. p[2] \in BatchesOf(queue[p[1]])
    BY DEF StoreInv
  <2>3. PICK i \in DOMAIN queue[p[1]] : queue[p[1]][i] = p[2]
    BY <2>2 DEF BatchesOf
  <2>4. i \in 1 .. Len(queue[p[1]])
    BY <2>1, QueueFacts
  <2>5. owner[p[2].w] = p[1]
    BY <2>1, <2>3, <2>4, QueueFacts
  <2>6. p[1] = user
    BY <1>3, <1>4, <2>5
  <2>7. i = 1
    <3>1. Increasing(queue[user]) /\ DOMAIN queue[user] = 1 .. Len(queue[user])
      BY <1>1, QueueFacts
    <3>2. 1 < i => queue[user][1].w < queue[user][i].w
      BY <1>2, <2>4, <2>6, <3>1 DEF Increasing
    <3> QED
      BY <1>2, <1>3, <1>4, <2>3, <2>4, <2>6, <3>2
  <2> QED
    BY <1>2, <2>1, <2>3, <2>6, <2>7
<1>5. <<user, b>> \in callbacks => b.w \in Waiting
  <2> SUFFICES ASSUME <<user, b>> \in callbacks
               PROVE  b.w \in Waiting
    OBVIOUS
  <2> DEFINE x == <<user, b>>
  <2>1. x[2].w = b.w /\ x \in callbacks
    OBVIOUS
  <2> HIDE DEF x
  <2> QED
    BY <2>1 DEF Waiting
<1>6. b.w \in Waiting => <<user, b>> \in callbacks
  BY <1>4 DEF Waiting
<1>7. {p[2].w : p \in callbacks \ {<<user, b>>}} = Waiting \ {b.w}
  <2> DEFINE x == <<user, b>>
  <2>1. \A p \in callbacks : p # x <=> p[2].w # b.w
    <3>1. x[2].w = b.w
      OBVIOUS
    <3> QED
      BY <1>4, <3>1
  <2> HIDE DEF x
  <2>2. {p[2].w : p \in callbacks \ {x}} = Waiting \ {b.w}
    BY <2>1 DEF Waiting
  <2> QED
    BY <2>2 DEF x
<1> QED
  BY <1>3, <1>4, <1>5, <1>6, <1>7 DEF b

\* Where the acknowledgements in flight end.
LEMMA CursorFacts ==
    ASSUME PipeInv
    PROVE  /\ Cursor \in Nat /\ Len(queue[user]) \in Nat
           /\ Cursor <= Len(queue[user])
<1>1. Len(queue[user]) \in Nat /\ Len(c.in) \in Nat /\ Len(c.pipeline) \in Nat
  BY InvFacts, LenProperties
<1>2. IsPrefix(c.pipeline, queue[user])
  BY InvFacts DEF PipelineOK
<1>3. Len(c.pipeline) <= Len(queue[user])
  BY <1>2, InvFacts, PrefixFacts
<1>4. c.handshake => Len(c.in) <= Len(c.pipeline)
  <2> SUFFICES ASSUME c.handshake
               PROVE  Len(c.in) <= Len(c.pipeline)
    OBVIOUS
  <2>1. IsPrefix(c.in, c.pipeline)
    BY InvFacts DEF CallOK
  <2> QED
    BY <2>1, InvFacts, PrefixFacts
<1> QED
  BY <1>1, <1>3, <1>4 DEF Cursor

\* What a step of the pipeline is to a reader of WriteQueue.
PromiseStep ==
    \/ WQ!Issue \/ WQ!Commit \/ WQ!Acknowledge \/ WQ!Reject
    \/ WQ!Lose \/ WQ!Crash
    \/ \E u \in Users : WQ!SwitchUser(u)
    \/ UNCHANGED WQ!vars

\* The front batch is settled, to a reader of WriteQueue.
LEMMA SettleFront ==
    ASSUME PipeInv, queue[user] # <<>>, NEW r,
           queue' = [queue EXCEPT ![user] = Tail(queue[user])],
           NotifyUser(Head(queue[user]), r)
    PROVE  /\ Pending[user] # <<>>
           /\ done' = WQ!Told(Head(Pending[user]), r)
           /\ Waiting' = Waiting \ {Head(Pending[user])}
           /\ Pending' = [Pending EXCEPT ![user] = Tail(Pending[user])]
<1> DEFINE b == Head(queue[user])
<1>1. StoreInv /\ user \in Users /\ queue \in [Users -> Seq(Batch)]
  BY InvFacts DEF StoreInv
<1>2. Pending = PendingOf(queue) /\ Pending' = PendingOf(queue')
  BY DEF Pending, PendingOf
<1>3. /\ Pending' = [Pending EXCEPT ![user] = Tail(Pending[user])]
      /\ Head(Pending[user]) = b.w
  BY <1>1, <1>2, PendingTail
<1>4. Pending[user] # <<>>
  BY <1>1, <1>2, PendingFacts
<1>5. /\ (<<user, b>> \in callbacks <=> b.w \in Waiting)
      /\ {p[2].w : p \in callbacks \ {<<user, b>>}} = Waiting \ {b.w}
  BY <1>1, WriteIdentifies
<1> HIDE DEF b
<1>6. /\ done' = IF <<user, b>> \in callbacks THEN [done EXCEPT ![b.w] = r]
                 ELSE done
      /\ callbacks' = callbacks \ {<<user, b>>}
  BY DEF NotifyUser, b
<1>7. Waiting' = Waiting \ {b.w}
  BY <1>5, <1>6 DEF Waiting
<1>8. done' = WQ!Told(b.w, r)
  BY <1>5, <1>6 DEF WQ!Told
<1> QED
  BY <1>3, <1>4, <1>7, <1>8

\* A step that leaves the queues alone and loses acknowledgements, or none.
LEMMA StreamStep ==
    ASSUME PipeInv, UNCHANGED queueVars, UNCHANGED <<committed, over>>,
           Cursor' = Cursor \/ Cursor' \in 0 .. Cursor
    PROVE  PromiseStep
<1>1. /\ owner' = owner /\ user' = user /\ committed' = committed
      /\ over' = over /\ done' = done /\ Pending' = Pending /\ Waiting' = Waiting
  BY DEF queueVars, Pending, Waiting
<1>2. CASE Cursor' = Cursor
  <2>1. UNCHANGED WQ!vars
    BY <1>1, <1>2 DEF WQ!vars
  <2> QED
    BY <2>1 DEF PromiseStep
<1>3. CASE Cursor' # Cursor
  <2>1. Cursor' \in 0 .. Cursor - 1
    BY <1>3, CursorFacts
  <2>2. WQ!Lose
    BY <1>1, <2>1 DEF WQ!Lose
  <2> QED
    BY <2>2 DEF PromiseStep
<1> QED
  BY <1>2, <1>3

\* Every step of the pipeline is one of WriteQueue.
LEMMA StepRefines ==
    ASSUME PipeInv, [Next]_vars
    PROVE  PromiseStep
<1>1. StoreInv /\ user \in Users /\ queue \in [Users -> Seq(Batch)]
  BY InvFacts DEF StoreInv
<1>2. Pending = PendingOf(queue) /\ Pending' = PendingOf(queue')
  BY DEF Pending, PendingOf
<1>3. CASE Write
  <2> DEFINE b == [id |-> nextId, w |-> Len(owner) + 1]
  <2>1. /\ Len(owner) < MaxWrites /\ owner' = Append(owner, user)
        /\ queue' = [queue EXCEPT ![user] = Append(queue[user], b)]
        /\ callbacks' = callbacks \cup {<<user, b>>}
        /\ user' = user /\ done' = done /\ committed' = committed /\ over' = over
    BY <1>3 DEF Write, serverVars
  <2>2. b \in Batch /\ b.w = Len(owner) + 1
    <3>1. /\ Len(owner) \in Nat /\ nextId \in Nat \ {0}
          /\ nextId <= Len(owner) + 1 /\ MaxWrites \in Nat
      BY <1>1, LenProperties, WritePipelineAssumption DEF StoreInv
    <3> QED
      BY <2>1, <3>1 DEF Batch, Writes
  <2> HIDE DEF b
  <2>3. Pending' = [Pending EXCEPT ![user] = Append(Pending[user], Len(owner) + 1)]
    <3>1. queue' = Joined(queue, user, b)
      BY <2>1 DEF Joined
    <3>2. PendingOf(queue') = Joined(PendingOf(queue), user, b.w)
      BY <1>1, <2>2, <3>1, PendingAppend
    <3> QED
      BY <1>2, <2>2, <3>2 DEF Joined
  <2>4. Waiting' = Waiting \cup {Len(owner) + 1}
    <3> DEFINE x == <<user, b>>
    <3>1. x[2].w = Len(owner) + 1 /\ callbacks' = callbacks \cup {x}
      BY <2>1, <2>2
    <3> HIDE DEF x
    <3> QED
      BY <3>1 DEF Waiting
  <2>5. Cursor' = Cursor
    BY <1>3, WriteKeeps
  <2>6. WQ!Issue
    BY <2>1, <2>3, <2>4, <2>5 DEF WQ!Issue
  <2> QED
    BY <2>6 DEF PromiseStep
<1>4. CASE MutationResult
  <2>1. c.pipeline # <<>> /\ IsPrefix(c.pipeline, queue[user])
    BY <1>4, InvFacts DEF MutationResult, PipelineOK
  <2>2. queue[user] # <<>> /\ Head(c.pipeline) = Head(queue[user])
    BY <2>1, InvFacts, TailPrefix
  <2>3. /\ queue' = [queue EXCEPT ![user] = Tail(queue[user])]
        /\ NotifyUser(Head(queue[user]), "ok")
    BY <1>1, <1>4, <2>2, RemoveFront DEF MutationResult
  <2>4. /\ Pending[user] # <<>>
        /\ done' = WQ!Told(Head(Pending[user]), "ok")
        /\ Waiting' = Waiting \ {Head(Pending[user])}
        /\ Pending' = [Pending EXCEPT ![user] = Tail(Pending[user])]
    BY <2>2, <2>3, SettleFront
  <2>5. Cursor > 0 /\ Cursor' = Cursor - 1
    BY <1>4, MutationResultKeeps
  <2>6. UNCHANGED <<owner, user, committed, over>>
    BY <1>4 DEF MutationResult, serverVars
  <2>7. WQ!Acknowledge
    BY <2>4, <2>5, <2>6 DEF WQ!Acknowledge
  <2> QED
    BY <2>7 DEF PromiseStep
<1>5. CASE StreamFinish
  <2>1. Cursor' = 0 /\ UNCHANGED <<owner, user, committed, over>>
    BY <1>5, StreamFinishKeeps DEF StreamFinish, serverVars
  <2>2. CASE RejectsFront(c, c.status)
    <3>1. c.pipeline # <<>> /\ IsPrefix(c.pipeline, queue[user])
      BY <2>2, InvFacts DEF RejectsFront, PipelineOK
    <3>2. queue[user] # <<>> /\ Head(c.pipeline) = Head(queue[user])
      BY <3>1, InvFacts, TailPrefix
    <3>3. /\ queue' = [queue EXCEPT ![user] = Tail(queue[user])]
          /\ NotifyUser(Head(queue[user]), "error")
      BY <1>1, <1>5, <2>2, <3>2, RemoveFront DEF StreamFinish
    <3>4. /\ Pending[user] # <<>>
          /\ done' = WQ!Told(Head(Pending[user]), "error")
          /\ Waiting' = Waiting \ {Head(Pending[user])}
          /\ Pending' = [Pending EXCEPT ![user] = Tail(Pending[user])]
      BY <3>2, <3>3, SettleFront
    <3>5. /\ Cursor = 0 \/ (WriteRace /\ Cursor = 1)
          /\ Cursor < Len(Pending[user])
      BY <1>1, <1>2, <1>5, <2>2, RejectedFront, PendingFacts
    <3>6. WQ!Reject
      BY <2>1, <3>4, <3>5 DEF WQ!Reject
    <3> QED
      BY <3>6 DEF PromiseStep
  <2>3. CASE ~RejectsFront(c, c.status)
    <3>1. UNCHANGED queueVars /\ UNCHANGED <<committed, over>>
      BY <1>5, <2>3 DEF StreamFinish, queueVars, serverVars
    <3>2. Cursor' \in 0 .. Cursor
      BY <2>1, CursorFacts
    <3> QED
      BY <3>1, <3>2, StreamStep
  <2> QED
    BY <2>2, <2>3
<1>6. ASSUME NEW n \in c.creds, NEW ok \in BOOLEAN, Credentials(n, ok)
      PROVE  PromiseStep
  <2>1. Cursor' = Cursor
    BY <1>6, CredentialsKeeps
  <2> QED
    BY <1>6, <2>1, StreamStep DEF Credentials, serverVars
<1>7. CASE HandshakeComplete
  BY <1>7, HandshakeCompleteKeeps, StreamStep DEF HandshakeComplete, serverVars
<1>8. CASE BackoffElapsed
  BY <1>8, BackoffElapsedKeeps, StreamStep DEF BackoffElapsed, serverVars
<1>9. CASE HealthCheck
  BY <1>9, HealthCheckKeeps, StreamStep DEF HealthCheck, serverVars
<1>10. CASE IdleTimeout
  <2>1. Cursor' \in 0 .. Cursor
    BY <1>10, IdleTimeoutKeeps, CursorFacts
  <2> QED
    BY <1>10, <2>1, StreamStep DEF IdleTimeout, serverVars
<1>11. CASE RestartNetwork
  <2>1. Cursor' \in 0 .. Cursor
    BY <1>11, RestartNetworkKeeps, CursorFacts
  <2> QED
    BY <1>11, <2>1, StreamStep DEF RestartNetwork, serverVars
<1>12. CASE Break
  BY <1>12, BreakKeeps, StreamStep DEF Break, serverVars
<1>13. CASE ServerHandshake
  BY <1>13, ServerHandshakeKeeps, StreamStep DEF ServerHandshake, serverVars
<1>14. CASE ServerRefuse
  BY <1>14, ServerRefuseKeeps, StreamStep DEF ServerRefuse
<1>15. CASE ServerCommit
  <2> DEFINE w == Head(c.out).w
  <2>1. /\ Cursor' = Cursor + 1 /\ Cursor \in Nat /\ Cursor < Len(queue[user])
        /\ Head(c.out) = queue[user][Cursor + 1]
    BY <1>15, ServerCommitKeeps
  <2>2. Cursor + 1 \in 1 .. Len(queue[user]) /\ Len(queue[user]) \in Nat
    BY <2>1, CursorFacts
  <2>3. Cursor < Len(Pending[user]) /\ Pending[user][Cursor + 1] = w
    BY <1>1, <1>2, <2>1, <2>2, PendingFacts
  <2>4. /\ over' = {p \in over : p[1] # w} \cup ((committed \ {w}) \X {w})
        /\ committed' = committed \cup {w} /\ UNCHANGED queueVars
    BY <1>15 DEF ServerCommit
  <2> HIDE DEF w
  <2>5. /\ owner' = owner /\ user' = user /\ done' = done
        /\ Pending' = Pending /\ Waiting' = Waiting
    BY <2>4 DEF queueVars, Pending, Waiting
  <2>6. WQ!Commit
    BY <2>1, <2>3, <2>4, <2>5 DEF WQ!Commit, WQ!Overwrite
  <2> QED
    BY <2>6 DEF PromiseStep
<1>16. ASSUME NEW u \in Users, CredentialChange(u)
       PROVE  PromiseStep
  <2>1. /\ user' = u /\ owner' = owner /\ committed' = committed /\ over' = over
        /\ done' = done /\ queue' = queue /\ callbacks' = callbacks
    BY <1>16 DEF CredentialChange, serverVars
  <2>2. Cursor' = 0
    BY <1>16, CredentialChangeKeeps
  <2>3. WQ!SwitchUser(u)
    BY <2>1, <2>2 DEF WQ!SwitchUser, Pending, Waiting
  <2> QED
    BY <2>3 DEF PromiseStep
<1>17. CASE Kill \/ KillInResult
  <2>1. Cursor' = 0
    BY <1>17, KillKeeps
  <2>2. /\ callbacks' = {} /\ owner' = owner /\ queue' = queue /\ user' = user
        /\ committed' = committed /\ over' = over
    BY <1>17 DEF Kill, KillInResult, Relaunch, serverVars
  <2>3. Waiting' = {} /\ Pending' = Pending
    BY <2>2 DEF Waiting, Pending
  <2>4. \/ done' = done
        \/ Cursor > 0 /\ done' = WQ!Told(Head(Pending[user]), "ok")
    <3>1. CASE Kill
      BY <3>1 DEF Kill
    <3>2. CASE KillInResult
      <4>1. /\ c.in # <<>> /\ c.handshake /\ c.pipeline # <<>>
            /\ IsPrefix(c.pipeline, queue[user])
        BY <3>2, InvFacts DEF KillInResult, PipelineOK
      <4>2. queue[user] # <<>> /\ Head(c.pipeline) = Head(queue[user])
        BY <4>1, InvFacts, TailPrefix
      <4> DEFINE b == Head(queue[user])
      <4>3. done' = IF <<user, b>> \in callbacks THEN [done EXCEPT ![b.w] = "ok"]
                    ELSE done
        BY <3>2, <4>2 DEF KillInResult
      <4>4. (<<user, b>> \in callbacks <=> b.w \in Waiting)
        BY <1>1, <4>2, WriteIdentifies
      <4>5. Head(Pending[user]) = b.w
        BY <1>1, <1>2, <4>2, PendingTail
      <4> HIDE DEF b
      <4>6. done' = WQ!Told(Head(Pending[user]), "ok")
        BY <4>3, <4>4, <4>5 DEF WQ!Told
      <4>7. Len(c.in) \in Nat \ {0}
        BY <4>1, InvFacts, TailFacts
      <4>8. Cursor > 0
        BY <4>1, <4>7 DEF Cursor
      <4> QED
        BY <4>6, <4>8
    <3> QED
      BY <1>17, <3>1, <3>2
  <2>5. WQ!Crash
    BY <2>1, <2>2, <2>3, <2>4 DEF WQ!Crash
  <2> QED
    BY <2>5 DEF PromiseStep
<1>18. CASE UNCHANGED vars
  BY <1>18, StreamStep DEF vars, queueVars, Cursor
<1> QED
  BY <1>3, <1>4, <1>5, <1>6, <1>7, <1>8, <1>9, <1>10, <1>11, <1>12, <1>13,
     <1>14, <1>15, <1>16, <1>17, <1>18
     DEF Next, ClientStep, ServerStep, Disturbance

\* The initial state is one of WriteQueue.
LEMMA InitRefines ==
    ASSUME Init
    PROVE  WQ!Init
<1>1. PipeInv
  BY PipeInvInit
<1>2. \A u \in Users : queue[u] = <<>> /\ DOMAIN queue[u] = {}
  BY EmptySeq DEF Init
<1>3. Pending = [u \in Users |-> <<>>]
  <2>1. \A u \in Users : Pending[u] = <<>>
    BY <1>1, <1>2, InvFacts, PendingFacts DEF Pending, PendingOf, StoreInv
  <2> QED
    BY <2>1 DEF Pending
<1>4. Waiting = {}
  BY DEF Init, Waiting
<1>5. Cursor = 0
  <2>1. queue[user] = <<>> /\ user \in Users
    BY <1>2 DEF Init
  <2> QED
    BY <1>1, <2>1, CursorFacts, EmptySeq
<1> QED
  BY <1>3, <1>4, <1>5 DEF Init, WQ!Init, Writes, WQ!Writes

\* The pipeline implements WriteQueue: the writes of a user reach the server in
\* the order of issue, stay queued across restarts until they are settled, and
\* only the oldest one is ever given up, once every acknowledgement before the
\* refused write is read, or all but one if a failed Write can overtake it.
THEOREM PipelineKeepsPromise == Spec => KeepsPromise
<1>1. Init => WQ!Init
  BY InitRefines
<1>2. PipeInv /\ [Next]_vars => [WQ!Next]_(WQ!vars)
  BY StepRefines DEF PromiseStep, WQ!Next
<1> QED
  BY <1>1, <1>2, PipeInvariant, PTL DEF Spec, KeepsPromise, WQ!Spec

-----------------------------------------------------------------------------
(* Acknowledged writes *)

\* The pending writes of one user.
LEMMA OrderedFacts ==
    ASSUME NEW o, NEW p, Ordered(o, p), NEW u \in Users
    PROVE  /\ o \in Seq(Users) /\ Len(o) \in Nat /\ DOMAIN o = 1 .. Len(o)
           /\ p[u] \in Seq(Writes) /\ Len(p[u]) \in Nat
           /\ DOMAIN p[u] = 1 .. Len(p[u])
           /\ \A i \in 1 .. Len(p[u]) : /\ p[u][i] \in 1 .. Len(o)
                                        /\ p[u][i] \in Writes /\ p[u][i] \in Nat
                                        /\ o[p[u][i]] = u
           /\ \A i, j \in 1 .. Len(p[u]) : i < j => p[u][i] < p[u][j]
<1>1. /\ o \in Seq(Users) /\ Len(o) \in Nat /\ DOMAIN o = 1 .. Len(o)
      /\ p[u] \in Seq(Writes) /\ Len(p[u]) \in Nat
      /\ DOMAIN p[u] = 1 .. Len(p[u])
  BY LenProperties DEF Ordered
<1>2. \A i \in 1 .. Len(p[u]) : p[u][i] \in 1 .. Len(o) /\ o[p[u][i]] = u
  BY <1>1 DEF Ordered
<1>3. \A i \in 1 .. Len(p[u]) : p[u][i] \in Nat
  BY <1>1, <1>2
<1>4. \A i \in 1 .. Len(p[u]) : p[u][i] \in Writes
  BY <1>1, ElementOfSeq
<1>5. \A i, j \in 1 .. Len(p[u]) : i < j => p[u][i] < p[u][j]
  BY <1>1 DEF Ordered
<1> QED
  BY <1>1, <1>2, <1>3, <1>4, <1>5

\* A pending write has one place.
LEMMA OrderedUnique ==
    ASSUME NEW o, NEW p, Ordered(o, p), NEW u \in Users, NEW v \in Users,
           NEW i \in 1 .. Len(p[u]), NEW j \in 1 .. Len(p[v]),
           p[u][i] = p[v][j]
    PROVE  u = v /\ i = j
<1>1. u = v
  BY OrderedFacts
<1>2. ~(i < j) /\ ~(j < i)
  BY <1>1, OrderedFacts
<1>3. i \in Nat /\ j \in Nat
  BY OrderedFacts
<1> QED
  BY <1>1, <1>2, <1>3

\* A write is issued.
LEMMA AckIssue ==
    ASSUME NEW o, NEW p, NEW u \in Users, NEW k, NEW cm, NEW ov, NEW d,
           Ordered(o, p), Acks(o, p, u, k, cm, ov, d), Len(o) < MaxWrites,
           k \in Nat, k <= Len(p[u])
    PROVE  Acks(Append(o, u), Joined(p, u, Len(o) + 1), u, k, cm, ov, d)
<1> DEFINE n == Len(o) + 1
           o2 == Append(o, u)
           a == Append(p[u], n)
           p2 == [p EXCEPT ![u] = a]
<1>1. Len(o) \in Nat /\ n \in Writes /\ MaxWrites \in Nat
  BY OrderedFacts, WritePipelineAssumption DEF Writes
<1>2. /\ o2 \in Seq(Users) /\ Len(o2) = n /\ o2[n] = u
      /\ \A w \in 1 .. Len(o) : o2[w] = o[w]
  BY <1>1, OrderedFacts, AppendProperties
<1>3. /\ a \in Seq(Writes) /\ Len(a) = Len(p[u]) + 1 /\ a[Len(p[u]) + 1] = n
      /\ \A i \in 1 .. Len(p[u]) : a[i] = p[u][i]
  BY <1>1, OrderedFacts, AppendProperties
<1>4. DOMAIN a = 1 .. Len(p[u]) + 1
  <2> HIDE DEF a
  <2> QED
    BY <1>3, LenProperties
<1> HIDE DEF o2, a
<1>5. p2[u] = a /\ \A v \in Users : v # u => p2[v] = p[v]
  BY DEF Ordered
<1> HIDE DEF p2
<1>6. ASSUME NEW v \in Users, NEW i \in DOMAIN p2[v]
      PROVE  \/ i \in 1 .. Len(p[v]) /\ p2[v][i] = p[v][i]
             \/ v = u /\ i = Len(p[u]) + 1 /\ p2[v][i] = n
  <2>1. CASE v # u
    BY <1>5, <2>1, OrderedFacts
  <2>2. CASE v = u
    <3>1. i \in 1 .. Len(p[u]) \/ i = Len(p[u]) + 1
      BY <1>4, <1>5, <2>2, OrderedFacts
    <3> QED
      BY <1>3, <1>5, <2>2, <3>1
  <2> QED
    BY <2>1, <2>2
<1>7. ASSUME NEW v \in Users, NEW i \in 1 .. Len(p[v])
      PROVE  i \in DOMAIN p2[v] /\ p2[v][i] = p[v][i] /\ i \in DOMAIN p[v]
  <2>1. CASE v # u
    BY <1>5, <2>1, OrderedFacts
  <2>2. CASE v = u
    BY <1>3, <1>4, <1>5, <2>2, OrderedFacts
  <2> QED
    BY <2>1, <2>2
<1> HIDE DEF n
<1>8. SuffixOK(o2, p2)
  <2> SUFFICES ASSUME NEW v \in Users, NEW i \in DOMAIN p2[v],
                      NEW w \in 1 .. Len(o2), o2[w] = v, w >= p2[v][i]
               PROVE  \E j \in DOMAIN p2[v] : p2[v][j] = w
    BY DEF SuffixOK
  <2>1. CASE w = n
    <3>1. v = u
      BY <1>2, <2>1
    <3>2. Len(p[u]) + 1 \in DOMAIN p2[u] /\ p2[u][Len(p[u]) + 1] = n
      BY <1>3, <1>4, <1>5, OrderedFacts
    <3> QED
      BY <2>1, <3>1, <3>2
  <2>2. CASE w # n
    <3>1. w \in 1 .. Len(o) /\ w < n
      BY <1>1, <1>2, <2>2 DEF n
    <3>2. o[w] = v
      BY <1>2, <3>1
    <3>3. i \in 1 .. Len(p[v]) /\ p2[v][i] = p[v][i]
      BY <1>1, <1>6, <3>1 DEF n
    <3>4. i \in DOMAIN p[v] /\ w >= p[v][i]
      BY <1>7, <3>3
    <3>5. PICK j \in DOMAIN p[v] : p[v][j] = w
      BY <3>1, <3>2, <3>4 DEF Acks, SuffixOK
    <3>6. j \in 1 .. Len(p[v])
      BY OrderedFacts
    <3> QED
      BY <1>7, <3>5, <3>6
  <2> QED
    BY <2>1, <2>2
<1>9. ToldOK(p2, d)
  <2> SUFFICES ASSUME NEW v \in Users, NEW j \in DOMAIN p2[v],
                      d[p2[v][j]] = "ok"
               PROVE  j = 1
    BY DEF ToldOK
  <2>1. CASE p2[v][j] = n
    <3>1. n <= Len(o)
      BY <1>1, <2>1 DEF Acks
    <3> QED
      BY <1>1, <3>1 DEF n
  <2>2. CASE p2[v][j] # n
    <3>1. j \in 1 .. Len(p[v]) /\ p2[v][j] = p[v][j]
      BY <1>6, <2>2
    <3>2. j \in DOMAIN p[v]
      BY <1>7, <3>1
    <3> QED
      BY <3>1, <3>2 DEF Acks, ToldOK
  <2> QED
    BY <2>1, <2>2
<1>10. OverOK(o2, p2, u, k, ov, d)
  <2> SUFFICES ASSUME NEW x \in ov, x[2] < x[1], o2[x[2]] = o2[x[1]]
               PROVE  /\ d[x[1]] # "ok"
                      /\ o2[x[1]] = u =>
                            \A j \in DOMAIN p2[u] : p2[u][j] = x[1] => j > k
    BY DEF OverOK
  <2>1. x[1] \in 1 .. Len(o) /\ x[2] \in 1 .. Len(o)
    BY DEF Acks
  <2>2. o[x[2]] = o[x[1]] /\ o2[x[1]] = o[x[1]]
    BY <1>2, <2>1
  <2>3. /\ d[x[1]] # "ok"
        /\ o[x[1]] = u => \A j \in DOMAIN p[u] : p[u][j] = x[1] => j > k
    BY <2>2 DEF Acks, OverOK
  <2>4. ASSUME o2[x[1]] = u, NEW j \in DOMAIN p2[u], p2[u][j] = x[1]
        PROVE  j > k
    <3>1. x[1] # n
      BY <1>1, <2>1 DEF n
    <3>2. j \in 1 .. Len(p[u]) /\ p[u][j] = x[1]
      BY <1>6, <2>4, <3>1
    <3>3. j \in DOMAIN p[u]
      BY <1>7, <3>2
    <3> QED
      BY <2>2, <2>3, <2>4, <3>2, <3>3
  <2> QED
    BY <2>3, <2>4
<1>11. /\ cm \subseteq 1 .. Len(o2)
       /\ ov \subseteq (1 .. Len(o2)) \X (1 .. Len(o2))
       /\ \A w \in Writes : d[w] = "ok" => w <= Len(o2)
  <2>1. 1 .. Len(o) \subseteq 1 .. Len(o2)
    BY <1>1, <1>2 DEF n
  <2>2. /\ cm \subseteq 1 .. Len(o) /\ ov \subseteq (1 .. Len(o)) \X (1 .. Len(o))
        /\ \A w \in Writes : d[w] = "ok" => w <= Len(o)
    BY DEF Acks
  <2>3. \A w \in Writes : d[w] = "ok" => w <= Len(o2)
    BY <1>1, <1>2, <2>2 DEF n, Writes
  <2>4. cm \subseteq 1 .. Len(o2)
    BY <2>1, <2>2
  <2>5. ov \subseteq (1 .. Len(o2)) \X (1 .. Len(o2))
    BY <2>1, <2>2
  <2> QED
    BY <2>3, <2>4, <2>5
<1> QED
  BY <1>8, <1>9, <1>10, <1>11 DEF Acks, Joined, o2, p2, a, n

\* The server commits the next write, perhaps again: what it is committed over
\* is still pending behind it.
LEMMA AckCommit ==
    ASSUME NEW o, NEW p, NEW u \in Users, NEW k, NEW cm, NEW ov, NEW d,
           Ordered(o, p), Acks(o, p, u, k, cm, ov, d),
           k \in Nat, k < Len(p[u]), NEW w, w = p[u][k + 1]
    PROVE  Acks(o, p, u, k + 1, cm \cup {w},
                {x \in ov : x[1] # w} \cup ((cm \ {w}) \X {w}), d)
<1> DEFINE ov2 == {x \in ov : x[1] # w} \cup ((cm \ {w}) \X {w})
<1>1. k + 1 \in 1 .. Len(p[u]) /\ Len(p[u]) \in Nat
  BY OrderedFacts
<1>2. w \in 1 .. Len(o) /\ w \in Nat /\ o[w] = u
  BY <1>1, OrderedFacts
<1>3. /\ cm \subseteq 1 .. Len(o) /\ ov \subseteq (1 .. Len(o)) \X (1 .. Len(o))
      /\ SuffixOK(o, p) /\ ToldOK(p, d) /\ OverOK(o, p, u, k, ov, d)
      /\ \A y \in Writes : d[y] = "ok" => y <= Len(o)
  BY DEF Acks
<1>4. ov2 \subseteq (1 .. Len(o)) \X (1 .. Len(o)) /\ cm \cup {w} \subseteq 1 .. Len(o)
  <2>1. (cm \ {w}) \X {w} \subseteq (1 .. Len(o)) \X (1 .. Len(o))
    BY <1>2, <1>3
  <2> QED
    BY <1>2, <1>3, <2>1
<1>5. OverOK(o, p, u, k + 1, ov2, d)
  <2> SUFFICES ASSUME NEW x \in ov2, x[2] < x[1], o[x[2]] = o[x[1]]
               PROVE  /\ d[x[1]] # "ok"
                      /\ o[x[1]] = u =>
                            \A j \in DOMAIN p[u] : p[u][j] = x[1] => j > k + 1
    BY DEF OverOK
  <2>1. CASE x \in ov /\ x[1] # w
    <3>1. /\ d[x[1]] # "ok"
          /\ o[x[1]] = u => \A j \in DOMAIN p[u] : p[u][j] = x[1] => j > k
      BY <1>3, <2>1 DEF OverOK
    <3>2. ASSUME o[x[1]] = u, NEW j \in DOMAIN p[u], p[u][j] = x[1]
          PROVE  j > k + 1
      <4>1. j > k /\ j # k + 1 /\ j \in Nat
        BY <2>1, <3>1, <3>2, OrderedFacts
      <4> QED
        BY <4>1
    <3> QED
      BY <3>1, <3>2
  <2>2. CASE x \in (cm \ {w}) \X {w}
    <3> DEFINE y == x[1]
    <3>1. x[2] = w /\ y \in 1 .. Len(o) /\ y \in Nat /\ w < y /\ o[y] = u
      <4>1. y \in cm /\ x[2] = w
        BY <2>2
      <4>2. y \in 1 .. Len(o) /\ Len(o) \in Nat
        BY <1>3, <4>1, OrderedFacts
      <4>3. w < y /\ o[y] = u
        BY <1>2, <4>1
      <4> HIDE DEF y
      <4> QED
        BY <4>1, <4>2, <4>3
    <3> HIDE DEF y
    <3>2. ASSUME NEW j \in DOMAIN p[u], p[u][j] = y
          PROVE  j > k + 1
      <4>1. j \in 1 .. Len(p[u]) /\ j # k + 1 /\ ~(j < k + 1)
        BY <1>1, <1>2, <3>1, <3>2, OrderedFacts
      <4> QED
        BY <4>1
    <3>3. d[y] # "ok"
      <4>1. k + 1 \in DOMAIN p[u] /\ y >= p[u][k + 1]
        BY <1>1, <1>2, <3>1, OrderedFacts
      <4>2. PICK j \in DOMAIN p[u] : p[u][j] = y
        BY <1>3, <3>1, <4>1 DEF SuffixOK
      <4>3. j # 1
        BY <3>2, <4>2
      <4> QED
        BY <1>3, <4>2, <4>3 DEF ToldOK
    <3> QED
      BY <3>2, <3>3 DEF y
  <2> QED
    BY <2>1, <2>2
<1> QED
  BY <1>3, <1>4, <1>5 DEF Acks

\* The completion of the oldest pending write runs, if it still waits; one
\* told "ok" has a committed write, acknowledged before anything is committed
\* over it.
LEMMA AckTold ==
    ASSUME NEW o, NEW p, NEW u \in Users, NEW k, NEW cm, NEW ov, NEW d, NEW e,
           Ordered(o, p), Acks(o, p, u, k, cm, ov, d), k \in Nat,
           d \in [Writes -> {"none", "ok", "error"}], p[u] # <<>>,
           NEW r \in {"ok", "error"}, r = "ok" => k > 0,
           e = d \/ e = [d EXCEPT ![Head(p[u])] = r]
    PROVE  Acks(o, p, u, k, cm, ov, e)
<1> DEFINE h == Head(p[u])
<1>1. /\ 1 \in 1 .. Len(p[u]) /\ h = p[u][1] /\ p[u] \in Seq(Writes)
      /\ Len(p[u]) \in Nat /\ DOMAIN p[u] = 1 .. Len(p[u])
  BY OrderedFacts, TailFacts
<1>2. h \in Writes /\ h \in 1 .. Len(o) /\ o[h] = u
  BY <1>1, OrderedFacts
<1>3. /\ SuffixOK(o, p) /\ ToldOK(p, d) /\ OverOK(o, p, u, k, ov, d)
      /\ cm \subseteq 1 .. Len(o) /\ ov \subseteq (1 .. Len(o)) \X (1 .. Len(o))
      /\ \A y \in Writes : d[y] = "ok" => y <= Len(o)
  BY DEF Acks
<1> HIDE DEF h
<1>4. \A y \in Writes : e[y] = "ok" => d[y] = "ok" \/ (y = h /\ r = "ok")
  BY <1>2 DEF h
<1>5. ToldOK(p, e)
  <2> SUFFICES ASSUME NEW v \in Users, NEW j \in DOMAIN p[v], e[p[v][j]] = "ok"
               PROVE  j = 1
    BY DEF ToldOK
  <2>1. j \in 1 .. Len(p[v]) /\ p[v][j] \in Writes
    BY OrderedFacts
  <2>2. CASE d[p[v][j]] = "ok"
    BY <1>3, <2>2 DEF ToldOK
  <2>3. CASE p[v][j] = h
    BY <1>1, <2>1, <2>3, OrderedUnique
  <2> QED
    BY <1>4, <2>1, <2>2, <2>3
<1>6. OverOK(o, p, u, k, ov, e)
  <2> SUFFICES ASSUME NEW x \in ov, x[2] < x[1], o[x[2]] = o[x[1]]
               PROVE  e[x[1]] # "ok"
    BY <1>3 DEF OverOK
  <2>1. /\ d[x[1]] # "ok"
        /\ o[x[1]] = u => \A j \in DOMAIN p[u] : p[u][j] = x[1] => j > k
    BY <1>3 DEF OverOK
  <2>2. x[1] \in 1 .. Len(o) /\ x[1] \in Writes
    <3>1. x[1] \in 1 .. Len(o)
      BY <1>3
    <3>2. Len(o) \in Nat /\ Len(o) <= MaxWrites
      BY OrderedFacts DEF Ordered
    <3> QED
      BY <3>1, <3>2, WritePipelineAssumption DEF Writes
  <2>3. ~(x[1] = h /\ r = "ok")
    <3> SUFFICES ASSUME x[1] = h, r = "ok"
                 PROVE  FALSE
      OBVIOUS
    <3>1. 1 > k
      BY <1>1, <1>2, <2>1
    <3> QED
      BY <3>1
  <2> QED
    BY <1>4, <2>1, <2>2, <2>3
<1>7. \A y \in Writes : e[y] = "ok" => y <= Len(o)
  <2>1. h <= Len(o)
    BY <1>2
  <2> QED
    BY <1>3, <1>4, <2>1
<1> QED
  BY <1>3, <1>5, <1>6, <1>7 DEF Acks

\* Acknowledgements are lost, or another user's queue is sent.
LEMMA AckLost ==
    ASSUME NEW o, NEW p, NEW u \in Users, NEW k, NEW cm, NEW ov, NEW d,
           NEW v \in Users, NEW l,
           Ordered(o, p), Acks(o, p, u, k, cm, ov, d),
           k \in Nat, l \in Nat, l = 0 \/ (v = u /\ l <= k)
    PROVE  Acks(o, p, v, l, cm, ov, d)
<1>1. OverOK(o, p, v, l, ov, d)
  <2> SUFFICES ASSUME NEW x \in ov, x[2] < x[1], o[x[2]] = o[x[1]]
               PROVE  /\ d[x[1]] # "ok"
                      /\ o[x[1]] = v =>
                            \A j \in DOMAIN p[v] : p[v][j] = x[1] => j > l
    BY DEF OverOK
  <2>1. /\ d[x[1]] # "ok"
        /\ o[x[1]] = u => \A j \in DOMAIN p[u] : p[u][j] = x[1] => j > k
    BY DEF Acks, OverOK
  <2>2. ASSUME o[x[1]] = v, NEW j \in DOMAIN p[v], p[v][j] = x[1]
        PROVE  j > l
    <3>1. j \in Nat /\ j >= 1
      BY OrderedFacts
    <3>2. CASE l = 0
      BY <3>1, <3>2
    <3>3. CASE v = u /\ l <= k
      <4>1. j > k
        BY <2>1, <2>2, <3>3
      <4> QED
        BY <3>1, <3>3, <4>1
    <3> QED
      BY <3>2, <3>3
  <2> QED
    BY <2>1, <2>2
<1> QED
  BY <1>1 DEF Acks

\* The oldest pending write is settled.
LEMMA AckSettle ==
    ASSUME NEW o, NEW p, NEW u \in Users, NEW k, NEW cm, NEW ov, NEW d,
           NEW l, Ordered(o, p), Acks(o, p, u, k, cm, ov, d), p[u] # <<>>,
           k \in Nat, l \in Nat, l = 0 \/ l = k - 1
    PROVE  Acks(o, [p EXCEPT ![u] = Tail(p[u])], u, l, cm, ov, d)
<1> DEFINE t == Tail(p[u])
           p2 == [p EXCEPT ![u] = t]
<1>1. /\ p[u] \in Seq(Writes) /\ Len(p[u]) \in Nat \ {0}
      /\ DOMAIN t = 1 .. Len(p[u]) - 1
      /\ \A i \in 1 .. Len(p[u]) - 1 : t[i] = p[u][i + 1]
  BY OrderedFacts, TailFacts
<1> HIDE DEF t
<1>2. p2[u] = t /\ \A v \in Users : v # u => p2[v] = p[v]
  BY DEF Ordered
<1> HIDE DEF p2
<1>3. ASSUME NEW v \in Users, NEW i \in DOMAIN p2[v]
      PROVE  \/ v # u /\ i \in 1 .. Len(p[v]) /\ p2[v][i] = p[v][i]
             \/ /\ v = u /\ i \in Nat /\ i >= 1 /\ i + 1 \in 1 .. Len(p[u])
                /\ p2[v][i] = p[u][i + 1]
  <2>1. CASE v # u
    BY <1>2, <2>1, OrderedFacts
  <2>2. CASE v = u
    <3>1. i \in 1 .. Len(p[u]) - 1
      BY <1>1, <1>2, <2>2
    <3>2. i \in Nat /\ i >= 1 /\ i + 1 \in 1 .. Len(p[u])
      BY <1>1, <3>1
    <3>3. p2[v][i] = p[u][i + 1]
      BY <1>1, <1>2, <2>2, <3>1
    <3> QED
      BY <2>2, <3>2, <3>3
  <2> QED
    BY <2>1, <2>2
<1>4. /\ cm \subseteq 1 .. Len(o) /\ ov \subseteq (1 .. Len(o)) \X (1 .. Len(o))
      /\ SuffixOK(o, p) /\ ToldOK(p, d) /\ OverOK(o, p, u, k, ov, d)
      /\ \A y \in Writes : d[y] = "ok" => y <= Len(o)
  BY DEF Acks
<1>5. SuffixOK(o, p2)
  <2> SUFFICES ASSUME NEW v \in Users, NEW i \in DOMAIN p2[v],
                      NEW w \in 1 .. Len(o), o[w] = v, w >= p2[v][i]
               PROVE  \E j \in DOMAIN p2[v] : p2[v][j] = w
    BY DEF SuffixOK
  <2>1. CASE v # u
    BY <1>2, <1>4, <2>1 DEF SuffixOK
  <2>2. CASE v = u
    <3>1. /\ i \in Nat /\ i >= 1 /\ i + 1 \in 1 .. Len(p[u])
          /\ p2[v][i] = p[u][i + 1]
      BY <1>3, <2>2
    <3>2. i + 1 \in DOMAIN p[u]
      BY <3>1, OrderedFacts
    <3>3. PICK j \in DOMAIN p[u] : p[u][j] = w
      BY <1>4, <2>2, <3>1, <3>2 DEF SuffixOK
    <3>4. j \in 1 .. Len(p[u]) /\ 1 \in 1 .. Len(p[u])
      BY <1>1, OrderedFacts
    <3>5. p[u][1] < p[u][i + 1] /\ p[u][1] \in Nat /\ p[u][i + 1] \in Nat
      BY <3>1, <3>4, OrderedFacts
    <3>6. j # 1 /\ w \in Nat
      BY <3>1, <3>3, <3>5, OrderedFacts
    <3>7. j - 1 \in 1 .. Len(p[u]) - 1 /\ (j - 1) + 1 = j
      BY <1>1, <3>4, <3>6
    <3> QED
      BY <1>1, <1>2, <2>2, <3>3, <3>7
  <2> QED
    BY <2>1, <2>2
<1>6. ToldOK(p2, d)
  <2> SUFFICES ASSUME NEW v \in Users, NEW j \in DOMAIN p2[v],
                      d[p2[v][j]] = "ok"
               PROVE  j = 1
    BY DEF ToldOK
  <2>1. CASE v # u
    BY <1>2, <1>4, <2>1 DEF ToldOK
  <2>2. CASE v = u
    <3>1. /\ j \in Nat /\ j >= 1 /\ j + 1 \in 1 .. Len(p[u])
          /\ p2[v][j] = p[u][j + 1]
      BY <1>3, <2>2
    <3>2. j + 1 \in DOMAIN p[u]
      BY <3>1, OrderedFacts
    <3>3. j + 1 = 1
      BY <1>4, <3>1, <3>2 DEF ToldOK
    <3> QED
      BY <3>1, <3>3
  <2> QED
    BY <2>1, <2>2
<1>7. OverOK(o, p2, u, l, ov, d)
  <2> SUFFICES ASSUME NEW x \in ov, x[2] < x[1], o[x[2]] = o[x[1]]
               PROVE  /\ d[x[1]] # "ok"
                      /\ o[x[1]] = u =>
                            \A j \in DOMAIN p2[u] : p2[u][j] = x[1] => j > l
    BY DEF OverOK
  <2>1. /\ d[x[1]] # "ok"
        /\ o[x[1]] = u => \A j \in DOMAIN p[u] : p[u][j] = x[1] => j > k
    BY <1>4 DEF OverOK
  <2>2. ASSUME o[x[1]] = u, NEW j \in DOMAIN p2[u], p2[u][j] = x[1]
        PROVE  j > l
    <3>1. /\ j \in Nat /\ j >= 1 /\ j + 1 \in 1 .. Len(p[u])
          /\ p2[u][j] = p[u][j + 1]
      BY <1>3
    <3>2. j + 1 \in DOMAIN p[u]
      BY <3>1, OrderedFacts
    <3>3. j + 1 > k
      BY <2>1, <2>2, <3>1, <3>2
    <3> QED
      BY <3>1, <3>3
  <2> QED
    BY <2>1, <2>2
<1> QED
  BY <1>4, <1>5, <1>6, <1>7 DEF Acks, p2, t

\* The queues of the store are in order.
LEMMA OrderedPending ==
    ASSUME StoreInv
    PROVE  Ordered(owner, Pending)
<1>1. queue \in [Users -> Seq(Batch)] /\ Pending = PendingOf(queue)
  BY DEF StoreInv, Pending, PendingOf
<1>2. owner \in Seq(Users) /\ Len(owner) <= MaxWrites /\ Len(owner) \in Nat
  BY LenProperties DEF StoreInv
<1>3. Pending \in [Users -> Seq(Writes)]
  <2>1. \A u \in Users : Pending[u] \in Seq(Writes)
    BY <1>1, PendingFacts
  <2>2. Pending = [u \in Users |-> Pending[u]]
    BY DEF Pending
  <2> QED
    BY <2>1, <2>2
<1>4. ASSUME NEW u \in Users, NEW i \in DOMAIN Pending[u]
      PROVE  /\ i \in 1 .. Len(queue[u]) /\ Pending[u][i] = queue[u][i].w
             /\ Pending[u][i] \in 1 .. Len(owner) /\ owner[Pending[u][i]] = u
  <2>1. i \in 1 .. Len(queue[u]) /\ Pending[u][i] = queue[u][i].w
    BY <1>1, PendingFacts
  <2>2. /\ queue[u][i].w \in Nat \ {0} /\ queue[u][i].w <= Len(owner)
        /\ owner[queue[u][i].w] = u
    BY <2>1, QueueFacts
  <2> QED
    BY <1>2, <2>1, <2>2
<1>5. ASSUME NEW u \in Users, NEW i \in DOMAIN Pending[u],
             NEW j \in DOMAIN Pending[u], i < j
      PROVE  Pending[u][i] < Pending[u][j]
  <2>1. Increasing(queue[u]) /\ DOMAIN queue[u] = 1 .. Len(queue[u])
    BY QueueFacts
  <2>2. queue[u][i].w < queue[u][j].w
    BY <1>4, <1>5, <2>1 DEF Increasing
  <2> QED
    BY <1>4, <2>2
<1> QED
  BY <1>2, <1>3, <1>4, <1>5 DEF Ordered

\* Every step keeps what is promised about acknowledged writes.
LEMMA AckNext ==
    ASSUME PipeInv, AckInv, PromiseStep
    PROVE  AckInv'
<1>1. /\ StoreInv /\ user \in Users /\ Ordered(owner, Pending)
      /\ done \in [Writes -> {"none", "ok", "error"}]
  BY InvFacts, OrderedPending DEF StoreInv
<1>2. Acks(owner, Pending, user, Cursor, committed, over, done)
  BY DEF AckInv
<1>3. Cursor \in Nat /\ Cursor <= Len(Pending[user])
  <2>1. queue \in [Users -> Seq(Batch)] /\ Pending = PendingOf(queue)
    BY <1>1 DEF StoreInv, Pending, PendingOf
  <2>2. Len(Pending[user]) = Len(queue[user])
    BY <1>1, <2>1, PendingFacts
  <2> QED
    BY <2>2, CursorFacts
<1>4. AckInv' <=> Acks(owner', Pending', user', Cursor', committed', over', done')
  BY DEF AckInv
<1>5. CASE WQ!Issue
  <2>1. /\ Len(owner) < MaxWrites /\ owner' = Append(owner, user)
        /\ Pending' = Joined(Pending, user, Len(owner) + 1)
        /\ user' = user /\ Cursor' = Cursor /\ committed' = committed
        /\ over' = over /\ done' = done
    BY <1>5 DEF WQ!Issue, Joined
  <2>2. Acks(Append(owner, user), Joined(Pending, user, Len(owner) + 1),
             user, Cursor, committed, over, done)
    BY <1>1, <1>2, <1>3, <2>1, AckIssue
  <2> QED
    BY <1>4, <2>1, <2>2
<1>6. CASE WQ!Commit
  <2> DEFINE w == Pending[user][Cursor + 1]
  <2>1. /\ Cursor < Len(Pending[user]) /\ Cursor' = Cursor + 1
        /\ over' = {x \in over : x[1] # w} \cup ((committed \ {w}) \X {w})
        /\ committed' = committed \cup {w}
        /\ owner' = owner /\ Pending' = Pending /\ user' = user /\ done' = done
    BY <1>6 DEF WQ!Commit, WQ!Overwrite
  <2>2. Acks(owner, Pending, user, Cursor + 1, committed \cup {w},
             {x \in over : x[1] # w} \cup ((committed \ {w}) \X {w}), done)
    BY <1>1, <1>2, <1>3, <2>1, AckCommit
  <2> QED
    BY <1>4, <2>1, <2>2
<1>7. CASE WQ!Acknowledge
  <2> DEFINE h == Head(Pending[user])
  <2>1. /\ Cursor > 0 /\ Cursor' = Cursor - 1 /\ done' = WQ!Told(h, "ok")
        /\ Pending' = [Pending EXCEPT ![user] = Tail(Pending[user])]
        /\ owner' = owner /\ user' = user /\ committed' = committed
        /\ over' = over
    BY <1>7 DEF WQ!Acknowledge
  <2>2. Pending[user] # <<>>
    BY <1>3, <2>1, EmptySeq
  <2>3. done' = done \/ done' = [done EXCEPT ![h] = "ok"]
    BY <2>1 DEF WQ!Told
  <2>4. Acks(owner, Pending, user, Cursor, committed, over, done')
    BY <1>1, <1>2, <1>3, <2>1, <2>2, <2>3, AckTold
  <2>5. Cursor' \in Nat
    BY <1>3, <2>1
  <2>6. Acks(owner, Pending', user, Cursor', committed, over, done')
    BY <1>1, <1>3, <2>1, <2>2, <2>4, <2>5, AckSettle
  <2> QED
    BY <1>4, <2>1, <2>6
<1>8. CASE WQ!Reject
  <2> DEFINE h == Head(Pending[user])
  <2>1. /\ Pending[user] # <<>> /\ Cursor' = 0 /\ done' = WQ!Told(h, "error")
        /\ Pending' = [Pending EXCEPT ![user] = Tail(Pending[user])]
        /\ owner' = owner /\ user' = user /\ committed' = committed
        /\ over' = over
    BY <1>3, <1>8, EmptySeq DEF WQ!Reject
  <2>2. done' = done \/ done' = [done EXCEPT ![h] = "error"]
    BY <2>1 DEF WQ!Told
  <2>3. Acks(owner, Pending, user, Cursor, committed, over, done')
    BY <1>1, <1>2, <1>3, <2>1, <2>2, AckTold
  <2>4. Acks(owner, Pending', user, Cursor', committed, over, done')
    BY <1>1, <1>3, <2>1, <2>3, AckSettle
  <2> QED
    BY <1>4, <2>1, <2>4
<1>9. CASE WQ!Lose
  <2>1. /\ Cursor' \in Nat /\ Cursor' <= Cursor
        /\ owner' = owner /\ Pending' = Pending /\ user' = user
        /\ committed' = committed /\ over' = over /\ done' = done
    BY <1>3, <1>9 DEF WQ!Lose
  <2>2. Acks(owner, Pending, user, Cursor', committed, over, done)
    BY <1>1, <1>2, <1>3, <2>1, AckLost
  <2> QED
    BY <1>4, <2>1, <2>2
<1>10. CASE WQ!Crash
  <2> DEFINE h == Head(Pending[user])
  <2>1. /\ Cursor' = 0
        /\ owner' = owner /\ Pending' = Pending /\ user' = user
        /\ committed' = committed /\ over' = over
        /\ \/ done' = done
           \/ Cursor > 0 /\ done' = WQ!Told(h, "ok")
    BY <1>10 DEF WQ!Crash
  <2>2. Acks(owner, Pending, user, Cursor, committed, over, done')
    <3>1. CASE done' = done
      BY <1>2, <3>1
    <3>2. CASE Cursor > 0 /\ done' = WQ!Told(h, "ok")
      <4>1. Pending[user] # <<>>
        BY <1>3, <3>2, EmptySeq
      <4>2. done' = done \/ done' = [done EXCEPT ![h] = "ok"]
        BY <3>2 DEF WQ!Told
      <4> QED
        BY <1>1, <1>2, <1>3, <3>2, <4>1, <4>2, AckTold
    <3> QED
      BY <2>1, <3>1, <3>2
  <2>3. Acks(owner, Pending, user, Cursor', committed, over, done')
    BY <1>1, <1>3, <2>1, <2>2, AckLost
  <2> QED
    BY <1>4, <2>1, <2>3
<1>11. ASSUME NEW u \in Users, WQ!SwitchUser(u)
       PROVE  AckInv'
  <2>1. /\ user' = u /\ Cursor' = 0
        /\ owner' = owner /\ Pending' = Pending
        /\ committed' = committed /\ over' = over /\ done' = done
    BY <1>11 DEF WQ!SwitchUser
  <2>2. Acks(owner, Pending, u, Cursor', committed, over, done)
    BY <1>1, <1>2, <1>3, <2>1, AckLost
  <2> QED
    BY <1>4, <2>1, <2>2
<1>12. CASE UNCHANGED WQ!vars
  BY <1>2, <1>4, <1>12 DEF WQ!vars
<1> QED
  BY <1>5, <1>6, <1>7, <1>8, <1>9, <1>10, <1>11, <1>12 DEF PromiseStep

\* Nothing is acknowledged at first.
LEMMA AckInit ==
    ASSUME Init
    PROVE  AckInv
<1>1. /\ owner = <<>> /\ committed = {} /\ over = {}
      /\ done = [w \in Writes |-> "none"]
  BY DEF Init
<1>2. \A u \in Users : DOMAIN Pending[u] = {}
  BY EmptySeq DEF Init, Pending
<1>3. SuffixOK(owner, Pending) /\ ToldOK(Pending, done)
  BY <1>2 DEF SuffixOK, ToldOK
<1>4. OverOK(owner, Pending, user, Cursor, over, done)
  BY <1>1 DEF OverOK
<1> QED
  BY <1>1, <1>3, <1>4 DEF AckInv, Acks

\* Sending the front of a queue again after a lost response never undoes a
\* later write of the same user whose completion reported success, not even
\* when a failed Write overtakes a response.
THEOREM AckedSurvive == Spec => []AckedNotOverwritten
<1>1. Init => AckInv
  BY AckInit
<1>2. PipeInv /\ AckInv /\ [Next]_vars => AckInv'
  BY StepRefines, AckNext
<1>3. AckInv => AckedNotOverwritten
  BY DEF AckInv, Acks, OverOK, AckedNotOverwritten, WQ!AckedNotOverwritten
<1> QED
  BY <1>1, <1>2, <1>3, PipeInvariant, PTL DEF Spec

-----------------------------------------------------------------------------
(* Errors *)

\* A write with an acknowledgement in flight is committed, and what is refused
\* was issued.
AnswersInv ==
    /\ \A i \in 1 .. Cursor : Pending[user][i] \in committed
    /\ \A w \in refused : w \in 1 .. Len(owner)

\* Every step keeps the acknowledgements in flight those of committed writes.
LEMMA AnswersKept ==
    ASSUME PipeInv, AnswersInv, PromiseStep
    PROVE  \A i \in 1 .. Cursor' : Pending'[user'][i] \in committed'
<1>1. Ordered(owner, Pending) /\ user \in Users
  BY InvFacts, OrderedPending
<1>2. /\ Pending[user] \in Seq(Writes) /\ Len(Pending[user]) \in Nat
      /\ Pending \in [Users -> Seq(Writes)]
  BY <1>1, OrderedFacts DEF Ordered
<1>3. Cursor \in Nat /\ Cursor <= Len(Pending[user])
  <2>1. queue \in [Users -> Seq(Batch)] /\ Pending = PendingOf(queue)
    BY InvFacts DEF StoreInv, Pending, PendingOf
  <2>2. Len(Pending[user]) = Len(queue[user])
    BY <1>1, <2>1, PendingFacts
  <2> QED
    BY <2>2, CursorFacts
<1>4. \A i \in 1 .. Cursor : Pending[user][i] \in committed
  BY DEF AnswersInv
<1>5. CASE Cursor' = 0
  BY <1>5
<1>6. CASE WQ!Issue
  <2> DEFINE x == Len(owner) + 1
             a == Append(Pending[user], x)
  <2>1. /\ Len(owner) < MaxWrites /\ user' = user /\ Cursor' = Cursor
        /\ committed' = committed
        /\ Pending' = [Pending EXCEPT ![user] = a]
    BY <1>6 DEF WQ!Issue
  <2>2. x \in Writes
    <3>1. Len(owner) \in Nat
      BY <1>1, OrderedFacts
    <3> QED
      BY <2>1, <3>1, WritePipelineAssumption DEF Writes
  <2>3. \A i \in 1 .. Len(Pending[user]) : a[i] = Pending[user][i]
    BY <1>2, <2>2, AppendProperties
  <2> HIDE DEF a
  <2>4. Pending'[user'] = a
    BY <1>1, <1>2, <2>1
  <2> QED
    BY <1>2, <1>3, <1>4, <2>1, <2>3, <2>4
<1>7. CASE WQ!Commit
  <2> DEFINE w == Pending[user][Cursor + 1]
  <2>1. /\ Cursor' = Cursor + 1 /\ committed' = committed \cup {w}
        /\ Pending' = Pending /\ user' = user
    BY <1>7 DEF WQ!Commit
  <2> HIDE DEF w
  <2>2. ASSUME NEW i \in 1 .. Cursor + 1
        PROVE  Pending[user][i] \in committed \cup {w}
    <3>1. i \in 1 .. Cursor \/ i = Cursor + 1
      BY <1>3
    <3> QED
      BY <1>4, <3>1 DEF w
  <2> QED
    BY <2>1, <2>2
<1>8. CASE WQ!Acknowledge
  <2> DEFINE t == Tail(Pending[user])
  <2>1. /\ Cursor > 0 /\ Cursor' = Cursor - 1 /\ committed' = committed
        /\ Pending' = [Pending EXCEPT ![user] = t] /\ user' = user
    BY <1>8 DEF WQ!Acknowledge
  <2>2. Pending[user] # <<>>
    BY <1>3, <2>1, EmptySeq
  <2>3. \A i \in 1 .. Len(Pending[user]) - 1 : t[i] = Pending[user][i + 1]
    BY <1>2, <2>2, TailFacts
  <2> HIDE DEF t
  <2>4. Pending'[user'] = t
    BY <1>1, <1>2, <2>1
  <2>5. ASSUME NEW i \in 1 .. Cursor - 1
        PROVE  t[i] \in committed
    <3>1. i \in 1 .. Len(Pending[user]) - 1 /\ i + 1 \in 1 .. Cursor
      BY <1>2, <1>3, <2>1
    <3> QED
      BY <1>4, <2>3, <3>1
  <2> QED
    BY <2>1, <2>4, <2>5
<1>9. CASE WQ!Lose
  <2>1. /\ Cursor' \in 0 .. Cursor - 1 /\ committed' = committed
        /\ Pending' = Pending /\ user' = user
    BY <1>9 DEF WQ!Lose
  <2> QED
    BY <1>3, <1>4, <2>1
<1>10. CASE UNCHANGED WQ!vars
  <2>1. /\ Cursor' = Cursor /\ committed' = committed
        /\ Pending' = Pending /\ user' = user
    BY <1>10 DEF WQ!vars
  <2> QED
    BY <1>4, <2>1
<1>11. WQ!Reject \/ WQ!Crash \/ (\E u \in Users : WQ!SwitchUser(u))
           => Cursor' = 0
  BY DEF WQ!Reject, WQ!Crash, WQ!SwitchUser
<1> QED
  BY <1>5, <1>6, <1>7, <1>8, <1>9, <1>10, <1>11 DEF PromiseStep

\* What a step leaves of the writes issued, committed and refused.
LEMMA HistoryGrows ==
    ASSUME PipeInv, [Next]_vars
    PROVE  /\ committed \subseteq committed' /\ refused \subseteq refused'
           /\ Len(owner) \in Nat /\ Len(owner') \in Nat
           /\ Len(owner) <= Len(owner')
           /\ \A w \in 1 .. Len(owner) : owner'[w] = owner[w]
<1>1. owner \in Seq(Users) /\ user \in Users /\ Len(owner) \in Nat
  BY InvFacts, LenProperties DEF StoreInv
<1>2. \/ owner' = owner
      \/ owner' = Append(owner, user)
  BY DEF Next, ClientStep, ServerStep, Disturbance, Write, Credentials,
         HandshakeComplete, MutationResult, StreamFinish, BackoffElapsed,
         HealthCheck, ServerHandshake, ServerCommit, CredentialChange,
         IdleTimeout, RestartNetwork, Kill, KillInResult, Relaunch,
         ServerRefuse, Break, queueVars, vars
<1>3. committed \subseteq committed' /\ refused \subseteq refused'
  BY DEF Next, ClientStep, ServerStep, Disturbance, Write, Credentials,
         HandshakeComplete, MutationResult, StreamFinish, BackoffElapsed,
         HealthCheck, ServerHandshake, ServerCommit, CredentialChange,
         IdleTimeout, RestartNetwork, Kill, KillInResult, Relaunch,
         ServerRefuse, Break, serverVars, vars
<1>4. CASE owner' = owner
  BY <1>1, <1>3, <1>4
<1>5. CASE owner' = Append(owner, user)
  <2>1. /\ Len(Append(owner, user)) = Len(owner) + 1
        /\ \A w \in 1 .. Len(owner) : Append(owner, user)[w] = owner[w]
    BY <1>1, AppendProperties
  <2> QED
    BY <1>1, <1>3, <1>5, <2>1
<1> QED
  BY <1>2, <1>4, <1>5

\* The server refuses only what was issued.
LEMMA RefusedKept ==
    ASSUME PipeInv, AnswersInv, [Next]_vars
    PROVE  \A w \in refused' : w \in 1 .. Len(owner')
<1>1. /\ Len(owner) \in Nat /\ Len(owner') \in Nat /\ Len(owner) <= Len(owner')
      /\ \A w \in refused : w \in 1 .. Len(owner)
  BY HistoryGrows DEF AnswersInv
<1>2. CASE refused' = refused
  BY <1>1, <1>2
<1>3. CASE ServerRefuse
  <2>1. Serving /\ refused' = refused \cup ({Head(c.out).w} \ {0})
    BY <1>3 DEF ServerRefuse
  <2>2. CASE ~c.handshake
    <3>1. Head(c.out).w = 0
      BY <2>1, <2>2, ServingFacts DEF Hello
    <3> QED
      BY <1>1, <2>1, <3>1
  <2>3. CASE c.handshake
    <3>1. /\ Len(c.in) + 1 \in 1 .. Len(c.pipeline)
          /\ Head(c.out) = c.pipeline[Len(c.in) + 1]
      BY <2>1, <2>3, ServingFacts
    <3>2. IsPrefix(c.pipeline, queue[user])
      BY InvFacts DEF PipelineOK
    <3>3. /\ Len(c.pipeline) <= Len(queue[user])
          /\ Len(c.pipeline) \in Nat /\ Len(queue[user]) \in Nat
          /\ \A i \in 1 .. Len(c.pipeline) : c.pipeline[i] = queue[user][i]
      BY <3>2, InvFacts, PrefixFacts, LenProperties
    <3>4. PICK i \in 1 .. Len(queue[user]) : Head(c.out) = queue[user][i]
      BY <3>1, <3>3
    <3>5. Head(c.out).w \in Nat \ {0} /\ Head(c.out).w <= Len(owner)
      BY <3>4, InvFacts, QueueFacts
    <3> QED
      BY <1>1, <2>1, <3>5
  <2> QED
    BY <2>2, <2>3
<1>4. ServerRefuse \/ refused' = refused
  BY DEF Next, ClientStep, ServerStep, Disturbance, Write, Credentials,
         HandshakeComplete, MutationResult, StreamFinish, BackoffElapsed,
         HealthCheck, ServerHandshake, ServerCommit, CredentialChange,
         IdleTimeout, RestartNetwork, Kill, KillInResult, Relaunch,
         Break, serverVars, vars
<1> QED
  BY <1>2, <1>3, <1>4

\* An error that may be told of w.
Justified(w) ==
    \/ w \in refused
    \/ /\ WriteRace /\ w \in committed
       /\ \E v \in refused : v > w /\ owner[v] = owner[w]

\* What justified an error once justifies it for good.
LEMMA StaysJustified ==
    ASSUME PipeInv, AnswersInv, [Next]_vars, NEW w \in Writes, Justified(w)
    PROVE  Justified(w)'
<1>1. /\ committed \subseteq committed' /\ refused \subseteq refused'
      /\ Len(owner) \in Nat
      /\ \A x \in 1 .. Len(owner) : owner'[x] = owner[x]
  BY HistoryGrows
<1>2. CASE w \in refused
  BY <1>1, <1>2 DEF Justified
<1>3. CASE w \notin refused
  <2>1. WriteRace /\ w \in committed
    BY <1>3 DEF Justified
  <2>2. PICK v \in refused : v > w /\ owner[v] = owner[w]
    BY <1>3 DEF Justified
  <2>3. v \in 1 .. Len(owner)
    BY DEF AnswersInv
  <2>4. w \in 1 .. Len(owner)
    BY <1>1, <2>2, <2>3, WritePipelineAssumption DEF Writes
  <2>5. owner'[v] = owner'[w]
    BY <1>1, <2>2, <2>3, <2>4
  <2> QED
    BY <1>1, <2>1, <2>2, <2>5 DEF Justified
<1> QED
  BY <1>2, <1>3

\* The batch a stream gives up as it ends is refused, or answered and in front
\* of the refused one.
LEMMA GivenUpJustified ==
    ASSUME PipeInv, AnswersInv, StreamFinish, RejectsFront(c, c.status)
    PROVE  Head(c.pipeline).w \in Writes /\ Justified(Head(c.pipeline).w)
<1> DEFINE q == queue[user]
<1>1. /\ Cursor = 0 \/ (WriteRace /\ Cursor = 1)
      /\ Cursor \in Nat /\ Cursor < Len(q) /\ q[Cursor + 1].w \in refused
  BY RejectedFront
<1>2. /\ q \in Seq(Batch) /\ Len(q) \in Nat /\ DOMAIN q = 1 .. Len(q)
      /\ Increasing(q)
      /\ \A i \in 1 .. Len(q) : q[i].w \in Writes /\ owner[q[i].w] = user
      /\ \A i \in 1 .. Len(q) : q[i].w \in Nat
  BY InvFacts, QueueFacts
<1>3. Head(c.pipeline) = q[1]
  <2>1. c.pipeline # <<>> /\ IsPrefix(c.pipeline, q)
    BY InvFacts DEF RejectsFront, PipelineOK
  <2>2. q # <<>> /\ Head(c.pipeline) = Head(q)
    BY <2>1, InvFacts, TailPrefix
  <2> QED
    BY <1>2, <2>2, TailFacts
<1>4. 1 \in 1 .. Len(q)
  BY <1>1, <1>2
<1>5. CASE Cursor = 0
  BY <1>1, <1>2, <1>3, <1>4, <1>5 DEF Justified
<1>6. CASE WriteRace /\ Cursor = 1
  <2>1. 2 \in 1 .. Len(q) /\ q[2].w \in refused
    BY <1>1, <1>2, <1>6
  <2>2. q[2].w > q[1].w /\ owner[q[2].w] = owner[q[1].w]
    BY <1>2, <1>4, <2>1 DEF Increasing
  <2>3. q[1].w \in committed
    <3>1. Pending[user][1] \in committed
      BY <1>6 DEF AnswersInv
    <3>2. Pending[user][1] = q[1].w
      BY <1>2, <1>4, InvFacts DEF Pending
    <3> QED
      BY <3>1, <3>2
  <2> QED
    BY <1>2, <1>3, <1>4, <1>6, <2>1, <2>2, <2>3 DEF Justified
<1> QED
  BY <1>1, <1>5, <1>6

\* No step reports an error that is not justified.
LEMMA RejectionNext ==
    ASSUME PipeInv, AnswersInv, RejectionFollowsRefusal, [Next]_vars
    PROVE  RejectionFollowsRefusal'
<1>1. done \in [Writes -> {"none", "ok", "error"}]
  BY InvFacts DEF StoreInv
<1>2. \A w \in Writes : done[w] = "error" => Justified(w)
  BY DEF RejectionFollowsRefusal, Justified
<1> SUFFICES ASSUME NEW x \in Writes, done'[x] = "error"
             PROVE  Justified(x)'
  BY DEF RejectionFollowsRefusal, Justified
<1>3. PICK w \in Writes :
          \/ done' = done
          \/ done' = [done EXCEPT ![w] = "ok"]
          \/ done' = [done EXCEPT ![w] = "error"] /\ Justified(w)
  <2>1. ASSUME c.pipeline # <<>>
        PROVE  Head(c.pipeline).w \in Writes
    <3>1. Head(c.pipeline) \in Batch
      BY <2>1, InvFacts, TailFacts
    <3> QED
      BY <3>1, BatchFacts
  <2>2. CASE MutationResult \/ KillInResult
    BY <2>1, <2>2 DEF MutationResult, KillInResult, NotifyUser
  <2>3. CASE StreamFinish /\ RejectsFront(c, c.status)
    <3>1. Head(c.pipeline).w \in Writes /\ Justified(Head(c.pipeline).w)
      BY <2>3, GivenUpJustified
    <3>2. \/ done' = done
          \/ done' = [done EXCEPT ![Head(c.pipeline).w] = "error"]
      BY <2>3 DEF StreamFinish, NotifyUser
    <3> QED
      BY <3>1, <3>2
  <2>4. CASE done' = done
    BY <2>4
  <2>5. \/ MutationResult \/ KillInResult
        \/ StreamFinish /\ RejectsFront(c, c.status)
        \/ done' = done
    BY DEF Next, ClientStep, ServerStep, Disturbance, Write, Credentials,
           HandshakeComplete, StreamFinish, BackoffElapsed, HealthCheck,
           ServerHandshake, ServerCommit, CredentialChange, IdleTimeout,
           RestartNetwork, Kill, ServerRefuse, Break, queueVars, vars
  <2> QED
    BY <2>2, <2>3, <2>4, <2>5
<1>4. Justified(x)
  BY <1>1, <1>2, <1>3
<1> QED
  BY <1>4, StaysJustified

\* An error is told of a write the server refused.  Only if a failed Write can
\* overtake a response may it be told of a committed write instead, and then a
\* later write of the same user was refused: HandleWriteError never charges a
\* refusal to another user, to a write without an answer or to one behind it.
THEOREM RejectionsFollowRefusals == Spec => []RejectionFollowsRefusal
<1>1. Init => AnswersInv /\ RejectionFollowsRefusal
  <2> SUFFICES ASSUME Init
               PROVE  AnswersInv /\ RejectionFollowsRefusal
    OBVIOUS
  <2>1. Cursor = 0
    BY InitRefines DEF WQ!Init
  <2> QED
    BY <2>1 DEF Init, AnswersInv, RejectionFollowsRefusal
<1>2. PipeInv /\ AnswersInv /\ [Next]_vars => AnswersInv'
  BY StepRefines, AnswersKept, RefusedKept DEF AnswersInv
<1>3. PipeInv /\ AnswersInv /\ RejectionFollowsRefusal /\ [Next]_vars
          => RejectionFollowsRefusal'
  BY RejectionNext
<1> QED
  BY <1>1, <1>2, <1>3, PipeInvariant, PTL DEF Spec

=============================================================================
