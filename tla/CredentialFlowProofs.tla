------------------------- MODULE CredentialFlowProofs -------------------------
(***************************************************************************)
(* TLAPS proofs about CredentialFlow, for any accounts, any number of      *)
(* changes of user, starts of the stream and writes.                       *)
(***************************************************************************)
EXTENDS CredentialFlow, SequenceTheorems, TLAPS

\* What m, the main queue, is made of, for Auth's user a, the provider's
\* user p and the counter n.
NoNotify(m) == \A i \in DOMAIN m : m[i].op # "notify"

\* The last notification names Auth's user; without one the provider knows.
AuthOK(m, a, p) ==
    /\ NoNotify(m) => p = a
    /\ \A i \in DOMAIN m :
          m[i].op = "notify" /\ (\A k \in DOMAIN m : k > i => m[k].op # "notify")
              => m[i].user = a

\* A token that will be passed on is the provider's user's.
TokensOK(m, n, p) ==
    \A i \in DOMAIN m :
        m[i].op = "token" /\ m[i].req.counter = n
            /\ (\A k \in DOMAIN m : k < i => m[k].op # "notify")
            => m[i].user = p

CountsOK(m, n) == \A i \in DOMAIN m : m[i].op = "token" => m[i].req.counter <= n

FetchesOK(fs, m, n, p) ==
    \A f \in fs : f[1].counter = n /\ NoNotify(m) => f[2] = p

RequestsOK(rs, fs, n) ==
    /\ \A r \in rs : r.counter <= n
    /\ \A f \in fs : f[1].counter <= n

\* A job of w, the worker queue, that changes no user is for the user of the
\* job before it, or of the engine, e; the last one is for the provider's.
ChainOK(w, e, p) ==
    /\ \A i \in DOMAIN w :
          w[i].op # "change" => w[i].user = IF i = 1 THEN e ELSE w[i - 1].user
    /\ p = IF w = <<>> THEN e ELSE w[Len(w)].user

CredInv ==
    /\ TypeOK
    /\ AuthOK(main, authUser, provUser)
    /\ TokensOK(main, counter, provUser)
    /\ CountsOK(main, counter)
    /\ FetchesOK(fetching, main, counter, provUser)
    /\ RequestsOK(asked, fetching, counter)
    /\ ChainOK(worker, engineUser, provUser)
    /\ CallMatchesQueue

-----------------------------------------------------------------------------
(* Queues *)

\* What Append does to a queue, element by element.
LEMMA AppendFacts ==
    ASSUME NEW S, NEW s \in Seq(S), NEW x \in S
    PROVE  /\ Append(s, x) \in Seq(S)
           /\ DOMAIN s = 1 .. Len(s) /\ Len(s) \in Nat
           /\ Len(Append(s, x)) = Len(s) + 1
           /\ DOMAIN Append(s, x) = 1 .. Len(s) + 1
           /\ Append(s, x) # <<>>
           /\ \A i \in 1 .. Len(s) : Append(s, x)[i] = s[i]
           /\ Append(s, x)[Len(s) + 1] = x
  BY AppendProperties, LenProperties

\* What Tail and Head do to a queue that is not empty.
LEMMA TailFacts ==
    ASSUME NEW S, NEW s \in Seq(S), s # <<>>
    PROVE  /\ Tail(s) \in Seq(S) /\ Head(s) \in S /\ Head(s) = s[1]
           /\ Len(s) \in Nat \ {0} /\ DOMAIN s = 1 .. Len(s)
           /\ Len(Tail(s)) = Len(s) - 1
           /\ DOMAIN Tail(s) = 1 .. Len(s) - 1
           /\ \A i \in 1 .. Len(s) - 1 : Tail(s)[i] = s[i + 1]
           /\ Tail(s) = <<>> <=> Len(s) = 1
<1>1. /\ Len(s) \in Nat \ {0} /\ DOMAIN s = 1 .. Len(s)
      /\ Tail(s) \in Seq(S) /\ Head(s) \in S /\ Head(s) = s[1]
      /\ Len(Tail(s)) = Len(s) - 1
      /\ \A i \in 1 .. Len(s) - 1 : Tail(s)[i] = s[i + 1]
  BY HeadTailProperties, LenProperties, EmptySeq
<1>2. DOMAIN Tail(s) = 1 .. Len(s) - 1
  BY <1>1, LenProperties
<1>3. Tail(s) = <<>> <=> Len(Tail(s)) = 0
  BY <1>1, EmptySeq
<1> QED
  BY <1>1, <1>2, <1>3

\* A notification is added.
LEMMA NotifyAppend ==
    ASSUME NEW m \in Seq(Block), NEW u \in MaybeUser, NEW n, NEW p
    PROVE  LET q == Append(m, Notify(u))
           IN  /\ q \in Seq(Block)
               /\ ~NoNotify(q)
               /\ AuthOK(q, u, p)
               /\ TokensOK(m, n, p) => TokensOK(q, n, p)
               /\ CountsOK(m, n) => CountsOK(q, n)
<1> DEFINE b == Notify(u)
           q == Append(m, b)
<1>1. b \in Block /\ b.op = "notify" /\ b.user = u
  BY DEF Notify, Block
<1> HIDE DEF b
<1>2. /\ q \in Seq(Block)
      /\ DOMAIN m = 1 .. Len(m) /\ Len(m) \in Nat
      /\ DOMAIN q = 1 .. Len(m) + 1
      /\ \A i \in 1 .. Len(m) : q[i] = m[i]
      /\ q[Len(m) + 1] = b
  BY <1>1, AppendFacts
<1> HIDE DEF q
<1>3. ~NoNotify(q)
  BY <1>1, <1>2 DEF NoNotify
<1>4. AuthOK(q, u, p)
  <2> SUFFICES ASSUME NEW i \in DOMAIN q,
                      \A k \in DOMAIN q : k > i => q[k].op # "notify"
               PROVE  q[i].user = u
    BY <1>3 DEF AuthOK
  <2>1. i = Len(m) + 1
    BY <1>1, <1>2
  <2> QED
    BY <1>1, <1>2, <2>1
<1>5. TokensOK(m, n, p) => TokensOK(q, n, p)
  BY <1>1, <1>2 DEF TokensOK
<1>6. CountsOK(m, n) => CountsOK(q, n)
  BY <1>1, <1>2 DEF CountsOK
<1> QED
  BY <1>2, <1>3, <1>4, <1>5, <1>6 DEF q, b

\* A token is added.
LEMMA TokenAppend ==
    ASSUME NEW m \in Seq(Block), NEW u \in MaybeUser, NEW ok \in BOOLEAN,
           NEW r \in Request, NEW n \in Nat, NEW p, NEW a,
           AuthOK(m, a, p), TokensOK(m, n, p), CountsOK(m, n), r.counter <= n,
           r.counter = n /\ NoNotify(m) => u = p
    PROVE  LET q == Append(m, Token(u, ok, r))
           IN  /\ q \in Seq(Block)
               /\ NoNotify(q) <=> NoNotify(m)
               /\ AuthOK(q, a, p) /\ TokensOK(q, n, p) /\ CountsOK(q, n)
<1> DEFINE b == Token(u, ok, r)
           q == Append(m, b)
<1>1. b \in Block /\ b.op = "token" /\ b.user = u /\ b.req = r
  BY DEF Token, Block
<1> HIDE DEF b
<1>2. /\ q \in Seq(Block)
      /\ DOMAIN m = 1 .. Len(m) /\ Len(m) \in Nat
      /\ DOMAIN q = 1 .. Len(m) + 1
      /\ \A i \in 1 .. Len(m) : q[i] = m[i]
      /\ q[Len(m) + 1] = b
  BY <1>1, AppendFacts
<1> HIDE DEF q
<1>3. NoNotify(q) <=> NoNotify(m)
  BY <1>1, <1>2 DEF NoNotify
<1>4. AuthOK(q, a, p)
  <2>1. NoNotify(q) => p = a
    BY <1>3 DEF AuthOK
  <2>2. ASSUME NEW i \in DOMAIN q, q[i].op = "notify",
               \A k \in DOMAIN q : k > i => q[k].op # "notify"
        PROVE  q[i].user = a
    <3>1. i \in DOMAIN m /\ q[i] = m[i]
      BY <1>1, <1>2, <2>2
    <3>2. \A k \in DOMAIN m : k > i => m[k].op # "notify"
      BY <1>2, <2>2
    <3> QED
      BY <2>2, <3>1, <3>2 DEF AuthOK
  <2> QED
    BY <2>1, <2>2 DEF AuthOK
<1>5. TokensOK(q, n, p)
  <2> SUFFICES ASSUME NEW i \in DOMAIN q, q[i].op = "token", q[i].req.counter = n,
                      \A k \in DOMAIN q : k < i => q[k].op # "notify"
               PROVE  q[i].user = p
    BY DEF TokensOK
  <2>1. CASE i \in DOMAIN m
    BY <1>2, <2>1 DEF TokensOK
  <2>2. CASE i = Len(m) + 1
    <3>1. NoNotify(m)
      BY <1>2, <2>2 DEF NoNotify
    <3> QED
      BY <1>1, <1>2, <2>2, <3>1
  <2> QED
    BY <1>2, <2>1, <2>2
<1>6. CountsOK(q, n)
  BY <1>1, <1>2 DEF CountsOK
<1> QED
  BY <1>2, <1>3, <1>4, <1>5, <1>6 DEF q, b

\* A job is added to the worker queue.
LEMMA JobAppend ==
    ASSUME NEW w \in Seq(Job), NEW j \in Job, NEW e, NEW p, ChainOK(w, e, p),
           j.op # "change" => j.user = p
    PROVE  Append(w, j) \in Seq(Job) /\ ChainOK(Append(w, j), e, j.user)
<1> DEFINE q == Append(w, j)
<1>1. /\ q \in Seq(Job) /\ q # <<>>
      /\ DOMAIN w = 1 .. Len(w) /\ Len(w) \in Nat
      /\ Len(q) = Len(w) + 1
      /\ DOMAIN q = 1 .. Len(w) + 1
      /\ \A i \in 1 .. Len(w) : q[i] = w[i]
      /\ q[Len(w) + 1] = j
  BY AppendFacts
<1>2. w = <<>> <=> Len(w) = 0
  BY EmptySeq
<1> HIDE DEF q
<1>3. ASSUME NEW i \in DOMAIN q, q[i].op # "change"
      PROVE  q[i].user = IF i = 1 THEN e ELSE q[i - 1].user
  <2>1. CASE i \in DOMAIN w
    <3>1. q[i] = w[i] /\ (i # 1 => q[i - 1] = w[i - 1])
      BY <1>1, <2>1
    <3> QED
      BY <1>3, <2>1, <3>1 DEF ChainOK
  <2>2. CASE i = Len(w) + 1
    <3>1. i = 1 <=> w = <<>>
      BY <1>1, <1>2, <2>2
    <3>2. i # 1 => q[i - 1] = w[Len(w)]
      BY <1>1, <2>2
    <3> QED
      BY <1>1, <1>3, <2>2, <3>1, <3>2 DEF ChainOK
  <2> QED
    BY <1>1, <2>1, <2>2
<1>4. ChainOK(q, e, j.user)
  BY <1>1, <1>3 DEF ChainOK
<1> QED
  BY <1>1, <1>4 DEF q

\* A job is done: the engine is now at its user.
LEMMA JobTail ==
    ASSUME NEW w \in Seq(Job), w # <<>>, NEW e, NEW p, ChainOK(w, e, p)
    PROVE  /\ Tail(w) \in Seq(Job) /\ Head(w) \in Job
           /\ Head(w).op # "change" => Head(w).user = e
           /\ ChainOK(Tail(w), Head(w).user, p)
<1> DEFINE q == Tail(w)
<1>1. /\ q \in Seq(Job) /\ Head(w) \in Job /\ Head(w) = w[1]
      /\ Len(w) \in Nat \ {0} /\ DOMAIN w = 1 .. Len(w)
      /\ Len(q) = Len(w) - 1
      /\ DOMAIN q = 1 .. Len(w) - 1
      /\ \A i \in 1 .. Len(w) - 1 : q[i] = w[i + 1]
      /\ q = <<>> <=> Len(w) = 1
  BY TailFacts
<1> HIDE DEF q
<1>2. Head(w).op # "change" => Head(w).user = e
  BY <1>1 DEF ChainOK
<1>3. ASSUME NEW i \in DOMAIN q, q[i].op # "change"
      PROVE  q[i].user = IF i = 1 THEN Head(w).user ELSE q[i - 1].user
  <2>1. q[i] = w[i + 1] /\ i + 1 \in DOMAIN w /\ i + 1 # 1
    BY <1>1
  <2>2. q[i].user = w[i].user
    BY <1>1, <1>3, <2>1 DEF ChainOK
  <2>3. i # 1 => q[i - 1] = w[i]
    BY <1>1
  <2> QED
    BY <1>1, <2>2, <2>3
<1>4. p = IF q = <<>> THEN Head(w).user ELSE q[Len(q)].user
  <2>1. p = w[Len(w)].user
    BY <1>1, EmptySeq DEF ChainOK
  <2> QED
    BY <1>1, <2>1
<1> QED
  BY <1>1, <1>2, <1>3, <1>4 DEF ChainOK, q

\* A token leaves the main queue.
LEMMA TokenTail ==
    ASSUME NEW m \in Seq(Block), m # <<>>, NEW n \in Nat, NEW p, NEW a,
           AuthOK(m, a, p), TokensOK(m, n, p), CountsOK(m, n),
           Head(m).op = "token"
    PROVE  /\ Tail(m) \in Seq(Block) /\ Head(m) \in Block
           /\ NoNotify(Tail(m)) => NoNotify(m)
           /\ Head(m).req.counter = n => Head(m).user = p
           /\ AuthOK(Tail(m), a, p) /\ TokensOK(Tail(m), n, p)
           /\ CountsOK(Tail(m), n)
<1> DEFINE q == Tail(m)
<1>1. /\ q \in Seq(Block) /\ Head(m) \in Block /\ Head(m) = m[1]
      /\ Len(m) \in Nat \ {0} /\ DOMAIN m = 1 .. Len(m)
      /\ DOMAIN q = 1 .. Len(m) - 1
      /\ \A i \in 1 .. Len(m) - 1 : q[i] = m[i + 1]
  BY TailFacts
<1> HIDE DEF q
<1>2. \A k \in DOMAIN m : k # 1 => k - 1 \in DOMAIN q /\ q[k - 1] = m[k]
  BY <1>1
<1>3. NoNotify(q) => NoNotify(m)
  <2> SUFFICES ASSUME NoNotify(q), NEW k \in DOMAIN m
               PROVE  m[k].op # "notify"
    BY DEF NoNotify
  <2>1. CASE k = 1
    BY <1>1, <2>1
  <2>2. CASE k # 1
    BY <1>2, <2>2 DEF NoNotify
  <2> QED
    BY <2>1, <2>2
<1>4. Head(m).req.counter = n => Head(m).user = p
  BY <1>1 DEF TokensOK
<1>5. AuthOK(q, a, p)
  <2>1. NoNotify(q) => p = a
    BY <1>3 DEF AuthOK
  <2>2. ASSUME NEW i \in DOMAIN q, q[i].op = "notify",
               \A k \in DOMAIN q : k > i => q[k].op # "notify"
        PROVE  q[i].user = a
    <3>1. i + 1 \in DOMAIN m /\ q[i] = m[i + 1]
      BY <1>1
    <3>2. ASSUME NEW k \in DOMAIN m, k > i + 1
          PROVE  m[k].op # "notify"
      <4>1. k # 1 /\ k - 1 > i
        BY <1>1, <3>2
      <4> QED
        BY <1>2, <2>2, <4>1
    <3> QED
      BY <2>2, <3>1, <3>2 DEF AuthOK
  <2> QED
    BY <2>1, <2>2 DEF AuthOK
<1>6. TokensOK(q, n, p)
  <2> SUFFICES ASSUME NEW i \in DOMAIN q, q[i].op = "token", q[i].req.counter = n,
                      \A k \in DOMAIN q : k < i => q[k].op # "notify"
               PROVE  q[i].user = p
    BY DEF TokensOK
  <2>1. i + 1 \in DOMAIN m /\ q[i] = m[i + 1]
    BY <1>1
  <2>2. ASSUME NEW k \in DOMAIN m, k < i + 1
        PROVE  m[k].op # "notify"
    <3>1. CASE k = 1
      BY <1>1, <3>1
    <3>2. CASE k # 1
      <4>1. k - 1 < i
        BY <1>1, <2>2
      <4> QED
        BY <1>2, <3>2, <4>1
    <3> QED
      BY <3>1, <3>2
  <2> QED
    BY <2>1, <2>2 DEF TokensOK
<1>7. CountsOK(q, n)
  BY <1>1 DEF CountsOK
<1> QED
  BY <1>1, <1>3, <1>4, <1>5, <1>6, <1>7 DEF q

\* A notification leaves the main queue: no token in it is passed on now.
LEMMA NotifyTail ==
    ASSUME NEW m \in Seq(Block), m # <<>>, NEW n \in Nat, NEW p, NEW a,
           AuthOK(m, a, p), CountsOK(m, n), Head(m).op = "notify"
    PROVE  /\ Tail(m) \in Seq(Block) /\ Head(m) \in Block
           /\ AuthOK(Tail(m), a, Head(m).user)
           /\ TokensOK(Tail(m), n + 1, Head(m).user)
           /\ CountsOK(Tail(m), n + 1)
<1> DEFINE q == Tail(m)
           u == Head(m).user
<1>1. /\ q \in Seq(Block) /\ Head(m) \in Block /\ Head(m) = m[1]
      /\ Len(m) \in Nat \ {0} /\ DOMAIN m = 1 .. Len(m)
      /\ DOMAIN q = 1 .. Len(m) - 1
      /\ \A i \in 1 .. Len(m) - 1 : q[i] = m[i + 1]
  BY TailFacts
<1> HIDE DEF q
<1>2. \A k \in DOMAIN m : k # 1 => k - 1 \in DOMAIN q /\ q[k - 1] = m[k]
  BY <1>1
<1>3. AuthOK(q, a, u)
  <2>1. ASSUME NoNotify(q)
        PROVE  u = a
    <3>1. 1 \in DOMAIN m /\ m[1].op = "notify"
      BY <1>1
    <3>2. ASSUME NEW k \in DOMAIN m, k > 1
          PROVE  m[k].op # "notify"
      <4>1. k # 1
        BY <1>1, <3>2
      <4> QED
        BY <1>2, <2>1, <4>1 DEF NoNotify
    <3> QED
      BY <1>1, <3>1, <3>2 DEF AuthOK
  <2>2. ASSUME NEW i \in DOMAIN q, q[i].op = "notify",
               \A k \in DOMAIN q : k > i => q[k].op # "notify"
        PROVE  q[i].user = a
    <3>1. i + 1 \in DOMAIN m /\ q[i] = m[i + 1]
      BY <1>1
    <3>2. ASSUME NEW k \in DOMAIN m, k > i + 1
          PROVE  m[k].op # "notify"
      <4>1. k # 1 /\ k - 1 > i
        BY <1>1, <3>2
      <4> QED
        BY <1>2, <2>2, <4>1
    <3> QED
      BY <2>2, <3>1, <3>2 DEF AuthOK
  <2> QED
    BY <2>1, <2>2 DEF AuthOK
<1>4. \A i \in DOMAIN q : q[i].op = "token" => q[i].req.counter <= n
  <2>1. \A i \in DOMAIN q : i + 1 \in DOMAIN m /\ q[i] = m[i + 1]
    BY <1>1
  <2> QED
    BY <2>1 DEF CountsOK
<1>5. \A i \in DOMAIN q : q[i].op = "token" => q[i].req.counter \in Nat
  <2> SUFFICES ASSUME NEW i \in DOMAIN q, q[i].op = "token"
               PROVE  q[i].req.counter \in Nat
    OBVIOUS
  <2>1. q[i] \in Block
    BY <1>1, ElementOfSeq
  <2> QED
    BY <2>1 DEF Block, Request
<1>6. TokensOK(q, n + 1, u)
  <2> SUFFICES ASSUME NEW i \in DOMAIN q, q[i].op = "token",
                      q[i].req.counter = n + 1
               PROVE  FALSE
    BY DEF TokensOK
  <2> QED
    BY <1>4
<1>7. CountsOK(q, n + 1)
  BY <1>4, <1>5 DEF CountsOK
<1> QED
  BY <1>1, <1>3, <1>6, <1>7 DEF q

\* A bound is used up by one.
LEMMA BoundsStep ==
    ASSUME NEW b \in [changes : 0 .. MaxChanges, starts : 0 .. MaxStarts,
                      writes : 0 .. MaxWrites]
    PROVE  /\ b.changes < MaxChanges
                => [b EXCEPT !.changes = @ + 1]
                     \in [changes : 0 .. MaxChanges, starts : 0 .. MaxStarts,
                          writes : 0 .. MaxWrites]
           /\ b.writes < MaxWrites
                => [b EXCEPT !.writes = @ + 1]
                     \in [changes : 0 .. MaxChanges, starts : 0 .. MaxStarts,
                          writes : 0 .. MaxWrites]
  BY CredentialFlowAssumption

-----------------------------------------------------------------------------
(* The steps *)

\* Nothing is asked for and nothing is queued when the app starts.
LEMMA InitCred == Init => CredInv
  BY CredentialFlowAssumption, EmptySeq
     DEF Init, CredInv, TypeOK, AuthOK, TokensOK, CountsOK, FetchesOK,
         RequestsOK, ChainOK, NoNotify, CallMatchesQueue, MaybeUser, Request

\* Auth changes its user.
LEMMA StepUser ==
    ASSUME CredInv, NEW u \in MaybeUser, UpdateCurrentUser(u)
    PROVE  CredInv'
<1>1. /\ main' \in Seq(Block) /\ ~NoNotify(main')
      /\ AuthOK(main', u, provUser)
      /\ TokensOK(main', counter, provUser) /\ CountsOK(main', counter)
  BY NotifyAppend DEF UpdateCurrentUser, CredInv, TypeOK
<1>2. TypeOK'
  BY <1>1, CredentialFlowAssumption
     DEF UpdateCurrentUser, CredInv, TypeOK, provVars, streamVars
<1>3. FetchesOK(fetching, main', counter, provUser)
  BY <1>1 DEF FetchesOK
<1> QED
  BY <1>1, <1>2, <1>3
     DEF UpdateCurrentUser, CredInv, provVars, streamVars, CallMatchesQueue

\* A renewed token is announced without a request.
LEMMA StepAutoRefresh ==
    ASSUME CredInv, AutoTokenRefresh
    PROVE  CredInv'
<1>1. /\ main' \in Seq(Block) /\ ~NoNotify(main')
      /\ AuthOK(main', authUser, provUser)
      /\ TokensOK(main', counter, provUser) /\ CountsOK(main', counter)
  BY NotifyAppend DEF AutoTokenRefresh, CredInv, TypeOK
<1>2. TypeOK'
  BY <1>1, CredentialFlowAssumption
     DEF AutoTokenRefresh, CredInv, TypeOK, authVars, provVars, streamVars
<1>3. FetchesOK(fetching, main', counter, provUser)
  BY <1>1 DEF FetchesOK
<1> QED
  BY <1>1, <1>2, <1>3
     DEF AutoTokenRefresh, CredInv, authVars, provVars, streamVars,
         CallMatchesQueue

\* A request is taken up: its token is that of Auth's user.
LEMMA StepTake ==
    ASSUME CredInv, NEW r \in asked, TakeRequest(r)
    PROVE  CredInv'
<1>1. /\ r \in Request /\ r.counter <= counter /\ authUser \in MaybeUser
      /\ None \in MaybeUser /\ counter \in Nat
      /\ NoNotify(main) => provUser = authUser
  BY DEF CredInv, TypeOK, RequestsOK, AuthOK, MaybeUser
<1>2. CASE authUser = None
  <2>1. /\ main' \in Seq(Block) /\ (NoNotify(main') <=> NoNotify(main))
        /\ AuthOK(main', authUser, provUser)
        /\ TokensOK(main', counter, provUser) /\ CountsOK(main', counter)
    <3>1. main' = Append(main, Token(None, TRUE, r)) /\ main \in Seq(Block)
      BY <1>2 DEF TakeRequest, CredInv, TypeOK
    <3>2. /\ AuthOK(main, authUser, provUser) /\ TokensOK(main, counter, provUser)
          /\ CountsOK(main, counter)
          /\ r.counter = counter /\ NoNotify(main) => None = provUser
      BY <1>1, <1>2 DEF CredInv
    <3> QED
      BY <1>1, <3>1, <3>2, TokenAppend
  <2>2. TypeOK'
    BY <1>2, <2>1 DEF TakeRequest, CredInv, TypeOK, provVars, streamVars
  <2>3. /\ FetchesOK(fetching', main', counter, provUser)
        /\ RequestsOK(asked', fetching', counter)
    BY <1>2, <2>1 DEF TakeRequest, CredInv, FetchesOK, RequestsOK
  <2> QED
    BY <2>1, <2>2, <2>3
       DEF TakeRequest, CredInv, provVars, streamVars, CallMatchesQueue
<1>3. CASE authUser # None
  <2>1. TypeOK'
    BY <1>1, <1>3 DEF TakeRequest, CredInv, TypeOK, MaybeUser, provVars, streamVars
  <2>2. /\ FetchesOK(fetching', main', counter, provUser)
        /\ RequestsOK(asked', fetching', counter)
    BY <1>1, <1>3 DEF TakeRequest, CredInv, FetchesOK, RequestsOK
  <2> QED
    BY <1>3, <2>1, <2>2
       DEF TakeRequest, CredInv, provVars, streamVars, CallMatchesQueue
<1> QED
  BY <1>2, <1>3

\* A token f arrives for queue m, which Auth may just have notified.
LEMMA FetchEnds ==
    ASSUME CredInv, NEW f \in fetching, NEW ok \in BOOLEAN,
           NEW m \in Seq(Block), NEW a,
           AuthOK(m, a, provUser), TokensOK(m, counter, provUser),
           CountsOK(m, counter), NoNotify(m) => NoNotify(main)
    PROVE  LET q == Append(m, Token(f[2], ok, f[1]))
           IN  /\ q \in Seq(Block)
               /\ AuthOK(q, a, provUser) /\ TokensOK(q, counter, provUser)
               /\ CountsOK(q, counter)
               /\ FetchesOK(fetching \ {f}, q, counter, provUser)
               /\ RequestsOK(asked, fetching \ {f}, counter)
<1>1. /\ f[1] \in Request /\ f[2] \in MaybeUser /\ counter \in Nat
      /\ f[1].counter <= counter
      /\ f[1].counter = counter /\ NoNotify(main) => f[2] = provUser
  BY DEF CredInv, TypeOK, RequestsOK, FetchesOK, MaybeUser
<1> DEFINE q == Append(m, Token(f[2], ok, f[1]))
<1>2. /\ q \in Seq(Block) /\ (NoNotify(q) <=> NoNotify(m))
      /\ AuthOK(q, a, provUser) /\ TokensOK(q, counter, provUser)
      /\ CountsOK(q, counter)
  BY <1>1, TokenAppend
<1> HIDE DEF q
<1>3. FetchesOK(fetching \ {f}, q, counter, provUser)
  BY <1>2 DEF CredInv, FetchesOK
<1>4. RequestsOK(asked, fetching \ {f}, counter)
  BY DEF CredInv, RequestsOK
<1> QED
  BY <1>2, <1>3, <1>4 DEF q

\* The queues that end in a token, written with Append.
LEMMA ConcatToken ==
    ASSUME NEW m \in Seq(Block), NEW x \in Block, NEW y \in Block
    PROVE  /\ m \o <<>> \o <<y>> = Append(m, y)
           /\ m \o <<x>> \o <<y>> = Append(Append(m, x), y)
<1>1. m \o <<>> = m
  BY ConcatEmptySeq
<1>2. m \o <<x>> = Append(m, x) /\ Append(m, x) \in Seq(Block)
  BY AppendIsConcat, AppendProperties
<1>3. m \o <<y>> = Append(m, y)
  BY AppendIsConcat
<1>4. Append(m, x) \o <<y>> = Append(Append(m, x), y)
  BY <1>2, AppendIsConcat
<1> QED
  BY <1>1, <1>2, <1>3, <1>4

\* A token arrives from the cache.
LEMMA StepFetched ==
    ASSUME CredInv, NEW f \in fetching, TokenFetched(f)
    PROVE  CredInv'
<1>1. /\ main' \in Seq(Block)
      /\ AuthOK(main', authUser, provUser) /\ TokensOK(main', counter, provUser)
      /\ CountsOK(main', counter)
      /\ FetchesOK(fetching', main', counter, provUser)
      /\ RequestsOK(asked, fetching', counter)
  BY FetchEnds DEF TokenFetched, CredInv, TypeOK
<1>2. TypeOK'
  BY <1>1 DEF TokenFetched, CredInv, TypeOK, provVars, streamVars
<1> QED
  BY <1>1, <1>2
     DEF TokenFetched, CredInv, provVars, streamVars, CallMatchesQueue

\* A token arrives after a notification that Auth's user is now u.
LEMMA NotifiedFetchEnds ==
    ASSUME CredInv, NEW f \in fetching, NEW ok \in BOOLEAN, NEW u \in MaybeUser
    PROVE  LET q == main \o <<Notify(u)>> \o <<Token(f[2], ok, f[1])>>
           IN  /\ q \in Seq(Block)
               /\ AuthOK(q, u, provUser) /\ TokensOK(q, counter, provUser)
               /\ CountsOK(q, counter)
               /\ FetchesOK(fetching \ {f}, q, counter, provUser)
               /\ RequestsOK(asked, fetching \ {f}, counter)
<1> DEFINE m == Append(main, Notify(u))
<1>1. /\ m \in Seq(Block) /\ ~NoNotify(m)
      /\ AuthOK(m, u, provUser) /\ TokensOK(m, counter, provUser)
      /\ CountsOK(m, counter)
  BY NotifyAppend DEF CredInv, TypeOK
<1>2. /\ main \in Seq(Block) /\ f[1] \in Request /\ f[2] \in MaybeUser
  BY DEF CredInv, TypeOK, MaybeUser
<1>3. Notify(u) \in Block /\ Token(f[2], ok, f[1]) \in Block
  BY <1>2 DEF Notify, Token, Block
<1>4. main \o <<Notify(u)>> \o <<Token(f[2], ok, f[1])>>
        = Append(m, Token(f[2], ok, f[1]))
  BY <1>2, <1>3, ConcatToken
<1> HIDE DEF m
<1> QED
  BY <1>1, <1>4, FetchEnds

\* A token arrives alone.
LEMMA PlainFetchEnds ==
    ASSUME CredInv, NEW f \in fetching, NEW ok \in BOOLEAN
    PROVE  LET q == main \o <<>> \o <<Token(f[2], ok, f[1])>>
           IN  /\ q \in Seq(Block)
               /\ AuthOK(q, authUser, provUser) /\ TokensOK(q, counter, provUser)
               /\ CountsOK(q, counter)
               /\ FetchesOK(fetching \ {f}, q, counter, provUser)
               /\ RequestsOK(asked, fetching \ {f}, counter)
<1>1. /\ main \in Seq(Block) /\ f[1] \in Request /\ f[2] \in MaybeUser
      /\ AuthOK(main, authUser, provUser) /\ TokensOK(main, counter, provUser)
      /\ CountsOK(main, counter)
  BY DEF CredInv, TypeOK, MaybeUser
<1>2. Token(f[2], ok, f[1]) \in Block
  BY <1>1 DEF Token, Block
<1>3. main \o <<>> \o <<Token(f[2], ok, f[1])>>
        = Append(main, Token(f[2], ok, f[1]))
  BY <1>1, <1>2, ConcatToken
<1> QED
  BY <1>1, <1>3, FetchEnds

\* A token arrives that had to be renewed.
LEMMA StepRenewed ==
    ASSUME CredInv, NEW f \in fetching, TokenRenewed(f)
    PROVE  CredInv'
<1>1. /\ main' \in Seq(Block)
      /\ AuthOK(main', authUser, provUser) /\ TokensOK(main', counter, provUser)
      /\ CountsOK(main', counter)
      /\ FetchesOK(fetching', main', counter, provUser)
      /\ RequestsOK(asked, fetching', counter)
  <2>1. CASE f[2] = authUser
    <3>1. /\ main' = main \o <<Notify(authUser)>> \o <<Token(f[2], TRUE, f[1])>>
          /\ fetching' = fetching \ {f} /\ authUser \in MaybeUser
      BY <2>1 DEF TokenRenewed, CredInv, TypeOK
    <3> QED
      BY <3>1, NotifiedFetchEnds
  <2>2. CASE f[2] # authUser
    <3>1. /\ main' = main \o <<>> \o <<Token(f[2], TRUE, f[1])>>
          /\ fetching' = fetching \ {f}
      BY <2>2 DEF TokenRenewed
    <3> QED
      BY <3>1, PlainFetchEnds
  <2> QED
    BY <2>1, <2>2
<1>2. bounds' \in [changes : 0 .. MaxChanges, starts : 0 .. MaxStarts,
                   writes : 0 .. MaxWrites]
  <2>1. /\ bounds \in [changes : 0 .. MaxChanges, starts : 0 .. MaxStarts,
                       writes : 0 .. MaxWrites]
        /\ bounds.changes < MaxChanges
        /\ bounds' = [bounds EXCEPT !.changes = @ + 1]
    BY DEF TokenRenewed, CredInv, TypeOK
  <2> QED
    BY <2>1, BoundsStep
<1>3. fetching' \subseteq fetching
  BY DEF TokenRenewed
<1>4. TypeOK'
  BY <1>1, <1>2, <1>3 DEF TokenRenewed, CredInv, TypeOK, provVars, streamVars
<1> QED
  BY <1>1, <1>4
     DEF TokenRenewed, CredInv, provVars, streamVars, CallMatchesQueue

\* A token cannot be had; the account may be gone.
LEMMA StepFailed ==
    ASSUME CredInv, NEW f \in fetching, NEW gone \in BOOLEAN, TokenFailed(f, gone)
    PROVE  CredInv'
<1>1. /\ main' \in Seq(Block) /\ authUser' \in MaybeUser
      /\ AuthOK(main', authUser', provUser) /\ TokensOK(main', counter, provUser)
      /\ CountsOK(main', counter)
      /\ FetchesOK(fetching', main', counter, provUser)
      /\ RequestsOK(asked, fetching', counter)
  <2>1. CASE gone /\ f[2] = authUser
    <3>1. /\ main' = main \o <<Notify(None)>> \o <<Token(f[2], FALSE, f[1])>>
          /\ fetching' = fetching \ {f} /\ authUser' = None
          /\ None \in MaybeUser
      BY <2>1 DEF TokenFailed, MaybeUser
    <3> QED
      BY <3>1, NotifiedFetchEnds
  <2>2. CASE ~(gone /\ f[2] = authUser)
    <3>1. /\ main' = main \o <<>> \o <<Token(f[2], FALSE, f[1])>>
          /\ fetching' = fetching \ {f} /\ authUser' = authUser
          /\ authUser \in MaybeUser
      BY <2>2 DEF TokenFailed, CredInv, TypeOK
    <3> QED
      BY <3>1, PlainFetchEnds
  <2> QED
    BY <2>1, <2>2
<1>2. bounds' \in [changes : 0 .. MaxChanges, starts : 0 .. MaxStarts,
                   writes : 0 .. MaxWrites]
  <2>1. /\ bounds \in [changes : 0 .. MaxChanges, starts : 0 .. MaxStarts,
                       writes : 0 .. MaxWrites]
        /\ bounds.changes < MaxChanges
        /\ bounds' = [bounds EXCEPT !.changes = @ + 1]
    BY DEF TokenFailed, CredInv, TypeOK
  <2> QED
    BY <2>1, BoundsStep
<1>3. fetching' \subseteq fetching
  BY DEF TokenFailed
<1>4. TypeOK'
  BY <1>1, <1>2, <1>3 DEF TokenFailed, CredInv, TypeOK, provVars, streamVars
<1> QED
  BY <1>1, <1>4
     DEF TokenFailed, CredInv, provVars, streamVars, CallMatchesQueue

\* The provider takes note of Auth's user, and the client with it.
LEMMA StepNotify ==
    ASSUME CredInv, HandleNotify
    PROVE  CredInv'
<1> DEFINE u == Head(main).user
<1>1. /\ main' \in Seq(Block) /\ Head(main) \in Block
      /\ AuthOK(main', authUser, u)
      /\ TokensOK(main', counter + 1, u) /\ CountsOK(main', counter + 1)
  BY NotifyTail DEF HandleNotify, CredInv, TypeOK
<1>2. u \in MaybeUser
  BY <1>1 DEF Block
<1> HIDE DEF u
<1>3. Change(u) \in Job /\ Change(u).op = "change" /\ Change(u).user = u
  BY <1>2 DEF Change, Job
<1>4. worker' \in Seq(Job) /\ ChainOK(worker', engineUser, u)
  <2>1. worker' = Append(worker, Change(u))
    BY DEF HandleNotify, u
  <2>2. worker \in Seq(Job) /\ ChainOK(worker, engineUser, provUser)
    BY DEF CredInv, TypeOK
  <2> QED
    BY <1>3, <2>1, <2>2, JobAppend
<1>5. provUser' = u /\ counter' = counter + 1 /\ counter \in Nat
  BY DEF HandleNotify, CredInv, TypeOK, u
<1>6. TypeOK'
  BY <1>1, <1>2, <1>4, <1>5
     DEF HandleNotify, CredInv, TypeOK, authVars, streamVars
<1>7. /\ \A r \in asked : r.counter \in Nat /\ r.counter <= counter
      /\ \A f \in fetching : f[1].counter \in Nat /\ f[1].counter <= counter
  BY DEF CredInv, TypeOK, Request, RequestsOK
<1>8. /\ FetchesOK(fetching, main', counter + 1, u)
      /\ RequestsOK(asked, fetching, counter + 1)
  BY <1>5, <1>7 DEF FetchesOK, RequestsOK
<1> QED
  BY <1>1, <1>4, <1>5, <1>6, <1>8
     DEF HandleNotify, CredInv, authVars, streamVars, CallMatchesQueue

\* The provider passes a token on, or asks again.
LEMMA StepToken ==
    ASSUME CredInv, HandleToken
    PROVE  CredInv'
<1> DEFINE b == Head(main)
<1>1. /\ main' \in Seq(Block) /\ b \in Block
      /\ NoNotify(main') => NoNotify(main)
      /\ b.req.counter = counter => b.user = provUser
      /\ AuthOK(main', authUser, provUser)
      /\ TokensOK(main', counter, provUser) /\ CountsOK(main', counter)
  BY TokenTail DEF HandleToken, CredInv, TypeOK
<1>2. b.op = "token" /\ b.user \in MaybeUser /\ b.req \in Request /\ b.ok \in BOOLEAN
  BY <1>1 DEF HandleToken, Block
<1>3. FetchesOK(fetching, main', counter, provUser)
  BY <1>1 DEF CredInv, FetchesOK
<1>4. /\ worker \in Seq(Job) /\ ChainOK(worker, engineUser, provUser)
      /\ counter \in Nat /\ asked \subseteq Request
      /\ RequestsOK(asked, fetching, counter)
  BY DEF CredInv, TypeOK
<1>5. /\ worker' \in Seq(Job) /\ ChainOK(worker', engineUser, provUser)
      /\ asked' \subseteq Request /\ RequestsOK(asked', fetching, counter)
  <2>1. CASE b.req.counter # counter
    <3> DEFINE r == [b.req EXCEPT !.counter = counter]
    <3>1. r \in Request /\ r.counter = counter
      BY <1>2, <1>4 DEF Request
    <3>2. asked' = asked \cup {r} /\ worker' = worker
      BY <2>1 DEF HandleToken
    <3> HIDE DEF r
    <3> QED
      BY <1>4, <3>1, <3>2 DEF RequestsOK
  <2>2. CASE b.req.counter = counter
    <3> DEFINE j == Resume(b.user, b.ok, b.req.closes)
    <3>1. b.req.closes \in Nat
      BY <1>2 DEF Request
    <3>2. j \in Job /\ j.op = "resume" /\ j.user = provUser
      BY <1>1, <1>2, <2>2, <3>1 DEF Resume, Job
    <3>3. worker' = Append(worker, j) /\ asked' = asked
      BY <2>2 DEF HandleToken
    <3> HIDE DEF j
    <3>4. /\ Append(worker, j) \in Seq(Job)
          /\ ChainOK(Append(worker, j), engineUser, j.user)
      BY <1>4, <3>2, JobAppend
    <3> QED
      BY <1>4, <3>2, <3>3, <3>4
  <2> QED
    BY <2>1, <2>2
<1>6. TypeOK'
  BY <1>1, <1>5 DEF HandleToken, CredInv, TypeOK, provVars, streamVars
<1> QED
  BY <1>1, <1>3, <1>5, <1>6
     DEF HandleToken, CredInv, provVars, streamVars, CallMatchesQueue

\* The app's write follows the jobs of the user it is for.
LEMMA StepWrite ==
    ASSUME CredInv, AppWrite
    PROVE  CredInv'
<1>1. /\ WriteOf(provUser) \in Job /\ WriteOf(provUser).user = provUser
  BY DEF WriteOf, Job, CredInv, TypeOK
<1>2. worker' \in Seq(Job) /\ ChainOK(worker', engineUser, provUser)
  <2>1. /\ worker' = Append(worker, WriteOf(provUser))
        /\ worker \in Seq(Job) /\ ChainOK(worker, engineUser, provUser)
    BY DEF AppWrite, CredInv, TypeOK
  <2>2. /\ Append(worker, WriteOf(provUser)) \in Seq(Job)
        /\ ChainOK(Append(worker, WriteOf(provUser)), engineUser, provUser)
    BY <1>1, <2>1, JobAppend
  <2> QED
    BY <2>1, <2>2
<1>3. bounds' \in [changes : 0 .. MaxChanges, starts : 0 .. MaxStarts,
                   writes : 0 .. MaxWrites]
  BY BoundsStep DEF AppWrite, CredInv, TypeOK
<1>4. TypeOK'
  BY <1>2, <1>3
     DEF AppWrite, CredInv, TypeOK, authVars, provVars, streamVars
<1> QED
  BY <1>2, <1>4
     DEF AppWrite, CredInv, authVars, provVars, streamVars, CallMatchesQueue

\* A request made now carries the provider's counter.
LEMMA StartFacts ==
    ASSUME CredInv, NEW n \in Nat, StartAt(n)
    PROVE  /\ asked' \subseteq Request /\ RequestsOK(asked', fetching, counter)
           /\ bounds' \in [changes : 0 .. MaxChanges, starts : 0 .. MaxStarts,
                           writes : 0 .. MaxWrites]
           /\ stream' = "Starting"
<1> DEFINE r == [counter |-> counter, closes |-> n]
<1>1. counter \in Nat /\ r \in Request /\ r.counter = counter
  BY DEF CredInv, TypeOK, Request
<1>2. asked' = asked \cup {r} /\ stream' = "Starting"
  BY DEF StartAt
<1> HIDE DEF r
<1>3. asked' \subseteq Request /\ RequestsOK(asked', fetching, counter)
  BY <1>1, <1>2 DEF CredInv, TypeOK, RequestsOK
<1>4. bounds' \in [changes : 0 .. MaxChanges, starts : 0 .. MaxStarts,
                   writes : 0 .. MaxWrites]
  BY CredentialFlowAssumption DEF StartAt, CredInv, TypeOK
<1> QED
  BY <1>2, <1>3, <1>4

\* The stream starts and asks for a token.
LEMMA StepStart ==
    ASSUME CredInv, StartStream
    PROVE  CredInv'
<1>1. closes \in Nat /\ StartAt(closes)
  BY DEF StartStream, CredInv, TypeOK
<1>2. /\ asked' \subseteq Request /\ RequestsOK(asked', fetching, counter)
      /\ bounds' \in [changes : 0 .. MaxChanges, starts : 0 .. MaxStarts,
                      writes : 0 .. MaxWrites]
      /\ stream' = "Starting"
  BY <1>1, StartFacts
<1>3. TypeOK'
  BY <1>2 DEF StartStream, CredInv, TypeOK, provVars
<1> QED
  BY <1>2, <1>3 DEF StartStream, CredInv, provVars, CallMatchesQueue

\* The stream is closed.
LEMMA StepClose ==
    ASSUME CredInv, CloseStream
    PROVE  CredInv'
<1>1. TypeOK'
  BY DEF CloseStream, CredInv, TypeOK, authVars, provVars
<1> QED
  BY <1>1 DEF CloseStream, CredInv, authVars, provVars, CallMatchesQueue

\* The client changes its user; the call, if any, is closed.
LEMMA StepChange ==
    ASSUME CredInv, HandleChange
    PROVE  CredInv'
<1>1. /\ worker' \in Seq(Job) /\ Head(worker) \in Job
      /\ ChainOK(worker', engineUser', provUser)
  BY JobTail DEF HandleChange, CredInv, TypeOK
<1>2. engineUser' \in MaybeUser
  BY <1>1 DEF HandleChange, Job
<1>3. closes' \in Nat
  BY DEF HandleChange, CredInv, TypeOK
<1>4. /\ asked' \subseteq Request /\ RequestsOK(asked', fetching, counter)
      /\ bounds' \in [changes : 0 .. MaxChanges, starts : 0 .. MaxStarts,
                      writes : 0 .. MaxWrites]
      /\ stream' \in {"Starting", "Initial"}
  <2>1. CASE StartAt(closes')
    BY <1>3, <2>1, StartFacts
  <2>2. CASE stream' = "Initial" /\ UNCHANGED <<asked, bounds>>
    BY <2>2 DEF CredInv, TypeOK
  <2> QED
    BY <2>1, <2>2 DEF HandleChange
<1>5. TypeOK'
  BY <1>1, <1>2, <1>3, <1>4 DEF HandleChange, CredInv, TypeOK, provVars
<1> QED
  BY <1>1, <1>4, <1>5 DEF HandleChange, CredInv, provVars, CallMatchesQueue

\* A token the stream takes is that of the engine's user.
LEMMA StepResume ==
    ASSUME CredInv, HandleResume
    PROVE  CredInv'
<1> DEFINE j == Head(worker)
<1>1. /\ worker' \in Seq(Job) /\ j \in Job
      /\ j.user = engineUser
      /\ ChainOK(worker', engineUser, provUser)
  BY JobTail DEF HandleResume, CredInv, TypeOK
<1>2. /\ stream' \in {"Initial", "Starting", "Open"} /\ closes' \in Nat
      /\ token' \in MaybeUser /\ CallMatchesQueue'
  BY <1>1 DEF HandleResume, CredInv, TypeOK, CallMatchesQueue
<1>3. TypeOK'
  BY <1>1, <1>2 DEF HandleResume, CredInv, TypeOK, authVars, provVars
<1> QED
  BY <1>1, <1>2, <1>3 DEF HandleResume, CredInv, authVars, provVars

\* The engine takes up a write.
LEMMA StepWriteMutations ==
    ASSUME CredInv, HandleWrite
    PROVE  CredInv'
<1>1. /\ worker' \in Seq(Job) /\ Head(worker) \in Job
      /\ ChainOK(worker', engineUser, provUser)
  BY JobTail DEF HandleWrite, CredInv, TypeOK
<1>2. TypeOK'
  BY <1>1 DEF HandleWrite, CredInv, TypeOK, authVars, provVars, streamVars
<1> QED
  BY <1>1, <1>2
     DEF HandleWrite, CredInv, authVars, provVars, streamVars, CallMatchesQueue

\* Every step of the specification keeps the invariant.
LEMMA NextCred == CredInv /\ [Next]_vars => CredInv'
<1> SUFFICES ASSUME CredInv, [Next]_vars
             PROVE  CredInv'
  OBVIOUS
<1>1. CASE \E u \in MaybeUser : UpdateCurrentUser(u)
  BY <1>1, StepUser
<1>2. CASE \E f \in fetching : TokenRenewed(f)
  BY <1>2, StepRenewed
<1>3. CASE \E f \in fetching : \E gone \in BOOLEAN : TokenFailed(f, gone)
  BY <1>3, StepFailed
<1>4. CASE AutoTokenRefresh \/ AppWrite \/ StartStream \/ CloseStream
  BY <1>4, StepAutoRefresh, StepWrite, StepStart, StepClose
<1>5. CASE AuthStep
  BY <1>5, StepTake, StepFetched DEF AuthStep
<1>6. CASE MainStep
  BY <1>6, StepNotify, StepToken DEF MainStep
<1>7. CASE WorkerStep
  BY <1>7, StepChange, StepResume, StepWriteMutations DEF WorkerStep
<1>8. CASE UNCHANGED vars
  BY <1>8 DEF vars, CredInv, TypeOK, CallMatchesQueue
<1> QED
  BY <1>1, <1>2, <1>3, <1>4, <1>5, <1>6, <1>7, <1>8 DEF Next

-----------------------------------------------------------------------------
(* One request for every start of the stream *)

\* The requests of close count n: with Auth, under way, as tokens on the main
\* queue and as resumptions on the worker queue.
AskedAt(rs, n) == {r \in rs : r.closes = n}
FetchedAt(fs, n) == {f \in fs : f[1].closes = n}
PostedAt(m, n) == {i \in DOMAIN m : m[i].op = "token" /\ m[i].req.closes = n}
ResumedAt(w, n) == {i \in DOMAIN w : w[i].op = "resume" /\ w[i].closes = n}

AtMostOne(S) == \A x, y \in S : x = y

\* There is at most one, wherever it is.
OnceOK(rs, fs, m, w, n) ==
    /\ AtMostOne(AskedAt(rs, n)) /\ AtMostOne(FetchedAt(fs, n))
    /\ AtMostOne(PostedAt(m, n)) /\ AtMostOne(ResumedAt(w, n))
    /\ AskedAt(rs, n) # {} => FetchedAt(fs, n) = {} /\ PostedAt(m, n) = {}
    /\ AskedAt(rs, n) \cup FetchedAt(fs, n) \cup PostedAt(m, n) # {}
           => ResumedAt(w, n) = {}
    /\ FetchedAt(fs, n) # {} => PostedAt(m, n) = {}

NoneAt(rs, fs, m, w, n) ==
    /\ AskedAt(rs, n) = {} /\ FetchedAt(fs, n) = {}
    /\ PostedAt(m, n) = {} /\ ResumedAt(w, n) = {}

\* No request is of a close count to come.
NoneAfter(rs, fs, m, w, n) ==
    \A k \in Nat : k > n => NoneAt(rs, fs, m, w, k)

RequestInv ==
    /\ OnceOK(asked, fetching, main, worker, closes)
    /\ NoneAfter(asked, fetching, main, worker, closes)
    /\ stream # "Starting" => NoneAt(asked, fetching, main, worker, closes)

\* What a step does to the requests of close count k when it makes none.
Moves(rs, fs, m, w, rs2, fs2, m2, w2, k) ==
    /\ OnceOK(rs, fs, m, w, k) => OnceOK(rs2, fs2, m2, w2, k)
    /\ NoneAt(rs, fs, m, w, k) => NoneAt(rs2, fs2, m2, w2, k)

\* A block joins the main queue.
LEMMA PostedAppend ==
    ASSUME NEW m \in Seq(Block), NEW b \in Block, NEW k
    PROVE  /\ b.op = "token" /\ b.req.closes = k
                 => PostedAt(Append(m, b), k) = PostedAt(m, k) \cup {Len(m) + 1}
           /\ ~(b.op = "token" /\ b.req.closes = k)
                 => PostedAt(Append(m, b), k) = PostedAt(m, k)
<1> DEFINE q == Append(m, b)
<1>1. /\ DOMAIN m = 1 .. Len(m) /\ Len(m) \in Nat
      /\ DOMAIN q = 1 .. Len(m) + 1
      /\ \A i \in 1 .. Len(m) : q[i] = m[i]
      /\ q[Len(m) + 1] = b
  BY AppendFacts
<1> HIDE DEF q
<1> QED
  BY <1>1 DEF PostedAt, q

\* A job joins the worker queue.
LEMMA ResumedAppend ==
    ASSUME NEW w \in Seq(Job), NEW j \in Job, NEW k
    PROVE  /\ j.op = "resume" /\ j.closes = k
                 => ResumedAt(Append(w, j), k) = ResumedAt(w, k) \cup {Len(w) + 1}
           /\ ~(j.op = "resume" /\ j.closes = k)
                 => ResumedAt(Append(w, j), k) = ResumedAt(w, k)
<1> DEFINE q == Append(w, j)
<1>1. /\ DOMAIN w = 1 .. Len(w) /\ Len(w) \in Nat
      /\ DOMAIN q = 1 .. Len(w) + 1
      /\ \A i \in 1 .. Len(w) : q[i] = w[i]
      /\ q[Len(w) + 1] = j
  BY AppendFacts
<1> HIDE DEF q
<1> QED
  BY <1>1 DEF ResumedAt, q

\* A block leaves the main queue.
LEMMA PostedTail ==
    ASSUME NEW m \in Seq(Block), m # <<>>, NEW k
    PROVE  /\ PostedAt(m, k) = {} => PostedAt(Tail(m), k) = {}
           /\ AtMostOne(PostedAt(m, k)) => AtMostOne(PostedAt(Tail(m), k))
           /\ Head(m).op = "token" /\ Head(m).req.closes = k
                 => PostedAt(m, k) # {}
           /\ AtMostOne(PostedAt(m, k)) /\ Head(m).op = "token"
                 /\ Head(m).req.closes = k
                 => PostedAt(Tail(m), k) = {}
<1> DEFINE q == Tail(m)
<1>1. /\ Head(m) = m[1]
      /\ Len(m) \in Nat \ {0} /\ DOMAIN m = 1 .. Len(m)
      /\ DOMAIN q = 1 .. Len(m) - 1
      /\ \A i \in 1 .. Len(m) - 1 : q[i] = m[i + 1]
  BY TailFacts
<1> HIDE DEF q
<1>2. \A i \in PostedAt(q, k) : i \in Nat /\ i # 0 /\ i + 1 \in PostedAt(m, k)
  BY <1>1 DEF PostedAt
<1>3. Head(m).op = "token" /\ Head(m).req.closes = k => 1 \in PostedAt(m, k)
  BY <1>1 DEF PostedAt
<1>4. AtMostOne(PostedAt(m, k)) => AtMostOne(PostedAt(q, k))
  BY <1>2 DEF AtMostOne
<1>5. AtMostOne(PostedAt(m, k)) /\ 1 \in PostedAt(m, k) => PostedAt(q, k) = {}
  BY <1>2 DEF AtMostOne
<1> QED
  BY <1>2, <1>3, <1>4, <1>5 DEF q

\* A job leaves the worker queue.
LEMMA ResumedTail ==
    ASSUME NEW w \in Seq(Job), w # <<>>, NEW k
    PROVE  /\ ResumedAt(w, k) = {} => ResumedAt(Tail(w), k) = {}
           /\ AtMostOne(ResumedAt(w, k)) => AtMostOne(ResumedAt(Tail(w), k))
           /\ Head(w).op = "resume" /\ Head(w).closes = k
                 => ResumedAt(w, k) # {}
           /\ AtMostOne(ResumedAt(w, k)) /\ Head(w).op = "resume"
                 /\ Head(w).closes = k
                 => ResumedAt(Tail(w), k) = {}
<1> DEFINE q == Tail(w)
<1>1. /\ Head(w) = w[1]
      /\ Len(w) \in Nat \ {0} /\ DOMAIN w = 1 .. Len(w)
      /\ DOMAIN q = 1 .. Len(w) - 1
      /\ \A i \in 1 .. Len(w) - 1 : q[i] = w[i + 1]
  BY TailFacts
<1> HIDE DEF q
<1>2. \A i \in ResumedAt(q, k) : i \in Nat /\ i # 0 /\ i + 1 \in ResumedAt(w, k)
  BY <1>1 DEF ResumedAt
<1>3. Head(w).op = "resume" /\ Head(w).closes = k => 1 \in ResumedAt(w, k)
  BY <1>1 DEF ResumedAt
<1>4. AtMostOne(ResumedAt(w, k)) => AtMostOne(ResumedAt(q, k))
  BY <1>2 DEF AtMostOne
<1>5. AtMostOne(ResumedAt(w, k)) /\ 1 \in ResumedAt(w, k) => ResumedAt(q, k) = {}
  BY <1>2 DEF AtMostOne
<1> QED
  BY <1>2, <1>3, <1>4, <1>5 DEF q

\* Requests that only move are as many as before.
LEMMA MovesKeep ==
    ASSUME RequestInv, closes \in Nat, closes' = closes, stream' = stream,
           \A k \in Nat : Moves(asked, fetching, main, worker,
                                asked', fetching', main', worker', k)
    PROVE  RequestInv'
  BY DEF RequestInv, Moves, NoneAfter

\* A notification or another job without a request passes.
LEMMA NotifyMoves ==
    ASSUME NEW rs, NEW fs, NEW m \in Seq(Block), NEW w, NEW u \in MaybeUser, NEW k
    PROVE  /\ PostedAt(Append(m, Notify(u)), k) = PostedAt(m, k)
           /\ Moves(rs, fs, m, w, rs, fs, Append(m, Notify(u)), w, k)
<1> DEFINE b == Notify(u)
<1>1. b \in Block /\ b.op # "token"
  BY DEF Notify, Block
<1> HIDE DEF b
<1>2. PostedAt(Append(m, b), k) = PostedAt(m, k)
  BY <1>1, PostedAppend
<1> QED
  BY <1>2 DEF Moves, OnceOK, NoneAt, b

\* A request under way becomes a token on the main queue.
LEMMA FetchMoves ==
    ASSUME NEW rs, NEW fs, NEW f \in fs, NEW m \in Seq(Block), NEW w,
           f[1] \in Request, f[2] \in MaybeUser, NEW ok \in BOOLEAN, NEW k
    PROVE  Moves(rs, fs, m, w,
                 rs, fs \ {f}, Append(m, Token(f[2], ok, f[1])), w, k)
<1> DEFINE b == Token(f[2], ok, f[1])
           q == Append(m, b)
<1>1. b \in Block /\ b.op = "token" /\ b.req = f[1]
  BY DEF Token, Block
<1> HIDE DEF b
<1>2. /\ f[1].closes = k => PostedAt(q, k) = PostedAt(m, k) \cup {Len(m) + 1}
      /\ f[1].closes # k => PostedAt(q, k) = PostedAt(m, k)
  BY <1>1, PostedAppend
<1> HIDE DEF q
<1>3. f[1].closes = k => f \in FetchedAt(fs, k)
  BY DEF FetchedAt
<1>4. FetchedAt(fs \ {f}, k) = FetchedAt(fs, k) \ {f}
  BY DEF AskedAt, FetchedAt
<1>5. CASE f[1].closes = k
  BY <1>2, <1>3, <1>4, <1>5 DEF Moves, OnceOK, NoneAt, AtMostOne, q, b
<1>6. CASE f[1].closes # k
  BY <1>2, <1>4, <1>6 DEF Moves, OnceOK, NoneAt, AtMostOne, q, b
<1> QED
  BY <1>5, <1>6

\* The same, after a notification.
LEMMA NotifiedFetchMoves ==
    ASSUME NEW rs, NEW fs, NEW f \in fs, NEW m \in Seq(Block), NEW w,
           f[1] \in Request, f[2] \in MaybeUser, NEW ok \in BOOLEAN, NEW k,
           NEW u \in MaybeUser
    PROVE  /\ Moves(rs, fs, m, w, rs, fs \ {f},
                    m \o <<Notify(u)>> \o <<Token(f[2], ok, f[1])>>, w, k)
           /\ Moves(rs, fs, m, w, rs, fs \ {f},
                    m \o <<>> \o <<Token(f[2], ok, f[1])>>, w, k)
<1> DEFINE q == Append(m, Notify(u))
           t == Token(f[2], ok, f[1])
<1>1. Notify(u) \in Block /\ t \in Block
  BY DEF Notify, Token, Block
<1>2. q \in Seq(Block)
  BY <1>1, AppendFacts
<1>3. Moves(rs, fs, m, w, rs, fs, q, w, k)
  BY NotifyMoves
<1>4. m \o <<Notify(u)>> \o <<t>> = Append(q, t) /\ m \o <<>> \o <<t>> = Append(m, t)
  BY <1>1, ConcatToken
<1> HIDE DEF q
<1>5. /\ Moves(rs, fs, q, w, rs, fs \ {f}, Append(q, t), w, k)
      /\ Moves(rs, fs, m, w, rs, fs \ {f}, Append(m, t), w, k)
  BY <1>2, FetchMoves
<1>6. Moves(rs, fs, m, w, rs, fs \ {f}, Append(q, t), w, k)
  BY <1>3, <1>5 DEF Moves
<1> QED
  BY <1>4, <1>5, <1>6

\* A request is taken up; without a user it is answered at once.
LEMMA TakeMoves ==
    ASSUME NEW rs, NEW r \in rs, NEW fs, NEW m \in Seq(Block), NEW w,
           r \in Request, NEW u, NEW k
    PROVE  /\ Moves(rs, fs, m, w, rs \ {r}, fs, Append(m, Token(None, TRUE, r)), w, k)
           /\ Moves(rs, fs, m, w, rs \ {r}, fs \cup {<<r, u>>}, m, w, k)
<1> DEFINE b == Token(None, TRUE, r)
           q == Append(m, b)
<1>1. b \in Block /\ b.op = "token" /\ b.req = r
  BY DEF Token, Block, MaybeUser
<1> HIDE DEF b
<1>2. /\ r.closes = k => PostedAt(q, k) = PostedAt(m, k) \cup {Len(m) + 1}
      /\ r.closes # k => PostedAt(q, k) = PostedAt(m, k)
  BY <1>1, PostedAppend
<1> HIDE DEF q
<1>3. r.closes = k => r \in AskedAt(rs, k)
  BY DEF AskedAt
<1>4. AskedAt(rs \ {r}, k) = AskedAt(rs, k) \ {r}
  BY DEF AskedAt, FetchedAt
<1>5. /\ r.closes = k
           => FetchedAt(fs \cup {<<r, u>>}, k) = FetchedAt(fs, k) \cup {<<r, u>>}
      /\ r.closes # k => FetchedAt(fs \cup {<<r, u>>}, k) = FetchedAt(fs, k)
  BY DEF AskedAt, FetchedAt
<1>6. CASE r.closes = k
  BY <1>2, <1>3, <1>4, <1>5, <1>6 DEF Moves, OnceOK, NoneAt, AtMostOne, q, b
<1>7. CASE r.closes # k
  BY <1>2, <1>4, <1>5, <1>7 DEF Moves, OnceOK, NoneAt, AtMostOne, q, b
<1> QED
  BY <1>6, <1>7

\* A token leaves the main queue, for the worker queue or back to Auth.
LEMMA TokenMoves ==
    ASSUME NEW rs, NEW fs, NEW m \in Seq(Block), NEW w \in Seq(Job), m # <<>>,
           Head(m).op = "token", NEW k, NEW r, r.closes = Head(m).req.closes,
           NEW j \in Job, j.op = "resume", j.closes = Head(m).req.closes
    PROVE  /\ Moves(rs, fs, m, w, rs \cup {r}, fs, Tail(m), w, k)
           /\ Moves(rs, fs, m, w, rs, fs, Tail(m), Append(w, j), k)
<1> DEFINE c == Head(m).req.closes
<1>1. /\ PostedAt(m, k) = {} => PostedAt(Tail(m), k) = {}
      /\ AtMostOne(PostedAt(m, k)) => AtMostOne(PostedAt(Tail(m), k))
      /\ c = k => PostedAt(m, k) # {}
      /\ AtMostOne(PostedAt(m, k)) /\ c = k => PostedAt(Tail(m), k) = {}
  BY PostedTail
<1>2. /\ c = k => AskedAt(rs \cup {r}, k) = AskedAt(rs, k) \cup {r}
      /\ c # k => AskedAt(rs \cup {r}, k) = AskedAt(rs, k)
  BY DEF AskedAt, FetchedAt
<1>3. /\ c = k => ResumedAt(Append(w, j), k) = ResumedAt(w, k) \cup {Len(w) + 1}
      /\ c # k => ResumedAt(Append(w, j), k) = ResumedAt(w, k)
  BY ResumedAppend
<1> HIDE DEF c
<1>4. CASE c = k
  BY <1>1, <1>2, <1>3, <1>4 DEF Moves, OnceOK, NoneAt, AtMostOne
<1>5. CASE c # k
  BY <1>1, <1>2, <1>3, <1>5 DEF Moves, OnceOK, NoneAt
<1> QED
  BY <1>4, <1>5

\* A job without a request comes to the worker queue.
LEMMA JobMoves ==
    ASSUME NEW rs, NEW fs, NEW m \in Seq(Block), NEW w \in Seq(Job),
           NEW j \in Job, j.op # "resume", NEW k
    PROVE  /\ Moves(rs, fs, m, w, rs, fs, m, Append(w, j), k)
           /\ m # <<>> => Moves(rs, fs, m, w, rs, fs, Tail(m), Append(w, j), k)
<1>1. ResumedAt(Append(w, j), k) = ResumedAt(w, k)
  BY ResumedAppend
<1>2. m # <<>> => /\ PostedAt(m, k) = {} => PostedAt(Tail(m), k) = {}
                  /\ AtMostOne(PostedAt(m, k)) => AtMostOne(PostedAt(Tail(m), k))
  BY PostedTail
<1> QED
  BY <1>1, <1>2 DEF Moves, OnceOK, NoneAt

\* A job leaves the worker queue.
LEMMA DoneMoves ==
    ASSUME NEW rs, NEW fs, NEW m, NEW w \in Seq(Job), w # <<>>, NEW k
    PROVE  /\ Moves(rs, fs, m, w, rs, fs, m, Tail(w), k)
           /\ OnceOK(rs, fs, m, w, k) /\ Head(w).op = "resume" /\ Head(w).closes = k
                => NoneAt(rs, fs, m, Tail(w), k)
<1>1. /\ ResumedAt(w, k) = {} => ResumedAt(Tail(w), k) = {}
      /\ AtMostOne(ResumedAt(w, k)) => AtMostOne(ResumedAt(Tail(w), k))
      /\ Head(w).op = "resume" /\ Head(w).closes = k => ResumedAt(w, k) # {}
      /\ AtMostOne(ResumedAt(w, k)) /\ Head(w).op = "resume" /\ Head(w).closes = k
           => ResumedAt(Tail(w), k) = {}
  BY ResumedTail
<1> QED
  BY <1>1 DEF Moves, OnceOK, NoneAt

\* The stream starts where it has no request.
LEMMA StartMoves ==
    ASSUME NEW rs, NEW fs, NEW m, NEW w, NEW r, NEW k
    PROVE  /\ NoneAt(rs, fs, m, w, k) => OnceOK(rs \cup {r}, fs, m, w, k)
           /\ r.closes # k /\ NoneAt(rs, fs, m, w, k)
                => NoneAt(rs \cup {r}, fs, m, w, k)
<1>1. /\ r.closes = k => AskedAt(rs \cup {r}, k) = AskedAt(rs, k) \cup {r}
      /\ r.closes # k => AskedAt(rs \cup {r}, k) = AskedAt(rs, k)
  BY DEF AskedAt, FetchedAt
<1> QED
  BY <1>1 DEF OnceOK, NoneAt, AtMostOne

\* There is no request at first.
LEMMA InitRequests == Init => RequestInv
<1> SUFFICES ASSUME Init PROVE RequestInv
  OBVIOUS
<1>1. asked = {} /\ fetching = {} /\ main = <<>> /\ worker = <<>>
  BY DEF Init
<1>2. \A k : NoneAt(asked, fetching, main, worker, k)
  BY <1>1 DEF NoneAt, AskedAt, FetchedAt, PostedAt, ResumedAt
<1>3. OnceOK(asked, fetching, main, worker, closes)
  BY <1>2 DEF NoneAt, OnceOK, AtMostOne
<1> QED
  BY <1>2, <1>3 DEF RequestInv, NoneAfter

\* Auth takes up requests, announces users and brings tokens.
LEMMA RequestsAuth ==
    ASSUME TypeOK, RequestInv,
           \/ \E u \in MaybeUser : UpdateCurrentUser(u)
           \/ AutoTokenRefresh
           \/ \E r \in asked : TakeRequest(r)
           \/ \E f \in fetching : TokenFetched(f)
    PROVE  RequestInv'
<1>1. main \in Seq(Block) /\ closes \in Nat
  BY DEF TypeOK
<1>2. CASE (\E u \in MaybeUser : UpdateCurrentUser(u)) \/ AutoTokenRefresh
  <2>1. PICK u \in MaybeUser : main' = Append(main, Notify(u))
    BY <1>2 DEF UpdateCurrentUser, AutoTokenRefresh, TypeOK
  <2>2. UNCHANGED <<asked, fetching, worker, closes, stream>>
    BY <1>2 DEF UpdateCurrentUser, AutoTokenRefresh, authVars, streamVars
  <2> QED
    BY <1>1, <2>1, <2>2, NotifyMoves, MovesKeep
<1>3. CASE \E r \in asked : TakeRequest(r)
  <2>1. PICK r \in asked : TakeRequest(r)
    BY <1>3
  <2>2. /\ r \in Request /\ asked' = asked \ {r}
        /\ UNCHANGED <<worker, closes, stream>>
    BY <2>1 DEF TakeRequest, streamVars, TypeOK
  <2>3. \/ main' = Append(main, Token(None, TRUE, r)) /\ fetching' = fetching
        \/ main' = main /\ fetching' = fetching \cup {<<r, authUser>>}
    BY <2>1 DEF TakeRequest
  <2>4. \A k \in Nat : Moves(asked, fetching, main, worker,
                             asked', fetching', main', worker', k)
    <3>1. \A k \in Nat :
             /\ Moves(asked, fetching, main, worker, asked \ {r}, fetching,
                      Append(main, Token(None, TRUE, r)), worker, k)
             /\ Moves(asked, fetching, main, worker, asked \ {r},
                      fetching \cup {<<r, authUser>>}, main, worker, k)
      BY <1>1, <2>2, TakeMoves
    <3> QED
      BY <2>2, <2>3, <3>1
  <2> QED
    BY <1>1, <2>2, <2>4, MovesKeep
<1>4. CASE \E f \in fetching : TokenFetched(f)
  <2>1. PICK f \in fetching : TokenFetched(f)
    BY <1>4
  <2>2. /\ f[1] \in Request /\ f[2] \in MaybeUser /\ fetching' = fetching \ {f}
        /\ main' = Append(main, Token(f[2], TRUE, f[1]))
        /\ UNCHANGED <<asked, worker, closes, stream>>
    BY <2>1 DEF TokenFetched, streamVars, TypeOK, MaybeUser
  <2>3. \A k \in Nat : Moves(asked, fetching, main, worker,
                             asked', fetching', main', worker', k)
    BY <1>1, <2>2, FetchMoves
  <2> QED
    BY <1>1, <2>2, <2>3, MovesKeep
<1> QED
  BY <1>2, <1>3, <1>4

\* A round trip for a token ends.
LEMMA RequestsRoundTrip ==
    ASSUME TypeOK, RequestInv, NEW f \in fetching,
           \/ TokenRenewed(f)
           \/ \E gone \in BOOLEAN : TokenFailed(f, gone)
    PROVE  RequestInv'
<1>1. /\ main \in Seq(Block) /\ closes \in Nat
      /\ f[1] \in Request /\ f[2] \in MaybeUser
      /\ None \in MaybeUser
  BY DEF TypeOK, MaybeUser
<1>2. /\ fetching' = fetching \ {f}
      /\ UNCHANGED <<asked, worker, closes, stream>>
  BY DEF TokenRenewed, TokenFailed, streamVars
<1>3. PICK ok \in BOOLEAN, u \in MaybeUser :
          \/ main' = main \o <<Notify(u)>> \o <<Token(f[2], ok, f[1])>>
          \/ main' = main \o <<>> \o <<Token(f[2], ok, f[1])>>
  <2>1. CASE TokenRenewed(f)
    BY <1>1, <2>1 DEF TokenRenewed
  <2>2. CASE \E gone \in BOOLEAN : TokenFailed(f, gone)
    BY <1>1, <2>2 DEF TokenFailed
  <2> QED
    BY <2>1, <2>2
<1>4. \A k \in Nat : Moves(asked, fetching, main, worker,
                           asked', fetching', main', worker', k)
  <2>1. \A k \in Nat :
           /\ Moves(asked, fetching, main, worker, asked, fetching \ {f},
                    main \o <<Notify(u)>> \o <<Token(f[2], ok, f[1])>>, worker, k)
           /\ Moves(asked, fetching, main, worker, asked, fetching \ {f},
                    main \o <<>> \o <<Token(f[2], ok, f[1])>>, worker, k)
    BY <1>1, NotifiedFetchMoves
  <2> QED
    BY <1>2, <1>3, <2>1
<1> QED
  BY <1>1, <1>2, <1>4, MovesKeep

\* The main queue passes users, tokens and writes on.
LEMMA RequestsMain ==
    ASSUME TypeOK, RequestInv, HandleNotify \/ HandleToken \/ AppWrite
    PROVE  RequestInv'
<1>1. /\ main \in Seq(Block) /\ worker \in Seq(Job) /\ closes \in Nat
      /\ main # <<>> => Head(main) \in Block
  BY TailFacts DEF TypeOK
<1>2. CASE HandleNotify \/ AppWrite
  <2>1. PICK j \in Job : j.op # "resume" /\ worker' = Append(worker, j)
    <3>1. CASE HandleNotify
      <4>1. main # <<>> /\ Head(main).op = "notify" /\ Head(main).user \in MaybeUser
        BY <1>1, <3>1 DEF HandleNotify, Block
      <4>2. Change(Head(main).user) \in Job /\ Change(Head(main).user).op # "resume"
        BY <4>1 DEF Change, Job
      <4> QED
        BY <3>1, <4>2 DEF HandleNotify
    <3>2. CASE AppWrite
      <4>1. WriteOf(provUser) \in Job /\ WriteOf(provUser).op # "resume"
        BY DEF WriteOf, Job, TypeOK
      <4> QED
        BY <3>2, <4>1 DEF AppWrite
    <3> QED
      BY <1>2, <3>1, <3>2
  <2>2. /\ main' = main \/ (main # <<>> /\ main' = Tail(main))
        /\ UNCHANGED <<asked, fetching, closes, stream>>
    BY <1>2 DEF HandleNotify, AppWrite, authVars, streamVars
  <2>3. \A k \in Nat : Moves(asked, fetching, main, worker,
                             asked', fetching', main', worker', k)
    BY <1>1, <2>1, <2>2, JobMoves
  <2> QED
    BY <1>1, <2>2, <2>3, MovesKeep
<1>3. CASE HandleToken
  <2> DEFINE b == Head(main)
             r == [b.req EXCEPT !.counter = counter]
             j == Resume(b.user, b.ok, b.req.closes)
  <2>1. /\ main # <<>> /\ b.op = "token" /\ b.req \in Request
        /\ b.user \in MaybeUser /\ b.ok \in BOOLEAN
    BY <1>1, <1>3 DEF HandleToken, Block
  <2>2. r.closes = b.req.closes
    BY <2>1 DEF Request
  <2>3. j \in Job /\ j.op = "resume" /\ j.closes = b.req.closes
    BY <2>1 DEF Resume, Job, Request
  <2>4. /\ main' = Tail(main)
        /\ \/ asked' = asked \cup {r} /\ worker' = worker
           \/ worker' = Append(worker, j) /\ asked' = asked
        /\ UNCHANGED <<fetching, closes, stream>>
    BY <1>3 DEF HandleToken, streamVars
  <2> HIDE DEF r, j
  <2>5. \A k \in Nat : Moves(asked, fetching, main, worker,
                             asked', fetching', main', worker', k)
    <3>1. \A k \in Nat :
             /\ Moves(asked, fetching, main, worker, asked \cup {r}, fetching,
                      Tail(main), worker, k)
             /\ Moves(asked, fetching, main, worker, asked, fetching,
                      Tail(main), Append(worker, j), k)
      BY <1>1, <2>1, <2>2, <2>3, TokenMoves
    <3> QED
      BY <2>4, <3>1
  <2> QED
    BY <1>1, <2>4, <2>5, MovesKeep
<1> QED
  BY <1>2, <1>3

\* A close leaves every request behind.
LEMMA CountedClose ==
    ASSUME closes \in Nat, RequestInv
    PROVE  /\ NoneAt(asked, fetching, main, worker, closes + 1)
           /\ NoneAfter(asked, fetching, main, worker, closes + 1)
  BY DEF RequestInv, NoneAfter

\* The stream starts at close count n, which has no request.
LEMMA RequestsStart ==
    ASSUME NEW n \in Nat, NEW w, closes' = n, StartAt(n), worker' = w,
           UNCHANGED <<fetching, main>>,
           NoneAt(asked, fetching, main, w, n),
           NoneAfter(asked, fetching, main, w, n)
    PROVE  RequestInv'
<1> DEFINE r == [counter |-> counter, closes |-> n]
<1>1. asked' = asked \cup {r} /\ stream' = "Starting" /\ r.closes = n
  BY DEF StartAt
<1> HIDE DEF r
<1>2. OnceOK(asked', fetching', main', worker', n)
  BY <1>1, StartMoves
<1>3. ASSUME NEW k \in Nat, k > n
      PROVE  NoneAt(asked', fetching', main', worker', k)
  <2>1. NoneAt(asked, fetching, main, w, k) /\ r.closes # k
    BY <1>1, <1>3 DEF NoneAfter
  <2> QED
    BY <1>1, <2>1, StartMoves
<1> QED
  BY <1>1, <1>2, <1>3 DEF RequestInv, NoneAfter

\* The stream starts, is closed, or a job of the worker queue is done.
LEMMA RequestsWorker ==
    ASSUME TypeOK, RequestInv,
           StartStream \/ CloseStream \/ HandleChange \/ HandleResume \/ HandleWrite
    PROVE  RequestInv'
<1>1. closes \in Nat /\ worker \in Seq(Job)
  BY DEF TypeOK
<1>2. CASE StartStream
  <2>1. /\ closes' = closes /\ StartAt(closes) /\ worker' = worker
        /\ UNCHANGED <<fetching, main>> /\ stream # "Starting"
    BY <1>2 DEF StartStream
  <2> QED
    BY <1>1, <2>1, RequestsStart DEF RequestInv
<1>3. CASE CloseStream
  <2>1. /\ closes' = closes + 1 /\ UNCHANGED <<asked, fetching, main, worker>>
    BY <1>3 DEF CloseStream, authVars
  <2> QED
    BY <1>1, <2>1, CountedClose DEF RequestInv, NoneAt, OnceOK, AtMostOne
<1>4. ASSUME worker # <<>>
      PROVE  \A k : Moves(asked, fetching, main, worker,
                          asked, fetching, main, Tail(worker), k)
  BY <1>1, <1>4, DoneMoves
<1>5. ASSUME worker # <<>>, NEW n \in {closes, closes + 1},
             n = closes => stream # "Starting"
      PROVE  /\ NoneAt(asked, fetching, main, Tail(worker), n)
             /\ NoneAfter(asked, fetching, main, Tail(worker), n)
  <2>1. /\ NoneAt(asked, fetching, main, worker, n)
        /\ NoneAfter(asked, fetching, main, worker, n)
    BY <1>1, <1>5, CountedClose DEF RequestInv
  <2> QED
    BY <1>4, <1>5, <2>1 DEF Moves, NoneAfter
<1>6. CASE HandleChange
  <2>1. /\ worker # <<>> /\ worker' = Tail(worker)
        /\ closes' \in {closes, closes + 1}
        /\ closes' = closes => stream # "Starting"
        /\ UNCHANGED <<fetching, main>>
    BY <1>1, <1>6 DEF HandleChange
  <2>2. /\ NoneAt(asked, fetching, main, worker', closes')
        /\ NoneAfter(asked, fetching, main, worker', closes')
    BY <1>5, <2>1
  <2>3. closes' \in Nat
    BY <1>1, <2>1
  <2>4. CASE StartAt(closes')
    BY <2>1, <2>2, <2>3, <2>4, RequestsStart
  <2>5. CASE UNCHANGED asked
    <3>1. OnceOK(asked, fetching, main, worker', closes')
      BY <2>2 DEF NoneAt, OnceOK, AtMostOne
    <3> QED
      BY <2>1, <2>2, <2>5, <3>1 DEF RequestInv
  <2> QED
    BY <1>6, <2>4, <2>5 DEF HandleChange
<1>7. CASE HandleWrite
  <2>1. /\ worker # <<>> /\ worker' = Tail(worker)
        /\ UNCHANGED <<asked, fetching, main, closes, stream>>
    BY <1>7 DEF HandleWrite, authVars, streamVars
  <2> QED
    BY <1>1, <1>4, <2>1, MovesKeep
<1>8. CASE HandleResume
  <2> DEFINE j == Head(worker)
  <2>1. /\ worker # <<>> /\ worker' = Tail(worker) /\ j.op = "resume"
        /\ UNCHANGED <<asked, fetching, main>>
    BY <1>8 DEF HandleResume, authVars
  <2>2. CASE j.closes # closes
    <3>1. UNCHANGED <<closes, stream>>
      BY <1>8, <2>2 DEF HandleResume
    <3> QED
      BY <1>1, <1>4, <2>1, <3>1, MovesKeep
  <2>3. CASE j.closes = closes /\ j.ok
    <3>1. closes' = closes
      BY <1>8, <2>3 DEF HandleResume
    <3>2. NoneAt(asked, fetching, main, worker', closes)
      BY <1>1, <2>1, <2>3, DoneMoves DEF RequestInv
    <3>3. NoneAfter(asked, fetching, main, worker', closes)
      BY <1>4, <2>1 DEF RequestInv, NoneAfter, Moves
    <3>4. OnceOK(asked, fetching, main, worker', closes)
      BY <3>2 DEF NoneAt, OnceOK, AtMostOne
    <3> QED
      BY <2>1, <3>1, <3>2, <3>3, <3>4 DEF RequestInv
  <2>4. CASE j.closes = closes /\ ~j.ok
    <3>1. closes' = closes + 1
      BY <1>8, <2>4 DEF HandleResume
    <3>2. /\ NoneAt(asked, fetching, main, worker', closes')
          /\ NoneAfter(asked, fetching, main, worker', closes')
      BY <1>1, <1>5, <2>1, <3>1
    <3>3. OnceOK(asked, fetching, main, worker', closes')
      BY <3>2 DEF NoneAt, OnceOK, AtMostOne
    <3> QED
      BY <2>1, <3>2, <3>3 DEF RequestInv
  <2> QED
    BY <2>2, <2>3, <2>4
<1> QED
  BY <1>2, <1>3, <1>6, <1>7, <1>8

\* Every step of the specification keeps the requests apart.
LEMMA NextRequests == TypeOK /\ RequestInv /\ [Next]_vars => RequestInv'
<1> SUFFICES ASSUME TypeOK, RequestInv, [Next]_vars
             PROVE  RequestInv'
  OBVIOUS
<1>1. CASE Next
  BY <1>1, RequestsAuth, RequestsRoundTrip, RequestsMain, RequestsWorker
     DEF Next, AuthStep, MainStep, WorkerStep
<1>2. CASE UNCHANGED vars
  BY <1>2 DEF vars, RequestInv
<1> QED
  BY <1>1, <1>2

-----------------------------------------------------------------------------
(* The theorems *)

\* The invariant above holds in every state of the token flow.
THEOREM CredentialInvariant == Spec => []CredInv
  BY InitCred, NextCred, PTL DEF Spec

\* The variables of Auth, the provider and the stream keep their types.
THEOREM CredentialTypes == Spec => []TypeOK
<1>1. CredInv => TypeOK
  BY DEF CredInv
<1> QED
  BY <1>1, CredentialInvariant, PTL

\* HandleCredentialChange and the two counters: an open write stream carries
\* the token of the user whose mutation queue it empties.
THEOREM CallMatchesQueueAlways == Spec => []CallMatchesQueue
<1>1. CredInv => CallMatchesQueue
  BY DEF CredInv
<1> QED
  BY <1>1, CredentialInvariant, PTL

\* The listeners are told before the app can write: WriteMutations finds the
\* mutation queue of the user the app wrote for.
THEOREM WriteJoinsItsQueueAlways == Spec => []WriteJoinsItsQueue
<1>1. CredInv => WriteJoinsItsQueue
  BY JobTail DEF CredInv, TypeOK, WriteJoinsItsQueue
<1> QED
  BY <1>1, CredentialInvariant, PTL

\* close_count_ and RequestCredentials: a start asks for one token, and the
\* token that is taken finds the stream in Starting, so that the assertion of
\* ResumeStartWithCredentials never fails.
THEOREM ResumeFindsStartingAlways == Spec => []ResumeFindsStarting
<1>1. TypeOK /\ RequestInv => ResumeFindsStarting
  <2> SUFFICES ASSUME TypeOK, RequestInv, stream # "Starting",
                      NEW i \in DOMAIN worker,
                      worker[i].op = "resume", worker[i].closes = closes
               PROVE  FALSE
    BY DEF ResumeFindsStarting
  <2>1. i \in ResumedAt(worker, closes)
    BY DEF ResumedAt
  <2> QED
    BY <2>1 DEF RequestInv, NoneAt
<1> QED
  BY <1>1, InitRequests, NextRequests, CredentialTypes, PTL DEF Spec

=============================================================================
