---------------------------- MODULE NoteSyncProofs ----------------------------
(***************************************************************************)
(* TLAPS proofs about NoteSync, for any devices, titles, number of writes  *)
(* and number of faults.                                                   *)
(***************************************************************************)
EXTENDS NoteSync, SequenceTheorems, FiniteSetTheorems, WellFoundedInduction,
        TLAPS

\* Only a delete has no title, and only a document that is found has one.
ProperMutation(m) == m \in Mutation /\ (m.op = "delete" <=> m.title = NoTitle)
ProperDoc(doc) == doc \in Document /\ (Found(doc) <=> doc.title # NoTitle)

\* A document with the mask of its changed fields: local exactly if some are.
Mask == {"none", "title", "all"}
ProperLayer(o) ==
    /\ o = Overlayed(o.doc, o.mask) /\ ProperDoc(o.doc) /\ o.mask \in Mask
    /\ o.mask = "none" => o.doc.state # "local"
    /\ o.mask = "title" => Found(o.doc)

ProperQueue(q) ==
    q \in Seq(Batch) /\ \A i \in DOMAIN q : ProperMutation(q[i].m)

\* There is at most one overlay, and its batch is in the queue.
ProperOverlay(overlay, q) ==
    /\ overlay \subseteq Batch
    /\ \A x, y \in overlay : x = y
    /\ \A x \in overlay : ProperMutation(x.m)
    /\ \A x \in overlay : \E i \in DOMAIN q : q[i].id = x.id

\* What the list shows of doc once it was last told of it.
Shows(view, doc) ==
    /\ Found(view) <=> Found(doc)
    /\ view.title = doc.title \/ doc.state = "committed"

StoreInv(s) ==
    /\ s \in Store
    /\ ProperQueue(s.queue)
    /\ ProperOverlay(s.overlay, s.queue)
    /\ ProperDoc(s.cache) /\ s.cache.state # "local"
    /\ ProperDoc(s.view)
    /\ s.queue = <<>> => Shows(s.view, s.cache)

\* A result is of a queued write, and names a version with its title.
ResultsOK(r, q, srv) ==
    /\ r \in Seq(Version \cup {Refused})
    /\ Len(r) <= Len(q)
    /\ \A i \in DOMAIN r :
          r[i] # Refused => r[i] \in DOMAIN srv /\ srv[r[i]] = q[i].m.title

CacheOK(doc, srv) ==
    doc.type \in {"found", "none"} =>
        doc.version \in DOMAIN srv /\ doc.title = srv[doc.version]

\* The ids up to n are given once, whatever the device.
IdsOK(st, n) ==
    \A d, e \in Devices :
        \A i \in DOMAIN st[d].queue, j \in DOMAIN st[e].queue :
            /\ st[d].queue[i].id \in 1 .. n
            /\ st[d].queue[i].id = st[e].queue[j].id => d = e /\ i = j

\* The writes that have no result on its way.
Unserved(st, rs, n) ==
    {id \in 1 .. n :
        \E d \in Devices : \E i \in DOMAIN st[d].queue :
            i > Len(rs[d]) /\ st[d].queue[i].id = id}

\* A write makes a version for its first sending and for every fault.
BudgetOK(srv, st, rs, n, f) ==
    Len(srv) + Cardinality(Unserved(st, rs, n)) <= n + f * MaxWrites

SyncInv ==
    /\ store \in [Devices -> Store] /\ details \subseteq Devices
    /\ results \in [Devices -> Seq(Version \cup {Refused})]
    /\ seen \in [Devices -> Version]
    /\ server \in Seq(Title)
    /\ issued \in 0 .. MaxWrites /\ faults \in 0 .. MaxFaults
    /\ \A d \in Devices :
          /\ StoreInv(store[d])
          /\ ResultsOK(results[d], store[d].queue, server)
          /\ CacheOK(store[d].cache, server)
    /\ IdsOK(store, issued)
    /\ BudgetOK(server, store, results, issued, faults)

-----------------------------------------------------------------------------
(* Numbers and sequences *)

\* Every set of natural numbers has a least element.
LEMMA LeastNumber ==
    ASSUME NEW T \in SUBSET Nat, T # {}
    PROVE  \E x \in T : \A y \in T : x <= y
<1> DEFINE R == {p \in Nat \X Nat : p[1] < p[2]}
<1>1. IsWellFoundedOn(R, Nat)
  BY NatLessThanWellFounded DEF OpToRel
<1>2. PICK x \in T : \A y \in T : ~ (<<y, x>> \in R)
  <2>1. T \subseteq Nat
    OBVIOUS
  <2> HIDE DEF R
  <2> QED
    BY <1>1, <2>1, WFMin
<1>3. \A y \in T : ~ (y < x)
  BY <1>2
<1> QED
  BY <1>3

\* The bound on the versions, by the faults that have happened.
LEMMA Budget ==
    ASSUME NEW n \in 0 .. MaxWrites, NEW f \in 0 .. MaxFaults
    PROVE  /\ MaxWrites * (MaxFaults + 1) \in Nat
           /\ f * MaxWrites \in Nat
           /\ n + f * MaxWrites <= MaxWrites * (MaxFaults + 1)
           /\ (f + 1) * MaxWrites = f * MaxWrites + MaxWrites
           /\ 0 \in Version
<1>1. MaxWrites \in Nat /\ MaxFaults \in Nat
  BY NoteSyncAssumption
<1>2. \A a, b \in Nat : a * b \in Nat
  OBVIOUS
<1>3. \A a, b, c \in Nat : a <= b => a * c <= b * c
  OBVIOUS
<1>4. (f + 1) * MaxWrites = f * MaxWrites + MaxWrites
  BY <1>1
<1>5. (MaxFaults + 1) * MaxWrites = MaxFaults * MaxWrites + MaxWrites
  BY <1>1
<1>6. MaxWrites * (MaxFaults + 1) = (MaxFaults + 1) * MaxWrites
  BY <1>1
<1>7. f * MaxWrites <= MaxFaults * MaxWrites
  BY <1>1, <1>3
<1>8. f * MaxWrites \in Nat /\ MaxFaults * MaxWrites \in Nat
  BY <1>1, <1>2
<1>9. n + f * MaxWrites <= MaxWrites * (MaxFaults + 1)
  BY <1>1, <1>5, <1>6, <1>7, <1>8
<1>10. MaxWrites * (MaxFaults + 1) \in Nat
  BY <1>1, <1>2
<1> QED
  BY <1>4, <1>8, <1>9, <1>10 DEF Version

\* What Append does to a queue, element by element.
LEMMA AppendFacts ==
    ASSUME NEW S, NEW s \in Seq(S), NEW x \in S
    PROVE  /\ Append(s, x) \in Seq(S)
           /\ DOMAIN s = 1 .. Len(s) /\ Len(s) \in Nat
           /\ Len(Append(s, x)) = Len(s) + 1
           /\ DOMAIN Append(s, x) = 1 .. Len(s) + 1
           /\ Append(s, x) # <<>>
           /\ \A i \in 1 .. Len(s) : Append(s, x)[i] = s[i]
           /\ Append(s, x)[Len(s) + 1] = x
  BY AppendProperties, LenProperties

\* What Tail and Head do to a queue that is not empty.
LEMMA TailFacts ==
    ASSUME NEW S, NEW s \in Seq(S), s # <<>>
    PROVE  /\ Tail(s) \in Seq(S) /\ Head(s) \in S /\ Head(s) = s[1]
           /\ Len(s) \in Nat \ {0} /\ DOMAIN s = 1 .. Len(s)
           /\ Len(Tail(s)) = Len(s) - 1
           /\ DOMAIN Tail(s) = 1 .. Len(s) - 1
           /\ \A i \in 1 .. Len(s) - 1 : Tail(s)[i] = s[i + 1]
           /\ Tail(s) = <<>> <=> Len(s) = 1
<1>1. /\ Len(s) \in Nat \ {0} /\ DOMAIN s = 1 .. Len(s)
      /\ Tail(s) \in Seq(S) /\ Head(s) \in S /\ Head(s) = s[1]
      /\ Len(Tail(s)) = Len(s) - 1
      /\ \A i \in 1 .. Len(s) - 1 : Tail(s)[i] = s[i + 1]
  BY HeadTailProperties, LenProperties, EmptySeq
<1>2. DOMAIN Tail(s) = 1 .. Len(s) - 1
  BY <1>1, LenProperties
<1>3. Tail(s) = <<>> <=> Len(Tail(s)) = 0
  BY <1>1, EmptySeq
<1> QED
  BY <1>1, <1>2, <1>3

-----------------------------------------------------------------------------
(* Documents *)

\* ApplyToLocalView keeps documents proper.
LEMMA LocalView ==
    ASSUME NEW m, ProperMutation(m), NEW doc, ProperDoc(doc), NEW exists \in BOOLEAN
    PROVE  /\ ProperDoc(ApplyToLocalView(m, doc, exists))
           /\ ~(m.op = "patch" /\ exists /\ ~Found(doc))
                => /\ ApplyToLocalView(m, doc, exists).state = "local"
                   /\ Found(ApplyToLocalView(m, doc, exists)) <=> m.op # "delete"
           /\ m.op = "patch" /\ exists /\ ~Found(doc)
                => ApplyToLocalView(m, doc, exists) = doc
<1>1. 0 \in Version /\ NoTitle \in Title
  BY Budget, NoteSyncAssumption DEF Title
<1>2. /\ m.op \in {"set", "patch", "delete"} /\ m.title \in Title
      /\ m.op = "delete" <=> m.title = NoTitle
  BY DEF ProperMutation, Mutation
<1>3. CASE m.op = "delete"
  <2>1. ApplyToLocalView(m, doc, exists) = Doc("none", 0, NoTitle, "local")
    BY <1>3 DEF ApplyToLocalView
  <2> QED
    BY <1>1, <1>3, <2>1 DEF Doc, ProperDoc, Document, Found
<1>4. CASE m.op = "patch" /\ exists /\ ~Found(doc)
  BY <1>4 DEF ApplyToLocalView
<1>5. CASE m.op # "delete" /\ ~(m.op = "patch" /\ exists /\ ~Found(doc))
  <2>1. ApplyToLocalView(m, doc, exists) = Doc("found", 0, m.title, "local")
    BY <1>5 DEF ApplyToLocalView
  <2> QED
    BY <1>1, <1>2, <1>5, <2>1 DEF Doc, ProperDoc, Document, Found
<1> QED
  BY <1>3, <1>4, <1>5

\* The fields of a layer.
LEMMA LayerFields ==
    ASSUME NEW doc, NEW mask
    PROVE  /\ Overlayed(doc, mask).doc = doc /\ Overlayed(doc, mask).mask = mask
           /\ Overlayed(doc, mask)
                = Overlayed(Overlayed(doc, mask).doc, Overlayed(doc, mask).mask)
  BY DEF Overlayed

\* A document is the first layer.
LEMMA BaseLayer ==
    ASSUME NEW doc, ProperDoc(doc), doc.state # "local"
    PROVE  ProperLayer(Overlayed(doc, "none"))
<1> DEFINE o == Overlayed(doc, "none")
<1>1. o = Overlayed(o.doc, o.mask) /\ o.doc = doc /\ o.mask = "none"
  BY LayerFields
<1> HIDE DEF o
<1> QED
  BY <1>1 DEF ProperLayer, Mask, o

\* Every batch puts a layer on top.
LEMMA NextLayer ==
    ASSUME NEW o, ProperLayer(o), NEW b, ProperMutation(b.m)
    PROVE  ProperLayer(ApplyBatch(o, b))
<1> DEFINE doc == ApplyToLocalView(b.m, o.doc, TRUE)
           skipped == b.m.op = "patch" /\ ~Found(o.doc)
           mask == IF skipped THEN o.mask
                   ELSE IF b.m.op = "patch" /\ o.mask # "all" THEN "title"
                   ELSE "all"
           p == ApplyBatch(o, b)
<1>1. p = Overlayed(p.doc, p.mask) /\ p.doc = doc /\ p.mask = mask
  <2>1. p = Overlayed(doc, mask)
    BY DEF ApplyBatch
  <2> HIDE DEF p, doc, mask
  <2> QED
    BY <2>1, LayerFields
<1>2. /\ ProperDoc(doc)
      /\ ~skipped => doc.state = "local" /\ (Found(doc) <=> b.m.op # "delete")
      /\ skipped => doc = o.doc
  BY LocalView DEF ProperLayer
<1> HIDE DEF p, doc
<1>3. CASE skipped
  BY <1>1, <1>2, <1>3 DEF ProperLayer, p
<1>4. CASE ~skipped
  BY <1>1, <1>2, <1>4 DEF ProperLayer, Mask, p
<1> QED
  BY <1>3, <1>4

\* ComputeViews puts the overlay on top.
LEMMA OverlayLayer ==
    ASSUME NEW doc, ProperDoc(doc), doc.state # "local",
           NEW overlay, NEW q, ProperOverlay(overlay, q)
    PROVE  /\ ProperLayer(View(doc, overlay))
           /\ overlay = {} => View(doc, overlay).doc = doc
<1>1. CASE overlay = {}
  <2>1. View(doc, overlay) = Overlayed(doc, "none")
    BY <1>1 DEF View
  <2> QED
    BY <2>1, BaseLayer, LayerFields
<1>2. CASE overlay # {}
  <2> DEFINE x == CHOOSE x \in overlay : TRUE
             v == ApplyToLocalView(x.m, doc, FALSE)
             mask == IF x.m.op = "patch" THEN "title" ELSE "all"
             p == View(doc, overlay)
  <2>1. ProperMutation(x.m)
    BY <1>2 DEF ProperOverlay
  <2>2. p = Overlayed(p.doc, p.mask) /\ p.doc = v /\ p.mask = mask
    <3>1. p = Overlayed(v, mask)
      BY <1>2 DEF View
    <3> HIDE DEF p, v, mask
    <3> QED
      BY <3>1, LayerFields
  <2> HIDE DEF x
  <2>3. ProperDoc(v) /\ v.state = "local" /\ (Found(v) <=> x.m.op # "delete")
    BY <2>1, LocalView
  <2> HIDE DEF v, p
  <2>4. ProperLayer(p)
    BY <2>2, <2>3 DEF ProperLayer, Mask
  <2> QED
    BY <1>2, <2>4 DEF p
<1> QED
  BY <1>1, <1>2

\* CalculateOverlayMutation gives an overlay for a queue that holds id.
LEMMA NewOverlay ==
    ASSUME NEW o, ProperLayer(o), NEW q, NEW i \in DOMAIN q, NEW id \in 1 .. MaxWrites,
           q[i].id = id
    PROVE  ProperOverlay(CalculateOverlay(o, id), q)
<1> DEFINE op == IF o.mask # "all" THEN "patch"
                 ELSE IF Found(o.doc) THEN "set" ELSE "delete"
           m == [op |-> op, title |-> o.doc.title]
           x == [id |-> id, m |-> m]
<1>1. CASE o.doc.state # "local"
  <2>1. CalculateOverlay(o, id) = {}
    BY <1>1 DEF CalculateOverlay
  <2> QED
    BY <2>1 DEF ProperOverlay
<1>2. CASE o.doc.state = "local"
  <2>1. CalculateOverlay(o, id) = {x}
    BY <1>2 DEF CalculateOverlay
  <2>2. /\ ProperDoc(o.doc) /\ o.mask \in {"title", "all"}
        /\ o.mask = "title" => Found(o.doc)
        /\ o.doc.title \in Title
    BY <1>2 DEF ProperLayer, ProperDoc, Document, Mask
  <2>3. ProperMutation(m)
    BY <2>2 DEF ProperMutation, Mutation, ProperDoc
  <2> HIDE DEF m
  <2>4. x \in Batch /\ x.m = m /\ x.id = id
    BY <2>3 DEF Batch, ProperMutation
  <2> HIDE DEF x
  <2> QED
    BY <2>1, <2>3, <2>4 DEF ProperOverlay
<1> QED
  BY <1>1, <1>2

-----------------------------------------------------------------------------
(* The queue on top of a document *)

\* The layers of the first k batches of q, from layer o on.
Layers(f, o, q, k) ==
    f = [n \in 0 .. k |-> IF n = 0 THEN o ELSE ApplyBatch(f[n - 1], q[n])]

\* Such layers exist, whatever the length.
LEMMA LayersExist ==
    ASSUME NEW o, NEW q, NEW k \in Nat
    PROVE  \E f : Layers(f, o, q, k)
<1> DEFINE T == {n \in Nat : ~ \E f : Layers(f, o, q, n)}
<1>1. SUFFICES ASSUME T # {} PROVE FALSE
  OBVIOUS
<1>2. PICK n \in T : \A y \in T : n <= y
  BY <1>1, LeastNumber
<1>3. CASE n = 0
  <2> DEFINE g == [i \in 0 .. 0 |-> o]
  <2>1. g = [i \in 0 .. 0 |-> IF i = 0 THEN o ELSE ApplyBatch(g[i - 1], q[i])]
    OBVIOUS
  <2>2. Layers(g, o, q, 0)
    BY <2>1 DEF Layers
  <2> QED
    BY <1>3, <2>2
<1>4. CASE n # 0
  <2>1. n \in Nat /\ n - 1 \in Nat /\ ~(n - 1 \in T)
    BY <1>2, <1>4
  <2>2. PICK f : Layers(f, o, q, n - 1)
    BY <2>1
  <2> DEFINE h == [i \in 0 .. n |-> IF i = n THEN ApplyBatch(f[n - 1], q[n])
                                    ELSE f[i]]
  <2>3. ASSUME NEW i \in 0 .. n
        PROVE  h[i] = IF i = 0 THEN o ELSE ApplyBatch(h[i - 1], q[i])
    <3>1. \A j \in 0 .. n - 1 :
             h[j] = f[j] /\ f[j] = IF j = 0 THEN o ELSE ApplyBatch(f[j - 1], q[j])
      BY <2>1, <2>2 DEF Layers
    <3>2. h[n] = ApplyBatch(f[n - 1], q[n])
      BY <2>1
    <3> HIDE DEF h
    <3>3. CASE i = n
      BY <1>4, <2>1, <3>1, <3>2, <3>3
    <3>4. CASE i # n
      <4>1. i \in 0 .. n - 1 /\ (i # 0 => i - 1 \in 0 .. n - 1)
        BY <2>1, <3>4
      <4> QED
        BY <3>1, <4>1
    <3> QED
      BY <3>3, <3>4
  <2>4. h = [i \in 0 .. n |-> h[i]]
    OBVIOUS
  <2> HIDE DEF h
  <2>5. Layers(h, o, q, n)
    BY <2>3, <2>4 DEF Layers
  <2> QED
    BY <1>2, <2>5
<1> QED
  BY <1>3, <1>4

\* ApplyQueue is the last of them.
LEMMA ApplyQueueLayers ==
    ASSUME NEW doc, NEW q, Len(q) \in Nat
    PROVE  \E f : /\ Layers(f, Overlayed(doc, "none"), q, Len(q))
                  /\ ApplyQueue(doc, q) = f[Len(q)]
<1> DEFINE o == Overlayed(doc, "none")
           upTo == CHOOSE f : Layers(f, o, q, Len(q))
<1>1. Layers(upTo, o, q, Len(q))
  <2> HIDE DEF o
  <2> QED
    BY LayersExist
<1>2. ApplyQueue(doc, q) = upTo[Len(q)]
  BY DEF ApplyQueue, Layers
<1> QED
  BY <1>1, <1>2

\* The queue on top of a document: RecalculateAndSaveOverlays.
LEMMA QueueLayer ==
    ASSUME NEW doc, ProperDoc(doc), doc.state # "local", NEW q, ProperQueue(q)
    PROVE  /\ ProperLayer(ApplyQueue(doc, q))
           /\ q = <<>> => ApplyQueue(doc, q).doc = doc
<1> DEFINE o == Overlayed(doc, "none")
<1>1. q \in Seq(Batch) /\ Len(q) \in Nat /\ DOMAIN q = 1 .. Len(q)
  BY LenProperties DEF ProperQueue
<1>2. PICK f : Layers(f, o, q, Len(q)) /\ ApplyQueue(doc, q) = f[Len(q)]
  BY <1>1, ApplyQueueLayers
<1>3. ProperLayer(o) /\ o.doc = doc
  BY BaseLayer, LayerFields
<1> HIDE DEF o
<1>4. \A n \in 0 .. Len(q) :
         f[n] = IF n = 0 THEN o ELSE ApplyBatch(f[n - 1], q[n])
  BY <1>2 DEF Layers
<1> DEFINE T == {n \in 0 .. Len(q) : ~ProperLayer(f[n])}
<1>5. T = {}
  <2> SUFFICES ASSUME T # {} PROVE FALSE
    OBVIOUS
  <2>1. T \in SUBSET Nat
    BY <1>1
  <2>2. PICK n \in T : \A y \in T : n <= y
    BY <2>1, LeastNumber
  <2>3. n \in 0 .. Len(q) /\ ~ProperLayer(f[n])
    OBVIOUS
  <2>4. n # 0
    BY <1>3, <1>4, <2>3
  <2>5. n - 1 \in 0 .. Len(q) /\ ~(n - 1 \in T) /\ n \in DOMAIN q
    BY <1>1, <2>2, <2>3, <2>4
  <2>6. ProperLayer(f[n - 1]) /\ ProperMutation(q[n].m)
    BY <2>5 DEF ProperQueue
  <2>7. f[n] = ApplyBatch(f[n - 1], q[n])
    BY <1>4, <2>3, <2>4
  <2> QED
    BY <2>3, <2>6, <2>7, NextLayer
<1>6. q = <<>> => Len(q) = 0
  BY <1>1, EmptySeq
<1> QED
  BY <1>1, <1>2, <1>3, <1>4, <1>5, <1>6

\* RecalculateAndSaveOverlays leaves one overlay of the queue.
LEMMA RecalculateOverlay ==
    ASSUME NEW doc, ProperDoc(doc), doc.state # "local", NEW q, ProperQueue(q),
           NEW overlay, ProperOverlay(overlay, q)
    PROVE  ProperOverlay(Recalculate(doc, q, overlay), q)
<1>1. CASE q = <<>>
  BY <1>1 DEF Recalculate
<1>2. CASE q # <<>>
  <2> DEFINE o == ApplyQueue(doc, q)
             id == Last(q).id
  <2>1. /\ q \in Seq(Batch) /\ Len(q) \in Nat \ {0} /\ DOMAIN q = 1 .. Len(q)
    BY <1>2, TailFacts DEF ProperQueue
  <2>2. Len(q) \in DOMAIN q /\ q[Len(q)] \in Batch /\ Last(q) = q[Len(q)]
    BY <2>1, ElementOfSeq DEF Last
  <2>3. id \in 1 .. MaxWrites /\ q[Len(q)].id = id
    BY <2>2 DEF Batch
  <2>4. ProperLayer(o)
    BY QueueLayer
  <2> HIDE DEF o, id
  <2>5. ProperOverlay(CalculateOverlay(o, id), q)
    BY <2>2, <2>3, <2>4, NewOverlay
  <2>6. Recalculate(doc, q, overlay) \in {overlay, CalculateOverlay(o, id)}
    BY <1>2 DEF Recalculate, SaveOverlays, o, id
  <2> QED
    BY <2>5, <2>6
<1> QED
  BY <1>1, <1>2

-----------------------------------------------------------------------------
(* The list and the local store *)

\* ComputeDocumentChanges: what t, the store s after doc was emitted, shows.
Emitted(t, s, doc) ==
    /\ t \in Store
    /\ t.queue = s.queue /\ t.cache = s.cache /\ t.overlay = s.overlay
    /\ ProperDoc(t.view) /\ Shows(t.view, doc)

\* The list only drops a change that it waits for, or that shows the same.
LEMMA EmitFacts ==
    ASSUME NEW s \in Store, ProperDoc(s.view), NEW doc, ProperDoc(doc)
    PROVE  Emitted(Emit(s, doc), s, doc)
<1>1. ProperDoc(Invalid) /\ ~Found(Invalid)
  <2>1. 0 \in Version /\ NoTitle \in Title
    BY Budget, NoteSyncAssumption DEF Title
  <2> QED
    BY <2>1 DEF Invalid, Doc, ProperDoc, Document, Found
<1>2. doc \in Document /\ s.view \in Document /\ Invalid \in Document
  BY <1>1 DEF ProperDoc
<1> DEFINE t1 == [s EXCEPT !.view = doc, !.mutated = doc.state = "local"]
           t2 == [s EXCEPT !.view = Invalid, !.mutated = FALSE]
<1>3. /\ t1 \in Store /\ t1.queue = s.queue /\ t1.cache = s.cache
      /\ t1.overlay = s.overlay /\ t1.view = doc
  BY <1>2 DEF Store
<1>4. /\ t2 \in Store /\ t2.queue = s.queue /\ t2.cache = s.cache
      /\ t2.overlay = s.overlay /\ t2.view = Invalid
  BY <1>2 DEF Store
<1>5. \/ Emit(s, doc) = t1 /\ Found(doc)
      \/ Emit(s, doc) = t2 /\ ~Found(doc)
      \/ /\ Emit(s, doc) = s /\ Found(s.view) /\ Found(doc)
         /\ s.view.title = doc.title \/ doc.state = "committed"
  BY DEF Emit, ShouldWaitForSyncedDocument
<1> HIDE DEF t1, t2
<1>6. CASE Emit(s, doc) = t1 /\ Found(doc)
  BY <1>3, <1>6 DEF Emitted, Shows
<1>7. CASE Emit(s, doc) = t2 /\ ~Found(doc)
  BY <1>1, <1>4, <1>7 DEF Emitted, Shows, ProperDoc
<1>8. CASE /\ Emit(s, doc) = s /\ Found(s.view) /\ Found(doc)
           /\ s.view.title = doc.title \/ doc.state = "committed"
  BY <1>8 DEF Emitted, Shows
<1> QED
  BY <1>5, <1>6, <1>7, <1>8

\* A store whose queue, cache and overlay are given, and which then emits
\* what it shows.
LEMMA EmitKeeps ==
    ASSUME NEW s \in Store, ProperDoc(s.view), NEW doc, ProperDoc(doc),
           ProperQueue(s.queue), ProperOverlay(s.overlay, s.queue),
           ProperDoc(s.cache), s.cache.state # "local",
           s.queue = <<>> => doc = s.cache
    PROVE  /\ StoreInv(Emit(s, doc))
           /\ Emit(s, doc).queue = s.queue /\ Emit(s, doc).cache = s.cache
<1> DEFINE t == Emit(s, doc)
<1>1. Emitted(t, s, doc)
  BY EmitFacts
<1> HIDE DEF t
<1> QED
  BY <1>1 DEF Emitted, StoreInv, t

\* The overlay of an empty queue is none.
LEMMA NoOverlay ==
    ASSUME NEW overlay, ProperOverlay(overlay, <<>>)
    PROVE  overlay = {}
  BY EmptySeq DEF ProperOverlay

\* LocalStore::WriteLocally
LEMMA WriteStore ==
    ASSUME NEW s, StoreInv(s), NEW b \in Batch, ProperMutation(b.m)
    PROVE  LET t == WriteLocally(s, b)
           IN  StoreInv(t) /\ t.queue = Append(s.queue, b) /\ t.cache = s.cache
<1> DEFINE o == ApplyBatch(View(s.cache, s.overlay), b)
           q == Append(s.queue, b)
           overlay == SaveOverlays(s.overlay, CalculateOverlay(o, b.id))
           u == [s EXCEPT !.queue = q, !.overlay = overlay]
<1>1. /\ s \in Store /\ s.queue \in Seq(Batch) /\ ProperDoc(s.view)
      /\ ProperDoc(s.cache) /\ s.cache.state # "local"
      /\ ProperOverlay(s.overlay, s.queue)
      /\ \A i \in DOMAIN s.queue : ProperMutation(s.queue[i].m)
  BY DEF StoreInv, ProperQueue
<1>2. ProperLayer(o)
  BY <1>1, OverlayLayer, NextLayer
<1>3. /\ q \in Seq(Batch) /\ q # <<>>
      /\ DOMAIN s.queue = 1 .. Len(s.queue) /\ Len(s.queue) \in Nat
      /\ DOMAIN q = 1 .. Len(s.queue) + 1
      /\ \A i \in 1 .. Len(s.queue) : q[i] = s.queue[i]
      /\ q[Len(s.queue) + 1] = b
  BY <1>1, AppendFacts
<1> HIDE DEF q, o
<1>4. ProperQueue(q)
  BY <1>1, <1>3 DEF ProperQueue
<1>5. ProperOverlay(CalculateOverlay(o, b.id), q)
  <2>1. b.id \in 1 .. MaxWrites /\ Len(s.queue) + 1 \in DOMAIN q
    BY <1>3 DEF Batch
  <2> QED
    BY <1>2, <1>3, <2>1, NewOverlay
<1>6. ProperOverlay(s.overlay, q)
  <2>1. \A i \in DOMAIN s.queue : i \in DOMAIN q /\ q[i] = s.queue[i]
    BY <1>3
  <2> QED
    BY <1>1, <2>1 DEF ProperOverlay
<1>7. ProperOverlay(overlay, q)
  BY <1>5, <1>6 DEF SaveOverlays
<1> HIDE DEF overlay
<1>8. /\ u \in Store /\ u.queue = q /\ u.overlay = overlay
      /\ u.cache = s.cache /\ u.view = s.view
  BY <1>1, <1>3, <1>7 DEF Store, ProperOverlay
<1>9. WriteLocally(s, b) = Emit(u, o.doc)
  BY DEF WriteLocally, u, overlay, o, q
<1> HIDE DEF u
<1>10. ProperDoc(o.doc)
  BY <1>2 DEF ProperLayer
<1>11. /\ StoreInv(Emit(u, o.doc)) /\ Emit(u, o.doc).queue = u.queue
       /\ Emit(u, o.doc).cache = u.cache
  BY <1>1, <1>3, <1>4, <1>7, <1>8, <1>10, EmitKeeps
<1> QED
  BY <1>8, <1>9, <1>11 DEF q

\* The overlay of a batch goes with the batch.
LEMMA RemoveHead ==
    ASSUME NEW q, ProperQueue(q), q # <<>>, NEW overlay, ProperOverlay(overlay, q)
    PROVE  /\ ProperQueue(Tail(q))
           /\ ProperOverlay(RemoveOverlaysForBatchId(overlay, Head(q).id), Tail(q))
<1>1. /\ q \in Seq(Batch) /\ Tail(q) \in Seq(Batch) /\ Head(q) = q[1]
      /\ Len(q) \in Nat \ {0} /\ DOMAIN q = 1 .. Len(q)
      /\ DOMAIN Tail(q) = 1 .. Len(q) - 1
      /\ \A i \in 1 .. Len(q) - 1 : Tail(q)[i] = q[i + 1]
  BY TailFacts DEF ProperQueue
<1>2. ProperQueue(Tail(q))
  BY <1>1 DEF ProperQueue
<1> DEFINE kept == RemoveOverlaysForBatchId(overlay, Head(q).id)
<1>3. kept \subseteq overlay /\ \A x \in kept : x.id # q[1].id
  BY <1>1 DEF RemoveOverlaysForBatchId
<1> HIDE DEF kept
<1>4. ASSUME NEW x \in kept
      PROVE  \E i \in DOMAIN Tail(q) : Tail(q)[i].id = x.id
  <2>1. PICK i \in DOMAIN q : q[i].id = x.id
    BY <1>3 DEF ProperOverlay
  <2>2. i # 1
    BY <1>3, <2>1
  <2>3. i - 1 \in DOMAIN Tail(q) /\ Tail(q)[i - 1] = q[i]
    BY <1>1, <2>2
  <2> QED
    BY <2>1, <2>3
<1>5. ProperOverlay(kept, Tail(q))
  BY <1>3, <1>4 DEF ProperOverlay
<1> QED
  BY <1>2, <1>5 DEF kept

\* LocalStore::AcknowledgeBatch with the version the server has given.
LEMMA AckStore ==
    ASSUME NEW s, StoreInv(s), s.queue # <<>>, NEW version \in Version
    PROVE  LET t == AcknowledgeBatch(s, version)
               m == Head(s.queue).m
           IN  /\ StoreInv(t) /\ t.queue = Tail(s.queue)
               /\ \/ t.cache = s.cache
                  \/ t.cache = ApplyToRemoteDocument(m, s.cache, version)
<1> DEFINE b == Head(s.queue)
           doc == ApplyToRemoteDocument(b.m, s.cache, version)
           cache == IF s.cache.version < version THEN doc ELSE s.cache
           q == Tail(s.queue)
           overlay == RemoveOverlaysForBatchId(s.overlay, b.id)
           u == [s EXCEPT !.queue = q, !.cache = cache, !.overlay = overlay]
           v == View(cache, overlay).doc
<1>1. /\ s \in Store /\ ProperQueue(s.queue) /\ ProperDoc(s.view)
      /\ ProperDoc(s.cache) /\ s.cache.state # "local"
      /\ ProperOverlay(s.overlay, s.queue)
  BY DEF StoreInv
<1>2. ProperQueue(q) /\ ProperOverlay(overlay, q)
  BY <1>1, RemoveHead
<1>3. ProperMutation(b.m)
  <2>1. b = s.queue[1] /\ 1 \in DOMAIN s.queue
    BY <1>1, TailFacts DEF ProperQueue
  <2> QED
    BY <1>1, <2>1 DEF ProperQueue
<1>4. ProperDoc(doc) /\ doc.state # "local"
  <2>1. /\ b.m.op \in {"set", "patch", "delete"} /\ b.m.title \in Title
        /\ b.m.op = "delete" <=> b.m.title = NoTitle
        /\ NoTitle \in Title
    BY <1>3 DEF ProperMutation, Mutation, Title
  <2> HIDE DEF b
  <2> QED
    BY <2>1 DEF ApplyToRemoteDocument, Doc, ProperDoc, Document, Found
<1>5. ProperDoc(cache) /\ cache.state # "local" /\ cache \in {doc, s.cache}
  BY <1>1, <1>4
<1>6. AcknowledgeBatch(s, version) = Emit(u, v)
  BY DEF AcknowledgeBatch
<1> HIDE DEF cache, q, overlay, doc
<1>7. /\ u \in Store /\ u.queue = q /\ u.overlay = overlay
      /\ u.cache = cache /\ u.view = s.view
  BY <1>1, <1>2, <1>5 DEF Store, ProperOverlay, ProperDoc, ProperQueue
<1>8. ProperDoc(v) /\ (q = <<>> => v = cache)
  <2>1. /\ ProperLayer(View(cache, overlay))
        /\ overlay = {} => View(cache, overlay).doc = cache
    BY <1>2, <1>5, OverlayLayer
  <2>2. q = <<>> => overlay = {}
    BY <1>2, NoOverlay
  <2> QED
    BY <2>1, <2>2 DEF ProperLayer
<1> HIDE DEF u, v
<1>9. StoreInv(Emit(u, v)) /\ Emit(u, v).queue = q /\ Emit(u, v).cache = cache
  BY <1>1, <1>2, <1>5, <1>7, <1>8, EmitKeeps
<1> QED
  BY <1>5, <1>6, <1>9 DEF q, doc, b

\* LocalStore::RejectBatch
LEMMA RejectStore ==
    ASSUME NEW s, StoreInv(s), s.queue # <<>>
    PROVE  LET t == RejectBatch(s)
           IN  StoreInv(t) /\ t.queue = Tail(s.queue) /\ t.cache = s.cache
<1> DEFINE q == Tail(s.queue)
           kept == RemoveOverlaysForBatchId(s.overlay, Head(s.queue).id)
           overlay == Recalculate(s.cache, q, kept)
           u == [s EXCEPT !.queue = q, !.overlay = overlay]
           v == View(s.cache, overlay).doc
<1>1. /\ s \in Store /\ ProperQueue(s.queue) /\ ProperDoc(s.view)
      /\ ProperDoc(s.cache) /\ s.cache.state # "local"
      /\ ProperOverlay(s.overlay, s.queue)
  BY DEF StoreInv
<1>2. ProperQueue(q) /\ ProperOverlay(kept, q)
  BY <1>1, RemoveHead
<1>3. RejectBatch(s) = Emit(u, v)
  BY DEF RejectBatch
<1> HIDE DEF q, kept
<1>4. ProperOverlay(overlay, q)
  BY <1>1, <1>2, RecalculateOverlay
<1> HIDE DEF overlay
<1>5. /\ u \in Store /\ u.queue = q /\ u.overlay = overlay
      /\ u.cache = s.cache /\ u.view = s.view
  BY <1>1, <1>2, <1>4 DEF Store, ProperOverlay, ProperQueue
<1>6. ProperDoc(v) /\ (q = <<>> => v = s.cache)
  <2>1. /\ ProperLayer(View(s.cache, overlay))
        /\ overlay = {} => View(s.cache, overlay).doc = s.cache
    BY <1>1, <1>4, OverlayLayer
  <2>2. q = <<>> => overlay = {}
    BY <1>4, NoOverlay
  <2> QED
    BY <2>1, <2>2 DEF ProperLayer
<1> HIDE DEF u, v
<1>7. StoreInv(Emit(u, v)) /\ Emit(u, v).queue = q /\ Emit(u, v).cache = s.cache
  BY <1>1, <1>2, <1>4, <1>5, <1>6, EmitKeeps
<1> QED
  BY <1>3, <1>7 DEF q

\* LocalStore::ApplyRemoteEvent with a document of the server.
LEMMA RemoteStore ==
    ASSUME NEW s, StoreInv(s), NEW doc, ProperDoc(doc), doc.state = "synced"
    PROVE  LET t == ApplyRemoteEvent(s, doc)
           IN  StoreInv(t) /\ t.queue = s.queue /\ t.cache \in {s.cache, doc}
<1>1. /\ s \in Store /\ ProperQueue(s.queue) /\ ProperDoc(s.view)
      /\ ProperOverlay(s.overlay, s.queue)
  BY DEF StoreInv
<1> DEFINE overlay == Recalculate(doc, s.queue, s.overlay)
           u == [s EXCEPT !.cache = doc, !.overlay = overlay]
           v == ApplyQueue(doc, s.queue).doc
           x == [s EXCEPT !.cache = doc]
           y == View(doc, s.overlay).doc
<1>2. ApplyRemoteEvent(s, doc) \in {s, Emit(u, v), Emit(x, y)}
  BY DEF ApplyRemoteEvent
<1>3. ProperOverlay(overlay, s.queue)
  BY <1>1, RecalculateOverlay
<1> HIDE DEF overlay
<1>4. /\ u \in Store /\ u.queue = s.queue /\ u.overlay = overlay
      /\ u.cache = doc /\ u.view = s.view
  BY <1>1, <1>3 DEF Store, ProperOverlay, ProperDoc
<1>5. /\ x \in Store /\ x.queue = s.queue /\ x.overlay = s.overlay
      /\ x.cache = doc /\ x.view = s.view
  BY <1>1 DEF Store, ProperDoc
<1>6. ProperDoc(v) /\ (s.queue = <<>> => v = doc)
  BY <1>1, QueueLayer DEF ProperLayer
<1>7. ProperDoc(y) /\ (s.queue = <<>> => y = doc)
  <2>1. /\ ProperLayer(View(doc, s.overlay))
        /\ s.overlay = {} => View(doc, s.overlay).doc = doc
    BY <1>1, OverlayLayer
  <2>2. s.queue = <<>> => s.overlay = {}
    BY <1>1, NoOverlay
  <2> QED
    BY <2>1, <2>2 DEF ProperLayer
<1> HIDE DEF u, v, x, y
<1>8. StoreInv(Emit(u, v)) /\ Emit(u, v).queue = s.queue /\ Emit(u, v).cache = doc
  BY <1>1, <1>3, <1>4, <1>6, EmitKeeps
<1>9. StoreInv(Emit(x, y)) /\ Emit(x, y).queue = s.queue /\ Emit(x, y).cache = doc
  BY <1>1, <1>5, <1>7, EmitKeeps
<1> QED
  BY <1>2, <1>8, <1>9

\* A new process reads its store.
LEMMA ListenStore ==
    ASSUME NEW s, StoreInv(s)
    PROVE  StoreInv(Listen(s)) /\ Listen(s).queue = s.queue /\ Listen(s).cache = s.cache
<1> DEFINE u == [s EXCEPT !.view = Invalid, !.mutated = FALSE]
           v == View(s.cache, s.overlay).doc
<1>1. /\ s \in Store /\ ProperQueue(s.queue)
      /\ ProperDoc(s.cache) /\ s.cache.state # "local"
      /\ ProperOverlay(s.overlay, s.queue)
  BY DEF StoreInv
<1>2. ProperDoc(Invalid)
  <2>1. 0 \in Version /\ NoTitle \in Title
    BY Budget, NoteSyncAssumption DEF Title
  <2> QED
    BY <2>1 DEF Invalid, Doc, ProperDoc, Document, Found
<1>3. /\ u \in Store /\ u.queue = s.queue /\ u.overlay = s.overlay
      /\ u.cache = s.cache /\ u.view = Invalid
  BY <1>1, <1>2 DEF Store, ProperDoc
<1>4. ProperDoc(v) /\ (s.queue = <<>> => v = s.cache)
  <2>1. /\ ProperLayer(View(s.cache, s.overlay))
        /\ s.overlay = {} => View(s.cache, s.overlay).doc = s.cache
    BY <1>1, OverlayLayer
  <2>2. s.queue = <<>> => s.overlay = {}
    BY <1>1, NoOverlay
  <2> QED
    BY <2>1, <2>2 DEF ProperLayer
<1>5. Listen(s) = Emit(u, v)
  BY DEF Listen
<1> HIDE DEF u, v
<1> QED
  BY <1>1, <1>2, <1>3, <1>4, <1>5, EmitKeeps

-----------------------------------------------------------------------------
(* The writes and the versions *)

\* A set of ids is finite.
LEMMA CardFacts ==
    ASSUME NEW n \in Nat, NEW S \in SUBSET (1 .. n)
    PROVE  IsFiniteSet(S) /\ Cardinality(S) \in Nat /\ Cardinality(S) <= n
<1>1. IsFiniteSet(1 .. n) /\ Cardinality(1 .. n) = IF 1 > n THEN 0 ELSE n - 1 + 1
  BY FS_Interval
<1>2. IsFiniteSet(S) /\ Cardinality(S) <= Cardinality(1 .. n)
  BY <1>1, FS_Subset
<1>3. Cardinality(S) \in Nat
  BY <1>2, FS_CardinalityType
<1> QED
  BY <1>1, <1>2, <1>3

\* A step that serves no write and makes no version.
LEMMA BudgetStays ==
    ASSUME NEW srv, Len(srv) \in Nat, NEW n \in 0 .. MaxWrites, NEW f \in 0 .. MaxFaults,
           NEW st, NEW rs, NEW st2, NEW rs2, BudgetOK(srv, st, rs, n, f),
           Unserved(st2, rs2, n) \subseteq Unserved(st, rs, n)
    PROVE  BudgetOK(srv, st2, rs2, n, f)
<1> DEFINE S == Unserved(st, rs, n)
           T == Unserved(st2, rs2, n)
<1>1. S \in SUBSET (1 .. n) /\ T \in SUBSET (1 .. n) /\ n \in Nat
  BY DEF Unserved
<1>2. T \subseteq S /\ Len(srv) + Cardinality(S) <= n + f * MaxWrites
  BY DEF BudgetOK
<1> HIDE DEF S, T
<1>3. /\ IsFiniteSet(S) /\ Cardinality(S) \in Nat
      /\ IsFiniteSet(T) /\ Cardinality(T) \in Nat
  BY <1>1, CardFacts
<1>4. Cardinality(T) <= Cardinality(S)
  BY <1>2, <1>3, FS_Subset
<1>5. f * MaxWrites \in Nat
  BY Budget
<1> QED
  BY <1>2, <1>3, <1>4, <1>5 DEF BudgetOK, T

\* A fault: everything may have to be served again.
LEMMA BudgetFault ==
    ASSUME NEW srv, Len(srv) \in Nat, NEW n \in 0 .. MaxWrites, NEW f \in 0 .. MaxFaults,
           NEW st, NEW rs, NEW st2, NEW rs2, BudgetOK(srv, st, rs, n, f)
    PROVE  BudgetOK(srv, st2, rs2, n, f + 1)
<1> DEFINE S == Unserved(st, rs, n)
           T == Unserved(st2, rs2, n)
<1>1. S \in SUBSET (1 .. n) /\ T \in SUBSET (1 .. n) /\ n \in Nat
  BY DEF Unserved
<1>2. Len(srv) + Cardinality(S) <= n + f * MaxWrites
  BY DEF BudgetOK
<1> HIDE DEF S, T
<1>3. Cardinality(S) \in Nat /\ Cardinality(T) \in Nat /\ Cardinality(T) <= n
  BY <1>1, CardFacts
<1>4. /\ f * MaxWrites \in Nat /\ (f + 1) * MaxWrites = f * MaxWrites + MaxWrites
  BY Budget
<1>5. MaxWrites \in Nat /\ n <= MaxWrites
  BY NoteSyncAssumption
<1>6. Len(srv) + Cardinality(T) <= n + (f * MaxWrites + MaxWrites)
  BY <1>2, <1>3, <1>4, <1>5
<1> QED
  BY <1>4, <1>6 DEF BudgetOK, T

\* A new write has to be served.
LEMMA BudgetWrite ==
    ASSUME NEW srv, Len(srv) \in Nat, NEW n \in 0 .. MaxWrites, NEW f \in 0 .. MaxFaults,
           NEW st, NEW rs, NEW st2, BudgetOK(srv, st, rs, n, f),
           Unserved(st2, rs, n + 1) \subseteq Unserved(st, rs, n) \cup {n + 1}
    PROVE  BudgetOK(srv, st2, rs, n + 1, f)
<1> DEFINE S == Unserved(st, rs, n)
           T == Unserved(st2, rs, n + 1)
<1>1. S \in SUBSET (1 .. n) /\ n \in Nat
  BY DEF Unserved
<1>2. T \in SUBSET (1 .. n + 1) /\ n + 1 \in Nat
  BY DEF Unserved
<1>3. T \subseteq S \cup {n + 1} /\ Len(srv) + Cardinality(S) <= n + f * MaxWrites
  BY DEF BudgetOK
<1> HIDE DEF S, T
<1>4. IsFiniteSet(S) /\ Cardinality(S) \in Nat
  BY <1>1, CardFacts
<1>5. Cardinality(T) \in Nat
  BY <1>2, CardFacts
<1>6. /\ IsFiniteSet(S \cup {n + 1})
      /\ Cardinality(S \cup {n + 1}) \in {Cardinality(S), Cardinality(S) + 1}
  BY <1>4, FS_AddElement
<1>7. Cardinality(T) <= Cardinality(S \cup {n + 1})
  BY <1>3, <1>6, FS_Subset
<1>8. Cardinality(T) <= Cardinality(S) + 1
  BY <1>4, <1>5, <1>6, <1>7
<1>9. f * MaxWrites \in Nat
  BY Budget
<1>10. Len(srv) + Cardinality(T) <= n + 1 + f * MaxWrites
  BY <1>1, <1>3, <1>4, <1>5, <1>8, <1>9
<1> QED
  BY <1>10 DEF BudgetOK, T

\* A write is served and may make a version.
LEMMA BudgetCommit ==
    ASSUME NEW srv, NEW srv2, Len(srv) \in Nat, Len(srv2) \in Nat,
           Len(srv2) <= Len(srv) + 1,
           NEW n \in 0 .. MaxWrites, NEW f \in 0 .. MaxFaults,
           NEW st, NEW rs, NEW rs2, BudgetOK(srv, st, rs, n, f),
           NEW id \in Unserved(st, rs, n),
           Unserved(st, rs2, n) \subseteq Unserved(st, rs, n) \ {id}
    PROVE  BudgetOK(srv2, st, rs2, n, f)
<1> DEFINE S == Unserved(st, rs, n)
           T == Unserved(st, rs2, n)
<1>1. S \in SUBSET (1 .. n) /\ T \in SUBSET (1 .. n) /\ n \in Nat
  BY DEF Unserved
<1>2. /\ T \subseteq S \ {id} /\ id \in S
      /\ Len(srv) + Cardinality(S) <= n + f * MaxWrites
  BY DEF BudgetOK
<1> HIDE DEF S, T
<1>3. IsFiniteSet(S) /\ Cardinality(S) \in Nat /\ Cardinality(T) \in Nat
  BY <1>1, CardFacts
<1>4. IsFiniteSet(S \ {id}) /\ Cardinality(S \ {id}) = Cardinality(S) - 1
  BY <1>2, <1>3, FS_RemoveElement
<1>5. Cardinality(T) <= Cardinality(S \ {id})
  BY <1>2, <1>4, FS_Subset
<1>6. f * MaxWrites \in Nat
  BY Budget
<1>7. Len(srv2) + Cardinality(T) <= n + f * MaxWrites
  BY <1>1, <1>2, <1>3, <1>4, <1>5, <1>6
<1> QED
  BY <1>7 DEF BudgetOK, T

\* The budget keeps the number of versions within Version.
LEMMA VersionsBounded ==
    ASSUME NEW srv, Len(srv) \in Nat, NEW n \in 0 .. MaxWrites, NEW f \in 0 .. MaxFaults,
           NEW st, NEW rs, BudgetOK(srv, st, rs, n, f)
    PROVE  Len(srv) \in Version
<1>1. Unserved(st, rs, n) \in SUBSET (1 .. n) /\ n \in Nat
  BY DEF Unserved
<1>2. Cardinality(Unserved(st, rs, n)) \in Nat
  BY <1>1, CardFacts
<1>3. /\ f * MaxWrites \in Nat /\ MaxWrites * (MaxFaults + 1) \in Nat
      /\ n + f * MaxWrites <= MaxWrites * (MaxFaults + 1)
  BY Budget
<1>4. Len(srv) + Cardinality(Unserved(st, rs, n)) <= n + f * MaxWrites
  BY DEF BudgetOK
<1>5. Len(srv) <= MaxWrites * (MaxFaults + 1)
  BY <1>1, <1>2, <1>3, <1>4
<1> QED
  BY <1>3, <1>5 DEF Version

\* The server only adds versions: what was true of one stays true.
LEMMA ServerGrows ==
    ASSUME NEW srv \in Seq(Title), NEW title \in Title,
           NEW r, NEW q, NEW doc
    PROVE  /\ ResultsOK(r, q, srv) => ResultsOK(r, q, Append(srv, title))
           /\ CacheOK(doc, srv) => CacheOK(doc, Append(srv, title))
<1>1. \A k \in DOMAIN srv :
         k \in DOMAIN Append(srv, title) /\ Append(srv, title)[k] = srv[k]
  BY AppendFacts
<1> QED
  BY <1>1 DEF ResultsOK, CacheOK

\* The document of an acknowledged write is the version it made.
LEMMA RemoteTrue ==
    ASSUME NEW m, ProperMutation(m), NEW doc, NEW srv, NEW version \in DOMAIN srv,
           srv[version] = m.title
    PROVE  CacheOK(ApplyToRemoteDocument(m, doc, version), srv)
<1>1. m.op = "delete" <=> m.title = NoTitle
  BY DEF ProperMutation
<1> QED
  BY <1>1 DEF ApplyToRemoteDocument, Doc, CacheOK

-----------------------------------------------------------------------------
(* The steps *)

\* There is no note at first.
LEMMA InitSync == Init => SyncInv
<1> SUFFICES ASSUME Init PROVE SyncInv
  OBVIOUS
<1> DEFINE s == [queue |-> <<>>, cache |-> Invalid, overlay |-> {},
                 view |-> Invalid, mutated |-> FALSE]
<1>1. 0 \in Version /\ NoTitle \in Title /\ MaxWrites \in Nat /\ MaxFaults \in Nat
  BY Budget, NoteSyncAssumption DEF Title
<1>2. /\ ProperDoc(Invalid) /\ Invalid.type = "invalid"
      /\ Invalid.state = "synced"
  BY <1>1 DEF Invalid, Doc, ProperDoc, Document, Found
<1>3. <<>> \in Seq(Batch) /\ <<>> \in Seq(Title) /\ <<>> \in Seq(Version \cup {Refused})
  BY EmptySeq
<1>4. Len(<<>>) = 0 /\ DOMAIN <<>> = {}
  BY EmptySeq
<1>5. ProperQueue(<<>>) /\ ProperOverlay({}, <<>>)
  BY <1>3, <1>4 DEF ProperQueue, ProperOverlay
<1>6. StoreInv(s) /\ s.queue = <<>> /\ s.cache = Invalid /\ s \in Store
  BY <1>2, <1>3, <1>5 DEF StoreInv, Store, Shows, ProperDoc
<1> HIDE DEF s
<1>7. /\ store = [d \in Devices |-> s] /\ details = {}
      /\ results = [d \in Devices |-> <<>>] /\ seen = [d \in Devices |-> 0]
      /\ server = <<>> /\ issued = 0 /\ faults = 0
  BY DEF Init, s
<1>8. /\ ResultsOK(<<>>, <<>>, <<>>) /\ CacheOK(Invalid, <<>>)
  BY <1>2, <1>3, <1>4 DEF ResultsOK, CacheOK
<1>9. IdsOK(store, issued)
  BY <1>4, <1>6, <1>7 DEF IdsOK
<1>10. BudgetOK(server, store, results, issued, faults)
  <2>1. Unserved(store, results, issued) = {}
    BY <1>7 DEF Unserved
  <2>2. Cardinality({}) = 0 /\ 0 * MaxWrites = 0
    BY <1>1, FS_EmptySet
  <2> QED
    BY <1>4, <1>7, <2>1, <2>2 DEF BudgetOK
<1> QED
  BY <1>1, <1>3, <1>6, <1>7, <1>8, <1>9, <1>10 DEF SyncInv

\* A step of device d that leaves the server alone.
LEMMA DeviceStep ==
    ASSUME SyncInv, NEW d \in Devices, NEW t, NEW r,
           store' = [store EXCEPT ![d] = t], StoreInv(t),
           results' = [results EXCEPT ![d] = r], ResultsOK(r, t.queue, server),
           CacheOK(t.cache, server), server' = server,
           details' \subseteq Devices, seen' \in [Devices -> Version],
           issued' \in 0 .. MaxWrites, faults' \in 0 .. MaxFaults,
           IdsOK(store', issued'),
           BudgetOK(server, store', results', issued', faults')
    PROVE  SyncInv'
<1>1. t \in Store /\ r \in Seq(Version \cup {Refused})
  BY DEF StoreInv, ResultsOK
<1>2. /\ store \in [Devices -> Store]
      /\ results \in [Devices -> Seq(Version \cup {Refused})]
      /\ server \in Seq(Title)
      /\ \A e \in Devices : /\ StoreInv(store[e])
                            /\ ResultsOK(results[e], store[e].queue, server)
                            /\ CacheOK(store[e].cache, server)
  BY DEF SyncInv
<1>3. /\ store' \in [Devices -> Store]
      /\ results' \in [Devices -> Seq(Version \cup {Refused})]
  BY <1>1, <1>2
<1>4. ASSUME NEW e \in Devices
      PROVE  /\ StoreInv(store'[e])
             /\ ResultsOK(results'[e], store'[e].queue, server)
             /\ CacheOK(store'[e].cache, server)
  <2>1. CASE e = d
    <3>1. store'[e] = t /\ results'[e] = r
      BY <1>2, <2>1
    <3> QED
      BY <3>1
  <2>2. CASE e # d
    <3>1. store'[e] = store[e] /\ results'[e] = results[e]
      BY <1>2, <2>2
    <3> QED
      BY <1>2, <3>1
  <2> QED
    BY <2>1, <2>2
<1> QED
  BY <1>2, <1>3, <1>4 DEF SyncInv

\* The ids of a queue that has lost its head, or nothing.
LEMMA IdsShrink ==
    ASSUME NEW st \in [Devices -> Store], NEW n, IdsOK(st, n), NEW d \in Devices,
           NEW t,
           \/ t.queue = st[d].queue
           \/ st[d].queue # <<>> /\ t.queue = Tail(st[d].queue)
    PROVE  IdsOK([st EXCEPT ![d] = t], n)
<1> DEFINE st2 == [st EXCEPT ![d] = t]
<1>1. \A e \in Devices : st2[e] = IF e = d THEN t ELSE st[e]
  OBVIOUS
<1>2. PICK k \in {0, 1} : \A i \in DOMAIN t.queue :
          /\ i \in Nat
          /\ i + k \in DOMAIN st[d].queue /\ t.queue[i] = st[d].queue[i + k]
  <2>1. st[d].queue \in Seq(Batch)
    BY DEF Store
  <2>2. CASE t.queue = st[d].queue
    <3>1. \A i \in DOMAIN st[d].queue : i \in Nat /\ i + 0 = i
      BY <2>1, LenProperties
    <3> QED
      BY <2>2, <3>1
  <2>3. CASE st[d].queue # <<>> /\ t.queue = Tail(st[d].queue)
    <3>1. \A i \in DOMAIN t.queue :
             /\ i \in Nat
             /\ i + 1 \in DOMAIN st[d].queue /\ t.queue[i] = st[d].queue[i + 1]
      BY <2>1, <2>3, TailFacts
    <3> QED
      BY <3>1
  <2> QED
    BY <2>2, <2>3
<1> HIDE DEF st2
<1>3. ASSUME NEW e \in Devices, NEW f \in Devices,
             NEW i \in DOMAIN st2[e].queue, NEW j \in DOMAIN st2[f].queue
      PROVE  /\ st2[e].queue[i].id \in 1 .. n
             /\ st2[e].queue[i].id = st2[f].queue[j].id => e = f /\ i = j
  <2>1. PICK a \in DOMAIN st[e].queue :
           /\ st2[e].queue[i] = st[e].queue[a]
           /\ e = d => i \in Nat /\ a = i + k
           /\ e # d => a = i
    BY <1>1, <1>2
  <2>2. PICK b \in DOMAIN st[f].queue :
           /\ st2[f].queue[j] = st[f].queue[b]
           /\ f = d => j \in Nat /\ b = j + k
           /\ f # d => b = j
    BY <1>1, <1>2
  <2>3. /\ st[e].queue[a].id \in 1 .. n
        /\ st[e].queue[a].id = st[f].queue[b].id => e = f /\ a = b
    BY DEF IdsOK
  <2>4. e = f /\ a = b => i = j
    <3>1. CASE e = d
      BY <2>1, <2>2, <3>1
    <3>2. CASE e # d
      BY <2>1, <2>2, <3>2
    <3> QED
      BY <3>1, <3>2
  <2> QED
    BY <2>1, <2>2, <2>3, <2>4
<1> QED
  BY <1>3 DEF IdsOK, st2

\* The app adds, changes or deletes the note on device d.
LEMMA StepWrite ==
    ASSUME SyncInv, NEW d \in Devices, NEW op, NEW title, Write(d, op, title),
           ProperMutation([op |-> op, title |-> title]), details' \subseteq Devices
    PROVE  SyncInv'
<1> DEFINE s == store[d]
           m == [op |-> op, title |-> title]
           b == [id |-> issued + 1, m |-> m]
           t == WriteLocally(s, b)
           n == issued
<1>1. /\ StoreInv(s) /\ ResultsOK(results[d], s.queue, server)
      /\ CacheOK(s.cache, server) /\ s.queue \in Seq(Batch)
      /\ store \in [Devices -> Store] /\ IdsOK(store, n)
      /\ results \in [Devices -> Seq(Version \cup {Refused})]
      /\ BudgetOK(server, store, results, n, faults)
      /\ n \in 0 .. MaxWrites /\ faults \in 0 .. MaxFaults
      /\ server \in Seq(Title)
  BY DEF SyncInv, StoreInv, ProperQueue
<1>2. n + 1 \in 1 .. MaxWrites /\ issued' = n + 1 /\ n + 1 \in 0 .. MaxWrites
  BY <1>1, NoteSyncAssumption DEF Write
<1>3. b \in Batch /\ b.id = n + 1 /\ b.m = m
  BY <1>2 DEF Batch, ProperMutation
<1>4. /\ store' = [store EXCEPT ![d] = t] /\ faults' = faults
      /\ results' = results /\ server' = server /\ seen' = seen
  BY <1>2 DEF Write, remoteVars
<1> HIDE DEF b, m
<1>5. StoreInv(t) /\ t.queue = Append(s.queue, b) /\ t.cache = s.cache
  BY <1>1, <1>3, WriteStore DEF m
<1> HIDE DEF t
<1>6. /\ DOMAIN s.queue = 1 .. Len(s.queue) /\ Len(s.queue) \in Nat
      /\ Len(t.queue) = Len(s.queue) + 1
      /\ DOMAIN t.queue = 1 .. Len(s.queue) + 1
      /\ \A i \in 1 .. Len(s.queue) : t.queue[i] = s.queue[i]
      /\ t.queue[Len(s.queue) + 1] = b
  BY <1>1, <1>3, <1>5, AppendFacts
<1>7. \A e \in Devices : store'[e] = IF e = d THEN t ELSE store[e]
  BY <1>1, <1>4
\* An element of a queue now is the new one or was there before.
<1>8. ASSUME NEW e \in Devices, NEW i \in DOMAIN store'[e].queue
      PROVE  \/ e = d /\ i = Len(s.queue) + 1 /\ store'[e].queue[i].id = n + 1
             \/ /\ i \in DOMAIN store[e].queue
                /\ store'[e].queue[i] = store[e].queue[i]
  <2>1. CASE e # d
    BY <1>7, <2>1
  <2>2. CASE e = d
    <3>1. i \in DOMAIN t.queue /\ store'[e].queue = t.queue
      BY <1>7, <2>2
    <3> QED
      BY <1>3, <1>6, <2>2, <3>1
  <2> QED
    BY <2>1, <2>2
<1>9. IdsOK(store', n + 1)
  <2> SUFFICES ASSUME NEW e \in Devices, NEW f \in Devices,
                      NEW i \in DOMAIN store'[e].queue,
                      NEW j \in DOMAIN store'[f].queue
               PROVE  /\ store'[e].queue[i].id \in 1 .. n + 1
                      /\ store'[e].queue[i].id = store'[f].queue[j].id
                           => e = f /\ i = j
    BY DEF IdsOK
  <2>1. \A g \in Devices : \A k \in DOMAIN store[g].queue :
           store[g].queue[k].id \in 1 .. n
    BY <1>1 DEF IdsOK
  <2>2. n \in Nat
    BY <1>1
  <2>3. CASE /\ i \in DOMAIN store[e].queue /\ j \in DOMAIN store[f].queue
             /\ store'[e].queue[i] = store[e].queue[i]
             /\ store'[f].queue[j] = store[f].queue[j]
    <3>1. /\ store[e].queue[i].id \in 1 .. n
          /\ store[e].queue[i].id = store[f].queue[j].id => e = f /\ i = j
      BY <1>1, <2>3 DEF IdsOK
    <3> QED
      BY <2>2, <2>3, <3>1
  <2>4. CASE e = d /\ i = Len(s.queue) + 1 /\ store'[e].queue[i].id = n + 1
    <3>1. CASE f = d /\ j = Len(s.queue) + 1
      BY <2>2, <2>4, <3>1
    <3>2. CASE store'[f].queue[j].id \in 1 .. n
      BY <2>2, <2>4, <3>2
    <3> QED
      BY <1>8, <2>1, <3>1, <3>2
  <2>5. CASE /\ f = d /\ j = Len(s.queue) + 1 /\ store'[f].queue[j].id = n + 1
             /\ store'[e].queue[i].id \in 1 .. n
    BY <2>2, <2>5
  <2> QED
    BY <1>8, <2>1, <2>3, <2>4, <2>5
<1>10. Unserved(store', results, n + 1) \subseteq Unserved(store, results, n) \cup {n + 1}
  <2> SUFFICES ASSUME NEW id \in 1 .. n + 1, id # n + 1, NEW e \in Devices,
                      NEW i \in DOMAIN store'[e].queue, i > Len(results[e]),
                      store'[e].queue[i].id = id
               PROVE  id \in Unserved(store, results, n)
    BY DEF Unserved
  <2>1. i \in DOMAIN store[e].queue /\ store'[e].queue[i] = store[e].queue[i]
    BY <1>8
  <2>2. id \in 1 .. n
    BY <1>1
  <2> QED
    BY <2>1, <2>2 DEF Unserved
<1>11. BudgetOK(server, store', results, n + 1, faults)
  BY <1>1, <1>10, BudgetWrite, LenProperties
<1>12. ResultsOK(results[d], t.queue, server)
  <2>1. Len(results[d]) \in Nat /\ DOMAIN results[d] = 1 .. Len(results[d])
    BY <1>1, LenProperties
  <2>2. /\ results[d] \in Seq(Version \cup {Refused}) /\ Len(results[d]) <= Len(s.queue)
        /\ \A i \in DOMAIN results[d] :
              results[d][i] # Refused => /\ results[d][i] \in DOMAIN server
                                         /\ server[results[d][i]] = s.queue[i].m.title
    BY <1>1 DEF ResultsOK
  <2>3. \A i \in DOMAIN results[d] : t.queue[i] = s.queue[i]
    BY <1>6, <2>1, <2>2
  <2>4. Len(results[d]) <= Len(t.queue)
    BY <1>6, <2>1, <2>2
  <2> QED
    BY <2>2, <2>3, <2>4 DEF ResultsOK
<1>13. results' = [results EXCEPT ![d] = results[d]]
  BY <1>1, <1>4
<1>14. seen' \in [Devices -> Version] /\ issued' \in 0 .. MaxWrites
       /\ faults' \in 0 .. MaxFaults
  BY <1>1, <1>2, <1>4 DEF SyncInv
<1>15. /\ IdsOK(store', issued') /\ CacheOK(t.cache, server)
       /\ BudgetOK(server, store', results', issued', faults')
  BY <1>1, <1>2, <1>4, <1>5, <1>9, <1>11
<1> HIDE DEF s
<1> QED
  BY <1>4, <1>5, <1>12, <1>13, <1>14, <1>15, DeviceStep

\* A write whose result is taken was not to be served.
LEMMA UnservedTail ==
    ASSUME NEW st \in [Devices -> Store], NEW rs, NEW st2, NEW rs2, NEW n,
           NEW d \in Devices, Len(rs[d]) \in Nat, Len(rs2[d]) \in Nat,
           \A e \in Devices : e # d => st2[e] = st[e] /\ rs2[e] = rs[e],
           \A i \in DOMAIN st2[d].queue :
              /\ i \in Nat /\ i + 1 \in DOMAIN st[d].queue
              /\ st2[d].queue[i] = st[d].queue[i + 1],
           Len(rs[d]) <= Len(rs2[d]) + 1
    PROVE  Unserved(st2, rs2, n) \subseteq Unserved(st, rs, n)
<1> SUFFICES ASSUME NEW id \in 1 .. n, NEW e \in Devices,
                    NEW i \in DOMAIN st2[e].queue, i > Len(rs2[e]),
                    st2[e].queue[i].id = id
             PROVE  \E j \in DOMAIN st[e].queue :
                       j > Len(rs[e]) /\ st[e].queue[j].id = id
  BY DEF Unserved
<1>1. CASE e = d
  <2>1. i \in Nat /\ i + 1 \in DOMAIN st[d].queue /\ st2[d].queue[i] = st[d].queue[i + 1]
    BY <1>1
  <2>2. i + 1 > Len(rs[d])
    BY <1>1, <2>1
  <2> QED
    BY <1>1, <2>1, <2>2
<1>2. CASE e # d
  BY <1>2
<1> QED
  BY <1>1, <1>2

\* SyncEngine::HandleSuccessfulWrite and HandleRejectedWrite
LEMMA StepResult ==
    ASSUME SyncInv, NEW d \in Devices, HandleResult(d)
    PROVE  SyncInv'
<1> DEFINE s == store[d]
           r == results[d]
           t == IF Head(r) = Refused THEN RejectBatch(s)
                ELSE AcknowledgeBatch(s, Head(r))
<1>1. /\ StoreInv(s) /\ ResultsOK(r, s.queue, server)
      /\ CacheOK(s.cache, server) /\ ProperQueue(s.queue)
      /\ store \in [Devices -> Store] /\ IdsOK(store, issued)
      /\ results \in [Devices -> Seq(Version \cup {Refused})]
      /\ BudgetOK(server, store, results, issued, faults)
      /\ issued \in 0 .. MaxWrites /\ faults \in 0 .. MaxFaults
      /\ server \in Seq(Title)
  BY DEF SyncInv, StoreInv
<1>2. /\ r # <<>> /\ results' = [results EXCEPT ![d] = Tail(r)]
      /\ store' = [store EXCEPT ![d] = t]
      /\ UNCHANGED <<details, seen, server, issued, faults>>
  BY DEF HandleResult
<1>3. r \in Seq(Version \cup {Refused}) /\ s.queue \in Seq(Batch)
  BY <1>1 DEF ProperQueue
<1> HIDE DEF r, s
<1>4. /\ Tail(r) \in Seq(Version \cup {Refused}) /\ Head(r) \in Version \cup {Refused}
      /\ Head(r) = r[1] /\ Len(r) \in Nat \ {0} /\ DOMAIN r = 1 .. Len(r)
      /\ Len(Tail(r)) = Len(r) - 1
      /\ DOMAIN Tail(r) = 1 .. Len(r) - 1
      /\ \A i \in 1 .. Len(r) - 1 : Tail(r)[i] = r[i + 1]
  BY <1>2, <1>3, TailFacts
<1>5. Len(s.queue) \in Nat /\ Len(r) <= Len(s.queue)
  BY <1>1, <1>3, LenProperties DEF ResultsOK
<1>6. s.queue # <<>>
  BY <1>4, <1>5, EmptySeq
<1>7. /\ Tail(s.queue) \in Seq(Batch) /\ Head(s.queue) = s.queue[1]
      /\ DOMAIN s.queue = 1 .. Len(s.queue)
      /\ Len(Tail(s.queue)) = Len(s.queue) - 1
      /\ DOMAIN Tail(s.queue) = 1 .. Len(s.queue) - 1
      /\ \A i \in 1 .. Len(s.queue) - 1 : Tail(s.queue)[i] = s.queue[i + 1]
  BY <1>3, <1>6, TailFacts
<1>8. StoreInv(t) /\ t.queue = Tail(s.queue) /\ CacheOK(t.cache, server)
  <2>1. CASE Head(r) = Refused
    BY <1>1, <1>6, <2>1, RejectStore
  <2>2. CASE Head(r) # Refused
    <3>1. Head(r) \in Version /\ t = AcknowledgeBatch(s, Head(r))
      BY <1>4, <2>2
    <3> DEFINE m == Head(s.queue).m
    <3>2. /\ StoreInv(t) /\ t.queue = Tail(s.queue)
          /\ \/ t.cache = s.cache
             \/ t.cache = ApplyToRemoteDocument(m, s.cache, Head(r))
      BY <1>1, <1>6, <3>1, AckStore
    <3>3. 1 \in DOMAIN r /\ 1 \in DOMAIN s.queue
      BY <1>4, <1>5, <1>7
    <3>4. Head(r) \in DOMAIN server /\ server[Head(r)] = m.title
      BY <1>1, <1>4, <1>7, <2>2, <3>3 DEF ResultsOK
    <3>5. ProperMutation(m)
      BY <1>1, <1>7, <3>3 DEF ProperQueue
    <3> HIDE DEF m, t
    <3>6. CacheOK(ApplyToRemoteDocument(m, s.cache, Head(r)), server)
      BY <3>4, <3>5, RemoteTrue
    <3> QED
      BY <1>1, <3>2, <3>6
  <2> QED
    BY <2>1, <2>2
<1> HIDE DEF t
<1>9. ResultsOK(Tail(r), t.queue, server)
  <2>1. \A i \in DOMAIN Tail(r) :
           /\ i + 1 \in DOMAIN r /\ Tail(r)[i] = r[i + 1]
           /\ t.queue[i] = s.queue[i + 1]
    BY <1>4, <1>5, <1>7, <1>8
  <2>2. Len(Tail(r)) <= Len(t.queue)
    BY <1>4, <1>5, <1>7, <1>8
  <2> QED
    BY <1>1, <1>4, <2>1, <2>2 DEF ResultsOK
<1>10. IdsOK(store', issued)
  BY <1>1, <1>2, <1>6, <1>8, IdsShrink DEF s
<1>11. Unserved(store', results', issued) \subseteq Unserved(store, results, issued)
  <2>1. /\ \A e \in Devices : e # d => store'[e] = store[e] /\ results'[e] = results[e]
        /\ store'[d] = t /\ results'[d] = Tail(r)
    BY <1>1, <1>2
  <2>2. \A i \in DOMAIN t.queue :
           /\ i \in Nat /\ i + 1 \in DOMAIN s.queue
           /\ t.queue[i] = s.queue[i + 1]
    BY <1>5, <1>7, <1>8
  <2>3. /\ Len(r) \in Nat /\ Len(Tail(r)) \in Nat /\ Len(r) <= Len(Tail(r)) + 1
        /\ 1 \in Nat
    BY <1>4
  <2>4. \A i \in DOMAIN store'[d].queue :
           /\ i \in Nat /\ i + 1 \in DOMAIN store[d].queue
           /\ store'[d].queue[i] = store[d].queue[i + 1]
    BY <2>1, <2>2 DEF s
  <2>5. /\ Len(results[d]) \in Nat /\ Len(results'[d]) \in Nat
        /\ Len(results[d]) <= Len(results'[d]) + 1
    BY <2>1, <2>3 DEF r
  <2> QED
    BY <1>1, <2>1, <2>3, <2>4, <2>5, UnservedTail
<1>12. BudgetOK(server, store', results', issued, faults)
  BY <1>1, <1>11, BudgetStays, LenProperties
<1> QED
  BY <1>1, <1>2, <1>8, <1>9, <1>10, <1>12, DeviceStep DEF SyncInv

\* SyncEngine::ApplyRemoteEvent
LEMMA StepWatch ==
    ASSUME SyncInv, NEW d \in Devices, NEW n \in 1 .. Len(server), WatchChange(d, n)
    PROVE  SyncInv'
<1> DEFINE s == store[d]
           doc == WatchDocument(n)
           t == ApplyRemoteEvent(s, doc)
<1>1. /\ StoreInv(s) /\ ResultsOK(results[d], s.queue, server)
      /\ CacheOK(s.cache, server) /\ s.queue \in Seq(Batch)
      /\ store \in [Devices -> Store] /\ IdsOK(store, issued)
      /\ results \in [Devices -> Seq(Version \cup {Refused})]
      /\ BudgetOK(server, store, results, issued, faults)
      /\ issued \in 0 .. MaxWrites /\ faults \in 0 .. MaxFaults
      /\ server \in Seq(Title) /\ seen \in [Devices -> Version]
  BY DEF SyncInv, StoreInv, ProperQueue
<1>2. Len(server) \in Nat /\ DOMAIN server = 1 .. Len(server)
  BY <1>1, LenProperties
<1>3. n \in Version /\ n \in DOMAIN server /\ server[n] \in Title
  <2>1. Len(server) \in Version
    BY <1>1, <1>2, VersionsBounded
  <2>2. n \in Version
    <3>1. MaxWrites * (MaxFaults + 1) \in Nat
      BY <1>1, Budget
    <3> DEFINE top == MaxWrites * (MaxFaults + 1)
    <3>2. Len(server) \in 0 .. top /\ Version = 0 .. top /\ top \in Nat
      BY <2>1, <3>1 DEF Version
    <3> HIDE DEF top
    <3> QED
      BY <1>2, <3>2
  <2> QED
    BY <1>1, <1>2, <2>2, ElementOfSeq
<1>4. /\ ProperDoc(doc) /\ doc.state = "synced" /\ CacheOK(doc, server)
  BY <1>3 DEF WatchDocument, Doc, ProperDoc, Document, Found, CacheOK
<1>5. /\ store' = [store EXCEPT ![d] = t] /\ seen' = [seen EXCEPT ![d] = n]
      /\ UNCHANGED <<details, results, server, issued, faults>>
  BY DEF WatchChange
<1> HIDE DEF doc
<1>6. StoreInv(t) /\ t.queue = s.queue /\ t.cache \in {s.cache, doc}
  BY <1>1, <1>4, RemoteStore
<1> HIDE DEF t
<1>7. IdsOK(store', issued)
  BY <1>1, <1>5, <1>6, IdsShrink
<1>8. Unserved(store', results', issued) \subseteq Unserved(store, results, issued)
  <2>1. \A e \in Devices : store'[e].queue = store[e].queue
    BY <1>1, <1>5, <1>6
  <2> QED
    BY <1>5, <2>1 DEF Unserved
<1>9. BudgetOK(server, store', results', issued, faults)
  BY <1>1, <1>2, <1>8, BudgetStays
<1>10. results' = [results EXCEPT ![d] = results[d]]
  BY <1>1, <1>5
<1>11. seen' \in [Devices -> Version] /\ details' \subseteq Devices
  BY <1>1, <1>3, <1>5 DEF SyncInv
<1>12. CacheOK(t.cache, server) /\ ResultsOK(results[d], t.queue, server)
  BY <1>1, <1>4, <1>6
<1> HIDE DEF s
<1> QED
  BY <1>1, <1>5, <1>6, <1>7, <1>9, <1>10, <1>11, <1>12, DeviceStep

\* The process ends and starts again.
LEMMA StepKill ==
    ASSUME SyncInv, NEW d \in Devices, Kill(d)
    PROVE  SyncInv'
<1> DEFINE s == store[d]
           t == Listen(s)
<1>1. /\ StoreInv(s) /\ CacheOK(s.cache, server) /\ s.queue \in Seq(Batch)
      /\ store \in [Devices -> Store] /\ IdsOK(store, issued)
      /\ BudgetOK(server, store, results, issued, faults)
      /\ issued \in 0 .. MaxWrites /\ faults \in 0 .. MaxFaults
      /\ server \in Seq(Title)
  BY DEF SyncInv, StoreInv, ProperQueue
<1>2. /\ store' = [store EXCEPT ![d] = t] /\ faults' = faults + 1
      /\ results' = [results EXCEPT ![d] = <<>>] /\ details' \subseteq details
      /\ UNCHANGED <<seen, server, issued>> /\ faults + 1 \in 0 .. MaxFaults
  BY <1>1, NoteSyncAssumption DEF Kill, Fault
<1>3. StoreInv(t) /\ t.queue = s.queue /\ t.cache = s.cache
  BY <1>1, ListenStore
<1> HIDE DEF t
<1>4. IdsOK(store', issued)
  BY <1>1, <1>2, <1>3, IdsShrink
<1>5. Len(server) \in Nat /\ Len(s.queue) \in Nat
  BY <1>1, LenProperties
<1>6. BudgetOK(server, store', results', issued, faults + 1)
  BY <1>1, <1>5, BudgetFault
<1>7. ResultsOK(<<>>, t.queue, server)
  <2>1. <<>> \in Seq(Version \cup {Refused}) /\ Len(<<>>) = 0 /\ DOMAIN <<>> = {}
    BY EmptySeq
  <2> QED
    BY <1>3, <1>5, <2>1 DEF ResultsOK
<1>8. CacheOK(t.cache, server)
  BY <1>1, <1>3
<1>9. /\ seen' \in [Devices -> Version] /\ details' \subseteq Devices
      /\ issued' \in 0 .. MaxWrites
  BY <1>1, <1>2 DEF SyncInv
<1> HIDE DEF s
<1> QED
  BY <1>2, <1>3, <1>4, <1>6, <1>7, <1>8, <1>9, DeviceStep

\* While a write is to be served there is room for its version.
LEMMA RoomForVersion ==
    ASSUME NEW srv, Len(srv) \in Nat, NEW n \in 0 .. MaxWrites, NEW f \in 0 .. MaxFaults,
           NEW st, NEW rs, BudgetOK(srv, st, rs, n, f),
           NEW id \in Unserved(st, rs, n)
    PROVE  Len(srv) \in Version /\ Len(srv) + 1 \in Version
<1> DEFINE S == Unserved(st, rs, n)
           top == MaxWrites * (MaxFaults + 1)
<1>1. S \in SUBSET (1 .. n) /\ n \in Nat /\ id \in S
  BY DEF Unserved
<1>2. Len(srv) + Cardinality(S) <= n + f * MaxWrites
  BY DEF BudgetOK
<1> HIDE DEF S
<1>3. IsFiniteSet(S) /\ Cardinality(S) \in Nat
  BY <1>1, CardFacts
<1>4. Cardinality(S) # 0
  BY <1>1, <1>3, FS_EmptySet
<1>5. f * MaxWrites \in Nat /\ top \in Nat /\ n + f * MaxWrites <= top
  BY Budget
<1>6. Version = 0 .. top
  BY DEF Version
<1> HIDE DEF top
<1>7. Len(srv) + 1 <= top
  BY <1>1, <1>2, <1>3, <1>4, <1>5
<1> QED
  BY <1>5, <1>6, <1>7

\* Result x is given to the oldest write without one.
LEMMA Answer ==
    ASSUME SyncInv, NEW d \in Devices, Serving(d), NEW x,
           results' = [results EXCEPT ![d] = Append(results[d], x)],
           x # Refused => x \in Version /\ x \in DOMAIN server'
                          /\ server'[x] = store[d].queue[Len(results[d]) + 1].m.title,
           NEW title \in Title, server' \in {server, Append(server, title)},
           UNCHANGED <<store, details, seen, issued>>, faults' = faults
    PROVE  SyncInv'
<1> DEFINE q == store[d].queue
           r == results[d]
           k == Len(r) + 1
           id == q[k].id
<1>1. /\ ResultsOK(r, q, server) /\ q \in Seq(Batch) /\ server \in Seq(Title)
      /\ store \in [Devices -> Store] /\ IdsOK(store, issued)
      /\ results \in [Devices -> Seq(Version \cup {Refused})]
      /\ r \in Seq(Version \cup {Refused})
      /\ BudgetOK(server, store, results, issued, faults)
      /\ issued \in 0 .. MaxWrites /\ faults \in 0 .. MaxFaults
      /\ details \subseteq Devices /\ seen \in [Devices -> Version]
  BY DEF SyncInv, StoreInv, ProperQueue
<1>2. /\ Len(r) \in Nat /\ DOMAIN r = 1 .. Len(r)
      /\ Len(q) \in Nat /\ DOMAIN q = 1 .. Len(q)
  BY <1>1, LenProperties
<1>3. k \in DOMAIN q /\ k > Len(r) /\ Len(r) < Len(q)
  BY <1>2 DEF Serving
<1>4. /\ x \in Version \cup {Refused}
      /\ Append(r, x) \in Seq(Version \cup {Refused})
      /\ Len(Append(r, x)) = Len(r) + 1
      /\ DOMAIN Append(r, x) = 1 .. Len(r) + 1
      /\ \A i \in 1 .. Len(r) : Append(r, x)[i] = r[i]
      /\ Append(r, x)[Len(r) + 1] = x
  <2>1. x \in Version \cup {Refused}
    OBVIOUS
  <2> HIDE DEF r
  <2> QED
    BY <1>1, <2>1, AppendFacts
<1> DEFINE r2 == Append(r, x)
<1>5. r2 \in Seq(Version \cup {Refused}) /\ Len(r2) = k /\ DOMAIN r2 = 1 .. k
  BY <1>4
<1>6. \A e \in Devices : results'[e] = IF e = d THEN r2 ELSE results[e]
  BY <1>1
<1> HIDE DEF r2
<1>7. /\ server' \in Seq(Title) /\ Len(server) \in Nat /\ Len(server') \in Nat
      /\ Len(server') <= Len(server) + 1
  <2>1. CASE server' = server
    BY <1>1, <2>1, LenProperties
  <2>2. CASE server' = Append(server, title)
    <3>1. /\ Append(server, title) \in Seq(Title) /\ Len(server) \in Nat
          /\ Len(Append(server, title)) = Len(server) + 1
      BY <1>1, AppendFacts
    <3> QED
      BY <2>2, <3>1
  <2> QED
    BY <2>1, <2>2
<1>8. \A e \in Devices : /\ StoreInv(store[e])
                         /\ ResultsOK(results[e], store[e].queue, server')
                         /\ CacheOK(store[e].cache, server')
  <2>1. \A e \in Devices : /\ StoreInv(store[e])
                           /\ ResultsOK(results[e], store[e].queue, server)
                           /\ CacheOK(store[e].cache, server)
    BY DEF SyncInv
  <2>2. CASE server' = server
    BY <2>1, <2>2
  <2>3. CASE server' = Append(server, title)
    BY <1>1, <2>1, <2>3, ServerGrows
  <2> QED
    BY <2>2, <2>3
<1>9. ResultsOK(r2, q, server')
  <2>1. ASSUME NEW i \in DOMAIN r2, r2[i] # Refused
        PROVE  r2[i] \in DOMAIN server' /\ server'[r2[i]] = q[i].m.title
    <3>1. CASE i = k
      BY <1>4, <2>1, <3>1 DEF r2
    <3>2. CASE i # k
      <4>1. i \in DOMAIN r /\ r2[i] = r[i]
        BY <1>2, <1>4, <1>5, <3>2 DEF r2
      <4> QED
        BY <1>8, <2>1, <4>1 DEF ResultsOK
    <3> QED
      BY <3>1, <3>2
  <2>2. Len(r2) <= Len(q)
    BY <1>2, <1>3, <1>5
  <2> QED
    BY <1>5, <2>1, <2>2 DEF ResultsOK
<1>10. /\ results' \in [Devices -> Seq(Version \cup {Refused})]
       /\ \A e \in Devices : ResultsOK(results'[e], store[e].queue, server')
  BY <1>1, <1>5, <1>6, <1>8, <1>9 DEF r2
<1>11. id \in Unserved(store, results, issued)
  BY <1>1, <1>3 DEF IdsOK, Unserved
<1>12. Unserved(store, results', issued) \subseteq Unserved(store, results, issued) \ {id}
  <2> SUFFICES ASSUME NEW a \in 1 .. issued, NEW e \in Devices,
                      NEW i \in DOMAIN store[e].queue, i > Len(results'[e]),
                      store[e].queue[i].id = a
               PROVE  a # id /\ a \in Unserved(store, results, issued)
    BY DEF Unserved
  <2>1. CASE e = d
    <3>1. i \in DOMAIN q /\ i > k /\ i > Len(r) /\ i # k
      BY <1>2, <1>5, <1>6, <2>1
    <3>2. a # id
      BY <1>1, <1>3, <2>1, <3>1 DEF IdsOK
    <3> QED
      BY <2>1, <3>1, <3>2 DEF Unserved
  <2>2. CASE e # d
    <3>1. results'[e] = results[e]
      BY <1>6, <2>2
    <3>2. a # id
      BY <1>1, <1>3, <2>2 DEF IdsOK
    <3> QED
      BY <3>1, <3>2 DEF Unserved
  <2> QED
    BY <2>1, <2>2
<1>13. BudgetOK(server', store, results', issued, faults)
  <2> DEFINE srv2 == server'
             rs2 == results'
  <2>1. /\ Len(server) \in Nat /\ Len(srv2) \in Nat /\ Len(srv2) <= Len(server) + 1
        /\ id \in Unserved(store, results, issued)
        /\ Unserved(store, rs2, issued) \subseteq Unserved(store, results, issued) \ {id}
        /\ BudgetOK(server, store, results, issued, faults)
        /\ issued \in 0 .. MaxWrites /\ faults \in 0 .. MaxFaults
    BY <1>1, <1>7, <1>11, <1>12
  <2> HIDE DEF srv2, rs2, id
  <2>2. BudgetOK(srv2, store, rs2, issued, faults)
    BY <2>1, BudgetCommit
  <2> QED
    BY <2>2 DEF srv2, rs2
<1> QED
  BY <1>1, <1>7, <1>8, <1>10, <1>13 DEF SyncInv

\* The server commits the oldest write without a result, or finds that the
\* document an update is for is not there.
LEMMA StepCommit ==
    ASSUME SyncInv, NEW d \in Devices, Commit(d)
    PROVE  SyncInv'
<1> DEFINE q == store[d].queue
           k == Len(results[d]) + 1
           m == q[k].m
<1>1. /\ q \in Seq(Batch) /\ server \in Seq(Title) /\ IdsOK(store, issued)
      /\ results[d] \in Seq(Version \cup {Refused})
      /\ BudgetOK(server, store, results, issued, faults)
      /\ issued \in 0 .. MaxWrites /\ faults \in 0 .. MaxFaults
      /\ \A i \in DOMAIN q : ProperMutation(q[i].m)
  BY DEF SyncInv, StoreInv, ProperQueue
<1>2. /\ Len(results[d]) \in Nat /\ Len(q) \in Nat /\ DOMAIN q = 1 .. Len(q)
      /\ Len(server) \in Nat /\ DOMAIN server = 1 .. Len(server)
  BY <1>1, LenProperties
<1>3. k \in DOMAIN q /\ k > Len(results[d])
  BY <1>2 DEF Commit, Serving
<1>4. ProperMutation(m) /\ m.title \in Title /\ (m.op = "delete" <=> m.title = NoTitle)
  BY <1>1, <1>3 DEF ProperMutation, Mutation
<1>5. q[k].id \in Unserved(store, results, issued)
  BY <1>1, <1>3 DEF IdsOK, Unserved
<1>6. Len(server) \in Version /\ Len(server) + 1 \in Version
  BY <1>1, <1>2, <1>5, RoomForVersion
<1> HIDE DEF m
<1> DEFINE refused == m.op = "patch" /\ Current = NoTitle
           same == m.op # "delete" /\ m.title = Current
           x == IF refused THEN Refused ELSE Len(server')
<1>7. /\ Serving(d)
      /\ server' = IF refused \/ same THEN server ELSE Append(server, m.title)
      /\ results' = [results EXCEPT ![d] = Append(results[d], x)]
      /\ UNCHANGED <<store, details, seen, issued>> /\ faults' = faults
  BY DEF Commit, m
<1>8. ASSUME x # Refused
      PROVE  x \in Version /\ x \in DOMAIN server' /\ server'[x] = m.title
  <2>1. ~refused /\ x = Len(server')
    BY <1>8
  <2>2. CASE same
    <3>1. server' = server /\ server # <<>> /\ m.title = Last(server)
      BY <1>4, <1>7, <2>2 DEF Current
    <3>2. Len(server) # 0
      BY <1>1, <3>1, EmptySeq
    <3> QED
      BY <1>2, <1>6, <2>1, <3>1, <3>2 DEF Last
  <2>3. CASE ~same
    <3>1. server' = Append(server, m.title)
      BY <1>7, <2>1, <2>3
    <3>2. /\ Len(server') = Len(server) + 1
          /\ DOMAIN server' = 1 .. Len(server) + 1
          /\ server'[Len(server) + 1] = m.title
      BY <1>1, <1>4, <3>1, AppendFacts
    <3> QED
      BY <1>2, <1>6, <2>1, <3>2
  <2> QED
    BY <2>2, <2>3
<1>9. server' \in {server, Append(server, m.title)}
  BY <1>7
<1> HIDE DEF x
<1> QED
  BY <1>4, <1>7, <1>8, <1>9, Answer DEF m

\* The server refuses a write, or results are lost: a fault.
LEMMA StepFault ==
    ASSUME SyncInv, NEW d \in Devices, Refuse(d) \/ Lose(d)
    PROVE  SyncInv'
<1> DEFINE q == store[d].queue
           r == results[d]
<1>1. /\ StoreInv(store[d]) /\ ResultsOK(r, q, server)
      /\ CacheOK(store[d].cache, server) /\ q \in Seq(Batch)
      /\ store \in [Devices -> Store] /\ IdsOK(store, issued)
      /\ results \in [Devices -> Seq(Version \cup {Refused})]
      /\ r \in Seq(Version \cup {Refused})
      /\ BudgetOK(server, store, results, issued, faults)
      /\ issued \in 0 .. MaxWrites /\ faults \in 0 .. MaxFaults
      /\ server \in Seq(Title)
  BY DEF SyncInv, StoreInv, ProperQueue
<1>2. /\ faults' = faults + 1 /\ faults + 1 \in 0 .. MaxFaults
      /\ UNCHANGED <<store, details, seen, server, issued>>
  BY <1>1, NoteSyncAssumption DEF Refuse, Lose, Fault
<1>3. /\ Len(r) \in Nat /\ DOMAIN r = 1 .. Len(r)
      /\ Len(q) \in Nat /\ Len(server) \in Nat
  BY <1>1, LenProperties
<1>4. PICK r2 : /\ results' = [results EXCEPT ![d] = r2]
                /\ ResultsOK(r2, q, server)
  <2>1. CASE Refuse(d)
    <3> DEFINE r2 == Append(r, Refused)
    <3>1. results' = [results EXCEPT ![d] = r2] /\ Len(r) < Len(q)
      BY <2>1 DEF Refuse, Serving
    <3>2. /\ r2 \in Seq(Version \cup {Refused})
          /\ Len(r2) = Len(r) + 1
          /\ DOMAIN r2 = 1 .. Len(r) + 1
          /\ \A i \in 1 .. Len(r) : r2[i] = r[i]
          /\ r2[Len(r) + 1] = Refused
      BY <1>1, AppendFacts
    <3> HIDE DEF r2
    <3>3. \A i \in DOMAIN r2 : r2[i] # Refused => i \in DOMAIN r /\ r2[i] = r[i]
      BY <1>3, <3>2
    <3>4. ResultsOK(r2, q, server)
      BY <1>1, <1>3, <3>1, <3>2, <3>3 DEF ResultsOK
    <3> QED
      BY <3>1, <3>4
  <2>2. CASE Lose(d)
    <3>1. PICK k \in 0 .. Len(r) - 1 :
             results' = [results EXCEPT ![d] = SubSeq(r, 1, k)]
      BY <2>2 DEF Lose
    <3> DEFINE r2 == SubSeq(r, 1, k)
    <3>2. /\ r2 \in Seq(Version \cup {Refused}) /\ Len(r2) = k
          /\ DOMAIN r2 = 1 .. k /\ \A i \in 1 .. k : r2[i] = r[i]
      <4>1. k \in Int /\ k >= 0 /\ k <= Len(r)
        BY <1>3
      <4>2. \A i \in 1 .. k : i \in DOMAIN r
        BY <1>3, <4>1
      <4>3. \A i \in 1 .. k : r[i] \in Version \cup {Refused}
        BY <1>1, <4>2, ElementOfSeq
      <4> QED
        BY <4>1, <4>3, SubSeqProperties, LenProperties, <1>1, <1>3
    <3> HIDE DEF r2
    <3>3. \A i \in DOMAIN r2 : i \in DOMAIN r /\ r2[i] = r[i]
      BY <1>3, <3>2
    <3>4. Len(r2) <= Len(q)
      BY <1>1, <1>3, <3>2 DEF ResultsOK
    <3>5. ResultsOK(r2, q, server)
      BY <1>1, <3>2, <3>3, <3>4 DEF ResultsOK
    <3> QED
      BY <3>1, <3>5 DEF r2
  <2> QED
    BY <2>1, <2>2
<1>5. BudgetOK(server, store, results', issued, faults + 1)
  BY <1>1, <1>3, BudgetFault
<1>6. store' = [store EXCEPT ![d] = store[d]]
  BY <1>1, <1>2
<1>7. /\ seen' \in [Devices -> Version] /\ details' \subseteq Devices
      /\ IdsOK(store', issued') /\ issued' \in 0 .. MaxWrites
      /\ faults' \in 0 .. MaxFaults
      /\ BudgetOK(server, store', results', issued', faults')
  BY <1>1, <1>2, <1>5 DEF SyncInv
<1> QED
  BY <1>1, <1>2, <1>4, <1>6, <1>7, DeviceStep

\* Every step of the specification keeps the invariant.
LEMMA NextSync == SyncInv /\ [Next]_vars => SyncInv'
<1> SUFFICES ASSUME SyncInv, [Next]_vars
             PROVE  SyncInv'
  OBVIOUS
<1>1. NoTitle \notin Titles /\ Author \in Devices
  BY NoteSyncAssumption
<1>2. \A t \in Titles : /\ ProperMutation([op |-> "set", title |-> t])
                        /\ ProperMutation([op |-> "patch", title |-> t])
  BY <1>1 DEF ProperMutation, Mutation, Title
<1>3. ProperMutation([op |-> "delete", title |-> NoTitle])
  BY DEF ProperMutation, Mutation, Title
<1>4. details \subseteq Devices
  BY DEF SyncInv
<1>5. ASSUME NEW t \in Titles, AddData(t)
      PROVE  SyncInv'
  BY <1>1, <1>2, <1>4, <1>5, StepWrite DEF AddData
<1>6. ASSUME NEW d \in Devices, NEW t \in Titles, UpdateData(d, t)
      PROVE  SyncInv'
  BY <1>2, <1>4, <1>6, StepWrite DEF UpdateData
<1>7. ASSUME NEW d \in Devices, DeleteData(d)
      PROVE  SyncInv'
  <2>1. Write(d, "delete", NoTitle) /\ details' \subseteq Devices
    BY <1>4, <1>7 DEF DeleteData
  <2> QED
    BY <1>3, <2>1, StepWrite
<1>8. ASSUME NEW d \in Devices, OpenDetails(d)
      PROVE  SyncInv'
  BY <1>8 DEF OpenDetails, SyncInv, remoteVars
<1>9. CASE UNCHANGED vars
  BY <1>9 DEF vars, SyncInv
<1> QED
  BY <1>5, <1>6, <1>7, <1>8, <1>9, StepResult, StepKill, StepCommit, StepFault,
     StepWatch DEF Next

-----------------------------------------------------------------------------
(* The theorems *)

\* The invariant above holds in every state of the devices and the server.
THEOREM SyncInvariant == Spec => []SyncInv
  BY InitSync, NextSync, PTL DEF Spec

\* The variables keep their types: a document has one overlay at most, and a
\* write makes at most one version when it is sent and one for every fault.
THEOREM SyncTypes == Spec => []TypeOK
<1>1. SyncInv => TypeOK
  <2> SUFFICES ASSUME SyncInv, NEW d \in Devices
               PROVE  Cardinality(store[d].overlay) <= 1
    BY DEF SyncInv, TypeOK
  <2>1. \A x, y \in store[d].overlay : x = y
    BY DEF SyncInv, StoreInv, ProperOverlay
  <2>2. CASE store[d].overlay = {}
    BY <2>2, FS_EmptySet
  <2>3. CASE store[d].overlay # {}
    <3>1. PICK x : store[d].overlay = {x}
      BY <2>1, <2>3
    <3>2. Cardinality({x}) = 1
      BY FS_Singleton
    <3> QED
      BY <3>1, <3>2
  <2> QED
    BY <2>2, <2>3
<1> QED
  BY <1>1, SyncInvariant, PTL

\* AcknowledgeBatch and PopulateDocumentChanges: the two streams that bring
\* versions leave in the cache what the server had at the version it names.
THEOREM CacheIsTrueAlways == Spec => []CacheIsTrue
<1>1. SyncInv => CacheIsTrue
  BY DEF SyncInv, CacheIsTrue, CacheOK
<1> QED
  BY <1>1, SyncInvariant, PTL

\* AcknowledgeBatch, RejectBatch and ComputeDocumentChanges: of a settled
\* write no overlay is left, and the list shows the cached version.
THEOREM SettledShowsCacheAlways == Spec => []SettledShowsCache
<1>1. SyncInv => SettledShowsCache
  <2> SUFFICES ASSUME SyncInv, NEW d \in Devices, store[d].queue = <<>>,
                      ~PendingWrites(store[d].cache)
               PROVE  /\ store[d].overlay = {}
                      /\ store[d].view.title = store[d].cache.title
    BY DEF SettledShowsCache
  <2>1. StoreInv(store[d])
    BY DEF SyncInv
  <2>2. store[d].overlay = {}
    BY <2>1, NoOverlay DEF StoreInv
  <2>3. store[d].view.title = store[d].cache.title
    BY <2>1 DEF StoreInv, Shows, PendingWrites
  <2> QED
    BY <2>2, <2>3
<1> QED
  BY <1>1, SyncInvariant, PTL

=============================================================================
