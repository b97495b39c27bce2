------------------------- MODULE PostLifecycleProofs -------------------------
(***************************************************************************)
(* TLAPS proofs about PostLifecycle, for any posts and devices and any     *)
(* length of the write queues.                                             *)
(***************************************************************************)
EXTENDS PostLifecycle, SequenceTheorems, TLAPS

\* Every queued write is one of the four the code makes, its continuation
\* possibly lost in a kill.
WriteShape(w) ==
    \/ w.set = NewPostFields /\ w.then = "none"
    \/ w.set = {"imageURL"} /\ w.del = {"paht"} /\ w.then = "none"
    \/ w.set = {"description"} /\ w.del = {} /\ w.then # "image"
    \/ w.set = {} /\ w.del = Fields /\ w.then # "get"

\* Nothing but, perhaps, an upload in flight knows post i.
Fresh(i) ==
    /\ server[i] = {} /\ i \notin deleted
    /\ \A d \in Devices :
          /\ synced[d][i] = {}
          /\ \A k \in 1 .. Len(pending[d]) : pending[d][k].id # i
          /\ \A p \in detail[d] : p.id # i
    /\ \A c \in tasks : c.id = i => c.op = "put"

\* Post i is added by the k-th queued write of device d and not yet on the
\* server: only d, after that write, refers to i.
Private(d, k, i) ==
    /\ server[i] = {} /\ i \notin deleted
    /\ \A e \in Devices :
          /\ synced[e][i] = {}
          /\ \A m \in 1 .. Len(pending[e]) :
                pending[e][m].id = i => e = d /\ m >= k
          /\ \A p \in detail[e] : p.id = i => e = d
    /\ \A c \in tasks : c.id = i => c.dev = d /\ c.op = "url"

\* Its picture is stored; and it is private unless the add was applied before
\* and is to be repeated.
Unpublished(d, k, i) == i \in files /\ (i \in repeated \/ Private(d, k, i))

UnusedFresh ==
    \A i \in Posts \ used : Fresh(i) /\ \A c \in tasks : c.id # i

UploadFresh ==
    \A c \in tasks : c.op = "put" =>
        Fresh(c.id) /\ \A b \in tasks : b.id = c.id => b = c

QueueInv ==
    \A d \in Devices : \A k \in 1 .. Len(pending[d]) :
        LET w == pending[d][k] IN
        /\ WriteShape(w)
        /\ "datePublished" \in w.set => Unpublished(d, k, w.id)
        /\ "imageURL" \in w.set => w.id \in thumbs \cup deleted

ServerInv ==
    \A i \in Posts :
        /\ Listed(server[i]) => i \in files /\ i \notin deleted \ repeated
        /\ "imageURL" \in server[i] => i \in thumbs \cup deleted
        /\ \A d \in Devices : Listed(synced[d][i]) => i \in files

ImageTasks == \A c \in tasks : c.op = "image" => c.id \in deleted

PostInv == TypeOK /\ UnusedFresh /\ UploadFresh /\ QueueInv /\ ServerInv /\ ImageTasks

-----------------------------------------------------------------------------
(* What a step does to a queue of writes.                                  *)

\* An enqueued write is the last of its device's queue.
LEMMA EnqueueFacts ==
    ASSUME TypeOK, NEW d \in Devices, NEW w \in Write, Enqueue(d, w)
    PROVE  /\ pending' \in [Devices -> Seq(Write)]
           /\ \A e \in Devices \ {d} : pending'[e] = pending[e]
           /\ Len(pending[d]) \in Nat
           /\ Len(pending'[d]) = Len(pending[d]) + 1
           /\ \A k \in 1 .. Len(pending[d]) : pending'[d][k] = pending[d][k]
           /\ pending'[d][Len(pending[d]) + 1] = w
<1> DEFINE q == pending[d]
<1>1. q \in Seq(Write) /\ pending \in [Devices -> Seq(Write)]
  BY DEF TypeOK
<1>2. pending' = [pending EXCEPT ![d] = Append(q, w)]
  BY DEF Enqueue
<1>3. /\ Append(q, w) \in Seq(Write)
      /\ Len(q) \in Nat
      /\ Len(Append(q, w)) = Len(q) + 1
      /\ \A k \in 1 .. Len(q) : Append(q, w)[k] = q[k]
      /\ Append(q, w)[Len(q) + 1] = w
  BY <1>1, AppendProperties, LenProperties
<1> HIDE DEF q
<1>4. pending'[d] = Append(q, w)
  BY <1>1, <1>2
<1>5. \A e \in Devices \ {d} : pending'[e] = pending[e]
  BY <1>1, <1>2
<1>6. pending' \in [Devices -> Seq(Write)]
  BY <1>1, <1>2, <1>3
<1> QED
  BY <1>3, <1>4, <1>5, <1>6 DEF q

\* Taking the head of a queue moves every other write one place up.
LEMMA DequeueFacts ==
    ASSUME TypeOK, NEW d \in Devices, pending[d] # <<>>,
           pending' = [pending EXCEPT ![d] = Tail(@)]
    PROVE  /\ pending' \in [Devices -> Seq(Write)]
           /\ \A e \in Devices \ {d} : pending'[e] = pending[e]
           /\ Len(pending'[d]) = Len(pending[d]) - 1
           /\ Len(pending[d]) \in Nat \ {0}
           /\ \A k \in 1 .. Len(pending[d]) - 1 :
                 pending'[d][k] = pending[d][k + 1]
           /\ Head(pending[d]) = pending[d][1]
           /\ pending[d][1] \in Write
<1> DEFINE q == pending[d]
<1>1. q \in Seq(Write) /\ q # <<>> /\ pending \in [Devices -> Seq(Write)]
  BY DEF TypeOK
<1>2. /\ Tail(q) \in Seq(Write) /\ Len(Tail(q)) = Len(q) - 1
      /\ \A k \in 1 .. Len(Tail(q)) : Tail(q)[k] = q[k + 1]
      /\ Head(q) \in Write
  BY <1>1, HeadTailProperties
<1>3. Len(q) \in Nat \ {0} /\ Head(q) = q[1]
  BY <1>1, EmptySeq, LenProperties
<1> HIDE DEF q
<1>4. pending'[d] = Tail(q) /\ \A e \in Devices \ {d} : pending'[e] = pending[e]
  BY <1>1 DEF q
<1>5. pending' \in [Devices -> Seq(Write)]
  BY <1>1, <1>2 DEF q
<1> QED
  BY <1>2, <1>3, <1>4, <1>5 DEF q

\* A kill leaves every queued write in place, without its continuation.
LEMMA KillFacts ==
    ASSUME TypeOK, NEW d \in Devices, Kill(d)
    PROVE  /\ pending' \in [Devices -> Seq(Write)]
           /\ \A e \in Devices \ {d} : pending'[e] = pending[e]
           /\ Len(pending[d]) \in Nat
           /\ Len(pending'[d]) = Len(pending[d])
           /\ \A k \in 1 .. Len(pending[d]) :
                 /\ pending'[d][k].id = pending[d][k].id
                 /\ pending'[d][k].set = pending[d][k].set
                 /\ pending'[d][k].del = pending[d][k].del
                 /\ pending'[d][k].then = "none"
<1> DEFINE q == pending[d]
           r == [k \in 1 .. Len(q) |-> [q[k] EXCEPT !.then = "none"]]
<1>1. q \in Seq(Write) /\ pending \in [Devices -> Seq(Write)]
  BY DEF TypeOK
<1>2. Len(q) \in Nat /\ \A k \in 1 .. Len(q) : q[k] \in Write
  BY <1>1, LenProperties, ElementOfSeq
<1>3. \A k \in 1 .. Len(q) :
         /\ [q[k] EXCEPT !.then = "none"] \in Write
         /\ [q[k] EXCEPT !.then = "none"].id = q[k].id
         /\ [q[k] EXCEPT !.then = "none"].set = q[k].set
         /\ [q[k] EXCEPT !.then = "none"].del = q[k].del
         /\ [q[k] EXCEPT !.then = "none"].then = "none"
  BY <1>2 DEF Write
<1>4. r \in [1 .. Len(q) -> Write]
  BY <1>3
<1>5. r \in Seq(Write)
  BY <1>2, <1>4, SeqDef
<1>6. Len(r) = Len(q)
  <2>1. DOMAIN r = 1 .. Len(q)
    OBVIOUS
  <2>2. DOMAIN r = 1 .. Len(r) /\ Len(r) \in Nat
    BY <1>5, LenProperties
  <2> HIDE DEF r
  <2> QED
    BY <2>1, <2>2, <1>2
<1>7. pending' = [pending EXCEPT ![d] = r]
  BY DEF Kill
<1>8. \A k \in 1 .. Len(q) : r[k] = [q[k] EXCEPT !.then = "none"]
  OBVIOUS
<1> HIDE DEF q, r
<1>9. pending'[d] = r /\ \A e \in Devices \ {d} : pending'[e] = pending[e]
  BY <1>1, <1>7
<1>10. pending' \in [Devices -> Seq(Write)]
  BY <1>1, <1>5, <1>7
<1> QED
  BY <1>2, <1>3, <1>6, <1>8, <1>9, <1>10 DEF q

-----------------------------------------------------------------------------
(* Type correctness.                                                       *)

\* The writes and calls of the code are of the declared types.
LEMMA WriteTypes ==
    ASSUME NEW i \in Posts
    PROVE  /\ AddDocument(i) \in Write
           /\ SetImageURL(i) \in Write
           /\ SetDescription(i) \in Write
           /\ \A u \in BOOLEAN : Delete([id |-> i, url |-> u]) \in Write
  BY DEF AddDocument, SetImageURL, SetDescription, Delete, Write, NewPostFields,
         Fields

LEMMA DeleteType ==
    ASSUME NEW p \in [id : Posts, url : BOOLEAN]
    PROVE  Delete(p) \in Write
  BY DEF Delete, Write, NewPostFields, Fields

\* Every step of a device or of Storage keeps the types.
LEMMA TypeStep ==
    ASSUME TypeOK, [Next]_vars
    PROVE  TypeOK'
<1> USE DEF TypeOK
<1>1. ASSUME NEW d \in Devices, Commit(d) PROVE TypeOK'
  <2> DEFINE w == Head(pending[d])
  <2>1. /\ pending' \in [Devices -> Seq(Write)] /\ w \in Write
    BY <1>1, DequeueFacts DEF Commit
  <2>2. \A doc \in SUBSET Fields : Apply(w, doc) \in SUBSET Fields
    BY <2>1 DEF Apply, Write
  <2>3. server' \in [Posts -> SUBSET Fields]
    BY <1>1, <2>1, <2>2 DEF Commit, Write
  <2>4. synced' \in [Devices -> [Posts -> SUBSET Fields]]
    BY <1>1, <2>1, <2>2 DEF Commit, Write
  <2>5. tasks' \in SUBSET Task
    BY <1>1, <2>1 DEF Commit, Write, Task, Call
  <2>6. deleted' \in SUBSET Posts
    BY <1>1, <2>1 DEF Commit, Write
  <2> QED
    BY <1>1, <2>1, <2>3, <2>4, <2>5, <2>6 DEF Commit
<1>2. ASSUME NEW d \in Devices, Reject(d) PROVE TypeOK'
  BY <1>2, DequeueFacts DEF Reject
<1>3. ASSUME NEW d \in Devices, Sync(d) PROVE TypeOK'
  BY <1>3 DEF Sync
<1>4. ASSUME NEW d \in Devices, ReloadData(d) PROVE TypeOK'
  BY <1>4 DEF ReloadData, Task, Call
<1>5. ASSUME NEW d \in Devices, CloseDetail(d) PROVE TypeOK'
  BY <1>5 DEF CloseDetail
<1>6. ASSUME NEW d \in Devices, UpdatePost(d) PROVE TypeOK'
  <2>1. PICK p \in detail[d] : Enqueue(d, SetDescription(p.id))
    BY <1>6 DEF UpdatePost
  <2>2. pending' \in [Devices -> Seq(Write)]
    BY <2>1, WriteTypes, EnqueueFacts
  <2> QED
    BY <1>6, <2>2 DEF UpdatePost
<1>7. ASSUME NEW d \in Devices, DeletePost(d) PROVE TypeOK'
  <2>1. PICK p \in detail[d] : Enqueue(d, Delete(p))
    BY <1>7 DEF DeletePost
  <2>2. pending' \in [Devices -> Seq(Write)]
    BY <2>1, DeleteType, EnqueueFacts
  <2> QED
    BY <1>7, <2>2 DEF DeletePost
<1>8. ASSUME NEW d \in Devices, Kill(d) PROVE TypeOK'
  <2>1. pending' \in [Devices -> Seq(Write)]
    BY <1>8, KillFacts
  <2>2. tasks' \in SUBSET Task /\ files' \in SUBSET Posts
    BY <1>8 DEF Kill
  <2> QED
    BY <1>8, <2>1, <2>2 DEF Kill
<1>9. ASSUME NEW d \in Devices, NEW i \in Posts, AddData(d, i) PROVE TypeOK'
  BY <1>9 DEF AddData, Task, Call
<1>10. ASSUME NEW d \in Devices, NEW i \in Posts, PutData(d, i) PROVE TypeOK'
  <2>1. pending' \in [Devices -> Seq(Write)]
    BY <1>10, WriteTypes, EnqueueFacts DEF PutData
  <2> QED
    BY <1>10, <2>1 DEF PutData
<1>11. ASSUME NEW d \in Devices, NEW i \in Posts, PutDataFails(d, i) PROVE TypeOK'
  BY <1>11 DEF PutDataFails
<1>12. ASSUME NEW d \in Devices, NEW i \in Posts, ConfigureItem(d, i) PROVE TypeOK'
  BY <1>12 DEF ConfigureItem, Task, Call
<1>13. ASSUME NEW d \in Devices, NEW i \in Posts, DownloadURL(d, i) PROVE TypeOK'
  <2>1. pending' \in [Devices -> Seq(Write)]
    BY <1>13, WriteTypes, EnqueueFacts DEF DownloadURL
  <2> QED
    BY <1>13, <2>1 DEF DownloadURL
<1>14. ASSUME NEW d \in Devices, NEW i \in Posts, OpenDetail(d, i) PROVE TypeOK'
  BY <1>14 DEF OpenDetail
<1>15. ASSUME NEW d \in Devices, NEW i \in Posts, GetDocument(d, i) PROVE TypeOK'
  <2>1. \A p \in [id : Posts, url : BOOLEAN] :
           Refreshed(p, i) \in [id : Posts, url : BOOLEAN]
    BY DEF Refreshed
  <2> DEFINE new == {Refreshed(p, i) : p \in detail[d]}
  <2>2. detail' \in [Devices -> SUBSET [id : Posts, url : BOOLEAN]]
    <3>1. new \in SUBSET [id : Posts, url : BOOLEAN]
      BY <2>1
    <3>2. detail' \in {detail, [detail EXCEPT ![d] = new]}
      BY <1>15 DEF GetDocument
    <3> HIDE DEF new
    <3> QED
      BY <3>1, <3>2
  <2>3. synced' \in [Devices -> [Posts -> SUBSET Fields]]
    BY <1>15 DEF GetDocument
  <2> QED
    BY <1>15, <2>2, <2>3 DEF GetDocument
<1>16. ASSUME NEW d \in Devices, NEW i \in Posts, DeleteImage(d, i) PROVE TypeOK'
  BY <1>16 DEF DeleteImage
<1>17. ASSUME NEW i \in Posts, MakeThumbnail(i) PROVE TypeOK'
  BY <1>17 DEF MakeThumbnail
<1>18. ASSUME NEW c \in tasks, CallFails(c) PROVE TypeOK'
  BY <1>18 DEF CallFails
<1>19. ASSUME NEW d \in Devices, CommitUnheard(d) PROVE TypeOK'
  <2> DEFINE w == Head(pending[d])
  <2>1. w \in Write
    BY <1>19, HeadTailProperties DEF CommitUnheard
  <2>2. \A doc \in SUBSET Fields : Apply(w, doc) \in SUBSET Fields
    BY <2>1 DEF Apply, Write
  <2>3. server' \in [Posts -> SUBSET Fields]
    BY <1>19, <2>1, <2>2 DEF CommitUnheard, Write
  <2>4. deleted' \in SUBSET Posts /\ repeated' \in SUBSET Posts
    BY <1>19, <2>1 DEF CommitUnheard, Write
  <2> QED
    BY <1>19, <2>3, <2>4 DEF CommitUnheard
<1>20. CASE UNCHANGED vars
  BY <1>20 DEF vars
<1> QED
  BY <1>1, <1>2, <1>3, <1>4, <1>5, <1>6, <1>7, <1>8, <1>9, <1>10, <1>11,
     <1>12, <1>13, <1>14, <1>15, <1>16, <1>17, <1>18, <1>19, <1>20 DEF Next

\* The collection, the caches, the queues and the calls in flight keep their
\* types in every behaviour.
THEOREM PostTypeCorrect == Spec => []TypeOK
<1>1. Init => TypeOK
  BY DEF Init, TypeOK
<1>2. TypeOK /\ [Next]_vars => TypeOK'
  BY TypeStep
<1> QED
  BY <1>1, <1>2, PTL DEF Spec

-----------------------------------------------------------------------------
(* The inductive invariant, kept by steps that leave the queues alone.     *)

\* A device that lists a post got it from the server or queued its add.
LEMMA ListedSource ==
    ASSUME TypeOK, NEW d \in Devices, NEW i \in Posts, Listed(View(d, i))
    PROVE  \/ Listed(synced[d][i])
           \/ \E k \in 1 .. Len(pending[d]) :
                 pending[d][k].id = i /\ "datePublished" \in pending[d][k].set
<1>1. Len(pending[d]) \in Nat
  BY LenProperties DEF TypeOK
<1> QED
  BY <1>1 DEF Listed, View, Overlay

\* So nobody lists a post that only an upload knows, and a post whose add is
\* still queued is listed on that device alone.
LEMMA ListedKnown ==
    ASSUME TypeOK, NEW d \in Devices, NEW i \in Posts, Listed(View(d, i))
    PROVE  /\ ~Fresh(i)
           /\ \A e \in Devices : \A k \in 1 .. Len(pending[e]) :
                 Private(e, k, i) => e = d
  BY ListedSource DEF Fresh, Private, Listed

\* A step that leaves the collection and the queues alone: screens and calls
\* refer to posts already referred to, or listed; an upload takes an unused
\* UUID; a thumbnail goes only when its post is deleted.
Quiet ==
    /\ server' = server /\ pending' = pending
    /\ deleted' = deleted /\ repeated' = repeated
    /\ used \subseteq used' /\ files \subseteq files'
    /\ thumbs \subseteq thumbs' \cup deleted
    /\ \A e \in Devices, i \in Posts : synced'[e][i] \in {synced[e][i], server[i]}
    /\ \A e \in Devices : \A p \in detail'[e] :
          (\E o \in detail[e] : o.id = p.id) \/ Listed(View(e, p.id))
    /\ \A c \in tasks' :
          \/ c \in tasks
          \/ c.op = "url" /\ Listed(View(c.dev, c.id))
          \/ /\ c.op = "put" /\ c.id \in used' \ used
             /\ \A b \in tasks' : b.id = c.id => b = c

LEMMA QuietStep ==
    ASSUME PostInv, TypeOK', Quiet
    PROVE  PostInv'
<1>1. TypeOK
  BY DEF PostInv
<1>t. /\ \A c \in tasks \cup tasks' : c.dev \in Devices /\ c.id \in Posts
      /\ \A e \in Devices : \A p \in detail[e] \cup detail'[e] : p.id \in Posts
      /\ \A e \in Devices : Len(pending[e]) \in Nat
      /\ \A e \in Devices : \A k \in 1 .. Len(pending[e]) : pending[e][k] \in Write
  <2>1. \A c \in tasks \cup tasks' : c.dev \in Devices /\ c.id \in Posts
    BY <1>1 DEF TypeOK, Task
  <2>2. \A e \in Devices : \A p \in detail[e] \cup detail'[e] : p.id \in Posts
    BY <1>1 DEF TypeOK
  <2>3. \A e \in Devices : pending[e] \in Seq(Write)
    BY <1>1 DEF TypeOK
  <2>4. \A e \in Devices : Len(pending[e]) \in Nat
    BY <2>3, LenProperties
  <2>5. \A e \in Devices : \A k \in 1 .. Len(pending[e]) : pending[e][k] \in Write
    BY <2>3, ElementOfSeq
  <2> QED
    BY <2>1, <2>2, <2>4, <2>5
<1>2. ASSUME NEW i \in Posts, Fresh(i) PROVE Fresh(i)'
  <2>1. \A d \in Devices : ~Listed(View(d, i))
    BY <1>1, <1>2, ListedKnown
  <2>2. \A d \in Devices : synced'[d][i] = {}
    BY <1>2 DEF Fresh, Quiet
  <2>3. \A d \in Devices : \A p \in detail'[d] : p.id # i
    BY <1>2, <2>1 DEF Fresh, Quiet
  <2>4. \A c \in tasks' : c.id = i => c.op = "put"
    BY <1>2, <2>1, <1>t DEF Fresh, Quiet
  <2> QED
    BY <1>2, <2>2, <2>3, <2>4 DEF Fresh, Quiet
<1>3. ASSUME NEW d \in Devices, NEW k \in 1 .. Len(pending[d]),
             Unpublished(d, k, pending[d][k].id)
      PROVE  Unpublished(d, k, pending[d][k].id)'
  <2> DEFINE i == pending[d][k].id
  <2>0. i \in Posts
    BY <1>t DEF Write
  <2>r. CASE i \in repeated
    BY <1>3, <2>r DEF Unpublished, Quiet
  <2>p. SUFFICES ASSUME Private(d, k, i)
                 PROVE  Unpublished(d, k, pending[d][k].id)'
    BY <1>3, <2>r DEF Unpublished
  <2>1. \A e \in Devices : Listed(View(e, i)) => e = d
    BY <1>1, <2>p, <2>0, ListedKnown
  <2>2. i \in used
    BY <2>0 DEF PostInv, UnusedFresh, Fresh
  <2>3. \A e \in Devices : synced'[e][i] = {}
    BY <2>p, <2>0 DEF Private, Quiet
  <2>4. \A e \in Devices : \A p \in detail'[e] : p.id = i => e = d
    BY <2>p, <2>1 DEF Private, Quiet
  <2>5. \A c \in tasks' : c.id = i => c.dev = d /\ c.op = "url"
    BY <2>p, <2>1, <2>2, <1>t DEF Private, Quiet
  <2>6. i' = i
    BY DEF Quiet
  <2> QED
    BY <1>3, <2>p, <2>3, <2>4, <2>5, <2>6 DEF Unpublished, Private, Quiet
<1>4. UnusedFresh'
  <2> SUFFICES ASSUME NEW i \in Posts, i \notin used'
               PROVE  Fresh(i)' /\ \A c \in tasks' : c.id # i
    BY DEF UnusedFresh
  <2>1. Fresh(i) /\ \A c \in tasks : c.id # i
    BY DEF PostInv, UnusedFresh, Quiet
  <2>2. \A d \in Devices : ~Listed(View(d, i))
    BY <1>1, <2>1, ListedKnown
  <2> QED
    BY <1>2, <1>t, <2>1, <2>2 DEF Quiet
<1>5. UploadFresh'
  <2> SUFFICES ASSUME NEW c \in tasks', c.op = "put"
               PROVE  Fresh(c.id)' /\ \A b \in tasks' : b.id = c.id => b = c
    BY DEF UploadFresh
  <2>1. CASE c \in tasks
    <3>1. Fresh(c.id) /\ \A b \in tasks : b.id = c.id => b = c
      BY <2>1 DEF PostInv, UploadFresh
    <3>2. c.id \in used /\ \A d \in Devices : ~Listed(View(d, c.id))
      BY <1>1, <1>t, <2>1, <3>1, ListedKnown DEF PostInv, UnusedFresh
    <3> QED
      BY <1>2, <1>t, <3>1, <3>2 DEF Quiet
  <2>2. CASE c \notin tasks
    <3>1. c.id \notin used /\ \A b \in tasks' : b.id = c.id => b = c
      BY <2>2 DEF Quiet
    <3>2. Fresh(c.id)
      BY <1>t, <3>1 DEF PostInv, UnusedFresh
    <3> QED
      BY <1>2, <1>t, <3>1, <3>2
  <2> QED
    BY <2>1, <2>2
<1>6. QueueInv'
  <2> SUFFICES ASSUME NEW d \in Devices, NEW k \in 1 .. Len(pending[d])
               PROVE  /\ WriteShape(pending[d][k])
                      /\ "datePublished" \in pending[d][k].set =>
                            Unpublished(d, k, pending[d][k].id)'
                      /\ "imageURL" \in pending[d][k].set =>
                            pending[d][k].id \in thumbs' \cup deleted
    BY DEF QueueInv, Quiet, WriteShape
  <2>1. /\ WriteShape(pending[d][k])
        /\ "datePublished" \in pending[d][k].set => Unpublished(d, k, pending[d][k].id)
        /\ "imageURL" \in pending[d][k].set => pending[d][k].id \in thumbs \cup deleted
    BY DEF PostInv, QueueInv
  <2> QED
    BY <1>3, <2>1 DEF Quiet
<1>7. ServerInv'
  BY DEF PostInv, ServerInv, Quiet, Listed
<1>8. ImageTasks'
  BY DEF PostInv, ImageTasks, Quiet
<1> QED
  BY <1>4, <1>5, <1>6, <1>7, <1>8 DEF PostInv

-----------------------------------------------------------------------------
(* The inductive invariant, kept by steps that queue a write.              *)

\* Types of what the invariant looks into.
LEMMA Typing ==
    ASSUME TypeOK
    PROVE  /\ \A c \in tasks : c.dev \in Devices /\ c.id \in Posts
           /\ \A e \in Devices : \A p \in detail[e] : p.id \in Posts
           /\ \A e \in Devices : Len(pending[e]) \in Nat
           /\ \A e \in Devices : \A k \in 1 .. Len(pending[e]) :
                 pending[e][k] \in Write /\ pending[e][k].id \in Posts
<1>1. \A c \in tasks : c.dev \in Devices /\ c.id \in Posts
  BY DEF TypeOK, Task
<1>2. \A e \in Devices : \A p \in detail[e] : p.id \in Posts
  BY DEF TypeOK
<1>3. \A e \in Devices : pending[e] \in Seq(Write)
  BY DEF TypeOK
<1>4. \A e \in Devices : Len(pending[e]) \in Nat
  BY <1>3, LenProperties
<1>5. \A e \in Devices : \A k \in 1 .. Len(pending[e]) : pending[e][k] \in Write
  BY <1>3, ElementOfSeq
<1> QED
  BY <1>1, <1>2, <1>4, <1>5 DEF Write

\* Device d queues w: the add of a post that only its upload knew, or a write
\* to a post that d already refers to.
Queues(d, w) ==
    /\ Enqueue(d, w)
    /\ UNCHANGED <<server, synced, thumbs, detail, used, deleted, repeated>>
    /\ files \subseteq files' /\ tasks' \subseteq tasks
    /\ WriteShape(w)
    /\ "imageURL" \in w.set => w.id \in thumbs \cup deleted
    /\ \/ /\ \E c \in tasks : c.op = "put" /\ c.id = w.id
          /\ w.id \in files' /\ \A c \in tasks' : c.id # w.id
       \/ /\ "datePublished" \notin w.set
          /\ \/ \E c \in tasks : c.op = "url" /\ c.dev = d /\ c.id = w.id
             \/ \E p \in detail[d] : p.id = w.id

LEMMA QueuesStep ==
    ASSUME PostInv, TypeOK', NEW d \in Devices, NEW w \in Write, Queues(d, w)
    PROVE  PostInv'
<1>1. TypeOK
  BY DEF PostInv
<1>n. PICK n \in Nat : n = Len(pending[d])
  BY <1>1, Typing
<1>2. /\ \A e \in Devices \ {d} : pending'[e] = pending[e]
      /\ Len(pending'[d]) = n + 1
      /\ \A k \in 1 .. n : pending'[d][k] = pending[d][k]
      /\ pending'[d][n + 1] = w
  BY <1>1, <1>n, EnqueueFacts DEF Queues
<1>3. w.id \in Posts
  BY DEF Write
<1>4. \A e \in Devices : \A k \in 1 .. Len(pending'[e]) :
         \/ k \in 1 .. Len(pending[e]) /\ pending'[e][k] = pending[e][k]
         \/ e = d /\ k = n + 1 /\ pending'[e][k] = w
  <2> TAKE e \in Devices
  <2> TAKE k \in 1 .. Len(pending'[e])
  <2>1. CASE e # d
    BY <1>2, <2>1
  <2>2. CASE e = d
    <3>1. k \in 1 .. n \/ k = n + 1
      BY <1>2, <2>2
    <3> QED
      BY <1>2, <1>n, <2>2, <3>1
  <2> QED
    BY <2>1, <2>2
<1>5. ASSUME NEW i \in Posts, Fresh(i), i # w.id PROVE Fresh(i)'
  <2>1. \A e \in Devices : \A k \in 1 .. Len(pending'[e]) : pending'[e][k].id # i
    BY <1>4, <1>5 DEF Fresh
  <2> QED
    BY <1>5, <2>1 DEF Fresh, Queues
<1>6. w.id \in used
  BY <1>3 DEF PostInv, UnusedFresh, Fresh, Queues
<1>7. UnusedFresh'
  BY <1>5, <1>6 DEF PostInv, UnusedFresh, Queues
<1>8. UploadFresh'
  <2> SUFFICES ASSUME NEW c \in tasks', c.op = "put"
               PROVE  Fresh(c.id)' /\ \A b \in tasks' : b.id = c.id => b = c
    BY DEF UploadFresh
  <2>1. c \in tasks
    BY DEF Queues
  <2>2. Fresh(c.id) /\ \A b \in tasks : b.id = c.id => b = c
    BY <2>1 DEF PostInv, UploadFresh
  <2>3. c.id \in Posts
    BY <1>1, <2>1, Typing
  <2>4. c.id # w.id
    BY <2>1, <2>2 DEF Fresh, Queues
  <2> QED
    BY <1>5, <2>2, <2>3, <2>4 DEF Queues
<1>9. ASSUME NEW e \in Devices, NEW k \in 1 .. Len(pending[e]),
             NEW i \in Posts, pending[e][k].id = i, Unpublished(e, k, i)
      PROVE  Unpublished(e, k, i)'
  <2>r. CASE i \in repeated
    BY <1>9, <2>r DEF Unpublished, Queues
  <2>p. SUFFICES ASSUME Private(e, k, i) PROVE Unpublished(e, k, i)'
    BY <1>9, <2>r DEF Unpublished
  <2>1. w.id = i => e = d
    <3>1. ~Fresh(i)
      BY <1>9 DEF Fresh
    <3> QED
      BY <2>p, <3>1 DEF Private, Queues, PostInv, UploadFresh
  <2>2. ASSUME NEW f \in Devices, NEW m \in 1 .. Len(pending'[f]),
               pending'[f][m].id = i
        PROVE  f = e /\ m >= k
    <3>1. CASE m \in 1 .. Len(pending[f]) /\ pending'[f][m] = pending[f][m]
      BY <2>p, <2>2, <3>1 DEF Private
    <3>2. CASE f = d /\ m = n + 1 /\ pending'[f][m] = w
      <4>1. e = d
        BY <2>1, <2>2, <3>2
      <4>2. k \in 1 .. n
        BY <4>1, <1>n
      <4> QED
        BY <1>2, <3>2, <4>1, <4>2
    <3> QED
      BY <1>4, <3>1, <3>2
  <2> QED
    BY <1>9, <2>p, <2>2 DEF Unpublished, Private, Queues
<1>10. "datePublished" \in w.set => Unpublished(d, n + 1, w.id)'
  <2> SUFFICES ASSUME "datePublished" \in w.set
               PROVE  Unpublished(d, n + 1, w.id)'
    OBVIOUS
  <2>1. PICK c \in tasks : c.op = "put" /\ c.id = w.id
    BY DEF Queues
  <2>2. Fresh(w.id) /\ w.id \in files' /\ \A b \in tasks' : b.id # w.id
    BY <2>1 DEF PostInv, UploadFresh, Queues
  <2>3. \A e \in Devices : \A k \in 1 .. Len(pending'[e]) :
           pending'[e][k].id = w.id => e = d /\ k = n + 1
    BY <1>4, <2>2 DEF Fresh
  <2> QED
    BY <1>2, <2>2, <2>3 DEF Fresh, Unpublished, Private, Queues
<1>11. QueueInv'
  <2> SUFFICES ASSUME NEW e \in Devices, NEW k \in 1 .. Len(pending'[e])
               PROVE  /\ WriteShape(pending'[e][k])
                      /\ "datePublished" \in pending'[e][k].set =>
                            Unpublished(e, k, pending[e][k].id)'
                      /\ "imageURL" \in pending'[e][k].set =>
                            pending'[e][k].id \in thumbs' \cup deleted'
    BY DEF QueueInv, WriteShape
  <2>1. CASE k \in 1 .. Len(pending[e]) /\ pending'[e][k] = pending[e][k]
    <3>1. /\ WriteShape(pending[e][k])
          /\ "datePublished" \in pending[e][k].set => Unpublished(e, k, pending[e][k].id)
          /\ "imageURL" \in pending[e][k].set => pending[e][k].id \in thumbs \cup deleted
      BY <2>1 DEF PostInv, QueueInv
    <3>2. pending[e][k].id \in Posts
      BY <1>1, <2>1, Typing
    <3> DEFINE P(i) == Unpublished(e, k, i)'
    <3>3. "datePublished" \in pending[e][k].set => P(pending[e][k].id)
      BY <1>9, <2>1, <3>1, <3>2
    <3> QED
      BY <2>1, <3>1, <3>3 DEF Queues
  <2>2. CASE e = d /\ k = n + 1 /\ pending'[e][k] = w
    BY <1>10, <2>2 DEF Queues, Unpublished
  <2> QED
    BY <1>4, <2>1, <2>2
<1>12. ServerInv'
  BY DEF PostInv, ServerInv, Queues
<1>13. ImageTasks'
  BY DEF PostInv, ImageTasks, Queues
<1> QED
  BY <1>7, <1>8, <1>11, <1>12, <1>13 DEF PostInv

-----------------------------------------------------------------------------
(* The inductive invariant, kept when the oldest write is acknowledged or  *)
(* refused.                                                                *)

\* The oldest write w of device d leaves its queue; only the document w.id
\* and calls about it may change.
Dequeues(d, w) ==
    /\ pending[d] # <<>> /\ w = Head(pending[d])
    /\ pending' = [pending EXCEPT ![d] = Tail(@)]
    /\ UNCHANGED <<files, thumbs, detail, used, repeated>>
    /\ deleted \subseteq deleted'
    /\ \A i \in Posts \ {w.id} :
          /\ server'[i] = server[i] /\ (i \in deleted' => i \in deleted)
          /\ \A e \in Devices : synced'[e][i] = synced[e][i]
    /\ \A c \in tasks' : c \in tasks \/ (c.id = w.id /\ c.op # "put")

LEMMA DequeuesStep ==
    ASSUME PostInv, TypeOK', NEW d \in Devices, NEW w, Dequeues(d, w),
           ServerInv', ImageTasks'
    PROVE  PostInv'
<1>1. TypeOK
  BY DEF PostInv
<1>2. PICK n \in Nat : n = Len(pending[d])
  BY <1>1, Typing
<1>3. /\ \A e \in Devices \ {d} : pending'[e] = pending[e]
      /\ n \in Nat \ {0}
      /\ Len(pending'[d]) = n - 1
      /\ \A k \in 1 .. n - 1 : pending'[d][k] = pending[d][k + 1]
      /\ w = pending[d][1]
  BY <1>1, <1>2, DequeueFacts DEF Dequeues
<1>4. w.id \in Posts
  BY <1>1, <1>2, <1>3, Typing
\* The k-th write of e is now at place k, or one place up if e is d.
<1>5. \A e \in Devices : \A k \in 1 .. Len(pending'[e]) :
         \/ e # d /\ k \in 1 .. Len(pending[e]) /\ pending'[e][k] = pending[e][k]
         \/ /\ e = d /\ k \in Nat /\ k + 1 \in 1 .. Len(pending[e])
            /\ pending'[e][k] = pending[e][k + 1]
  <2> TAKE e \in Devices
  <2> TAKE k \in 1 .. Len(pending'[e])
  <2>1. CASE e # d
    BY <1>3, <2>1
  <2>2. CASE e = d
    <3>1. k \in 1 .. n - 1 /\ k \in Nat /\ k + 1 \in 1 .. n
      BY <1>3, <2>2
    <3> QED
      BY <1>2, <1>3, <2>2, <3>1
  <2> QED
    BY <2>1, <2>2
<1>6. ~Fresh(w.id)
  BY <1>2, <1>3 DEF Fresh
<1>7. w.id \in used
  BY <1>4, <1>6 DEF PostInv, UnusedFresh
<1>8. ASSUME NEW i \in Posts, Fresh(i) PROVE Fresh(i)'
  <2>1. i # w.id
    BY <1>6, <1>8
  <2>2. \A e \in Devices : \A k \in 1 .. Len(pending'[e]) : pending'[e][k].id # i
    BY <1>5, <1>8 DEF Fresh
  <2> QED
    BY <1>8, <2>1, <2>2 DEF Fresh, Dequeues
<1>9. UnusedFresh'
  BY <1>7, <1>8 DEF PostInv, UnusedFresh, Dequeues
<1>10. UploadFresh'
  <2> SUFFICES ASSUME NEW c \in tasks', c.op = "put"
               PROVE  Fresh(c.id)' /\ \A b \in tasks' : b.id = c.id => b = c
    BY DEF UploadFresh
  <2>1. c \in tasks
    BY DEF Dequeues
  <2>2. Fresh(c.id) /\ \A b \in tasks : b.id = c.id => b = c
    BY <2>1 DEF PostInv, UploadFresh
  <2>3. c.id \in Posts
    BY <1>1, <2>1, Typing
  <2> QED
    BY <1>6, <1>8, <2>2, <2>3 DEF Dequeues
\* A write further back adds another post than w does.
<1>11. ASSUME NEW e \in Devices, NEW k \in 1 .. Len(pending[e]), e = d => k # 1,
              NEW i \in Posts, Private(e, k, i)
       PROVE  i # w.id
  BY <1>2, <1>3, <1>11 DEF Private
<1>12. ASSUME NEW e \in Devices, NEW k \in 1 .. Len(pending[e]), e = d => k # 1,
              NEW i \in Posts, Unpublished(e, k, i),
              NEW j \in Nat, j = IF e = d THEN k - 1 ELSE k
       PROVE  Unpublished(e, j, i)'
  <2>r. CASE i \in repeated
    BY <1>12, <2>r DEF Unpublished, Dequeues
  <2>p. SUFFICES ASSUME Private(e, k, i) PROVE Unpublished(e, j, i)'
    BY <1>12, <2>r DEF Unpublished
  <2>1. i # w.id
    BY <1>11, <1>12, <2>p
  <2>2. ASSUME NEW f \in Devices, NEW m \in 1 .. Len(pending'[f]),
               pending'[f][m].id = i
        PROVE  f = e /\ m >= j
    <3>1. CASE f # d /\ m \in 1 .. Len(pending[f]) /\ pending'[f][m] = pending[f][m]
      BY <1>12, <2>p, <2>2, <3>1 DEF Private
    <3>2. CASE /\ f = d /\ m \in Nat /\ m + 1 \in 1 .. Len(pending[f])
               /\ pending'[f][m] = pending[f][m + 1]
      <4>1. f = e /\ m + 1 >= k
        BY <1>12, <2>p, <2>2, <3>2 DEF Private
      <4>2. k \in Int /\ j = k - 1
        BY <1>12, <3>2, <4>1
      <4> QED
        BY <3>2, <4>1, <4>2
    <3> QED
      BY <1>5, <3>1, <3>2
  <2>3. \A c \in tasks' : c.id = i => c \in tasks
    BY <2>1 DEF Dequeues
  <2> QED
    BY <1>12, <2>p, <2>1, <2>2, <2>3 DEF Unpublished, Private, Dequeues
<1>13. QueueInv'
  <2> SUFFICES ASSUME NEW e \in Devices, NEW j \in 1 .. Len(pending'[e])
               PROVE  /\ WriteShape(pending'[e][j])
                      /\ "datePublished" \in pending'[e][j].set =>
                            Unpublished(e, j, pending[e][j].id)'
                      /\ "imageURL" \in pending'[e][j].set =>
                            pending'[e][j].id \in thumbs' \cup deleted'
    BY DEF QueueInv, WriteShape
  <2>1. PICK k \in 1 .. Len(pending[e]) :
           /\ pending'[e][j] = pending[e][k] /\ (e = d => k # 1)
           /\ j = IF e = d THEN k - 1 ELSE k
    <3>1. CASE e # d /\ j \in 1 .. Len(pending[e]) /\ pending'[e][j] = pending[e][j]
      BY <3>1
    <3>2. CASE /\ e = d /\ j \in Nat /\ j + 1 \in 1 .. Len(pending[e])
               /\ pending'[e][j] = pending[e][j + 1]
      <4>1. j + 1 # 1 /\ j = (j + 1) - 1
        BY <3>2
      <4> QED
        BY <3>2, <4>1
    <3> QED
      BY <1>5, <3>1, <3>2
  <2>2. /\ WriteShape(pending[e][k])
        /\ "datePublished" \in pending[e][k].set => Unpublished(e, k, pending[e][k].id)
        /\ "imageURL" \in pending[e][k].set => pending[e][k].id \in thumbs \cup deleted
    BY DEF PostInv, QueueInv
  <2>3. PICK i \in Posts : i = pending[e][k].id
    BY <1>1, Typing
  <2>4. j \in Nat
    OBVIOUS
  <2>5. "datePublished" \in pending[e][k].set => Unpublished(e, j, i)'
    BY <1>12, <2>1, <2>2, <2>3, <2>4
  <2>6. "datePublished" \in pending[e][k].set => Unpublished(e, j, pending[e][j].id)'
    BY <2>1, <2>3, <2>5 DEF Unpublished
  <2> QED
    BY <2>1, <2>2, <2>6 DEF Dequeues
<1> QED
  BY <1>9, <1>10, <1>13 DEF PostInv

-----------------------------------------------------------------------------
(* The inductive invariant, kept by a kill.                                *)

LEMMA KillStep ==
    ASSUME PostInv, TypeOK', NEW d \in Devices, Kill(d)
    PROVE  PostInv'
<1>1. TypeOK
  BY DEF PostInv
<1>2. \A e \in Devices :
         /\ Len(pending'[e]) = Len(pending[e])
         /\ \A k \in 1 .. Len(pending[e]) :
               /\ pending'[e][k].id = pending[e][k].id
               /\ pending'[e][k].set = pending[e][k].set
               /\ pending'[e][k].del = pending[e][k].del
               /\ pending'[e][k].then \in {pending[e][k].then, "none"}
  BY <1>1, KillFacts
<1>3. /\ UNCHANGED <<server, synced, thumbs, used, deleted, repeated>>
      /\ tasks' \subseteq tasks /\ files \subseteq files'
      /\ \A e \in Devices : detail'[e] \subseteq detail[e]
  BY <1>1 DEF Kill, TypeOK
<1>4. ASSUME NEW i \in Posts, Fresh(i) PROVE Fresh(i)'
  BY <1>2, <1>3, <1>4 DEF Fresh
<1>5. ASSUME NEW e \in Devices, NEW k \in 1 .. Len(pending[e]), NEW i \in Posts,
             Unpublished(e, k, i)
      PROVE  Unpublished(e, k, i)'
  BY <1>2, <1>3, <1>5 DEF Unpublished, Private
<1>6. UnusedFresh'
  BY <1>3, <1>4 DEF PostInv, UnusedFresh
<1>7. UploadFresh'
  <2> SUFFICES ASSUME NEW c \in tasks', c.op = "put"
               PROVE  Fresh(c.id)' /\ \A b \in tasks' : b.id = c.id => b = c
    BY DEF UploadFresh
  <2>1. c \in tasks /\ c.id \in Posts
    BY <1>1, <1>3, Typing
  <2> QED
    BY <1>3, <1>4, <2>1 DEF PostInv, UploadFresh
<1>8. QueueInv'
  <2> SUFFICES ASSUME NEW e \in Devices, NEW k \in 1 .. Len(pending'[e])
               PROVE  /\ WriteShape(pending'[e][k])
                      /\ "datePublished" \in pending'[e][k].set =>
                            Unpublished(e, k, pending[e][k].id)'
                      /\ "imageURL" \in pending'[e][k].set =>
                            pending'[e][k].id \in thumbs' \cup deleted'
    BY DEF QueueInv, WriteShape
  <2>1. k \in 1 .. Len(pending[e])
    BY <1>2
  <2>2. PICK i \in Posts : i = pending[e][k].id
    BY <1>1, <2>1, Typing
  <2>3. /\ WriteShape(pending[e][k])
        /\ "datePublished" \in pending[e][k].set => Unpublished(e, k, i)
        /\ "imageURL" \in pending[e][k].set => i \in thumbs \cup deleted
    BY <2>1, <2>2 DEF PostInv, QueueInv
  <2>4. "datePublished" \in pending[e][k].set => Unpublished(e, k, i)'
    BY <1>5, <2>1, <2>3
  <2>5. "datePublished" \in pending[e][k].set => Unpublished(e, k, pending[e][k].id)'
    BY <1>2, <2>1, <2>2, <2>4 DEF Unpublished
  <2>6. WriteShape(pending'[e][k])
    BY <1>2, <2>1, <2>3 DEF WriteShape
  <2> QED
    BY <1>2, <1>3, <2>1, <2>2, <2>3, <2>5, <2>6
<1>9. ServerInv'
  BY <1>3 DEF PostInv, ServerInv
<1>10. ImageTasks'
  BY <1>3 DEF PostInv, ImageTasks
<1> QED
  BY <1>6, <1>7, <1>8, <1>9, <1>10 DEF PostInv

-----------------------------------------------------------------------------
(* Every action keeps the inductive invariant.                             *)

LEMMA CommitStep ==
    ASSUME PostInv, TypeOK', NEW d \in Devices, Commit(d)
    PROVE  PostInv'
<1>1. TypeOK
  BY DEF PostInv
<1>2. PICK w \in Write : w = Head(pending[d])
  BY <1>1, DequeueFacts DEF Commit
<1>3. /\ w = pending[d][1] /\ 1 \in 1 .. Len(pending[d])
  BY <1>1, <1>2, DequeueFacts DEF Commit
<1>4. /\ WriteShape(w)
      /\ "datePublished" \in w.set =>
            w.id \in files /\ w.id \notin deleted \ repeated
      /\ "imageURL" \in w.set => w.id \in thumbs \cup deleted
  BY <1>3 DEF PostInv, QueueInv, Unpublished, Private
<1>5. w.id \in Posts
  BY DEF Write
<1>6. /\ server' = [server EXCEPT ![w.id] = Apply(w, @)]
      /\ synced' = [synced EXCEPT ![d][w.id] = Apply(w, @)]
      /\ tasks' = tasks \cup (IF w.then = "none" THEN {} ELSE {Call(w.then, d, w.id)})
      /\ deleted' = IF w.set = {} THEN deleted \cup {w.id} ELSE deleted
  BY <1>2 DEF Commit
<1>7. /\ server'[w.id] = Apply(w, server[w.id])
      /\ synced'[d][w.id] = Apply(w, synced[d][w.id])
      /\ \A e \in Devices : e # d => synced'[e] = synced[e]
      /\ \A i \in Posts \ {w.id} :
            server'[i] = server[i] /\ \A e \in Devices : synced'[e][i] = synced[e][i]
  BY <1>1, <1>5, <1>6 DEF TypeOK
<1>8. Dequeues(d, w)
  <2>1. \A c \in tasks' : c \in tasks \/ (c.id = w.id /\ c.op # "put")
    BY <1>6 DEF Call, Write
  <2> QED
    BY <1>2, <1>6, <1>7, <2>1 DEF Commit, Dequeues
<1>9. ServerInv'
  <2> SUFFICES ASSUME NEW i \in Posts
               PROVE  /\ Listed(server'[i]) => i \in files /\ i \notin deleted' \ repeated
                      /\ "imageURL" \in server'[i] => i \in thumbs \cup deleted'
                      /\ \A e \in Devices : Listed(synced'[e][i]) => i \in files
    BY <1>8 DEF ServerInv, Dequeues, Listed
  <2>1. /\ Listed(server[i]) => i \in files /\ i \notin deleted \ repeated
        /\ "imageURL" \in server[i] => i \in thumbs \cup deleted
        /\ \A e \in Devices : Listed(synced[e][i]) => i \in files
    BY DEF PostInv, ServerInv
  <2>2. CASE i # w.id
    BY <1>6, <1>7, <2>1, <2>2
  <2>3. CASE i = w.id
    <3>1. Listed(server'[i]) => i \in files /\ i \notin deleted' \ repeated
      BY <1>4, <1>6, <1>7, <2>1, <2>3 DEF Listed, Apply, WriteShape, Fields, NewPostFields
    <3>2. "imageURL" \in server'[i] => i \in thumbs \cup deleted'
      BY <1>4, <1>6, <1>7, <2>1, <2>3 DEF Apply
    <3>3. \A e \in Devices : Listed(synced'[e][i]) => i \in files
      BY <1>4, <1>7, <2>1, <2>3 DEF Apply, Listed
    <3> QED
      BY <3>1, <3>2, <3>3
  <2> QED
    BY <2>2, <2>3
<1>10. ImageTasks'
  BY <1>4, <1>6 DEF PostInv, ImageTasks, Call, WriteShape
<1> QED
  BY <1>8, <1>9, <1>10, DequeuesStep

\* A write that is applied and stays queued: only its post changes, and that
\* is a repeated one from now on.
LEMMA CommitUnheardStep ==
    ASSUME PostInv, TypeOK', NEW d \in Devices, CommitUnheard(d)
    PROVE  PostInv'
<1>1. TypeOK
  BY DEF PostInv
<1>2. PICK w \in Write : w = Head(pending[d])
  BY <1>1, HeadTailProperties DEF CommitUnheard, TypeOK
<1>3. w = pending[d][1] /\ 1 \in 1 .. Len(pending[d])
  <2>1. pending[d] \in Seq(Write) /\ pending[d] # <<>>
    BY <1>1 DEF CommitUnheard, TypeOK
  <2>2. Len(pending[d]) \in Nat \ {0}
    BY <2>1, EmptySeq, LenProperties
  <2> QED
    BY <1>2, <2>1, <2>2
<1>4. /\ WriteShape(w)
      /\ "datePublished" \in w.set => w.id \in files
      /\ "imageURL" \in w.set => w.id \in thumbs \cup deleted
  BY <1>3 DEF PostInv, QueueInv, Unpublished
<1>5. w.id \in Posts
  BY DEF Write
<1>6. /\ server' = [server EXCEPT ![w.id] = Apply(w, @)]
      /\ deleted' = IF w.set = {} THEN deleted \cup {w.id} ELSE deleted
      /\ repeated' = repeated \cup {w.id}
      /\ UNCHANGED <<synced, pending, files, thumbs, tasks, detail, used>>
  BY <1>2 DEF CommitUnheard
<1>7. /\ server'[w.id] = Apply(w, server[w.id])
      /\ \A i \in Posts \ {w.id} :
            server'[i] = server[i] /\ (i \in deleted' => i \in deleted)
  BY <1>1, <1>5, <1>6 DEF TypeOK
<1>8. ASSUME NEW i \in Posts, Fresh(i) PROVE Fresh(i)'
  <2>1. i # w.id
    BY <1>3, <1>8 DEF Fresh
  <2> QED
    BY <1>6, <1>7, <1>8, <2>1 DEF Fresh
<1>9. ASSUME NEW e \in Devices, NEW k \in 1 .. Len(pending[e]), NEW i \in Posts,
             Unpublished(e, k, i)
      PROVE  Unpublished(e, k, i)'
  <2>1. CASE i \in repeated \cup {w.id}
    BY <1>6, <1>9, <2>1 DEF Unpublished
  <2>2. CASE i \notin repeated \cup {w.id}
    BY <1>6, <1>7, <1>9, <2>2 DEF Unpublished, Private
  <2> QED
    BY <2>1, <2>2
<1>10. UnusedFresh'
  BY <1>6, <1>8 DEF PostInv, UnusedFresh
<1>11. UploadFresh'
  <2>1. \A c \in tasks : c.id \in Posts
    BY <1>1, Typing
  <2> QED
    BY <1>6, <1>8, <2>1 DEF PostInv, UploadFresh
<1>12. QueueInv'
  <2> SUFFICES ASSUME NEW e \in Devices, NEW k \in 1 .. Len(pending[e])
               PROVE  /\ WriteShape(pending[e][k])
                      /\ "datePublished" \in pending[e][k].set =>
                            Unpublished(e, k, pending[e][k].id)'
                      /\ "imageURL" \in pending[e][k].set =>
                            pending[e][k].id \in thumbs' \cup deleted'
    BY <1>6 DEF QueueInv, WriteShape
  <2>1. PICK i \in Posts : i = pending[e][k].id
    BY <1>1, Typing
  <2>2. /\ WriteShape(pending[e][k])
        /\ "datePublished" \in pending[e][k].set => Unpublished(e, k, i)
        /\ "imageURL" \in pending[e][k].set => i \in thumbs \cup deleted
    BY <2>1 DEF PostInv, QueueInv
  <2>3. "datePublished" \in pending[e][k].set => Unpublished(e, k, i)'
    BY <1>9, <2>2
  <2>4. "datePublished" \in pending[e][k].set =>
           Unpublished(e, k, pending[e][k].id)'
    BY <1>6, <2>1, <2>3 DEF Unpublished
  <2> QED
    BY <1>6, <2>1, <2>2, <2>4
<1>13. ServerInv'
  <2> SUFFICES ASSUME NEW i \in Posts
               PROVE  /\ Listed(server'[i]) =>
                            i \in files /\ i \notin deleted' \ repeated'
                      /\ "imageURL" \in server'[i] => i \in thumbs \cup deleted'
                      /\ \A e \in Devices : Listed(synced[e][i]) => i \in files
    BY <1>6 DEF ServerInv, Listed
  <2>1. /\ Listed(server[i]) => i \in files /\ i \notin deleted \ repeated
        /\ "imageURL" \in server[i] => i \in thumbs \cup deleted
        /\ \A e \in Devices : Listed(synced[e][i]) => i \in files
    BY DEF PostInv, ServerInv
  <2>2. CASE i # w.id
    BY <1>6, <1>7, <2>1, <2>2
  <2>3. CASE i = w.id
    BY <1>4, <1>6, <1>7, <2>1, <2>3 DEF Listed, Apply
  <2> QED
    BY <2>2, <2>3
<1>14. ImageTasks'
  BY <1>6 DEF PostInv, ImageTasks
<1> QED
  BY <1>10, <1>11, <1>12, <1>13, <1>14 DEF PostInv

LEMMA RejectStep ==
    ASSUME PostInv, TypeOK', NEW d \in Devices, Reject(d)
    PROVE  PostInv'
<1>1. PICK w : w = Head(pending[d])
  OBVIOUS
<1>2. Dequeues(d, w)
  BY <1>1 DEF Dequeues, Reject
<1>3. ServerInv' /\ ImageTasks'
  BY DEF PostInv, ServerInv, ImageTasks, Reject
<1> QED
  BY <1>2, <1>3, DequeuesStep

\* One step per action: which of the four kinds of step it is.
LEMMA InvStep ==
    ASSUME PostInv, [Next]_vars
    PROVE  PostInv'
<1>1. TypeOK /\ TypeOK'
  BY TypeStep DEF PostInv
<1>2. ASSUME NEW d \in Devices, Commit(d) PROVE PostInv'
  BY <1>1, <1>2, CommitStep
<1>3. ASSUME NEW d \in Devices, Reject(d) PROVE PostInv'
  BY <1>1, <1>3, RejectStep
<1>4. ASSUME NEW d \in Devices, Kill(d) PROVE PostInv'
  BY <1>1, <1>4, KillStep
<1>5. ASSUME NEW d \in Devices, Sync(d) PROVE PostInv'
  <2>1. Quiet
    BY <1>1, <1>5 DEF Sync, Quiet, TypeOK
  <2> QED
    BY <1>1, <2>1, QuietStep
<1>6. ASSUME NEW d \in Devices, ReloadData(d) PROVE PostInv'
  <2>1. \A c \in tasks' : c \in tasks \/ (c.op = "url" /\ Listed(View(c.dev, c.id)))
    BY <1>6 DEF ReloadData, Call
  <2>2. Quiet
    BY <1>6, <2>1 DEF ReloadData, Quiet
  <2> QED
    BY <1>1, <2>2, QuietStep
<1>7. ASSUME NEW d \in Devices, CloseDetail(d) PROVE PostInv'
  <2>1. \A e \in Devices : detail'[e] \subseteq detail[e]
    BY <1>1, <1>7 DEF CloseDetail, TypeOK
  <2>2. Quiet
    BY <1>7, <2>1 DEF CloseDetail, Quiet
  <2> QED
    BY <1>1, <2>2, QuietStep
<1>8. ASSUME NEW d \in Devices, NEW i \in Posts, AddData(d, i) PROVE PostInv'
  <2>1. \A b \in tasks : b.id # i
    BY <1>8 DEF AddData, PostInv, UnusedFresh
  <2>2. \A c \in tasks' :
           \/ c \in tasks
           \/ /\ c.op = "put" /\ c.id \in used' \ used
              /\ \A b \in tasks' : b.id = c.id => b = c
    BY <1>8, <2>1 DEF AddData, Call
  <2>3. Quiet
    BY <1>8, <2>2 DEF AddData, Quiet
  <2> QED
    BY <1>1, <2>3, QuietStep
<1>9. ASSUME NEW d \in Devices, NEW i \in Posts, PutDataFails(d, i) PROVE PostInv'
  <2>1. Quiet
    BY <1>9 DEF PutDataFails, Quiet
  <2> QED
    BY <1>1, <2>1, QuietStep
<1>10. ASSUME NEW d \in Devices, NEW i \in Posts, ConfigureItem(d, i) PROVE PostInv'
  <2>1. \A c \in tasks' : c \in tasks \/ (c.op = "url" /\ Listed(View(c.dev, c.id)))
    BY <1>10 DEF ConfigureItem, Call
  <2>2. Quiet
    BY <1>10, <2>1 DEF ConfigureItem, Quiet
  <2> QED
    BY <1>1, <2>2, QuietStep
<1>11. ASSUME NEW d \in Devices, NEW i \in Posts, OpenDetail(d, i) PROVE PostInv'
  <2>1. \A e \in Devices : \A p \in detail'[e] :
           (\E o \in detail[e] : o.id = p.id) \/ Listed(View(e, p.id))
    BY <1>1, <1>11 DEF OpenDetail, TypeOK
  <2>2. Quiet
    BY <1>11, <2>1 DEF OpenDetail, Quiet
  <2> QED
    BY <1>1, <2>2, QuietStep
<1>12. ASSUME NEW d \in Devices, NEW i \in Posts, GetDocument(d, i) PROVE PostInv'
  <2> DEFINE new == {Refreshed(p, i) : p \in detail[d]}
  <2>1. \A p \in detail[d] : Refreshed(p, i).id = p.id
    BY <1>1 DEF Refreshed, TypeOK
  <2>2. \A p \in new : \E o \in detail[d] : o.id = p.id
    BY <2>1
  <2>3. detail' \in {detail, [detail EXCEPT ![d] = new]}
    BY <1>12 DEF GetDocument
  <2> HIDE DEF new
  <2>4. \A e \in Devices : \A p \in detail'[e] : \E o \in detail[e] : o.id = p.id
    BY <1>1, <2>2, <2>3 DEF TypeOK
  <2>5. \A e \in Devices, j \in Posts : synced'[e][j] \in {synced[e][j], server[j]}
    BY <1>1, <1>12 DEF GetDocument, TypeOK
  <2>6. Quiet
    BY <1>12, <2>4, <2>5 DEF GetDocument, Quiet
  <2> QED
    BY <1>1, <2>6, QuietStep
<1>13. ASSUME NEW d \in Devices, NEW i \in Posts, DeleteImage(d, i) PROVE PostInv'
  <2>1. i \in deleted
    BY <1>13 DEF DeleteImage, PostInv, ImageTasks, Call
  <2>2. \A e \in Devices : detail'[e] \subseteq detail[e]
    BY <1>1, <1>13 DEF DeleteImage, TypeOK
  <2>3. Quiet
    BY <1>13, <2>1, <2>2 DEF DeleteImage, Quiet
  <2> QED
    BY <1>1, <2>3, QuietStep
<1>14. ASSUME NEW i \in Posts, MakeThumbnail(i) PROVE PostInv'
  <2>1. Quiet
    BY <1>14 DEF MakeThumbnail, Quiet
  <2> QED
    BY <1>1, <2>1, QuietStep
<1>15. ASSUME NEW c \in tasks, CallFails(c) PROVE PostInv'
  <2>1. Quiet
    BY <1>15 DEF CallFails, Quiet
  <2> QED
    BY <1>1, <2>1, QuietStep
<1>16. ASSUME NEW d \in Devices, NEW i \in Posts, PutData(d, i) PROVE PostInv'
  <2> DEFINE c == Call("put", d, i)
  <2>1. c \in tasks /\ c.op = "put" /\ c.id = i
    BY <1>16 DEF PutData, Call
  <2>2. \A b \in tasks' : b.id # i
    BY <1>16, <2>1 DEF PutData, PostInv, UploadFresh
  <2>3. /\ AddDocument(i).id = i /\ WriteShape(AddDocument(i))
        /\ "imageURL" \notin AddDocument(i).set
    BY DEF AddDocument, WriteShape, NewPostFields
  <2>4. Queues(d, AddDocument(i))
    BY <1>16, <2>1, <2>2, <2>3 DEF PutData, Queues
  <2> QED
    BY <1>1, <2>4, WriteTypes, QueuesStep
<1>17. ASSUME NEW d \in Devices, NEW i \in Posts, DownloadURL(d, i) PROVE PostInv'
  <2> DEFINE c == Call("url", d, i)
  <2>1. c \in tasks /\ c.op = "url" /\ c.dev = d /\ c.id = i /\ i \in thumbs
    BY <1>17 DEF DownloadURL, Call
  <2>2. /\ SetImageURL(i).id = i /\ WriteShape(SetImageURL(i))
        /\ "datePublished" \notin SetImageURL(i).set
    BY DEF SetImageURL, WriteShape
  <2>3. Queues(d, SetImageURL(i))
    BY <1>17, <2>1, <2>2 DEF DownloadURL, Queues
  <2> QED
    BY <1>1, <2>3, WriteTypes, QueuesStep
<1>18. ASSUME NEW d \in Devices, UpdatePost(d) PROVE PostInv'
  <2>1. PICK p \in detail[d] : Enqueue(d, SetDescription(p.id))
    BY <1>18 DEF UpdatePost
  <2>2. p.id \in Posts
    BY <1>1, Typing
  <2>3. /\ SetDescription(p.id).id = p.id /\ WriteShape(SetDescription(p.id))
        /\ SetDescription(p.id).set = {"description"}
    BY DEF SetDescription, WriteShape
  <2>4. Queues(d, SetDescription(p.id))
    BY <1>18, <2>1, <2>3 DEF UpdatePost, Queues
  <2> QED
    BY <1>1, <2>2, <2>4, WriteTypes, QueuesStep
<1>19. ASSUME NEW d \in Devices, DeletePost(d) PROVE PostInv'
  <2>1. PICK p \in detail[d] : Enqueue(d, Delete(p))
    BY <1>19 DEF DeletePost
  <2>2. p \in [id : Posts, url : BOOLEAN]
    BY <1>1 DEF TypeOK
  <2>3. Delete(p).id = p.id /\ WriteShape(Delete(p)) /\ Delete(p).set = {}
    BY DEF Delete, WriteShape
  <2>4. Queues(d, Delete(p))
    BY <1>19, <2>1, <2>3 DEF DeletePost, Queues
  <2> QED
    BY <1>1, <2>2, <2>4, DeleteType, QueuesStep
<1>20. ASSUME NEW d \in Devices, CommitUnheard(d) PROVE PostInv'
  BY <1>1, <1>20, CommitUnheardStep
<1>21. CASE UNCHANGED vars
  <2>1. Quiet
    BY <1>21 DEF vars, Quiet
  <2> QED
    BY <1>1, <2>1, QuietStep
<1> QED
  BY <1>2, <1>3, <1>4, <1>5, <1>6, <1>7, <1>8, <1>9, <1>10, <1>11, <1>12, <1>13,
     <1>14, <1>15, <1>16, <1>17, <1>18, <1>19, <1>20, <1>21 DEF Next

LEMMA InvInit ==
    Init => PostInv
<1> SUFFICES ASSUME Init PROVE PostInv
  OBVIOUS
<1>1. TypeOK
  BY DEF Init, TypeOK
<1>2. \A d \in Devices : pending[d] = <<>> /\ Len(pending[d]) = 0
  BY DEF Init
<1>3. QueueInv
  BY <1>2 DEF QueueInv
<1>4. UnusedFresh
  <2>1. \A i \in Posts : server[i] = {} /\ \A d \in Devices : synced[d][i] = {}
    BY DEF Init
  <2>2. \A d \in Devices : detail[d] = {} /\ 1 .. Len(pending[d]) = {}
    BY <1>2 DEF Init
  <2>3. tasks = {} /\ deleted = {}
    BY DEF Init
  <2> QED
    BY <2>1, <2>2, <2>3 DEF UnusedFresh, Fresh
<1> QED
  BY <1>1, <1>3, <1>4 DEF Init, PostInv, UploadFresh, ServerInv, ImageTasks, Listed

\* The inductive invariant holds in every behaviour.
THEOREM PostInvariant == Spec => []PostInv
<1>1. Init => PostInv
  BY InvInit
<1>2. PostInv /\ [Next]_vars => PostInv'
  BY InvStep
<1> QED
  BY <1>1, <1>2, PTL DEF Spec

-----------------------------------------------------------------------------
(* What follows from it.                                                   *)

\* No device ever lists a post whose picture is not in Storage: addData adds
\* the document in the completion of putData, and pictures are never removed.
THEOREM PicturesPresent == Spec => []ListedHasPicture
<1>1. PostInv => ListedHasPicture
  <2> SUFFICES ASSUME PostInv, NEW d \in Devices, NEW i \in Posts,
                      Listed(View(d, i))
               PROVE  i \in files
    BY DEF ListedHasPicture
  <2>1. TypeOK
    BY DEF PostInv
  <2>2. CASE Listed(synced[d][i])
    BY <2>2 DEF PostInv, ServerInv
  <2>3. CASE \E k \in 1 .. Len(pending[d]) :
                pending[d][k].id = i /\ "datePublished" \in pending[d][k].set
    BY <2>3 DEF PostInv, QueueInv, Unpublished
  <2> QED
    BY <2>1, <2>2, <2>3, ListedSource
<1> QED
  BY <1>1, PostInvariant, PTL

\* A listed post with an image URL has its thumbnail, whatever the order in
\* which checkImageURL, updatePost and deletePost of several devices land,
\* unless one of its writes was repeated.
THEOREM URLsResolve == Spec => []ListedURLResolves
<1>1. PostInv => ListedURLResolves
  BY DEF PostInv, ServerInv, ListedURLResolves
<1> QED
  BY <1>1, PostInvariant, PTL

\* A post whose delete the server has applied is never listed again, though
\* merges that arrive later create its document anew, unless one of its
\* writes was repeated.
THEOREM DeleteIsFinal == Spec => []DeletedStaysUnlisted
<1>1. PostInv => DeletedStaysUnlisted
  BY DEF PostInv, ServerInv, TypeOK, DeletedStaysUnlisted
<1> QED
  BY <1>1, PostInvariant, PTL

\* Until it is deleted or one of its writes repeated, a document only gains
\* fields: no edit overwrites what another device wrote.
THEOREM FieldsAreKept == Spec => NoLostFields
<1>1. ASSUME PostInv, [Next]_vars
      PROVE  [\A i \in Posts :
                 server[i] \subseteq server'[i] \/ i \in deleted' \cup repeated']_vars
  <2>1. ASSUME NEW d \in Devices, Commit(d), NEW i \in Posts
        PROVE  server[i] \subseteq server'[i] \/ i \in deleted' \cup repeated'
    <3>1. TypeOK
      BY <1>1 DEF PostInv
    <3>2. PICK w \in Write : w = Head(pending[d])
      BY <2>1, <3>1, DequeueFacts DEF Commit
    <3>3. w = pending[d][1] /\ 1 \in 1 .. Len(pending[d])
      BY <2>1, <3>1, <3>2, DequeueFacts DEF Commit
    <3>4. /\ WriteShape(w)
          /\ "datePublished" \in w.set => server[w.id] = {} \/ w.id \in repeated
      BY <1>1, <3>3 DEF PostInv, QueueInv, Unpublished, Private
    <3>5. w.id \in Posts
      BY DEF Write
    <3>6. /\ server' = [server EXCEPT ![w.id] = Apply(w, @)]
          /\ deleted' = IF w.set = {} THEN deleted \cup {w.id} ELSE deleted
          /\ repeated' = repeated
      BY <2>1, <3>2 DEF Commit
    <3>7. /\ i # w.id => server'[i] = server[i]
          /\ server'[w.id] = Apply(w, server[w.id])
      BY <3>1, <3>5, <3>6 DEF TypeOK
    <3>8. "paht" \notin server[w.id]
      <4>1. server[w.id] \in SUBSET Fields /\ "paht" \notin Fields
        BY <3>1, <3>5 DEF TypeOK, Fields
      <4> QED
        BY <4>1
    <3> QED
      BY <3>4, <3>6, <3>7, <3>8 DEF WriteShape, NewPostFields, Apply
  <2>2. ASSUME NEW d \in Devices, CommitUnheard(d), NEW i \in Posts
        PROVE  server[i] \subseteq server'[i] \/ i \in repeated'
    BY <1>1, <2>2 DEF CommitUnheard, PostInv, TypeOK
  <2>3. (\E d \in Devices : Commit(d) \/ CommitUnheard(d)) \/ server' = server
    BY <1>1 DEF Next, vars, Reject, Sync, ReloadData, CloseDetail, UpdatePost,
                DeletePost, Kill, AddData, PutData, PutDataFails, ConfigureItem,
                DownloadURL, OpenDetail, GetDocument, DeleteImage, MakeThumbnail,
                CallFails
  <2> QED
    BY <2>1, <2>2, <2>3
<1> QED
  BY <1>1, PostInvariant, PTL DEF Spec, NoLostFields

=============================================================================
