------------------------- MODULE PostComposerProofs -------------------------
(***************************************************************************)
(* TLAPS proofs about PostComposer, for both apps, any number of screens   *)
(* and any number of uploads.                                              *)
(***************************************************************************)
EXTENDS PostComposer, TLAPS

\* The screen has a post that was reported as added.
Posted(s) == \E p \in docs : p.screen = s /\ ~p.failed

OneUpload == \A u, v \in uploads : u.screen = v.screen => u = v

\* ButtonTracksUpload, screen by screen.
ButtonInv ==
    ~crashed => \A s \in Screens : s \in disabled <=> \E u \in uploads : u.screen = s

\* An upload comes from a screen that was opened; its screen has a post once
\* the document is added and not before; documents left by failed calls are
\* older than the one it will add; and the images its document will refer to
\* are stored.
UploadOK(u) ==
    /\ screen[u.screen] # "new" /\ u.id < next
    /\ Posted(u.screen) <=> u.stage = "ok"
    /\ u.stage \notin {"ok", "error"} =>
          \A p \in docs : p.screen = u.screen => p.id < u.id
    /\ u.stage \notin {"put", "error"} => u.id \in files
    /\ app = "SociallyApp" /\ u.stage = "add" => u.id \in thumbs

UploadInv == \A u \in uploads : UploadOK(u)

\* A screen with a document was opened, and while one with a post is open its
\* upload is not over: the button is still disabled.
DocInv ==
    \A p \in docs :
        /\ screen[p.screen] # "new" /\ p.id < next
        /\ screen[p.screen] = "open" /\ ~p.failed =>
              \E u \in uploads : u.screen = p.screen

ComposerInv ==
    /\ TypeOK /\ ButtonInv /\ OneUpload /\ UploadInv /\ DocInv
    /\ NoDoublePost /\ DismissedIsPosted /\ DocsHaveImages

-----------------------------------------------------------------------------

\* Init establishes the invariant.
LEMMA ComposerInit == Init => ComposerInv
<1> SUFFICES ASSUME Init PROVE ComposerInv
  OBVIOUS
<1>1. TypeOK
  <2>1. 1 \in 1 .. MaxUploads + 1
    BY ComposerAssumption
  <2> QED
    BY <2>1 DEF Init, TypeOK
<1>2. ButtonInv /\ OneUpload /\ UploadInv /\ DocInv
  BY DEF Init, ButtonInv, OneUpload, UploadInv, UploadOK, DocInv
<1>3. NoDoublePost /\ DismissedIsPosted /\ DocsHaveImages
  BY DEF Init, NoDoublePost, DismissedIsPosted, DocsHaveImages
<1> QED
  BY <1>1, <1>2, <1>3 DEF ComposerInv

\* Every step keeps the types.
LEMMA ComposerTypeStep ==
    ASSUME TypeOK, [Next]_vars
    PROVE  TypeOK'
<1> USE ComposerAssumption DEF TypeOK, storage, picker
<1>m. ASSUME NEW u \in uploads,
             NEW g \in {"put", "sleep", "url", "add", "ok", "error"}, Move(u, g)
      PROVE  uploads' \in SUBSET Upload
  BY <1>m DEF Move, Upload
<1>c. ASSUME NEW u \in uploads, NEW ok \in BOOLEAN, Completion(u.screen, ok)
      PROVE  /\ disabled' \in SUBSET Screens
             /\ screen' \in [Screens -> {"new", "open", "closed", "dismissed"}]
  BY <1>c DEF Completion, Upload
<1>d. ASSUME NEW u \in uploads, NEW ok \in BOOLEAN, Complete(u, ok)
      PROVE  /\ uploads' \in SUBSET Upload
             /\ disabled' \in SUBSET Screens
             /\ screen' \in [Screens -> {"new", "open", "closed", "dismissed"}]
  <2>1. CASE app = "SociallyApp"
    BY <1>d, <1>c, <2>1 DEF Complete
  <2>2. CASE app # "SociallyApp"
    BY <1>d, <1>m, <2>2 DEF Complete
  <2> QED
    BY <2>1, <2>2
<1>1. ASSUME NEW s \in Screens, Open(s) \/ Close(s) PROVE TypeOK'
  BY <1>1 DEF Open, Close
<1>2. ASSUME NEW s \in Screens, Pick(s) \/ LoadTransferable(s) \/ LoadObject(s)
      PROVE  TypeOK'
  BY <1>2 DEF Pick, LoadTransferable, LoadObject
<1>3. ASSUME NEW s \in Screens, Post(s) PROVE TypeOK'
  <2>1. next \in Ids /\ next' \in 1 .. MaxUploads + 1
    BY <1>3 DEF Post, Ids
  <2>2. uploads' \in SUBSET Upload
    BY <1>3, <2>1 DEF Post, Upload
  <2> QED
    BY <1>3, <2>1, <2>2 DEF Post
<1>4. ASSUME NEW s \in Screens, PostWithoutPicture(s) PROVE TypeOK'
  BY <1>4 DEF PostWithoutPicture
<1>5. ASSUME NEW u \in uploads, PutSucceeds(u) PROVE TypeOK'
  BY <1>5, <1>m DEF PutSucceeds, Upload
<1>6. ASSUME NEW u \in uploads, PutFails(u) PROVE TypeOK'
  BY <1>6, <1>d DEF PutFails, Upload
<1>7. ASSUME NEW u \in uploads, WakeUp(u) \/ URLSucceeds(u) PROVE TypeOK'
  BY <1>7, <1>m DEF WakeUp, URLSucceeds
<1>8. ASSUME NEW u \in uploads, URLFails(u) PROVE TypeOK'
  BY <1>8, <1>d DEF URLFails
<1>9. ASSUME NEW u \in uploads, AddSucceeds(u) \/ AddFails(u) PROVE TypeOK'
  <2>0. DocOf(u, TRUE) \in Doc /\ DocOf(u, FALSE) \in Doc
    BY DEF DocOf, Doc, Upload
  <2>1. docs' \in SUBSET Doc
    BY <1>9, <2>0 DEF AddSucceeds, AddFails
  <2>2. /\ uploads' \in SUBSET Upload
        /\ disabled' \in SUBSET Screens
        /\ screen' \in [Screens -> {"new", "open", "closed", "dismissed"}]
    BY <1>9, <1>d DEF AddSucceeds, AddFails
  <2> QED
    BY <1>9, <2>1, <2>2 DEF AddSucceeds, AddFails
<1>10. ASSUME NEW u \in uploads, RunCompletion(u) PROVE TypeOK'
  <2>1. (u.stage = "ok") \in BOOLEAN
    OBVIOUS
  <2> QED
    BY <1>10, <1>c, <2>1 DEF RunCompletion
<1>11. ASSUME NEW i \in Ids, MakeThumbnail(i) PROVE TypeOK'
  BY <1>11 DEF MakeThumbnail
<1>12. CASE UNCHANGED vars
  BY <1>12 DEF vars
<1> QED
  BY <1>1, <1>2, <1>3, <1>4, <1>5, <1>6, <1>7, <1>8, <1>9, <1>10, <1>11, <1>12 DEF Next

-----------------------------------------------------------------------------

\* An upload that moves on stays the only one of its screen.
LEMMA MoveFacts ==
    ASSUME TypeOK, OneUpload, NEW u \in uploads,
           NEW g \in {"put", "sleep", "url", "add", "ok", "error"}, Move(u, g)
    PROVE  /\ OneUpload'
           /\ \A s : (\E v \in uploads' : v.screen = s) <=> \E v \in uploads : v.screen = s
           /\ \A v \in uploads' : \/ v \in uploads /\ v.screen # u.screen
                                  \/ v.screen = u.screen /\ v.id = u.id /\ v.stage = g
<1> DEFINE w == [u EXCEPT !.stage = g]
<1>1. u \in Upload /\ uploads \in SUBSET Upload
  BY DEF TypeOK, Doc
<1>2. w.screen = u.screen /\ w.id = u.id /\ w.stage = g
  BY <1>1 DEF Upload
<1>3. uploads' = (uploads \ {u}) \cup {w}
  BY DEF Move
<1> HIDE DEF w
<1>4. \A v \in uploads' : (v \in uploads /\ v.screen # u.screen) \/ v = w
  BY <1>3 DEF OneUpload
<1>5. \A v \in uploads : v.screen # u.screen => v \in uploads'
  BY <1>3
<1>6. OneUpload'
  <2> SUFFICES ASSUME NEW v1 \in uploads', NEW v2 \in uploads', v1.screen = v2.screen
               PROVE  v1 = v2
    BY DEF OneUpload
  <2> QED
    BY <1>2, <1>4 DEF OneUpload
<1>7. \A s : (\E v \in uploads' : v.screen = s) <=> \E v \in uploads : v.screen = s
  BY <1>2, <1>3, <1>4, <1>5
<1>8. \A v \in uploads' : \/ v \in uploads /\ v.screen # u.screen
                          \/ v.screen = u.screen /\ v.id = u.id /\ v.stage = g
  BY <1>2, <1>4
<1> QED
  BY <1>6, <1>7, <1>8

\* So does every other when an upload is over.
LEMMA DropFacts ==
    ASSUME OneUpload, NEW u \in uploads, uploads' = uploads \ {u}
    PROVE  /\ OneUpload'
           /\ \A s : (\E v \in uploads' : v.screen = s) <=>
                       s # u.screen /\ \E v \in uploads : v.screen = s
           /\ \A v \in uploads' : v \in uploads /\ v.screen # u.screen
  BY DEF OneUpload

\* A step that adds no document and no upload and lets u move on to g.
LEMMA MoveStep ==
    ASSUME ComposerInv, NEW u \in uploads,
           NEW g \in {"put", "sleep", "url", "add", "error"}, Move(u, g),
           u.stage \notin {"ok", "error"},
           UNCHANGED <<app, screen, disabled, docs, next, crashed>>,
           files \subseteq files', thumbs \subseteq thumbs',
           g \notin {"put", "error"} => u.id \in files',
           app = "SociallyApp" /\ g = "add" => u.id \in thumbs'
    PROVE  /\ ButtonInv' /\ OneUpload' /\ UploadInv' /\ DocInv'
           /\ NoDoublePost' /\ DismissedIsPosted' /\ DocsHaveImages'
<1> USE DEF ComposerInv
<1>1. /\ OneUpload'
      /\ \A s : (\E v \in uploads' : v.screen = s) <=> \E v \in uploads : v.screen = s
      /\ \A v \in uploads' : \/ v \in uploads /\ v.screen # u.screen
                             \/ v.screen = u.screen /\ v.id = u.id /\ v.stage = g
  BY MoveFacts
<1>2. ButtonInv' /\ DocInv'
  BY <1>1 DEF ButtonInv, DocInv
<1>3. UploadInv'
  BY <1>1 DEF UploadInv, UploadOK, Posted
<1>4. NoDoublePost' /\ DismissedIsPosted' /\ DocsHaveImages'
  BY DEF NoDoublePost, DismissedIsPosted, DocsHaveImages
<1> QED
  BY <1>1, <1>2, <1>3, <1>4

\* A step that ends the upload u; with ok, its screen has a post.
LEMMA DropStep ==
    ASSUME ComposerInv, NEW u \in uploads, uploads' = uploads \ {u},
           NEW ok \in BOOLEAN, Completion(u.screen, ok),
           UNCHANGED <<app, docs, next, crashed, thumbs>>, files \subseteq files',
           ok <=> u.stage = "ok"
    PROVE  /\ ButtonInv' /\ OneUpload' /\ UploadInv' /\ DocInv'
           /\ NoDoublePost' /\ DismissedIsPosted' /\ DocsHaveImages'
<1> USE DEF ComposerInv
<1>0. u.screen \in Screens /\ screen \in [Screens -> {"new", "open", "closed", "dismissed"}]
  BY DEF TypeOK, Upload, Doc
<1>1. /\ OneUpload'
      /\ \A s : (\E v \in uploads' : v.screen = s) <=>
                  s # u.screen /\ \E v \in uploads : v.screen = s
      /\ \A v \in uploads' : v \in uploads /\ v.screen # u.screen
  BY DropFacts
<1>2. /\ disabled' = disabled \ {u.screen}
      /\ \A s \in Screens : s # u.screen => screen'[s] = screen[s]
      /\ screen[u.screen] # "open" => screen'[u.screen] = screen[u.screen]
      /\ screen[u.screen] = "open" /\ ok => screen'[u.screen] = "dismissed"
      /\ screen[u.screen] = "open" /\ ~ok => screen'[u.screen] = "open"
  BY <1>0 DEF Completion
<1>3. ButtonInv'
  BY <1>1, <1>2 DEF ButtonInv
<1>4. \A p \in docs : p.screen \in Screens
  BY DEF TypeOK, Doc
<1>5. \A v \in uploads : v.screen \in Screens
  BY DEF TypeOK, Upload, Doc
<1>6. UploadInv'
  BY <1>1, <1>2, <1>5 DEF UploadInv, UploadOK, Posted
<1>7. DocInv'
  BY <1>0, <1>1, <1>2, <1>4 DEF DocInv, UploadInv, UploadOK, Posted
<1>8. NoDoublePost' /\ DocsHaveImages'
  BY DEF NoDoublePost, DocsHaveImages
<1>9. DismissedIsPosted'
  BY <1>0, <1>2 DEF DismissedIsPosted, UploadInv, UploadOK, Posted
<1> QED
  BY <1>1, <1>3, <1>6, <1>7, <1>8, <1>9

\* completion(error), in either app.
LEMMA FailStep ==
    ASSUME ComposerInv, NEW u \in uploads, Complete(u, FALSE),
           u.stage \notin {"ok", "error"},
           UNCHANGED <<app, docs, next, crashed, thumbs>>, files \subseteq files'
    PROVE  /\ ButtonInv' /\ OneUpload' /\ UploadInv' /\ DocInv'
           /\ NoDoublePost' /\ DismissedIsPosted' /\ DocsHaveImages'
<1>1. CASE app = "SociallyApp"
  BY <1>1, DropStep DEF Complete
<1>2. CASE app # "SociallyApp"
  BY <1>2, MoveStep DEF Complete
<1> QED
  BY <1>1, <1>2

-----------------------------------------------------------------------------

\* The steps of the screen that start no upload leave everything the other
\* invariants speak of alone, but for opening and closing a screen.
LEMMA ScreenStep ==
    ASSUME ComposerInv, UNCHANGED <<app, uploads, docs, files, disabled, next, crashed>>,
           thumbs \subseteq thumbs',
           \/ screen' = screen
           \/ \E s \in Screens : Open(s) \/ Close(s)
    PROVE  /\ ButtonInv' /\ OneUpload' /\ UploadInv' /\ DocInv'
           /\ NoDoublePost' /\ DismissedIsPosted' /\ DocsHaveImages'
<1> USE DEF ComposerInv
<1>0. /\ \A u \in uploads : u.screen \in Screens
      /\ \A p \in docs : p.screen \in Screens
      /\ screen \in [Screens -> {"new", "open", "closed", "dismissed"}]
  BY DEF TypeOK, Upload, Doc
<1>1. \A s \in Screens :
        /\ screen[s] # "new" => screen'[s] # "new"
        /\ screen[s] # "new" /\ screen'[s] = "open" => screen[s] = "open"
        /\ screen'[s] = "dismissed" => screen[s] = "dismissed"
  BY <1>0 DEF Open, Close
<1>2. ButtonInv' /\ OneUpload'
  BY DEF ButtonInv, OneUpload
<1>3. UploadInv'
  BY <1>0, <1>1 DEF UploadInv, UploadOK, Posted
<1>4. DocInv'
  BY <1>0, <1>1 DEF DocInv
<1>5. NoDoublePost' /\ DocsHaveImages'
  BY DEF NoDoublePost, DocsHaveImages
<1>6. DismissedIsPosted'
  BY <1>1 DEF DismissedIsPosted
<1> QED
  BY <1>2, <1>3, <1>4, <1>5, <1>6

\* A press of Post: its screen has neither an upload nor a post.
LEMMA PostStep ==
    ASSUME ComposerInv, NEW s \in Screens, Post(s)
    PROVE  /\ ButtonInv' /\ OneUpload' /\ UploadInv' /\ DocInv'
           /\ NoDoublePost' /\ DismissedIsPosted' /\ DocsHaveImages'
<1> USE DEF ComposerInv
<1> DEFINE w == [id |-> next, screen |-> s, stage |-> "put"]
<1>1. /\ uploads' = uploads \cup {w} /\ disabled' = disabled \cup {s}
      /\ UNCHANGED <<app, screen, files, thumbs, docs, crashed>>
      /\ screen[s] = "open" /\ s \notin disabled /\ ~crashed
  BY DEF Post, Ready, storage
<1>2. w.screen = s /\ w.stage = "put" /\ w.id = next
  OBVIOUS
<1>n. /\ next \in Nat /\ next' = next + 1
      /\ \A p \in docs : p.id \in Nat
      /\ \A v \in uploads : v.id \in Nat
  BY DEF Post, TypeOK, Doc, Upload, Ids
<1> HIDE DEF w
<1>3. \A v \in uploads : v.screen # s
  BY <1>1 DEF ButtonInv
<1>4. ~Posted(s)
  BY <1>1, <1>3 DEF DocInv, Posted
<1>5. ButtonInv'
  BY <1>1, <1>2 DEF ButtonInv
<1>6. OneUpload'
  BY <1>1, <1>2, <1>3 DEF OneUpload
<1>7. UploadInv'
  <2> SUFFICES ASSUME NEW v \in uploads' PROVE UploadOK(v)'
    BY DEF UploadInv
  <2>1. Posted(v.screen)' <=> Posted(v.screen)
    BY <1>1 DEF Posted
  <2>2. CASE v \in uploads
    <3>1. UploadOK(v)
      BY <2>2 DEF UploadInv
    <3>2. v.id < next
      BY <3>1 DEF UploadOK
    <3>3. v.id < next'
      BY <1>n, <2>2, <3>2
    <3> QED
      BY <1>1, <2>1, <3>1, <3>3 DEF UploadOK
  <2>3. CASE v = w
    <3>1. /\ screen[v.screen] # "new" /\ ~Posted(v.screen) /\ v.stage = "put"
          /\ v.id < next' /\ \A p \in docs : p.id < v.id
      BY <1>1, <1>2, <1>4, <1>n, <2>3 DEF DocInv
    <3> QED
      BY <1>1, <2>1, <3>1 DEF UploadOK
  <2> QED
    BY <1>1, <2>2, <2>3
<1>8. DocInv'
  BY <1>1, <1>n DEF DocInv
<1>9. NoDoublePost' /\ DismissedIsPosted' /\ DocsHaveImages'
  BY <1>1 DEF NoDoublePost, DismissedIsPosted, DocsHaveImages
<1> QED
  BY <1>5, <1>6, <1>7, <1>8, <1>9

\* The document is added; its upload is over, or waits for the further block.
LEMMA AddStep ==
    ASSUME ComposerInv, NEW u \in uploads, AddSucceeds(u)
    PROVE  /\ ButtonInv' /\ OneUpload' /\ UploadInv' /\ DocInv'
           /\ NoDoublePost' /\ DismissedIsPosted' /\ DocsHaveImages'
<1> USE DEF ComposerInv
<1> DEFINE d == DocOf(u, FALSE)
<1>1. /\ u.stage = "add" /\ Complete(u, TRUE) /\ docs' = docs \cup {d}
      /\ UNCHANGED <<app, next, files, thumbs, crashed>>
  BY DEF AddSucceeds
<1>2. d.id = u.id /\ d.screen = u.screen /\ ~d.failed
  BY DEF DocOf
<1> HIDE DEF d
<1>3. /\ u.screen \in Screens
      /\ \A v \in uploads : v.screen \in Screens
      /\ \A p \in docs : p.screen \in Screens
      /\ screen \in [Screens -> {"new", "open", "closed", "dismissed"}]
  BY DEF TypeOK, Upload, Doc
<1>4. /\ ~Posted(u.screen) /\ screen[u.screen] # "new" /\ u.id < next
      /\ \A p \in docs : p.screen = u.screen => p.failed /\ p.id < u.id
  BY <1>1 DEF UploadInv, UploadOK, Posted
<1>5. NoDoublePost'
  BY <1>1, <1>2, <1>4 DEF NoDoublePost, Posted
<1>6. DocsHaveImages'
  BY <1>1, <1>2 DEF DocsHaveImages, UploadInv, UploadOK
<1>7. \A s \in Screens : Posted(s)' <=> Posted(s) \/ s = u.screen
  BY <1>1, <1>2 DEF Posted
<1>8. CASE app = "SociallyApp"
  <2>1. uploads' = uploads \ {u} /\ Completion(u.screen, TRUE)
    BY <1>1, <1>8 DEF Complete
  <2>2. /\ OneUpload'
        /\ \A s : (\E v \in uploads' : v.screen = s) <=>
                    s # u.screen /\ \E v \in uploads : v.screen = s
        /\ \A v \in uploads' : v \in uploads /\ v.screen # u.screen
    BY <2>1, DropFacts
  <2>3. /\ disabled' = disabled \ {u.screen}
        /\ \A s \in Screens : s # u.screen => screen'[s] = screen[s]
        /\ screen'[u.screen] \notin {"new", "open"}
    BY <1>3, <1>4, <2>1 DEF Completion
  <2>4. ButtonInv'
    BY <1>1, <2>2, <2>3 DEF ButtonInv
  <2>5. UploadInv'
    BY <1>1, <1>2, <1>3, <1>7, <2>2, <2>3 DEF UploadInv, UploadOK
  <2>6. DocInv'
    BY <1>1, <1>2, <1>3, <1>4, <2>2, <2>3 DEF DocInv
  <2>7. DismissedIsPosted'
    BY <1>3, <1>7, <2>3 DEF DismissedIsPosted, Posted
  <2> QED
    BY <1>5, <1>6, <2>2, <2>4, <2>5, <2>6, <2>7
<1>9. CASE app # "SociallyApp"
  <2>1. Move(u, "ok") /\ UNCHANGED <<disabled, screen>>
    BY <1>1, <1>9 DEF Complete
  <2>2. /\ OneUpload'
        /\ \A s : (\E v \in uploads' : v.screen = s) <=> \E v \in uploads : v.screen = s
        /\ \A v \in uploads' : \/ v \in uploads /\ v.screen # u.screen
                               \/ v.screen = u.screen /\ v.id = u.id /\ v.stage = "ok"
    BY <2>1, MoveFacts
  <2>3. ButtonInv'
    BY <1>1, <2>1, <2>2 DEF ButtonInv
  <2>4. UploadInv'
    BY <1>1, <1>2, <1>3, <1>4, <1>7, <1>9, <2>1, <2>2 DEF UploadInv, UploadOK
  <2>5. DocInv'
    BY <1>1, <1>2, <1>4, <2>1, <2>2 DEF DocInv
  <2>6. DismissedIsPosted'
    BY <1>7, <2>1 DEF DismissedIsPosted, Posted
  <2> QED
    BY <1>5, <1>6, <2>2, <2>3, <2>4, <2>5, <2>6
<1> QED
  BY <1>8, <1>9

\* The document is there and the call reports an error: the screen has no post
\* yet, but an older document.
LEMMA AddUnheardStep ==
    ASSUME ComposerInv, NEW u \in uploads, AddFails(u),
           docs' = docs \cup {DocOf(u, TRUE)}
    PROVE  /\ ButtonInv' /\ OneUpload' /\ UploadInv' /\ DocInv'
           /\ NoDoublePost' /\ DismissedIsPosted' /\ DocsHaveImages'
<1> USE DEF ComposerInv
<1> DEFINE d == DocOf(u, TRUE)
<1>1. /\ u.stage = "add" /\ Complete(u, FALSE) /\ docs' = docs \cup {d}
      /\ UNCHANGED <<app, next, files, thumbs, crashed>>
  BY DEF AddFails
<1>2. d.id = u.id /\ d.screen = u.screen /\ d.failed
  BY DEF DocOf
<1> HIDE DEF d
<1>3. /\ u.screen \in Screens
      /\ \A v \in uploads : v.screen \in Screens
      /\ \A p \in docs : p.screen \in Screens
      /\ screen \in [Screens -> {"new", "open", "closed", "dismissed"}]
  BY DEF TypeOK, Upload, Doc
<1>4. ~Posted(u.screen) /\ screen[u.screen] # "new" /\ u.id < next
  BY <1>1 DEF UploadInv, UploadOK
<1>5. NoDoublePost'
  BY <1>1, <1>2, <1>4 DEF NoDoublePost, Posted
<1>6. DocsHaveImages'
  BY <1>1, <1>2 DEF DocsHaveImages, UploadInv, UploadOK
<1>7. \A s : Posted(s)' <=> Posted(s)
  BY <1>1, <1>2 DEF Posted
<1>8. CASE app = "SociallyApp"
  <2>1. uploads' = uploads \ {u} /\ Completion(u.screen, FALSE)
    BY <1>1, <1>8 DEF Complete
  <2>2. /\ OneUpload'
        /\ \A s : (\E v \in uploads' : v.screen = s) <=>
                    s # u.screen /\ \E v \in uploads : v.screen = s
        /\ \A v \in uploads' : v \in uploads /\ v.screen # u.screen
    BY <2>1, DropFacts
  <2>3. disabled' = disabled \ {u.screen} /\ screen' = screen
    BY <2>1 DEF Completion
  <2>4. ButtonInv'
    BY <1>1, <2>2, <2>3 DEF ButtonInv
  <2>5. UploadInv'
    <3> SUFFICES ASSUME NEW v \in uploads' PROVE UploadOK(v)'
      BY DEF UploadInv
    <3>1. UploadOK(v) /\ v.screen # u.screen
      BY <2>2 DEF UploadInv
    <3>2. Posted(v.screen)' <=> Posted(v.screen)
      BY <1>7
    <3> QED
      BY <1>1, <1>2, <2>3, <3>1, <3>2 DEF UploadOK
  <2>6. DocInv'
    BY <1>1, <1>2, <1>3, <1>4, <2>2, <2>3 DEF DocInv, Posted
  <2>7. DismissedIsPosted'
    BY <1>7, <2>3 DEF DismissedIsPosted, Posted
  <2> QED
    BY <1>5, <1>6, <2>2, <2>4, <2>5, <2>6, <2>7
<1>9. CASE app # "SociallyApp"
  <2>1. Move(u, "error") /\ UNCHANGED <<disabled, screen>>
    BY <1>1, <1>9 DEF Complete
  <2>2. /\ OneUpload'
        /\ \A s : (\E v \in uploads' : v.screen = s) <=> \E v \in uploads : v.screen = s
        /\ \A v \in uploads' : \/ v \in uploads /\ v.screen # u.screen
                               \/ v.screen = u.screen /\ v.id = u.id /\ v.stage = "error"
    BY <2>1, MoveFacts
  <2>3. ButtonInv'
    BY <1>1, <2>1, <2>2 DEF ButtonInv
  <2>4. UploadInv'
    <3> SUFFICES ASSUME NEW v \in uploads' PROVE UploadOK(v)'
      BY DEF UploadInv
    <3>1. Posted(v.screen)' <=> Posted(v.screen)
      BY <1>7
    <3>2. CASE v \in uploads /\ v.screen # u.screen
      <4>1. UploadOK(v)
        BY <3>2 DEF UploadInv
      <4> QED
        BY <1>1, <1>2, <2>1, <3>1, <3>2, <4>1 DEF UploadOK
    <3>3. CASE v.screen = u.screen /\ v.id = u.id /\ v.stage = "error"
      BY <1>1, <1>4, <2>1, <3>1, <3>3 DEF UploadOK
    <3> QED
      BY <2>2, <3>2, <3>3
  <2>5. DocInv'
    BY <1>1, <1>2, <1>4, <2>1, <2>2 DEF DocInv
  <2>6. DismissedIsPosted'
    BY <1>7, <2>1 DEF DismissedIsPosted, Posted
  <2> QED
    BY <1>5, <1>6, <2>2, <2>3, <2>4, <2>5, <2>6
<1> QED
  BY <1>8, <1>9

\* Every step keeps the invariant.
LEMMA ComposerStep == ComposerInv /\ [Next]_vars => ComposerInv'
<1> DEFINE Rest == /\ ButtonInv /\ OneUpload /\ UploadInv /\ DocInv
                   /\ NoDoublePost /\ DismissedIsPosted /\ DocsHaveImages
<1> SUFFICES ASSUME ComposerInv, [Next]_vars PROVE TypeOK' /\ Rest'
  BY DEF ComposerInv
<1>0. TypeOK'
  BY ComposerTypeStep DEF ComposerInv
<1>1. ASSUME NEW s \in Screens, Open(s) \/ Close(s) PROVE Rest'
  BY <1>1, ScreenStep DEF Open, Close, storage
<1>2. ASSUME NEW s \in Screens, Pick(s) \/ LoadTransferable(s) \/ LoadObject(s)
      PROVE  Rest'
  BY <1>2, ScreenStep DEF Pick, LoadTransferable, LoadObject, storage
<1>3. ASSUME NEW s \in Screens, Post(s) PROVE Rest'
  BY <1>3, PostStep
<1>4. ASSUME NEW s \in Screens, PostWithoutPicture(s) PROVE Rest'
  BY <1>4 DEF PostWithoutPicture, storage, ComposerInv, ButtonInv, OneUpload,
              UploadInv, UploadOK, DocInv, NoDoublePost, DismissedIsPosted,
              DocsHaveImages, Posted
<1>5. ASSUME NEW u \in uploads, PutSucceeds(u) PROVE Rest'
  <2>1. CASE app = "SociallyApp"
    BY <1>5, <2>1, MoveStep DEF PutSucceeds
  <2>2. CASE app # "SociallyApp"
    BY <1>5, <2>2, MoveStep DEF PutSucceeds
  <2> QED
    BY <2>1, <2>2
<1>6. ASSUME NEW u \in uploads, PutFails(u) PROVE Rest'
  BY <1>6, FailStep DEF PutFails
<1>7. ASSUME NEW u \in uploads, WakeUp(u) PROVE Rest'
  BY <1>7, MoveStep DEF WakeUp, storage, ComposerInv, UploadInv, UploadOK
<1>8. ASSUME NEW u \in uploads, URLSucceeds(u) PROVE Rest'
  BY <1>8, MoveStep DEF URLSucceeds, storage, ComposerInv, UploadInv, UploadOK
<1>9. ASSUME NEW u \in uploads, URLFails(u) PROVE Rest'
  BY <1>9, FailStep DEF URLFails, storage
<1>10. ASSUME NEW u \in uploads, AddSucceeds(u) \/ AddFails(u) PROVE Rest'
  <2>1. CASE AddSucceeds(u)
    BY <2>1, AddStep
  <2>2. CASE AddFails(u) /\ docs' = docs
    BY <2>2, FailStep DEF AddFails
  <2>3. CASE AddFails(u) /\ docs' = docs \cup {DocOf(u, TRUE)}
    BY <2>3, AddUnheardStep
  <2> QED
    BY <1>10, <2>1, <2>2, <2>3 DEF AddFails
<1>11. ASSUME NEW u \in uploads, RunCompletion(u) PROVE Rest'
  BY <1>11, DropStep DEF RunCompletion, storage
<1>12. ASSUME NEW i \in Ids, MakeThumbnail(i) PROVE Rest'
  BY <1>12, ScreenStep DEF MakeThumbnail
<1>13. CASE UNCHANGED vars
  BY <1>0, <1>13, ScreenStep DEF vars
<1> QED
  BY <1>0, <1>1, <1>2, <1>3, <1>4, <1>5, <1>6, <1>7, <1>8, <1>9, <1>10, <1>11, <1>12,
     <1>13 DEF Next

-----------------------------------------------------------------------------

\* The invariant of composing, of the buttons, uploads and documents of all
\* screens, holds in every state of either app.
THEOREM ComposerInvariant == Spec => []ComposerInv
  BY ComposerInit, ComposerStep, PTL DEF Spec

\* Every state of either app is well typed.
THEOREM ComposerTypes == Spec => []TypeOK
<1>1. ComposerInv => TypeOK
  BY DEF ComposerInv
<1> QED
  BY <1>1, ComposerInvariant, PTL

\* The button of a screen is disabled exactly while addData is under way for it.
THEOREM ButtonFollows == Spec => []ButtonTracksUpload
<1>1. ComposerInv => ButtonTracksUpload
  BY DEF ComposerInv, TypeOK, Upload, ButtonInv, ButtonTracksUpload
<1> QED
  BY <1>1, ComposerInvariant, PTL

\* No sequence of presses, failures, retries and abandoned screens makes a
\* screen add a document after one that was reported as added.
THEOREM PostsOnce == Spec => []NoDoublePost
<1>1. ComposerInv => NoDoublePost
  BY DEF ComposerInv
<1> QED
  BY <1>1, ComposerInvariant, PTL

\* The app dismisses no screen whose document was not added and reported so.
THEOREM DismissMeansPosted == Spec => []DismissedIsPosted
<1>1. ComposerInv => DismissedIsPosted
  BY DEF ComposerInv
<1> QED
  BY <1>1, ComposerInvariant, PTL

\* A document's picture, and in the SwiftUI app its thumbnail, are in Storage.
THEOREM ImagesStored == Spec => []DocsHaveImages
<1>1. ComposerInv => DocsHaveImages
  BY DEF ComposerInv
<1> QED
  BY <1>1, ComposerInvariant, PTL

=============================================================================
