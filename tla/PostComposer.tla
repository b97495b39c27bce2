---------------------------- MODULE PostComposer ----------------------------
(***************************************************************************)
(* Writing a new post: PostView with PostViewModel.addData in the SwiftUI  *)
(* app, NewPostViewController in the UIKit app.  The Post button is        *)
(* disabled while an upload is in flight; the upload is a chain of calls   *)
(* (put the picture, in the SwiftUI app sleep and ask for the thumbnail,   *)
(* add the document), each of which may fail, and the screen may be swiped *)
(* away, and opened again, at any point of it.                             *)
(***************************************************************************)
EXTENDS Naturals, FiniteSets

CONSTANTS
    Apps,         \* the apps to check: "SociallyApp", "Socially-UIKit"
    MaxScreens,   \* bound: times the screen is opened
    MaxUploads    \* bound: calls of addData

ASSUME ComposerAssumption ==
    /\ Apps \subseteq {"SociallyApp", "Socially-UIKit"}
    /\ MaxScreens \in Nat /\ MaxUploads \in Nat

Screens == 1 .. MaxScreens
Ids == 1 .. MaxUploads    \* one UUID per call of addData

VARIABLES
    app,         \* the app that runs
    screen,      \* per screen: not opened, open, closed by the user, or
                 \* dismissed by the completion of its upload
    loading,     \* screens with a picked picture still being loaded
    data,        \* screens that hold picture data
    hidden,      \* screens whose button to pick a picture is hidden
    disabled,    \* screens whose Post button is disabled (isUploading)
    uploads,     \* uploads in flight
    asleep,      \* the main thread is in Thread.sleep
    next,        \* the next UUID
    files,       \* Storage: pictures
    thumbs,      \* Storage: thumbnails
    docs,        \* Firestore: documents of the collection Posts, and whether
                 \* the app was told that adding them failed
    crashed

vars == <<app, screen, loading, data, hidden, disabled, uploads, asleep, next, files,
          thumbs, docs, crashed>>

picker == <<loading, data, hidden>>

storage == <<files, thumbs, docs>>

\* stage: the call whose answer the upload waits for; "ok" and "error": the
\* block of the completion waits on the main queue (UIKit).
Upload == [id : Ids, screen : Screens,
           stage : {"put", "sleep", "url", "add", "ok", "error"}]

Doc == [id : Ids, screen : Screens, failed : BOOLEAN]

TypeOK ==
    /\ app \in Apps
    /\ screen \in [Screens -> {"new", "open", "closed", "dismissed"}]
    /\ loading \in SUBSET Screens
    /\ data \in SUBSET Screens
    /\ hidden \in SUBSET Screens
    /\ disabled \in SUBSET Screens
    /\ uploads \in SUBSET Upload
    /\ asleep \in BOOLEAN
    /\ next \in 1 .. MaxUploads + 1
    /\ files \in SUBSET Ids
    /\ thumbs \in SUBSET Ids
    /\ docs \in SUBSET Doc
    /\ crashed \in BOOLEAN

Init ==
    /\ app \in Apps
    /\ screen = [s \in Screens |-> "new"]
    /\ loading = {} /\ data = {} /\ hidden = {}
    /\ disabled = {} /\ uploads = {}
    /\ asleep = FALSE
    /\ next = 1
    /\ files = {} /\ thumbs = {} /\ docs = {}
    /\ crashed = FALSE

\* The main thread can take another event.
Ready == ~asleep /\ ~crashed

Move(u, stage) == uploads' = (uploads \ {u}) \cup {[u EXCEPT !.stage = stage]}

-----------------------------------------------------------------------------
(* The screen                                                              *)

Open(s) ==
    /\ Ready
    /\ screen[s] = "new"
    /\ \A t \in Screens : screen[t] # "open" /\ (t < s => screen[t] # "new")
    /\ screen' = [screen EXCEPT ![s] = "open"]
    /\ UNCHANGED <<app, picker, disabled, uploads, asleep, next, storage, crashed>>

\* Swiped away.
Close(s) ==
    /\ Ready
    /\ screen[s] = "open"
    /\ screen' = [screen EXCEPT ![s] = "closed"]
    /\ UNCHANGED <<app, picker, disabled, uploads, asleep, next, storage, crashed>>

\* A picture is picked.
Pick(s) ==
    /\ Ready
    /\ screen[s] = "open"
    /\ s \notin hidden
    /\ loading' = loading \cup {s}
    /\ UNCHANGED <<app, screen, data, hidden, disabled, uploads, asleep, next, storage,
                   crashed>>

\* SwiftUI: the data of the picked item, or an error, also while the main
\* thread sleeps.
LoadTransferable(s) ==
    /\ ~crashed
    /\ app = "SociallyApp"
    /\ s \in loading
    /\ loading' = loading \ {s}
    /\ data' \in {data, data \cup {s}}
    /\ UNCHANGED <<app, screen, hidden, disabled, uploads, asleep, next, storage, crashed>>

\* UIKit: an error, or the picture, whose JPEG is kept (nil if it has none);
\* then the button that picks one is hidden.
LoadObject(s) ==
    /\ Ready
    /\ app = "Socially-UIKit"
    /\ s \in loading
    /\ loading' = loading \ {s}
    /\ \/ UNCHANGED <<data, hidden>>
       \/ data' \in {data \cup {s}, data \ {s}} /\ hidden' = hidden \cup {s}
    /\ UNCHANGED <<app, screen, disabled, uploads, asleep, next, storage, crashed>>

\* The Post button, with a picture (and, in the UIKit app, a description other
\* than the placeholder): addData starts with putData.
Post(s) ==
    /\ Ready
    /\ screen[s] = "open"
    /\ s \notin disabled
    /\ s \in data
    /\ next <= MaxUploads
    /\ disabled' = disabled \cup {s}
    /\ uploads' = uploads \cup {[id |-> next, screen |-> s, stage |-> "put"]}
    /\ next' = next + 1
    /\ UNCHANGED <<app, screen, picker, asleep, storage, crashed>>

\* Without one, the SwiftUI app unwraps nil; the UIKit app's guard returns.
PostWithoutPicture(s) ==
    /\ Ready
    /\ app = "SociallyApp"
    /\ screen[s] = "open"
    /\ s \notin disabled
    /\ s \notin data
    /\ crashed' = TRUE
    /\ disabled' = disabled \cup {s}
    /\ UNCHANGED <<app, screen, picker, uploads, asleep, next, storage>>

\* Mutant of Completion: the error is not tested.
CompletionDismissesAlways(s, ok) ==
    /\ disabled' = disabled \ {s}
    /\ screen' = IF screen[s] = "open"
                 THEN [screen EXCEPT ![s] = "dismissed"] ELSE screen

\* What the completion does to the screen: the button is enabled again and,
\* without an error, the screen is dismissed.
Completion(s, ok) ==
    /\ disabled' = disabled \ {s}
    /\ screen' = IF ok /\ screen[s] = "open"
                 THEN [screen EXCEPT ![s] = "dismissed"] ELSE screen

\* Mutant of Complete: the button is enabled before the further block runs.
CompleteEnables(u, ok) ==
    IF app = "SociallyApp"
    THEN uploads' = uploads \ {u} /\ Completion(u.screen, ok)
    ELSE /\ Move(u, IF ok THEN "ok" ELSE "error")
         /\ disabled' = disabled \ {u.screen}
         /\ UNCHANGED screen

\* The call of completion(error): at once in the SwiftUI app, in a further
\* block of the main queue in the UIKit app.
Complete(u, ok) ==
    IF app = "SociallyApp"
    THEN uploads' = uploads \ {u} /\ Completion(u.screen, ok)
    ELSE Move(u, IF ok THEN "ok" ELSE "error") /\ UNCHANGED <<disabled, screen>>

\* That block.
RunCompletion(u) ==
    /\ Ready
    /\ u.stage \in {"ok", "error"}
    /\ uploads' = uploads \ {u}
    /\ Completion(u.screen, u.stage = "ok")
    /\ UNCHANGED <<app, picker, asleep, next, storage, crashed>>

-----------------------------------------------------------------------------
(* addData                                                                 *)

\* Mutant of PutSucceeds: the reference names the bucket's root.
PutAtRoot(u) ==
    /\ Ready
    /\ u.stage = "put"
    /\ files' = files \cup {0}
    /\ IF app = "SociallyApp"
       THEN Move(u, "sleep") /\ asleep' = TRUE
       ELSE Move(u, "add") /\ UNCHANGED asleep
    /\ UNCHANGED <<app, screen, picker, disabled, next, thumbs, docs, crashed>>

\* putData has stored the picture.  The UIKit app adds the document; the
\* SwiftUI app puts the main thread to sleep for ten seconds.
PutSucceeds(u) ==
    /\ Ready
    /\ u.stage = "put"
    /\ files' = files \cup {u.id}
    /\ IF app = "SociallyApp"
       THEN Move(u, "sleep") /\ asleep' = TRUE
       ELSE Move(u, "add") /\ UNCHANGED asleep
    /\ UNCHANGED <<app, screen, picker, disabled, next, thumbs, docs, crashed>>

\* The file may be there although the call reports an error.
PutFails(u) ==
    /\ Ready
    /\ u.stage = "put"
    /\ files' \in {files, files \cup {u.id}}
    /\ Complete(u, FALSE)
    /\ UNCHANGED <<app, picker, asleep, next, thumbs, docs, crashed>>

WakeUp(u) ==
    /\ u.stage = "sleep"
    /\ asleep' = FALSE
    /\ Move(u, "url")
    /\ UNCHANGED <<app, screen, picker, disabled, next, storage, crashed>>

\* The image resizer of the bucket, in its own time.
MakeThumbnail(i) ==
    /\ i \in files \ thumbs
    /\ thumbs' = thumbs \cup {i}
    /\ UNCHANGED <<app, screen, picker, disabled, uploads, asleep, next, files,
                   docs, crashed>>

\* Mutant of URLSucceeds: after the sleep the thumbnail is taken for granted.
URLUnchecked(u) ==
    /\ Ready
    /\ u.stage = "url"
    /\ Move(u, "add")
    /\ UNCHANGED <<app, screen, picker, disabled, asleep, next, storage, crashed>>

URLSucceeds(u) ==
    /\ Ready
    /\ u.stage = "url"
    /\ u.id \in thumbs
    /\ Move(u, "add")
    /\ UNCHANGED <<app, screen, picker, disabled, asleep, next, storage, crashed>>

\* Mutant of URLFails: a return without a call of completion.
URLFailsSilently(u) ==
    /\ Ready
    /\ u.stage = "url"
    /\ uploads' = uploads \ {u}
    /\ UNCHANGED <<app, screen, disabled, picker, asleep, next, storage, crashed>>

\* The thumbnail is not there yet, or cannot be asked for.
URLFails(u) ==
    /\ Ready
    /\ u.stage = "url"
    /\ Complete(u, FALSE)
    /\ UNCHANGED <<app, picker, asleep, next, storage, crashed>>

\* The document of the upload u.
DocOf(u, failed) == [id |-> u.id, screen |-> u.screen, failed |-> failed]

AddSucceeds(u) ==
    /\ Ready
    /\ u.stage = "add"
    /\ docs' = docs \cup {DocOf(u, FALSE)}
    /\ Complete(u, TRUE)
    /\ UNCHANGED <<app, picker, asleep, next, files, thumbs, crashed>>

\* The document may be there although the call reports an error: Firestore can
\* charge a refusal to a write that was committed (WritePipeline's race).
AddFails(u) ==
    /\ Ready
    /\ u.stage = "add"
    /\ docs' \in {docs, docs \cup {DocOf(u, TRUE)}}
    /\ Complete(u, FALSE)
    /\ UNCHANGED <<app, picker, asleep, next, files, thumbs, crashed>>

Next ==
    \/ \E s \in Screens :
          \/ Open(s) \/ Close(s) \/ Pick(s)
          \/ LoadTransferable(s) \/ LoadObject(s)
          \/ Post(s) \/ PostWithoutPicture(s)
    \/ \E u \in uploads :
          \/ PutSucceeds(u) \/ PutFails(u) \/ WakeUp(u)
          \/ URLSucceeds(u) \/ URLFails(u)
          \/ AddSucceeds(u) \/ AddFails(u) \/ RunCompletion(u)
    \/ \E i \in Ids : MakeThumbnail(i)

Spec == Init /\ [][Next]_vars

-----------------------------------------------------------------------------
(* Properties                                                              *)

\* A button is disabled exactly while an upload of its screen is in flight:
\* no path through addData leaves it disabled, none enables it early, also
\* when an earlier screen was swiped away in the middle of its upload.
ButtonTracksUpload ==
    ~crashed => disabled = {u.screen : u \in uploads}

\* However often Post is pressed and retried, a screen adds no document after
\* one that was reported as added; only an error can lead to a second one.
NoDoublePost ==
    \A p, q \in docs :
        p.screen = q.screen /\ p # q /\ ~p.failed => q.failed /\ q.id < p.id

\* The app dismisses a screen only if a post of it is in the collection and was
\* reported as added.
DismissedIsPosted ==
    \A s \in Screens :
        screen[s] = "dismissed" => \E p \in docs : p.screen = s /\ ~p.failed

\* A document never refers to a missing picture, nor, in the SwiftUI app, to
\* a missing thumbnail, whether or not ten seconds were enough to make it.
DocsHaveImages ==
    \A p \in docs : p.id \in files /\ (app = "SociallyApp" => p.id \in thumbs)

=============================================================================
