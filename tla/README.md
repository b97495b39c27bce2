# TLA+ models of NoteApp, SociallyApp and Socially-UIKit

The repository holds three small iOS apps on top of Firebase:

* **NoteApp** (`src/NoteApp`), SwiftUI: email accounts and private notes.
* **SociallyApp** (`src/SociallyApp`), SwiftUI: Sign in with Apple, a feed of
  posts with pictures, a profile picture.
* **Socially-UIKit** (`src/Socially-UIKit`), the same product on UIKit, where
  posts can also be edited and deleted.  Its `Pods` directory holds the
  Firebase SDKs and what they build on.

The apps have little code, and nearly all of it is callbacks.  What can go
wrong is in their order: every operation is a chain of asynchronous calls to
Firebase Auth, Firestore and Storage, any of which may fail or answer late,
while the user presses buttons, screens come and go, other devices write the
same documents and iOS may kill the process.  The models keep that control flow
and reduce the data to what the code tells apart.

What the apps count on is in the Firestore client of `Pods`: that a write made
offline, in a process that is killed, or just before the user changes, reaches
the server once it can, under the right account, and that the screens show it.
That part of the SDK is modelled too (`WritePipeline`, `CredentialFlow`,
`NoteSync`): the modules of the apps take from it what they assume of Firestore.

All callbacks of the Firebase SDK and all user events run on the main thread,
one at a time, and Firestore's own work runs on one serial worker queue, so one
handler is one atomic action.  What is *not* atomic is
everything between a call and its completion.

## Inventory

| Component | State | Operations | Interacts with | What is hard |
|---|---|---|---|---|
| Nonce generator (`AuthService`, `AuthViewModel.randomNonceString`) | result, remaining length, batch | draw a batch, accept or reject a byte | Apple sign-in | boundary of the charset, surplus of the last batch |
| Sign in with Apple (`AuthService`, `ProfileViewController`, `AuthViewModel`) | one `currentNonce` | request, answer, Firebase call | Apple, Auth | overlapping requests; guards that end the app |
| Post life cycle (`NewPostViewController.addData`, `Post.checkImageURL`, `PostService`) | Firestore documents, pictures, thumbnails | add, complete with URL, edit, delete | Firestore queue, Storage, other devices | late merges, offline queues, kills between two calls |
| Compose screen (`PostView`, `PostViewModel`, `NewPostViewController`) | picked picture, Post button, upload in flight | pick, post, completion, dismiss | Storage, Firestore | retries, a screen swiped away, thumbnail not ready |
| NoteApp session (`AuthViewModel`, `HolderView`) | `user`, registered listeners | sign up, in, out; render | FIRAuth's work queue and notifications | current user, `user` and screen change at different times |
| NoteApp notes (`NoteViewModel`, its views) | lazy collection, notes | add, fetch, update, delete | session | the collection stays bound to an account |
| Firestore write pipeline (`RemoteStore`, `Stream`, `WriteStream`, `GrpcStream`, `SyncEngine`) | mutation queues on disk, pipeline, stream state, timers, completions | write, open, send, result, close, idle, restart, change of user | worker queue, gRPC, server | responses that name no batch, resending, ids used again, kills |
| Firestore credentials (`FirebaseAuthCredentialsProvider`, `FirestoreClient`, FIRAuth) | current user in three places, `token_counter`, `close_count_` | change of user, token request, restart | three serial queues | a token that belongs to the user before |
| Firestore local store (`LocalStore`, `LocalDocumentsView`, `View`) | remote documents, overlays, queue, what the listener shows | write locally, acknowledge, reject, remote event | write and watch streams | two streams in any order, overlays computed from a queue that shrinks |
| UIKit session (`SceneDelegate`, `ProfileViewController`) | tabs, buttons | listener, `updateUI` | Auth | two sources of the same fact |
| UIKit feed (`FeedViewController`, `PostTableViewCell`) | table snapshot | listener, pull to refresh, cells | post life cycle | results out of order |
| SwiftUI session, profile picture | `user`, photo URL | listener, upload | Auth, Storage | user read after two awaits |
| SwiftUI feed, MIME type, password reset, layout | none of their own | - | - | - |

What makes each correct: a nonce has its length and is unbiased; an answer of
Apple never ends the app nor is paired with an old nonce; the feed never shows a
post without its picture, with a dead link, or after its deletion, and no edit
destroys another's fields; one press of Post is one post; and the app knows who
is signed in, shows that account's notes and writes to that account.  Firestore
must keep a user's writes in order and under his token, settle each one exactly
as the server did, and show what the server has once it has settled them.

`PROJECT.json` lists the hazards at their lines, with the properties aimed at
each, and for those without one, why.

## Modules

### NonceString (`randomNonceString`)

The same function in `AuthService.swift` 72-102 and `AuthViewModel.swift`
124-156.  A character is its index in the charset.  `Draw` is one turn of the
`while` loop (16 bytes), `DrawFails` the `fatalError` after
`SecRandomCopyBytes`, `AppendByte` the body of the `forEach`, `EndBatch` the
loop test.  `stream` is a history variable with all bytes drawn; `ValidIndices`
defines what sampling by rejection should accept of it.

### AppleSignIn

Both apps; `app` is chosen in `Init`.  `Request` draws a nonce, *replaces* `currentNonce`
and sends its hash; nothing prevents a second press, so several requests may be
open (`sheets`).  `Credential` is the handler with its guards in order: no nonce,
`fatalError`; no identity token, `fatalError` in the SwiftUI app and a printed
line in the UIKit app; otherwise the Firebase call with the nonce kept *at that
moment*.  `NotAuthorized` gathers the paths that print and return.
`SignInSucceeds` compares hash and nonce as Firebase does and writes the
document in collection `User` (SwiftUI app).  Nonces are numbered, and
`sha256` is a pair, that is, free of collisions.

### PostLifecycle

The posts of the UIKit app, on any number of devices.  A document is the set of
its fields.  Firestore is modelled by how the apps use it: a device sees the
last server version it knows with its own queued writes on top (`View`); writes
of one device reach the server in order (`Commit`), perhaps more than once when
the acknowledgement is lost (`CommitUnheard`), or are refused (`Reject`);
`Sync` is the snapshot listener.  The queue outlives a kill, closures do not:
`Kill` drops the calls in flight and the continuations (`then`) of queued
writes.  `AddData`, `PutData`, `PutDataFails` are `addData`; `ConfigureItem`,
`ReloadData` and `DownloadURL` lead to and through `checkImageURL`, including
the misspelled key `"paht"`, which therefore never removes `path`;
`UpdatePost`, `GetDocument`, `DeletePost` and `DeleteImage` are the buttons of
the detail screen with `PostService`.  `order(by: "datePublished")` returns only
documents that have the field, which is what `Listed` says and what keeps the
feed free of the remnants described under `DeletedStaysUnlisted`.
`MCPostLifecycle` gives it two devices.

The service that makes `thumbs/<uuid>_320x200` is not in the repository; it is
modelled by its use (`MakeThumbnail`, external).

### PostComposer

The compose screens of both apps; `app` is chosen in `Init`.  An upload records the call
it waits for.  In the SwiftUI app a successful `putData` puts the *main thread*
to sleep (`asleep`: no other main-thread event happens), then the thumbnail is
asked for once; in the UIKit app the document follows at once and the completion
does its work in a further block of the main queue (`RunCompletion`).  A screen
may be swiped away and another opened at any point.  `AddFails` is the
completion of `addDocument` with an error, and the document may have been
committed all the same (`pipeline_race` shows how); a document records whether
its completion reported an error.  In the SwiftUI app Post
without a picture ends the app (`data!`).  The UIKit guard also wants a
description other than the placeholder; that it may return without effect is a
stuttering step.

### NoteSession

The account of NoteApp.  `currentUser` belongs to FIRAuth and changes on its
work queue; a notification then goes to the main queue; each listener reads the
current user *when it runs* and calls back only for a uid it has not seen last
(FIRAuth.m 1658-1671); `AuthViewModel.user` is what a listener last passed on;
`HolderView` is rendered later still.  The vendored FIRAuth.m is mapped where
this order comes from.  `Init` is the app after its start, with the account the
keychain had.  `Render` shows a fresh `NoteListView`, whose `onAppear` is the
first use of the lazy `databaseReference`: `ref` is the account current at that
moment, possibly none.  Whether SwiftUI calls the `onAppear` of a `Group` again
when its branch changes depends on the version, so both happen; listeners
therefore accumulate, up to a bound.  `SessionEnds` is FIRAuth signing out by
itself.  The snapshot listeners of an older view model are never removed but
only change that model, which is out of sight; they are left out.

### WriteQueue and WritePipeline

`WriteQueue` is the promise: a user's writes are queued, taken by the server in
order, and settled from the front; acknowledgements can be lost, and then the
same writes are taken again.  When the server refuses a write the client gives
up the oldest one: the same write or, with `WriteRace`, the one before it, whose
acknowledgement the error has overtaken (`Reject`).  `cursor` is how far the server has come
since the last loss.

`WritePipeline` is how the client keeps it.  `queue` is the `LevelDbMutationQueue`
of each user, `c` everything volatile: `RemoteStore`'s pipeline and flags, the
state machine of `Stream` with its idle and backoff timers and its
`close_count_`, and the gRPC call as two sequences, `out` and `in`, with a
status.  The handlers call each other in the middle of their work
(`Close` calls `OnWriteStreamClose`, which rejects the front batch, which refills
the pipeline, which may start the stream), so those that change only `c` are
operators from one value of it to the next and a step is one callback of the
worker queue.  Each `HARD_ASSERT` on the way is evaluated where the code has it
and remembered in `c.fatal`.  Note `Close`: the handshake flag is reset only
after the delegate has run, as in `WriteStream::NotifyStreamClose`, because
`RejectsFront` depends on it.

`Credentials`, `HandshakeComplete`, `MutationResult`, `StreamFinish`,
`BackoffElapsed`, `HealthCheck`, `IdleTimeout` are the callbacks;
`RestartNetwork` and `CredentialChange` come from outside; `Kill` is a restart
of the process, and `KillInResult` one between the completion and the
transaction that removes the batch.  The server answers in order, refuses (which
ends the call) and the call may break, losing responses (external).  With
`WriteRace` a `Write` on a call the server has closed fails and
`GrpcStream::OnOperationFailed` finishes the call with one response unread, as
the vendored gRPC allows (`chttp2_transport.cc` fails the send of a closed
stream, `call.cc` delivers the status with it).

The refinement mapping: pending writes are the queues, `cursor` is the number of
unread responses of a call that has shaken hands, waiting completions are the
callbacks.

### CredentialFlow

The current user is known in three places, each with a serial queue before it:
`authUser` (FIRAuth's work queue), `provUser` with `token_counter` (the main
queue), `engineUser` with the write stream (Firestore's worker queue).  `main`
and `worker` are those queues; requests for a token are answered in any order.
A token's user is decided when Auth takes the request, not when it was made.
`HandleToken` is `get_token_callback`, which asks again when the counter has
moved; `HandleResume` the callback of `RequestCredentials`, which returns when
the stream was closed since.  TLC shows that either of the two comparisons can
be left out without breaking `CallMatchesQueue`, because the three queues are
first-in first-out; `ResumeFindsStarting` needs the second.  The stream's own
states are those of WritePipeline reduced to Initial, Starting and Open.

### NoteSync

One note of NoteApp, created on one device and edited and deleted on all.  Each
device has what `LocalStore` keeps of the document (`queue`, `cache`,
`overlay`) and what `View` shows the snapshot listener (`view`, `mutated`).
`AddData`, `UpdateData`, `DeleteData` are the methods of `NoteViewModel`, each
with all of `SyncEngine::WriteMutations`; `HandleResult` is
`HandleSuccessfulWrite` or `HandleRejectedWrite`; `WatchChange` is
`ApplyRemoteEvent`.  The mutations keep their preconditions (`updateData` wants
the document to exist; an overlay has none) and the field mask of which
`CalculateOverlayMutation` makes a patch, a set or a delete.  A document has one
field, so a merge and a replacement coincide.  `details` matters because a
`DetailsView` keeps its note and can update one that is gone.

## Runs

| Run | Configuration | States | Shows |
|---|---|---|---|
| `nonce` | length 3, charset 2 of 4 byte values, batches of 2, 4 batches | 113,538 | length and rejection sampling, with surplus and rejected bytes in every position |
| `apple` | both apps, 3 requests, 2 accounts | 593 | a nonce is always kept, never one older than the request |
| `apple_crash` | SwiftUI, the same | violation | see Findings |
| `posts` | 1 post, 2 devices, 2 and 1 queued writes, 2 calls in flight (fewer after a repeated write) | 1,166,801 | the four safety properties and `NoLostFields` |
| `notes` | 2 accounts, 3 queued blocks, 2 listeners | 309,657 | session safety, `ScreenFollowsUser`, no deadlock |
| `composer` | both apps, 2 screens, 3 uploads | 31,700 | one post per screen unless an error was reported, pictures and thumbnails, also across the further block |
| `pipeline` | 2 users (symmetric), pipeline of 4, 5 writes, 3 faults, `WriteRace` | 1,061,049 | the refinement of `WriteQueue` and the safety of the write path |
| `pipeline_race` | 1 user, pipeline of 4, 4 writes, 1 fault, `WriteRace` | violation | see Findings |
| `pipeline_live` | 1 user, pipeline of 3, 4 writes, 2 faults | 20,142 | `QueueDrains` |
| `credentials` | 2 users, 2 changes, 2 starts, 1 write | 202,740 | a call carries its own user's queue; a start goes on |
| `notesync` | 2 devices, 2 titles, 3 writes, 1 fault | 106,050 | true caches, no remnants, convergence |
| `notesync_overlay` | the same, one safety property | violation | see Findings |

Bounds.  `nonce`: the code never compares bytes except with the charset bound,
so two accepted and two rejected values are all cases; a length that is no
multiple of the batch gives a surplus.  `posts`: posts share no state (each has
its own document, file and calls), so one suffices, and every hazard is between
two devices; one of them can hold two queued writes, enough for an edit and a
delete behind each other or behind the document itself.  `notes`: two accounts
overlap in all ways, three blocks hold the notification and completion of a
sign-up plus another notification, and two listeners can disagree.  `composer`:
an abandoned screen and its successor, and a retry.  `pipeline`: five writes
are one more than the pipeline holds, so that it is refilled when one is
settled; four in the pipeline are what a failed `Write` needs to overtake a
response (two committed, one refused, one later); and three faults are a loss, a
change of user and back.  The real limit of ten only makes the window longer.
Nothing tells the users apart, hence the symmetry; all properties of that run
are of safety.  `pipeline_live` also has one write more than the pipeline holds;
with fewer than four in it no response is overtaken, so the race is off.
`pipeline_race` is the smallest case of the race.  `credentials`: two changes
make a user leave and return, two starts a request that outlives its stream.  `notesync`: a creation, an edit or a delete on
top of it and a write of the other device, with one loss, refusal or kill.
The bounds only cut off
longer runs (`MaxRequests`, `MaxUploads`, `MaxBatches`, `MaxWrites`, `MaxFaults`,
`MaxChanges`, `MaxStarts`) or delay an event until
the queue is shorter; the proofs hold for every value of theirs.

Deadlock is checked in `posts` and `notes`.  The others may stop: the generator
returns, the app has ended, everything is settled or a bound is reached.

Fairness.  `notes`: weak fairness of the blocks of the main
queue, which the run loop drains, and strong fairness of `Render`.  SwiftUI
evaluates a changed view at the end of a turn of the run loop and new blocks
cannot keep it from doing so, yet `Render` is disabled while a notification is
calling its listeners, so weak fairness would not express this.  No network call of the apps is assumed
to answer: offline, Firestore completions do not run.  `pipeline_live`: weak
fairness of the worker queue, of the token and of the server while the call is
up; faults are bounded, so it says that the queue drains once they stop.
`credentials`: weak fairness of the three serial queues and of the token
service.  `notesync`: each device's oldest write is committed or refused, its
result handled, and the watch stream brings the current version (the streams are
restarted after every error, `remote_store.cc` 477-506).

Every property has a mutant (operators commented as such, next to the definition
they would replace): a dropped check, a missing reset or completion, a computed
instead of a lazy property.  Each makes its property fail.

### Properties

* `LengthAccounting`, `ResultIsAcceptedPrefix`: the nonce has the length asked
  for and is exactly the accepted prefix of the random stream.
* `NonceAlwaysKept`, `NonceNotStale`: the `fatalError` for a missing nonce is
  unreachable, and no token is sent with a nonce older than its request.  After
  an overlapping press a token may be sent with a *later* nonce; Firebase then
  refuses it, and the user has to press again.
* `ListedHasPicture`: in no device's view, offline or not, is a post listed
  whose picture is missing.
* `ListedURLResolves`: no dead thumbnail link in the server's feed.
* `DeletedStaysUnlisted`: a late merge re-creates a deleted document, but
  without its date, so that it is not listed.  The remnant stays in Firestore.
* `NoLostFields`: concurrent edits merge.
* `ButtonTracksUpload`, `NoDoublePost`, `DismissedIsPosted`, `DocsHaveImages`:
  no path through `addData` forgets the button; after a document that is
  reported as added a screen adds no other, and before it only ones whose
  completion reported an error although they were committed; the app dismisses a
  screen only after a document of it was reported as added; and when ten seconds
  were not enough for the thumbnail there is an error, never a broken post.  The
  statement is about one screen: a post swiped away during its upload and made
  again on a new screen is there twice, and nothing in the code prevents it.
* `UserIsCurrent`, `ScreenFollowsUser`: the app learns who is signed in.
* `ListIsOwn`: the list belongs to the account signed in, provided the last
  press of Sign In or Sign Up found no call in flight and nobody signed in
  (`overlapped` records at each press whether it did).  Sign-outs, sessions that
  end by themselves, late notifications and renders in any order do not break
  it.  Without the proviso it is false: when a second sign-in, pressed before
  the first was answered, completes under the list, `HolderView` sees a non-nil
  user before and after and keeps the list with the first account's collection;
  and a list rendered just after a session ended is bound to no account, and
  stays so when the next sign-in completes before the listener has run.
* `ShownIsWritten`: even then, the notes shown and the collection written to
  belong to one account.
* `ProfileIsOwn`: a profile document holds its own account's email.

* `NoHardAssert`: no order of writes, timers, closes and restarts trips an
  assertion of the stream, the pipeline or the mutation queue.
* `StreamCarriesPipeline`: since a response names no batch, call and pipeline
  must agree: unread responses and messages on their way are the pipeline.
* `CompletionsTrackQueue`: though batch ids are used again, a completion is
  always that of a batch still queued under its id.
* `RejectionFollowsRefusal`: an error reaches the write the server refused.  If a
  failed `Write` can overtake a response it may instead reach a write that was
  committed, and then a later write of the same user was refused: never a write
  without an answer, one behind the refused, or another user's.
  `RejectionHitsRefused`, the first sentence alone, is what the comment in the
  code claims and what `pipeline_race` refutes.
* `AckedNotOverwritten`, `KeepsPromise`: sending again never undoes a write that
  was reported as done; the client implements `WriteQueue`.  The first rests on
  an assumption about the server: what is still on the wire of a call the client
  has closed is not committed later (`Close` empties `out`).
* `QueueDrains`: no fault leaves the stream in a state nothing wakes it from.
* `CallMatchesQueue`, `ResumeFindsStarting`, `WriteJoinsItsQueue`,
  `StartLeadsOn`: see CredentialFlow.  `WriteJoinsItsQueue` is about the user
  that the main thread knows; FIRAuth's may have changed already.
* `CacheIsTrue`, `SettledShowsCache`, `Converges`: what is cached at a version is
  what the server had at it, nothing remains of a settled write, and in the end
  all devices show the server's note.

After a lost acknowledgement a write of a *deleted* document may come again:
for posts `setData(merge: true)` then creates a remnant, and the new document
itself, sent twice around another device's delete, is listed again.  No code
protects from this, so the three properties of `posts` that would be false
exempt posts with a repeated write (`repeated`).

### Findings

`apple_crash`: `signInWithAppleCompletion` (SociallyApp) ends the app with "A
login callback was received, but no login request was sent." when the credential
has no identity token.  A request *was* sent; the message is a copy of the one
three lines above, and the UIKit handler prints "Unable to fetch identity token"
and returns in the same place.

`pipeline_race`: a permanent error is taken for one of the front batch
(`remote_store.cc` 529-552).  The server commits writes
1 and 2 and refuses 3, which ends the call; write 4, issued meanwhile, fails on
the closed call, and once the answer to 1 is read `OnOperationFailed` finishes
the call and drops the completion that holds the answer to 2.  The front of the
pipeline is then write 2: committed by the server, it is removed and its
completion is told of the refusal, while write 3 is sent, and refused, again.

`notesync_overlay`: `RecalculateAndSaveOverlays` saves no overlay for a document
its queue no longer changes, and does not delete the one that is there
(`local_documents_view.cc` 360-366).  When the creation of a note is refused while an edit
of it is queued, the list goes on showing a note that exists nowhere until the
edit is refused too.

## Proofs

TLAPS proves the following for every value of the constants (accounts, devices,
posts, bounds), from the named assumptions on constants only.

* `NonceStringProofs`: `NonceTypeCorrect`, `NonceLength`,
  `NonceIsAcceptedPrefix`.  The invariant adds
  that a batch being scanned has its full size, so that the index is in range;
  for the third theorem `SampleInv` adds that the batch is the end of the stream
  and that outside the `forEach` all of it is scanned.  `ValidAppend` says what
  one more byte does to the accepted ones, `PrefixAppend` what one more accepted
  byte does to their first `Length`: nothing once there are that many, which is
  when `remainingLength` is 0.
  `NonceAssumption` says that length, charset and batch are not empty and that
  the charset has at most as many characters as a byte has values.
* `AppleSignInProofs`: `AppleInvariant`, from which `NonceIsKept`,
  `AppleTypes`, `NonceIsFresh`.  The strengthening: the nonce kept is the
  one of the last request, and Apple answers only requests that were made.
* `PostLifecycleProofs`: `PostTypeCorrect`, `PostInvariant`, and from it
  `PicturesPresent`, `URLsResolve`, `DeleteIsFinal`, `FieldsAreKept`.  The
  properties speak about the server, but are kept by what is *on its way* to it,
  so `PostInv` says:
  - `UnusedFresh`, `UploadFresh`: nothing refers to a UUID not yet taken, and
    only the upload itself to one whose picture is being put;
  - `QueueInv`: each queued write has one of the four shapes of the code; a
    queued new document has its picture, and until it is committed only its own
    device, behind it in the queue, refers to it; a queued URL has its thumbnail
    or a deleted post;
  - `ServerInv`: the properties themselves, for the server and for each
    device's version;
  - `ImageTasks`: a thumbnail is deleted only for a deleted post.

  Actions fall in four groups with a lemma each: those that leave the queues
  alone (`QuietStep`), append a write (`QueuesStep`), remove the first
  (`DequeuesStep`), or kill a device (`KillStep`).
* `NoteSessionProofs`: `SessionInvariant`, `SessionTypeCorrect`,
  `UserConverges`, `ListsAreOwn`, `ListsDoNotMix`, `ProfilesAreOwn`.
  `SessionInv` says that a listener never called has its first call queued
  (`InitialCalls`), that unless a notification is queued every called listener
  knows the current user or is about to be called (`ListenersInformed`), and
  that the model's user is what a listener passed on (`UserFromListener`).  With
  an empty queue these leave only one value for the user.  `ListsAreOwn` needs
  `TidyInv` besides: after a press that found nothing under way there is one
  call at most, and until it returns nobody is signed in and no list is shown,
  so that a list is rendered only for the account that call makes current.

* `PostComposerProofs`: `ComposerInvariant`, and from it `ComposerTypes`, `ButtonFollows`,
  `PostsOnce`, `DismissMeansPosted`, `ImagesStored`.  `ComposerInv` adds that a
  screen has one upload at most (`OneUpload`), that the screen of an upload has
  a document reported as added exactly when this upload added it (`UploadInv`),
  and that an open screen with such a document still has its upload, hence a
  disabled button (`DocInv`): this is the moment between the two halves of the
  UIKit completion.  Uploads are numbered as they start, so documents that were
  added in spite of an error are older.

* `CredentialFlowProofs`: `CredentialInvariant`, and from it `CredentialTypes`,
  `CallMatchesQueueAlways`, `WriteJoinsItsQueueAlways`; with `RequestInv` also
  `ResumeFindsStartingAlways`.  `CredInv` says of the
  main queue that its last notification names Auth's user (`AuthOK`), that a
  token with the provider's counter and no notification before it is that of
  the provider's user (`TokensOK`, and `FetchesOK` for a token still on its way),
  that no counter is ahead of the provider's (`CountsOK`, `RequestsOK`), and of
  the worker queue that a job is for the user of the job before it unless it
  changes the user, down to the provider's user at its end (`ChainOK`).  A
  notification raises the counter, which makes every older token one to be asked
  for again.

  `RequestInv` follows a request through the four places it can be in (asked of
  Auth, being fetched, a block of the main queue, a job of the worker queue): of
  the current `close_count_` there is one at most, of a later one none, and none
  at all unless the stream is starting.  So the job that `HandleResume` does not
  drop is the answer to the one start.

* `WritePipelineProofs`: `PipeInvariant`, and from it `TypeCorrect`,
  `NoAssertFails`, `ResponsesMatchPipeline`, `CompletionsTracked`,
  `RejectionsFollowRefusals`, `AckedSurvive` and `PipelineKeepsPromise`.
  `PipeInv` has a part for each place:
  - `StoreInv`: ids and writes grow along a queue, every id is below `nextId`,
    every write belongs to the queue's user, and a waiting completion is that of
    a batch still queued.  This is why an id used again after a kill is harmless:
    the callbacks are gone with the process.
  - `ClientInv`: the pipeline is the front of the queue, unread responses plus
    messages on their way are the pipeline unless the call broke, no request for
    a token is of a close to come, and flags and timers fit the state.  Inside a
    handler less holds (`ClientMid`): the lemmas on the operators that handlers
    are built from (`FillInv`, `CloseError`, `CloseReject`, `RestartInv`, ...)
    start from it, and one lemma per callback (`...Keeps`) concludes `PipeInv`.
  - `RefusedInv`: when the call has ended with a permanent error, the next
    unanswered message is of a refused write.  It only is inductive because a
    handshake that is still unread excludes a permanent status, which is part of
    `ClientInv`.
  - `ClosesInv`: every close is paid for by a fault, which bounds the counter.

  `AckedSurvive` needs `AckInv` besides: a user's pending writes are the last he
  issued (`SuffixOK`); one whose completion reported success is the oldest of
  its queue, after a kill between completion and removal, or gone (`ToldOK`); and
  a write that an earlier one was committed over was not reported, and is still
  to be committed again before it can be (`OverOK`).

  `PipelineKeepsPromise` is the refinement: the mapping of `Init`, then for each
  action the step of `WriteQueue` it is (a response read is `Acknowledge`, a
  close that gives up the front is `Reject`, another close is `Lose`) or a
  stutter.  `RejectedFront` finds the refused batch at a close: the front of the
  queue or, with one response overtaken, the one behind it.

  `RejectionsFollowRefusals` adds `AnswersInv`: the writes with an answer on its
  way are committed, and a refused write was issued.  It is shown over the steps
  of `WriteQueue`, like `AckInv`.  No theorem assumes anything of `WriteRace`.

* `NoteSyncProofs`: `SyncInvariant`, and from it `SyncTypes`,
  `CacheIsTrueAlways`, `SettledShowsCacheAlways`.  `SyncInv` says that a device
  has one overlay at most and that its batch is still queued (`ProperOverlay`),
  that the results on their way are those of its oldest writes and name versions
  with their titles (`ResultsOK`), that no two queued writes share an id
  (`IdsOK`), and that with an empty queue the list shows the cache (`StoreInv`).
  The versions of the server stay in the type because every write is committed
  once plus, per fault, at most `MaxWrites` times again: `BudgetOK` counts the
  writes without a result against that budget, for any set of devices.

TLC also finds the strengthened invariants to hold on the instances of the
runs.

Two operators, `ApplyQueue` of `NoteSync` and `ValidIndices` of `NonceString`,
are recursive functions.  That such a function exists, and what it yields, is
induction over data; the proofs do without the library's induction rules and
take a least counterexample instead, from the well-foundedness of `<`
(`LeastElement`, `LeastNumber`, `SmallestNumber`).

Only model-checked: the liveness properties `ScreenFollowsUser`, `QueueDrains`,
`StartLeadsOn` and `Converges` (fairness is out of the prover's reach), and
that the runs do not deadlock.  Every safety property of a passing run is proved.

## Not modelled

* `detectMimeType`: a function of one byte whose result nothing in the apps
  reads.
* The SwiftUI feed (a `FirestoreQuery`), layout, assets, previews, analytics,
  logging, the password reset mail.
* The UIKit tabs and the SwiftUI profile view: they follow the auth listener as
  `HolderView` does (NoteSession).  `uploadProfileImage`, the order in which
  refresh and snapshot reach the feed's table, and the index that SwiftUI passes
  to `deleteData` are listed as hazards without a property.
* Of Firestore: watch streams, limbo resolution (in NoteSync the watch simply
  brings the delete; the `NoDocument` without version that a failed limbo
  resolution makes up never comes), `getDocument` from the offline cache,
  `waitForPendingWrites`, `disableNetwork`, transactions,
  query limits, indexes, bundles, transforms, field merges of more than one
  field, garbage collection, stream tokens (kept but not sent again), malformed
  messages, a server that ends a call with OK, and the lengths of delays.
* The rest of `Pods` (gRPC, BoringSSL, abseil, leveldb, nanopb, other SDKs):
  third-party and generated code, over a million lines, on which the apps' logic
  does not depend beyond the external steps above.

## Plan

1. Done: NonceString, AppleSignIn, PostLifecycle, NoteSession, PostComposer,
   CredentialFlow, WritePipeline over WriteQueue, and NoteSync, each with proofs
   of its safety properties.
2. What is left to prove: how the modules of the apps rest on those of
   Firestore.  `CredentialFlow` reduces the stream of `WritePipeline` to three
   states and `PostLifecycle` assumes the write queue that `WriteQueue`
   promises; both are argued above and not stated as refinements.
3. What is left to model: the order in which refresh and snapshot reach the feed
   table, and `uploadProfileImage`.
