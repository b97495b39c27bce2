----------------------------- MODULE NoteSession -----------------------------
(***************************************************************************)
(* Who is signed in to NoteApp, and whose notes it shows.                  *)
(*                                                                         *)
(* Firebase Auth changes its current user on a work queue of its own and   *)
(* posts a notification to the main queue; AuthViewModel copies the user   *)
(* when a listener runs there; SwiftUI later exchanges SignUpView for      *)
(* NoteListView, whose NoteViewModel binds its collection to the account   *)
(* that is current when the lazy databaseReference is first used.  Between *)
(* any two of these the current user may change again.                     *)
(*                                                                         *)
(* The main thread runs one block at a time: a tap, a render, a snapshot   *)
(* and a block of the queue never overlap, and turn = 0 says it is free.   *)
(***************************************************************************)
EXTENDS Integers, Sequences

CONSTANTS
    Users,         \* accounts, one email address each
    None,          \* nil
    Unset,         \* a value not computed yet
    MaxMain,       \* bound: blocks waiting on the main queue
    MaxListeners   \* bound: listeners HolderView may have registered

ASSUME SessionAssumption ==
    /\ None \notin Users /\ Unset \notin Users /\ None # Unset
    /\ MaxMain \in Nat /\ MaxListeners \in Nat \ {0}

MaybeUser == Users \cup {None}

VARIABLES
    accounts,      \* Firebase Auth, server side: accounts that exist
    profiles,      \* Firestore Users/<uid>: the email stored there
    requests,      \* signIn and createUser calls in flight
    currentUser,   \* Auth.auth().currentUser
    main,          \* blocks waiting on the main queue
    turn,          \* the listener the running notification calls next, or 0
    previous,      \* per auth listener, previousUserID (Unset: never called)
    user,          \* AuthViewModel.user
    screen,        \* the branch of HolderView on screen
    ref,           \* NoteViewModel.databaseReference, as the account it names
    notes,         \* NoteViewModel.notes, as the account they belong to
    overlapped     \* history: the last press of Sign In or Sign Up found a
                   \* call in flight or an account signed in

vars == <<accounts, profiles, requests, currentUser, main, turn, previous,
          user, screen, ref, notes, overlapped>>

authVars == <<accounts, profiles, requests, currentUser>>
viewVars == <<screen, ref, notes>>

Request == [op : {"signIn", "signUp"}, user : Users]
Block == [op : {"notify"}]
         \cup [op : {"initial"}, listener : 1 .. MaxListeners]
         \cup [op : {"created"}, user : Users]

TypeOK ==
    /\ accounts \in SUBSET Users
    /\ profiles \in [Users -> MaybeUser]
    /\ requests \in SUBSET Request
    /\ currentUser \in MaybeUser
    /\ main \in Seq(Block)
    /\ previous \in Seq(MaybeUser \cup {Unset})
    /\ Len(previous) <= MaxListeners
    /\ turn \in 0 .. Len(previous)
    /\ user \in MaybeUser
    /\ screen \in {"signUp", "list"}
    /\ ref \in MaybeUser \cup {Unset}
    /\ notes \in MaybeUser
    /\ overlapped \in BOOLEAN

Idle == turn = 0

\* HolderView's body.
Branch == IF user = None THEN "signUp" ELSE "list"

Notify == [op |-> "notify"]
Initial(l) == [op |-> "initial", listener |-> l]
Created(u) == [op |-> "created", user |-> u]

-----------------------------------------------------------------------------
(* AuthViewModel and HolderView                                            *)

\* listenToAuthState: the new listener gets a first call of its own.
ListenToAuthState ==
    /\ previous' = Append(previous, Unset)
    /\ main' = Append(main, Initial(Len(previous) + 1))

\* The app has started with the account kept in the keychain, if any;
\* HolderView has shown SignUpView and registered a listener.
Init ==
    /\ accounts \in SUBSET Users
    /\ profiles = [u \in Users |-> None]
    /\ requests = {}
    /\ currentUser \in accounts \cup {None}
    /\ main = <<Initial(1)>>
    /\ turn = 0
    /\ previous = <<Unset>>
    /\ user = None
    /\ screen = "signUp"
    /\ ref = Unset
    /\ notes = None
    /\ overlapped = FALSE

\* Sign Up and Sign In stay enabled while a call is in flight.
Press(r) ==
    /\ Idle
    /\ screen = "signUp"
    /\ requests' = requests \cup {r}
    /\ overlapped' = (requests # {} \/ currentUser # None \/ user # None)
    /\ UNCHANGED <<accounts, profiles, currentUser, main, turn, previous, user,
                   screen, ref, notes>>

\* The current user changes, on Auth's work queue, and the main queue becomes
\* queue.
UpdateCurrentUser(u, queue) ==
    /\ Len(queue) <= MaxMain
    /\ currentUser' = u
    /\ main' = queue
    /\ UNCHANGED <<turn, previous, user, screen, ref, notes, overlapped>>

\* The completion of signIn does nothing.
SignInSucceeds(r) ==
    /\ r.op = "signIn" /\ r.user \in accounts
    /\ requests' = requests \ {r}
    /\ UpdateCurrentUser(r.user, Append(main, Notify))
    /\ UNCHANGED <<accounts, profiles>>

\* The completion of createUser runs after the notification.
SignUpSucceeds(r) ==
    /\ r.op = "signUp" /\ r.user \notin accounts
    /\ accounts' = accounts \cup {r.user}
    /\ requests' = requests \ {r}
    /\ UpdateCurrentUser(r.user, Append(Append(main, Notify), Created(r.user)))
    /\ UNCHANGED profiles

\* error: printed.
RequestFails(r) ==
    /\ requests' = requests \ {r}
    /\ UNCHANGED <<accounts, profiles, currentUser, main, turn, previous, user,
                   screen, ref, notes, overlapped>>

SignOut ==
    /\ Idle
    /\ screen = "list"
    /\ currentUser # None
    /\ UpdateCurrentUser(None, Append(main, Notify))
    /\ UNCHANGED <<accounts, profiles, requests>>

\* Auth signs out by itself when the account's token is no longer accepted.
SessionEnds ==
    /\ currentUser # None
    /\ UpdateCurrentUser(None, Append(main, Notify))
    /\ UNCHANGED <<accounts, profiles, requests>>

\* Mutant of RunCreated: the completion asks for the current user again.
RunCreatedForCurrent ==
    /\ Idle /\ main # <<>> /\ Head(main).op = "created"
    /\ profiles' = IF currentUser = None THEN profiles
                   ELSE [profiles EXCEPT ![currentUser] = Head(main).user]
    /\ main' = Tail(main)
    /\ UNCHANGED <<accounts, requests, currentUser, turn, previous, user,
                   viewVars, overlapped>>

\* The setData in the completion of createUser: result, not the current user,
\* names the document.
RunCreated ==
    /\ Idle /\ main # <<>> /\ Head(main).op = "created"
    /\ profiles' = [profiles EXCEPT ![Head(main).user] = Head(main).user]
    /\ main' = Tail(main)
    /\ UNCHANGED <<accounts, requests, currentUser, turn, previous, user,
                   viewVars, overlapped>>

\* Mutants of CallListener: it passes on the previous uid; it only passes on
\* the first user it sees.
CallListenerWithPrevious(l) ==
    /\ user' = IF previous[l] = currentUser THEN user ELSE previous[l]
    /\ previous' = [previous EXCEPT ![l] = currentUser]
CallListenerOnce(l) ==
    /\ user' = IF previous[l] = Unset THEN currentUser ELSE user
    /\ previous' = [previous EXCEPT ![l] = currentUser]

\* A listener reads the current user when it is called, and passes it on if
\* it is called for the first time or the uid has changed.
CallListener(l) ==
    /\ user' = IF previous[l] = currentUser THEN user ELSE currentUser
    /\ previous' = [previous EXCEPT ![l] = currentUser]

RunInitial ==
    /\ Idle /\ main # <<>> /\ Head(main).op = "initial"
    /\ CallListener(Head(main).listener)
    /\ main' = Tail(main)
    /\ UNCHANGED <<authVars, turn, viewVars, overlapped>>

\* A notification calls every registered listener, one after the other.
RunNotify ==
    /\ Idle /\ main # <<>> /\ Head(main).op = "notify"
    /\ turn' = 1
    /\ main' = Tail(main)
    /\ UNCHANGED <<authVars, previous, user, viewVars, overlapped>>

RunListener ==
    /\ turn > 0
    /\ CallListener(turn)
    /\ turn' = IF turn = Len(previous) THEN 0 ELSE turn + 1
    /\ UNCHANGED <<authVars, main, viewVars, overlapped>>

-----------------------------------------------------------------------------
(* NoteListView and NoteViewModel                                          *)

\* SwiftUI shows NoteListView: a new NoteViewModel, whose fetchData, called
\* from onAppear, is the first use of databaseReference.
ShowList ==
    /\ screen' = "list"
    /\ ref' = currentUser
    /\ notes' = None

\* NoteListView goes, and its model with it: only the snapshot listeners,
\* which are never removed, still hold it, out of sight.
ShowSignUp ==
    /\ screen' = "signUp"
    /\ ref' = Unset
    /\ notes' = None

\* Mutants of Render: HolderView does not observe the model; HolderView owns
\* one NoteViewModel, which outlives its lists.
RenderUnobserved == FALSE
RenderKeepsModel ==
    /\ Idle
    /\ screen # Branch
    /\ screen' = Branch
    /\ ref' = IF Branch = "list" /\ ref = Unset THEN currentUser ELSE ref
    /\ UNCHANGED <<authVars, turn, user, previous, main, notes, overlapped>>

\* The body of HolderView is evaluated again.  The onAppear of its Group
\* registers a listener when the branch changes; whether SwiftUI calls it
\* then depends on the version, so both happen.
Render ==
    /\ Idle
    /\ screen # Branch
    /\ IF Branch = "list" THEN ShowList ELSE ShowSignUp
    /\ \/ Len(previous) < MaxListeners /\ Len(main) < MaxMain /\ ListenToAuthState
       \/ UNCHANGED <<previous, main>>
    /\ UNCHANGED <<authVars, turn, user, overlapped>>

\* Mutant of DatabaseReference: a computed property instead of a lazy one.
ComputedReference == currentUser

\* The collection that fetchData, addData, updateData and deleteData use.
DatabaseReference == ref

\* A snapshot of the listener that fetchData added.
Snapshot ==
    /\ Idle
    /\ screen = "list"
    /\ ref \in Users
    /\ notes' = ref
    /\ UNCHANGED <<authVars, main, turn, previous, user, screen, ref, overlapped>>

-----------------------------------------------------------------------------

Next ==
    \/ \E r \in Request : Press(r)
    \/ \E r \in requests : SignInSucceeds(r) \/ SignUpSucceeds(r) \/ RequestFails(r)
    \/ SignOut \/ SessionEnds
    \/ RunCreated \/ RunInitial \/ RunNotify \/ RunListener
    \/ Render \/ Snapshot

RunMain == RunCreated \/ RunInitial \/ RunNotify \/ RunListener

\* The main run loop keeps running the blocks of its queue, and SwiftUI
\* renders at the end of a turn of the loop, so that a stream of further
\* blocks cannot keep it from rendering; nothing else is obliged to happen.
Fairness == WF_vars(RunMain) /\ SF_vars(Render)

Spec == Init /\ [][Next]_vars /\ Fairness

-----------------------------------------------------------------------------
(* Properties                                                              *)

\* Once the main queue has run dry the app knows who is signed in, however
\* many sign-ins, sign-outs and listeners crossed on the way.
UserIsCurrent ==
    main = <<>> /\ Idle => user = currentUser

\* If Sign In and Sign Up are pressed only when no call is in flight and
\* nobody is signed in, for Auth and for the model alike, then no list is ever
\* bound to another account than the one signed in, however late it is rendered
\* and however often accounts come and go.  Neither button makes sure of it.
ListIsOwn ==
    screen = "list" /\ ~overlapped => currentUser \in {ref, None}

\* What the list shows belongs to the collection that the next addData,
\* updateData or deleteData writes to, even across a change of account.
ShownIsWritten ==
    screen = "list" /\ notes # None => DatabaseReference = notes

\* signUp stores the email of an account in the document of that account,
\* also when another account has become current before its completion.
ProfileIsOwn ==
    \A u \in Users : profiles[u] \in {None, u}

\* If the current user stays the same, the screen comes to match it.
ScreenFollowsUser ==
    \A u \in MaybeUser :
        currentUser = u ~> \/ currentUser # u
                           \/ user = u /\ screen = Branch

=============================================================================
