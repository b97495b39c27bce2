----------------------------- MODULE AppleSignIn -----------------------------
(***************************************************************************)
(* Sign in with Apple, in the SwiftUI app (AuthViewModel) and in the UIKit *)
(* app (AuthService and ProfileViewController).  A press of the button     *)
(* sends Apple the hash of a fresh nonce and keeps the nonce in the single *)
(* variable currentNonce; Apple's answer carries a token that contains the *)
(* hash; Firebase accepts the token with a raw nonce of that hash.  Nothing *)
(* keeps a second press from coming before the first answer.               *)
(*                                                                         *)
(* Nonces are numbered by the request they are drawn for.                  *)
(***************************************************************************)
EXTENDS Integers

CONSTANTS
    Apps,         \* the apps to check: "SociallyApp", "Socially-UIKit"
    Users,        \* accounts an Apple ID may sign in to
    MaxRequests   \* bound: presses of the button

ASSUME AppleAssumption ==
    /\ Apps \subseteq {"SociallyApp", "Socially-UIKit"}
    /\ MaxRequests \in Nat

VARIABLES
    app,            \* the app that runs
    sent,           \* number of requests made
    currentNonce,   \* the nonce kept, 0 for nil
    sheets,         \* hashes of the requests Apple has not answered
    calls,          \* Auth.signIn(with:) calls in flight
    signedIn,       \* pairs of token hash and account that Firebase accepted
    userDocs,       \* Firestore: documents of the collection User
    crashed         \* the guard whose fatalError ended the app, or "no"

vars == <<app, sent, currentNonce, sheets, calls, signedIn, userDocs, crashed>>

Nonce == 1 .. MaxRequests

\* SHA-256, which no two nonces share.
sha256(n) == <<"sha256", n>>

Hash == {sha256(n) : n \in Nonce}

TypeOK ==
    /\ app \in Apps
    /\ sent \in 0 .. MaxRequests
    /\ currentNonce \in 0 .. MaxRequests
    /\ sheets \in SUBSET Hash
    /\ calls \in SUBSET [token : Hash, rawNonce : Nonce]
    /\ signedIn \in SUBSET (Hash \X Users)
    /\ userDocs \in SUBSET Users
    /\ crashed \in {"no", "nonce", "token"}

Init ==
    /\ app \in Apps
    /\ sent = 0 /\ currentNonce = 0
    /\ sheets = {} /\ calls = {} /\ signedIn = {} /\ userDocs = {}
    /\ crashed = "no"

\* Mutants of Request: the nonce is sent without hashing it; a nonce that is
\* already there is used again.
RequestUnhashed ==
    /\ crashed = "no"
    /\ sent < MaxRequests
    /\ sent' = sent + 1
    /\ currentNonce' = sent'
    /\ sheets' = sheets \cup {<<"plain", currentNonce'>>}
    /\ UNCHANGED <<app, calls, signedIn, userDocs, crashed>>
RequestKeepsNonce ==
    /\ crashed = "no"
    /\ sent < MaxRequests
    /\ sent' = sent + 1
    /\ currentNonce' = IF currentNonce = 0 THEN sent' ELSE currentNonce
    /\ sheets' = sheets \cup {sha256(sent')}
    /\ UNCHANGED <<app, calls, signedIn, userDocs, crashed>>

\* signInWithApple(request:), performAppleSignIn.
Request ==
    /\ crashed = "no"
    /\ sent < MaxRequests
    /\ sent' = sent + 1
    /\ currentNonce' = sent'
    /\ sheets' = sheets \cup {sha256(currentNonce')}
    /\ UNCHANGED <<app, calls, signedIn, userDocs, crashed>>

\* Mutant of Answered: the nonce is cleared when it has been used.
AnsweredOnce(h) ==
    /\ crashed = "no"
    /\ h \in sheets
    /\ sheets' = sheets \ {h}
    /\ currentNonce' = 0
    /\ UNCHANGED <<app, sent, signedIn, userDocs>>

\* Apple answers a request; what the handler does is up to the answer.
Answered(h) ==
    /\ crashed = "no"
    /\ h \in sheets
    /\ sheets' = sheets \ {h}
    /\ UNCHANGED <<app, sent, currentNonce, signedIn, userDocs>>

\* An Apple ID credential.  The guards of the handler, in order: a nonce is
\* kept, or fatalError; the credential has an identity token, or fatalError
\* in the SwiftUI app and a printed line in the UIKit app.  Then the token
\* goes to Firebase with the nonce kept now.
Credential(h, hasToken) ==
    /\ Answered(h)
    /\ crashed' = CASE currentNonce = 0 -> "nonce"
                    [] currentNonce # 0 /\ ~hasToken /\ app = "SociallyApp" -> "token"
                    [] OTHER -> crashed
    /\ calls' = IF currentNonce # 0 /\ hasToken
                THEN calls \cup {[token |-> h, rawNonce |-> currentNonce]}
                ELSE calls

\* An error, another kind of credential, a token that is not UTF-8.
NotAuthorized(h) ==
    /\ Answered(h)
    /\ UNCHANGED <<app, calls, crashed>>

\* Firebase compares the nonces and signs in; the SwiftUI app then writes the
\* account's document.
SignInSucceeds(c, u) ==
    /\ crashed = "no"
    /\ c.token = sha256(c.rawNonce)
    /\ calls' = calls \ {c}
    /\ signedIn' = signedIn \cup {<<c.token, u>>}
    /\ userDocs' = IF app = "SociallyApp" THEN userDocs \cup {u} ELSE userDocs
    /\ UNCHANGED <<app, sent, currentNonce, sheets, crashed>>

\* Firebase refuses, or cannot be reached.
SignInFails(c) ==
    /\ crashed = "no"
    /\ calls' = calls \ {c}
    /\ UNCHANGED <<app, sent, currentNonce, sheets, signedIn, userDocs, crashed>>

Next ==
    \/ Request
    \/ \E h \in sheets :
          NotAuthorized(h) \/ \E hasToken \in BOOLEAN : Credential(h, hasToken)
    \/ \E c \in calls : SignInFails(c) \/ \E u \in Users : SignInSucceeds(c, u)

Spec == Init /\ [][Next]_vars

-----------------------------------------------------------------------------
(* Properties                                                              *)

\* The fatalError for a missing nonce is out of reach: however answers and
\* presses interleave, every answer finds a nonce kept.
NonceAlwaysKept == crashed # "nonce"

\* A token reaches Firebase with its own nonce or, when the button was pressed
\* again before the answer, with a later one (and is refused); never with the
\* nonce of an earlier request.
NonceNotStale ==
    \A c \in calls : \A n \in Nonce : c.token = sha256(n) => n <= c.rawNonce

\* "A login callback was received, but no login request was sent", the
\* message of both fatalError calls of the handler.
CrashMeansNoRequest == crashed # "no" => sent = 0

=============================================================================
