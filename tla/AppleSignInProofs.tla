-------------------------- MODULE AppleSignInProofs --------------------------
(***************************************************************************)
(* TLAPS proofs about AppleSignIn, for both apps, any accounts and any     *)
(* number of presses of the button.                                        *)
(***************************************************************************)
EXTENDS AppleSignIn, TLAPS

\* The nonce kept is the one of the last request, and Apple only answers
\* requests that were made.
AppleInv ==
    /\ TypeOK
    /\ currentNonce = sent
    /\ \A n \in Nonce : sha256(n) \in sheets => n <= sent
    /\ NonceNotStale
    /\ NonceAlwaysKept

\* A hash belongs to one nonce.
LEMMA HashInjective ==
    \A n, m : sha256(n) = sha256(m) => n = m
  BY DEF sha256

LEMMA AppleTypeStep ==
    ASSUME TypeOK, currentNonce = sent, [Next]_vars
    PROVE  TypeOK'
<1> USE AppleAssumption DEF TypeOK
<1>1. CASE Request
  <2>1. sent' \in Nonce /\ currentNonce' = sent' /\ sent' \in 0 .. MaxRequests
    BY <1>1 DEF Request, Nonce
  <2>2. sheets' \in SUBSET Hash
    BY <1>1, <2>1 DEF Request, Hash
  <2> QED
    BY <1>1, <2>1, <2>2 DEF Request
<1>2. ASSUME NEW h \in sheets, NotAuthorized(h) PROVE TypeOK'
  BY <1>2 DEF NotAuthorized, Answered
<1>3. ASSUME NEW h \in sheets, NEW t \in BOOLEAN, Credential(h, t) PROVE TypeOK'
  <2>1. currentNonce # 0 => currentNonce \in Nonce
    BY DEF Nonce
  <2>2. calls' \in SUBSET [token : Hash, rawNonce : Nonce]
    BY <1>3, <2>1 DEF Credential
  <2>3. crashed' \in {"no", "nonce", "token"}
    BY <1>3 DEF Credential, Answered
  <2> QED
    BY <1>3, <2>2, <2>3 DEF Credential, Answered
<1>4. ASSUME NEW c \in calls, SignInFails(c) PROVE TypeOK'
  BY <1>4 DEF SignInFails
<1>5. ASSUME NEW c \in calls, NEW u \in Users, SignInSucceeds(c, u) PROVE TypeOK'
  BY <1>5 DEF SignInSucceeds
<1>6. CASE UNCHANGED vars
  BY <1>6 DEF vars
<1> QED
  BY <1>1, <1>2, <1>3, <1>4, <1>5, <1>6 DEF Next

LEMMA AppleInvStep ==
    ASSUME AppleInv, [Next]_vars
    PROVE  AppleInv'
<1>1. TypeOK /\ TypeOK' /\ sent \in Nat
  BY AppleTypeStep, AppleAssumption DEF AppleInv, TypeOK
<1>2. CASE Request
  <2>1. \A n \in Nonce : sha256(n) \in sheets' => n <= sent'
    <3> SUFFICES ASSUME NEW n \in Nonce, sha256(n) \in sheets' PROVE n <= sent'
      OBVIOUS
    <3>1. CASE sha256(n) \in sheets
      <4>1. n <= sent
        BY <3>1 DEF AppleInv
      <4> QED
        BY <1>1, <1>2, <4>1, AppleAssumption DEF Request, Nonce
    <3>2. CASE sha256(n) \notin sheets
      <4>1. sha256(n) = sha256(sent')
        BY <1>2, <3>2 DEF Request
      <4>2. n = sent'
        BY <4>1, HashInjective
      <4> QED
        BY <4>2, AppleAssumption DEF Nonce
    <3> QED
      BY <3>1, <3>2
  <2> QED
    BY <1>1, <1>2, <2>1 DEF Request, AppleInv, NonceNotStale, NonceAlwaysKept
<1>3. ASSUME NEW h \in sheets, NotAuthorized(h) PROVE AppleInv'
  BY <1>1, <1>3 DEF NotAuthorized, Answered, AppleInv, NonceNotStale, NonceAlwaysKept
<1>4. ASSUME NEW h \in sheets, NEW t \in BOOLEAN, Credential(h, t) PROVE AppleInv'
  <2>1. PICK n \in Nonce : h = sha256(n)
    BY <1>1 DEF TypeOK, Hash
  <2>2. n <= sent /\ currentNonce = sent
    BY <2>1 DEF AppleInv
  <2>3. currentNonce # 0
    BY <1>1, <2>2, AppleAssumption DEF Nonce
  <2>4. NonceNotStale'
    <3> SUFFICES ASSUME NEW c \in calls', NEW m \in Nonce, c.token = sha256(m)
                 PROVE  m <= c.rawNonce
      BY DEF NonceNotStale
    <3>1. CASE c \in calls
      BY <3>1 DEF AppleInv, NonceNotStale
    <3>2. CASE c \notin calls
      <4>1. c = [token |-> h, rawNonce |-> currentNonce]
        BY <1>4, <3>2 DEF Credential
      <4>2. sha256(m) = sha256(n) /\ c.rawNonce = sent
        BY <2>1, <2>2, <4>1
      <4>3. m = n
        BY <4>2, HashInjective
      <4> QED
        BY <2>2, <4>2, <4>3
    <3> QED
      BY <3>1, <3>2
  <2>5. NonceAlwaysKept'
    BY <1>4, <2>3 DEF Credential, Answered, AppleInv, NonceAlwaysKept
  <2> QED
    BY <1>1, <1>4, <2>4, <2>5 DEF Credential, Answered, AppleInv
<1>5. ASSUME NEW c \in calls, SignInFails(c) PROVE AppleInv'
  BY <1>1, <1>5 DEF SignInFails, AppleInv, NonceNotStale, NonceAlwaysKept
<1>6. ASSUME NEW c \in calls, NEW u \in Users, SignInSucceeds(c, u) PROVE AppleInv'
  BY <1>1, <1>6 DEF SignInSucceeds, AppleInv, NonceNotStale, NonceAlwaysKept
<1>7. CASE UNCHANGED vars
  BY <1>1, <1>7 DEF vars, AppleInv, NonceNotStale, NonceAlwaysKept
<1> QED
  BY <1>2, <1>3, <1>4, <1>5, <1>6, <1>7 DEF Next

\* The inductive invariant holds in every behaviour of either app.
THEOREM AppleInvariant == Spec => []AppleInv
<1>1. Init => AppleInv
  BY AppleAssumption DEF Init, AppleInv, TypeOK, NonceNotStale, NonceAlwaysKept
<1>2. AppleInv /\ [Next]_vars => AppleInv'
  BY AppleInvStep
<1> QED
  BY <1>1, <1>2, PTL DEF Spec

\* Every state of either app is well typed: Apple is only sent hashes.
THEOREM AppleTypes == Spec => []TypeOK
<1>1. AppleInv => TypeOK
  BY DEF AppleInv
<1> QED
  BY <1>1, AppleInvariant, PTL

\* Every answer of Apple finds a nonce kept: the fatalError for a missing one
\* is unreachable.
THEOREM NonceIsKept == Spec => []NonceAlwaysKept
<1>1. AppleInv => NonceAlwaysKept
  BY DEF AppleInv
<1> QED
  BY <1>1, AppleInvariant, PTL

\* No token is sent to Firebase with the nonce of an earlier request.
THEOREM NonceIsFresh == Spec => []NonceNotStale
<1>1. AppleInv => NonceNotStale
  BY DEF AppleInv
<1> QED
  BY <1>1, AppleInvariant, PTL

=============================================================================
