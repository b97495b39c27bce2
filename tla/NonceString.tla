----------------------------- MODULE NonceString -----------------------------
(***************************************************************************)
(* randomNonceString(length:), the generator of the nonce that ties an     *)
(* Apple sign-in request to its answer.  The same code is in the SwiftUI   *)
(* app (AuthViewModel) and in the UIKit app (AuthService).                 *)
(*                                                                         *)
(* A character of the nonce is represented by its index in the charset,    *)
(* counted from 0 as in the code.                                          *)
(***************************************************************************)
EXTENDS Integers, Sequences

CONSTANTS
    Length,        \* the parameter length (32 at both call sites)
    CharsetCount,  \* charset.count (64)
    ByteCount,     \* number of values of a UInt8 (256)
    BatchSize,     \* bytes drawn in one turn of the loop (16)
    MaxBatches     \* bound: turns of the loop (the code has none)

ASSUME NonceAssumption ==
    /\ Length \in Nat \ {0}        \* precondition(length > 0)
    /\ CharsetCount \in Nat \ {0}
    /\ ByteCount \in Nat
    /\ CharsetCount <= ByteCount
    /\ BatchSize \in Nat \ {0}
    /\ MaxBatches \in Nat

VARIABLES
    pc,               \* "draw", "append", "done" or "crashed"
    result,           \* the nonce built so far
    remainingLength,
    randoms,          \* the batch being scanned
    next,             \* position in randoms of the forEach
    stream            \* history: every byte drawn, in order

vars == <<pc, result, remainingLength, randoms, next, stream>>

Byte == 0 .. ByteCount - 1
Char == 0 .. CharsetCount - 1

TypeOK ==
    /\ pc \in {"draw", "append", "done", "crashed"}
    /\ result \in Seq(Char)
    /\ remainingLength \in 0 .. Length
    /\ randoms \in Seq(Byte)
    /\ next \in 1 .. BatchSize + 1
    /\ stream \in Seq(Byte)

Init ==
    /\ pc = "draw"
    /\ result = <<>>
    /\ remainingLength = Length
    /\ randoms = <<>>
    /\ next = 1
    /\ stream = <<>>

\* One turn of the while loop draws a whole batch before it uses any byte.
Draw ==
    /\ pc = "draw"
    /\ remainingLength > 0
    /\ Len(stream) < MaxBatches * BatchSize
    /\ \E batch \in [1 .. BatchSize -> Byte] :
           /\ randoms' = batch
           /\ stream' = stream \o batch
    /\ next' = 1
    /\ pc' = "append"
    /\ UNCHANGED <<result, remainingLength>>

\* SecRandomCopyBytes reports an error: fatalError.
DrawFails ==
    /\ pc = "draw"
    /\ remainingLength > 0
    /\ pc' = "crashed"
    /\ UNCHANGED <<result, remainingLength, randoms, next, stream>>

\* Mutants of Accepts: no test of the charset bound, no test of the remaining
\* length, a bound off by one.
AcceptsAnyByte(r) == remainingLength # 0
AcceptsAfterEnd(r) == r < CharsetCount
AcceptsOneLess(r) == remainingLength # 0 /\ r < CharsetCount - 1

\* Whether the body of the forEach appends the byte r.
Accepts(r) == remainingLength # 0 /\ r < CharsetCount

\* The body of randoms.forEach for one byte.
AppendByte ==
    /\ pc = "append"
    /\ next <= BatchSize
    /\ IF Accepts(randoms[next])
       THEN /\ result' = Append(result, randoms[next])
            /\ remainingLength' = remainingLength - 1
       ELSE UNCHANGED <<result, remainingLength>>
    /\ next' = next + 1
    /\ UNCHANGED <<pc, randoms, stream>>

\* The forEach is over; the loop tests its condition again.
EndBatch ==
    /\ pc = "append"
    /\ next > BatchSize
    /\ pc' = IF remainingLength > 0 THEN "draw" ELSE "done"
    /\ UNCHANGED <<result, remainingLength, randoms, next, stream>>

Next == Draw \/ DrawFails \/ AppendByte \/ EndBatch

Spec == Init /\ [][Next]_vars

-----------------------------------------------------------------------------

\* The nonce has the requested length when the function returns, and at every
\* point the loop counter is what is still missing (AuthService.swift 77-98,
\* AuthViewModel.swift 129-152).
LengthAccounting ==
    /\ Len(result) + remainingLength = Length
    /\ pc = "done" => Len(result) = Length

Prefix(s, n) == SubSeq(s, 1, IF n < Len(s) THEN n ELSE Len(s))

\* The bytes scanned so far: the batches before the current one and the
\* part of the current one that the forEach is past.
Scanned ==
    Prefix(stream, Len(stream) - Len(randoms) + next - 1)

\* The bytes of s that are valid charset indices, in their order.
ValidIndices(s) ==
    LET upTo[n \in 0 .. Len(s)] ==
            IF n = 0 THEN <<>>
            ELSE IF s[n] < CharsetCount THEN Append(upTo[n - 1], s[n])
            ELSE upTo[n - 1]
    IN  upTo[Len(s)]

\* Rejection sampling: the nonce is exactly the first Length bytes of the
\* random stream that are valid charset indices, in stream order; none is
\* skipped, repeated, reordered or folded into range, so every character is
\* as likely as any other.
ResultIsAcceptedPrefix ==
    result = Prefix(ValidIndices(Scanned), Length)

=============================================================================
