------------------------------- MODULE Sifting -------------------------------
(***************************************************************************)
(* Iterator::find and Iterator::filter of the Rust library, of which the   *)
(* places that pass the test are known as a set.                           *)
(***************************************************************************)
EXTENDS Naturals, Sequences, FiniteSetsExt

\* The first of some places, or 0.
FirstOf(places) == IF places = {} THEN 0 ELSE Min(places)

\* What is at some places of a sequence, in its order.
Sift(s, places) ==
    LET upTo[i \in 0..Len(s)] ==
            IF i = 0 THEN <<>>
            ELSE IF i \in places THEN Append(upTo[i - 1], s[i]) ELSE upTo[i - 1]
    IN  upTo[Len(s)]
=============================================================================
