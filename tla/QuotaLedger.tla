----------------------------- MODULE QuotaLedger -----------------------------
(***************************************************************************)
(* What the quota monitor promises its user, whichever of the two          *)
(* implementations runs: successive readings of a provider's quota are     *)
(* numbered 1, 2, ...; a session shows at most one of them per provider    *)
(* and never goes back to an older one; the shared cache holds, for each   *)
(* provider, a reading that has been shown, and is never replaced by an    *)
(* older one unless this session could not read it                         *)
(* (docs/shared-cache-contract.md, "quota-v2.json" and "Saving").          *)
(***************************************************************************)
EXTENDS Naturals

CONSTANT Providers      \* the monitored providers

VARIABLES
    taken,      \* taken[p]: number of readings of p's quota obtained so far
    shown,      \* shown[p]: the reading the open session shows, 0 for none
    saved,      \* saved[p]: the reading in the shared cache, 0 for none
    open,       \* a session is running
    unread      \* the open session could not read the shared cache

vars == <<taken, shown, saved, open, unread>>

Nothing == [p \in Providers |-> 0]

Init ==
    /\ taken = Nothing
    /\ shown = Nothing
    /\ saved = Nothing
    /\ open = FALSE
    /\ unread = FALSE

\* A session starts with nothing on screen.
Begin ==
    /\ ~open
    /\ open' = TRUE
    /\ UNCHANGED <<taken, shown, saved, unread>>

\* A new reading is obtained and shown.
Measure(p) ==
    /\ open
    /\ taken' = [taken EXCEPT ![p] = @ + 1]
    /\ shown' = [shown EXCEPT ![p] = taken[p] + 1]
    /\ UNCHANGED <<saved, open, unread>>

\* The cached readings of the providers S are shown; none of them had one.
Recall(S) ==
    /\ open
    /\ \A p \in S : shown[p] = 0
    /\ shown' = [p \in Providers |-> IF p \in S THEN saved[p] ELSE shown[p]]
    /\ UNCHANGED <<taken, saved, open, unread>>

\* The session finds the cache unreadable.
Forget ==
    /\ open
    /\ unread' = TRUE
    /\ UNCHANGED <<taken, shown, saved, open>>

\* Readings that were shown replace what is saved.
Save ==
    /\ open
    /\ saved' \in [Providers -> Nat]
    /\ \A p \in Providers :
         /\ saved'[p] <= shown[p]
         /\ unread \/ saved[p] <= saved'[p]
    /\ UNCHANGED <<taken, shown, open, unread>>

\* The session ends, in order or by a crash.
End ==
    /\ open
    /\ open' = FALSE
    /\ shown' = Nothing
    /\ unread' = FALSE
    /\ UNCHANGED <<taken, saved>>

Next ==
    \/ Begin
    \/ \E p \in Providers : Measure(p)
    \/ \E S \in SUBSET Providers : Recall(S)
    \/ Forget
    \/ Save
    \/ End

Spec == Init /\ [][Next]_vars
=============================================================================
