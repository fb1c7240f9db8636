----------------------------- MODULE CodexClient -----------------------------
(***************************************************************************)
(* One collection of the Codex quota by the Node program                   *)
(* (src/apps/node/src/providers/codex): the provider reads the account and *)
(* then the rate limits through a client, which talks JSON-RPC with an app *)
(* server over the pipes of a child process and starts another one when    *)
(* the connection has failed.                                              *)
(*                                                                         *)
(* Each action is one macrotask (a chunk of output, an error, an exit, a   *)
(* timer) with the promise reactions it settles: the provider has sent its *)
(* next request, or the close of the connection, before the next event.    *)
(* Requests have numbers that a client never uses twice, so an answer can  *)
(* only be one to the request that waits.                                  *)
(***************************************************************************)
CONSTANTS
    Process,        \* identities of the processes of a collection
    NoProcess       \* none of them

ASSUME ConstantsOK == NoProcess \notin Process

\* What the provider waits for: an answer to one of three requests, the end of
\* a close; or it has no collection under way.
Asking == {"initialize", "account", "limits"}

\* The outcome of a collection.
Outcome == {"none", "quota", "login", "not_installed", "timeout", "process_exited",
            "malformed_response", "rpc_error"}

\* How a process stands to the client: unused, used, told to end by closing its
\* input, killed, and gone once its exit has been reported.
Standing == {"unused", "used", "closed", "killed", "gone"}

VARIABLES
    step,           \* what the provider waits for
    known,          \* the account was read
    transport,      \* the process the client is connected to
    ready,          \* the client may send requests without connecting again
    via,            \* the process the pending request was written to
    closing,        \* the process whose exit close() waits for
    process,        \* process[k]: how process k stands to the client
    outcome         \* the outcome of the last collection

vars == <<step, known, transport, ready, via, closing, process, outcome>>

-----------------------------------------------------------------------------
Init ==
    /\ step = "idle"
    /\ known = FALSE
    /\ transport = NoProcess
    /\ ready = FALSE
    /\ via = NoProcess
    /\ closing = NoProcess
    /\ process = [k \in Process |-> "unused"]
    /\ outcome = "none"

\* A request is written to process k, and waits with a timer.
Request(what, k) ==
    /\ step' = what
    /\ via' = k
    /\ transport' = k
    /\ closing' = NoProcess
    /\ outcome' = "none"

\* The collection ends with outcome out, its client being connected to tr: the
\* provider closes the client, and is done or waits for the exit of tr.
Leave(out, tr, ps) ==
    /\ outcome' = out
    /\ step' = IF tr = NoProcess THEN "idle" ELSE "close"
    /\ closing' = tr
    /\ process' = IF tr = NoProcess THEN ps ELSE [ps EXCEPT ![tr] = "closed"]
    /\ transport' = NoProcess
    /\ via' = NoProcess
    /\ ready' = FALSE
    /\ known' = FALSE

\* The client connects: a process is started and asked to initialize.
Connect(ps) ==
    \E k \in Process :
      /\ ps[k] = "unused"
      /\ process' = [ps EXCEPT ![k] = "used"]
      /\ ready' = FALSE
      /\ Request("initialize", k)

\* The processes after k, if any, was killed.
Killed(k) == IF k = NoProcess THEN process ELSE [process EXCEPT ![k] = "killed"]

-----------------------------------------------------------------------------
\* A collection begins, with a client of its own; processes an earlier client
\* has left are none of its business.
Begin ==
    /\ step = "idle"
    /\ known' = FALSE
    /\ Connect([k \in Process |-> "unused"])

\* The process could not be started.
StartFails ==
    /\ step = "idle"
    /\ Leave("not_installed", NoProcess, [k \in Process |-> "unused"])

\* The provider goes on with the answer to its request, its client being
\* connected to tr with the processes ps.
GoOn(tr, ps, login) ==
    \/ /\ step = "initialize"
       /\ IF tr = NoProcess
          THEN Leave("process_exited", tr, ps)
          ELSE /\ Request(IF known THEN "limits" ELSE "account", tr)
               /\ ready' = TRUE
               /\ process' = ps
               /\ known' = known
    \/ /\ step = "account"
       /\ \/ login /\ Leave("login", tr, ps)
          \/ /\ ~login /\ tr # NoProcess
             /\ Request("limits", tr)
             /\ known' = TRUE
             /\ UNCHANGED <<ready, process>>
          \/ /\ ~login /\ tr = NoProcess
             /\ known' = TRUE
             /\ Connect(ps)
          \/ /\ ~login /\ tr = NoProcess
             /\ Leave("not_installed", tr, ps)
    \/ /\ step = "limits"
       /\ Leave("quota", tr, ps)

\* The connection fails: what is pending is rejected, the process is killed.
FailConnection(reason) == Leave(reason, NoProcess, Killed(transport))

\* The answer arrives alone, or in one chunk with a line that cannot be parsed:
\* the connection fails before the provider goes on with the answer.
Answer(login, garbage) ==
    /\ step \in Asking
    /\ process[via] # "gone"
    /\ IF garbage
       THEN GoOn(NoProcess, Killed(transport), login)
       ELSE GoOn(transport, process, login)

\* The answer is an error, or does not have the expected form; followed by
\* garbage, the connection fails before the provider can close it.
Refusal(reason, garbage) ==
    /\ step \in Asking
    /\ process[via] # "gone"
    /\ IF garbage
       THEN FailConnection(reason)
       ELSE Leave(reason, transport, process)

\* Output of any process of this client that cannot be parsed, or exceeds the
\* limit, fails the connection.
Garbage(k) ==
    /\ step \in Asking
    /\ process[k] # "unused"
    /\ FailConnection("malformed_response")

\* An error event of a process or its pipes; "missing" is the first sign of a
\* command that is not installed.
ErrorEvent(k) ==
    /\ step \in Asking
    /\ process[k] \notin {"unused", "gone"}
    /\ FailConnection("not_installed")

\* A request has waited for ten seconds.
RequestTimeout ==
    /\ step \in Asking
    /\ FailConnection("timeout")

\* Mutant: the exit is not reported to the pending request.
ExitReportedSilently(k) ==
    /\ transport' = NoProcess
    /\ ready' = FALSE
    /\ process' = [process EXCEPT ![k] = "gone"]
    /\ UNCHANGED <<step, known, via, closing, outcome>>

\* The exit of a process disconnects the client and rejects what is pending.
ExitReported(k) == Leave("process_exited", NoProcess, [process EXCEPT ![k] = "gone"])

\* A process of this client exits; everyone who waits for an exit is told.
Exit(k) ==
    /\ process[k] \notin {"unused", "gone"}
    /\ IF step \in Asking
       THEN ExitReported(k)
       ELSE /\ step' = "idle"
            /\ closing' = NoProcess
            /\ process' = [process EXCEPT ![k] = "gone"]
            /\ UNCHANGED <<known, transport, ready, via, outcome>>

\* Mutant: a process that does not exit is waited for.
ShutdownNever == FALSE

ShutdownDue == step = "close"

\* The process has not exited within a second after its input was closed.
ShutdownTimeout ==
    /\ ShutdownDue
    /\ process' = Killed(closing)
    /\ step' = "idle"
    /\ closing' = NoProcess
    /\ UNCHANGED <<known, transport, ready, via, outcome>>

-----------------------------------------------------------------------------
Server ==
    \/ \E login, garbage \in BOOLEAN : Answer(login, garbage)
    \/ \E reason \in {"rpc_error", "malformed_response"}, garbage \in BOOLEAN :
         Refusal(reason, garbage)
    \/ \E k \in Process : Garbage(k) \/ ErrorEvent(k) \/ Exit(k)

Next == Begin \/ StartFails \/ Server \/ RequestTimeout \/ ShutdownTimeout

Spec == Init /\ [][Next]_vars

\* Only the client's own timers are relied upon.
FairSpec == Spec /\ WF_vars(RequestTimeout) /\ WF_vars(ShutdownTimeout)

-----------------------------------------------------------------------------
(* Properties.                                                             *)

TypeOK ==
    /\ step \in Asking \cup {"idle", "close"}
    /\ known \in BOOLEAN
    /\ transport \in Process \cup {NoProcess}
    /\ ready \in BOOLEAN
    /\ via \in Process \cup {NoProcess}
    /\ closing \in Process \cup {NoProcess}
    /\ process \in [Process -> Standing]
    /\ outcome \in Outcome

\* A request only ever waits for a process that the client is connected to and
\* that was neither told to end nor reported its exit, whatever earlier
\* processes of the client did meanwhile.
WaitsForItsProcess ==
    step \in Asking => via # NoProcess /\ transport = via /\ process[via] = "used"

\* However often the connection fails, a client never holds two processes that
\* it has not told to end.
OneOpenProcess ==
    \A j, k \in Process : process[j] = "used" /\ process[k] = "used" => j = k

\* A client holds one process at a time, the one its request waits for.
HoldsItsProcess == WaitsForItsProcess /\ OneOpenProcess

\* Every collection ends, whatever the processes do or fail to do.
CollectionEnds == (step # "idle") ~> (step = "idle")

\* tests/unit/codexAppServerClient.test.ts:210: a process that does not exit
\* after its input was closed is killed before the close of the client ends.
ShutdownIsForced ==
    [][step # "idle" /\ step' = "idle" =>
         \A k \in Process : process'[k] \in {"unused", "killed", "gone"}]_vars
=============================================================================
