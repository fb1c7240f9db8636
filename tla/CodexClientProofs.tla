-------------------------- MODULE CodexClientProofs --------------------------
(***************************************************************************)
(* Proofs about CodexClient, for every set of processes.                   *)
(***************************************************************************)
EXTENDS CodexClient, TLAPS

\* Type correctness.
LEMMA InitType == Init => TypeOK
  BY DEF Init, TypeOK, Asking, Standing, Outcome

\* The processes after a kill are as well typed as before.
LEMMA KilledType == ASSUME TypeOK, NEW k \in Process \cup {NoProcess}
                    PROVE  Killed(k) \in [Process -> Standing]
  BY DEF TypeOK, Killed, Standing

LEMMA LeaveType ==
  ASSUME TypeOK, NEW out \in Outcome, NEW tr \in Process \cup {NoProcess},
         NEW ps \in [Process -> Standing], Leave(out, tr, ps)
  PROVE  TypeOK'
  BY DEF TypeOK, Leave, Asking, Standing, Outcome

LEMMA ConnectType ==
  ASSUME TypeOK, NEW ps \in [Process -> Standing], Connect(ps), known' \in BOOLEAN
  PROVE  TypeOK'
  BY DEF TypeOK, Connect, Request, Asking, Standing, Outcome

LEMMA GoOnType ==
  ASSUME TypeOK, NEW tr \in Process \cup {NoProcess}, NEW ps \in [Process -> Standing],
         NEW login \in BOOLEAN, GoOn(tr, ps, login)
  PROVE  TypeOK'
<1> USE DEF Outcome
<1>1. CASE Leave("process_exited", tr, ps)  BY <1>1, LeaveType
<1>2. CASE Leave("login", tr, ps)           BY <1>2, LeaveType
<1>3. CASE Leave("not_installed", tr, ps)   BY <1>3, LeaveType
<1>4. CASE Leave("quota", tr, ps)           BY <1>4, LeaveType
<1>5. CASE known' = TRUE /\ Connect(ps)     BY <1>5, ConnectType
<1>6. CASE /\ tr # NoProcess
           /\ \E what \in Asking : Request(what, tr)
           /\ ready' = TRUE /\ process' = ps /\ known' = known
  BY <1>6 DEF TypeOK, Request, Asking
<1>7. CASE /\ tr # NoProcess
           /\ Request("limits", tr)
           /\ known' = TRUE /\ UNCHANGED <<ready, process>>
  BY <1>7 DEF TypeOK, Request, Asking
<1> QED  BY <1>1, <1>2, <1>3, <1>4, <1>5, <1>6, <1>7 DEF GoOn, Asking

LEMMA NextType == TypeOK /\ [Next]_vars => TypeOK'
<1> SUFFICES ASSUME TypeOK, [Next]_vars PROVE TypeOK'  OBVIOUS
<1> DEFINE Fresh == [k \in Process |-> "unused"]
<1>0. Fresh \in [Process -> Standing] /\ process \in [Process -> Standing]
      /\ transport \in Process \cup {NoProcess} /\ closing \in Process \cup {NoProcess}
  BY DEF TypeOK, Standing
<1>k. Killed(transport) \in [Process -> Standing]  BY <1>0, KilledType
<1>f. ASSUME NEW reason \in Outcome, FailConnection(reason) PROVE TypeOK'
  BY <1>f, <1>k, LeaveType DEF FailConnection
<1>1. CASE Begin       BY <1>0, <1>1, ConnectType DEF Begin
<1>2. CASE StartFails  BY <1>0, <1>2, LeaveType DEF StartFails, Outcome
<1>3. ASSUME NEW login \in BOOLEAN, NEW garbage \in BOOLEAN, Answer(login, garbage)
      PROVE  TypeOK'
  BY <1>0, <1>k, <1>3, GoOnType DEF Answer
<1>4. ASSUME NEW reason \in {"rpc_error", "malformed_response"}, NEW garbage \in BOOLEAN,
             Refusal(reason, garbage)
      PROVE  TypeOK'
  BY <1>0, <1>f, <1>4, LeaveType DEF Refusal, Outcome
<1>5. ASSUME NEW k \in Process, Garbage(k) PROVE TypeOK'
  BY <1>f, <1>5 DEF Garbage, Outcome
<1>6. ASSUME NEW k \in Process, ErrorEvent(k) PROVE TypeOK'
  BY <1>f, <1>6 DEF ErrorEvent, Outcome
<1>7. ASSUME NEW k \in Process, Exit(k) PROVE TypeOK'
  <2>1. [process EXCEPT ![k] = "gone"] \in [Process -> Standing]
    BY <1>0 DEF Standing
  <2>2. CASE ExitReported(k)  BY <2>1, <2>2, LeaveType DEF ExitReported, Outcome
  <2>3. CASE step \notin Asking  BY <1>7, <2>1, <2>3 DEF Exit, TypeOK
  <2> QED  BY <1>7, <2>2, <2>3 DEF Exit
<1>8. CASE RequestTimeout  BY <1>f, <1>8 DEF RequestTimeout, Outcome
<1>9. CASE ShutdownTimeout
  BY <1>0, <1>9, KilledType DEF ShutdownTimeout, TypeOK
<1>10. CASE UNCHANGED vars  BY <1>10 DEF vars, TypeOK
<1> QED  BY <1>1, <1>2, <1>3, <1>4, <1>5, <1>6, <1>7, <1>8, <1>9, <1>10 DEF Next, Server

\* Every state of the client is well typed, whatever processes and outputs do.
THEOREM TypeCorrect == Spec => []TypeOK
  BY InitType, NextType, PTL DEF Spec

-----------------------------------------------------------------------------
\* The two invariants are inductive together: while a request waits, the only
\* process in use is the one it waits for, so that killing that one before the
\* client connects again leaves none in use.
ProcessInv == WaitsForItsProcess /\ OneOpenProcess

LEMMA InitInv == Init => ProcessInv
  BY DEF Init, ProcessInv, WaitsForItsProcess, OneOpenProcess, Asking

\* Leaving puts no process to use.
LEMMA LeaveInv ==
  ASSUME TypeOK, NEW out, NEW tr \in Process \cup {NoProcess},
         NEW ps \in [Process -> Standing],
         \A j, k \in Process : ps[j] = "used" /\ ps[k] = "used" => j = k,
         Leave(out, tr, ps)
  PROVE  ProcessInv'
<1>1. WaitsForItsProcess'  BY DEF Leave, WaitsForItsProcess, Asking
<1>2. OneOpenProcess'
  <2>1. \A k \in Process : process'[k] = "used" => ps[k] = "used"
    BY DEF Leave
  <2> QED  BY <2>1 DEF OneOpenProcess
<1> QED  BY <1>1, <1>2 DEF ProcessInv

\* Connecting when no process is in use makes the new one the only one.
LEMMA ConnectInv ==
  ASSUME NEW ps \in [Process -> Standing], \A k \in Process : ps[k] # "used", Connect(ps)
  PROVE  ProcessInv'
<1>1. PICK k \in Process : /\ ps[k] = "unused"
                           /\ process' = [ps EXCEPT ![k] = "used"]
                           /\ Request("initialize", k)
  BY DEF Connect
<1>2. k # NoProcess  BY ConstantsOK
<1> QED
  BY <1>1, <1>2 DEF ProcessInv, WaitsForItsProcess, OneOpenProcess, Request

\* While a request waits, killing its process leaves none in use.
LEMMA KilledAll ==
  ASSUME TypeOK, ProcessInv, step \in Asking
  PROVE  /\ Killed(transport) \in [Process -> Standing]
         /\ \A k \in Process : Killed(transport)[k] # "used"
<1>1. transport \in Process /\ process[transport] = "used"
  BY DEF TypeOK, ProcessInv, WaitsForItsProcess
<1> QED
  BY <1>1, ConstantsOK DEF TypeOK, ProcessInv, OneOpenProcess, Killed, Standing

LEMMA GoOnInv ==
  ASSUME TypeOK, ProcessInv, step \in Asking, NEW login \in BOOLEAN,
         GoOn(transport, process, login) \/ GoOn(NoProcess, Killed(transport), login)
  PROVE  ProcessInv'
<1>0. /\ transport \in Process /\ transport # NoProcess /\ transport = via
      /\ process \in [Process -> Standing] /\ process[transport] = "used"
      /\ \A j, k \in Process : process[j] = "used" /\ process[k] = "used" => j = k
  BY DEF TypeOK, ProcessInv, WaitsForItsProcess, OneOpenProcess
<1>1. CASE GoOn(transport, process, login)
  <2>1. CASE \E out : Leave(out, transport, process)  BY <1>0, <2>1, LeaveInv
  <2>2. CASE /\ \E what \in Asking : Request(what, transport)
             /\ process' = process
    BY <1>0, <2>2 DEF ProcessInv, WaitsForItsProcess, OneOpenProcess, Request
  <2> QED  BY <1>0, <1>1, <2>1, <2>2 DEF GoOn, Asking
<1>2. CASE GoOn(NoProcess, Killed(transport), login)
  <2>1. CASE \E out : Leave(out, NoProcess, Killed(transport))
    BY <2>1, KilledAll, LeaveInv
  <2>2. CASE Connect(Killed(transport))  BY <2>2, KilledAll, ConnectInv
  <2> QED  BY <1>2, <2>1, <2>2 DEF GoOn
<1> QED  BY <1>1, <1>2

LEMMA NextInv == TypeOK /\ ProcessInv /\ [Next]_vars => ProcessInv'
<1> SUFFICES ASSUME TypeOK, ProcessInv, [Next]_vars PROVE ProcessInv'  OBVIOUS
<1> DEFINE Fresh == [k \in Process |-> "unused"]
<1>0. /\ Fresh \in [Process -> Standing] /\ \A k \in Process : Fresh[k] # "used"
      /\ process \in [Process -> Standing] /\ transport \in Process \cup {NoProcess}
      /\ \A j, k \in Process : process[j] = "used" /\ process[k] = "used" => j = k
  BY DEF TypeOK, ProcessInv, OneOpenProcess, Standing
<1>f. ASSUME step \in Asking, NEW reason, FailConnection(reason) PROVE ProcessInv'
  BY <1>f, KilledAll, LeaveInv DEF FailConnection
<1>1. CASE Begin       BY <1>0, <1>1, ConnectInv DEF Begin
<1>2. CASE StartFails  BY <1>0, <1>2, LeaveInv DEF StartFails
<1>3. ASSUME NEW login \in BOOLEAN, NEW garbage \in BOOLEAN, Answer(login, garbage)
      PROVE  ProcessInv'
  BY <1>3, GoOnInv DEF Answer
<1>4. ASSUME NEW reason, NEW garbage \in BOOLEAN, Refusal(reason, garbage)
      PROVE  ProcessInv'
  BY <1>0, <1>f, <1>4, LeaveInv DEF Refusal
<1>5. ASSUME NEW k \in Process, Garbage(k) \/ ErrorEvent(k) PROVE ProcessInv'
  BY <1>f, <1>5 DEF Garbage, ErrorEvent
<1>6. ASSUME NEW k \in Process, Exit(k) PROVE ProcessInv'
  <2> DEFINE Without == [process EXCEPT ![k] = "gone"]
  <2>1. /\ Without \in [Process -> Standing]
        /\ \A i, j \in Process : Without[i] = "used" /\ Without[j] = "used" => i = j
    BY <1>0 DEF Standing
  <2>2. CASE ExitReported(k)  BY <2>1, <2>2, LeaveInv DEF ExitReported
  <2>3. CASE step' = "idle" /\ process' = Without
    BY <2>1, <2>3 DEF ProcessInv, WaitsForItsProcess, OneOpenProcess, Asking
  <2> QED  BY <1>6, <2>2, <2>3 DEF Exit
<1>7. CASE RequestTimeout  BY <1>f, <1>7 DEF RequestTimeout
<1>8. CASE ShutdownTimeout
  <2>1. \A k \in Process : process'[k] = "used" => process[k] = "used"
    BY <1>0, <1>8 DEF ShutdownTimeout, Killed
  <2> QED
    BY <1>0, <1>8, <2>1 DEF ShutdownTimeout, ProcessInv, WaitsForItsProcess, OneOpenProcess, Asking
<1>9. CASE UNCHANGED vars
  BY <1>9 DEF vars, ProcessInv, WaitsForItsProcess, OneOpenProcess
<1> QED  BY <1>1, <1>2, <1>3, <1>4, <1>5, <1>6, <1>7, <1>8, <1>9 DEF Next, Server

\* A request only waits for a process that the client is connected to, and the
\* client never holds two processes that it has not told to end.
THEOREM ProcessesSafe == Spec => []HoldsItsProcess
<1>1. TypeOK /\ TypeOK' /\ ProcessInv /\ [Next]_vars => ProcessInv'  BY NextInv
<1>2. ProcessInv => HoldsItsProcess  BY DEF ProcessInv, HoldsItsProcess
<1> QED  BY <1>1, <1>2, InitInv, TypeCorrect, PTL DEF Spec
=============================================================================
