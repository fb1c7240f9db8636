----------------------- MODULE InstanceProtocolProofs -----------------------
(***************************************************************************)
(* Proofs about InstanceProtocol, for every set of processes.              *)
(***************************************************************************)
EXTENDS InstanceProtocol, TLAPS

Answers == {"none", "ok", "different", "reset"}

\* Type correctness.
LEMMA InitType == Init => TypeOK
<1> SUFFICES ASSUME Init PROVE TypeOK  OBVIOUS
<1>1. backlog \in Seq(Process \cup {Stranger})  BY DEF Init
<1> QED  BY <1>1 DEF Init, TypeOK, Owning, Collecting

\* A free port leaves every variable but the stage well typed.
LEMMA FreedType ==
  ASSUME TypeOK, Freed, owed' \in BOOLEAN,
         stage' \in [Process -> Owning \cup {"off", "blocked", "asking", "accepted", "refused"}]
  PROVE  TypeOK'
<1>1. backlog' \in Seq(Process \cup {Stranger})  BY DEF Freed
<1>2. reply' \in [Process -> Answers]  BY DEF Freed, TypeOK, Answers
<1> QED  BY <1>1, <1>2 DEF Freed, TypeOK, Answers

\* One step of a program keeps the types.
LEMMA ProgramType == ASSUME TypeOK, NEW p \in Process, Program(p) PROVE TypeOK'
<1> USE DEF Owning, Collecting
<1>1. CASE ServerStarts(p)    BY <1>1 DEF ServerStarts, To, TypeOK
<1>2. CASE ServerFails(p)     BY <1>2, FreedType DEF ServerFails, To, TypeOK
<1>3. CASE LoopStarts(p)      BY <1>3 DEF LoopStarts, To, TypeOK
<1>4. CASE Connect(p)
  <2>1. backlog' \in Seq(Process \cup {Stranger})  BY <1>4 DEF Connect, TypeOK
  <2>2. stage' \in [Process -> Owning \cup {"off", "blocked", "asking", "accepted", "refused"}]
    BY <1>4 DEF Connect, To, TypeOK
  <2> QED  BY <1>4, <2>1, <2>2 DEF Connect, TypeOK
<1>5. CASE ReadReply(p)       BY <1>5 DEF ReadReply, To, TypeOK
<1>6. CASE GiveUp(p)          BY <1>6 DEF GiveUp, To, TypeOK
<1>7. CASE Serve(p)
  <2>1. slot' \in BOOLEAN /\ owed' \in BOOLEAN /\ reply' \in [Process -> Answers]
    BY <1>7 DEF Serve, Answered, TypeOK, Answers
  <2>2. worker' \in BOOLEAN /\ serving' = NoOne  BY <1>7 DEF Serve, ServeEnds, Stopped
  <2> QED  BY <1>7, <2>1, <2>2 DEF Serve, TypeOK, Answers
<1>8. CASE TakeRequest(p)     BY <1>8 DEF TakeRequest, TypeOK
<1>9. CASE Quit(p)            BY <1>9 DEF Quit, To, TypeOK
<1>10. CASE CollectionEnds(p) BY <1>10 DEF CollectionEnds, To, TypeOK
<1>11. CASE Release(p)        BY <1>11, FreedType DEF Release, To, TypeOK
<1> QED  BY <1>1, <1>2, <1>3, <1>4, <1>5, <1>6, <1>7, <1>8, <1>9, <1>10, <1>11 DEF Program

LEMMA NextType == TypeOK /\ [Next]_vars => TypeOK'
<1> SUFFICES ASSUME TypeOK, [Next]_vars PROVE TypeOK'  OBVIOUS
<1> USE DEF Owning, Collecting
<1>1. ASSUME NEW p \in Process, Start(p) PROVE TypeOK'
  BY <1>1 DEF Start, To, Asks, TypeOK
<1>2. ASSUME NEW p \in Process, Program(p) PROVE TypeOK'  BY <1>2, ProgramType
<1>3. ASSUME NEW p \in Process, Crash(p) PROVE TypeOK'
  BY <1>3, FreedType DEF Crash, To, TypeOK
<1>4. ASSUME NEW p \in Process, StrangerAnswers(p) PROVE TypeOK'
  BY <1>4 DEF StrangerAnswers, TypeOK
<1>5. CASE Accept
  <2>1. Head(backlog) \in Process \cup {Stranger} /\ Tail(backlog) \in Seq(Process \cup {Stranger})
    BY <1>5 DEF Accept, TypeOK
  <2> QED  BY <1>5, <2>1 DEF Accept, TypeOK
<1>6. CASE ServeStranger
  BY <1>6 DEF ServeStranger, ServeEnds, Stopped, TypeOK
<1>7. CASE WorkerEnds        BY <1>7 DEF WorkerEnds, TypeOK
<1>8. CASE StrangerBinds     BY <1>8 DEF StrangerBinds, TypeOK
<1>9. CASE StrangerLeaves    BY <1>9 DEF StrangerLeaves, TypeOK
<1>10. CASE StrangerConnects
  <2>1. Append(backlog, Stranger) \in Seq(Process \cup {Stranger})  BY DEF TypeOK
  <2> QED  BY <1>10, <2>1 DEF StrangerConnects, TypeOK
<1>11. CASE UNCHANGED vars   BY <1>11 DEF vars, TypeOK
<1> QED
  BY <1>1, <1>2, <1>3, <1>4, <1>5, <1>6, <1>7, <1>8, <1>9, <1>10, <1>11 DEF Next

\* Every state of the protocol is well typed.
THEOREM TypeCorrect == Spec => []TypeOK
  BY InitType, NextType, PTL DEF Spec

-----------------------------------------------------------------------------
(* One owner.  What makes it inductive: a program holds the port from the    *)
(* moment it binds it to its last step, so that nobody else can bind it, and *)
(* only its holder frees it.                                                 *)

HeldByOwner == \A p \in Process : stage[p] \in Owning => port = p

\* A step that leaves the port alone and makes no owner of p.
LEMMA StepHeld ==
  ASSUME TypeOK, HeldByOwner, NEW p \in Process, NEW s, To(p, s), UNCHANGED port,
         s \in Owning => stage[p] \in Owning
  PROVE  HeldByOwner'
  BY DEF TypeOK, HeldByOwner, To

\* The owner p frees the port and is none any more.
LEMMA FreedHeld ==
  ASSUME TypeOK, HeldByOwner, NEW p \in Process, stage[p] \in Owning,
         NEW s, s \notin Owning, To(p, s), Freed
  PROVE  HeldByOwner'
  BY DEF TypeOK, HeldByOwner, To

LEMMA ProgramHeld == ASSUME TypeOK, HeldByOwner, NEW p \in Process, Program(p) PROVE HeldByOwner'
<1> USE DEF Owning, Collecting
<1>1. CASE ServerStarts(p)    BY <1>1, StepHeld DEF ServerStarts
<1>2. CASE ServerFails(p)     BY <1>2, FreedHeld DEF ServerFails
<1>3. CASE LoopStarts(p)      BY <1>3, StepHeld DEF LoopStarts
<1>4. CASE Connect(p)         BY <1>4, StepHeld DEF Connect
<1>5. CASE ReadReply(p)
  <2> DEFINE s == IF reply[p] = "ok" THEN "accepted" ELSE "refused"
  <2>1. s \notin Owning /\ To(p, s) /\ UNCHANGED port  BY <1>5 DEF ReadReply
  <2> HIDE DEF s
  <2> QED  BY <2>1, StepHeld
<1>6. CASE GiveUp(p)          BY <1>6, StepHeld DEF GiveUp
<1>7. CASE Serve(p)           BY <1>7 DEF Serve, HeldByOwner
<1>8. CASE TakeRequest(p)     BY <1>8 DEF TakeRequest, HeldByOwner
<1>9. CASE Quit(p)            BY <1>9, StepHeld DEF Quit
<1>10. CASE CollectionEnds(p) BY <1>10, StepHeld DEF CollectionEnds
<1>11. CASE Release(p)        BY <1>11, FreedHeld DEF Release
<1> QED  BY <1>1, <1>2, <1>3, <1>4, <1>5, <1>6, <1>7, <1>8, <1>9, <1>10, <1>11 DEF Program

LEMMA NextHeld == TypeOK /\ HeldByOwner /\ [Next]_vars => HeldByOwner'
<1> SUFFICES ASSUME TypeOK, HeldByOwner, [Next]_vars PROVE HeldByOwner'  OBVIOUS
<1>0. Stranger \notin Process /\ NoOne \notin Process /\ NoOne # Stranger  BY NamesDiffer
<1>1. ASSUME NEW p \in Process, Start(p) PROVE HeldByOwner'
  BY <1>0, <1>1 DEF Start, To, HeldByOwner, TypeOK, Owning, Collecting
<1>2. ASSUME NEW p \in Process, Program(p) PROVE HeldByOwner'  BY <1>2, ProgramHeld
<1>3. ASSUME NEW p \in Process, Crash(p) PROVE HeldByOwner'
  BY <1>3, FreedHeld DEF Crash, Owning, Collecting
<1>4. ASSUME NEW p \in Process, StrangerAnswers(p) PROVE HeldByOwner'
  BY <1>4 DEF StrangerAnswers, HeldByOwner
<1>5. CASE Accept            BY <1>5 DEF Accept, HeldByOwner
<1>6. CASE ServeStranger     BY <1>6 DEF ServeStranger, HeldByOwner
<1>7. CASE WorkerEnds        BY <1>7 DEF WorkerEnds, HeldByOwner
<1>8. CASE StrangerBinds     BY <1>0, <1>8 DEF StrangerBinds, HeldByOwner
<1>9. CASE StrangerLeaves    BY <1>0, <1>9 DEF StrangerLeaves, HeldByOwner
<1>10. CASE StrangerConnects BY <1>10 DEF StrangerConnects, HeldByOwner
<1>11. CASE UNCHANGED vars   BY <1>11 DEF vars, HeldByOwner
<1> QED
  BY <1>1, <1>2, <1>3, <1>4, <1>5, <1>6, <1>7, <1>8, <1>9, <1>10, <1>11 DEF Next

\* At most one program works on the shared files, and it holds the port while it
\* does, however many start, fail, leave and crash in any order.
THEOREM OwnerSafe == Spec => []OneOwner
<1>1. Init => HeldByOwner  BY DEF Init, HeldByOwner, Owning, Collecting
<1>2. HeldByOwner => OneOwner  BY DEF HeldByOwner, OneOwner, Owning
<1> QED  BY <1>1, <1>2, NextHeld, TypeCorrect, PTL DEF Spec

-----------------------------------------------------------------------------
(* What was promised.                                                        *)

\* A promise is kept by a step that changes no program that receives.
LEMMA StepQueued ==
  ASSUME TypeOK, PromiseIsQueued, NEW p \in Process, NEW s, To(p, s), UNCHANGED <<slot, owed>>,
         stage[p] \in {"starting", "running"} => s \in {"starting", "running"}
  PROVE  PromiseIsQueued'
<1> SUFFICES ASSUME owed PROVE slot /\ Listening'  BY DEF PromiseIsQueued
<1>1. PICK q \in Process : stage[q] \in {"starting", "running"}
  BY DEF PromiseIsQueued, Listening
<1>2. stage'[q] \in {"starting", "running"}  BY <1>1 DEF To, TypeOK
<1> QED  BY <1>2 DEF PromiseIsQueued, Listening

LEMMA ProgramQueued ==
  ASSUME TypeOK, HeldByOwner, PromiseIsQueued, NEW p \in Process, Program(p)
  PROVE  PromiseIsQueued'
<1>1. CASE ServerStarts(p)
  <2>1. ~Listening  BY <1>1 DEF ServerStarts, Listening, HeldByOwner, Owning, Collecting
  <2> QED  BY <1>1, <2>1 DEF ServerStarts, PromiseIsQueued
<1>2. CASE ServerFails(p)
  <2>1. ~Listening  BY <1>2 DEF ServerFails, Listening, HeldByOwner, Owning, Collecting
  <2> QED  BY <1>2, <2>1 DEF ServerFails, PromiseIsQueued
<1>3. CASE LoopStarts(p)      BY <1>3, StepQueued DEF LoopStarts
<1>4. CASE Connect(p)         BY <1>4, StepQueued DEF Connect
<1>5. CASE ReadReply(p)       BY <1>5, StepQueued DEF ReadReply
<1>6. CASE GiveUp(p)          BY <1>6, StepQueued DEF GiveUp
<1>7. CASE Serve(p)
  BY <1>7 DEF Serve, Answered, PromiseIsQueued, Listening
<1>8. CASE TakeRequest(p)     BY <1>8 DEF TakeRequest, PromiseIsQueued
<1>9. CASE Quit(p)            BY <1>9 DEF Quit, PromiseIsQueued
<1>10. CASE CollectionEnds(p) BY <1>10, StepQueued DEF CollectionEnds
<1>11. CASE Release(p)
  <2>1. ~Listening  BY <1>11 DEF Release, Listening, HeldByOwner, Owning, Collecting
  <2> QED  BY <1>11, <2>1 DEF Release, PromiseIsQueued
<1> QED  BY <1>1, <1>2, <1>3, <1>4, <1>5, <1>6, <1>7, <1>8, <1>9, <1>10, <1>11 DEF Program

LEMMA NextQueued ==
  TypeOK /\ HeldByOwner /\ PromiseIsQueued /\ [Next]_vars => PromiseIsQueued'
<1> SUFFICES ASSUME TypeOK, HeldByOwner, PromiseIsQueued, [Next]_vars PROVE PromiseIsQueued'
  OBVIOUS
<1>1. ASSUME NEW p \in Process, Start(p) PROVE PromiseIsQueued'
  BY <1>1, StepQueued DEF Start
<1>2. ASSUME NEW p \in Process, Program(p) PROVE PromiseIsQueued'  BY <1>2, ProgramQueued
<1>3. ASSUME NEW p \in Process, Crash(p) PROVE PromiseIsQueued'
  BY <1>3 DEF Crash, PromiseIsQueued
<1>4. ASSUME \/ \E p \in Process : StrangerAnswers(p)
             \/ Accept \/ ServeStranger \/ WorkerEnds
             \/ StrangerBinds \/ StrangerLeaves \/ StrangerConnects \/ UNCHANGED vars
      PROVE  PromiseIsQueued'
  BY <1>4 DEF StrangerAnswers, Accept, ServeStranger, WorkerEnds, StrangerBinds,
              StrangerLeaves, StrangerConnects, vars, PromiseIsQueued, Listening
<1> QED  BY <1>1, <1>2, <1>3, <1>4 DEF Next

\* What a second start was told will be done is in the channel of an event loop
\* that still receives; the channel of an earlier owner is never asked.
THEOREM PromisesSafe == Spec => []PromiseIsQueued
<1>1. Init => HeldByOwner /\ PromiseIsQueued
  BY DEF Init, HeldByOwner, Owning, Collecting, PromiseIsQueued
<1> QED  BY <1>1, NextHeld, NextQueued, TypeCorrect, PTL DEF Spec
=============================================================================
