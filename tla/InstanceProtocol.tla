--------------------------- MODULE InstanceProtocol ---------------------------
(***************************************************************************)
(* One owner of the shared files at a time (src/apps/rust/src/bin/main.rs, *)
(* shell/instance.rs).  A start takes the port, or asks the program that   *)
(* holds it to show its window and ends.  The owner answers in a thread of *)
(* its own, one connection after the other, and hands requests to its      *)
(* event loop through a channel with one place.  When the loop has ended   *)
(* the owner stops the collection, joins the thread and frees the port.    *)
(*                                                                         *)
(* Another program (the Node variant, an unrelated listener, a client that *)
(* sends nothing) is a Stranger: it may hold the port or connect to it.    *)
(***************************************************************************)
EXTENDS Sequences, FiniteSets

CONSTANTS
    Process,        \* starts of the program, each used again and again
    Stranger,       \* any other program
    NoOne           \* neither

ASSUME NamesDiffer == Stranger \notin Process /\ NoOne \notin Process \cup {Stranger}

VARIABLES
    stage,          \* stage[p]: how far main() of p has come
    wants,          \* wants[p]: "show", or "hidden" for --start-hidden
    port,           \* who holds the port
    backlog,        \* connections the owner has not accepted yet
    serving,        \* the connection its thread answers
    worker,         \* its thread runs
    slot,           \* the channel to its event loop holds a request
    reply,          \* reply[p]: what p can read from its connection
    owed            \* history: an accepted request to show is not yet carried out

vars == <<stage, wants, port, backlog, serving, worker, slot, reply, owed>>

\* p holds the port and may touch the shared files.
Collecting == {"starting", "running", "leaving"}
Owning == {"bound", "closing"} \cup Collecting

\* The receiver of the channel exists.
Listening == \E p \in Process : stage[p] \in {"starting", "running"}

\* InstanceServer is being dropped and has set its flag.
Stopped == \E p \in Process : stage[p] = "closing"

TypeOK ==
    /\ stage \in [Process -> Owning \cup {"off", "blocked", "asking", "accepted",
                                          "refused"}]
    /\ wants \in [Process -> {"show", "hidden"}]
    /\ port \in Process \cup {Stranger, NoOne}
    /\ backlog \in Seq(Process \cup {Stranger})
    /\ serving \in Process \cup {Stranger, NoOne}
    /\ worker \in BOOLEAN /\ slot \in BOOLEAN /\ owed \in BOOLEAN
    /\ reply \in [Process -> {"none", "ok", "different", "reset"}]

Init ==
    /\ stage = [p \in Process |-> "off"]
    /\ wants = [p \in Process |-> "show"]
    /\ port = NoOne
    /\ backlog = <<>>
    /\ serving = NoOne
    /\ worker = FALSE
    /\ slot = FALSE
    /\ reply = [p \in Process |-> "none"]
    /\ owed = FALSE

To(p, s) == stage' = [stage EXCEPT ![p] = s]
Asks(p, w) == wants' = [wants EXCEPT ![p] = w]

-----------------------------------------------------------------------------
(* The start.                                                                *)

\* main: acquire_lock binds the port, or fails.
Start(p) ==
    /\ stage[p] \in {"off", "accepted", "refused"}
    /\ p \notin {backlog[i] : i \in DOMAIN backlog} \cup {serving}
    /\ reply' = [reply EXCEPT ![p] = "none"]
    /\ \/ port = NoOne /\ port' = p /\ To(p, "bound") /\ Asks(p, "show")
       \/ port # NoOne /\ To(p, "blocked") /\ UNCHANGED port
          /\ \E w \in {"show", "hidden"} : Asks(p, w)
       \/ To(p, "refused") /\ UNCHANGED port /\ Asks(p, "show")  \* it cannot be bound at all
    /\ UNCHANGED <<backlog, serving, worker, slot, owed>>

\* InstanceServer::start: a new thread and an empty channel; or an error, which
\* ends the start and drops the lock.
ServerStarts(p) ==
    /\ stage[p] = "bound"
    /\ worker' = TRUE
    /\ slot' = FALSE
    /\ To(p, "starting")
    /\ UNCHANGED <<wants, port, backlog, serving, reply, owed>>

\* The port is free again: what waits in its backlog is reset.
Freed ==
    /\ port' = NoOne
    /\ backlog' = <<>>
    /\ serving' = NoOne
    /\ worker' = FALSE
    /\ slot' = FALSE
    /\ reply' = [p \in Process |-> IF p \in {backlog[i] : i \in DOMAIN backlog} \cup {serving}
                                   THEN "reset" ELSE reply[p]]
    /\ UNCHANGED wants

ServerFails(p) == stage[p] = "bound" /\ To(p, "refused") /\ Freed /\ UNCHANGED owed

\* The first pass of the event loop, or a tray, host window or popover that
\* cannot be made, which quits.
LoopStarts(p) ==
    /\ stage[p] = "starting"
    /\ To(p, "running")
    /\ UNCHANGED <<wants, port, backlog, serving, worker, slot, reply, owed>>

-----------------------------------------------------------------------------
(* The second start: request_existing.                                       *)

\* The connection is made, and the line written, if someone still listens.
Connect(p) ==
    /\ stage[p] = "blocked"
    /\ \/ /\ port = NoOne
          /\ To(p, "refused")
          /\ UNCHANGED backlog
       \/ /\ port = Stranger
          /\ To(p, "asking")
          /\ UNCHANGED backlog
       \/ /\ port \in Process
          /\ To(p, "asking")
          /\ backlog' = Append(backlog, p)
    /\ UNCHANGED <<wants, port, serving, worker, slot, reply, owed>>

\* The answer arrives in time: only an "ok" lets the start end without a message.
ReadReply(p) ==
    /\ stage[p] = "asking"
    /\ reply[p] # "none"
    /\ To(p, IF reply[p] = "ok" THEN "accepted" ELSE "refused")
    /\ UNCHANGED <<wants, port, backlog, serving, worker, slot, reply, owed>>

\* The deadline passes first; what was written stays readable for the owner.
GiveUp(p) ==
    /\ stage[p] = "asking"
    /\ To(p, "refused")
    /\ UNCHANGED <<wants, port, backlog, serving, worker, slot, reply, owed>>

-----------------------------------------------------------------------------
(* The thread of InstanceServer.                                             *)

\* accept(); the flag was looked at before.
Accept ==
    /\ worker
    /\ serving = NoOne
    /\ backlog # <<>>
    /\ serving' = Head(backlog)
    /\ backlog' = Tail(backlog)
    /\ UNCHANGED <<stage, wants, port, worker, slot, reply, owed>>

\* Mutant: a request to show is confirmed although the event loop is gone.
AnsweredAlways(p) ==
    /\ slot' = (slot \/ wants[p] = "show")
    /\ owed' = (owed \/ wants[p] = "show")
    /\ reply' = [reply EXCEPT ![p] = "ok"]

\* The answer to p: a request to show goes to the channel (a full one already
\* holds one), and is not answered when nobody receives from it any more.
Answered(p) ==
    IF wants[p] = "show" /\ ~Listening
    THEN /\ reply' = [reply EXCEPT ![p] = "reset"]
         /\ UNCHANGED <<slot, owed>>
    ELSE /\ slot' = (slot \/ wants[p] = "show")
         /\ owed' = (owed \/ wants[p] = "show")
         /\ reply' = [reply EXCEPT ![p] = "ok"]

\* The connection is done with, and the flag is looked at again.
ServeEnds == serving' = NoOne /\ worker' = ~Stopped

Serve(p) ==
    /\ worker
    /\ serving = p
    /\ Answered(p)
    /\ ServeEnds
    /\ UNCHANGED <<stage, wants, port, backlog>>

\* Mutant: a client that sends nothing is waited for without a deadline.
StrangerHolds == FALSE /\ UNCHANGED vars

\* A stranger's line is answered with "different" or dropped; its silence ends
\* with the deadline of read_line.
ServeStranger ==
    /\ worker
    /\ serving = Stranger
    /\ ServeEnds
    /\ UNCHANGED <<stage, wants, port, backlog, slot, reply, owed>>

\* The flag is seen between two accepts, or accept() fails for good.
WorkerEnds ==
    /\ worker
    /\ serving = NoOne
    /\ worker' = FALSE
    /\ UNCHANGED <<stage, wants, port, backlog, serving, slot, reply, owed>>

-----------------------------------------------------------------------------
(* The owner's event loop and its end.                                       *)

\* try_recv at the head of a pass, and open_popover.
TakeRequest(p) ==
    /\ stage[p] = "running"
    /\ slot
    /\ slot' = FALSE
    /\ owed' = FALSE
    /\ UNCHANGED <<stage, wants, port, backlog, serving, worker, reply>>

\* Mutant: the lock is gone before the collection has ended.
QuitAndUnlock(p) ==
    stage[p] \in {"starting", "running"} /\ To(p, "leaving") /\ Freed /\ owed' = FALSE

\* The loop returns (Quit, --quit-after) or was never reached (no tray); its
\* receiver is dropped with what is in the channel.
Quit(p) ==
    /\ stage[p] \in {"starting", "running"}
    /\ To(p, "leaving")
    /\ slot' = FALSE
    /\ owed' = FALSE
    /\ UNCHANGED <<wants, port, backlog, serving, worker, reply>>

\* Stop has been sent and the task of the monitor has ended, with its last save;
\* the server is dropped next.
CollectionEnds(p) ==
    /\ stage[p] = "leaving"
    /\ To(p, "closing")
    /\ UNCHANGED <<wants, port, backlog, serving, worker, slot, reply, owed>>

\* The thread is joined and the lock dropped.
Release(p) ==
    stage[p] = "closing" /\ ~worker /\ To(p, "off") /\ Freed /\ UNCHANGED owed

Crash(p) == stage[p] \in Owning /\ To(p, "off") /\ Freed /\ owed' = FALSE

-----------------------------------------------------------------------------
(* Other programs.                                                           *)

StrangerBinds ==
    /\ port = NoOne
    /\ port' = Stranger
    /\ UNCHANGED <<stage, wants, backlog, serving, worker, slot, reply, owed>>

StrangerAnswers(p) ==
    /\ port = Stranger
    /\ stage[p] = "asking"
    /\ reply' \in {[reply EXCEPT ![p] = r] : r \in {"different", "reset"}}
    /\ UNCHANGED <<stage, wants, port, backlog, serving, worker, slot, owed>>

StrangerLeaves ==
    /\ port = Stranger
    /\ port' = NoOne
    /\ reply' = [p \in Process |-> IF stage[p] = "asking" THEN "reset" ELSE reply[p]]
    /\ UNCHANGED <<stage, wants, backlog, serving, worker, slot, owed>>

StrangerConnects ==
    /\ port \in Process
    /\ Stranger \notin {backlog[i] : i \in DOMAIN backlog} \cup {serving}
    /\ backlog' = Append(backlog, Stranger)
    /\ UNCHANGED <<stage, wants, port, serving, worker, slot, reply, owed>>

-----------------------------------------------------------------------------
Program(p) ==
    \/ ServerStarts(p) \/ ServerFails(p) \/ LoopStarts(p)
    \/ Connect(p) \/ ReadReply(p) \/ GiveUp(p)
    \/ Serve(p) \/ TakeRequest(p) \/ Quit(p) \/ CollectionEnds(p) \/ Release(p)

Next ==
    \/ \E p \in Process : Start(p) \/ Program(p) \/ Crash(p) \/ StrangerAnswers(p)
    \/ Accept \/ ServeStranger \/ WorkerEnds
    \/ StrangerBinds \/ StrangerLeaves \/ StrangerConnects

Spec == Init /\ [][Next]_vars

\* Threads and the event loop run; the collection ends (EngineMonitor!StopEnds);
\* both ends of a connection have a deadline.  Nobody has to quit or to connect.
FairSpec ==
    /\ Spec
    /\ WF_vars(Accept) /\ WF_vars(ServeStranger) /\ WF_vars(Stopped /\ WorkerEnds)
    /\ \A p \in Process :
         /\ WF_vars(ServerStarts(p) \/ ServerFails(p))
         /\ WF_vars(stage[p] = "starting" /\ (LoopStarts(p) \/ Quit(p)))
         /\ WF_vars(Connect(p)) /\ WF_vars(ReadReply(p) \/ GiveUp(p))
         /\ WF_vars(Serve(p)) /\ WF_vars(TakeRequest(p))
         /\ WF_vars(CollectionEnds(p)) /\ WF_vars(Release(p))

-----------------------------------------------------------------------------
(* At most one program works on the shared files, also while one is leaving: *)
(* the port is kept until the last save, whatever starts, fails or crashes   *)
(* meanwhile, and what works on them holds the port.                         *)
OneOwner ==
    /\ \A p, q \in Process : stage[p] \in Collecting /\ stage[q] \in Collecting => p = q
    /\ \A p \in Process : stage[p] \in Collecting => port = p

\* A promise to show is a request in the channel of a loop that still receives.
PromiseIsQueued == owed => slot /\ Listening

(* A request to show that was answered with "ok" is carried out, or dropped   *)
(* by a loop that ends after the answer: a full channel and a loop that is   *)
(* not ready yet lose nothing, and a loop that is gone promises nothing.     *)
AcceptedShowIsServed == owed ~> ~owed

(* A program that has left its event loop frees the port, although a client  *)
(* may be connected that sends nothing; and every second start ends, with or *)
(* without an answer.                                                        *)
StartsAndExitsEnd ==
    \A p \in Process :
      /\ stage[p] = "leaving" ~> port # p
      /\ stage[p] \in {"blocked", "asking"} ~> stage[p] \in {"accepted", "refused"}
=============================================================================
