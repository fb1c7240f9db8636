----------------------------- MODULE ClaudeProbe -----------------------------
(***************************************************************************)
(* One quota read of the Claude provider (src/apps/rust/src/providers/     *)
(* claude.rs): open a hidden terminal, start the CLI in it, wait until its *)
(* prompt is quiet, type /usage, wait until the panel is complete and      *)
(* quiet, leave with ESC and /exit, stop what is left and join the thread  *)
(* that reads the screen.  The probe's thread, the reader's thread, the    *)
(* CLI and the clock interleave.  Windows and Unix differ in how the       *)
(* terminal opens, when its output ends and what a clean exit is.          *)
(*                                                                         *)
(* The screen is a sequence of chunks; what the code looks for in its text *)
(* is the kind of a chunk: the prompt under the banner, a window of the    *)
(* panel, the word "refreshing", or a phrase of screen_failure.  A child   *)
(* of the CLI that keeps the terminal open after it is not modelled.       *)
(***************************************************************************)
EXTENDS Naturals, Sequences, SequencesExt

CONSTANTS
    Phrases,        \* failures whose phrases the CLI may print
    MaxPrints,      \* bound: chunks the CLI prints
    MaxCapture      \* chunks the capture keeps (512 KiB in the code)

Reasons == <<"not_authenticated", "blocked_prompt", "rate_limited", "network",
             "unsupported_output">>

ASSUME PhrasesAreReasons == Phrases \subseteq ToSet(Reasons)
ASSUME CaptureNotEmpty == MaxCapture \in Nat \ {0}

VARIABLES
    unix,           \* the platform the program was built for
    stage,          \* how far the probe's thread has come
    handles,        \* operating system objects it owns
    sent,           \* sent_usage
    asked,          \* history: the newest chunk on the screen for which the
                    \* question was typed, 0 before
    idle,           \* since idle_since: 0, 1 (RESPONSE_IDLE) or 2 (STARTUP_IDLE)
    late,           \* PROBE_TIMEOUT has passed
    changed,        \* the capture's revision is not the one the loop knows
    seen,           \* the screen the loop decides on
    result,         \* status of the probe
    done,           \* tells the reader to end
    reader,         \* "none", "reading" or "ended"
    raw,            \* ScreenCapture::raw
    closed,         \* ScreenCapture::closed
    cli,            \* "none", "running", "ok", "failed" or "killed"
    pipe,           \* a printed chunk nobody has read
    prints,         \* chunks printed so far
    answer          \* error code of the snapshot, or "fresh"

probe == <<sent, asked, idle, late, changed, seen>>
screen == <<done, reader, raw, closed>>
child == <<cli, pipe, prints>>
vars == <<unix, stage, handles, result, answer, probe, screen, child>>

Kinds == {"prompt", "session", "week", "refreshing"} \cup Phrases

\* The chunks are numbered in the order in which the CLI prints them; the code
\* does not see the numbers.
Chunk == [kind : Kinds, n : Nat]

Stages == {"resolve", "pipes", "console", "attributes", "create", "pty", "loop",
           "decide", "clear", "send", "escape", "exit", "leaving", "stop",
           "close", "join", "answer", "account", "returned"}

TypeOK ==
    /\ unix \in BOOLEAN /\ sent \in BOOLEAN /\ late \in BOOLEAN
    /\ changed \in BOOLEAN /\ done \in BOOLEAN /\ closed \in BOOLEAN
    /\ stage \in Stages
    /\ idle \in 0..2
    /\ seen \in Seq(Chunk) /\ raw \in Seq(Chunk) /\ pipe \in Seq(Chunk)
    /\ reader \in {"none", "reading", "ended"}
    /\ cli \in {"none", "running", "ok", "failed", "killed"}
    /\ prints \in 0..MaxPrints /\ asked \in 0..MaxPrints

Init ==
    /\ unix \in BOOLEAN
    /\ stage = "resolve"
    /\ handles = {}
    /\ sent = FALSE /\ asked = 0 /\ idle = 0 /\ late = FALSE /\ changed = FALSE
    /\ seen = <<>> /\ raw = <<>> /\ pipe = <<>>
    /\ result = "timeout"
    /\ done = FALSE /\ closed = FALSE
    /\ reader = "none" /\ cli = "none" /\ prints = 0
    /\ answer = "none"

Goto(from, to) == stage = from /\ stage' = to

\* The probe ends early with this status.
Fail(from, status) == Goto(from, "answer") /\ result' = status

(* -- opening the terminal ------------------------------------------------ *)

\* The program file must exist on Unix; the working directory is created.
Resolve ==
    /\ \/ unix /\ Fail("resolve", "not_installed")
       \/ Fail("resolve", "process_failed")
       \/ Goto("resolve", IF unix THEN "pty" ELSE "pipes") /\ UNCHANGED result
    /\ UNCHANGED <<unix, handles, answer, probe, screen, child>>

\* Two anonymous pipes; a failure of the second closes the first.
OpenPipes ==
    /\ \/ Fail("pipes", "process_failed") /\ UNCHANGED handles
       \/ /\ Goto("pipes", "console") /\ UNCHANGED result
          /\ handles' = {"in_read", "in_write", "out_read", "out_write"}
    /\ UNCHANGED <<unix, answer, probe, screen, child>>

Closes(names) == handles' = handles \ names

\* The pseudo console takes the far ends, then a job is made, if it can be.
OpenConsole ==
    /\ \/ /\ Fail("console", "process_failed")
          /\ Closes({"in_read", "in_write", "out_read", "out_write"})
       \/ /\ Goto("console", "attributes") /\ UNCHANGED result
          /\ \E job \in SUBSET {"job"} :
                handles' = {"in_write", "out_read", "console"} \cup job
    /\ UNCHANGED <<unix, answer, probe, screen, child>>

\* Mutant: the job outlives a failure.
MakeAttributesLeaking ==
    /\ \/ /\ Fail("attributes", "process_failed")
          /\ Closes({"in_write", "out_read", "console"})
       \/ /\ Goto("attributes", "create") /\ UNCHANGED result
          /\ handles' = handles \cup {"attributes"}
    /\ UNCHANGED <<unix, answer, probe, screen, child>>

\* Two calls prepare the attribute list; a failure of either ends the probe.
MakeAttributes ==
    /\ \/ /\ Fail("attributes", "process_failed")
          /\ Closes({"in_write", "out_read", "job", "console"})
       \/ /\ Goto("attributes", "create") /\ UNCHANGED result
          /\ handles' = handles \cup {"attributes"}
    /\ UNCHANGED <<unix, answer, probe, screen, child>>

\* The CLI runs, and a thread reads what it prints.
Launched ==
    /\ cli' = "running" /\ reader' = "reading"
    /\ UNCHANGED <<result, pipe, prints, done, raw, closed>>

\* CreateProcessW; the attribute list is deleted either way.
CreateProcess ==
    /\ \/ /\ Fail("create", "not_installed")
          /\ Closes({"attributes", "in_write", "out_read", "job", "console"})
          /\ UNCHANGED <<screen, child>>
       \/ /\ Goto("create", "loop") /\ Launched
          /\ handles' = (handles \ {"attributes"}) \cup {"process"}
    /\ UNCHANGED <<unix, answer, probe>>

\* openpty, its reader and its writer, and the child; values are dropped.
SpawnUnix ==
    /\ \/ /\ \E status \in {"process_failed", "not_installed"} : Fail("pty", status)
          /\ UNCHANGED <<handles, screen, child>>
       \/ /\ Goto("pty", "loop") /\ Launched
          /\ handles' = {"in_write", "out_read", "console", "process"}
    /\ UNCHANGED <<unix, answer, probe>>

(* -- what the screen says ------------------------------------------------ *)

Shows(text, kind) == \E i \in DOMAIN text : text[i].kind = kind

\* screen_failure: the reasons with a phrase on the screen; the first counts.
Failures(text) == {i \in DOMAIN Reasons : Shows(text, Reasons[i])}

\* startup_ready: nothing follows the last prompt.
StartupReady(text) == text # <<>> /\ Last(text).kind = "prompt"

\* complete_usage_windows: both windows, and after the last "refreshing"
\* (a screen reader's panel is appended, not replaced) a weekly one.
UsageComplete(text) ==
    /\ Shows(text, "session") /\ Shows(text, "week")
    /\ \A i \in DOMAIN text : text[i].kind = "refreshing" =>
          \E j \in i + 1..Len(text) : text[j].kind = "week"

(* -- the loop ------------------------------------------------------------ *)

\* The deadline is checked; a snapshot is taken after a sleep.
Look ==
    /\ IF late
       THEN /\ Goto("loop", "stop") /\ done' = TRUE
            /\ idle' = 0 /\ UNCHANGED <<seen, changed>>
       ELSE /\ Goto("loop", "decide") /\ seen' = raw /\ UNCHANGED done
            /\ idle' = IF changed THEN 0 ELSE idle
            /\ changed' = FALSE
    /\ UNCHANGED <<unix, handles, sent, asked, late, result, reader, raw, closed, child,
                   answer>>

\* The loop is left with this status; its local values are gone.
Break(status) ==
    /\ Goto("decide", "stop")
    /\ result' = status /\ done' = TRUE /\ seen' = <<>> /\ idle' = 0

Continue == Goto("decide", "loop") /\ seen' = <<>> /\ UNCHANGED <<result, done, idle>>

\* In the loop a closed capture implies that the CLI has ended.
DecideFailed ==
    \/ \E i \in Failures(seen) :
          (\A j \in Failures(seen) : i <= j) /\ Break(Reasons[i])
    \/ Failures(seen) = {} /\ cli # "running" /\ Break("process_failed")

\* Before /usage was typed.
DecideStartup ==
    /\ Failures(seen) = {} /\ cli = "running" /\ ~sent
    /\ \/ /\ StartupReady(seen) /\ idle >= 1
          /\ Goto("decide", "clear") /\ asked' = Last(seen).n
          /\ seen' = <<>> /\ idle' = 0 /\ UNCHANGED <<result, done>>
       \/ /\ ~(StartupReady(seen) /\ idle >= 1) /\ seen # <<>> /\ idle = 2
          /\ Break("unsupported_output") /\ UNCHANGED asked
       \/ /\ ~(StartupReady(seen) /\ idle >= 1) /\ ~(seen # <<>> /\ idle = 2)
          /\ Continue /\ UNCHANGED asked

\* After it.
DecideUsage ==
    /\ Failures(seen) = {} /\ cli = "running" /\ sent
    /\ \/ /\ idle >= 1 /\ UsageComplete(seen)
          /\ Goto("decide", "escape") /\ result' = "supported"
          /\ idle' = 0 /\ UNCHANGED <<done, seen>>
       \/ /\ idle >= 1 /\ ~UsageComplete(seen)
          /\ seen # <<>> /\ ~Shows(seen, "refreshing")
          /\ Break("unsupported_output")
       \/ /\ idle = 0 \/ (~UsageComplete(seen)
                             /\ (seen = <<>> \/ Shows(seen, "refreshing")))
          /\ Continue

Decide ==
    /\ \/ (DecideFailed \/ DecideUsage) /\ UNCHANGED asked
       \/ DecideStartup
    /\ UNCHANGED <<unix, handles, sent, late, changed, reader, raw, closed, child,
                   answer>>

\* Mutant: the question is typed without dropping the text first.
ClearNothing ==
    /\ Goto("clear", "send")
    /\ UNCHANGED <<unix, handles, result, answer, probe, screen, child>>

\* The startup text the reader has captured is dropped; what the CLI has printed
\* by now and the reader takes later is captured with the answer.
Clear ==
    /\ Goto("clear", "send")
    /\ raw' = <<>>
    /\ UNCHANGED <<unix, handles, result, answer, probe, done, reader, closed, child>>

\* Either the question is typed, or the write fails.
SendUsage ==
    /\ \/ /\ Goto("send", "loop")
          /\ sent' = TRUE
          /\ UNCHANGED <<result, done>>
       \/ /\ Goto("send", "stop")
          /\ result' = "process_failed" /\ done' = TRUE
          /\ UNCHANGED sent
    /\ UNCHANGED <<unix, handles, asked, idle, seen, late, changed, reader, raw, closed,
                   child, answer>>

(* -- leaving ------------------------------------------------------------- *)

\* A write fails: the exit counts as failed.
NotLeft(from) ==
    Goto(from, "stop") /\ result' = "process_failed" /\ done' = TRUE

\* ESC closes the panel; 150 ms later /exit is typed.
Escape ==
    /\ \/ Goto("escape", "exit") /\ UNCHANGED <<result, done>>
       \/ NotLeft("escape")
    /\ UNCHANGED <<unix, handles, answer, probe, reader, raw, closed, child>>

TypeExit ==
    /\ \/ Goto("exit", "leaving") /\ UNCHANGED <<result, done>>
       \/ NotLeft("exit")
    /\ UNCHANGED <<unix, handles, answer, probe, reader, raw, closed, child>>

\* The CLI has left; Unix asks for its success too.  EXIT_TIMEOUT may pass.
LeftCleanly == cli = "ok" \/ (~unix /\ cli = "failed")

\* Mutant: the panel is enough, the exit is not awaited.
AwaitNothing ==
    /\ Goto("leaving", "stop") /\ done' = TRUE
    /\ UNCHANGED <<unix, handles, result, answer, probe, reader, raw, closed, child>>

AwaitExit ==
    /\ \/ LeftCleanly /\ Goto("leaving", "stop") /\ done' = TRUE /\ UNCHANGED result
       \/ ~LeftCleanly /\ NotLeft("leaving")
    /\ UNCHANGED <<unix, handles, answer, probe, reader, raw, closed, child>>

(* -- cleaning up --------------------------------------------------------- *)

\* wait_or_terminate, or kill and wait.
Stop ==
    /\ Goto("stop", "close")
    /\ cli' = IF cli = "running" THEN "killed" ELSE cli
    /\ raw' = <<>>                 \* read by nobody after the loop
    /\ UNCHANGED <<unix, handles, result, answer, probe, done, reader, closed, pipe, prints>>

\* The writer, the job, the console and the process are dropped.
Close ==
    /\ Goto("close", "join")
    /\ Closes({"in_write", "job", "console", "process"})
    /\ UNCHANGED <<unix, result, answer, probe, screen, child>>

Join ==
    /\ Goto("join", "answer") /\ reader = "ended"
    /\ UNCHANGED <<unix, handles, result, answer, probe, screen, child>>

\* fetch_quota names the failure, or asks for the account.
Answer ==
    /\ \/ /\ result # "supported" /\ Goto("answer", "returned")
          /\ answer' = CASE result = "blocked_prompt" -> "workspace_trust_required"
                         [] OTHER -> result
          /\ UNCHANGED handles
       \/ /\ result = "supported" /\ Goto("answer", "account")
          /\ handles' = handles \cup {"auth_status"} /\ UNCHANGED answer
    /\ UNCHANGED <<unix, result, probe, screen, child>>

\* auth status answers, fails or is killed after 5 s: the quota is fresh anyway.
Account ==
    /\ Goto("account", "returned")
    /\ Closes({"auth_status"}) /\ answer' = "fresh"
    /\ UNCHANGED <<unix, result, probe, screen, child>>

(* -- the reader's thread ------------------------------------------------- *)

\* Its end of the pipe is closed.
EndReader ==
    /\ reader' = "ended" /\ closed' = TRUE /\ Closes({"out_read"})

\* ScreenCapture::append: what no longer fits is dropped at the front.
Captured(text, chunk) ==
    LET all == text \o <<chunk>>
    IN  IF Len(all) > MaxCapture THEN Tail(all) ELSE all

\* The flag is looked at between two reads; after the loop nobody reads the
\* capture.
ReaderReads ==
    /\ reader = "reading" /\ pipe # <<>>
    /\ pipe' = <<>> /\ changed' = TRUE
    /\ IF done
       THEN EndReader /\ UNCHANGED raw
       ELSE /\ raw' = Captured(raw, Head(pipe))
            /\ UNCHANGED <<reader, closed, handles>>
    /\ UNCHANGED <<unix, stage, result, answer, sent, asked, idle, late, seen, done, cli,
                   prints>>

\* The terminal's output ends with the CLI on Unix, with the console on Windows.
OutputEnded == IF unix THEN cli # "running" ELSE "console" \notin handles

ReaderEnds ==
    /\ reader = "reading" /\ pipe = <<>> /\ OutputEnded
    /\ EndReader
    /\ UNCHANGED <<raw, pipe, changed>>
    /\ UNCHANGED <<unix, stage, result, answer, sent, asked, idle, late, seen, done, cli,
                   prints>>

(* -- the CLI and the clock ----------------------------------------------- *)

CliPrints ==
    /\ cli = "running" /\ reader # "ended" /\ pipe = <<>> /\ prints < MaxPrints
    /\ prints' = prints + 1
    /\ \E kind \in Kinds : pipe' = <<[kind |-> kind, n |-> prints']>>
    /\ UNCHANGED <<unix, stage, handles, result, answer, probe, screen, cli>>

CliExits ==
    /\ cli = "running"
    /\ cli' \in {"ok", "failed"}
    /\ UNCHANGED <<unix, stage, handles, result, answer, probe, screen, pipe, prints>>

\* Time passes while the loop sleeps.
Quiet ==
    /\ stage = "loop" /\ idle < 2
    /\ idle' = idle + 1
    /\ UNCHANGED <<unix, stage, handles, result, answer, sent, asked, late, changed, seen,
                   screen, child>>

Deadline ==
    /\ stage \in {"loop", "decide"} /\ ~late
    /\ late' = TRUE
    /\ UNCHANGED <<unix, stage, handles, result, answer, sent, asked, idle, changed, seen,
                   screen, child>>

Probe ==
    \/ Resolve \/ OpenPipes \/ OpenConsole \/ MakeAttributes \/ CreateProcess
    \/ SpawnUnix \/ Look \/ Decide \/ Clear \/ SendUsage \/ Escape \/ TypeExit
    \/ AwaitExit \/ Stop \/ Close \/ Join \/ Answer \/ Account

Reader == ReaderReads \/ ReaderEnds

Returned == stage = "returned" /\ UNCHANGED vars

Next == Probe \/ Reader \/ CliPrints \/ CliExits \/ Quiet \/ Deadline \/ Returned

Spec == Init /\ [][Next]_vars

\* Both threads run and time passes; the CLI may hang.
FairSpec ==
    Spec /\ WF_vars(Probe) /\ WF_vars(Reader) /\ WF_vars(Deadline)

(***************************************************************************)
(* Properties                                                              *)
(***************************************************************************)

\* Every read ends, whatever the CLI prints and whenever it hangs or dies:
\* the CLI does not run, the reader's thread has been joined and no pipe,
\* job, console or process handle is left, also when a step of the opening
\* failed (claude.rs:345-513, 846-864).
ProbeEndsClean ==
    <>[](stage = "returned" /\ handles = {} /\ cli # "running"
                            /\ reader \in {"none", "ended"})

\* Windows are reported only from a screen with both windows and none of the
\* phrases of a failure, and all of it was printed after the screen for which
\* the question was typed: a panel that was there before is not an answer
\* (claude.rs:783, 814).  What the CLI prints between that screen and the
\* question does count when the reader takes it after the clear, although the
\* comment at claude.rs:783 excludes all startup text.
UsageComesFromAnswer ==
    result = "supported" =>
        /\ sent /\ UsageComplete(seen) /\ Failures(seen) = {}
        /\ \A i \in DOMAIN seen : seen[i].n > asked

\* A quota is reported as fresh only if the CLI left by itself: one that had
\* to be killed, or that failed on Unix, makes the read a failure
\* (claude.rs:814-845).
FreshMeansItLeft ==
    answer = "fresh" => result = "supported" /\ (cli = "ok" \/ (~unix /\ cli = "failed"))
=============================================================================
