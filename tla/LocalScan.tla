------------------------------ MODULE LocalScan ------------------------------
(***************************************************************************)
(* The Rust scan of local token logs                                       *)
(* (src/apps/rust/src/core/local_usage).  Command line tools append lines  *)
(* with cumulative token counts to log files; a scan reads only what is    *)
(* new since the last one, which it knows from a checkpoint of each file:  *)
(* size, identity, a hash of the bytes around the offset reached, and what *)
(* the lines up to there contributed.  The checkpoints are kept in memory  *)
(* and in the index file, from which the next run of the process resumes.  *)
(*                                                                         *)
(* A line counts two bytes and an unfinished one at the end counts one.    *)
(* Identity and boundary hash are one number, the file's epoch: a file     *)
(* that is replaced or rewritten gets another one.                         *)
(***************************************************************************)
EXTENDS Naturals, Sequences, FiniteSets

CONSTANTS
    Files,          \* the log files of a provider
    Counts,         \* cumulative counts that a line may report
    MaxLines,       \* bound: lines of a file
    MaxEpoch,       \* bound: how often a file is rewritten
    NoCheckpoint    \* a file that has not been scanned

ASSUME ConstantsOK ==
    /\ IsFiniteSet(Files)
    /\ Counts \subseteq Nat \ {0}
    /\ MaxLines \in Nat
    /\ MaxEpoch \in Nat

\* A line that names token counts and cannot be parsed (or is oversized).
Bad == 0

Line == Counts \cup {Bad}

Log == [exists : BOOLEAN, epoch : 0..MaxEpoch, text : Seq(Line), tail : BOOLEAN]

\* What reading some lines comes to.
Parse == [sum : Nat, last : Nat, errors : Nat]
NothingRead == [sum |-> 0, last |-> 0, errors |-> 0]

Checkpoint == [epoch : 0..MaxEpoch, size : Nat, offset : Nat, read : Parse]

Index == [Files -> Checkpoint \cup {NoCheckpoint}]
EmptyIndex == [f \in Files |-> NoCheckpoint]

ASSUME NotScannedOK == NoCheckpoint \notin Checkpoint

VARIABLES
    log,            \* log[f]: the log file f
    phase,          \* "off" | "idle" | "scanning"
    index,          \* the checkpoints in memory
    disk,           \* the checkpoints in the index file
    section,        \* the checkpoints of the scan under way
    todo,           \* discovered files that are still to be scanned
    stat,           \* the file being scanned with its size, or NoFile
    failed,         \* files (and Root) that this scan could not read
    listed,         \* discovery succeeded
    summary,        \* the totals shown: [total, partial]
    seen            \* history: what each file held when the scan began

vars == <<log, phase, index, disk, section, todo, stat, failed, listed, summary, seen>>
scanVars == <<section, todo, stat, failed, listed, seen>>

NoFile == [file |-> {}, size |-> 0]
Nothing == [f \in Files |-> [exists |-> FALSE, epoch |-> 0, count |-> 0]]
NoSummary == [total |-> 0, partial |-> FALSE]

Size(l) == 2 * Len(l.text) + IF l.tail THEN 1 ELSE 0

-----------------------------------------------------------------------------
(* Parsing.                                                                *)

\* A line adds what its cumulative count exceeds the last one by.
AfterLine(read, line) ==
    IF line = Bad THEN [read EXCEPT !.errors = @ + 1]
    ELSE [read EXCEPT !.sum = @ + (IF line > read.last THEN line - read.last ELSE 0),
                      !.last = line]

\* Reading the lines of text after the first `from`, having read those.
ReadOn(read, text, from) ==
    LET upTo[i \in from .. Len(text)] ==
          IF i = from THEN read ELSE AfterLine(upTo[i - 1], text[i])
    IN  upTo[Len(text)]

\* Reference: what the first n lines of a log come to, read in one go.
FromScratch(text, n) == ReadOn(NothingRead, SubSeq(text, 1, n), 0)

-----------------------------------------------------------------------------
(* The command line tools.                                                 *)

Init ==
    /\ log = [f \in Files |-> [exists |-> FALSE, epoch |-> 0, text |-> <<>>, tail |-> FALSE]]
    /\ phase = "off"
    /\ index = EmptyIndex
    /\ disk = EmptyIndex
    /\ section = EmptyIndex
    /\ todo = {}
    /\ stat = NoFile
    /\ failed = {}
    /\ listed = TRUE
    /\ summary = NoSummary
    /\ seen = Nothing

\* A line is begun, or the one that was begun is finished.
WriteLine(f, line) ==
    /\ log[f].exists
    /\ Len(log[f].text) < MaxLines
    /\ log' = [log EXCEPT ![f] =
                IF log[f].tail
                  THEN [log[f] EXCEPT !.text = Append(log[f].text, line), !.tail = FALSE]
                  ELSE [log[f] EXCEPT !.tail = TRUE]]
    /\ UNCHANGED <<phase, index, disk, summary, scanVars>>

\* A file appears, or is rewritten or replaced between two scans of it.
Rewrite(f, line) ==
    /\ f \notin stat.file
    /\ log[f].epoch < MaxEpoch
    /\ log' = [log EXCEPT ![f] = [exists |-> TRUE, epoch |-> log[f].epoch + 1,
                                  text |-> <<line>>, tail |-> FALSE]]
    /\ UNCHANGED <<phase, index, disk, summary, scanVars>>

Delete(f) ==
    /\ log[f].exists
    /\ log' = [log EXCEPT ![f] = [exists |-> FALSE, epoch |-> log[f].epoch,
                                  text |-> <<>>, tail |-> FALSE]]
    /\ UNCHANGED <<phase, index, disk, summary, scanVars>>

-----------------------------------------------------------------------------
(* The process.                                                            *)

\* The validator of the index file: no checkpoint reaches beyond its file.  One
\* that does has all of them discarded, as has a file that cannot be read or parsed,
\* or that fails another check, which is left out (checkpoint.rs:16-20, 115-146).
Valid(checkpoints) ==
    \A f \in Files :
      checkpoints[f] # NoCheckpoint => 2 * checkpoints[f].offset <= checkpoints[f].size

Launch ==
    /\ phase = "off"
    /\ phase' = "idle"
    /\ index' = IF Valid(disk) THEN disk ELSE EmptyIndex
    /\ UNCHANGED <<log, disk, summary, scanVars>>

\* The process ends; what a scan under way has found is lost.
Terminate ==
    /\ phase # "off"
    /\ phase' = "off"
    /\ index' = EmptyIndex
    /\ section' = EmptyIndex
    /\ todo' = {}
    /\ stat' = NoFile
    /\ failed' = {}
    /\ listed' = TRUE
    /\ summary' = NoSummary
    /\ seen' = Nothing
    /\ UNCHANGED <<log, disk>>

\* Mutant: files that were not discovered are forgotten.
KeptIfFound(found, ok) == [f \in Files |-> IF f \in found THEN index[f] ELSE NoCheckpoint]

\* Only a complete discovery shows that a file is gone.
Kept(found, ok) ==
    [f \in Files |-> IF ok /\ f \notin found THEN NoCheckpoint ELSE index[f]]

\* A scan begins: the files are discovered, or some directory is unreadable.
BeginScan(found, ok) ==
    /\ phase = "idle"
    /\ found \subseteq {f \in Files : log[f].exists}
    /\ ok => found = {f \in Files : log[f].exists}
    /\ phase' = "scanning"
    /\ section' = Kept(found, ok)
    /\ todo' = found
    /\ failed' = {}
    /\ listed' = ok
    /\ seen' = [f \in Files |-> [exists |-> log[f].exists, epoch |-> log[f].epoch,
                              count |-> Len(log[f].text)]]
    /\ UNCHANGED <<log, index, disk, stat, summary>>

\* The size of the next file is taken.
Stat(f) ==
    /\ phase = "scanning"
    /\ stat = NoFile
    /\ f \in todo
    /\ log[f].exists
    /\ stat' = [file |-> {f}, size |-> Size(log[f])]
    /\ UNCHANGED <<log, phase, index, disk, summary, section, todo, failed, listed, seen>>

\* A file cannot be opened or read, or is gone; its checkpoint stays.
Unreadable(f) ==
    /\ phase = "scanning"
    /\ f \in todo
    /\ stat \in {NoFile, [file |-> {f}, size |-> stat.size]}
    /\ stat' = NoFile
    /\ todo' = todo \ {f}
    /\ failed' = failed \cup {f}
    /\ UNCHANGED <<log, phase, index, disk, summary, section, listed, seen>>

\* The boundary of a checkpoint at the start of a file says nothing.
SameFile(f, cp) == cp.epoch = log[f].epoch \/ cp.offset = 0

\* Mutant: the size is not compared.
UnchangedIfSame(f, cp) == cp # NoCheckpoint /\ cp.epoch = log[f].epoch

\* Nothing has changed since the checkpoint, up to the file's time stamp.
Unchanged(f, cp) ==
    /\ cp # NoCheckpoint
    /\ cp.size = stat.size
    /\ cp.epoch = log[f].epoch

\* Mutant: a file that has grown is the file that was read before.
ResumableIfGrown(f, cp) ==
    cp # NoCheckpoint /\ stat.size > cp.size /\ 2 * cp.offset <= stat.size

\* The file has grown since the checkpoint and is still the same.
Resumable(f, cp) ==
    /\ cp # NoCheckpoint
    /\ stat.size > cp.size
    /\ 2 * cp.offset <= stat.size
    /\ SameFile(f, cp)

\* The rest of the file, or all of it, is read up to its present end; the size
\* recorded is the one that was taken before.
Read(f, start) ==
    [epoch |-> log[f].epoch, size |-> stat.size, offset |-> Len(log[f].text),
     read |-> ReadOn(start.read, log[f].text, start.offset)]

Beginning == [offset |-> 0, read |-> NothingRead]

ReadFile(f, touched) ==
    LET cp == section[f] IN
    /\ phase = "scanning"
    /\ stat.file = {f}
    /\ log[f].exists
    /\ section' = [section EXCEPT ![f] =
                    IF Unchanged(f, cp) /\ ~touched THEN cp
                    ELSE Read(f, IF Resumable(f, cp) THEN cp ELSE Beginning)]
    /\ stat' = NoFile
    /\ todo' = todo \ {f}
    /\ failed' = IF section'[f].read.errors > 0 THEN failed \cup {f} ELSE failed
    /\ UNCHANGED <<log, phase, index, disk, summary, listed, seen>>

\* The sum over all checkpoints, also of files that could not be read.
Total(checkpoints) ==
    LET Known == {f \in Files : checkpoints[f] # NoCheckpoint}
        sums[S \in SUBSET Known] ==
          IF S = {} THEN 0
          ELSE LET f == CHOOSE x \in S : TRUE
               IN  checkpoints[f].read.sum + sums[S \ {f}]
    IN  sums[Known]

\* The scan ends: the summary is shown and the index saved, or not.
EndScan(saved) ==
    /\ phase = "scanning"
    /\ todo = {} /\ stat = NoFile
    /\ phase' = "idle"
    /\ index' = section
    /\ disk' = IF saved THEN section ELSE disk
    /\ summary' = [total |-> Total(section), partial |-> ~listed \/ failed # {}]
    /\ section' = EmptyIndex
    /\ failed' = {}
    /\ listed' = TRUE
    /\ seen' = Nothing
    /\ UNCHANGED <<log, todo, stat>>

-----------------------------------------------------------------------------
Tools ==
    \/ \E f \in Files, line \in Line : WriteLine(f, line) \/ Rewrite(f, line)
    \/ \E f \in Files : Delete(f)

Scan ==
    \/ \E found \in SUBSET Files, ok \in BOOLEAN : BeginScan(found, ok)
    \/ \E f \in Files : Stat(f) \/ Unreadable(f)
    \/ \E f \in Files, touched \in BOOLEAN : ReadFile(f, touched)
    \/ \E saved \in BOOLEAN : EndScan(saved)

Next == Tools \/ Launch \/ Terminate \/ Scan

Spec == Init /\ [][Next]_vars

-----------------------------------------------------------------------------
(* Properties.                                                             *)

TypeOK ==
    /\ log \in [Files -> Log]
    /\ phase \in {"off", "idle", "scanning"}
    /\ index \in Index
    /\ disk \in Index
    /\ section \in Index
    /\ todo \subseteq Files
    /\ stat \in [file : SUBSET Files, size : Nat]
    /\ failed \subseteq Files
    /\ listed \in BOOLEAN
    /\ summary \in [total : Nat, partial : BOOLEAN]
    /\ seen \in [Files -> [exists : BOOLEAN, epoch : 0..MaxEpoch, count : Nat]]

\* A checkpoint of a file that was not rewritten since says exactly what a scan
\* from scratch of the same lines would: whatever was appended, truncated,
\* replaced or unreadable in between, no line counts twice and none is skipped.
IncrementalIsExact ==
    \A f \in Files, checkpoints \in {index, section, disk} :
      LET cp == checkpoints[f] IN
      cp # NoCheckpoint /\ log[f].exists /\ cp.epoch = log[f].epoch =>
        /\ cp.offset <= Len(log[f].text)
        /\ cp.read = FromScratch(log[f].text, cp.offset)

\* A scan that reports nothing partial has read every line that was complete
\* when it began, of every file that was not rewritten or removed since, and its
\* total holds nothing of a file that was gone when it began.
CompleteScanMissesNothing ==
    [][phase = "scanning" /\ phase' = "idle" /\ ~summary'.partial =>
         \A f \in Files :
           /\ seen[f].exists /\ log[f].exists /\ seen[f].epoch = log[f].epoch =>
                /\ index'[f] # NoCheckpoint
                /\ index'[f].epoch = log[f].epoch
                /\ index'[f].offset >= seen[f].count
           /\ ~seen[f].exists => index'[f] = NoCheckpoint]_vars

\* A scan never forgets what an earlier one has read of a file that is still
\* there, however many directories and files cannot be read.
NothingIsForgotten ==
    [][phase = "scanning" /\ phase' = "idle" =>
         \A f \in Files :
           LET old == index[f]
               new == index'[f] IN
           old # NoCheckpoint /\ log[f].exists /\ old.epoch = log[f].epoch =>
             new # NoCheckpoint /\ new.offset >= old.offset]_vars

\* docs/shared-cache-contract.md:52: a file that has grown, with the same
\* identity and boundary hash, is read from the offset reached.
GrownFileIsResumed ==
    [][\A f \in Files :
         LET cp == disk[f] IN
         (/\ stat.file = {f} /\ stat'.file = {} /\ phase' = "scanning" /\ f \notin failed'
          /\ cp # NoCheckpoint
          /\ cp.epoch = log[f].epoch
          /\ stat.size > cp.size)
         => section[f] # NoCheckpoint]_vars
=============================================================================
