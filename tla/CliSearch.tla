------------------------------ MODULE CliSearch ------------------------------
(***************************************************************************)
(* Which program a provider starts (src/apps/rust/src/providers/mod.rs and *)
(* cli.rs) and how Windows is told its arguments (win_hidden_pty in        *)
(* providers/claude.rs).  A program is [dir, base, ext]: dir is Here for a *)
(* bare name.  A machine has a platform, the directories of the user's     *)
(* path (an empty one, which means the current directory, is not           *)
(* modelled), the variables that are defined, home (does it know the       *)
(* user's home directory?), the directories whose name cannot be part of a *)
(* PATH (broken), and files: a map from programs to "program", "plain" (a  *)
(* file one may not execute) or "directory".                               *)
(***************************************************************************)
EXTENDS Naturals, Sequences, SequencesExt, Sifting

CONSTANT Here       \* the directory of a name without one

NoExt == "none"

Program(dir, base, ext) == [dir |-> dir, base |-> base, ext |-> ext]

BareAntigravity == Program(Here, "antigravity", NoExt)

\* Antigravity's program is agy.
BaseOf(name) == IF name = BareAntigravity THEN "agy" ELSE name.base

\* Windows tries three extensions, then none.
Candidates(name, platform) ==
    LET base == BaseOf(name)
    IN  IF platform = "windows" /\ name.ext = NoExt
        THEN [i \in 1..4 |-> Program(Here, base, <<"exe", "cmd", "bat", NoExt>>[i])]
        ELSE <<Program(Here, base, name.ext)>>

\* Where installers put the programs, and under which variable.
Installers(platform) ==
    CASE platform = "windows" ->
           <<<<"LOCALAPPDATA", "OpenAI/Codex">>, <<"LOCALAPPDATA", "Codex">>,
             <<"ProgramFiles", "OpenAI/Codex">>, <<"USERPROFILE", ".codex">>,
             <<"LOCALAPPDATA", "pnpm">>, <<"APPDATA", "npm">>,
             <<"USERPROFILE", ".local">>, <<"LOCALAPPDATA", "agy">>,
             <<"LOCALAPPDATA", "Antigravity">>,
             <<"USERPROFILE", "antigravity-cli">>, <<"USERPROFILE", "scoop">>>>
      [] platform = "macos" ->
           <<<<"always", "/opt/homebrew/bin">>, <<"always", "/opt/homebrew/sbin">>,
             <<"always", "/usr/local/bin">>, <<"HOME", ".local">>, <<"HOME", ".cargo">>>>
      [] OTHER -> <<>>

Directory(platform) ==
    STRING \cup {Installers(platform)[i][2] : i \in DOMAIN Installers(platform)}

ASSUME HereIsNoDirectory ==
    \A platform \in {"windows", "macos", "linux"} : Here \notin Directory(platform)

\* A variable that is empty adds nothing.
PlatformDirectories(platform, defined) ==
    LET entry == Installers(platform)
        upTo[i \in 0..Len(entry)] ==
            IF i = 0 THEN <<>>
            ELSE IF entry[i][1] \in defined \cup {"always"} THEN Append(upTo[i - 1], entry[i][2])
            ELSE upTo[i - 1]
    IN  upTo[Len(entry)]

\* cli.rs lists the same directories of macOS, and asks the system for the home.
MacDirectories(machine) ==
    IF machine.platform = "macos"
    THEN PlatformDirectories("macos", IF machine.home THEN {"HOME"} ELSE {}) ELSE <<>>

At(files, program) == IF program \in DOMAIN files THEN files[program] ELSE "missing"

File == {"program", "plain"}

Executable(platform) == IF platform = "windows" THEN File ELSE {"program"}

In(dir, candidate) == [candidate EXCEPT !.dir = dir]

\* A place is a directory and a candidate.  Mutant: a candidate is looked for in
\* every directory before the next candidate is.
CandidateFirst(p, q) == p[2] < q[2] \/ (p[2] = q[2] /\ p[1] < q[1])

\* Every candidate in a directory before the next directory.
Before(p, q) == p[1] < q[1] \/ (p[1] = q[1] /\ p[2] < q[2])

\* The first place where there is one of these kinds.
FirstFound(dirs, candidates, files, kinds, default) ==
    LET found == {p \in (DOMAIN dirs) \X (DOMAIN candidates) :
                    At(files, In(dirs[p[1]], candidates[p[2]])) \in kinds}
        first == CHOOSE p \in found : \A q \in found : ~Before(q, p)
    IN  IF found = {} THEN default ELSE In(dirs[first[1]], candidates[first[2]])

SearchDirectories(machine) ==
    machine.path \o PlatformDirectories(machine.platform, machine.defined)

\* resolve_command_path: a name with a directory stays as it is.
ResolveCommandPath(command, machine) ==
    IF command.dir # Here THEN command
    ELSE FirstFound(SearchDirectories(machine), Candidates(command, machine.platform),
                    machine.files, File, Program(Here, BaseOf(command), command.ext))

\* An override that is there, and not empty, wins; a bare one is not looked for here.
ResolveCliBinary(name, override, machine) ==
    IF override # Here THEN override ELSE ResolveCommandPath(name, machine)

NearDirectories(machine) == machine.path \o MacDirectories(machine)

AppendDirectory(dirs, dir) == IF Contains(dirs, dir) THEN dirs ELSE Append(dirs, dir)

AppendDirectories(dirs, more) ==
    LET upTo[i \in 0..Len(more)] ==
            IF i = 0 THEN dirs ELSE AppendDirectory(upTo[i - 1], more[i])
    IN  upTo[Len(more)]

\* CliCommand::resolve: an explicit program is never replaced, and its wrapper
\* finds the programs next to it and in the fallback directories on PATH; the
\* PATH stays the user's if the directories cannot be joined.
CliCommand(program, machine) ==
    LET path == machine.path
        fallback == MacDirectories(machine)
        selected == IF program.dir # Here THEN program
                    ELSE FirstFound(NearDirectories(machine), <<program>>, machine.files,
                                    Executable(machine.platform), program)
        own == IF selected.dir = Here THEN path ELSE AppendDirectory(path, selected.dir)
        joined == AppendDirectories(own, fallback)
    IN  [program |-> selected,
         path |-> IF \E i \in DOMAIN joined : joined[i] \in machine.broken THEN path ELSE joined]

BackgroundCommand(program, machine) ==
    CliCommand(ResolveCommandPath(program, machine), machine)

(* -- the command line of Windows ----------------------------------------- *)

\* A character is one of these, or another one.
Slash == "backslash"
Quote == "quote"
Space == "space"
Slashes(n) == [i \in 1..n |-> Slash]

NeedsQuotes(arg) == arg = <<>> \/ \E i \in DOMAIN arg : arg[i] \in {Space, Quote}

\* append_quoted_wide: backslashes are doubled before a quote and at the end.
Quote1(s, c) ==
    CASE c = Slash -> [out |-> s.out, pending |-> s.pending + 1]
      [] c = Quote -> [out |-> s.out \o Slashes(2 * s.pending + 1) \o <<c>>, pending |-> 0]
      [] OTHER -> [out |-> s.out \o Slashes(s.pending) \o <<c>>, pending |-> 0]

Quoted(arg) ==
    LET upTo[i \in 0..Len(arg)] ==
            IF i = 0 THEN [out |-> <<Quote>>, pending |-> 0] ELSE Quote1(upTo[i - 1], arg[i])
        last == upTo[Len(arg)]
    IN  IF NeedsQuotes(arg) THEN last.out \o Slashes(2 * last.pending) \o <<Quote>> ELSE arg

CommandLine(args) ==
    LET upTo[i \in 0..Len(args)] ==
            IF i = 0 THEN <<>>
            ELSE upTo[i - 1] \o (IF i = 1 THEN <<>> ELSE <<Space>>) \o Quoted(args[i])
    IN  upTo[Len(args)]

\* A batch file is run by the command interpreter, which takes the quotes off that
\* the code puts around the text of its command.
IsBatch(ext) == ext \in {"cmd", "bat"}

WindowsCommandLine(ext, comspec, args) ==
    [before |-> IF IsBatch(ext)
                THEN Quoted(comspec) \o <<"/d", Space, "/s", Space, "/c", Space>> ELSE <<>>,
     text |-> CommandLine(args)]

\* The program CreateProcess starts when it is named by the command line only: up
\* to the closing quote, or else up to the first space.
NamedProgram(line) ==
    IF line[1] = Quote
    THEN SubSeq(line, 2, FirstOf({i \in DOMAIN line : i > 1 /\ line[i] = Quote}) - 1)
    ELSE SubSeq(line, 1, FirstOf({i \in DOMAIN line : line[i] = Space}) - 1)

\* What a C program's start-up code makes of a command line: 2n backslashes
\* and a quote are n backslashes and a quote that opens or closes, one more
\* makes the quote a character, and a space outside quotes ends an argument.
Flushed(s) == s.arg \o Slashes(s.pending)

\* mode: "between" arguments, in one, or in a "quoted" part of one.
Ended(s) == IF s.mode = "between" THEN s.all ELSE Append(s.all, Flushed(s))

Begun(mode) == IF mode = "between" THEN "argument" ELSE mode

Read(arg, pending, mode, all) ==
    [arg |-> arg, pending |-> pending, mode |-> mode, all |-> all]

Between(all) == Read(<<>>, 0, "between", all)

Read1(s, c) ==
    CASE c = Slash -> Read(s.arg, s.pending + 1, Begun(s.mode), s.all)
      [] c = Quote /\ s.pending % 2 = 1 ->
             Read(s.arg \o Slashes(s.pending \div 2) \o <<Quote>>, 0, s.mode, s.all)
      [] c = Quote /\ s.pending % 2 = 0 ->
             Read(s.arg \o Slashes(s.pending \div 2), 0,
                  IF s.mode = "quoted" THEN "argument" ELSE "quoted", s.all)
      [] c = Space /\ s.mode # "quoted" -> Between(Ended(s))
      [] OTHER -> Read(Append(Flushed(s), c), 0, Begun(s.mode), s.all)

ReadFrom(s, line) ==
    LET upTo[i \in 0..Len(line)] == IF i = 0 THEN s ELSE Read1(upTo[i - 1], line[i])
    IN  upTo[Len(line)]

ProgramArguments(line) == Ended(ReadFrom(Between(<<>>), line))
=============================================================================
