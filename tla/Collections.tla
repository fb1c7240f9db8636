----------------------------- MODULE Collections -----------------------------
(***************************************************************************)
(* The algorithms without a state of their own, and what each promises.    *)
(* A case is an input of one of them, and stays what it is: the            *)
(* invariants say of every case what the code's answer to it is.           *)
(***************************************************************************)
EXTENDS PopoverPlace, VendorHealth, CliSearch, ProviderAnswers, ClaudeScreen

CONSTANT Cases      \* the inputs looked at

(* -- the inputs the code may get, of every size -------------------------- *)

\* An area that is not empty, and lengths that may not be numbers.
WorkArea == {a \in Rect : a.width >= 1 /\ a.height >= 1}
Length == Int \cup {NotFinite}
ChosenPlace == [x : Length, y : Length]
Bounds == [x : Length, y : Length, width : Length, height : Length]

PlaceCase == [kind : {"place"}, area : WorkArea, anchor : Point,
              custom : ChosenPlace \cup {None}, requested : Length]
TrayCase == [kind : {"tray"}, tray : Bounds \cup {None}, displays : SUBSET Rect, cursor : Point]

\* Claude's status has two addresses, that of the others one.
Component == [relevant : BOOLEAN, status : STRING]
Incident == [name : STRING, status : STRING]
OpenIncident == [name : STRING, ended : BOOLEAN, relevant : BOOLEAN, severity : STRING]
NoPage == [state : {"unreachable", "garbled"}]
StatusPage == [state : {"summary"}, indicator : STRING, components : Seq(Component),
               incidents : Seq(Incident), description : BOOLEAN]
IncidentPage == [state : {"summary"}, incidents : Seq(OpenIncident)]

HealthCase(c) ==
    CASE c.provider = "claude" -> c.pages \in Seq(StatusPage \cup NoPage)
      [] c.provider = "codex" -> c.pages \in Seq(StatusPage \cup NoPage) /\ Len(c.pages) = 1
      [] OTHER -> /\ c.provider = "antigravity"
                  /\ c.pages \in Seq(IncidentPage \cup NoPage) /\ Len(c.pages) = 1

\* Any files anywhere and any variables; an override may be a bare name.
SearchCase(c) ==
    /\ c.platform \in {"windows", "macos", "linux"} /\ c.path \in Seq(STRING)
    /\ c.override \in [dir : STRING \cup {Here}, base : STRING, ext : STRING] \cup {Here}

\* What the app server prints and answers.
ServerLine == [id : Nat, body : {"result", "error", "neither"}]
Slot == [minutes : Nat \cup {NoValue}, used : 0..100 \cup {Invalid}] \cup {NoValue}
Limit == [id : STRING, codex : BOOLEAN, reserve : BOOLEAN, primary : Slot, secondary : Slot]
IsWeekly(slot) == slot # NoValue /\ slot.minutes = Weekly
Limits == [primary : Slot, secondary : Slot, byId : Seq(Limit)]
CodexCase(c) ==
    /\ c.lines \in Seq(ServerLine) /\ c.ending \in {"gone", "silent", "missing", "unstartable"}
    /\ c.signedIn \in BOOLEAN /\ c.failing \in 0..4 /\ c.limits \in Limits

Bucket == [window : STRING, remaining : 0..100 \cup {NoValue, Invalid}]
Group == [name : STRING, buckets : Seq(Bucket)]
AntigravityCase == [kind : {"antigravity"}, version : STRING, usage : STRING,
                    expected : BOOLEAN, groups : Seq(Group)]

Reset == {r \in Seq(Int \cup {NoReset}) : Len(r) <= 1}
ScreenLine ==
    [type : {"header"}, scope : {"5h", "all", "fable"}, reset : Reset]
    \cup [type : {"percent"}, value : Int, word : {"used", "left", "none"}, reset : Reset]
    \cup [type : {"promo", "text"}, reset : Reset]
ScreenCase == [kind : {"screen"}, lines : Seq(ScreenLine)]

\* A clock is shifted by a day at most, and no sooner than by as long again.
Shift(zone) == IF zone.summer < zone.standard THEN zone.standard - zone.summer
               ELSE zone.summer - zone.standard
Zone == {z \in [standard : Int, summer : Int, from : 0..Year - 1, to : 0..Year - 1] :
            /\ Shift(z) <= Day
            /\ \/ z.from + Shift(z) <= z.to /\ z.to + Shift(z) <= z.from + Year
               \/ Shift(z) = 0 /\ z.from = z.to}
TimeCase == [kind : {"time"}, type : {"time", "date", "duration"}, hour : Nat, minute : Nat,
             meridiem : {"am", "pm"}, day : Nat, now : Int, zone : Zone]

Character == STRING \cup {Slash, Quote, Space, "/d", "/s", "/c"}
\* The name of a file has no quote and does not end like a directory's.
FileName(name) == \A i \in DOMAIN name : name[i] # Quote /\ (i = Len(name) => name[i] # Slash)
LineCase(c) ==
    /\ c.ext \in STRING /\ c.args \in Seq(Seq(Character))
    /\ c.comspec \in Seq(Character) /\ FileName(c.comspec)

ASSUME CasesOK ==
    \A c \in Cases :
        /\ c.kind = "place" => c \in PlaceCase
        /\ c.kind = "tray" => c \in TrayCase
        /\ c.kind = "health" => HealthCase(c)
        /\ c.kind = "search" => SearchCase(c)
        /\ c.kind = "line" => LineCase(c)
        /\ c.kind = "codex" => CodexCase(c)
        /\ c.kind = "antigravity" => c \in AntigravityCase
        /\ c.kind = "screen" => c \in ScreenCase
        /\ c.kind = "time" => c \in TimeCase /\ (c.type = "date" => c.day <= 364)

VARIABLE case

Init == case \in Cases

Next == UNCHANGED case

Spec == Init /\ [][Next]_case

(***************************************************************************)
(* Properties                                                              *)
(***************************************************************************)

\* At every size of its content the popover stays inside the work area of its
\* screen; it hangs on the edge nearest to the icon; a place the user chose is
\* kept whenever it fits, and never leaves the screen when it does not
\* (position.rs:119-221).
PopoverOnScreen ==
    /\ case.kind = "place" =>
         LET size == Dimensions(case.requested, case.area)
             place == Place(case.requested, case.custom, case.anchor, case.area)
             d == Distances(case.anchor, case.area)
         IN  /\ Inside(place, size, case.area)
             /\ case.custom = None =>
                  \E edge \in DOMAIN d : /\ \A other \in DOMAIN d : d[edge] <= d[other]
                                        /\ Touches(place, size, case.area, edge)
             /\ (/\ case.custom # None
                 /\ NotFinite \notin {case.custom.x, case.custom.y}
                 /\ Inside(case.custom, size, case.area)) => place = case.custom
    /\ case.kind = "tray" =>
         LET point == Anchor(case.tray, case.displays, case.cursor)
         IN  point = case.cursor
             \/ /\ case.tray # None /\ \E d \in case.displays : Overlaps(case.tray, d)
                /\ point.x \in case.tray.x..case.tray.x + case.tray.width
                /\ point.y \in case.tray.y..case.tray.y + case.tray.height

ShowsTheWorst(status, page) ==
    LET signals == {Meaning(page.indicator)}
                   \cup {Meaning(page.components[i].status) :
                           i \in {j \in DOMAIN page.components : page.components[j].relevant}}
    IN  /\ status.indicator \in signals
        /\ \A s \in signals : Rank[s] <= Rank[status.indicator]
        /\ status.incident # "none" =>
             \E i \in DOMAIN page.incidents : /\ page.incidents[i].name = status.incident
                                              /\ Ongoing(page.incidents[i])

NeverHidesAnIncident(status, page) ==
    (status.indicator = "operational") =
        (\A i \in DOMAIN page.incidents :
            page.incidents[i].ended \/ ~page.incidents[i].relevant)

\* Of a status page the signal shown is the worst of the page and of the provider's
\* components; a page that cannot be read never passes for a healthy one; an open
\* incident of Google's AI is never shown as operational, although the first one
\* found decides how severe it looks, not the worst (vendor_health.rs:72-333).
WorstSignalShown ==
    case.kind = "health" =>
        LET status == VendorStatus(case.provider, case.target, case.pages)
            readable == {i \in DOMAIN case.pages : Readable(case.pages[i])}
        IN  IF Simulated(case.target, case.provider) # "none"
            THEN Rank[status.indicator] >= 2
            ELSE IF readable = {} THEN status.indicator = "unknown"
            ELSE \E first \in readable :
                    /\ \A i \in readable : first <= i
                    /\ IF case.provider = "antigravity"
                       THEN NeverHidesAnIncident(status, case.pages[first])
                       ELSE ShowsTheWorst(status, case.pages[first])

\* The first of the files of some kinds, by directory and then by extension.
IsFirst(program, dirs, base, exts, kinds, files) ==
    LET is(d, e) == At(files, Program(dirs[d], base, exts[e])) \in kinds
    IN  \E d \in DOMAIN dirs, e \in DOMAIN exts :
          /\ program = Program(dirs[d], base, exts[e]) /\ is(d, e)
          /\ \A i \in DOMAIN dirs, j \in DOMAIN exts : is(i, j) => d < i \/ (d = i /\ e <= j)

NoneIs(dirs, base, exts, kinds, files) ==
    \A d \in DOMAIN dirs, e \in DOMAIN exts :
        At(files, Program(dirs[d], base, exts[e])) \notin kinds

\* An explicit program is started as it is, although nothing is there; of a bare
\* name the first file of the search is, PATH before the installers' directories
\* and .exe before the wrappers, or else what may be executed in the directories
\* of macOS, or else the bare name.  The first file is taken on Unix also when it
\* may not be executed (is_file, mod.rs:155): a program behind it is not reached,
\* whatever cli.rs:60-73 and its test at cli.rs:155-176 refuse.
StartsTheFirst(program, wanted, machine) ==
    LET exts == IF machine.platform = "windows" /\ wanted.ext = NoExt
                THEN <<"exe", "cmd", "bat", NoExt>> ELSE <<wanted.ext>>
        dirs == SearchDirectories(machine)
        near == NearDirectories(machine)
        able == Executable(machine.platform)
        base == BaseOf(wanted)
    IN  IF wanted.dir # Here THEN program = wanted
        ELSE \/ IsFirst(program, dirs, base, exts, File, machine.files)
             \/ /\ NoneIs(dirs, base, exts, File, machine.files)
                /\ \/ IsFirst(program, near, base, <<wanted.ext>>, able, machine.files)
                   \/ /\ NoneIs(near, base, <<wanted.ext>>, able, machine.files)
                      /\ program = Program(Here, base, wanted.ext)

\* The PATH starts with the user's, leads to the program, and names nothing twice
\* that was added; it is the user's alone if a directory cannot be part of one.
LeadsTo(path, program, machine) ==
    \/ /\ path = machine.path
       /\ \E dir \in machine.broken : \/ Contains(machine.path, dir) \/ program.dir = dir
                                      \/ Contains(MacDirectories(machine), dir)
    \/ /\ IsPrefix(machine.path, path)
       /\ program.dir # Here => Contains(path, program.dir)
       /\ \A i \in DOMAIN path : path[i] \notin machine.broken
       /\ \A i, j \in DOMAIN path : i < j /\ Len(machine.path) < j => path[i] # path[j]

\* The program meant is started, with a PATH that leads to it; Windows gives it
\* the arguments the code meant.  A batch file needs the command interpreter, and
\* Windows finds that only if its name is quoted: the code puts no space between
\* the name and "/d" (mod.rs:109-180, cli.rs:25-50, claude.rs:275-306, 433-459).
RightProgramIsStarted ==
    /\ case.kind = "search" =>
         LET asked == ResolveCliBinary(BareAntigravity, case.override, case)
             started == BackgroundCommand(asked, case)
         IN  /\ StartsTheFirst(started.program,
                               IF case.override = Here THEN BareAntigravity ELSE case.override,
                               case)
             /\ LeadsTo(started.path, started.program, case)
    /\ case.kind = "line" =>
         LET line == WindowsCommandLine(case.ext, case.comspec, case.args)
         IN  /\ ProgramArguments(line.text) = case.args
             /\ IsBatch(case.ext) =>
                  (NamedProgram(line.before) = case.comspec <=> NeedsQuotes(case.comspec))

Card(provider, windows) ==
    PrimaryWindows(provider, windows) \o AdditionalWindows(provider, windows)

ShownOnce(card) == \A i, j \in DOMAIN card : card[i].id = card[j].id => i = j

\* A card that leaves no window out.
ShowsAll(provider, windows) ==
    LET card == Card(provider, windows)
    IN  /\ ShownOnce(card)
        /\ \A i \in DOMAIN windows : \E k \in DOMAIN card : card[k].id = windows[i].id

\* The compact row of Codex and Claude shows what their card shows first.
CompactAgrees(provider, windows) ==
    LET five == IF provider = "codex" THEN <<>> ELSE CompactFive(provider, windows)
    IN  IsPrefix(five \o CompactWeekly(provider, windows), PrimaryWindows(provider, windows))

\* Three answers came in turn: the first with each id after the one before.
AnsweredInTurn(lines) ==
    \E f \in [1..3 -> DOMAIN lines] :
        /\ f[1] < f[2] /\ f[2] < f[3]
        /\ \A id \in 1..3 :
             /\ lines[f[id]] = [id |-> id, body |-> "result"]
             /\ \A i \in DOMAIN lines :
                  lines[i].id = id /\ i < f[id] => id > 1 /\ i < f[id - 1]

\* Every slot of an answer is one fresh window, with its percentage.
OneWindowEach(windows, limits) ==
    /\ \A i \in DOMAIN windows : Fresh(windows[i]) => windows[i].from \in Given(limits)
    /\ \A place \in Given(limits) : \E i \in DOMAIN windows :
         /\ windows[i].from = place /\ windows[i].used = SlotAt(limits, place).used
         /\ \A j \in DOMAIN windows : windows[j].from = place => j = i

\* The limit whose week counts as the account's, the base limits if it is 0.
AccountLimit(limits) ==
    IF IsWeekly(limits.secondary) THEN 0
    ELSE FirstOf({k \in DOMAIN limits.byId :
                     /\ limits.byId[k].codex
                     /\ IsWeekly(limits.byId[k].primary) \/ IsWeekly(limits.byId[k].secondary)})

\* The slots no card of Codex shows: the first of the base limits, the second if
\* it is not a week, a second week of the account, and the reserve's.
LeftOut(limits, place) ==
    LET weekly == IsWeekly(SlotAt(limits, place))
    IN  IF place[1] = 0 THEN place[2] = "primary" \/ ~weekly
        ELSE /\ place[2] = "secondary" /\ weekly
             /\ IF place[1] = AccountLimit(limits)
                THEN IsWeekly(limits.byId[place[1]].primary)
                ELSE limits.byId[place[1]].reserve

\* Of limits with ids of their own the card shows every other slot.
ShowsTheRest(windows, limits) ==
    LET card == Card("codex", windows)
    IN  (\A k, l \in DOMAIN limits.byId : limits.byId[k].id = limits.byId[l].id => k = l) =>
          \A place \in Given(limits) :
            (\E i \in DOMAIN card : card[i].from = place) <=> ~LeftOut(limits, place)

\* A bucket of a group the code knows is a window.
Reports(group, bucket, window) ==
    /\ group.name \in {"gemini", "claude-gpt"} /\ bucket.window \in {"weekly", "5h"}
    /\ window.id = <<"agy", group.name, bucket.window>>
    /\ window.used = IF bucket.remaining = NoValue THEN NoValue ELSE 100 - bucket.remaining

ResetIsRight(raw, reset) ==
    IF reset = NoReset
    THEN /\ raw.type # "duration"
         /\ raw.hour \notin 1..12 \/ raw.minute > 59 \/ Shift(raw.zone) # 0
    ELSE /\ raw.type # "duration" =>
              (reset + Offset(raw.zone, reset) - Clock(raw)) % Day = 0
         /\ raw.type = "time" => /\ reset > raw.now
                                /\ reset <= raw.now + Day + Shift(raw.zone)
         /\ raw.type = "date" => /\ reset >= raw.now - Day
                                /\ reset <= raw.now + Year + Shift(raw.zone)
         /\ raw.type = "duration" => reset >= raw.now

\* A quota is fresh only after every request was written and answered, in turn,
\* to somebody signed in, with values in range.  Every slot Codex reports is one
\* window of the snapshot, the account's first, and the card shows all of them
\* but those of LeftOut: presentation.rs:50-53 drops them, also a second week of
\* the account.  Limits whose keys differ only in case get one id
\* (codex.rs:430, 454): the card shows the first of each id, and no id twice.  The
\* card of the others leaves no id out.  The percentage of a Claude window comes
\* from its last panel that named a reset, or from the last one, never from an
\* advertisement.  A reset shows the time printed on the host's clock and lies
\* ahead, within a day, a year and the shift of the clock; it is lost only if no
\* clock shows it or the host's clock is ever shifted (codex.rs:124-499,
\* antigravity.rs:81-269, claude.rs:867-1319, presentation.rs:12-56,
\* compact.rs:26-48).
AnswersAreSound ==
    /\ case.kind = "codex" =>
         LET answer == CodexAnswer(case.lines, case.ending, case.signedIn, case.failing,
                                   case.limits)
             windows == answer.windows
         IN  /\ windows[1].kind = "FiveHour" /\ windows[2].kind = "Weekly"
             /\ answer.code = "fresh" <=>
                  /\ case.signedIn /\ case.failing = 0 /\ case.ending \in {"gone", "silent"}
                  /\ \A place \in Given(case.limits) : SlotAt(case.limits, place).used # Invalid
                  /\ AnsweredInTurn(case.lines)
             /\ IF answer.code = "fresh"
                THEN OneWindowEach(windows, case.limits) /\ ShowsTheRest(windows, case.limits)
                ELSE \A i \in DOMAIN windows : ~Fresh(windows[i])
             /\ ShownOnce(Card("codex", windows)) /\ CompactAgrees("codex", windows)
    /\ case.kind = "antigravity" =>
         LET answer == AntigravityAnswer(case.version, case.usage, case.expected, case.groups)
             windows == answer.windows
         IN  /\ answer.code # "fresh" => windows = <<>>
             /\ ShowsAll("antigravity", windows)
             /\ \A i \in DOMAIN windows : \E g \in DOMAIN case.groups :
                  \E b \in DOMAIN case.groups[g].buckets :
                    Reports(case.groups[g], case.groups[g].buckets[b], windows[i])
    /\ case.kind = "screen" =>
         LET windows == UsageScreen(case.lines)
             blocks == Parsed(case.lines)
             of(scope) == {b \in DOMAIN blocks : blocks[b].scope = scope}
             timed(scope) == {b \in of(scope) : blocks[b].reset # NoReset}
             best(scope) == IF timed(scope) # {} THEN timed(scope) ELSE of(scope)
             as == ClaudeWindows(windows, KindOf)
         IN  /\ \A scope \in {"5h", "fable", "all"} :
                  IF of(scope) = {}
                  THEN \A i \in DOMAIN as : as[i].id # <<"claude", scope>>
                  ELSE \E i \in DOMAIN windows, b \in best(scope) :
                         windows[i] = blocks[b] /\ \A c \in best(scope) : c <= b
             /\ \A i \in DOMAIN windows : \E l \in DOMAIN case.lines :
                  /\ case.lines[l].type = "percent" /\ case.lines[l].value \in 0..100
                  /\ windows[i].used = Used(case.lines[l])
             /\ ShowsAll("claude", as) /\ CompactAgrees("claude", as)
    /\ case.kind = "time" =>
         ResetIsRight(case, ResetTime(case, case.now, case.zone))
=============================================================================
