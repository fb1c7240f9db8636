---------------------------- MODULE MCCollections ----------------------------
(***************************************************************************)
(* The algorithms of Collections, each over a bounded set of inputs.       *)
(***************************************************************************)
EXTENDS Collections

UpTo(n, S) == UNION {[1..i -> S] : i \in 0..n}

(* -- places -------------------------------------------------------------- *)

Areas == {[x |-> x, y |-> y, width |-> w, height |-> h] :
            x \in {-1920, 0}, y \in {0, 25}, w \in {300, 1920}, h \in {1, 200, 1040}}
Anchors == {[x |-> x, y |-> y] : x \in {-1930, -700, 5, 1815}, y \in {-3, 30, 520, 1060}}
Customs == {None} \cup {[x |-> x, y |-> y] : x \in {NotFinite, -1800, 10, 5000},
                                             y \in {NotFinite, 90, 900}}
Trays == {None} \cup {[x |-> x, y |-> 1040, width |-> w, height |-> 24] :
                        x \in {NotFinite, -33, 1800, 9000}, w \in {0, 25}}

Popovers == [kind : {"place"}, area : Areas, anchor : Anchors, custom : Customs,
           requested : {NotFinite, -5, 100, 303, 304, 700, 2000}]
Icons == [kind : {"tray"}, tray : Trays, displays : {{a} : a \in Areas} \cup {{}},
          cursor : {[x |-> 7, y |-> 9]}]

(* -- status pages -------------------------------------------------------- *)

Words == {"none", "degraded_performance", "major", "critical", "under_maintenance"}
Components == [relevant : BOOLEAN, status : Words]
Incidents == [name : {"a", "b"}, status : {"resolved", "investigating"}]
Pages == [state : {"summary"}, indicator : Words, components : UpTo(2, Components),
          incidents : UpTo(1, Incidents), description : {FALSE}] \cup NoPage
OpenIncidents == [name : {"a", "b"}, ended : BOOLEAN, relevant : BOOLEAN,
                  severity : {"high", "low"}]
IncidentPages == [state : {"summary"}, incidents : UpTo(2, OpenIncidents)] \cup NoPage

Health ==
    [kind : {"health"}, provider : {"codex"}, target : {"off", "codex", "claude"},
     pages : {<<p>> : p \in Pages}]
    \cup [kind : {"health"}, provider : {"claude"}, target : {"off"},
          pages : {<<p, q>> : p \in NoPage, q \in Pages}
                  \cup {<<p, q>> : p \in Pages, q \in NoPage}]
    \cup [kind : {"health"}, provider : {"antigravity"}, target : {"off", "all"},
          pages : {<<p>> : p \in IncidentPages}]

(* -- programs and command lines ------------------------------------------ *)

Installed(platform) ==
    LET dirs == CASE platform = "windows" -> {"d1", "OpenAI/Codex", "npm"}
                  [] platform = "macos" -> {"d1", "d2", "/opt/homebrew/bin", ".local"}
                  [] OTHER -> {"d1", "d2"}
        names == {Program(d, "agy", e) : d \in dirs,
                     e \in IF platform = "windows" THEN {"exe", "cmd"} ELSE {NoExt}}
    IN  [names -> {"program", "plain", "directory", "missing"}]

Homes(platform, defined) ==
    IF platform # "macos" THEN {FALSE} ELSE IF "HOME" \in defined THEN {TRUE} ELSE BOOLEAN

Overrides == {Here} \cup {Program(d, "agy", NoExt) : d \in {"my", Here}}
                \cup {Program(Here, "agy", "exe")}

Searches == UNION {
    [kind : {"search"}, platform : {platform}, files : Installed(platform),
     path : {<<>>, <<"d1">>, <<"d2", "d1">>}, defined : {defined},
     home : Homes(platform, defined), broken : {{}, {"my", "d1", ".local"}},
     override : Overrides]
    : platform \in {"windows", "macos", "linux"},
      defined \in {{}, {"LOCALAPPDATA", "HOME"}, {"APPDATA"}}}

Letters == {"a", Space, Slash, Quote}
Interpreters == {s \in UpTo(3, Letters) : FileName(s)}
CommandLines == [kind : {"line"}, ext : {"exe"}, comspec : {<<"a">>},
                 args : {<<a>> : a \in UpTo(5, Letters)}
                        \cup (UpTo(3, Letters) \X UpTo(3, Letters))]
    \cup [kind : {"line"}, ext : {"cmd", "bat"}, comspec : Interpreters,
          args : {<<a>> : a \in UpTo(2, Letters)}]

(* -- answers ------------------------------------------------------------- *)

Full(minutes, used) == [minutes |-> minutes, used |-> used]
SlotChoices == {NoValue, Full(300, 10), Full(10080, 20), Full(NoValue, 30), Full(10080, Invalid)}

\* Two keys may have one lower-case form.
FewLimits == [id : {"spark", "other"}, codex : BOOLEAN, reserve : BOOLEAN,
              primary : SlotChoices, secondary : SlotChoices \ {Full(10080, Invalid)}]
WeeklyLimits == [id : {"spark", "other"}, codex : BOOLEAN, reserve : {FALSE},
                 primary : {NoValue, Full(10080, 20)}, secondary : {NoValue, Full(10080, 40)}]
SortedLimits == UpTo(1, FewLimits) \cup {<<a, b>> : a \in WeeklyLimits, b \in FewLimits}
LimitsAnswer == [primary : SlotChoices, secondary : SlotChoices, byId : SortedLimits]
OneLimit == [primary |-> Full(300, 10), secondary |-> Full(10080, 20), byId |-> <<>>]

Lines == [id : {0}, body : {"result"}] \cup [id : 1..3, body : {"result", "error", "neither"}]
GoodLines == <<[id |-> 1, body |-> "result"], [id |-> 2, body |-> "result"],
               [id |-> 3, body |-> "result"]>>

CodexCases ==
    [kind : {"codex"}, lines : UpTo(4, Lines), ending : {"gone", "silent"},
     signedIn : BOOLEAN, failing : {0}, limits : {OneLimit}]
    \cup [kind : {"codex"}, lines : UpTo(3, [id : 1..3, body : {"result"}]),
          ending : {"gone", "missing", "unstartable"}, signedIn : BOOLEAN, failing : 0..4,
          limits : {OneLimit}]
    \cup [kind : {"codex"}, lines : {GoodLines}, ending : {"silent"}, signedIn : {TRUE},
          failing : {0}, limits : LimitsAnswer]

FewBuckets == UpTo(2, [window : {"weekly", "5h", "monthly"}, remaining : {NoValue, Invalid, 30}])
DistinctBuckets == {b \in FewBuckets : Len(b) = 2 => b[1].window # b[2].window}
Groups == {g \in UpTo(2, [name : {"gemini", "claude-gpt", "new"},
                          buckets : DistinctBuckets]) :
              Len(g) = 2 => g[1].name # g[2].name}
Outcomes == {"ok", "timeout", "auth", "limit", "network", "missing", "process_failed"}
AntigravityCases ==
    [kind : {"antigravity"}, version : Outcomes, usage : Outcomes, expected : BOOLEAN,
     groups : UpTo(1, [name : {"gemini"}, buckets : DistinctBuckets])]
    \cup [kind : {"antigravity"}, version : {"ok"}, usage : {"ok"}, expected : {TRUE},
          groups : Groups]

(* -- screens ------------------------------------------------------------- *)

NoTime == {<<>>}
FewLines ==
    [type : {"header"}, scope : {"5h", "all", "fable"}, reset : NoTime]
    \cup [type : {"percent"}, value : {25}, word : {"used", "left", "none"}, reset : NoTime]
    \cup [type : {"percent"}, value : {140}, word : {"used"}, reset : {<<60>>}]
    \cup [type : {"promo"}, reset : {<<>>, <<90>>}]
    \cup [type : {"text"}, reset : {<<NoReset>>, <<60>>}]
Panel(scope) == [type |-> "header", scope |-> scope, reset |-> <<>>]
Screens == [kind : {"screen"}, lines : UpTo(4, FewLines)]
    \cup [kind : {"screen"},
          lines : {<<Panel(h)>> \o a
                   \o <<Panel("5h")>> \o b :
                      h \in {"5h", "all"}, a \in UpTo(2, FewLines), b \in UpTo(2, FewLines)}]

\* An hour's shift on either half of the year, half an hour's, and none.
Rules(standard, summer, from, to) ==
    [standard |-> standard, summer |-> summer, from |-> from, to |-> to]
Zones == {Rules(540, 540, 0, 0), Rules(60, 120, 87 * Day + 60, 297 * Day + 60),
          Rules(600, 660, 100 * Day - 660, 280 * Day - 600),
          Rules(-210, -150, 70 * Day + 330, 305 * Day + 270),
          Rules(660, 630, 95 * Day, 275 * Day)}
Nows == {Year, Year + 59, Year + 180 * Day + 720, 2 * Year - 1}
        \cup {Year + z.from + m : z \in Zones, m \in {-1500, -700, -1, 0, 30, 60}}
        \cup {Year + z.to + m : z \in Zones, m \in {-1500, -700, -1, 0, 30, 60}}
Times == [kind : {"time"}, type : {"time"}, hour : {0, 1, 2, 3, 11, 12, 13},
          minute : {0, 30, 59, 60}, meridiem : {"am", "pm"}, day : {0}, now : Nows, zone : Zones]
    \cup [kind : {"time"}, type : {"date"}, hour : {0, 1, 2, 3, 12}, minute : {0, 30, 60},
          meridiem : {"am", "pm"}, day : {0, 87, 100, 180, 297, 364}, now : Nows, zone : Zones]
    \cup [kind : {"time"}, type : {"duration"}, hour : {0, 30}, minute : {0, 90},
          meridiem : {"am"}, day : {0, 400}, now : Nows, zone : Zones]

MCCases == Popovers \cup Icons \cup Health \cup Searches \cup CommandLines
              \cup CodexCases \cup AntigravityCases \cup Screens \cup Times
=============================================================================
